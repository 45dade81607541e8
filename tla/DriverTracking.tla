--------------------------- MODULE DriverTracking ---------------------------
(***************************************************************************)
(* The positions of drivers and the distance they travel (tracking/        *)
(* driver-tracking.service.ts, driver-fleet/driver-report/                 *)
(* travelled-distance/travelled-distance.service.ts), on top of the        *)
(* drivers of DriverService.                                               *)
(*                                                                         *)
(* The day is cut into windows, and a driver has a slot for each window in *)
(* which the driver was seen, with the distance since the first position.  *)
(* Time advances by ticks; a place is a latitude, and drivers stay on one  *)
(* meridian.                                                               *)
(***************************************************************************)
EXTENDS DriverService, FiniteSetsExt, Functions

CONSTANTS
  Places,       \* latitudes at which drivers are seen
  Window,       \* ticks in a window (FIVE_MINUTES)
  MaxTime,      \* bound on the clock
  BorderFound   \* whether the query for the slot before the current one may
                \* find it, and whether it may not

ASSUME TrackingAssumption ==
  /\ Places \subseteq Nat /\ Places # {}
  /\ Window \in Nat \ {0}
  /\ MaxTime \in Nat
  /\ BorderFound \subseteq BOOLEAN

VARIABLES
  now,         \* the clock
  positions,   \* driver_position rows, as they were inserted
  slots,       \* travelled_distance rows, as they were inserted
  track        \* the position a call registers, and the slot it holds

trackingVars == <<positions, slots, track>>
vars == <<driverVars, pc, orderly, now, trackingVars>>

Times == 0 .. MaxTime

Position == [driver : Nat, place : Places, seenAt : Times]

Slot == [driver : Nat, beginning : Nat, last : Places, distance : Nat]

NewSlot(d, beginning, place) ==
  [driver |-> d, beginning |-> beginning, last |-> place, distance |-> 0]

SomePlace == CHOOSE p \in Places : TRUE

NoSlot == NewSlot(0, 0, SomePlace)

NoTrack ==
  [driver |-> 0, place |-> SomePlace, seenAt |-> 0, slot |-> 0,
   copy |-> NoSlot, seen |-> NoSlot, beginning |-> 0, creates |-> FALSE]

Track(r, x) == track' = [track EXCEPT ![r] = x]

Leave(r) == Goto(r, "answered") /\ Track(r, NoTrack)

-----------------------------------------------------------------------------
(* TimeSlot                                                                 *)

\* slotThatContains.
Beginning(t) == (t \div Window) * Window

End(slot) == slot.beginning + Window

\* Fault: the window is closed at its end.
EndIncluded(slot, t) == slot.beginning <= t /\ t <= End(slot)

Contains(slot, t) == slot.beginning <= t /\ t < End(slot)

EndsAt(slot, t) == End(slot) = t

IsBefore(slot, t) == End(slot) < t

-----------------------------------------------------------------------------
(* TravelledDistance                                                        *)

\* Fault: steps back count less than nothing.
SignedDistance(p, q) == q - p

DistanceTo(p, q) == IF p <= q THEN q - p ELSE p - q

\* addDistanceToSlot.
ExtendedTo(slot, place) ==
  [slot EXCEPT !.distance = @ + DistanceTo(slot.last, place), !.last = place]

\* findTravelledDistanceTimeSlotByTime: getOne may return any row that fits.
Matching(d, t) ==
  {i \in DOMAIN slots : slots[i].driver = d /\ Contains(slots[i], t)}

\* findTravelledDistanceByTimeSlotAndDriverId.
Preceding(d, beginning) ==
  {i \in DOMAIN slots :
     slots[i].driver = d /\ slots[i].beginning + Window = beginning}

\* calculateDistance of the window of a slot: it counts that slot too.
Recalculated(slot) ==
  SumFunctionOnSet([i \in DOMAIN slots |-> slots[i].distance],
                   {i \in DOMAIN slots : slots[i].driver = slot.driver /\
                                         slots[i].beginning = slot.beginning})

-----------------------------------------------------------------------------
Tick ==
  /\ now < MaxTime
  /\ now' = now + 1
  /\ orderly' = (orderly /\ Quiet)
  /\ UNCHANGED <<driverVars, pc, trackingVars>>

BeginPosition(r) ==
  /\ CanBegin(r)
  /\ \E d \in DOMAIN drivers, p \in Places, t \in Times :
       /\ Track(r, [NoTrack EXCEPT !.driver = d, !.place = p, !.seenAt = t])
       /\ orderly' = (orderly /\ Quiet /\ t = now)
  /\ Goto(r, "check")
  /\ UNCHANGED <<driverVars, positions, slots>>

CheckDriver(r) ==
  /\ pc[r] = "check"
  /\ \/ /\ drivers[track[r].driver].status = "active"
        /\ Goto(r, "insertPosition")
        /\ UNCHANGED track
     \/ /\ drivers[track[r].driver].status # "active"
        /\ Leave(r)
  /\ UNCHANGED <<driverVars, orderly, positions, slots>>

InsertPosition(r) ==
  /\ pc[r] = "insertPosition"
  /\ positions' = Append(positions,
                         [driver |-> track[r].driver, place |-> track[r].place,
                          seenAt |-> track[r].seenAt])
  /\ Goto(r, "match")
  /\ UNCHANGED <<driverVars, orderly, slots, track>>

\* The slot of the time the driver was seen, compared with the clock.
MatchSlot(r) ==
  LET x == track[r]
      found == Matching(x.driver, x.seenAt)
  IN
  /\ pc[r] = "match"
  /\ \/ \E i \in found :
          /\ Contains(slots[i], now)
          /\ Track(r, [x EXCEPT !.slot = i,
                                !.copy = ExtendedTo(slots[i], x.place)])
          /\ Goto(r, "compareSlot")
     \/ \E i \in found :
          /\ IsBefore(slots[i], now)
          /\ Track(r, [x EXCEPT !.slot = i, !.copy = slots[i]])
          /\ Goto(r, "recalculate")
     \/ /\ \E i \in found : ~Contains(slots[i], now) /\ ~IsBefore(slots[i], now)
        /\ Leave(r)
     \/ /\ found = {}
        /\ Track(r, [x EXCEPT !.beginning = Beginning(now), !.creates = TRUE])
        /\ Goto(r, "precede")
  /\ UNCHANGED <<driverVars, orderly, positions, slots>>

\* A position that comes late adds what the window has so far.
Recalculate(r) ==
  LET x == track[r] IN
  /\ pc[r] = "recalculate"
  /\ Track(r, [x EXCEPT !.copy.distance = @ + Recalculated(x.copy),
                        !.copy.last = x.place])
  /\ Goto(r, "compareSlot")
  /\ UNCHANGED <<driverVars, orderly, positions, slots>>

\* The beginning of a slot is compared as a text.  The column holds what JSON
\* makes of a time, the parameter is what the database driver makes of it.
PrecedingSlot(r) ==
  LET x == track[r]
      found == Preceding(x.driver, x.beginning)
  IN
  /\ pc[r] = "precede"
  /\ \/ /\ TRUE \in BorderFound
        /\ \E i \in found :
             /\ EndsAt(slots[i], x.seenAt)
             /\ Track(r, [x EXCEPT !.slot = i,
                                   !.copy = ExtendedTo(slots[i], x.place)])
        /\ Goto(r, "compareSlot")
     \/ /\ \/ FALSE \in BorderFound
           \/ found = {}
           \/ \E i \in found : ~EndsAt(slots[i], x.seenAt)
        /\ Goto(r, "insertSlot")
        /\ UNCHANGED track
  /\ UNCHANGED <<driverVars, orderly, positions, slots>>

\* The SELECT of a save of the slot.
CompareSlot(r) ==
  /\ pc[r] = "compareSlot"
  /\ Track(r, [track[r] EXCEPT !.seen = slots[track[r].slot]])
  /\ Goto(r, "updateSlot")
  /\ UNCHANGED <<driverVars, orderly, positions, slots>>

SavedSlot(new, seen, current) ==
  [current EXCEPT !.last = Written(new.last, seen.last, @),
                  !.distance = Written(new.distance, seen.distance, @)]

UpdateSlot(r) ==
  LET x == track[r] IN
  /\ pc[r] = "updateSlot"
  /\ slots' = [slots EXCEPT ![x.slot] = SavedSlot(x.copy, x.seen, @)]
  /\ IF x.creates
     THEN Goto(r, "insertSlot") /\ UNCHANGED track
     ELSE Leave(r)
  /\ UNCHANGED <<driverVars, orderly, positions>>

\* createSlotForNow.
InsertSlot(r) ==
  LET x == track[r] IN
  /\ pc[r] = "insertSlot"
  /\ slots' = Append(slots, NewSlot(x.driver, x.beginning, x.place))
  /\ Leave(r)
  /\ UNCHANGED <<driverVars, orderly, positions>>

-----------------------------------------------------------------------------
Init ==
  /\ DriverInit
  /\ now = 0
  /\ positions = <<>>
  /\ slots = <<>>
  /\ track = [r \in Calls |-> NoTrack]

TrackStep(r) ==
  \/ BeginPosition(r) \/ CheckDriver(r) \/ InsertPosition(r) \/ MatchSlot(r)
  \/ Recalculate(r) \/ PrecedingSlot(r) \/ CompareSlot(r) \/ UpdateSlot(r)
  \/ InsertSlot(r)

Next ==
  \/ \E r \in Calls : DriverStep(r) /\ UNCHANGED <<now, trackingVars>>
  \/ \E r \in Calls : TrackStep(r) /\ UNCHANGED now
  \/ Tick

Spec == Init /\ [][Next]_vars

-----------------------------------------------------------------------------
(* Properties                                                               *)

TrackLabels ==
  { "check", "insertPosition", "match", "recalculate", "precede",
    "compareSlot", "updateSlot", "insertSlot" }

HeldTrack ==
  [ driver : DOMAIN drivers \union {0}, place : Places, seenAt : Times,
    slot : DOMAIN slots \union {0}, copy : Slot, seen : Slot,
    beginning : Nat, creates : BOOLEAN ]

\* Rows and what calls hold have their shape.
TypeOK ==
  /\ drivers \in Seq(Driver)
  /\ pc \in [Calls -> DriverLabels \union TrackLabels]
  /\ held \in [Calls -> HeldDriver]
  /\ orderly \in BOOLEAN
  /\ now \in Times
  /\ positions \in Seq(Position)
  /\ slots \in Seq(Slot)
  /\ track \in [Calls -> HeldTrack]

\* The positions of driver d in the window that begins at b.
SeenIn(d, b) ==
  {i \in DOMAIN positions :
     positions[i].driver = d /\ Beginning(positions[i].seenAt) = b}

Step(i, j) == DistanceTo(positions[i].place, positions[j].place)

\* What a driver travelled within a window: the steps between positions that
\* follow each other in it.
Travelled(d, b) ==
  LET seen == SeenIn(d, b)
      Before(i) == {j \in seen : j < i}
  IN  SumFunctionOnSet([i \in seen |-> Step(Max(Before(i)), i)],
                       {i \in seen : Before(i) # {}})

\* The step out of the window, to a position at its very end.
Leaving(d, b) ==
  LET seen == SeenIn(d, b)
      next == SeenIn(d, b + Window)
  IN  IF seen # {} /\ next # {} /\ positions[Min(next)].seenAt = b + Window
      THEN Step(Max(seen), Min(next))
      ELSE 0

\* "Can calculate travelled distance ...": while positions are registered at
\* once and one by one, a driver has one slot for each window with a position,
\* and it adds up to the steps the positions make in it (addPosition).
PositionsAddUp ==
  orderly /\ Quiet =>
    \A d \in DOMAIN drivers, b \in {Beginning(t) : t \in Times} :
      LET mine == {i \in DOMAIN slots :
                     slots[i].driver = d /\ slots[i].beginning = b}
      IN  IF SeenIn(d, b) = {}
          THEN mine = {}
          ELSE \E i \in mine :
                 /\ mine = {i}
                 /\ slots[i].distance \in
                      {Travelled(d, b), Travelled(d, b) + Leaving(d, b)}
=============================================================================
