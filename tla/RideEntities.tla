---------------------------- MODULE RideEntities ----------------------------
(***************************************************************************)
(* The four persistent entities of one ride and the methods that change    *)
(* them.  A row is a record; a method is a guard (Can...: where the code   *)
(* throws, the guard is false) and the row it leaves.                      *)
(*                                                                         *)
(*   DriverAssignment  assignment/driver-assignment.entity.ts              *)
(*   TransitDemand     ride/transit-demand.entity.ts                       *)
(*   Transit           ride/transit.entity.ts and ride/rules               *)
(*   TransitDetails    ride/transit-details/transit-details.entity.ts      *)
(***************************************************************************)
EXTENDS Integers, FiniteSets

CONSTANTS
  Drivers,      \* driver ids
  NoDriver,     \* the null of assignedDriver and driverId
  Addresses,    \* addresses of a pickup or a destination
  MapDistances, \* what DistanceCalculator.calculateByMap may return, in km
  NoPrice       \* the null of TransitDetails.price

ASSUME EntityAssumption ==
  /\ IsFiniteSet(Drivers)
  /\ NoDriver \notin Drivers
  /\ MapDistances \subseteq Nat
  /\ NoPrice \notin Nat

-----------------------------------------------------------------------------
(* Repository.save of TypeORM: it reads the row again, and its UPDATE sets  *)
(* the columns of the saved copy that differ from that reading; arrays are  *)
(* compared by reference, so they always differ.                            *)

ArrayColumns == {"proposed", "rejected"}

\* The row after the UPDATE of copy x, compared with seen, on top of current.
Updated(current, seen, x) ==
  [c \in DOMAIN x |->
     IF c \in ArrayColumns \/ x[c] # seen[c] THEN x[c] ELSE current[c]]

-----------------------------------------------------------------------------
(* DriverAssignment.  The two uuid arrays are only ever tested for          *)
(* membership, so they are sets; the counter that counts every push is      *)
(* kept as a number.                                                        *)

AssignmentStatus ==
  { "WAITING_FOR_DRIVER_ASSIGNMENT", "ON_THE_WAY", "CANCELLED",
    "DRIVER_ASSIGNMENT_FAILED" }

Assignment ==
  [ status   : AssignmentStatus,
    assigned : Drivers \union {NoDriver},
    proposed : SUBSET Drivers,
    rejected : SUBSET Drivers,
    awaiting : Int ]

NewAssignment ==
  [ status   |-> "WAITING_FOR_DRIVER_ASSIGNMENT",
    assigned |-> NoDriver,
    proposed |-> {},
    rejected |-> {},
    awaiting |-> 0 ]

CanCancelAssignment(a) ==
  a.status \in {"WAITING_FOR_DRIVER_ASSIGNMENT", "ON_THE_WAY"}

\* Fault: cancelling forgets to clear the assigned driver.
CancelKeepsDriver(a) ==
  [a EXCEPT !.status = "CANCELLED", !.awaiting = 0]

CancelledAssignment(a) ==
  [a EXCEPT !.status = "CANCELLED", !.assigned = NoDriver, !.awaiting = 0]

\* publishedAt is a bigint column, which the driver hands back as a string:
\* publishedAt + 300000 concatenates digits and is never in the past, so the
\* five-minute half of the condition is always false.
ShouldNotWaitForDriverAnymore(a) == a.status = "CANCELLED"

FailedAssignment(a) ==
  [a EXCEPT !.status = "DRIVER_ASSIGNMENT_FAILED", !.assigned = NoDriver,
            !.awaiting = 0]

\* Fault: whoever asks may accept, offered or not.
AcceptByAnyone(a, d) == a.assigned = NoDriver

\* Fault: a rejection is forgotten.
AcceptAfterRejection(a, d) == a.assigned = NoDriver /\ d \in a.proposed

CanAcceptBy(a, d) ==
  /\ a.assigned = NoDriver
  /\ d \in a.proposed
  /\ d \notin a.rejected

\* Fault: the status of the other enumeration is written.
AcceptedWithRideStatus(a, d) ==
  [a EXCEPT !.status = "transit_to_passenger", !.assigned = d, !.awaiting = 0]

AcceptedBy(a, d) ==
  [a EXCEPT !.status = "ON_THE_WAY", !.assigned = d, !.awaiting = 0]

\* Fault: a rejection is recorded as an acceptance.
RejectAccepts(a, d) == [a EXCEPT !.assigned = d, !.awaiting = @ - 1]

RejectedBy(a, d) ==
  [a EXCEPT !.rejected = @ \union {d}, !.awaiting = @ - 1]

\* One search round offers the ride to the drivers of every position found,
\* those who rejected excepted; a driver with several positions is pushed once
\* for each: n pushes in all.
ProposedTo(a, found, n) ==
  [a EXCEPT !.proposed = @ \union (found \ a.rejected), !.awaiting = @ + n]

-----------------------------------------------------------------------------
(* TransitDemand                                                            *)

Demand ==
  [ status  : {"waiting_for_driver_assignment", "transit_to_passenger",
               "cancelled"},
    changes : Nat ]

NewDemand == [status |-> "waiting_for_driver_assignment", changes |-> 0]

\* Fault: the counter is compared one too late.
PickupOffByOne(dm, near) ==
  near /\ dm.changes <= 3 /\ dm.status = "waiting_for_driver_assignment"

\* near: the new pickup is at most 0.25 km from the previous one.
CanChangePickup(dm, near) ==
  /\ near
  /\ dm.changes <= 2
  /\ dm.status = "waiting_for_driver_assignment"

PickupChanged(dm) == [dm EXCEPT !.changes = @ + 1]

AcceptedDemand(dm) == [dm EXCEPT !.status = "transit_to_passenger"]

CanCancelDemand(dm) == dm.status = "waiting_for_driver_assignment"

CancelledDemand(dm) == [dm EXCEPT !.status = "cancelled"]

-----------------------------------------------------------------------------
(* Transit: a row exists only from startTransit on, IN_TRANSIT with km 0.   *)

Transit == [status : {"in_transit", "completed"}, km : MapDistances \union {0}]

NewTransit == [status |-> "in_transit", km |-> 0]

\* Fault: a transit can be completed again.
CompleteAgain(t) == TRUE

CanComplete(t) == t.status = "in_transit"

CompletedAt(t, km) == [t EXCEPT !.km = km, !.status = "completed"]

NoFurtherThan(t, km, limit) ==
  /\ t.status = "in_transit"
  /\ t.km - km <= limit
  /\ km - t.km <= limit

\* OrRule of NotPublished (no row is a draft) and of the two NoFurtherThan.
CanChangeDestination(t, km) ==
  /\ t.status # "completed"
  /\ NoFurtherThan(t, km, 5) \/ NoFurtherThan(t, km, 1)

DestinationChanged(t, km) == [t EXCEPT !.km = km]

-----------------------------------------------------------------------------
(* TransitDetails: the read model the passenger sees.  The price is a       *)
(* function of the distance, and the distance stands for it.                *)

TransitStatus ==
  { "draft", "cancelled", "waiting_for_driver_assignment",
    "driver_assignment_failed", "transit_to_passenger", "in_transit",
    "completed" }

Details ==
  [ status : TransitStatus,
    driver : Drivers \union {NoDriver},
    price  : MapDistances \union {NoPrice},
    from   : Addresses,
    to     : Addresses ]

NewDetails(from, to) ==
  [ status |-> "draft", driver |-> NoDriver, price |-> NoPrice,
    from |-> from, to |-> to ]

DetailsPublished(t) == [t EXCEPT !.status = "waiting_for_driver_assignment"]
DetailsAccepted(t, d) ==
  [t EXCEPT !.status = "transit_to_passenger", !.driver = d]
DetailsStarted(t) == [t EXCEPT !.status = "in_transit"]
DetailsCancelled(t) == [t EXCEPT !.status = "cancelled"]
DetailsCompleted(t, km) == [t EXCEPT !.status = "completed", !.price = km]
DetailsPickupChanged(t, a) == [t EXCEPT !.from = a]
DetailsDestinationChanged(t, a) == [t EXCEPT !.to = a]

\* searchForPossibleDrivers always returns InvolvedDriversSummary.noneFound(),
\* whose status is DRIVER_ASSIGNMENT_FAILED.
DetailsDriversInvolved(t) == [t EXCEPT !.status = "driver_assignment_failed"]
=============================================================================
