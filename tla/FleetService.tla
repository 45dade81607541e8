---------------------------- MODULE FleetService ----------------------------
(***************************************************************************)
(* One class of cars (car-fleet) and the drivers who log in with a car of  *)
(* it (tracking/driver-session.service.ts).                                *)
(*                                                                         *)
(* A class has two counters: the cars of the fleet, a column of its        *)
(* car_type row, and the cars logged in, a row of its own that is          *)
(* incremented in place.  Loading a type loads that row with it, and       *)
(* saving the type saves it too, if it differs from what the save finds.   *)
(*                                                                         *)
(* A handler that reads the clock finds it where it was, or one further.   *)
(***************************************************************************)
EXTENDS Integers, Sequences, FiniteSets

CONSTANTS
  Calls,      \* calls of the two services that may be in progress at once
  Drivers,    \* driver ids
  MinCars,    \* cars needed to activate the class
  NoRow,      \* a row that does not exist
  MaxCalls,   \* bound on the calls begun
  MaxClock    \* bound on the clock, which stands still there

\* A row of car_type.
Type == [active : BOOLEAN, cars : Int]

ASSUME FleetAssumption ==
  /\ MinCars \in Nat
  /\ MaxCalls \in Nat
  /\ MaxClock \in Nat
  /\ NoRow \notin Nat \union Type

VARIABLES
  type,       \* the car_type row
  active,     \* the activeCarsCounter of the class
  sessions,   \* driver_session rows
  pc,         \* where a call is
  held,       \* what it holds in memory
  clock,      \* the time last read
  begun,      \* calls begun
  net,        \* history: cars registered less cars unregistered
  counted,    \* history: logins counted
  orderly     \* history: no two calls overlapped, and no crash

tables == <<type, active, sessions>>
history == <<net, counted, orderly>>
vars == <<tables, pc, held, clock, begun, history>>

\* A type in memory, with the counter that was loaded with it.
Copy == [active : BOOLEAN, cars : Int, counter : Int]

\* loggedOutAt is NULL, here NoRow, until the driver logs out.
Session == [driver : Drivers, loggedAt : Nat, loggedOutAt : Nat \union {NoRow}]

Blank ==
  [op |-> "none", driver |-> NoRow, session |-> 0, time |-> NoRow,
   copy |-> NoRow, seen |-> NoRow]

InProgress(r) == pc[r] # "idle"
Quiet == \A r \in Calls : ~InProgress(r)

Goto(r, label) == pc' = [pc EXCEPT ![r] = label]
Hold(r, x) == held' = [held EXCEPT ![r] = x]

\* What Date.now() may answer; the reader leaves the clock there.
Now == {t \in {clock, clock + 1} : t <= MaxClock}

Finish(r) == Goto(r, "idle") /\ Hold(r, Blank)
Throw(r) == Finish(r) /\ UNCHANGED <<tables, clock, history>>

-----------------------------------------------------------------------------
TypeOperations ==
  {"registerCar", "unregisterCar", "activate", "deactivate"}

LogOuts == {"logOut", "logOutCurrent"}

Start(r, label, x) == Goto(r, label) /\ Hold(r, x)

Begin(r) ==
  /\ pc[r] = "idle"
  /\ begun < MaxCalls
  /\ begun' = begun + 1
  /\ orderly' = (orderly /\ Quiet)
  /\ \/ /\ Start(r, "create", [Blank EXCEPT !.op = "create"])
        /\ UNCHANGED clock
     \/ /\ \E o \in TypeOperations :
             Start(r, "loadType", [Blank EXCEPT !.op = o])
        /\ UNCHANGED clock
     \/ \E d \in Drivers, t \in Now :
          /\ clock' = t
          /\ Start(r, "countLogin", [Blank EXCEPT !.op = "logIn", !.driver = d,
                                                 !.time = t])
     \/ /\ \E s \in DOMAIN sessions :
             Start(r, "loadType", [Blank EXCEPT !.op = "logOut", !.session = s])
        /\ UNCHANGED clock
     \/ /\ \E d \in Drivers :
             Start(r, "findSession", [Blank EXCEPT !.op = "logOutCurrent",
                                                   !.driver = d])
        /\ UNCHANGED clock
  /\ UNCHANGED <<tables, net, counted>>

-----------------------------------------------------------------------------
(* CarTypeService                                                           *)

Loaded == [active |-> type.active, cars |-> type.cars, counter |-> active]

\* create of a class that exists saves its new description.
Create(r) ==
  /\ pc[r] = "create"
  /\ IF type = NoRow
     THEN Goto(r, "insertCounter") /\ UNCHANGED held
     ELSE Start(r, "compare", [held[r] EXCEPT !.copy = Loaded])
  /\ UNCHANGED <<tables, clock, history>>

\* The transaction of create does not hold these two statements.
InsertCounter(r) ==
  /\ pc[r] = "insertCounter"
  /\ active' = IF active = NoRow THEN 0 ELSE active
  /\ Goto(r, "insertType")
  /\ UNCHANGED <<type, sessions, held, clock, history>>

\* A second row of the class violates a unique constraint.
InsertType(r) ==
  /\ pc[r] = "insertType"
  /\ type' = IF type = NoRow THEN [active |-> FALSE, cars |-> 0] ELSE type
  /\ Finish(r)
  /\ UNCHANGED <<active, sessions, clock, history>>

\* Fault: the number of cars is checked before it is decremented.
AllowedTooLate(o, t) ==
  CASE o \in {"unregisterCar"} \union LogOuts -> t.cars >= 0
    [] o = "activate"                         -> t.cars >= MinCars
    [] OTHER                                  -> TRUE

\* unregisterCar and activate throw otherwise.
Allowed(o, t) ==
  CASE o \in {"unregisterCar"} \union LogOuts -> t.cars > 0
    [] o = "activate"                         -> t.cars >= MinCars
    [] OTHER                                  -> TRUE

\* Logging out unregisters a car of the fleet as well.
Change(o) ==
  CASE o = "registerCar"                      -> 1
    [] o \in {"unregisterCar"} \union LogOuts -> -1
    [] OTHER                                  -> 0

Changed(o, t) ==
  [t EXCEPT !.cars = @ + Change(o),
            !.active = CASE o = "activate"   -> TRUE
                         [] o = "deactivate" -> FALSE
                         [] OTHER            -> @]

LoadType(r) ==
  /\ pc[r] = "loadType"
  /\ IF type # NoRow /\ Allowed(held[r].op, type)
     THEN /\ Start(r, "compare",
                   [held[r] EXCEPT !.copy = Changed(held[r].op, Loaded)])
          /\ UNCHANGED <<tables, clock, history>>
     ELSE Throw(r)

\* The SELECTs of a save of the type.
Compare(r) ==
  /\ pc[r] = "compare"
  /\ Start(r, "update", [held[r] EXCEPT !.seen = Loaded])
  /\ UNCHANGED <<tables, clock, history>>

\* Fault: the last car is never written off, its zero taken for no value.
WrittenUnlessZero(r, c, current) ==
  IF /\ held[r].copy[c] # held[r].seen[c]
     /\ c = "cars" => held[r].copy[c] # 0
  THEN held[r].copy[c]
  ELSE current

\* Column c, whose value is current, after the UPDATE of a save.
Written(r, c, current) ==
  IF held[r].copy[c] # held[r].seen[c] THEN held[r].copy[c] ELSE current

\* A log-out goes on to save the session.
EndsTheCall(r) == held[r].op \notin LogOuts

Update(r) ==
  /\ pc[r] = "update"
  /\ type' = [active |-> Written(r, "active", type.active),
              cars   |-> Written(r, "cars", type.cars)]
  /\ active' = Written(r, "counter", active)
  /\ net' = net + Change(held[r].op)
  /\ IF EndsTheCall(r)
     THEN Finish(r)
     ELSE Goto(r, "closeSession") /\ UNCHANGED held
  /\ UNCHANGED <<sessions, clock, counted, orderly>>

-----------------------------------------------------------------------------
(* DriverSessionService                                                     *)

\* Fault: a login is taken for a log-out.
Decremented(n) == n - 1

Incremented(n) == n + 1

\* registerActiveCar: an UPDATE that finds no row changes nothing.
CountLogin(r) ==
  /\ pc[r] = "countLogin"
  /\ IF active = NoRow
     THEN UNCHANGED <<active, counted>>
     ELSE active' = Incremented(active) /\ counted' = counted + 1
  /\ Goto(r, "insertSession")
  /\ UNCHANGED <<type, sessions, held, clock, net, orderly>>

InsertSession(r) ==
  /\ pc[r] = "insertSession"
  /\ sessions' = Append(sessions, [ driver |-> held[r].driver,
                                    loggedAt |-> held[r].time,
                                    loggedOutAt |-> NoRow ])
  /\ Finish(r)
  /\ UNCHANGED <<type, active, clock, history>>

OpenSessions(d) ==
  { s \in DOMAIN sessions :
      sessions[s].driver = d /\ sessions[s].loggedOutAt = NoRow }

\* Fault: the sessions are not ordered by loggedAt.
AnySession(d) == OpenSessions(d)

\* findTop... OrderByLoggedAtDesc
LatestSessions(d) ==
  { s \in OpenSessions(d) :
      \A q \in OpenSessions(d) : sessions[q].loggedAt <= sessions[s].loggedAt }

\* The time of the log-out is taken before the car is unregistered.
FindSession(r) ==
  /\ pc[r] = "findSession"
  /\ \/ \E s \in LatestSessions(held[r].driver), t \in Now :
          /\ Start(r, "loadType", [held[r] EXCEPT !.session = s, !.time = t])
          /\ clock' = t
          /\ UNCHANGED <<tables, history>>
     \/ OpenSessions(held[r].driver) = {} /\ Throw(r)

\* logOut, which has the id of the session, takes the time only now.  It asks
\* nothing of the session, which may have been closed before.
CloseSession(r) ==
  /\ pc[r] = "closeSession"
  /\ \E t \in IF held[r].op = "logOut" THEN Now ELSE {held[r].time} :
       /\ sessions' = [sessions EXCEPT ![held[r].session].loggedOutAt = t]
       /\ clock' = IF t > clock THEN t ELSE clock
  /\ Finish(r)
  /\ UNCHANGED <<type, active, history>>

-----------------------------------------------------------------------------
\* The server dies and is started again.
Crash ==
  /\ ~Quiet
  /\ pc' = [r \in Calls |-> "idle"]
  /\ held' = [r \in Calls |-> Blank]
  /\ orderly' = FALSE
  /\ UNCHANGED <<tables, clock, begun, net, counted>>

Init ==
  /\ type = NoRow
  /\ active = NoRow
  /\ sessions = <<>>
  /\ pc = [r \in Calls |-> "idle"]
  /\ held = [r \in Calls |-> Blank]
  /\ clock = 0
  /\ begun = 0
  /\ net = 0
  /\ counted = 0
  /\ orderly = TRUE

Step(r) ==
  \/ Create(r) \/ InsertCounter(r) \/ InsertType(r)
  \/ LoadType(r) \/ Compare(r) \/ Update(r)
  \/ CountLogin(r) \/ InsertSession(r) \/ FindSession(r) \/ CloseSession(r)

Next ==
  \/ \E r \in Calls : Begin(r) \/ (Step(r) /\ UNCHANGED begun)
  \/ Crash

Spec == Init /\ [][Next]_vars

-----------------------------------------------------------------------------
(* Properties                                                               *)

Labels ==
  { "idle", "create", "insertCounter", "insertType", "loadType", "compare",
    "update", "countLogin", "insertSession", "findSession", "closeSession" }

Held ==
  [ op : {"none", "create", "logIn"} \union TypeOperations \union LogOuts,
    driver : Drivers \union {NoRow}, session : Nat, time : Nat \union {NoRow},
    copy : Copy \union {NoRow}, seen : Copy \union {NoRow} ]

\* Rows and copies have their shape.
TypeOK ==
  /\ type \in Type \union {NoRow}
  /\ active \in Nat \union {NoRow}
  /\ sessions \in Seq(Session)
  /\ pc \in [Calls -> Labels]
  /\ held \in [Calls -> Held]
  /\ clock \in Nat /\ begun \in Nat
  /\ net \in Int /\ counted \in Nat /\ orderly \in BOOLEAN

\* "Cars counter can not be below 0": not in the table either, whatever stale
\* copies are saved (CarType.unregisterCar).
CarsCounterNotNegative == type # NoRow => type.cars >= 0

\* While calls come one by one, the cars of the fleet are those registered
\* less those unregistered by hand or by a log-out; and every login of the
\* class is counted, which saving its type does not undo.
CarsAreCounted ==
  orderly /\ Quiet =>
    /\ type # NoRow => type.cars = net
    /\ active # NoRow => active = counted

\* logOutCurrentSession closes the last session its driver opened.
LatestSessionCloses ==
  [][ \A r \in Calls :
        orderly /\ pc[r] = "closeSession" /\ held[r].op = "logOutCurrent" =>
          LET s == held[r].session IN
            \A q \in OpenSessions(sessions[s].driver) :
              sessions[q].loggedAt <= sessions[s].loggedAt ]_vars
=============================================================================
