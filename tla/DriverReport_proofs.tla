------------------------- MODULE DriverReport_proofs -------------------------
(***************************************************************************)
(* The rows of the fleet, of sessions and of rides, for any number of      *)
(* calls, drivers and rides, however the calls overlap and wherever the    *)
(* server dies.                                                            *)
(*                                                                         *)
(* A copy of a type holds what was loaded, less the car that the check     *)
(* allowed, so that whatever saves write back are natural numbers (CallOK).*)
(* The report rests on the clock: a session begins no later than a ride    *)
(* completed in it, and any time at which the session may still be closed, *)
(* read already or not, is one the clock showed no earlier (RideOK).       *)
(*                                                                         *)
(* While calls come one by one, the copy a call holds is moreover the row  *)
(* it saves (OrderlyInv): every car is counted, and the session a log-out  *)
(* has found is the last one its driver opened when it is closed.          *)
(***************************************************************************)
EXTENDS DriverReport, SequenceTheorems, TLAPS

-----------------------------------------------------------------------------
(* The inductive invariant                                                  *)

SoundCopy == {c \in Copy : c.cars >= 0 /\ c.counter >= 0}

Saving == {"compare", "update"}

Closing == {"loadType", "compare", "update", "closeSession"}

\* What a call at a label may hold, beside the type t, the counter n, the
\* sessions S and the clock c.
CallOK(label, x, t, n, S, c) ==
  /\ label = "create" => x.op = "create"
  /\ label = "insertType" => n \in Nat
  /\ label \in Saving => t \in Type /\ x.copy \in SoundCopy
  /\ label \in {"countLogin", "insertSession"} => x.driver \in Drivers /\ x.time \in Nat
  /\ label \in Closing /\ x.op \in LogOuts => x.session \in DOMAIN S
  /\ label \in Closing /\ x.op = "logOutCurrent" => x.time \in Nat
  /\ label = "closeSession" => x.op \in LogOuts
  /\ x.time # NoRow => x.time <= c

\* A class that has a type has its counter, and a car or none.
RowsOK ==
  /\ type \in Type => type.cars >= 0 /\ active \in Nat
  /\ \A s \in DOMAIN sessions : sessions[s].loggedAt <= clock

FleetInv ==
  /\ TypeOK
  /\ RowsOK
  /\ \A r \in Calls : CallOK(pc[r], held[r], type, active, sessions, clock)

Ride ==
  [ driver : Drivers, completeAt : Nat, completed : BOOLEAN,
    during : SUBSET Nat ]

\* Ride e beside the sessions S, what calls hold and the clock c.
RideOK(e, S, H, c) ==
  /\ e.completeAt <= c
  /\ \A s \in e.during :
       /\ s \in DOMAIN S
       /\ S[s].driver = e.driver
       /\ S[s].loggedAt <= e.completeAt
       /\ S[s].loggedOutAt = NoRow \/ S[s].loggedOutAt >= e.completeAt
       /\ \A r \in Calls :
            H[r].session = s /\ H[r].time # NoRow => H[r].time >= e.completeAt

RidesOK ==
  /\ rides \in Seq(Ride)
  /\ \A i \in DOMAIN rides : RideOK(rides[i], sessions, held, clock)

IInv == FleetInv /\ RidesOK

-----------------------------------------------------------------------------
(* What a step has to show                                                  *)

LEMMA BlankIsHeld ==
  /\ Blank \in Held
  /\ Blank.time = NoRow
BY DEF Blank, Held

LEMMA CallFacts ==
  ASSUME FleetInv, NEW r \in Calls
  PROVE  /\ held[r] \in Held
         /\ CallOK(pc[r], held[r], type, active, sessions, clock)
BY DEF FleetInv, TypeOK

LEMMA RowFacts ==
  ASSUME FleetInv
  PROVE  /\ clock \in Nat /\ begun \in Nat /\ net \in Int /\ counted \in Nat
         /\ orderly \in BOOLEAN
         /\ type \in Type \union {NoRow} /\ active \in Nat \union {NoRow}
         /\ sessions \in [DOMAIN sessions -> Session]
         /\ DOMAIN sessions = 1 .. Len(sessions) /\ Len(sessions) \in Nat
<1>1. sessions \in Seq(Session)
  BY DEF FleetInv, TypeOK
<1>. QED
  BY <1>1, LenProperties DEF FleetInv, TypeOK

\* Sessions S and calls H, at clock c, become T and J, at clock d: sessions are
\* added or closed, and calls take times, no earlier than the clock or at a time
\* already taken for the session.
Moves(S, T, H, J, c, d) ==
  /\ c \in Nat /\ d \in Nat /\ c <= d
  /\ DOMAIN S \subseteq DOMAIN T
  /\ \A s \in DOMAIN S :
       /\ T[s].driver = S[s].driver /\ T[s].loggedAt = S[s].loggedAt
       /\ \/ T[s].loggedOutAt = S[s].loggedOutAt
          \/ T[s].loggedOutAt \in Nat /\ T[s].loggedOutAt >= c
          \/ \E r \in Calls : /\ H[r].session = s /\ H[r].time # NoRow
                              /\ T[s].loggedOutAt = H[r].time
  /\ \A r \in Calls :
       \/ J[r].time = NoRow
       \/ J[r].time \in Nat /\ J[r].time >= c
       \/ J[r].session = H[r].session /\ J[r].time = H[r].time

\* A ride stays right.
LEMMA RideKept ==
  ASSUME NEW e \in Ride, NEW S, NEW T, NEW H, NEW J, NEW c, NEW d,
         RideOK(e, S, H, c), Moves(S, T, H, J, c, d)
  PROVE  RideOK(e, T, J, d)
<1>1. e.completeAt \in Nat /\ e.completeAt <= c
  BY DEF Ride, RideOK
<1>0. c \in Nat /\ d \in Nat /\ c <= d
  BY DEF Moves
<1>2. e.completeAt <= d
  BY <1>0, <1>1
<1>3. ASSUME NEW s \in e.during
      PROVE  /\ s \in DOMAIN T
             /\ T[s].driver = e.driver
             /\ T[s].loggedAt <= e.completeAt
             /\ T[s].loggedOutAt = NoRow \/ T[s].loggedOutAt >= e.completeAt
             /\ \A r \in Calls :
                  J[r].session = s /\ J[r].time # NoRow =>
                    J[r].time >= e.completeAt
  <2>1. /\ s \in DOMAIN S
        /\ S[s].driver = e.driver
        /\ S[s].loggedAt <= e.completeAt
        /\ S[s].loggedOutAt = NoRow \/ S[s].loggedOutAt >= e.completeAt
        /\ \A r \in Calls :
             H[r].session = s /\ H[r].time # NoRow => H[r].time >= e.completeAt
    BY DEF RideOK
  <2>0. /\ s \in DOMAIN T /\ T[s].driver = S[s].driver
        /\ T[s].loggedAt = S[s].loggedAt
        /\ \/ T[s].loggedOutAt = S[s].loggedOutAt
           \/ T[s].loggedOutAt \in Nat /\ T[s].loggedOutAt >= c
           \/ \E r \in Calls : /\ H[r].session = s /\ H[r].time # NoRow
                               /\ T[s].loggedOutAt = H[r].time
    BY <2>1 DEF Moves
  <2>2. T[s].loggedOutAt = NoRow \/ T[s].loggedOutAt >= e.completeAt
    <3>1. CASE T[s].loggedOutAt = S[s].loggedOutAt
      BY <2>1, <3>1
    <3>2. CASE T[s].loggedOutAt \in Nat /\ T[s].loggedOutAt >= c
      BY <1>0, <1>1, <3>2
    <3>3. CASE \E r \in Calls : /\ H[r].session = s /\ H[r].time # NoRow
                                /\ T[s].loggedOutAt = H[r].time
      BY <2>1, <3>3
    <3>. QED
      BY <2>0, <3>1, <3>2, <3>3
  <2>3. ASSUME NEW r \in Calls, J[r].session = s, J[r].time # NoRow
        PROVE  J[r].time >= e.completeAt
    <3>0. \/ J[r].time = NoRow
          \/ J[r].time \in Nat /\ J[r].time >= c
          \/ J[r].session = H[r].session /\ J[r].time = H[r].time
      BY DEF Moves
    <3>1. CASE J[r].time \in Nat /\ J[r].time >= c
      BY <1>0, <1>1, <3>1
    <3>2. CASE J[r].session = H[r].session /\ J[r].time = H[r].time
      BY <2>1, <2>3, <3>2
    <3>. QED
      BY <2>3, <3>0, <3>1, <3>2
  <2>. QED
    BY <2>0, <2>1, <2>2, <2>3
<1>. QED
  BY <1>2, <1>3 DEF RideOK

\* The other calls wait: what a step of call r has to show.
LEMMA StepOf ==
  ASSUME IInv, NEW r \in Calls, NEW label \in Labels, NEW x \in Held,
         pc' = [pc EXCEPT ![r] = label], held' = [held EXCEPT ![r] = x],
         type' \in Type \union {NoRow}, active' \in Nat \union {NoRow},
         type \in Type => type' \in Type, active \in Nat => active' \in Nat,
         type' \in Type => type'.cars >= 0 /\ active' \in Nat,
         sessions' \in Seq(Session), DOMAIN sessions \subseteq DOMAIN sessions',
         \A s \in DOMAIN sessions' : sessions'[s].loggedAt <= clock',
         \A s \in DOMAIN sessions :
           /\ sessions'[s].driver = sessions[s].driver
           /\ sessions'[s].loggedAt = sessions[s].loggedAt
           /\ \/ sessions'[s].loggedOutAt = sessions[s].loggedOutAt
              \/ sessions'[s].loggedOutAt \in Nat /\ sessions'[s].loggedOutAt >= clock
              \/ /\ held[r].session = s /\ held[r].time # NoRow
                 /\ sessions'[s].loggedOutAt = held[r].time,
         clock' \in Nat, clock <= clock',
         \/ x.time = NoRow
         \/ x.time \in Nat /\ x.time >= clock
         \/ x.session = held[r].session /\ x.time = held[r].time,
         CallOK(label, x, type', active', sessions', clock'),
         rides' = rides, begun' \in Nat, net' \in Int, counted' \in Nat,
         orderly' \in BOOLEAN
  PROVE  IInv'
<1>1. /\ pc'[r] = label /\ held'[r] = x
      /\ \A q \in Calls \ {r} : pc'[q] = pc[q] /\ held'[q] = held[q]
  BY DEF IInv, FleetInv, TypeOK
<1>2. TypeOK'
  <2>1. pc' \in [Calls -> Labels] /\ held' \in [Calls -> Held]
    BY DEF IInv, FleetInv, TypeOK
  <2>. QED
    BY <2>1 DEF TypeOK
<1>3. RowsOK'
  BY DEF RowsOK
<1>4. ASSUME NEW q \in Calls
      PROVE  CallOK(pc'[q], held'[q], type', active', sessions', clock')
  <2>1. CASE q = r
    BY <1>1, <2>1
  <2>2. CASE q # r
    <3>1. CallOK(pc[q], held[q], type, active, sessions, clock)
      BY DEF IInv, FleetInv
    <3>2. held[q] \in Held /\ clock \in Nat
      BY DEF IInv, FleetInv, TypeOK
    <3>3. held[q].time \in Nat \union {NoRow}
      BY <3>2 DEF Held
    <3>4. held[q].time # NoRow => held[q].time <= clock'
      BY <3>1, <3>2, <3>3 DEF CallOK
    <3>5. CallOK(pc[q], held[q], type', active', sessions', clock')
      BY <3>1, <3>4 DEF CallOK
    <3>. QED
      BY <1>1, <2>2, <3>5
  <2>. QED
    BY <2>1, <2>2
<1>5. RidesOK'
  <2>1. rides \in Seq(Ride) /\ rides \in [DOMAIN rides -> Ride]
    BY LenProperties DEF IInv, RidesOK
  <2>2. \A s \in DOMAIN sessions :
           /\ sessions'[s].driver = sessions[s].driver
           /\ sessions'[s].loggedAt = sessions[s].loggedAt
           /\ \/ sessions'[s].loggedOutAt = sessions[s].loggedOutAt
              \/ sessions'[s].loggedOutAt \in Nat /\ sessions'[s].loggedOutAt >= clock
              \/ \E q \in Calls : /\ held[q].session = s /\ held[q].time # NoRow
                                  /\ sessions'[s].loggedOutAt = held[q].time
    OBVIOUS
  <2>3. \A q \in Calls :
           \/ held'[q].time = NoRow
           \/ held'[q].time \in Nat /\ held'[q].time >= clock
           \/ held'[q].session = held[q].session /\ held'[q].time = held[q].time
    BY <1>1
  <2>4. clock \in Nat
    BY DEF IInv, FleetInv, TypeOK
  <2>6. Moves(sessions, sessions', held, held', clock, clock')
    BY <2>2, <2>3, <2>4 DEF Moves
  <2>5. ASSUME NEW i \in DOMAIN rides
        PROVE  RideOK(rides[i], sessions', held', clock')
    <3>1. RideOK(rides[i], sessions, held, clock) /\ rides[i] \in Ride
      BY <2>1 DEF IInv, RidesOK
    <3>. QED
      BY <2>6, <3>1, RideKept
  <2>. QED
    BY <2>1, <2>5 DEF RidesOK
<1>. QED
  BY <1>2, <1>3, <1>4, <1>5 DEF IInv, FleetInv

\* Steps that write no session.
LEMMA TypeStep ==
  ASSUME IInv, NEW r \in Calls, NEW label \in Labels, NEW x \in Held,
         pc' = [pc EXCEPT ![r] = label], held' = [held EXCEPT ![r] = x],
         type' \in Type \union {NoRow}, active' \in Nat \union {NoRow},
         type \in Type => type' \in Type, active \in Nat => active' \in Nat,
         type' \in Type => type'.cars >= 0 /\ active' \in Nat,
         sessions' = sessions, clock' \in Nat, clock <= clock',
         \/ x.time = NoRow
         \/ x.time \in Nat /\ x.time >= clock
         \/ x.session = held[r].session /\ x.time = held[r].time,
         CallOK(label, x, type', active', sessions, clock'),
         rides' = rides, begun' \in Nat, net' \in Int, counted' \in Nat,
         orderly' \in BOOLEAN
  PROVE  IInv'
<1>1. CallOK(label, x, type', active', sessions', clock')
  OBVIOUS
<1>2. sessions' \in Seq(Session) /\ DOMAIN sessions \subseteq DOMAIN sessions'
  BY DEF IInv, FleetInv, TypeOK
<1>3. \A s \in DOMAIN sessions' : sessions'[s].loggedAt <= clock'
  <2>1. \A s \in DOMAIN sessions : sessions[s].loggedAt \in Nat
    BY RowFacts DEF IInv, Session
  <2>2. clock \in Nat /\ \A s \in DOMAIN sessions : sessions[s].loggedAt <= clock
    BY RowFacts DEF IInv, FleetInv, RowsOK
  <2>. QED
    BY <2>1, <2>2
<1>4. \A s \in DOMAIN sessions :
        /\ sessions'[s].driver = sessions[s].driver
        /\ sessions'[s].loggedAt = sessions[s].loggedAt
        /\ sessions'[s].loggedOutAt = sessions[s].loggedOutAt
  OBVIOUS
<1>. QED
  BY <1>1, <1>2, <1>3, <1>4, StepOf

\* Steps that write no table.
LEMMA LocalStep ==
  ASSUME IInv, NEW r \in Calls, NEW label \in Labels, NEW x \in Held,
         pc' = [pc EXCEPT ![r] = label], held' = [held EXCEPT ![r] = x],
         UNCHANGED tables, clock' \in Nat, clock <= clock',
         \/ x.time = NoRow
         \/ x.time \in Nat /\ x.time >= clock
         \/ x.session = held[r].session /\ x.time = held[r].time,
         CallOK(label, x, type, active, sessions, clock'),
         rides' = rides, begun' \in Nat, net' \in Int, counted' \in Nat,
         orderly' \in BOOLEAN
  PROVE  IInv'
<1>1. type' = type /\ active' = active /\ sessions' = sessions
  BY DEF tables
<1>2. /\ type' \in Type \union {NoRow} /\ active' \in Nat \union {NoRow}
      /\ type \in Type => type' \in Type
      /\ active \in Nat => active' \in Nat
      /\ type' \in Type => type'.cars >= 0 /\ active' \in Nat
      /\ CallOK(label, x, type', active', sessions, clock')
  BY <1>1 DEF IInv, FleetInv, TypeOK, RowsOK
<1>. QED
  BY <1>1, <1>2, TypeStep

\* Steps that go on to another label, with the clock where it is.
LEMMA QuietStep ==
  ASSUME IInv, NEW r \in Calls, NEW label \in Labels, NEW x \in Held,
         pc' = [pc EXCEPT ![r] = label], held' = [held EXCEPT ![r] = x],
         UNCHANGED <<tables, clock>>,
         \/ x.time = NoRow
         \/ x.session = held[r].session /\ x.time = held[r].time,
         CallOK(label, x, type, active, sessions, clock),
         rides' = rides, begun' \in Nat, net' = net, counted' = counted,
         orderly' \in BOOLEAN
  PROVE  IInv'
<1>1. /\ clock' \in Nat /\ clock <= clock' /\ net' \in Int /\ counted' \in Nat
      /\ UNCHANGED tables
      /\ CallOK(label, x, type, active, sessions, clock')
  BY RowFacts DEF IInv
<1>. QED
  BY <1>1, LocalStep

\* A call that ends holds nothing.
LEMMA FinishStep ==
  ASSUME IInv, NEW r \in Calls, Finish(r), UNCHANGED <<tables, clock, history>>,
         begun' = begun, rides' = rides
  PROVE  IInv'
<1>1. /\ pc' = [pc EXCEPT ![r] = "idle"] /\ held' = [held EXCEPT ![r] = Blank]
      /\ UNCHANGED <<tables, clock>>
      /\ net' = net /\ counted' = counted /\ orderly' = orderly
  BY DEF Finish, Goto, Hold, history
<1>2. begun' \in Nat /\ orderly' \in BOOLEAN
  BY <1>1, RowFacts DEF IInv
<1>3. "idle" \in Labels /\ Blank \in Held /\ Blank.time = NoRow
  BY BlankIsHeld DEF Labels
<1>4. CallOK("idle", Blank, type, active, sessions, clock)
  BY <1>3 DEF CallOK, Saving, Closing
<1>. QED
  BY <1>1, <1>2, <1>3, <1>4, QuietStep

-----------------------------------------------------------------------------
(* The steps of a call                                                      *)

LEMMA BeginStep ==
  ASSUME IInv, NEW r \in Calls, Begin(r), rides' = rides
  PROVE  IInv'
<1>1. /\ UNCHANGED tables /\ net' = net /\ counted' = counted
      /\ begun' \in Nat /\ orderly' \in BOOLEAN
      /\ clock \in Nat /\ clock + 1 \in Nat
  <2>1. /\ UNCHANGED <<tables, net, counted>>
        /\ begun' = begun + 1 /\ orderly' = (orderly /\ Quiet)
    BY DEF Begin
  <2>. QED
    BY <2>1, RowFacts DEF IInv
<1>2. CASE /\ Start(r, "create", [Blank EXCEPT !.op = "create"])
           /\ UNCHANGED clock
  <2>. DEFINE x == [Blank EXCEPT !.op = "create"]
  <2>1. x \in Held /\ x.time = NoRow /\ x.op = "create"
    BY BlankIsHeld DEF Held
  <2>2. CallOK("create", x, type, active, sessions, clock)
    BY <2>1 DEF CallOK, Saving, Closing
  <2>3. pc' = [pc EXCEPT ![r] = "create"] /\ held' = [held EXCEPT ![r] = x]
    BY <1>2 DEF Start, Goto, Hold
  <2>. HIDE DEF x
  <2>. QED
    BY <1>1, <1>2, <2>1, <2>2, <2>3, QuietStep DEF Labels
<1>3. ASSUME NEW o \in TypeOperations,
             Start(r, "loadType", [Blank EXCEPT !.op = o]), UNCHANGED clock
      PROVE  IInv'
  <2>. DEFINE x == [Blank EXCEPT !.op = o]
  <2>1. x \in Held /\ x.time = NoRow /\ x.op = o
    BY BlankIsHeld DEF Held
  <2>2. CallOK("loadType", x, type, active, sessions, clock)
    BY <2>1 DEF CallOK, Saving, Closing, TypeOperations, LogOuts
  <2>3. pc' = [pc EXCEPT ![r] = "loadType"] /\ held' = [held EXCEPT ![r] = x]
    BY <1>3 DEF Start, Goto, Hold
  <2>. HIDE DEF x
  <2>. QED
    BY <1>1, <1>3, <2>1, <2>2, <2>3, QuietStep DEF Labels
<1>4. ASSUME NEW d \in Drivers, NEW t \in Now, clock' = t,
             Start(r, "countLogin", [Blank EXCEPT !.op = "logIn", !.driver = d,
                                                 !.time = t])
      PROVE  IInv'
  <2>. DEFINE x == [Blank EXCEPT !.op = "logIn", !.driver = d, !.time = t]
  <2>1. t \in Nat /\ t >= clock /\ clock' \in Nat /\ clock <= clock'
    BY <1>1, <1>4 DEF Now
  <2>2. x \in Held /\ x.time = t /\ x.op = "logIn" /\ x.driver = d
    BY <2>1, BlankIsHeld DEF Held
  <2>3. CallOK("countLogin", x, type, active, sessions, clock')
    BY <1>4, <2>1, <2>2 DEF CallOK, Saving, Closing
  <2>4. pc' = [pc EXCEPT ![r] = "countLogin"] /\ held' = [held EXCEPT ![r] = x]
    BY <1>4 DEF Start, Goto, Hold
  <2>5. net' \in Int /\ counted' \in Nat
    BY <1>1, RowFacts DEF IInv
  <2>. HIDE DEF x
  <2>. QED
    BY <1>1, <2>1, <2>2, <2>3, <2>4, <2>5, LocalStep DEF Labels
<1>5. ASSUME NEW s \in DOMAIN sessions, UNCHANGED clock,
             Start(r, "loadType", [Blank EXCEPT !.op = "logOut", !.session = s])
      PROVE  IInv'
  <2>. DEFINE x == [Blank EXCEPT !.op = "logOut", !.session = s]
  <2>1. s \in Nat
    BY RowFacts DEF IInv
  <2>2. x \in Held /\ x.time = NoRow /\ x.op = "logOut" /\ x.session = s
    BY <2>1, BlankIsHeld DEF Held, LogOuts
  <2>3. CallOK("loadType", x, type, active, sessions, clock)
    BY <2>2 DEF CallOK, Saving, Closing
  <2>4. pc' = [pc EXCEPT ![r] = "loadType"] /\ held' = [held EXCEPT ![r] = x]
    BY <1>5 DEF Start, Goto, Hold
  <2>. HIDE DEF x
  <2>. QED
    BY <1>1, <1>5, <2>2, <2>3, <2>4, QuietStep DEF Labels
<1>6. ASSUME NEW d \in Drivers, UNCHANGED clock,
             Start(r, "findSession", [Blank EXCEPT !.op = "logOutCurrent",
                                                   !.driver = d])
      PROVE  IInv'
  <2>. DEFINE x == [Blank EXCEPT !.op = "logOutCurrent", !.driver = d]
  <2>1. x \in Held /\ x.time = NoRow /\ x.op = "logOutCurrent" /\ x.driver = d
    BY BlankIsHeld DEF Held, LogOuts
  <2>2. CallOK("findSession", x, type, active, sessions, clock)
    BY <2>1 DEF CallOK, Saving, Closing
  <2>3. pc' = [pc EXCEPT ![r] = "findSession"] /\ held' = [held EXCEPT ![r] = x]
    BY <1>6 DEF Start, Goto, Hold
  <2>. HIDE DEF x
  <2>. QED
    BY <1>1, <1>6, <2>1, <2>2, <2>3, QuietStep DEF Labels
<1>. QED
  BY <1>2, <1>3, <1>4, <1>5, <1>6 DEF Begin

LEMMA CreateStep ==
  ASSUME IInv, NEW r \in Calls, Create(r), begun' = begun, rides' = rides
  PROVE  IInv'
<1>1. /\ held[r] \in Held /\ CallOK("create", held[r], type, active, sessions, clock)
      /\ UNCHANGED <<tables, clock>> /\ net' = net /\ counted' = counted
      /\ begun' \in Nat /\ orderly' \in BOOLEAN
  <2>1. pc[r] = "create" /\ UNCHANGED <<tables, clock, history>>
    BY DEF Create
  <2>. QED
    BY <2>1, CallFacts, RowFacts DEF IInv, history
<1>2. CASE type = NoRow
  <2>1. /\ pc' = [pc EXCEPT ![r] = "insertCounter"]
        /\ held' = [held EXCEPT ![r] = held[r]]
    BY <1>2 DEF Create, Goto, IInv, FleetInv, TypeOK
  <2>2. CallOK("insertCounter", held[r], type, active, sessions, clock)
    BY <1>1 DEF CallOK, Saving, Closing
  <2>. QED
    BY <1>1, <2>1, <2>2, QuietStep DEF Labels
<1>3. CASE type # NoRow
  <2>. DEFINE x == [held[r] EXCEPT !.copy = Loaded]
  <2>2. type \in Type /\ Loaded \in SoundCopy
    BY <1>3, RowFacts DEF IInv, FleetInv, RowsOK, Type, Loaded, SoundCopy, Copy
  <2>3. /\ x \in Held /\ x.time = held[r].time /\ x.op = held[r].op
        /\ x.session = held[r].session /\ x.copy = Loaded
    BY <1>1, <2>2 DEF Held, SoundCopy
  <2>4. CallOK("compare", x, type, active, sessions, clock)
    BY <1>1, <2>2, <2>3 DEF CallOK, Saving, Closing, LogOuts
  <2>5. pc' = [pc EXCEPT ![r] = "compare"] /\ held' = [held EXCEPT ![r] = x]
    BY <1>3 DEF Create, Start, Goto, Hold
  <2>. HIDE DEF x
  <2>. QED
    BY <1>1, <2>3, <2>4, <2>5, QuietStep DEF Labels
<1>. QED
  BY <1>2, <1>3

LEMMA InsertCounterStep ==
  ASSUME IInv, NEW r \in Calls, InsertCounter(r), begun' = begun, rides' = rides
  PROVE  IInv'
<1>1. /\ pc[r] = "insertCounter"
      /\ active' = IF active = NoRow THEN 0 ELSE active
      /\ pc' = [pc EXCEPT ![r] = "insertType"]
      /\ type' = type /\ sessions' = sessions /\ held' = held /\ clock' = clock
      /\ net' = net /\ counted' = counted /\ orderly' = orderly
  BY DEF InsertCounter, Goto, history
<1>2. /\ held[r] \in Held
      /\ CallOK("insertCounter", held[r], type, active, sessions, clock)
      /\ held' = [held EXCEPT ![r] = held[r]]
  BY <1>1, CallFacts DEF IInv, FleetInv, TypeOK
<1>3. /\ clock' \in Nat /\ clock <= clock' /\ begun' \in Nat /\ net' \in Int
      /\ counted' \in Nat /\ orderly' \in BOOLEAN
      /\ type' \in Type \union {NoRow} /\ active' \in Nat
      /\ type' \in Type => type'.cars >= 0
  BY <1>1, RowFacts DEF IInv, FleetInv, RowsOK
<1>4. CallOK("insertType", held[r], type', active', sessions, clock')
  BY <1>1, <1>2, <1>3 DEF CallOK, Saving, Closing
<1>. QED
  BY <1>1, <1>2, <1>3, <1>4, TypeStep DEF Labels

LEMMA InsertTypeStep ==
  ASSUME IInv, NEW r \in Calls, InsertType(r), begun' = begun, rides' = rides
  PROVE  IInv'
<1>1. /\ pc[r] = "insertType"
      /\ type' = IF type = NoRow THEN [active |-> FALSE, cars |-> 0] ELSE type
      /\ pc' = [pc EXCEPT ![r] = "idle"] /\ held' = [held EXCEPT ![r] = Blank]
      /\ active' = active /\ sessions' = sessions /\ clock' = clock
      /\ net' = net /\ counted' = counted /\ orderly' = orderly
  BY DEF InsertType, Finish, Goto, Hold, history
<1>2. active \in Nat
  BY <1>1, CallFacts DEF IInv, CallOK
<1>3. /\ clock' \in Nat /\ clock <= clock' /\ begun' \in Nat /\ net' \in Int
      /\ counted' \in Nat /\ orderly' \in BOOLEAN
      /\ type' \in Type /\ active' \in Nat
      /\ type'.cars >= 0
  BY <1>1, <1>2, RowFacts DEF IInv, FleetInv, RowsOK, Type
<1>4. CallOK("idle", Blank, type', active', sessions, clock')
  BY BlankIsHeld DEF CallOK, Saving, Closing
<1>. QED
  BY <1>1, <1>3, <1>4, BlankIsHeld, TypeStep DEF Labels

\* A call unregisters a car only of a class that has one.
LEMMA ChangedFacts ==
  ASSUME NEW o, NEW t \in Type, NEW c \in SoundCopy, c.cars = t.cars, Allowed(o, t)
  PROVE  Changed(o, c) \in SoundCopy
<1>1. c \in Copy /\ c.cars \in Nat /\ t.cars = c.cars
  BY DEF SoundCopy, Copy
<1>2. Change(o) \in Int /\ c.cars + Change(o) >= 0
  <2>1. CASE o \in {"unregisterCar"} \union LogOuts
    <3>1. t.cars > 0
      BY <2>1 DEF Allowed, LogOuts
    <3>2. Change(o) = -1
      BY <2>1 DEF Change, LogOuts
    <3>. QED
      BY <1>1, <3>1, <3>2
  <2>2. CASE o \notin {"unregisterCar"} \union LogOuts
    <3>1. Change(o) \in {0, 1}
      BY <2>2 DEF Change
    <3>. QED
      BY <1>1, <3>1
  <2>. QED
    BY <2>1, <2>2
<1>. DEFINE k == Change(o)
            b == CASE o = "activate"   -> TRUE
                   [] o = "deactivate" -> FALSE
                   [] OTHER            -> c.active
            n == c.cars + k
<1>3. b \in BOOLEAN
  BY <1>1 DEF Copy
<1>4. Changed(o, c) = [c EXCEPT !.cars = n, !.active = b]
  BY DEF Changed
<1>. HIDE DEF k, b
<1>5. /\ Changed(o, c) \in Copy
      /\ Changed(o, c).cars = c.cars + k /\ Changed(o, c).counter = c.counter
  <2>1. n \in Int
    BY <1>1, <1>2 DEF k
  <2>. HIDE DEF n
  <2>2. /\ Changed(o, c) \in Copy
        /\ Changed(o, c).cars = n /\ Changed(o, c).counter = c.counter
    BY <1>1, <1>3, <1>4, <2>1 DEF Copy
  <2>. QED
    BY <2>2 DEF n
<1>. QED
  BY <1>2, <1>5 DEF k, SoundCopy

LEMMA LoadTypeStep ==
  ASSUME IInv, NEW r \in Calls, LoadType(r), begun' = begun, rides' = rides
  PROVE  IInv'
<1>1. CASE ~(type # NoRow /\ Allowed(held[r].op, type))
  BY <1>1, FinishStep DEF LoadType, Throw, Finish
<1>2. CASE type # NoRow /\ Allowed(held[r].op, type)
  <2>. DEFINE y == Changed(held[r].op, Loaded)
              x == [held[r] EXCEPT !.copy = y]
  <2>1. /\ pc[r] = "loadType"
        /\ pc' = [pc EXCEPT ![r] = "compare"] /\ held' = [held EXCEPT ![r] = x]
        /\ UNCHANGED <<tables, clock>>
        /\ net' = net /\ counted' = counted /\ orderly' = orderly
    BY <1>2 DEF LoadType, Start, Goto, Hold, history
  <2>2. /\ held[r] \in Held
        /\ CallOK("loadType", held[r], type, active, sessions, clock)
        /\ begun' \in Nat /\ orderly' \in BOOLEAN
    BY <2>1, CallFacts, RowFacts DEF IInv
  <2>3. type \in Type /\ Loaded \in SoundCopy /\ Loaded.cars = type.cars
    BY <1>2, RowFacts DEF IInv, FleetInv, RowsOK, Type, Loaded, SoundCopy, Copy
  <2>4. y \in SoundCopy
    BY <1>2, <2>3, ChangedFacts
  <2>. HIDE DEF y
  <2>5. /\ x \in Held /\ x.time = held[r].time /\ x.op = held[r].op
        /\ x.session = held[r].session /\ x.copy = y
    BY <2>2, <2>4 DEF Held, SoundCopy
  <2>6. CallOK("compare", x, type, active, sessions, clock)
    BY <2>2, <2>3, <2>4, <2>5 DEF CallOK, Saving, Closing
  <2>. HIDE DEF x
  <2>. QED
    BY <2>1, <2>2, <2>5, <2>6, QuietStep DEF Labels
<1>. QED
  BY <1>1, <1>2

LEMMA CompareStep ==
  ASSUME IInv, NEW r \in Calls, Compare(r), begun' = begun, rides' = rides
  PROVE  IInv'
<1>. DEFINE x == [held[r] EXCEPT !.seen = Loaded]
<1>1. /\ pc[r] = "compare"
      /\ pc' = [pc EXCEPT ![r] = "update"] /\ held' = [held EXCEPT ![r] = x]
      /\ UNCHANGED <<tables, clock>>
      /\ net' = net /\ counted' = counted /\ orderly' = orderly
  BY DEF Compare, Start, Goto, Hold, history
<1>2. /\ held[r] \in Held
      /\ CallOK("compare", held[r], type, active, sessions, clock)
      /\ begun' \in Nat /\ orderly' \in BOOLEAN
  BY <1>1, CallFacts, RowFacts DEF IInv
<1>3. type \in Type
  BY <1>2 DEF CallOK, Saving
<1>4. Loaded \in Copy
  BY <1>3, RowFacts DEF IInv, FleetInv, RowsOK, Type, Loaded, Copy
<1>5. /\ x \in Held /\ x.time = held[r].time /\ x.op = held[r].op
      /\ x.session = held[r].session /\ x.copy = held[r].copy
  BY <1>2, <1>4 DEF Held
<1>6. CallOK("update", x, type, active, sessions, clock)
  BY <1>2, <1>3, <1>5 DEF CallOK, Saving, Closing
<1>. HIDE DEF x
<1>. QED
  BY <1>1, <1>2, <1>5, <1>6, QuietStep DEF Labels

LEMMA UpdateStep ==
  ASSUME IInv, NEW r \in Calls, Update(r), begun' = begun, rides' = rides
  PROVE  IInv'
<1>1. /\ pc[r] = "update"
      /\ type' = [active |-> Written(r, "active", type.active),
                  cars   |-> Written(r, "cars", type.cars)]
      /\ active' = Written(r, "counter", active)
      /\ net' = net + Change(held[r].op)
      /\ sessions' = sessions /\ clock' = clock
      /\ counted' = counted /\ orderly' = orderly
  BY DEF Update
<1>2. /\ held[r] \in Held
      /\ CallOK("update", held[r], type, active, sessions, clock)
  BY <1>1, CallFacts DEF IInv
<1>3. type \in Type /\ held[r].copy \in SoundCopy
  BY <1>2 DEF CallOK, Saving
<1>4. type.cars \in Nat /\ type.active \in BOOLEAN /\ active \in Nat
  BY <1>3 DEF IInv, FleetInv, RowsOK, Type
<1>5. /\ held[r].copy.cars \in Nat /\ held[r].copy.active \in BOOLEAN
      /\ held[r].copy.counter \in Nat
  BY <1>3 DEF SoundCopy, Copy
<1>6. /\ Written(r, "active", type.active) \in BOOLEAN
      /\ Written(r, "cars", type.cars) \in Nat
      /\ Written(r, "counter", active) \in Nat
  BY <1>4, <1>5 DEF Written
<1>7. type' \in Type /\ type'.cars >= 0 /\ active' \in Nat
  BY <1>1, <1>6 DEF Type
<1>8. /\ clock' \in Nat /\ clock <= clock' /\ begun' \in Nat
      /\ counted' \in Nat /\ orderly' \in BOOLEAN
  BY <1>1, RowFacts DEF IInv
<1>9. net' \in Int
  BY <1>1, RowFacts DEF IInv, Change
<1>10. CASE EndsTheCall(r)
  <2>1. pc' = [pc EXCEPT ![r] = "idle"] /\ held' = [held EXCEPT ![r] = Blank]
    BY <1>10 DEF Update, Finish, Goto, Hold
  <2>2. CallOK("idle", Blank, type', active', sessions, clock')
    BY BlankIsHeld DEF CallOK, Saving, Closing
  <2>3. "idle" \in Labels
    BY DEF Labels
  <2>. QED
    BY <1>1, <1>7, <1>8, <1>9, <2>1, <2>2, <2>3, BlankIsHeld, TypeStep
<1>11. CASE ~EndsTheCall(r)
  <2>1. /\ pc' = [pc EXCEPT ![r] = "closeSession"]
        /\ held' = [held EXCEPT ![r] = held[r]]
    BY <1>11 DEF Update, Goto, IInv, FleetInv, TypeOK
  <2>2. CallOK("closeSession", held[r], type', active', sessions, clock')
    BY <1>1, <1>2, <1>11 DEF CallOK, Saving, Closing, EndsTheCall
  <2>3. "closeSession" \in Labels
    BY DEF Labels
  <2>. QED
    BY <1>1, <1>2, <1>7, <1>8, <1>9, <2>1, <2>2, <2>3, TypeStep
<1>. QED
  BY <1>10, <1>11

LEMMA CountLoginStep ==
  ASSUME IInv, NEW r \in Calls, CountLogin(r), begun' = begun, rides' = rides
  PROVE  IInv'
<1>1. /\ pc[r] = "countLogin"
      /\ pc' = [pc EXCEPT ![r] = "insertSession"]
      /\ type' = type /\ sessions' = sessions /\ held' = held /\ clock' = clock
      /\ net' = net /\ orderly' = orderly
      /\ active = NoRow => active' = active /\ counted' = counted
      /\ active # NoRow => active' = active + 1 /\ counted' = counted + 1
  BY DEF CountLogin, Incremented, Goto
<1>2. /\ held[r] \in Held
      /\ CallOK("countLogin", held[r], type, active, sessions, clock)
      /\ held' = [held EXCEPT ![r] = held[r]]
  BY <1>1, CallFacts DEF IInv, FleetInv, TypeOK
<1>3. /\ clock' \in Nat /\ clock <= clock' /\ begun' \in Nat /\ net' \in Int
      /\ orderly' \in BOOLEAN
  BY <1>1, RowFacts DEF IInv
<1>4. /\ counted' \in Nat /\ active' \in Nat \union {NoRow}
      /\ active \in Nat => active' \in Nat
  BY <1>1, RowFacts, FleetAssumption DEF IInv
<1>5. /\ type' \in Type \union {NoRow}
      /\ type' \in Type => type'.cars >= 0 /\ active' \in Nat
  BY <1>1, <1>4, RowFacts DEF IInv, FleetInv, RowsOK
<1>6. CallOK("insertSession", held[r], type', active', sessions, clock')
  BY <1>1, <1>2 DEF CallOK, Saving, Closing
<1>7. "insertSession" \in Labels
  BY DEF Labels
<1>. QED
  BY <1>1, <1>2, <1>3, <1>4, <1>5, <1>6, <1>7, TypeStep

\* What the steps that write a session leave alone.
LEMMA SessionStep ==
  ASSUME IInv, NEW r \in Calls, UNCHANGED <<type, active, history>>,
         Finish(r), begun' = begun, rides' = rides,
         clock' \in Nat, clock <= clock',
         sessions' \in Seq(Session), DOMAIN sessions \subseteq DOMAIN sessions',
         \A s \in DOMAIN sessions' : sessions'[s].loggedAt <= clock',
         \A s \in DOMAIN sessions :
           /\ sessions'[s].driver = sessions[s].driver
           /\ sessions'[s].loggedAt = sessions[s].loggedAt
           /\ \/ sessions'[s].loggedOutAt = sessions[s].loggedOutAt
              \/ sessions'[s].loggedOutAt \in Nat /\ sessions'[s].loggedOutAt >= clock
              \/ /\ held[r].session = s /\ held[r].time # NoRow
                 /\ sessions'[s].loggedOutAt = held[r].time
  PROVE  IInv'
<1>1. /\ pc' = [pc EXCEPT ![r] = "idle"] /\ held' = [held EXCEPT ![r] = Blank]
      /\ type' = type /\ active' = active
      /\ net' = net /\ counted' = counted /\ orderly' = orderly
  BY DEF Finish, Goto, Hold, history
<1>2. /\ type' \in Type \union {NoRow} /\ active' \in Nat \union {NoRow}
      /\ type \in Type => type' \in Type
      /\ active \in Nat => active' \in Nat
      /\ type' \in Type => type'.cars >= 0 /\ active' \in Nat
      /\ begun' \in Nat /\ net' \in Int /\ counted' \in Nat /\ orderly' \in BOOLEAN
  BY <1>1, RowFacts DEF IInv, FleetInv, RowsOK
<1>3. /\ "idle" \in Labels /\ Blank \in Held /\ Blank.time = NoRow
      /\ CallOK("idle", Blank, type', active', sessions', clock')
  BY BlankIsHeld DEF CallOK, Saving, Closing, Labels
<1>. QED
  BY <1>1, <1>2, <1>3, StepOf

LEMMA InsertSessionStep ==
  ASSUME IInv, NEW r \in Calls, InsertSession(r), begun' = begun, rides' = rides
  PROVE  IInv'
<1>. DEFINE e == [ driver |-> held[r].driver, loggedAt |-> held[r].time,
                   loggedOutAt |-> NoRow ]
<1>1. /\ pc[r] = "insertSession"
      /\ sessions' = Append(sessions, e)
      /\ Finish(r) /\ UNCHANGED <<type, active, history>> /\ clock' = clock
  BY DEF InsertSession
<1>2. CallOK("insertSession", held[r], type, active, sessions, clock)
  BY <1>1, CallFacts DEF IInv
<1>3. e \in Session /\ e.loggedAt \in Nat /\ e.loggedAt <= clock
  BY <1>2, FleetAssumption DEF CallOK, Session
<1>. HIDE DEF e
<1>4. sessions \in Seq(Session) /\ clock \in Nat
  BY DEF IInv, FleetInv, TypeOK
<1>5. /\ sessions' \in Seq(Session)
      /\ DOMAIN sessions' = 1 .. Len(sessions) + 1
      /\ sessions'[Len(sessions) + 1] = e
      /\ \A s \in 1 .. Len(sessions) : sessions'[s] = sessions[s]
  BY <1>1, <1>3, <1>4, AppendProperties, LenProperties
<1>6. DOMAIN sessions = 1 .. Len(sessions) /\ Len(sessions) \in Nat
  BY <1>4, LenProperties
<1>7. DOMAIN sessions \subseteq DOMAIN sessions'
  BY <1>5, <1>6
<1>8. ASSUME NEW s \in DOMAIN sessions' PROVE sessions'[s].loggedAt <= clock'
  <2>1. \A q \in DOMAIN sessions : sessions[q].loggedAt <= clock
    BY DEF IInv, FleetInv, RowsOK
  <2>2. s \in DOMAIN sessions \/ s = Len(sessions) + 1
    BY <1>5, <1>6
  <2>. QED
    BY <1>1, <1>3, <1>5, <1>6, <2>1, <2>2
<1>9. \A s \in DOMAIN sessions : sessions'[s] = sessions[s]
  BY <1>5, <1>6
<1>10. clock' \in Nat /\ clock <= clock'
  BY <1>1, <1>4
<1>. QED
  BY <1>1, <1>5, <1>7, <1>8, <1>9, <1>10, SessionStep

LEMMA FindSessionStep ==
  ASSUME IInv, NEW r \in Calls, FindSession(r), begun' = begun, rides' = rides
  PROVE  IInv'
<1>1. CASE OpenSessions(held[r].driver) = {} /\ Throw(r)
  BY <1>1, FinishStep DEF Throw, Finish
<1>2. ASSUME NEW s \in LatestSessions(held[r].driver), NEW t \in Now,
             Start(r, "loadType", [held[r] EXCEPT !.session = s, !.time = t]),
             clock' = t, UNCHANGED <<tables, history>>
      PROVE  IInv'
  <2>. DEFINE x == [held[r] EXCEPT !.session = s, !.time = t]
  <2>1. held[r] \in Held /\ clock \in Nat
    BY CallFacts, RowFacts DEF IInv
  <2>2. t \in Nat /\ t >= clock
    BY <2>1 DEF Now
  <2>3. s \in DOMAIN sessions /\ s \in Nat
    BY RowFacts DEF IInv, LatestSessions, OpenSessions
  <2>4. /\ x \in Held /\ x.session = s /\ x.time = t
    BY <2>1, <2>2, <2>3 DEF Held
  <2>5. CallOK("loadType", x, type, active, sessions, clock')
    BY <1>2, <2>2, <2>3, <2>4 DEF CallOK, Saving, Closing
  <2>6. pc' = [pc EXCEPT ![r] = "loadType"] /\ held' = [held EXCEPT ![r] = x]
    BY <1>2 DEF Start, Goto, Hold
  <2>7. /\ UNCHANGED tables /\ begun' \in Nat /\ net' \in Int
        /\ counted' \in Nat /\ orderly' \in BOOLEAN
        /\ clock' \in Nat /\ clock <= clock'
    BY <1>2, <2>2, RowFacts DEF IInv, history
  <2>8. "loadType" \in Labels
    BY DEF Labels
  <2>. HIDE DEF x
  <2>. QED
    BY <2>2, <2>4, <2>5, <2>6, <2>7, <2>8, LocalStep
<1>. QED
  BY <1>1, <1>2 DEF FindSession

LEMMA CloseSessionStep ==
  ASSUME IInv, NEW r \in Calls, CloseSession(r), begun' = begun, rides' = rides
  PROVE  IInv'
<1>. DEFINE q == held[r].session
<1>1. PICK t \in IF held[r].op = "logOut" THEN Now ELSE {held[r].time} :
        /\ sessions' = [sessions EXCEPT ![q].loggedOutAt = t]
        /\ clock' = IF t > clock THEN t ELSE clock
  BY DEF CloseSession
<1>2. /\ pc[r] = "closeSession"
      /\ Finish(r) /\ UNCHANGED <<type, active, history>>
  BY DEF CloseSession
<1>3. CallOK("closeSession", held[r], type, active, sessions, clock)
  BY <1>2, CallFacts DEF IInv
<1>4. sessions \in Seq(Session) /\ clock \in Nat /\ DOMAIN sessions = 1 .. Len(sessions)
  BY RowFacts DEF IInv, FleetInv, TypeOK
<1>5. q \in DOMAIN sessions
  BY <1>3 DEF CallOK, Closing
<1>6. \/ t \in Nat /\ t >= clock
      \/ t \in Nat /\ t = held[r].time /\ t # NoRow
  <2>1. CASE held[r].op = "logOut"
    BY <1>1, <1>4, <2>1 DEF Now
  <2>2. CASE held[r].op # "logOut"
    BY <1>1, <1>3, <2>2, FleetAssumption DEF CallOK, Closing, LogOuts
  <2>. QED
    BY <2>1, <2>2
<1>7. clock' \in Nat /\ clock <= clock'
  BY <1>1, <1>4, <1>6
<1>8. sessions[q] \in Session /\ [sessions[q] EXCEPT !.loggedOutAt = t] \in Session
  BY <1>4, <1>5, <1>6, RowFacts DEF Session, IInv
<1>. DEFINE e == [sessions[q] EXCEPT !.loggedOutAt = t]
<1>9. /\ e.driver = sessions[q].driver /\ e.loggedAt = sessions[q].loggedAt
      /\ e.loggedOutAt = t
  BY <1>8 DEF Session
<1>10. sessions' = [sessions EXCEPT ![q] = e]
  BY <1>1
<1>. HIDE DEF e, q
<1>11. /\ sessions' \in Seq(Session)
       /\ DOMAIN sessions' = DOMAIN sessions
       /\ sessions'[q] = e
       /\ \A s \in DOMAIN sessions \ {q} : sessions'[s] = sessions[s]
  BY <1>4, <1>5, <1>8, <1>10, ExceptSeq DEF e
<1>12. \A s \in DOMAIN sessions' : sessions'[s].loggedAt <= clock'
  <2>1. \A s \in DOMAIN sessions :
          sessions[s].loggedAt \in Nat /\ sessions[s].loggedAt <= clock
    BY RowFacts DEF IInv, FleetInv, RowsOK, Session
  <2>2. \A s \in DOMAIN sessions : sessions'[s].loggedAt = sessions[s].loggedAt
    BY <1>9, <1>11
  <2>. QED
    BY <1>4, <1>7, <1>11, <2>1, <2>2
<1>13. ASSUME NEW s \in DOMAIN sessions
       PROVE  /\ sessions'[s].driver = sessions[s].driver
              /\ sessions'[s].loggedAt = sessions[s].loggedAt
              /\ \/ sessions'[s].loggedOutAt = sessions[s].loggedOutAt
                 \/ sessions'[s].loggedOutAt \in Nat /\ sessions'[s].loggedOutAt >= clock
                 \/ /\ held[r].session = s /\ held[r].time # NoRow
                    /\ sessions'[s].loggedOutAt = held[r].time
  BY <1>6, <1>9, <1>11 DEF q
<1>. QED
  BY <1>2, <1>7, <1>11, <1>12, <1>13, SessionStep

-----------------------------------------------------------------------------
(* Crashes, rides and the rest of the argument                              *)

LEMMA CrashStep ==
  ASSUME IInv, Crash, rides' = rides
  PROVE  IInv'
<1>1. /\ pc' = [r \in Calls |-> "idle"] /\ held' = [r \in Calls |-> Blank]
      /\ type' = type /\ active' = active /\ sessions' = sessions
      /\ clock' = clock /\ begun' = begun /\ net' = net /\ counted' = counted
      /\ orderly' = FALSE
  BY DEF Crash, tables
<1>2. TypeOK'
  <2>1. pc' \in [Calls -> Labels] /\ held' \in [Calls -> Held]
    BY <1>1, BlankIsHeld DEF Labels
  <2>. QED
    BY <1>1, <2>1 DEF IInv, FleetInv, TypeOK
<1>3. RowsOK'
  BY <1>1 DEF IInv, FleetInv, RowsOK
<1>4. \A r \in Calls : CallOK(pc'[r], held'[r], type', active', sessions', clock')
  BY <1>1, BlankIsHeld DEF CallOK, Saving, Closing
<1>5. RidesOK'
  <2>1. rides \in Seq(Ride) /\ rides \in [DOMAIN rides -> Ride]
    BY LenProperties DEF IInv, RidesOK
  <2>2. Moves(sessions, sessions', held, held', clock, clock')
    BY <1>1, BlankIsHeld, RowFacts DEF Moves, IInv
  <2>3. \A i \in DOMAIN rides : RideOK(rides[i], sessions', held', clock')
    BY <2>1, <2>2, RideKept DEF IInv, RidesOK
  <2>. QED
    BY <2>1, <2>3 DEF RidesOK
<1>. QED
  BY <1>2, <1>3, <1>4, <1>5 DEF IInv, FleetInv

\* Rides change, and the clock may go on: the fleet stays right.
LEMMA FleetKept ==
  ASSUME IInv, UNCHANGED <<tables, pc, held, begun, history>>,
         clock' \in Nat, clock <= clock'
  PROVE  FleetInv'
<1>1. /\ pc' = pc /\ held' = held /\ begun' = begun
      /\ type' = type /\ active' = active /\ sessions' = sessions
      /\ net' = net /\ counted' = counted /\ orderly' = orderly
  BY DEF tables, history
<1>2. TypeOK'
  BY <1>1 DEF IInv, FleetInv, TypeOK
<1>3. RowsOK'
  <2>1. \A s \in DOMAIN sessions :
          sessions[s].loggedAt \in Nat /\ sessions[s].loggedAt <= clock
    BY RowFacts DEF IInv, FleetInv, RowsOK, Session
  <2>2. \A s \in DOMAIN sessions : sessions[s].loggedAt <= clock'
    BY <2>1, RowFacts DEF IInv
  <2>. QED
    BY <1>1, <2>2 DEF IInv, FleetInv, RowsOK
<1>4. ASSUME NEW r \in Calls
      PROVE  CallOK(pc'[r], held'[r], type', active', sessions', clock')
  <2>1. /\ held[r] \in Held /\ clock \in Nat
        /\ CallOK(pc[r], held[r], type, active, sessions, clock)
    BY CallFacts, RowFacts DEF IInv
  <2>2. held[r].time \in Nat \union {NoRow}
    BY <2>1 DEF Held
  <2>3. held[r].time # NoRow => held[r].time <= clock'
    BY <2>1, <2>2 DEF CallOK
  <2>. QED
    BY <1>1, <2>1, <2>3 DEF CallOK
<1>. QED
  BY <1>2, <1>3, <1>4 DEF FleetInv

LEMMA TakeCompletionTimeStep ==
  ASSUME IInv, NEW d \in Drivers, TakeCompletionTime(d)
  PROVE  IInv'
<1>1. PICK t \in Now :
        /\ clock' = t
        /\ rides' = Append(rides,
             [ driver |-> d, completeAt |-> t, completed |-> FALSE,
               during |-> {s \in OpenSessions(d) : ~IsClosing(s)} ])
  BY DEF TakeCompletionTime
<1>. DEFINE e == [ driver |-> d, completeAt |-> t, completed |-> FALSE,
                   during |-> {s \in OpenSessions(d) : ~IsClosing(s)} ]
<1>2. clock \in Nat /\ t \in Nat /\ clock <= t
  BY RowFacts DEF IInv, Now
<1>3. /\ UNCHANGED <<tables, pc, held, begun, history>>
      /\ sessions' = sessions /\ held' = held
  BY DEF TakeCompletionTime, tables
<1>4. FleetInv'
  BY <1>1, <1>2, <1>3, FleetKept
<1>5. e \in Ride
  BY <1>2, RowFacts DEF IInv, Ride, OpenSessions
<1>6. RideOK(e, sessions, held, t)
  <2>1. ASSUME NEW s \in e.during
        PROVE  /\ s \in DOMAIN sessions
               /\ sessions[s].driver = e.driver
               /\ sessions[s].loggedAt <= e.completeAt
               /\ sessions[s].loggedOutAt = NoRow
               /\ \A r \in Calls : ~(held[r].session = s /\ held[r].time # NoRow)
    <3>1. /\ s \in DOMAIN sessions /\ sessions[s].driver = d
          /\ sessions[s].loggedOutAt = NoRow
          /\ \A r \in Calls : ~(held[r].session = s /\ held[r].time # NoRow)
      BY DEF OpenSessions, IsClosing
    <3>2. sessions[s].loggedAt \in Nat /\ sessions[s].loggedAt <= clock
      BY <3>1, RowFacts DEF IInv, FleetInv, RowsOK, Session
    <3>. QED
      BY <1>2, <3>1, <3>2
  <2>2. e.completeAt <= t
    BY <1>2
  <2>. QED
    BY <2>1, <2>2 DEF RideOK
<1>. HIDE DEF e
<1>7. Moves(sessions, sessions, held, held, clock, t)
  BY <1>2 DEF Moves
<1>8. rides \in Seq(Ride) /\ rides' = Append(rides, e)
  BY <1>1 DEF IInv, RidesOK, e
<1>9. /\ rides' \in Seq(Ride)
      /\ DOMAIN rides' = 1 .. Len(rides) + 1
      /\ rides'[Len(rides) + 1] = e
      /\ \A i \in 1 .. Len(rides) : rides'[i] = rides[i]
  BY <1>5, <1>8, AppendProperties, LenProperties
<1>10. /\ DOMAIN rides = 1 .. Len(rides) /\ Len(rides) \in Nat
       /\ rides \in [DOMAIN rides -> Ride]
  BY <1>8, LenProperties
<1>11. ASSUME NEW i \in DOMAIN rides'
       PROVE  RideOK(rides'[i], sessions, held, t)
  <2>1. CASE i = Len(rides) + 1
    BY <1>6, <1>9, <2>1
  <2>2. CASE i \in DOMAIN rides
    <3>1. rides[i] \in Ride /\ RideOK(rides[i], sessions, held, clock)
      BY <1>10, <2>2 DEF IInv, RidesOK
    <3>2. RideOK(rides[i], sessions, held, t)
      BY <1>7, <3>1, RideKept
    <3>. QED
      BY <1>9, <1>10, <2>2, <3>2
  <2>. QED
    BY <1>9, <1>10, <2>1, <2>2
<1>12. RidesOK'
  BY <1>1, <1>3, <1>9, <1>11 DEF RidesOK
<1>. QED
  BY <1>4, <1>12 DEF IInv

LEMMA SaveCompletionStep ==
  ASSUME IInv, NEW i \in DOMAIN rides, SaveCompletion(i)
  PROVE  IInv'
<1>. DEFINE e == [rides[i] EXCEPT !.completed = TRUE]
<1>1. /\ rides' = [rides EXCEPT ![i] = e]
      /\ UNCHANGED <<tables, pc, held, begun, history>> /\ clock' = clock
      /\ sessions' = sessions /\ held' = held
  BY DEF SaveCompletion, vars, tables
<1>2. clock \in Nat
  BY RowFacts DEF IInv
<1>3. FleetInv'
  BY <1>1, <1>2, FleetKept
<1>4. rides \in Seq(Ride) /\ rides[i] \in Ride
  BY LenProperties DEF IInv, RidesOK
<1>5. /\ e \in Ride /\ e.driver = rides[i].driver
      /\ e.completeAt = rides[i].completeAt /\ e.during = rides[i].during
  BY <1>4 DEF Ride
<1>6. RideOK(e, sessions, held, clock)
  BY <1>5 DEF IInv, RidesOK, RideOK
<1>. HIDE DEF e
<1>7. /\ rides' \in Seq(Ride) /\ DOMAIN rides' = DOMAIN rides /\ rides'[i] = e
      /\ \A j \in DOMAIN rides \ {i} : rides'[j] = rides[j]
  BY <1>1, <1>4, <1>5, ExceptSeq
<1>8. \A j \in DOMAIN rides' : RideOK(rides'[j], sessions, held, clock)
  BY <1>6, <1>7 DEF IInv, RidesOK
<1>9. RidesOK'
  BY <1>1, <1>7, <1>8 DEF RidesOK
<1>. QED
  BY <1>3, <1>9 DEF IInv

LEMMA InitHolds ==
  ASSUME ReportInit
  PROVE  IInv
<1>1. TypeOK
  BY BlankIsHeld DEF ReportInit, Init, TypeOK, Labels
<1>2. RowsOK
  BY FleetAssumption DEF ReportInit, Init, RowsOK
<1>3. \A r \in Calls : CallOK(pc[r], held[r], type, active, sessions, clock)
  BY BlankIsHeld DEF ReportInit, Init, CallOK, Saving, Closing
<1>4. RidesOK
  BY DEF ReportInit, RidesOK
<1>. QED
  BY <1>1, <1>2, <1>3, <1>4 DEF IInv, FleetInv

LEMMA StepHolds ==
  ASSUME IInv, [ReportNext]_reportVars
  PROVE  IInv'
<1>1. ASSUME NEW r \in Calls, Step(r), begun' = begun, rides' = rides
      PROVE  IInv'
  BY <1>1, CreateStep, InsertCounterStep, InsertTypeStep, LoadTypeStep,
     CompareStep, UpdateStep, CountLoginStep, InsertSessionStep,
     FindSessionStep, CloseSessionStep DEF Step
<1>2. CASE Next /\ UNCHANGED rides
  BY <1>1, <1>2, BeginStep, CrashStep DEF Next
<1>3. CASE RideStep
  BY <1>3, TakeCompletionTimeStep, SaveCompletionStep DEF RideStep
<1>4. CASE UNCHANGED reportVars
  BY <1>4 DEF reportVars, vars, tables, history, IInv, FleetInv, TypeOK, RowsOK,
     RidesOK
<1>. QED
  BY <1>2, <1>3, <1>4 DEF ReportNext

LEMMA Invariance == ReportSpec => []IInv
BY InitHolds, StepHolds, PTL DEF ReportSpec

\* A ride of a session that is closed has all its entries.
LEMMA RidesReported ==
  ASSUME IInv
  PROVE  RidesAreReported
<1>1. SUFFICES
        ASSUME NEW i \in DOMAIN rides, NEW s \in DOMAIN sessions,
               rides[i].completed, s \in rides[i].during,
               sessions[s].loggedOutAt # NoRow,
               NEW since \in 0..sessions[s].loggedAt,
               NEW claims \in [DOMAIN rides -> 0..MaxClaims]
        PROVE  { e.claim : e \in { x \in Report(sessions[s].driver, since, claims) :
                                     x.session = s /\ x.ride = i } }
               = ClaimsJoined(claims[i])
  BY Zenon DEF RidesAreReported, ClaimsJoined
<1>2. /\ sessions[s].driver = rides[i].driver
      /\ Within(rides[i], sessions[s])
  BY <1>1 DEF IInv, RidesOK, RideOK, Within
<1>3. sessions[s].loggedAt >= since
  BY RowFacts DEF IInv, Session
<1>4. ClaimsJoined(claims[i]) \subseteq {NoRow} \union 1..MaxClaims
  BY ReportAssumption DEF ClaimsJoined
<1>5. ASSUME NEW c \in ClaimsJoined(claims[i])
      PROVE  \E x \in Report(sessions[s].driver, since, claims) :
               x.session = s /\ x.ride = i /\ x.claim = c
  <2>. DEFINE x == [session |-> s, ride |-> i, claim |-> c]
  <2>1. x \in Report(sessions[s].driver, since, claims)
    BY <1>1, <1>2, <1>3, <1>4 DEF Report
  <2>. QED
    BY <2>1
<1>6. ASSUME NEW x \in Report(sessions[s].driver, since, claims), x.ride = i
      PROVE  x.claim \in ClaimsJoined(claims[i])
  BY <1>6 DEF Report
<1>. QED
  BY <1>5, <1>6

\* The rows and the copies keep their shape.
THEOREM TypeCorrect == ReportSpec => []TypeOK
<1>1. IInv => TypeOK
  BY DEF IInv, FleetInv
<1>. QED
  BY <1>1, Invariance, PTL

\* No interleaving of saves and no crash makes the cars of a class negative
\* (CarType.unregisterCar), for any number of calls.
THEOREM CarsStayNatural == ReportSpec => []CarsCounterNotNegative
<1>1. IInv => CarsCounterNotNegative
  BY RowFacts DEF IInv, FleetInv, RowsOK, CarsCounterNotNegative
<1>. QED
  BY <1>1, Invariance, PTL

\* The report lists every ride completed in a session that is closed, with
\* all its claims (SQLBasedDriverReportCreator), for any number of rides.
THEOREM RidesStayReported == ReportSpec => []RidesAreReported
<1>1. IInv => RidesAreReported
  BY RidesReported
<1>. QED
  BY <1>1, Invariance, PTL

-----------------------------------------------------------------------------
(* Calls one by one.  What a call holds of the type is still what the table *)
(* says when it saves it, so that every car and every login is counted; and *)
(* no session is opened or closed between finding one and closing it.       *)

OneAtATime == \A q, r \in Calls : InProgress(q) /\ InProgress(r) => q = r

Counts ==
  /\ IF type = NoRow THEN net = 0 ELSE type.cars = net
  /\ IF active = NoRow THEN counted = 0 ELSE active = counted

\* The columns a save compares and writes.
CopyFresh(r) ==
  /\ pc[r] \in Saving =>
       /\ held[r].copy.cars = type.cars + Change(held[r].op)
       /\ held[r].copy.counter = active
  /\ pc[r] = "update" =>
       held[r].seen.cars = type.cars /\ held[r].seen.counter = active

ClosesLatest(r) ==
  pc[r] \in Closing /\ held[r].op = "logOutCurrent" =>
    held[r].session \in LatestSessions(sessions[held[r].session].driver)

OrderlyInv ==
  orderly =>
    OneAtATime /\ Counts /\ \A r \in Calls : CopyFresh(r) /\ ClosesLatest(r)

\* The other calls are idle before and after: what a step of call r, of an
\* orderly history, has to show.
LEMMA OrderlyStepOf ==
  ASSUME IInv, OrderlyInv, NEW r \in Calls,
         Begin(r) \/ (InProgress(r) /\ orderly' = orderly),
         \A q \in Calls \ {r} : pc'[q] = pc[q],
         orderly' => Counts' /\ CopyFresh(r)' /\ ClosesLatest(r)'
  PROVE  OrderlyInv'
<1>1. SUFFICES ASSUME orderly'
               PROVE  OneAtATime' /\ \A q \in Calls : CopyFresh(q)' /\ ClosesLatest(q)'
  BY DEF OrderlyInv
<1>2. \A q \in Calls \ {r} : pc'[q] = "idle"
  <2>1. \A q \in Calls \ {r} : ~InProgress(q)
    BY <1>1 DEF Begin, Quiet, OrderlyInv, OneAtATime
  <2>. QED
    BY <2>1 DEF InProgress
<1>. QED
  BY <1>1, <1>2 DEF OneAtATime, InProgress, CopyFresh, ClosesLatest, Saving, Closing

\* Steps that write no table and are not about to save one.
LEMMA OrderlyLocal ==
  ASSUME OrderlyInv, orderly, NEW r \in Calls,
         UNCHANGED <<type, active, net, counted>>,
         pc'[r] \notin Saving
  PROVE  Counts' /\ CopyFresh(r)'
BY DEF OrderlyInv, Counts, CopyFresh, Saving

\* Where a call goes when it starts, and what it holds when it goes on.
LEMMA HeldAfter ==
  ASSUME IInv, NEW r \in Calls, NEW label, NEW x, Goto(r, label), Hold(r, x)
  PROVE  /\ pc'[r] = label /\ held'[r] = x
         /\ \A q \in Calls \ {r} : pc'[q] = pc[q]
BY DEF Goto, Hold, IInv, FleetInv, TypeOK

LEMMA OrderlyBegin ==
  ASSUME IInv, OrderlyInv, NEW r \in Calls, Begin(r)
  PROVE  OrderlyInv'
<1>1. /\ UNCHANGED <<tables, net, counted>> /\ orderly' = (orderly /\ Quiet)
      /\ \E label \in {"create", "loadType", "countLogin", "findSession"}, x \in Held :
           /\ Start(r, label, x)
           /\ label = "loadType" => x.op # "logOutCurrent"
  <2>1. UNCHANGED <<tables, net, counted>> /\ orderly' = (orderly /\ Quiet)
    BY DEF Begin
  <2>2. CASE Start(r, "create", [Blank EXCEPT !.op = "create"])
    <3>1. [Blank EXCEPT !.op = "create"] \in Held
      BY BlankIsHeld DEF Held
    <3>. QED
      BY <2>1, <2>2, <3>1
  <2>3. ASSUME NEW o \in TypeOperations,
               Start(r, "loadType", [Blank EXCEPT !.op = o])
        PROVE  \E x \in Held : Start(r, "loadType", x) /\ x.op # "logOutCurrent"
    <3>1. /\ [Blank EXCEPT !.op = o] \in Held
          /\ [Blank EXCEPT !.op = o].op = o /\ o # "logOutCurrent"
      BY BlankIsHeld DEF Held, TypeOperations
    <3>. QED
      BY <2>3, <3>1
  <2>4. ASSUME NEW d \in Drivers, NEW t \in Now,
               Start(r, "countLogin", [Blank EXCEPT !.op = "logIn", !.driver = d,
                                                   !.time = t])
        PROVE  \E x \in Held : Start(r, "countLogin", x)
    <3>1. t \in Nat
      BY RowFacts DEF Now, IInv
    <3>2. [Blank EXCEPT !.op = "logIn", !.driver = d, !.time = t] \in Held
      BY <3>1, BlankIsHeld DEF Held
    <3>. QED
      BY <2>4, <3>2
  <2>5. ASSUME NEW s \in DOMAIN sessions,
               Start(r, "loadType", [Blank EXCEPT !.op = "logOut", !.session = s])
        PROVE  \E x \in Held : Start(r, "loadType", x) /\ x.op # "logOutCurrent"
    <3>1. s \in Nat
      BY RowFacts DEF IInv
    <3>2. /\ [Blank EXCEPT !.op = "logOut", !.session = s] \in Held
          /\ [Blank EXCEPT !.op = "logOut", !.session = s].op = "logOut"
      BY <3>1, BlankIsHeld DEF Held, LogOuts
    <3>. QED
      BY <2>5, <3>2
  <2>6. ASSUME NEW d \in Drivers,
               Start(r, "findSession", [Blank EXCEPT !.op = "logOutCurrent",
                                                     !.driver = d])
        PROVE  \E x \in Held : Start(r, "findSession", x)
    <3>1. [Blank EXCEPT !.op = "logOutCurrent", !.driver = d] \in Held
      BY BlankIsHeld DEF Held, LogOuts
    <3>. QED
      BY <2>6, <3>1
  <2>. QED
    BY <2>1, <2>2, <2>3, <2>4, <2>5, <2>6 DEF Begin
<1>2. PICK label \in {"create", "loadType", "countLogin", "findSession"}, x \in Held :
        /\ Start(r, label, x)
        /\ label = "loadType" => x.op # "logOutCurrent"
  BY <1>1
<1>3. /\ pc'[r] = label /\ held'[r] = x
      /\ \A q \in Calls \ {r} : pc'[q] = pc[q]
  BY <1>2, HeldAfter DEF Start
<1>4. ASSUME orderly' PROVE Counts' /\ CopyFresh(r)' /\ ClosesLatest(r)'
  <2>1. Counts' /\ CopyFresh(r)'
    BY <1>1, <1>3, <1>4, OrderlyLocal DEF Saving, tables
  <2>2. ClosesLatest(r)'
    BY <1>2, <1>3 DEF ClosesLatest, Closing
  <2>. QED
    BY <2>1, <2>2
<1>. QED
  BY <1>3, <1>4, OrderlyStepOf

\* A call that ends, or throws, with the counts right.
LEMMA OrderlyFinish ==
  ASSUME IInv, OrderlyInv, NEW r \in Calls, InProgress(r), Finish(r),
         orderly' = orderly, orderly => Counts'
  PROVE  OrderlyInv'
<1>1. /\ pc'[r] = "idle" /\ \A q \in Calls \ {r} : pc'[q] = pc[q]
  BY HeldAfter DEF Finish
<1>2. CopyFresh(r)' /\ ClosesLatest(r)'
  BY <1>1 DEF CopyFresh, ClosesLatest, Saving, Closing
<1>. QED
  BY <1>1, <1>2, OrderlyStepOf

\* Loading the type and changing it: both counts are those of the table.
LEMMA ChangedCounts ==
  ASSUME IInv, type # NoRow, NEW o
  PROVE  /\ Changed(o, Loaded).cars = type.cars + Change(o)
         /\ Changed(o, Loaded).counter = active
BY DEF Changed, Loaded

LEMMA OrderlyLoad ==
  ASSUME IInv, OrderlyInv, NEW r \in Calls, Create(r) \/ LoadType(r)
  PROVE  OrderlyInv'
<1>1. /\ InProgress(r) /\ orderly' = orderly
      /\ UNCHANGED <<tables, net, counted>>
      /\ held[r] \in Held
  BY CallFacts DEF Create, LoadType, Throw, history, InProgress, IInv
<1>2. CASE Create(r) /\ type = NoRow
  <2>1. pc'[r] = "insertCounter" /\ \A q \in Calls \ {r} : pc'[q] = pc[q]
    BY <1>2 DEF Create, Goto, IInv, FleetInv, TypeOK
  <2>2. ASSUME orderly PROVE Counts' /\ CopyFresh(r)'
    BY <1>1, <2>1, <2>2, OrderlyLocal DEF Saving, tables
  <2>3. ClosesLatest(r)'
    BY <2>1 DEF ClosesLatest, Closing
  <2>. QED
    BY <1>1, <2>1, <2>2, <2>3, OrderlyStepOf
<1>3. ASSUME NEW y, Start(r, "compare", [held[r] EXCEPT !.copy = y]),
             y.cars = type.cars + Change(held[r].op), y.counter = active,
             pc[r] \in {"create", "loadType"}
      PROVE  OrderlyInv'
  <2>1. /\ pc'[r] = "compare" /\ held'[r] = [held[r] EXCEPT !.copy = y]
        /\ \A q \in Calls \ {r} : pc'[q] = pc[q]
    BY <1>3, HeldAfter DEF Start
  <2>2. /\ held'[r].copy = y /\ held'[r].op = held[r].op
        /\ held'[r].session = held[r].session
    BY <1>1, <2>1 DEF Held
  <2>3. type' = type /\ active' = active /\ sessions' = sessions
    BY <1>1 DEF tables
  <2>4. CopyFresh(r)'
    BY <1>3, <2>1, <2>2, <2>3 DEF CopyFresh
  <2>5. ASSUME orderly PROVE ClosesLatest(r)' /\ Counts'
    <3>1. CASE pc[r] = "create"
      <4>1. held[r].op = "create"
        BY <3>1, CallFacts DEF CallOK, IInv
      <4>. QED
        BY <1>1, <2>2, <2>3, <2>5, <4>1 DEF ClosesLatest, OrderlyInv, Counts
    <3>2. CASE pc[r] = "loadType"
      BY <1>1, <2>1, <2>2, <2>3, <2>5, <3>2
         DEF ClosesLatest, Closing, OrderlyInv, Counts, LatestSessions, OpenSessions
    <3>. QED
      BY <1>3, <3>1, <3>2
  <2>. QED
    BY <1>1, <2>1, <2>4, <2>5, OrderlyStepOf
<1>4. CASE Create(r) /\ type # NoRow
  <2>1. held[r].op = "create" /\ Change("create") = 0
    BY <1>4, CallFacts DEF Create, CallOK, IInv, Change, LogOuts
  <2>2. type.cars \in Int
    BY <1>4, RowFacts DEF IInv, Type
  <2>3. Loaded.cars = type.cars + Change(held[r].op) /\ Loaded.counter = active
    BY <2>1, <2>2 DEF Loaded
  <2>. QED
    BY <1>3, <1>4, <2>3 DEF Create
<1>5. CASE LoadType(r) /\ type # NoRow /\ Allowed(held[r].op, type)
  BY <1>3, <1>5, ChangedCounts DEF LoadType
<1>6. CASE LoadType(r) /\ ~(type # NoRow /\ Allowed(held[r].op, type))
  <2>1. Finish(r)
    BY <1>6 DEF LoadType, Throw
  <2>2. orderly => Counts'
    BY <1>1 DEF OrderlyInv, Counts, tables
  <2>. QED
    BY <1>1, <2>1, <2>2, OrderlyFinish
<1>. QED
  BY <1>2, <1>4, <1>5, <1>6

LEMMA OrderlyCompare ==
  ASSUME IInv, OrderlyInv, NEW r \in Calls, Compare(r)
  PROVE  OrderlyInv'
<1>1. /\ pc[r] = "compare" /\ orderly' = orderly /\ held[r] \in Held
      /\ type' = type /\ active' = active /\ sessions' = sessions
      /\ net' = net /\ counted' = counted
      /\ Start(r, "update", [held[r] EXCEPT !.seen = Loaded])
  BY CallFacts DEF Compare, tables, history, IInv
<1>2. /\ pc'[r] = "update" /\ held'[r] = [held[r] EXCEPT !.seen = Loaded]
      /\ \A q \in Calls \ {r} : pc'[q] = pc[q]
  BY <1>1, HeldAfter DEF Start
<1>3. /\ held'[r].seen = Loaded /\ held'[r].copy = held[r].copy
      /\ held'[r].op = held[r].op /\ held'[r].session = held[r].session
  BY <1>1, <1>2 DEF Held
<1>4. ASSUME orderly PROVE Counts' /\ CopyFresh(r)' /\ ClosesLatest(r)'
  <2>1. Counts'
    BY <1>1, <1>4 DEF OrderlyInv, Counts
  <2>2. CopyFresh(r)'
    BY <1>1, <1>2, <1>3, <1>4 DEF OrderlyInv, CopyFresh, Saving, Loaded
  <2>3. ClosesLatest(r)'
    BY <1>1, <1>2, <1>3, <1>4
       DEF OrderlyInv, ClosesLatest, Closing, LatestSessions, OpenSessions
  <2>. QED
    BY <2>1, <2>2, <2>3
<1>. QED
  BY <1>1, <1>2, <1>4, OrderlyStepOf DEF InProgress

\* A save writes what was loaded, changed: nothing is lost on the way.
LEMMA OrderlyUpdate ==
  ASSUME IInv, OrderlyInv, NEW r \in Calls, Update(r)
  PROVE  OrderlyInv'
<1>1. /\ pc[r] = "update" /\ orderly' = orderly /\ held[r] \in Held
      /\ type' = [active |-> Written(r, "active", type.active),
                  cars   |-> Written(r, "cars", type.cars)]
      /\ active' = Written(r, "counter", active)
      /\ net' = net + Change(held[r].op)
      /\ sessions' = sessions /\ counted' = counted
  BY CallFacts DEF Update, IInv
<1>2. type \in Type /\ active \in Nat /\ type' \in Type
  <2>1. type \in Type /\ held[r].copy \in SoundCopy
    BY <1>1, CallFacts DEF CallOK, Saving, IInv
  <2>2. type.cars \in Int /\ type.active \in BOOLEAN /\ active \in Nat
    BY <2>1 DEF IInv, FleetInv, RowsOK, Type
  <2>3. held[r].copy.cars \in Int /\ held[r].copy.active \in BOOLEAN
    BY <2>1 DEF SoundCopy, Copy
  <2>. QED
    BY <1>1, <2>1, <2>2, <2>3 DEF Written, Type
<1>3. type # NoRow /\ type' # NoRow /\ active # NoRow
  BY <1>2, FleetAssumption
<1>4. ASSUME orderly PROVE Counts'
  <2>1. /\ held[r].copy.cars = type.cars + Change(held[r].op)
        /\ held[r].copy.counter = active
        /\ held[r].seen.cars = type.cars /\ held[r].seen.counter = active
        /\ type.cars = net /\ active = counted
    BY <1>1, <1>3, <1>4 DEF OrderlyInv, CopyFresh, Counts, Saving
  <2>2. active' = active
    BY <1>1, <2>1 DEF Written
  <2>3. type'.cars = net'
    BY <1>1, <2>1 DEF Written
  <2>. QED
    BY <1>1, <1>3, <2>1, <2>2, <2>3 DEF Counts
<1>5. CASE EndsTheCall(r)
  BY <1>1, <1>4, <1>5, OrderlyFinish DEF Update, InProgress
<1>6. CASE ~EndsTheCall(r)
  <2>1. /\ pc'[r] = "closeSession" /\ held' = held
        /\ \A q \in Calls \ {r} : pc'[q] = pc[q]
    BY <1>6 DEF Update, Goto, IInv, FleetInv, TypeOK
  <2>2. CopyFresh(r)'
    BY <2>1 DEF CopyFresh, Saving
  <2>3. ASSUME orderly PROVE ClosesLatest(r)'
    BY <1>1, <2>1, <2>3
       DEF OrderlyInv, ClosesLatest, Closing, LatestSessions, OpenSessions
  <2>. QED
    BY <1>1, <1>4, <2>1, <2>2, <2>3, OrderlyStepOf DEF InProgress
<1>. QED
  BY <1>5, <1>6

LEMMA OrderlyInsert ==
  ASSUME IInv, OrderlyInv, NEW r \in Calls,
         InsertCounter(r) \/ InsertType(r) \/ CountLogin(r)
  PROVE  OrderlyInv'
<1>1. InProgress(r) /\ orderly' = orderly
  BY DEF InsertCounter, InsertType, CountLogin, InProgress, history
<1>2. ASSUME orderly PROVE Counts'
  <2>1. Counts
    BY <1>2 DEF OrderlyInv
  <2>2. CASE InsertCounter(r)
    BY <2>1, <2>2, FleetAssumption DEF InsertCounter, Counts, history
  <2>3. CASE InsertType(r)
    <3>1. [active |-> FALSE, cars |-> 0] # NoRow
      <4>1. [active |-> FALSE, cars |-> 0] \in Type
        BY DEF Type
      <4>. QED
        BY <4>1, FleetAssumption
    <3>. QED
      BY <2>1, <2>3, <3>1 DEF InsertType, Counts, history
  <2>4. CASE CountLogin(r)
    <3>1. active # NoRow => active \in Nat /\ active + 1 # NoRow
      BY RowFacts, FleetAssumption DEF IInv
    <3>. QED
      BY <2>1, <2>4, <3>1 DEF CountLogin, Counts, Incremented
  <2>. QED
    BY <2>2, <2>3, <2>4
<1>3. CASE InsertType(r)
  BY <1>1, <1>2, <1>3, OrderlyFinish DEF InsertType
<1>4. CASE InsertCounter(r) \/ CountLogin(r)
  <2>1. /\ pc'[r] \in {"insertType", "insertSession"}
        /\ \A q \in Calls \ {r} : pc'[q] = pc[q]
    BY <1>4 DEF InsertCounter, CountLogin, Goto, IInv, FleetInv, TypeOK
  <2>2. CopyFresh(r)' /\ ClosesLatest(r)'
    BY <2>1 DEF CopyFresh, ClosesLatest, Saving, Closing
  <2>. QED
    BY <1>1, <1>2, <2>1, <2>2, OrderlyStepOf
<1>. QED
  BY <1>3, <1>4

LEMMA OrderlySession ==
  ASSUME IInv, OrderlyInv, NEW r \in Calls,
         InsertSession(r) \/ FindSession(r) \/ CloseSession(r)
  PROVE  OrderlyInv'
<1>1. /\ InProgress(r) /\ orderly' = orderly
      /\ UNCHANGED <<type, active, net, counted>>
  BY DEF InsertSession, FindSession, CloseSession, Throw, InProgress, history, tables
<1>2. orderly => Counts'
  BY <1>1 DEF OrderlyInv, Counts
<1>3. CASE Finish(r)
  BY <1>1, <1>2, <1>3, OrderlyFinish
<1>4. ASSUME FindSession(r), NEW s \in LatestSessions(held[r].driver), NEW t \in Now,
             Start(r, "loadType", [held[r] EXCEPT !.session = s, !.time = t]),
             UNCHANGED tables
      PROVE  OrderlyInv'
  <2>1. /\ pc'[r] = "loadType"
        /\ held'[r] = [held[r] EXCEPT !.session = s, !.time = t]
        /\ \A q \in Calls \ {r} : pc'[q] = pc[q]
    BY <1>4, HeldAfter DEF Start
  <2>2. held[r] \in Held
    BY CallFacts DEF IInv
  <2>3. held'[r].session = s
    BY <2>1, <2>2 DEF Held
  <2>4. sessions[s].driver = held[r].driver /\ sessions' = sessions
    BY <1>4 DEF LatestSessions, OpenSessions, tables
  <2>5. ClosesLatest(r)'
    BY <1>4, <2>3, <2>4 DEF ClosesLatest, LatestSessions, OpenSessions
  <2>6. CopyFresh(r)'
    BY <2>1 DEF CopyFresh, Saving
  <2>. QED
    BY <1>1, <1>2, <2>1, <2>5, <2>6, OrderlyStepOf
<1>. QED
  BY <1>3, <1>4 DEF InsertSession, FindSession, CloseSession, Throw

LEMMA OrderlyInvariance == ReportSpec => []OrderlyInv
<1>1. ReportInit => OrderlyInv
  BY DEF ReportInit, Init, OrderlyInv, OneAtATime, InProgress, Counts, CopyFresh,
         ClosesLatest, Saving, Closing
<1>2. IInv /\ OrderlyInv /\ [ReportNext]_reportVars => OrderlyInv'
  <2>. SUFFICES ASSUME IInv, OrderlyInv, [ReportNext]_reportVars
                PROVE  OrderlyInv'
    OBVIOUS
  <2>1. ASSUME NEW r \in Calls, Begin(r) \/ Step(r) PROVE OrderlyInv'
    BY <2>1, OrderlyBegin, OrderlyLoad, OrderlyCompare, OrderlyUpdate,
       OrderlyInsert, OrderlySession DEF Step
  <2>2. CASE Crash
    BY <2>2 DEF Crash, OrderlyInv
  <2>3. CASE RideStep \/ UNCHANGED reportVars
    <3>1. UNCHANGED <<tables, pc, held, history>>
      BY <2>3 DEF RideStep, TakeCompletionTime, SaveCompletion, reportVars, vars
    <3>2. /\ type' = type /\ active' = active /\ sessions' = sessions
          /\ pc' = pc /\ held' = held
          /\ net' = net /\ counted' = counted /\ orderly' = orderly
      BY <3>1 DEF tables, history
    <3>. QED
      BY <3>2 DEF OrderlyInv, OneAtATime, InProgress, Counts, CopyFresh, ClosesLatest,
                  LatestSessions, OpenSessions
  <2>. QED
    BY <2>1, <2>2, <2>3 DEF ReportNext, Next
<1>. QED
  BY <1>1, <1>2, Invariance, PTL DEF ReportSpec

\* CarsAreCounted: as long as calls come one by one, the cars of a class are
\* those registered less those unregistered, and each of its logins is counted,
\* however saves of the type and logins alternate.
THEOREM CarsStayCounted == ReportSpec => []CarsAreCounted
<1>1. OrderlyInv => CarsAreCounted
  BY DEF OrderlyInv, Counts, CarsAreCounted
<1>. QED
  BY <1>1, OrderlyInvariance, PTL

\* LatestSessionCloses: as long as calls come one by one, logOutCurrentSession
\* closes the session its driver opened last, of any number.
THEOREM LatestSessionsClose == ReportSpec => LatestSessionCloses
<1>1. OrderlyInv =>
        \A r \in Calls :
          orderly /\ pc[r] = "closeSession" /\ held[r].op = "logOutCurrent" =>
            LET s == held[r].session IN
              \A q \in OpenSessions(sessions[s].driver) :
                sessions[q].loggedAt <= sessions[s].loggedAt
  BY DEF OrderlyInv, ClosesLatest, Closing, LatestSessions
<1>. QED
  BY <1>1, OrderlyInvariance, PTL DEF LatestSessionCloses
=============================================================================
