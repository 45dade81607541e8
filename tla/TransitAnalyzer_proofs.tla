----------------------- MODULE TransitAnalyzer_proofs -----------------------
(***************************************************************************)
(* What the graph tells can be shown: every node of the graph has the hash *)
(* of an address that has a row.  The two are in different databases, so   *)
(* the proof follows a hash from the request that brings it over the row   *)
(* of the ride and the event to the graph.                                 *)
(*                                                                         *)
(* And the graph answers what the rides would, although it may have many   *)
(* nodes of one hash.  The paths of a graph are those the query matches,   *)
(* of any length; a path between any nodes is one between the first nodes  *)
(* of their hashes, where each ride is drawn too; and while requests come  *)
(* one at a time a leg tells what the row of its ride does.                *)
(***************************************************************************)
EXTENDS TransitAnalyzer, SequenceTheorems, FiniteSetTheorems, TLAPS

-----------------------------------------------------------------------------
(* The inductive invariant                                                  *)

\* Both addresses of a row of a ride are among hs.
WithAddresses(row, hs) == row \in Legs /\ row.from \in hs /\ row.to \in hs

Waiting(x) == x.at \in {"address", "insertAddress"}

Updating(x) == x.at \in {"updateDetails", "updateCompleted"}

\* Steps that no request goes on with once its addresses have rows.
Inner == {"idle", "address", "insertAddress", "updateDetails", "updateCompleted"}

\* A request holds a row whose addresses have rows or are in todo; the row is
\* that of a ride that exists unless the request creates it.
CallKeepsAddresses(x, hs, rows) ==
  x # NoCall =>
    /\ WithAddresses(x.row, hs \union Range(x.todo))
    /\ x.then # "insertDetails" => rows[x.row.ride] # NoRide
    /\ x.then \notin Inner
    /\ x.at # "idle"
    /\ ~Waiting(x) => x.todo = <<>> /\ (x.at = "insertDetails" <=>
                                         x.then = "insertDetails")
    /\ x.at = "insertAddress" => x.todo # <<>>
    /\ Updating(x) => WithAddresses(x.copy, hs) /\ x.copy.ride = x.row.ride

DetailsKeepAddresses ==
  \A ride \in Rides :
    Exists(ride) => WithAddresses(details[ride], addresses) /\
                    details[ride].ride = ride

CallsKeepAddresses ==
  \A c \in Calls : CallKeepsAddresses(call[c], addresses, details)

EventsKeepAddresses == \A e \in listeners : WithAddresses(e.leg, addresses)

IInv ==
  /\ TypeOK
  /\ DetailsKeepAddresses
  /\ CallsKeepAddresses
  /\ EventsKeepAddresses
  /\ AnswersCanBeShown

-----------------------------------------------------------------------------
(* Calls                                                                    *)

LEMMA NoCallFacts ==
  /\ NoCall \in CallStates
  /\ NoCall.at = "idle"
  /\ \A hs, rows : CallKeepsAddresses(NoCall, hs, rows)
BY EmptySeq DEF NoCall, CallStates, Steps, CallKeepsAddresses

LEMMA LegIsNoRide == \A row \in Legs : row # NoRide
BY AnalyzerAssumption DEF Legs, NoRide, Rides

\* Rows of addresses and rides that stay.
Grows == /\ addresses \subseteq addresses'
         /\ \A ride \in Rides : Exists(ride) => Exists(ride)'

\* A call that takes a step; the others hold what they held.
LEMMA HoldKeeps ==
  ASSUME TypeOK, CallsKeepAddresses, Grows,
         NEW c \in Calls, NEW x \in CallStates, Hold(c, x),
         CallKeepsAddresses(x, addresses', details')
  PROVE  call' \in [Calls -> CallStates] /\ CallsKeepAddresses'
<1>1. call' \in [Calls -> CallStates]
  BY DEF TypeOK, Hold
<1>2. ASSUME NEW d \in Calls
      PROVE  CallKeepsAddresses(call'[d], addresses', details')
  <2>1. CASE d = c
    BY <2>1 DEF Hold, TypeOK
  <2>2. CASE d # c
    <3>1. call'[d] = call[d] /\ call[d] \in CallStates
      BY <2>2 DEF Hold, TypeOK
    <3>2. CallKeepsAddresses(call[d], addresses, details)
      BY DEF CallsKeepAddresses
    <3>3. ASSUME call[d] # NoCall
          PROVE  call[d].row.ride \in Rides
      BY <3>2, <3>3 DEF CallKeepsAddresses, WithAddresses, Legs
    <3>4. CallKeepsAddresses(call[d], addresses', details')
      BY <3>2, <3>3 DEF CallKeepsAddresses, WithAddresses, Grows, Exists
    <3> QED BY <3>1, <3>4
  <2> QED BY <2>1, <2>2
<1> QED BY <1>1, <1>2 DEF CallsKeepAddresses

\* What a call that is not idle holds.
LEMMA CallFacts ==
  ASSUME TypeOK, CallsKeepAddresses, NEW c \in Calls, ~Idle(c)
  PROVE  /\ call[c] \in CallStates
         /\ WithAddresses(call[c].row, addresses \union Range(call[c].todo))
         /\ Ride(c) \in Rides
         /\ call[c].then # "insertDetails" => Exists(Ride(c))
         /\ call[c].then \notin Inner
         /\ call[c].at # "idle"
         /\ ~Waiting(call[c]) =>
              call[c].todo = <<>> /\ (call[c].at = "insertDetails" <=>
                                      call[c].then = "insertDetails")
         /\ call[c].at = "insertAddress" => call[c].todo # <<>>
         /\ Updating(call[c]) => /\ WithAddresses(call[c].copy, addresses)
                                /\ call[c].copy.ride = Ride(c)
BY DEF TypeOK, CallsKeepAddresses, CallKeepsAddresses, Idle, Ride, Exists,
       WithAddresses, Legs

LEMMA NotIdle ==
  ASSUME NEW c \in Calls, call[c].at # "idle"
  PROVE  ~Idle(c)
BY NoCallFacts DEF Idle

\* A call past its addresses.
LEMMA PastAddresses ==
  ASSUME TypeOK, CallsKeepAddresses, NEW c \in Calls,
         call[c].at # "idle", ~Waiting(call[c])
  PROVE  /\ call[c] \in CallStates /\ Ride(c) \in Rides
         /\ call[c].todo = <<>> /\ WithAddresses(call[c].row, addresses)
         /\ call[c].at # "insertDetails" => Exists(Ride(c))
         /\ call[c].then # "insertDetails" <=> call[c].at # "insertDetails"
         /\ call[c].then \notin Inner
         /\ Updating(call[c]) => /\ WithAddresses(call[c].copy, addresses)
                                /\ call[c].copy.ride = Ride(c)
BY NotIdle, CallFacts DEF WithAddresses, Range

\* A call past its addresses goes on, with a row that keeps them.
LEMMA GoOn ==
  ASSUME TypeOK, CallsKeepAddresses, Grows, NEW c \in Calls,
         call[c].at # "idle", ~Waiting(call[c]), call[c].at # "insertDetails",
         NEW label \in (Steps \ Inner) \ {"insertDetails"},
         NEW row, WithAddresses(row, addresses'), details'[row.ride] # NoRide,
         Continue(c, label, <<>>, row)
  PROVE  call' \in [Calls -> CallStates] /\ CallsKeepAddresses'
<1> DEFINE x == [at |-> label, then |-> call[c].then, todo |-> <<>>, row |-> row,
                copy |-> NoRide]
<1>1. x \in CallStates
  BY PastAddresses, EmptySeq DEF CallStates, WithAddresses
<1>2. CallKeepsAddresses(x, addresses', details')
  BY PastAddresses DEF CallKeepsAddresses, WithAddresses, Exists, Waiting, Inner, Updating,
                       Range
<1>3. Hold(c, x)
  BY DEF Continue
<1> QED BY <1>1, <1>2, <1>3, HoldKeeps

LEMMA LeaveKeeps ==
  ASSUME TypeOK, CallsKeepAddresses, Grows, NEW c \in Calls, Leave(c)
  PROVE  call' \in [Calls -> CallStates] /\ CallsKeepAddresses'
BY NoCallFacts, HoldKeeps DEF Leave

\* A request changes no table of the graph; of the rest it keeps the types.
LEMMA RequestKeeps ==
  ASSUME IInv, Grows, addresses' \subseteq Hashes,
         call' \in [Calls -> CallStates], CallsKeepAddresses',
         transits' \in [Rides -> {"none", "in_transit", "completed"}],
         details' \in [Rides -> Legs \union {NoRide}], DetailsKeepAddresses',
         extras' \in 0 .. MaxExtras, orderly' \in BOOLEAN,
         UNCHANGED <<listeners, graph, now, crashed>>
  PROVE  IInv'
<1>1. TypeOK'
  BY DEF IInv, TypeOK, graph
<1>2. EventsKeepAddresses'
  BY DEF IInv, EventsKeepAddresses, WithAddresses, Grows
<1>3. AnswersCanBeShown'
  BY DEF IInv, AnswersCanBeShown, Grows, graph
<1> QED BY <1>1, <1>2, <1>3 DEF IInv

\* Details whose rows are as they were keep their addresses.
LEMMA SameDetails ==
  ASSUME IInv, addresses \subseteq addresses', UNCHANGED details
  PROVE  /\ Grows /\ DetailsKeepAddresses'
         /\ details' \in [Rides -> Legs \union {NoRide}]
BY DEF IInv, TypeOK, Grows, DetailsKeepAddresses, WithAddresses, Exists

\* A row of a ride takes the place of another, or of none.
LEMMA RowSaved ==
  ASSUME IInv, NEW ride \in Rides, NEW row, WithAddresses(row, addresses),
         row.ride = ride, UNCHANGED addresses,
         details' = [details EXCEPT ![ride] = row]
  PROVE  /\ Grows /\ DetailsKeepAddresses'
         /\ details' \in [Rides -> Legs \union {NoRide}]
<1>1. row \in Legs /\ row # NoRide
  BY LegIsNoRide DEF WithAddresses
<1>2. details' \in [Rides -> Legs \union {NoRide}]
  BY <1>1 DEF IInv, TypeOK
<1>3. Grows
  BY <1>1 DEF Grows, Exists, IInv, TypeOK
<1>4. DetailsKeepAddresses'
  BY <1>1 DEF DetailsKeepAddresses, Exists, IInv, TypeOK, WithAddresses
<1> QED BY <1>2, <1>3, <1>4

-----------------------------------------------------------------------------
(* Requests begin                                                           *)

LEMMA CountKeeps ==
  ASSUME IInv, NEW rare \in BOOLEAN, Count(rare)
  PROVE  extras' \in 0 .. MaxExtras /\ orderly' \in BOOLEAN
BY AnalyzerAssumption DEF Count, IInv, TypeOK

\* A request begins with a row that keeps its addresses, or brings them.
LEMMA BeginKeeps ==
  ASSUME IInv, NEW c \in Calls, NEW todo \in Seq(Hashes), NEW row,
         NEW then \in Steps \ Inner,
         WithAddresses(row, addresses \union Range(todo)),
         then = "insertDetails" => todo # <<>>,
         then # "insertDetails" => Exists(row.ride),
         NEW rare \in BOOLEAN, Begin(c, todo, then, row), Count(rare)
  PROVE  IInv'
<1> DEFINE x == [at |-> IF todo = <<>> THEN then ELSE "address", then |-> then,
                 todo |-> todo, row |-> row, copy |-> NoRide]
<1>1. x \in CallStates
  BY DEF CallStates, WithAddresses, Steps
<1>2. Hold(c, x) /\ UNCHANGED <<addresses, transits, details>>
  BY DEF Begin, rideTables
<1>3. Grows /\ DetailsKeepAddresses' /\ details' \in [Rides -> Legs \union {NoRide}]
  BY <1>2, SameDetails
<1>4. CallKeepsAddresses(x, addresses', details')
  BY <1>2 DEF CallKeepsAddresses, Exists, Waiting, Inner, Updating
<1>5. call' \in [Calls -> CallStates] /\ CallsKeepAddresses'
  BY <1>1, <1>2, <1>3, <1>4, HoldKeeps DEF IInv
<1>6. extras' \in 0 .. MaxExtras /\ orderly' \in BOOLEAN
  BY CountKeeps
<1>7. UNCHANGED <<listeners, graph, now, crashed>>
  BY DEF Begin
<1> QED
  BY <1>2, <1>3, <1>5, <1>6, <1>7, RequestKeeps DEF IInv, TypeOK

\* The copy of a row with one column changed.
LEMMA ChangedRow ==
  ASSUME IInv, NEW ride \in Rides, Exists(ride)
  PROVE  /\ \A hash \in Hashes :
              LET row == Changing(ride, "from", hash) IN
              WithAddresses(row, addresses \union {hash}) /\ row.ride = ride
         /\ \A hash \in Hashes :
              LET row == Changing(ride, "to", hash) IN
              WithAddresses(row, addresses \union {hash}) /\ row.ride = ride
         /\ \A t \in Times \union {None} :
              LET row == Changing(ride, "started", t) IN
              WithAddresses(row, addresses) /\ row.ride = ride
         /\ \A t \in Times \union {None} :
              LET row == Changing(ride, "completed", t) IN
              WithAddresses(row, addresses) /\ row.ride = ride
<1>1. details[ride] \in Legs /\ WithAddresses(details[ride], addresses)
      /\ details[ride].ride = ride
  BY DEF IInv, DetailsKeepAddresses, WithAddresses
<1> QED BY <1>1 DEF Changing, WithAddresses, Legs

LEMMA OneAddress ==
  ASSUME NEW hash \in Hashes
  PROVE  /\ <<hash>> \in Seq(Hashes) /\ Range(<<hash>>) = {hash}
         /\ Range(<<>>) = {} /\ <<>> \in Seq(Hashes)
BY DEF Range

LEMMA CreateTransitKeeps ==
  ASSUME IInv, NEW c \in Calls, CreateTransit(c)
  PROVE  IInv'
<1>1. PICK order \in Orders :
        LET from == order[2]
            to   == order[3]
        IN  Begin(c, <<from, to, Bare[from], Bare[to]>>, "insertDetails",
                  [ride |-> NextRide, client |-> order[1],
                   from |-> Bare[from], to |-> Bare[to],
                   started |-> None, completed |-> None])
  BY DEF CreateTransit
<1> DEFINE from == order[2]
           to == order[3]
           todo == <<from, to, Bare[from], Bare[to]>>
           row == [ride |-> NextRide, client |-> order[1],
                   from |-> Bare[from], to |-> Bare[to],
                   started |-> None, completed |-> None]
<1>2. NextRide \in Rides
  BY DEF CreateTransit, NextRide, FreshRides
<1>3. order[1] \in Clients /\ from \in Hashes /\ to \in Hashes
      /\ Bare[from] \in Hashes /\ Bare[to] \in Hashes
  BY AnalyzerAssumption
<1>4. todo \in Seq(Hashes) /\ todo # <<>>
  BY <1>3
<1>5. Bare[from] \in Range(todo) /\ Bare[to] \in Range(todo)
  <2>1. DOMAIN todo = 1 .. 4
    OBVIOUS
  <2>2. todo[3] = Bare[from] /\ todo[4] = Bare[to]
    OBVIOUS
  <2> QED BY <2>1, <2>2 DEF Range
<1>6. WithAddresses(row, addresses \union Range(todo))
  BY <1>2, <1>3, <1>5 DEF WithAddresses, Legs
<1>7. Count(FALSE) /\ Begin(c, todo, "insertDetails", row)
  BY <1>1 DEF CreateTransit
<1> HIDE DEF todo, row
<1> QED BY <1>4, <1>6, <1>7, BeginKeeps DEF Steps, Inner

LEMMA ChangeKeeps ==
  ASSUME IInv, NEW c \in Calls,
         \/ ChangeFrom(c) \/ ChangeTo(c) \/ StartTransit(c)
         \/ CompleteTransit(c)
  PROVE  IInv'
<1>1. CASE ChangeFrom(c)
  <2>1. PICK ride \in Rides, hash \in Hashes :
          /\ Exists(ride)
          /\ Begin(c, <<hash>>, "checkDemand", Changing(ride, "from", hash))
    BY <1>1 DEF ChangeFrom
  <2>2. WithAddresses(Changing(ride, "from", hash),
                      addresses \union Range(<<hash>>))
        /\ Changing(ride, "from", hash).ride = ride
    BY <2>1, ChangedRow, OneAddress
  <2>3. <<hash>> \in Seq(Hashes) /\ "checkDemand" \in Steps \ Inner /\ Count(TRUE)
    BY <1>1, OneAddress DEF ChangeFrom, Steps, Inner
  <2> QED BY <2>1, <2>2, <2>3, BeginKeeps
<1>2. CASE ChangeTo(c)
  <2>1. PICK ride \in Rides, hash \in Hashes :
          /\ Exists(ride)
          /\ Begin(c, <<hash>>, "checkTransit", Changing(ride, "to", hash))
    BY <1>2 DEF ChangeTo
  <2>2. WithAddresses(Changing(ride, "to", hash),
                      addresses \union Range(<<hash>>))
        /\ Changing(ride, "to", hash).ride = ride
    BY <2>1, ChangedRow, OneAddress
  <2>3. <<hash>> \in Seq(Hashes) /\ "checkTransit" \in Steps \ Inner /\ Count(TRUE)
    BY <1>2, OneAddress DEF ChangeTo, Steps, Inner
  <2> QED BY <2>1, <2>2, <2>3, BeginKeeps
<1>3. CASE StartTransit(c)
  <2>1. PICK ride \in Rides :
          /\ Exists(ride)
          /\ Begin(c, <<>>, "insertTransit", Changing(ride, "started", now))
    BY <1>3 DEF StartTransit
  <2>2. now \in Times \union {None}
    BY DEF IInv, TypeOK
  <2>3. <<>> \in Seq(Hashes) /\ Range(<<>>) = {}
    BY DEF Range
  <2>4. WithAddresses(Changing(ride, "started", now), addresses \union Range(<<>>))
        /\ Changing(ride, "started", now).ride = ride
    BY <2>1, <2>2, <2>3, ChangedRow
  <2> QED BY <1>3, <2>1, <2>3, <2>4, BeginKeeps DEF Steps, Inner, StartTransit
<1>4. CASE CompleteTransit(c)
  <2>1. PICK ride \in Rides, hash \in Hashes :
          /\ Exists(ride)
          /\ Begin(c, <<hash>>, "loadDetails", Changing(ride, "completed", now))
    BY <1>4 DEF CompleteTransit
  <2>2. now \in Times \union {None}
    BY DEF IInv, TypeOK
  <2>3. WithAddresses(Changing(ride, "completed", now),
                      addresses \union Range(<<hash>>))
        /\ Changing(ride, "completed", now).ride = ride
    BY <2>1, <2>2, ChangedRow DEF WithAddresses
  <2> QED BY <1>4, <2>1, <2>3, OneAddress, BeginKeeps DEF Steps, Inner, CompleteTransit
<1> QED BY <1>1, <1>2, <1>3, <1>4

-----------------------------------------------------------------------------
(* Addresses                                                                *)

\* Where the first found of todo have rows, the others are still owed.
LEMMA Owed ==
  ASSUME NEW todo \in Seq(Hashes), NEW found \in 0 .. Len(todo), NEW hs,
         \A i \in 1 .. found : todo[i] \in hs
  PROVE  LET rest == SubSeq(todo, found + 1, Len(todo)) IN
         /\ rest \in Seq(Hashes)
         /\ hs \union Range(todo) \subseteq hs \union Range(rest)
         /\ found = Len(todo) <=> rest = <<>>
<1> DEFINE rest == SubSeq(todo, found + 1, Len(todo))
<1>1. /\ rest \in Seq(Hashes) /\ Len(rest) = Len(todo) - found
      /\ \A i \in 1 .. Len(rest) : rest[i] = todo[found + i]
  BY SubSeqProperties, LenProperties
<1> HIDE DEF rest
<1>2. found = Len(todo) <=> rest = <<>>
  <2>1. Len(rest) = 0 <=> rest = <<>>
    BY <1>1, EmptySeq
  <2>2. Len(todo) \in Nat
    BY LenProperties
  <2> QED BY <1>1, <2>1, <2>2
<1>3. ASSUME NEW i \in DOMAIN todo, todo[i] \notin hs
      PROVE  todo[i] \in Range(rest)
  <2>1. i \in 1 .. Len(todo) /\ i > found
    BY <1>3, LenProperties
  <2>2. i - found \in 1 .. Len(rest) /\ rest[i - found] = todo[i]
    BY <1>1, <2>1
  <2>3. DOMAIN rest = 1 .. Len(rest)
    BY <1>1, LenProperties
  <2> QED BY <2>2, <2>3 DEF Range
<1>4. hs \union Range(todo) \subseteq hs \union Range(rest)
  BY <1>3 DEF Range
<1> QED BY <1>1, <1>2, <1>4 DEF rest

LEMMA FindAddressKeeps ==
  ASSUME IInv, NEW c \in Calls, FindAddress(c)
  PROVE  IInv'
<1>1. call[c].at = "address" /\ ~Idle(c)
  BY NotIdle DEF FindAddress
<1> DEFINE todo == call[c].todo
<1>2. PICK found \in 0 .. Len(todo) :
        /\ \A i \in 1 .. found : todo[i] \in addresses
        /\ Continue(c, IF found = Len(todo) THEN call[c].then
                       ELSE "insertAddress",
                    SubSeq(todo, found + 1, Len(todo)), call[c].row)
  BY DEF FindAddress
<1> DEFINE rest == SubSeq(todo, found + 1, Len(todo))
           label == IF found = Len(todo) THEN call[c].then ELSE "insertAddress"
           x == [at |-> label, then |-> call[c].then, todo |-> rest,
                 row |-> call[c].row, copy |-> NoRide]
<1>3. call[c] \in CallStates /\ todo \in Seq(Hashes)
  BY <1>1, CallFacts DEF IInv, CallStates
<1>4. /\ rest \in Seq(Hashes) /\ (found = Len(todo) <=> rest = <<>>)
      /\ addresses \union Range(todo) \subseteq addresses \union Range(rest)
  BY <1>2, <1>3, Owed
<1>5. UNCHANGED <<addresses, rideTables, listeners, graph, world>>
  BY DEF FindAddress
<1>6. Grows /\ DetailsKeepAddresses' /\ details' \in [Rides -> Legs \union {NoRide}]
  BY <1>5, SameDetails DEF rideTables
<1>7. Hold(c, x)
  BY <1>2 DEF Continue
<1> HIDE DEF todo, rest
<1>8. x \in CallStates
  BY <1>3, <1>4 DEF CallStates, Steps
<1>9. CallKeepsAddresses(x, addresses', details')
  BY <1>1, <1>4, <1>5, CallFacts
  DEF IInv, CallKeepsAddresses, WithAddresses, Waiting, Inner, Updating, Exists, Ride,
      todo, rideTables
<1>10. call' \in [Calls -> CallStates] /\ CallsKeepAddresses'
  BY <1>6, <1>7, <1>8, <1>9, HoldKeeps DEF IInv
<1> QED
  BY <1>5, <1>6, <1>10, RequestKeeps DEF IInv, TypeOK, world, rideTables

LEMMA InsertAddressKeeps ==
  ASSUME IInv, NEW c \in Calls, InsertAddress(c)
  PROVE  IInv'
<1> DEFINE todo == call[c].todo
           hash == Head(todo)
           x == [at |-> "address", then |-> call[c].then, todo |-> Tail(todo),
                 row |-> call[c].row, copy |-> NoRide]
<1>1. call[c].at = "insertAddress" /\ ~Idle(c)
  BY NotIdle DEF InsertAddress
<1>2. call[c] \in CallStates /\ todo \in Seq(Hashes) /\ todo # <<>>
  BY <1>1, CallFacts DEF IInv, CallStates
<1>3. /\ hash \in Hashes /\ Tail(todo) \in Seq(Hashes)
      /\ Range(todo) \subseteq {hash} \union Range(Tail(todo))
  <2>1. /\ hash = todo[1] /\ hash \in Hashes /\ Tail(todo) \in Seq(Hashes)
        /\ DOMAIN Tail(todo) = 1 .. Len(todo) - 1
        /\ \A i \in 1 .. Len(todo) - 1 : Tail(todo)[i] = todo[i + 1]
    BY <1>2, HeadTailProperties, LenProperties, EmptySeq, ElementOfSeq
  <2>2. ASSUME NEW i \in DOMAIN todo, i # 1
        PROVE  todo[i] \in Range(Tail(todo))
    <3>1. i \in 1 .. Len(todo) /\ Len(todo) \in Nat
      BY <1>2, LenProperties
    <3>2. i - 1 \in DOMAIN Tail(todo) /\ Tail(todo)[i - 1] = todo[i]
      BY <2>1, <2>2, <3>1
    <3> QED BY <3>2 DEF Range
  <2> QED BY <2>1, <2>2 DEF Range
<1>4. UNCHANGED <<rideTables, listeners, graph, world>>
  BY DEF InsertAddress
<1>5. addresses \subseteq addresses' /\ addresses' \subseteq Hashes
  BY <1>3 DEF InsertAddress, IInv, TypeOK
<1>6. Grows /\ DetailsKeepAddresses' /\ details' \in [Rides -> Legs \union {NoRide}]
  BY <1>4, <1>5, SameDetails DEF rideTables
<1>7. call' \in [Calls -> CallStates] /\ CallsKeepAddresses'
  <2>1. CASE Leave(c)
    BY <1>6, <2>1, LeaveKeeps DEF IInv
  <2>2. CASE addresses' = addresses \union {hash} /\ Hold(c, x)
    <3>1. x \in CallStates
      BY <1>2, <1>3 DEF CallStates, Steps
    <3>2. CallKeepsAddresses(x, addresses', details')
      BY <1>1, <1>3, <1>4, <2>2, CallFacts
      DEF IInv, CallKeepsAddresses, WithAddresses, Waiting, Inner, Updating, Exists,
          Ride, rideTables
    <3> QED BY <1>6, <2>2, <3>1, <3>2, HoldKeeps DEF IInv
  <2> QED BY <2>1, <2>2 DEF InsertAddress, Continue
<1> QED
  BY <1>4, <1>5, <1>6, <1>7, RequestKeeps DEF IInv, TypeOK, world, rideTables

-----------------------------------------------------------------------------
(* Handlers past their addresses                                            *)

\* A handler ends, or goes on with the row it has.
LEMMA StepKeepsRow ==
  ASSUME IInv, Grows, NEW c \in Calls, call[c].at # "idle", ~Waiting(call[c]),
         call[c].at # "insertDetails",
         NEW label \in {"saveFrom", "saveTo", "saveStarted", "saveCompleted",
                        "emit"},
         Leave(c) \/ Goto(c, label)
  PROVE  call' \in [Calls -> CallStates] /\ CallsKeepAddresses'
<1>1. CASE Leave(c)
  BY <1>1, LeaveKeeps DEF IInv
<1>2. CASE Goto(c, label)
  <2>1. Continue(c, label, <<>>, call[c].row)
    BY <1>2, PastAddresses DEF Goto, IInv
  <2>2. WithAddresses(call[c].row, addresses')
        /\ details'[call[c].row.ride] # NoRide
    BY PastAddresses DEF IInv, Grows, WithAddresses, Ride, Exists
  <2> QED BY <2>1, <2>2, GoOn DEF IInv, Steps, Inner
<1> QED BY <1>1, <1>2

LEMMA CheckKeeps ==
  ASSUME IInv, NEW c \in Calls, CheckDemand(c) \/ CheckTransit(c)
  PROVE  IInv'
<1>1. /\ call[c].at \in {"checkDemand", "checkTransit"}
      /\ Leave(c) \/ Goto(c, "saveFrom") \/ Goto(c, "saveTo")
      /\ UNCHANGED <<addresses, rideTables, listeners, graph, world>>
  BY DEF CheckDemand, CheckTransit
<1>2. Grows /\ DetailsKeepAddresses' /\ details' \in [Rides -> Legs \union {NoRide}]
  BY <1>1, SameDetails DEF rideTables
<1>3. call' \in [Calls -> CallStates] /\ CallsKeepAddresses'
  BY <1>1, <1>2, StepKeepsRow DEF Waiting
<1> QED
  BY <1>1, <1>2, <1>3, RequestKeeps DEF IInv, TypeOK, world, rideTables

LEMMA TransitRowKeeps ==
  ASSUME IInv, NEW c \in Calls, InsertTransit(c) \/ CompleteTransitRow(c)
  PROVE  IInv'
<1>1. /\ call[c].at \in {"insertTransit", "completeTransit"}
      /\ Leave(c) \/ Goto(c, "saveStarted") \/ Goto(c, "saveCompleted")
      /\ UNCHANGED <<addresses, details, listeners, graph, world>>
  BY DEF InsertTransit, CompleteTransitRow
<1>2. Grows /\ DetailsKeepAddresses' /\ details' \in [Rides -> Legs \union {NoRide}]
  BY <1>1, SameDetails
<1>3. call' \in [Calls -> CallStates] /\ CallsKeepAddresses'
  BY <1>1, <1>2, StepKeepsRow DEF Waiting
<1>4. transits' \in [Rides -> {"none", "in_transit", "completed"}]
  BY DEF InsertTransit, CompleteTransitRow, IInv, TypeOK
<1> QED
  BY <1>1, <1>2, <1>3, <1>4, RequestKeeps DEF IInv, TypeOK, world

LEMMA LoadDetailsKeeps ==
  ASSUME IInv, NEW c \in Calls, LoadDetails(c)
  PROVE  IInv'
<1>1. /\ call[c].at = "loadDetails"
      /\ Continue(c, "completeTransit", <<>>,
                  Changing(Ride(c), "completed", call[c].row.completed))
      /\ UNCHANGED <<addresses, rideTables, listeners, graph, world>>
  BY DEF LoadDetails
<1>2. Grows /\ DetailsKeepAddresses' /\ details' \in [Rides -> Legs \union {NoRide}]
  BY <1>1, SameDetails DEF rideTables
<1>3. /\ Ride(c) \in Rides /\ Exists(Ride(c))
      /\ call[c].row.completed \in Times \union {None}
  BY <1>1, PastAddresses DEF IInv, Waiting, WithAddresses, Legs
<1> DEFINE row == Changing(Ride(c), "completed", call[c].row.completed)
<1>4. WithAddresses(row, addresses) /\ row.ride = Ride(c)
  BY <1>3, ChangedRow
<1> HIDE DEF row
<1>5. WithAddresses(row, addresses') /\ details'[row.ride] # NoRide
  BY <1>1, <1>3, <1>4 DEF Exists, rideTables
<1>6. Continue(c, "completeTransit", <<>>, row)
  BY <1>1 DEF row
<1>7. call' \in [Calls -> CallStates] /\ CallsKeepAddresses'
  BY <1>1, <1>2, <1>5, <1>6, GoOn DEF IInv, Waiting, Steps, Inner
<1> QED
  BY <1>1, <1>2, <1>7, RequestKeeps DEF IInv, TypeOK, world, rideTables

LEMMA InsertDetailsKeeps ==
  ASSUME IInv, NEW c \in Calls, InsertDetails(c)
  PROVE  IInv'
<1>1. /\ Ride(c) \in Rides /\ WithAddresses(call[c].row, addresses)
      /\ UNCHANGED <<addresses, transits, listeners, graph, world>>
      /\ details' = [details EXCEPT ![Ride(c)] = call[c].row] /\ Leave(c)
  BY PastAddresses DEF InsertDetails, IInv, Waiting
<1>2. Grows /\ DetailsKeepAddresses' /\ details' \in [Rides -> Legs \union {NoRide}]
  BY <1>1, RowSaved DEF Ride
<1>3. call' \in [Calls -> CallStates] /\ CallsKeepAddresses'
  BY <1>1, <1>2, LeaveKeeps DEF IInv
<1> QED
  BY <1>1, <1>2, <1>3, RequestKeeps DEF IInv, TypeOK, world

\* A column of the row of a ride is changed in a copy of it.
LEMMA LoadToSaveKeeps ==
  ASSUME IInv, NEW c \in Calls, LoadToSave(c)
  PROVE  IInv'
<1> DEFINE column == SavedColumn[call[c].at]
           copy == Changing(Ride(c), column, call[c].row[column])
           label == IF call[c].at = "saveCompleted" THEN "updateCompleted"
                    ELSE "updateDetails"
           x == [at |-> label, then |-> call[c].then, todo |-> <<>>,
                 row |-> call[c].row, copy |-> copy]
<1>1. /\ call[c].at \in {"saveFrom", "saveTo", "saveStarted", "saveCompleted"}
      /\ UNCHANGED <<addresses, rideTables, listeners, graph, world>>
      /\ Hold(c, x)
  BY DEF LoadToSave, SavedColumn
<1>2. /\ call[c] \in CallStates /\ Ride(c) \in Rides /\ Exists(Ride(c))
      /\ WithAddresses(call[c].row, addresses)
      /\ call[c].then \notin Inner \union {"insertDetails"}
  BY <1>1, PastAddresses DEF IInv, Waiting
<1>3. WithAddresses(copy, addresses) /\ copy.ride = Ride(c)
  <2>1. /\ details[Ride(c)] \in Legs /\ WithAddresses(details[Ride(c)], addresses)
        /\ details[Ride(c)].ride = Ride(c)
    BY <1>2 DEF IInv, DetailsKeepAddresses, WithAddresses
  <2>2. column \in {"from", "to", "started", "completed"}
    BY <1>1 DEF SavedColumn
  <2> HIDE DEF column
  <2> QED BY <1>2, <2>1, <2>2 DEF Changing, WithAddresses, Legs
<1> HIDE DEF copy
<1>4. x \in CallStates
  BY <1>2, <1>3, EmptySeq DEF CallStates, Steps, WithAddresses
<1>5. CallKeepsAddresses(x, addresses', details')
  BY <1>1, <1>2, <1>3
  DEF CallKeepsAddresses, WithAddresses, Waiting, Inner, Updating, Exists, Ride, Range,
      rideTables
<1>6. Grows /\ DetailsKeepAddresses' /\ details' \in [Rides -> Legs \union {NoRide}]
  BY <1>1, SameDetails DEF rideTables
<1>7. call' \in [Calls -> CallStates] /\ CallsKeepAddresses'
  BY <1>1, <1>4, <1>5, <1>6, HoldKeeps DEF IInv
<1> QED
  BY <1>1, <1>6, <1>7, RequestKeeps DEF IInv, TypeOK, world, rideTables

\* The copy is saved.
LEMMA UpdateDetailsKeeps ==
  ASSUME IInv, NEW c \in Calls, UpdateDetails(c)
  PROVE  IInv'
<1>1. /\ call[c].at \in {"updateDetails", "updateCompleted"}
      /\ details' = [details EXCEPT ![Ride(c)] = call[c].copy]
      /\ Leave(c) \/ Goto(c, "emit")
      /\ UNCHANGED <<addresses, transits, listeners, graph, world>>
  BY DEF UpdateDetails
<1>2. /\ Ride(c) \in Rides
      /\ WithAddresses(call[c].copy, addresses) /\ call[c].copy.ride = Ride(c)
  BY <1>1, PastAddresses DEF IInv, Waiting, Inner, Updating
<1>3. Grows /\ DetailsKeepAddresses' /\ details' \in [Rides -> Legs \union {NoRide}]
  BY <1>1, <1>2, RowSaved
<1>4. call' \in [Calls -> CallStates] /\ CallsKeepAddresses'
  BY <1>1, <1>3, StepKeepsRow DEF Waiting
<1> QED
  BY <1>1, <1>3, <1>4, RequestKeeps DEF IInv, TypeOK, world

-----------------------------------------------------------------------------
(* Events and the graph                                                     *)

\* A new event, whose addresses have rows.
LEMMA EventKeeps ==
  ASSUME IInv, NEW e \in Listeners, WithAddresses(e.leg, addresses),
         listeners' = listeners \union {e}, CallsKeepAddresses',
         call' \in [Calls -> CallStates], extras' \in 0 .. MaxExtras,
         UNCHANGED <<addresses, rideTables, graph, now, orderly, crashed>>
  PROVE  IInv'
<1>1. TypeOK'
  BY DEF IInv, TypeOK, rideTables, graph
<1>2. DetailsKeepAddresses'
  BY DEF IInv, DetailsKeepAddresses, WithAddresses, Exists, rideTables
<1>3. EventsKeepAddresses'
  BY DEF IInv, EventsKeepAddresses, WithAddresses
<1>4. AnswersCanBeShown'
  BY DEF IInv, AnswersCanBeShown, graph
<1> QED BY <1>1, <1>2, <1>3, <1>4 DEF IInv

LEMMA EmitKeeps ==
  ASSUME IInv, NEW c \in Calls, Emit(c)
  PROVE  IInv'
<1>1. /\ WithAddresses(call[c].row, addresses)
      /\ UNCHANGED <<addresses, rideTables, graph, world>> /\ Leave(c)
  BY PastAddresses DEF Emit, IInv, Waiting
<1> DEFINE started == IF call[c].row.started = None THEN now
                      ELSE call[c].row.started
           leg == [call[c].row EXCEPT !.started = started]
           e == [leg |-> leg, draws |-> TRUE, at |-> "mergeFrom"]
<1>2. started \in Times \union {None}
  BY <1>1 DEF WithAddresses, Legs, IInv, TypeOK
<1>3. WithAddresses(leg, addresses)
  BY <1>1, <1>2 DEF WithAddresses, Legs
<1>4. listeners' = listeners \union {e}
  BY DEF Emit
<1> HIDE DEF leg
<1>5. e \in Listeners /\ e.leg = leg
  BY <1>3 DEF Listeners, NextQuery, WithAddresses
<1>6. Grows
  BY <1>1 DEF Grows, Exists, rideTables
<1>7. call' \in [Calls -> CallStates] /\ CallsKeepAddresses'
  BY <1>1, <1>6, LeaveKeeps DEF IInv
<1> HIDE DEF e
<1> QED
  BY <1>1, <1>3, <1>4, <1>5, <1>7, EventKeeps DEF IInv, TypeOK, world

LEMMA PopulateKeeps ==
  ASSUME IInv, Populate
  PROVE  IInv'
<1>1. PICK ride \in Rides :
        /\ Exists(ride)
        /\ listeners' = listeners \union
             {[leg |-> InvalidDates(details[ride]), draws |-> FALSE,
               at |-> "mergeFrom"]}
  BY DEF Populate
<1> DEFINE e == [leg |-> InvalidDates(details[ride]), draws |-> FALSE,
                 at |-> "mergeFrom"]
<1>2. WithAddresses(details[ride], addresses)
  BY <1>1 DEF IInv, DetailsKeepAddresses
<1>3. WithAddresses(InvalidDates(details[ride]), addresses)
  BY <1>2 DEF WithAddresses, Legs, InvalidDates
<1>4. e \in Listeners /\ WithAddresses(e.leg, addresses)
  BY <1>3 DEF Listeners, NextQuery, WithAddresses
<1>5. UNCHANGED <<addresses, rideTables, call, graph, now, orderly, crashed>>
      /\ extras' \in 0 .. MaxExtras
  BY AnalyzerAssumption DEF Populate, CountExtra, IInv, TypeOK
<1>6. CallsKeepAddresses' /\ call' \in [Calls -> CallStates]
  BY <1>5 DEF IInv, TypeOK, CallsKeepAddresses, CallKeepsAddresses, rideTables
<1> HIDE DEF e
<1> QED
  BY <1>1, <1>4, <1>5, <1>6, EventKeeps DEF e

\* A listener takes a step; requests and rows stay.
LEMMA ListenKeeps ==
  ASSUME IInv, NEW e \in listeners, Listen(e)
  PROVE  IInv'
<1>1. /\ e \in Listeners /\ WithAddresses(e.leg, addresses)
      /\ MergedHash(e) \in Hashes /\ MergedHash(e) \in addresses
  BY DEF IInv, TypeOK, EventsKeepAddresses, WithAddresses, MergedHash, Legs
<1>2. UNCHANGED <<addresses, rideTables, call, world>>
  BY DEF Listen, MergeNode, CreateNode, DrawRide, graph
<1>3. ASSUME NEW label \in DOMAIN NextQuery \union {"draw"}, Proceed(e, label)
      PROVE  listeners' \subseteq Listeners /\ EventsKeepAddresses'
  <2> DEFINE f == [e EXCEPT !.at = label]
  <2>1. f \in Listeners /\ f.leg = e.leg
    BY <1>1 DEF Listeners
  <2>2. listeners' = (listeners \ {e}) \union {f}
    BY <1>3 DEF Proceed
  <2> HIDE DEF f
  <2> QED
    BY <1>1, <1>2, <2>1, <2>2 DEF IInv, TypeOK, EventsKeepAddresses, WithAddresses
<1>4. /\ listeners' \subseteq Listeners /\ EventsKeepAddresses'
      /\ nodes' \in [Hashes -> Nat] /\ edges' \subseteq Edges
      /\ AnswersCanBeShown'
  <2>1. CASE MergeNode(e)
    BY <1>2, <1>3, <2>1
    DEF MergeNode, NextQuery, IInv, TypeOK, AnswersCanBeShown, graph
  <2>2. CASE CreateNode(e)
    <3>1. nodes' = [nodes EXCEPT ![MergedHash(e)] = @ + 1] /\ edges' = edges
      BY <2>2 DEF CreateNode
    <3>2. nodes' \in [Hashes -> Nat] /\ AnswersCanBeShown'
      BY <1>1, <1>2, <3>1 DEF IInv, TypeOK, AnswersCanBeShown
    <3> QED BY <1>3, <2>2, <3>1, <3>2 DEF CreateNode, NextQuery, IInv, TypeOK
  <2>3. CASE DrawRide(e)
    <3>1. NewEdges(e.leg) \subseteq Edges
      BY <1>1
      DEF NewEdges, EdgeBetween, NodesOf, Nodes, Edges, WithAddresses, Legs,
          IInv, TypeOK
    <3> QED
      BY <1>2, <2>3, <3>1
      DEF DrawRide, IInv, TypeOK, EventsKeepAddresses, AnswersCanBeShown,
          WithAddresses
  <2> QED BY <2>1, <2>2, <2>3 DEF Listen
<1>5. TypeOK'
  BY <1>2, <1>4 DEF IInv, TypeOK, rideTables, world
<1>6. DetailsKeepAddresses' /\ CallsKeepAddresses'
  BY <1>2
  DEF IInv, DetailsKeepAddresses, CallsKeepAddresses, CallKeepsAddresses,
      WithAddresses, Exists, rideTables
<1> QED BY <1>4, <1>5, <1>6 DEF IInv

LEMMA CrashKeeps ==
  ASSUME IInv, Crash
  PROVE  IInv'
<1>1. TypeOK'
  BY NoCallFacts, AnalyzerAssumption
  DEF IInv, TypeOK, Crash, CountExtra, rideTables, graph
<1>2. CallsKeepAddresses'
  BY NoCallFacts DEF CallsKeepAddresses, Crash
<1> QED
  BY <1>1, <1>2
  DEF IInv, Crash, DetailsKeepAddresses, EventsKeepAddresses, WithAddresses,
      AnswersCanBeShown, Exists, rideTables, graph

\* The clock, and steps that change nothing.
LEMMA TickKeeps ==
  ASSUME IInv, Tick \/ UNCHANGED vars
  PROVE  IInv'
<1>1. UNCHANGED <<addresses, rideTables, call, listeners, graph, extras,
                  orderly, crashed>> /\ now' \in Times
  <2>1. CASE Tick
    <3>1. now \in 0 .. MaxTime /\ now < MaxTime /\ now' = now + 1
      BY <2>1 DEF Tick, IInv, TypeOK, Times
    <3>2. now' \in 0 .. MaxTime
      BY <3>1, AnalyzerAssumption
    <3> QED BY <2>1, <3>2 DEF Tick, Times
  <2>2. CASE UNCHANGED vars
    BY <2>2 DEF vars, world, IInv, TypeOK
  <2> QED BY <2>1, <2>2
<1>2. TypeOK'
  BY <1>1 DEF IInv, TypeOK, rideTables, graph
<1> QED
  BY <1>1, <1>2
  DEF IInv, DetailsKeepAddresses, CallsKeepAddresses, CallKeepsAddresses,
      EventsKeepAddresses, WithAddresses, AnswersCanBeShown, Exists,
      rideTables, graph

-----------------------------------------------------------------------------
LEMMA InitHolds == Init => IInv
<1> SUFFICES ASSUME Init PROVE IInv
  OBVIOUS
<1>1. TypeOK
  <2>1. details \in [Rides -> Legs \union {NoRide}]
    BY DEF Init
  <2>2. call \in [Calls -> CallStates]
    BY NoCallFacts DEF Init
  <2>3. now \in Times /\ extras \in 0 .. MaxExtras
    BY AnalyzerAssumption DEF Init, Times
  <2> QED BY <2>1, <2>2, <2>3 DEF Init, TypeOK
<1>2. DetailsKeepAddresses
  BY DEF Init, DetailsKeepAddresses, Exists
<1>3. CallsKeepAddresses
  BY NoCallFacts DEF Init, CallsKeepAddresses
<1>4. EventsKeepAddresses /\ AnswersCanBeShown
  BY DEF Init, EventsKeepAddresses, AnswersCanBeShown
<1> QED BY <1>1, <1>2, <1>3, <1>4 DEF IInv

LEMMA NextKeeps ==
  ASSUME IInv, [Next]_vars
  PROVE  IInv'
<1>1. ASSUME NEW c \in Calls, Request(c)
      PROVE  IInv'
  BY <1>1, CreateTransitKeeps, ChangeKeeps DEF Request
<1>2. ASSUME NEW c \in Calls, Handle(c)
      PROVE  IInv'
  BY <1>2, FindAddressKeeps, InsertAddressKeeps, InsertDetailsKeeps, CheckKeeps,
     LoadToSaveKeeps, UpdateDetailsKeeps, TransitRowKeeps, LoadDetailsKeeps, EmitKeeps DEF Handle
<1> QED
  BY <1>1, <1>2, ListenKeeps, PopulateKeeps, TickKeeps, CrashKeeps DEF Next

THEOREM IInvHolds == Spec => []IInv
BY InitHolds, NextKeeps, PTL DEF Spec

\* Every variable keeps its type, for any number of requests, rides, addresses
\* and restarts.
THEOREM TypeOKHolds == Spec => []TypeOK
<1>1. IInv => TypeOK
  BY DEF IInv
<1> QED BY <1>1, IInvHolds, PTL

\* Whatever the graph answers can be shown: the address of each of its nodes has
\* a row, however requests and listeners overlap and whenever the process is
\* restarted.
THEOREM AnswersCanBeShownHolds == Spec => []AnswersCanBeShown
<1>1. IInv => AnswersCanBeShown
  BY DEF IInv
<1> QED BY <1>1, IInvHolds, PTL

-----------------------------------------------------------------------------
(* Induction over the subsets of a finite set                               *)

\* What holds of a subset when it holds of its strict subsets holds of all.
LEMMA SubsetInduction ==
  ASSUME NEW S, IsFiniteSet(S), NEW A,
         \A T \in SUBSET S : (\A U \in SUBSET T : U # T => U \in A) => T \in A
  PROVE  SUBSET S \subseteq A
<1>. DEFINE R == StrictSubsetOrdering(S)
            F == FiniteSubsetsOf(S)
            B == (SUBSET S) \ A
<1>. SUFFICES ASSUME B # {} PROVE FALSE
  OBVIOUS
<1>1. IsWellFoundedOn(R, F)
  BY FS_StrictSubsetOrderingWellFounded
<1>2. B \subseteq F
  BY FS_FiniteSubsetsOfFinite
<1>3. PICK T \in B : \A U \in B : ~(<<U, T>> \in R)
  <2>. HIDE DEF R, F, B
  <2>. QED
    BY <1>1, <1>2, WFMin
<1>4. ASSUME NEW U \in SUBSET T, U # T PROVE U \in A
  <2>1. U \in SUBSET S /\ T \in SUBSET S
    OBVIOUS
  <2>2. <<U, T>> \in R
    BY <1>4, <2>1 DEF StrictSubsetOrdering
  <2>. QED
    BY <1>3, <2>1, <2>2
<1>. QED
  BY <1>4

\* What holds of 0, and of the successor of what it holds of, holds up to n.
LEMMA StepInduction ==
  ASSUME NEW n \in Nat, NEW A, 0 \in A,
         \A m \in Nat : m < n /\ m \in A => m + 1 \in A
  PROVE  0 .. n \subseteq A
<1>. DEFINE S == 1 .. n
            B == {T \in SUBSET S : Cardinality(T) \in A}
<1>1. IsFiniteSet(S) /\ Cardinality(S) = n
  BY FS_Interval
<1>2. ASSUME NEW T \in SUBSET S, \A U \in SUBSET T : U # T => U \in B
      PROVE  T \in B
  <2>1. IsFiniteSet(T) /\ Cardinality(T) \in Nat /\ Cardinality(T) <= n
    <3>. HIDE DEF S
    <3>. QED
      BY <1>1, FS_Subset, FS_CardinalityType
  <2>2. CASE T = {}
    BY <2>2, FS_EmptySet
  <2>3. CASE T # {}
    <3>1. PICK x \in T : TRUE
      BY <2>3
    <3>2. /\ T \ {x} \in B
          /\ Cardinality(T \ {x}) = Cardinality(T) - 1
          /\ Cardinality(T \ {x}) \in Nat
      BY <1>2, <2>1, <3>1, FS_RemoveElement, FS_CardinalityType
    <3>3. Cardinality(T \ {x}) \in A /\ Cardinality(T \ {x}) < n
      BY <2>1, <3>2
    <3>4. Cardinality(T \ {x}) + 1 \in A
      BY <3>2, <3>3
    <3>. QED
      BY <2>1, <3>2, <3>4
  <2>. QED
    BY <2>2, <2>3
<1>3. SUBSET S \subseteq B
  <2>. HIDE DEF S, B
  <2>. QED
    BY <1>1, <1>2, SubsetInduction
<1>4. ASSUME NEW m \in 0 .. n PROVE m \in A
  <2>1. 1 .. m \in SUBSET S
    OBVIOUS
  <2>2. Cardinality(1 .. m) = m
    BY FS_Interval
  <2>. QED
    BY <1>3, <2>1, <2>2
<1>. QED
  BY <1>4

\* The last of some numbers up to n.
LEMMA MaxOf ==
  ASSUME NEW n \in Nat, NEW S \in SUBSET (1 .. n), S # {}
  PROVE  Max(S) \in S /\ \A x \in S : x <= Max(S)
<1>. DEFINE A == {T \in SUBSET S : T # {} => \E m \in T : \A x \in T : m >= x}
<1>1. IsFiniteSet(S)
  <2>1. IsFiniteSet(1 .. n)
    BY FS_Interval
  <2>. QED
    BY <2>1, FS_Subset
<1>2. ASSUME NEW T \in SUBSET S, \A U \in SUBSET T : U # T => U \in A
      PROVE  T \in A
  <2>. SUFFICES ASSUME T # {} PROVE \E m \in T : \A x \in T : m >= x
    OBVIOUS
  <2>1. PICK y \in T : TRUE
    OBVIOUS
  <2>2. CASE T = {y}
    BY <2>2
  <2>3. CASE T # {y}
    <3>1. PICK m \in T \ {y} : \A x \in T \ {y} : m >= x
      <4>1. T \ {y} \in A /\ T \ {y} # {}
        BY <1>2, <2>1, <2>3
      <4>. QED
        BY <4>1
    <3>2. m \in Nat /\ y \in Nat /\ \A x \in T : x \in Nat
      OBVIOUS
    <3>3. CASE m >= y
      BY <3>1, <3>3
    <3>4. CASE y > m
      <4>1. \A x \in T : y >= x
        BY <3>1, <3>2, <3>4
      <4>. QED
        BY <4>1
    <3>. QED
      BY <3>2, <3>3, <3>4
  <2>. QED
    BY <2>2, <2>3
<1>3. SUBSET S \subseteq A
  <2>. HIDE DEF A
  <2>. QED
    BY <1>1, <1>2, SubsetInduction
<1>4. \E m \in S : \A x \in S : m >= x
  BY <1>3
<1>. QED
  BY <1>4 DEF Max

-----------------------------------------------------------------------------
(* Paths                                                                    *)

\* The recursion behind Paths: h holds the paths of each length.
PathsTo(legs, client, hash, h) ==
  h = [n \in 1 .. Cardinality(legs) |->
         IF n = 1
         THEN {<<leg>> : leg \in {l \in legs : l.from[1] = hash}}
         ELSE {Append(way[1], way[2]) :
                 way \in {w \in h[n - 1] \X legs :
                            /\ Follows(w[1][n - 1], w[2])
                            /\ w[2].client = client
                            /\ w[2] \notin Range(w[1])}}]

\* Paths is such a table, when there is one.
LEMMA PathsIsTable ==
  ASSUME NEW legs, NEW client, NEW hash, \E h : PathsTo(legs, client, hash, h)
  PROVE  PathsTo(legs, client, hash, Paths(legs, client, hash))
<1>. DEFINE g == CHOOSE h : PathsTo(legs, client, hash, h)
<1>1. PathsTo(legs, client, hash, g)
  OBVIOUS
<1>2. Paths(legs, client, hash) = g
  BY DEF Paths, PathsTo
<1>. QED
  BY <1>1, <1>2

\* There is one for every finite graph.
LEMMA PathsExist ==
  ASSUME NEW legs, IsFiniteSet(legs), NEW client, NEW hash
  PROVE  \E h : PathsTo(legs, client, hash, h)
<1>. DEFINE k == Cardinality(legs)
            Next1(h, n) ==
              IF n = 1
              THEN {<<leg>> : leg \in {l \in legs : l.from[1] = hash}}
              ELSE {Append(way[1], way[2]) :
                      way \in {w \in h[n - 1] \X legs :
                                 /\ Follows(w[1][n - 1], w[2])
                                 /\ w[2].client = client
                                 /\ w[2] \notin Range(w[1])}}
            Up(m, h) == \A n \in 1 .. k : n <= m => h[n] = Next1(h, n)
            A == {m \in Nat : \E h : Up(m, h)}
<1>1. k \in Nat
  BY FS_CardinalityType
<1>2. \A f, g, n : (n # 1 => f[n - 1] = g[n - 1]) => Next1(f, n) = Next1(g, n)
  OBVIOUS
<1>. HIDE DEF Next1, k
<1>3. 0 \in A
  BY <1>1
<1>4. ASSUME NEW m \in Nat, m \in A PROVE m + 1 \in A
  <2>1. PICK h : Up(m, h)
    BY <1>4
  <2>. DEFINE g == [n \in 1 .. k |-> Next1(h, n)]
  <2>2. ASSUME NEW n \in 1 .. k, n <= m + 1 PROVE g[n] = Next1(g, n)
    <3>1. ASSUME n # 1 PROVE g[n - 1] = h[n - 1]
      <4>1. n - 1 \in 1 .. k /\ n - 1 <= m
        BY <1>1, <2>2, <3>1
      <4>. QED
        BY <2>1, <4>1
    <3>2. g[n] = Next1(h, n)
      OBVIOUS
    <3>. HIDE DEF g
    <3>. QED
      BY <1>2, <3>1, <3>2
  <2>3. Up(m + 1, g)
    BY <2>2
  <2>. HIDE DEF g, Up
  <2>. QED
    BY <2>3
<1>5. k \in A
  <2>. HIDE DEF A
  <2>1. 0 .. k \subseteq A
    BY <1>1, <1>3, <1>4, StepInduction
  <2>. QED
    BY <1>1, <2>1
<1>6. PICK h : Up(k, h)
  BY <1>5
<1>. DEFINE g == [n \in 1 .. k |-> h[n]]
<1>7. ASSUME NEW n \in 1 .. k PROVE g[n] = Next1(g, n)
  <2>1. h[n] = Next1(h, n)
    BY <1>1, <1>6
  <2>2. ASSUME n # 1 PROVE g[n - 1] = h[n - 1]
    <3>1. n - 1 \in 1 .. k
      BY <1>1, <2>2
    <3>. QED
      BY <3>1
  <2>3. g[n] = h[n]
    OBVIOUS
  <2>. HIDE DEF g
  <2>. QED
    BY <1>2, <2>1, <2>2, <2>3
<1>8. g = [n \in 1 .. k |-> Next1(g, n)]
  BY <1>7
<1>. QED
  BY <1>8 DEF PathsTo, Next1, k

\* What the query matches: no leg twice, each follows the one before.
IsPath(legs, client, hash, n, p) ==
  /\ p \in Seq(legs) /\ Len(p) = n
  /\ p[1].from[1] = hash
  /\ \A i \in 1 .. n - 1 : Follows(p[i], p[i + 1]) /\ p[i + 1].client = client
  /\ \A i \in 1 .. n, j \in 1 .. n : i < j => p[i] # p[j]

\* A path goes on with a leg.
LEMMA PathGoesOn ==
  ASSUME NEW legs, NEW client, NEW hash, NEW n \in Nat \ {0},
         NEW p, IsPath(legs, client, hash, n, p), NEW leg \in legs,
         Follows(p[n], leg), leg.client = client, leg \notin Range(p)
  PROVE  IsPath(legs, client, hash, n + 1, Append(p, leg))
<1>. PICK q : q = Append(p, leg)
  OBVIOUS
<1>. PICK m \in Nat : m = n + 1
  OBVIOUS
<1>1. /\ p \in Seq(legs) /\ Len(p) = n /\ DOMAIN p = 1 .. n
      /\ q \in Seq(legs) /\ Len(q) = m /\ q[m] = leg
      /\ \A i \in 1 .. n : q[i] = p[i]
  BY AppendProperties, LenProperties DEF IsPath
<1>2. q[1].from[1] = hash
  BY <1>1 DEF IsPath
<1>3. ASSUME NEW i \in 1 .. m - 1
      PROVE  Follows(q[i], q[i + 1]) /\ q[i + 1].client = client
  <2>1. CASE i = n
    BY <1>1, <2>1
  <2>2. CASE i # n
    <3>1. i \in 1 .. n - 1 /\ i \in 1 .. n /\ i + 1 \in 1 .. n
      BY <2>2
    <3>. QED
      BY <1>1, <3>1 DEF IsPath
  <2>. QED
    BY <2>1, <2>2
<1>4. ASSUME NEW i \in 1 .. m, NEW j \in 1 .. m, i < j PROVE q[i] # q[j]
  <2>1. i \in 1 .. n
    BY <1>4
  <2>2. CASE j = m
    BY <1>1, <2>1, <2>2 DEF Range
  <2>3. CASE j # m
    <3>1. j \in 1 .. n
      BY <2>3
    <3>. QED
      BY <1>1, <1>4, <2>1, <3>1 DEF IsPath
  <2>. QED
    BY <2>2, <2>3
<1>. QED
  BY <1>1, <1>2, <1>3, <1>4 DEF IsPath

\* And every longer path comes from one.
LEMMA PathCameFrom ==
  ASSUME NEW legs, NEW client, NEW hash, NEW n \in Nat \ {0},
         NEW q, IsPath(legs, client, hash, n + 1, q)
  PROVE  \E p : /\ IsPath(legs, client, hash, n, p)
                /\ q = Append(p, q[n + 1]) /\ q[n + 1] \in legs
                /\ Follows(p[n], q[n + 1]) /\ q[n + 1].client = client
                /\ q[n + 1] \notin Range(p)
<1>. PICK m \in Nat : m = n + 1
  OBVIOUS
<1>. PICK p : p = SubSeq(q, 1, n)
  OBVIOUS
<1>1. q \in Seq(legs) /\ Len(q) = m /\ \A i \in 1 .. m : q[i] \in legs
  BY ElementOfSeq DEF IsPath
<1>2. /\ p \in Seq(legs) /\ Len(p) = n /\ DOMAIN p = 1 .. n
      /\ \A i \in 1 .. n : p[i] = q[i]
  <2>1. \A i \in 1 .. n : q[i] \in legs
    BY <1>1
  <2>2. /\ p \in Seq(legs) /\ Len(p) = n
        /\ \A i \in 1 .. n : p[i] = q[i]
    BY <2>1, SubSeqProperties
  <2>. QED
    BY <2>2, LenProperties
<1>3. IsPath(legs, client, hash, n, p)
  <2>1. p[1].from[1] = hash
    BY <1>2 DEF IsPath
  <2>2. ASSUME NEW i \in 1 .. n - 1
        PROVE  Follows(p[i], p[i + 1]) /\ p[i + 1].client = client
    <3>1. i \in 1 .. m - 1 /\ i \in 1 .. n /\ i + 1 \in 1 .. n
      BY <2>2
    <3>. QED
      BY <1>2, <3>1 DEF IsPath
  <2>3. ASSUME NEW i \in 1 .. n, NEW j \in 1 .. n, i < j PROVE p[i] # p[j]
    <3>1. i \in 1 .. m /\ j \in 1 .. m
      OBVIOUS
    <3>. QED
      BY <1>2, <2>3, <3>1 DEF IsPath
  <2>. QED
    BY <1>2, <2>1, <2>2, <2>3 DEF IsPath
<1>4. q[m] \in legs /\ Follows(q[n], q[m]) /\ q[m].client = client
  <2>1. n \in 1 .. m - 1 /\ m \in 1 .. m
    OBVIOUS
  <2>. QED
    BY <1>1, <2>1 DEF IsPath
<1>5. q[m] \notin Range(p)
  <2>1. ASSUME NEW i \in 1 .. n PROVE p[i] # q[m]
    <3>1. i \in 1 .. m /\ m \in 1 .. m /\ i < m
      OBVIOUS
    <3>. QED
      BY <1>2, <3>1 DEF IsPath
  <2>. QED
    BY <1>2, <2>1 DEF Range
<1>6. q = Append(p, q[m])
  <2>. PICK r : r = Append(p, q[m])
    OBVIOUS
  <2>1. /\ r \in Seq(legs) /\ Len(r) = m /\ r[m] = q[m]
        /\ \A i \in 1 .. n : r[i] = p[i]
    BY <1>2, <1>4, AppendProperties
  <2>2. \A i \in 1 .. m : i \in 1 .. n \/ i = m
    OBVIOUS
  <2>3. \A i \in 1 .. m : q[i] = r[i]
    BY <1>2, <2>1, <2>2
  <2>4. Len(q) = Len(r)
    BY <1>1, <2>1
  <2>5. \A i \in 1 .. Len(q) : q[i] = r[i]
    BY <1>1, <2>3
  <2>. QED
    BY <1>1, <2>1, <2>4, <2>5, SeqEqual
<1>7. Follows(p[n], q[m])
  BY <1>2, <1>4
<1>. QED
  BY <1>3, <1>4, <1>5, <1>6, <1>7

\* A path of one leg.
LEMMA OneLegPath ==
  ASSUME NEW legs, NEW client, NEW hash, NEW p
  PROVE  IsPath(legs, client, hash, 1, p)
           <=> \E leg \in legs : leg.from[1] = hash /\ p = <<leg>>
<1>1. ASSUME IsPath(legs, client, hash, 1, p)
      PROVE  p[1] \in legs /\ p[1].from[1] = hash /\ p = <<p[1]>>
  <2>1. p \in Seq(legs) /\ Len(p) = 1 /\ p[1].from[1] = hash
    BY <1>1 DEF IsPath
  <2>2. p[1] \in legs
    BY <2>1, ElementOfSeq
  <2>3. p = <<p[1]>>
    <3>1. <<p[1]>> \in Seq(legs) /\ Len(<<p[1]>>) = 1 /\ <<p[1]>>[1] = p[1]
      BY <2>2
    <3>. QED
      BY <2>1, <3>1, SeqEqual
  <2>. QED
    BY <2>1, <2>2, <2>3
<1>2. ASSUME NEW leg \in legs, leg.from[1] = hash, p = <<leg>>
      PROVE  IsPath(legs, client, hash, 1, p)
  BY <1>2 DEF IsPath
<1>. QED
  BY <1>1, <1>2

\* The paths of a length are those the query matches.
LEMMA PathsAre ==
  ASSUME NEW legs, IsFiniteSet(legs), NEW client, NEW hash
  PROVE  /\ DOMAIN Paths(legs, client, hash) = 1 .. Cardinality(legs)
         /\ \A n \in 1 .. Cardinality(legs) : \A p :
              p \in Paths(legs, client, hash)[n] <=> IsPath(legs, client, hash, n, p)
<1>. DEFINE k == Cardinality(legs)
            h == Paths(legs, client, hash)
            Is(n) == \A p : p \in h[n] <=> IsPath(legs, client, hash, n, p)
            A == {m \in Nat : m \in 1 .. k => Is(m)}
<1>1. k \in Nat
  BY FS_CardinalityType
<1>2. PathsTo(legs, client, hash, h)
  BY PathsExist, PathsIsTable
<1>. HIDE DEF h
<1>3. /\ DOMAIN h = 1 .. k
      /\ 1 \in 1 .. k => h[1] = {<<leg>> : leg \in {l \in legs : l.from[1] = hash}}
      /\ \A n \in 1 .. k : n # 1 =>
           h[n] = {Append(way[1], way[2]) :
                     way \in {w \in h[n - 1] \X legs :
                                /\ Follows(w[1][n - 1], w[2])
                                /\ w[2].client = client
                                /\ w[2] \notin Range(w[1])}}
  BY <1>2 DEF PathsTo
<1>. HIDE DEF k
<1>4. 0 \in A
  OBVIOUS
<1>5. ASSUME NEW m \in Nat, m < k, m \in A PROVE m + 1 \in A
  <2>1. CASE m = 0
    <3>. HIDE DEF Is
    <3>1. Is(1)
      <4>1. 1 \in 1 .. k
        BY <1>1, <1>5, <2>1
      <4>2. \A p : p \in h[1] <=> \E leg \in legs : leg.from[1] = hash /\ p = <<leg>>
        BY <1>3, <4>1
      <4>. QED
        BY <4>2, OneLegPath DEF Is
    <3>. QED
      BY <2>1, <3>1
  <2>2. CASE m # 0
    <3>. PICK n \in Nat : n = m + 1
      OBVIOUS
    <3>1. m \in 1 .. k /\ n \in 1 .. k /\ n # 1 /\ n - 1 = m
      BY <1>1, <1>5, <2>2
    <3>2. Is(m)
      BY <1>5, <3>1
    <3>3. h[n] = {Append(way[1], way[2]) :
                     way \in {w \in h[m] \X legs :
                                /\ Follows(w[1][m], w[2])
                                /\ w[2].client = client
                                /\ w[2] \notin Range(w[1])}}
      BY <1>3, <3>1
    <3>4. ASSUME NEW q \in h[n] PROVE IsPath(legs, client, hash, n, q)
      <4>1. PICK way \in h[m] \X legs :
              /\ q = Append(way[1], way[2])
              /\ Follows(way[1][m], way[2])
              /\ way[2].client = client
              /\ way[2] \notin Range(way[1])
        BY <3>3
      <4>. PICK p, leg : p = way[1] /\ leg = way[2]
        OBVIOUS
      <4>2. p \in h[m] /\ leg \in legs /\ IsPath(legs, client, hash, m, p)
        BY <3>2
      <4>3. /\ q = Append(p, leg) /\ Follows(p[m], leg) /\ leg.client = client
            /\ leg \notin Range(p)
        BY <4>1
      <4>. QED
        BY <2>2, <4>2, <4>3, PathGoesOn
    <3>5. ASSUME NEW q, IsPath(legs, client, hash, n, q) PROVE q \in h[n]
      <4>1. PICK p : /\ IsPath(legs, client, hash, m, p)
                     /\ q = Append(p, q[n]) /\ q[n] \in legs
                     /\ Follows(p[m], q[n]) /\ q[n].client = client
                     /\ q[n] \notin Range(p)
        BY <2>2, <3>5, PathCameFrom
      <4>. PICK leg : leg = q[n]
        OBVIOUS
      <4>2. p \in h[m]
        BY <3>2, <4>1
      <4>. DEFINE way == <<p, leg>>
      <4>3. /\ way \in h[m] \X legs /\ way[1] = p /\ way[2] = leg
            /\ q = Append(way[1], way[2])
            /\ Follows(way[1][m], way[2]) /\ way[2].client = client
            /\ way[2] \notin Range(way[1])
        BY <4>1, <4>2
      <4>. HIDE DEF way
      <4>. QED
        BY <3>3, <4>3
    <3>6. Is(n)
      BY <3>4, <3>5
    <3>. HIDE DEF Is
    <3>. QED
      BY <3>6
  <2>. QED
    BY <2>1, <2>2
<1>6. 1 .. k \subseteq A
  <2>. HIDE DEF A
  <2>1. 0 .. k \subseteq A
    BY <1>1, <1>4, <1>5, StepInduction
  <2>. QED
    BY <1>1, <2>1
<1>7. ASSUME NEW n \in 1 .. k PROVE Is(n)
  BY <1>6
<1>. QED
  BY <1>3, <1>7 DEF h, k

-----------------------------------------------------------------------------
(* The paths of a graph with several nodes of a hash                        *)

\* The leg between the first nodes of its hashes.
First(leg) == EdgeBetween(leg, <<leg.from[1], 1>>, <<leg.to[1], 1>>)

\* Rides that took a minute at least.
Timed(legs) ==
  \A leg \in legs : /\ leg.started \in Nat /\ leg.completed \in Nat
                    /\ leg.completed - leg.started >= PerMinute

LEMMA FirstFacts ==
  ASSUME NEW leg
  PROVE  /\ First(leg).client = leg.client /\ First(leg).ride = leg.ride
         /\ First(leg).started = leg.started /\ First(leg).completed = leg.completed
         /\ First(leg).from = <<leg.from[1], 1>> /\ First(leg).to = <<leg.to[1], 1>>
         /\ First(leg).from[1] = leg.from[1] /\ First(leg).to[1] = leg.to[1]
BY DEF First, EdgeBetween

\* A stop is shorter than the minute that any ride takes, when it is negative.
LEMMA ShortStop ==
  ASSUME NEW t \in Int, Minutes(t) \in 0 .. MaxStop
  PROVE  t + PerMinute > 0
<1>1. PerMinute \in Nat \ {0} /\ MaxStop \in Nat
  BY JourneyAssumption
<1>2. CASE t >= 0
  BY <1>1, <1>2
<1>3. CASE ~(t >= 0)
  <2>. PICK u \in Nat : u = -t
    BY <1>3
  <2>. DEFINE q == u \div PerMinute
  <2>1. q \in Nat /\ u < (q + 1) * PerMinute
    BY <1>1
  <2>2. -q \in 0 .. MaxStop
    BY <1>3 DEF Minutes
  <2>. HIDE DEF q
  <2>3. q = 0
    BY <2>1, <2>2
  <2>. QED
    BY <1>1, <2>1, <2>3
<1>. QED
  BY <1>2, <1>3

\* Along a path rides end one after the other.
LEMMA RidesEndInOrder ==
  ASSUME NEW legs, Timed(legs), NEW client, NEW hash, NEW n \in Nat,
         NEW p, IsPath(legs, client, hash, n, p)
  PROVE  \A i \in 1 .. n, j \in 1 .. n : i < j => p[i].completed < p[j].completed
<1>1. ASSUME NEW i \in 1 .. n
      PROVE  /\ p[i] \in legs /\ p[i].started \in Nat /\ p[i].completed \in Nat
             /\ p[i].completed - p[i].started >= PerMinute
  <2>1. p[i] \in legs
    BY ElementOfSeq DEF IsPath
  <2>. QED
    BY <2>1 DEF Timed
<1>2. ASSUME NEW i \in 1 .. n - 1 PROVE p[i].completed < p[i + 1].completed
  <2>1. i \in 1 .. n /\ i + 1 \in 1 .. n
    OBVIOUS
  <2>2. Minutes(p[i + 1].started - p[i].completed) \in 0 .. MaxStop
    BY DEF IsPath, Follows
  <2>. PICK a, b, c : a = p[i].completed /\ b = p[i + 1].started /\ c = p[i + 1].completed
    OBVIOUS
  <2>3. a \in Nat /\ b \in Nat /\ c \in Nat /\ c - b >= PerMinute
    BY <1>1, <2>1
  <2>4. b - a + PerMinute > 0
    BY <2>2, <2>3, ShortStop
  <2>5. PerMinute \in Nat
    BY JourneyAssumption
  <2>. QED
    BY <2>3, <2>4, <2>5
<1>. DEFINE A == {j \in Nat : j \in 1 .. n =>
                    \A i \in 1 .. n : i < j => p[i].completed < p[j].completed}
<1>3. 0 \in A
  OBVIOUS
<1>4. ASSUME NEW m \in Nat, m < n, m \in A PROVE m + 1 \in A
  <2>. PICK j \in Nat : j = m + 1
    OBVIOUS
  <2>1. ASSUME NEW i \in 1 .. n, i < j PROVE p[i].completed < p[j].completed
    <3>1. m \in 1 .. n - 1 /\ m \in 1 .. n /\ j \in 1 .. n
      BY <1>4, <2>1
    <3>2. p[m].completed < p[j].completed
      BY <1>2, <3>1
    <3>3. CASE i = m
      BY <3>2, <3>3
    <3>4. CASE i # m
      <4>1. i < m
        BY <2>1, <3>4
      <4>2. p[i].completed < p[m].completed
        BY <1>4, <3>1, <4>1
      <4>3. p[i].completed \in Nat /\ p[m].completed \in Nat /\ p[j].completed \in Nat
        BY <1>1, <3>1
      <4>. QED
        BY <3>2, <4>2, <4>3
    <3>. QED
      BY <3>3, <3>4
  <2>2. j \in A
    BY <2>1
  <2>. QED
    BY <2>2
<1>5. 0 .. n \subseteq A
  <2>. HIDE DEF A
  <2>. QED
    BY <1>3, <1>4, StepInduction
<1>. QED
  BY <1>5

\* A path has no more legs than there are.
LEMMA PathsFit ==
  ASSUME NEW legs, IsFiniteSet(legs), NEW client, NEW hash, NEW n \in Nat,
         NEW p, IsPath(legs, client, hash, n, p)
  PROVE  n <= Cardinality(legs)
<1>. DEFINE B(k) == {p[i] : i \in 1 .. k}
            A == {k \in Nat : k <= n => IsFiniteSet(B(k)) /\ Cardinality(B(k)) = k}
<1>1. 0 \in A
  <2>1. B(0) = {}
    OBVIOUS
  <2>. HIDE DEF B
  <2>. QED
    BY <2>1, FS_EmptySet
<1>2. ASSUME NEW m \in Nat, m < n, m \in A PROVE m + 1 \in A
  <2>. PICK k \in Nat : k = m + 1
    OBVIOUS
  <2>1. 1 .. k = (1 .. m) \union {k}
    OBVIOUS
  <2>2. B(k) = B(m) \union {p[k]}
    BY <2>1
  <2>3. p[k] \notin B(m)
    <3>1. ASSUME NEW i \in 1 .. m PROVE p[i] # p[k]
      <4>1. i \in 1 .. n /\ k \in 1 .. n /\ i < k
        BY <1>2
      <4>. QED
        BY <4>1 DEF IsPath
    <3>. QED
      BY <3>1
  <2>. HIDE DEF B
  <2>4. IsFiniteSet(B(m)) /\ Cardinality(B(m)) = m
    BY <1>2
  <2>5. IsFiniteSet(B(k)) /\ Cardinality(B(k)) = m + 1
    BY <2>2, <2>3, <2>4, FS_AddElement
  <2>. QED
    BY <2>5
<1>3. n \in A
  <2>. HIDE DEF A
  <2>1. 0 .. n \subseteq A
    BY <1>1, <1>2, StepInduction
  <2>. QED
    BY <2>1
<1>4. B(n) \in SUBSET legs
  BY ElementOfSeq DEF IsPath
<1>. HIDE DEF B
<1>5. Cardinality(B(n)) <= Cardinality(legs)
  BY <1>4, FS_Subset
<1>. QED
  BY <1>3, <1>5

\* A path between any nodes is one between first nodes, of the same hashes.
LEMMA FirstPath ==
  ASSUME NEW edges1, Timed(edges1), NEW legs, \A leg \in edges1 : First(leg) \in legs,
         NEW client, NEW hash, NEW n \in Nat \ {0},
         NEW w, IsPath(edges1, client, hash, n, w)
  PROVE  \E v : IsPath(legs, client, hash, n, v) /\ HashesOf(v) = HashesOf(w)
<1>. DEFINE v == [i \in 1 .. n |-> First(w[i])]
<1>1. \A i \in 1 .. n : w[i] \in edges1 /\ v[i] = First(w[i]) /\ v[i] \in legs
  BY ElementOfSeq DEF IsPath
<1>2. v \in Seq(legs) /\ Len(v) = n
  <2>1. v \in [1 .. n -> legs]
    BY <1>1
  <2>2. DOMAIN v = 1 .. n
    OBVIOUS
  <2>. HIDE DEF v
  <2>3. v \in Seq(legs)
    BY <2>1, SeqDef
  <2>4. Len(v) \in Nat /\ DOMAIN v = 1 .. Len(v)
    BY <2>3, LenProperties
  <2>5. Len(v) = n
    BY <2>2, <2>4
  <2>. QED
    BY <2>3, <2>5
<1>. HIDE DEF v
<1>3. ASSUME NEW i \in 1 .. n
      PROVE  /\ v[i].client = w[i].client
             /\ v[i].started = w[i].started /\ v[i].completed = w[i].completed
             /\ v[i].from = <<w[i].from[1], 1>> /\ v[i].to = <<w[i].to[1], 1>>
             /\ v[i].from[1] = w[i].from[1] /\ v[i].to[1] = w[i].to[1]
  BY <1>1, FirstFacts
<1>4. v[1].from[1] = hash
  <2>1. 1 \in 1 .. n
    OBVIOUS
  <2>. QED
    BY <1>3, <2>1 DEF IsPath
<1>5. ASSUME NEW i \in 1 .. n - 1
      PROVE  Follows(v[i], v[i + 1]) /\ v[i + 1].client = client
  <2>1. i \in 1 .. n /\ i + 1 \in 1 .. n
    OBVIOUS
  <2>2. Follows(w[i], w[i + 1]) /\ w[i + 1].client = client
    BY DEF IsPath
  <2>. QED
    BY <1>3, <2>1, <2>2 DEF Follows
<1>6. ASSUME NEW i \in 1 .. n, NEW j \in 1 .. n, i < j PROVE v[i] # v[j]
  <2>1. w[i].completed < w[j].completed
    BY <1>6, RidesEndInOrder
  <2>2. w[i].completed \in Nat /\ w[j].completed \in Nat
    BY <1>1 DEF Timed
  <2>. QED
    BY <1>3, <2>1, <2>2
<1>7. IsPath(legs, client, hash, n, v)
  BY <1>2, <1>4, <1>5, <1>6 DEF IsPath
<1>8. HashesOf(v) = HashesOf(w)
  <2>1. Len(w) = n /\ Len(v) = n
    BY <1>2 DEF IsPath
  <2>2. ASSUME NEW i \in 1 .. n + 1
        PROVE  (IF i = 1 THEN v[1].from[1] ELSE v[i - 1].to[1])
                 = (IF i = 1 THEN w[1].from[1] ELSE w[i - 1].to[1])
    <3>1. CASE i = 1
      <4>1. 1 \in 1 .. n
        OBVIOUS
      <4>. QED
        BY <1>3, <3>1, <4>1
    <3>2. CASE i # 1
      <4>1. i - 1 \in 1 .. n
        BY <3>2
      <4>. QED
        BY <1>3, <3>2, <4>1
    <3>. QED
      BY <3>1, <3>2
  <2>. QED
    BY <2>1, <2>2 DEF HashesOf
<1>. QED
  BY <1>7, <1>8

\* The longest journeys are the same, whichever nodes they go through.
LEMMA SameAnswers ==
  ASSUME NEW edges1, IsFiniteSet(edges1), Timed(edges1),
         NEW legs \in SUBSET edges1, \A leg \in edges1 : First(leg) \in legs,
         NEW client, NEW hash
  PROVE  Answers(edges1, client, hash) = Answers(legs, client, hash)
<1>. DEFINE P == Paths(edges1, client, hash)
            Q == Paths(legs, client, hash)
            k == Cardinality(edges1)
            m == Cardinality(legs)
            N == {n \in DOMAIN P : P[n] # {}}
            M == {n \in DOMAIN Q : Q[n] # {}}
<1>1. IsFiniteSet(legs) /\ k \in Nat /\ m \in Nat /\ m <= k
  BY FS_Subset, FS_CardinalityType
<1>2. /\ DOMAIN P = 1 .. k
      /\ \A n \in 1 .. k : \A p : p \in P[n] <=> IsPath(edges1, client, hash, n, p)
  BY PathsAre
<1>3. /\ DOMAIN Q = 1 .. m
      /\ \A n \in 1 .. m : \A p : p \in Q[n] <=> IsPath(legs, client, hash, n, p)
  BY <1>1, PathsAre
<1>. HIDE DEF P, Q, k, m
<1>4. ASSUME NEW n \in 1 .. k, NEW w \in P[n]
      PROVE  n \in 1 .. m /\ \E v \in Q[n] : HashesOf(v) = HashesOf(w)
  <2>1. n \in Nat \ {0} /\ IsPath(edges1, client, hash, n, w)
    BY <1>2
  <2>2. PICK v : IsPath(legs, client, hash, n, v) /\ HashesOf(v) = HashesOf(w)
    BY <2>1, FirstPath
  <2>3. n <= m
    BY <1>1, <2>1, <2>2, PathsFit DEF m
  <2>4. n \in 1 .. m
    BY <1>1, <2>1, <2>3
  <2>. QED
    BY <1>3, <2>2, <2>4
<1>5. ASSUME NEW n \in 1 .. m, NEW v \in Q[n]
      PROVE  n \in 1 .. k /\ v \in P[n]
  <2>1. n \in 1 .. k
    BY <1>1
  <2>2. IsPath(legs, client, hash, n, v)
    BY <1>3
  <2>3. v \in Seq(edges1)
    BY <2>2, SeqMonotonic DEF IsPath
  <2>4. IsPath(edges1, client, hash, n, v)
    BY <2>2, <2>3 DEF IsPath
  <2>. QED
    BY <1>2, <2>1, <2>4
<1>6. N = M
  <2>1. ASSUME NEW n \in N PROVE n \in M
    <3>1. n \in 1 .. k /\ P[n] # {}
      BY <1>2
    <3>. PICK w : w \in P[n]
      BY <3>1
    <3>. QED
      BY <1>3, <1>4, <3>1
  <2>2. ASSUME NEW n \in M PROVE n \in N
    <3>1. n \in 1 .. m /\ Q[n] # {}
      BY <1>3
    <3>. PICK v : v \in Q[n]
      BY <3>1
    <3>. QED
      BY <1>2, <1>5, <3>1
  <2>. QED
    BY <2>1, <2>2
<1>7. ASSUME N # {}
      PROVE  {HashesOf(p) : p \in P[Max(N)]} = {HashesOf(p) : p \in Q[Max(M)]}
  <2>. PICK n : n = Max(N)
    OBVIOUS
  <2>1. n \in N
    <3>1. N \in SUBSET (1 .. k)
      BY <1>2
    <3>. HIDE DEF N
    <3>. QED
      BY <1>1, <1>7, <3>1, MaxOf
  <2>2. n \in 1 .. k /\ n \in 1 .. m
    BY <1>2, <1>3, <1>6, <2>1
  <2>3. \A w \in P[n] : \E v \in Q[n] : HashesOf(v) = HashesOf(w)
    BY <1>4, <2>2
  <2>4. \A v \in Q[n] : v \in P[n]
    BY <1>5, <2>2
  <2>5. {HashesOf(p) : p \in P[n]} = {HashesOf(p) : p \in Q[n]}
    <3>1. ASSUME NEW w \in P[n] PROVE HashesOf(w) \in {HashesOf(p) : p \in Q[n]}
      BY <2>3
    <3>2. ASSUME NEW v \in Q[n] PROVE HashesOf(v) \in {HashesOf(p) : p \in P[n]}
      BY <2>4
    <3>. QED
      BY <3>1, <3>2
  <2>. HIDE DEF N, M
  <2>. QED
    BY <1>6, <2>5
<1>8. Answers(edges1, client, hash)
        = IF N = {} THEN {<<>>} ELSE {HashesOf(p) : p \in P[Max(N)]}
  BY DEF Answers, P
<1>9. Answers(legs, client, hash)
        = IF M = {} THEN {<<>>} ELSE {HashesOf(p) : p \in Q[Max(M)]}
  BY DEF Answers, Q
<1>. HIDE DEF N, M
<1>. QED
  BY <1>6, <1>7, <1>8, <1>9

-----------------------------------------------------------------------------
(* One request at a time                                                    *)

\* The step a request comes to once its addresses have rows.
Ahead(x) == IF Waiting(x) THEN x.then ELSE x.at

\* Steps that change a ride, and those that complete one.
Alters == {"insertTransit", "saveFrom", "saveTo", "saveStarted", "updateDetails"}

Copied == {"completeTransit", "saveCompleted", "updateCompleted", "emit"}

\* What a request knows of its ride that no other changes.
RequestInOrder(x) ==
  LET ride == x.row.ride
      row  == details[ride]
  IN
  x # NoCall =>
    /\ Ahead(x) = "insertDetails" => row = NoRide /\ x.row.completed = None
    /\ Ahead(x) \in Alters => row.completed = None /\ transits[ride] # "completed"
    /\ Ahead(x) = "updateDetails" => x.copy.completed = None
    /\ Ahead(x) \in Copied \union {"loadDetails"} => x.row.completed # None
    /\ Ahead(x) \in Copied => x.row = [row EXCEPT !.completed = x.row.completed]
    /\ Ahead(x) \in {"saveCompleted", "updateCompleted"} =>
         row.completed = None /\ transits[ride] = "completed"
    /\ Ahead(x) = "updateCompleted" => x.copy = x.row
    /\ Ahead(x) = "emit" => x.row = row

\* A leg of ride tells what its row does; that of a ride whose row does not
\* know its start has one of its own.
Tells(leg, from, to) ==
  /\ leg.ride \in CompletedRides
  /\ LET row == details[leg.ride] IN
     /\ leg.client = row.client /\ from = row.from /\ to = row.to
     /\ leg.completed = row.completed
     /\ row.started # None => leg.started = row.started

RidesInOrder ==
  /\ \A c \in Calls : RequestInOrder(call[c])
  /\ \A c \in Calls, d \in Calls : Idle(c) \/ Idle(d) \/ c = d
  /\ \A ride \in CompletedRides : transits[ride] = "completed"
  /\ \A e \in listeners : e.draws => Tells(e.leg, e.leg.from, e.leg.to)
  /\ \A leg \in edges : Tells(leg, leg.from[1], leg.to[1])

-----------------------------------------------------------------------------
(* The graph                                                                *)

\* A listener that is past a query has its node.
HasNodes(e) ==
  /\ e.at \notin {"mergeFrom", "createFrom"} => nodes[e.leg.from] > 0
  /\ e.at = "draw" => nodes[e.leg.to] > 0

\* Every ride is drawn between the first nodes too.
GraphInOrder ==
  /\ \A e \in listeners : HasNodes(e)
  /\ IsFiniteSet(edges)
  /\ \A leg \in edges : First(leg) \in edges

InOrder == GraphInOrder /\ (orderly => RidesInOrder)

\* A request that is not idle is the only one.
LEMMA OnlyRequest ==
  ASSUME RidesInOrder, NEW c \in Calls, call[c].at # "idle"
  PROVE  ~Idle(c) /\ RequestInOrder(call[c]) /\ \A d \in Calls \ {c} : Idle(d)
BY NotIdle DEF RidesInOrder

LEMMA NotCompleted ==
  ASSUME RidesInOrder, NEW ride \in Rides, Exists(ride), transits[ride] # "completed"
  PROVE  details[ride].completed = None
BY DEF RidesInOrder, CompletedRides

\* What the only request has to show of a step.
LEMMA OrderStep ==
  ASSUME IInv, RidesInOrder, NEW c \in Calls, \A d \in Calls \ {c} : Idle(d),
         NEW x, Hold(c, x), RequestInOrder(x)', UNCHANGED edges,
         \A ride \in CompletedRides :
           ride \in CompletedRides' /\ details'[ride] = details[ride],
         \A ride \in CompletedRides' : transits'[ride] = "completed",
         \A e \in listeners' :
           e \in listeners \/ (e.draws => Tells(e.leg, e.leg.from, e.leg.to)')
  PROVE  RidesInOrder'
<1>1. call'[c] = x /\ \A d \in Calls \ {c} : call'[d] = NoCall
  BY DEF Hold, IInv, TypeOK, Idle
<1>2. ASSUME NEW d \in Calls PROVE RequestInOrder(call[d])'
  <2>1. CASE d = c
    <3>1. call'[d] = x
      BY <1>1, <2>1
    <3>. QED
      BY <3>1 DEF RequestInOrder
  <2>2. CASE d # c
    BY <1>1, <2>2 DEF RequestInOrder
  <2>. QED
    BY <2>1, <2>2
<1>3. ASSUME NEW leg, NEW from, NEW to, Tells(leg, from, to) PROVE Tells(leg, from, to)'
  BY <1>3 DEF Tells
<1>4. \A e \in listeners' : e.draws => Tells(e.leg, e.leg.from, e.leg.to)'
  <2>1. \A e \in listeners : e.draws => Tells(e.leg, e.leg.from, e.leg.to)
    BY DEF RidesInOrder
  <2>. QED
    BY <1>3, <2>1
<1>5. \A leg \in edges' : Tells(leg, leg.from[1], leg.to[1])'
  <2>1. \A leg \in edges : Tells(leg, leg.from[1], leg.to[1])
    BY DEF RidesInOrder
  <2>. QED
    BY <1>3, <2>1
<1>6. \A d \in Calls, e \in Calls : (Idle(d) \/ Idle(e) \/ d = e)'
  BY <1>1 DEF Idle
<1>. QED
  BY <1>2, <1>4, <1>5, <1>6 DEF RidesInOrder

\* A step that leaves the rides alone.
LEMMA OrderHold ==
  ASSUME IInv, RidesInOrder, NEW c \in Calls, \A d \in Calls \ {c} : Idle(d),
         NEW x, Hold(c, x), RequestInOrder(x),
         UNCHANGED <<rideTables, listeners, edges>>
  PROVE  RidesInOrder'
<1>1. UNCHANGED <<details, transits, listeners, edges>>
  BY DEF rideTables
<1>2. RequestInOrder(x)'
  BY <1>1 DEF RequestInOrder
<1>3. CompletedRides' = CompletedRides
  BY <1>1 DEF CompletedRides, Exists
<1>4. \A ride \in CompletedRides' : transits'[ride] = "completed"
  BY <1>1, <1>3 DEF RidesInOrder
<1>. QED
  BY <1>1, <1>2, <1>3, <1>4, OrderStep

LEMMA OrderLeave ==
  ASSUME IInv, RidesInOrder, NEW c \in Calls, \A d \in Calls \ {c} : Idle(d),
         Leave(c), UNCHANGED <<rideTables, listeners, edges>>
  PROVE  RidesInOrder'
<1>. PICK x : x = NoCall
  OBVIOUS
<1>1. RequestInOrder(x) /\ Hold(c, x)
  BY DEF RequestInOrder, Leave
<1>. QED
  BY <1>1, OrderHold

-----------------------------------------------------------------------------
(* Requests begin, one after the other                                      *)

\* What the row of a request that begins has to show.
BeginsInOrder(then, row) ==
  /\ then \in {"insertDetails", "checkDemand", "checkTransit", "insertTransit",
               "loadDetails"}
  /\ then = "insertDetails" => details[row.ride] = NoRide /\ row.completed = None
  /\ then = "insertTransit" =>
       details[row.ride].completed = None /\ transits[row.ride] # "completed"
  /\ then = "loadDetails" => row.completed # None

LEMMA OrderBegin ==
  ASSUME IInv, orderly => RidesInOrder, NEW c \in Calls, NEW todo, NEW then, NEW row,
         Begin(c, todo, then, row), NEW rare \in BOOLEAN, Count(rare), orderly',
         RidesInOrder => BeginsInOrder(then, row)
  PROVE  RidesInOrder'
<1>1. orderly' = (orderly /\ ~\E d \in Calls : ~Idle(d))
  BY DEF Count
<1>2. orderly /\ \A d \in Calls : Idle(d)
  BY <1>1, Zenon
<1>. PICK x : x = [at |-> IF todo = <<>> THEN then ELSE "address", then |-> then,
                   todo |-> todo, row |-> row, copy |-> NoRide]
  OBVIOUS
<1>3. Hold(c, x) /\ UNCHANGED <<rideTables, listeners, edges>>
  BY DEF Begin, graph
<1>4. RidesInOrder /\ BeginsInOrder(then, row)
  BY <1>2
<1>5. Ahead(x) = then /\ x.row = row
  BY <1>4 DEF BeginsInOrder, Ahead, Waiting
<1>6. RequestInOrder(x)
  BY <1>4, <1>5 DEF BeginsInOrder, RequestInOrder, Alters, Copied
<1>. QED
  BY <1>2, <1>3, <1>4, <1>6, OrderHold

LEMMA OrderCreateTransit ==
  ASSUME IInv, orderly => RidesInOrder, NEW c \in Calls, CreateTransit(c), orderly'
  PROVE  RidesInOrder'
<1>1. PICK order \in Orders :
        LET from == order[2]
            to   == order[3]
        IN  Begin(c, <<from, to, Bare[from], Bare[to]>>, "insertDetails",
                  [ride |-> NextRide, client |-> order[1],
                   from |-> Bare[from], to |-> Bare[to],
                   started |-> None, completed |-> None])
  BY DEF CreateTransit
<1>. PICK row : row = [ride |-> NextRide, client |-> order[1],
                       from |-> Bare[order[2]], to |-> Bare[order[3]],
                       started |-> None, completed |-> None]
  OBVIOUS
<1>. PICK todo : todo = <<order[2], order[3], Bare[order[2]], Bare[order[3]]>>
  OBVIOUS
<1>2. ~Exists(NextRide)
  BY DEF CreateTransit, NextRide, FreshRides
<1>3. BeginsInOrder("insertDetails", row)
  BY <1>2 DEF BeginsInOrder, Exists
<1>4. Begin(c, todo, "insertDetails", row) /\ Count(FALSE)
  BY <1>1 DEF CreateTransit
<1>. QED
  BY <1>3, <1>4, OrderBegin

LEMMA OrderChange ==
  ASSUME IInv, orderly => RidesInOrder, NEW c \in Calls, ChangeFrom(c) \/ ChangeTo(c),
         orderly'
  PROVE  RidesInOrder'
<1>1. \E then : /\ then \in {"checkDemand", "checkTransit"}
                 /\ \E hash, row : Begin(c, <<hash>>, then, row)
  <2>1. CASE ChangeFrom(c)
    <3>1. \E hash, row : Begin(c, <<hash>>, "checkDemand", row)
      BY <2>1 DEF ChangeFrom
    <3>. QED
      BY <3>1
  <2>2. CASE ChangeTo(c)
    <3>1. \E hash, row : Begin(c, <<hash>>, "checkTransit", row)
      BY <2>2 DEF ChangeTo
    <3>. QED
      BY <3>1
  <2>. QED
    BY <2>1, <2>2
<1>2. PICK then : /\ then \in {"checkDemand", "checkTransit"}
                  /\ \E hash, row : Begin(c, <<hash>>, then, row)
  BY <1>1
<1>3. PICK hash, row : Begin(c, <<hash>>, then, row)
  BY <1>2
<1>. PICK todo : todo = <<hash>>
  OBVIOUS
<1>4. Begin(c, todo, then, row) /\ Count(TRUE)
  BY <1>3 DEF ChangeFrom, ChangeTo
<1>5. BeginsInOrder(then, row)
  BY <1>2 DEF BeginsInOrder
<1>. QED
  BY <1>4, <1>5, OrderBegin

LEMMA OrderStartTransit ==
  ASSUME IInv, orderly => RidesInOrder, NEW c \in Calls, StartTransit(c), orderly'
  PROVE  RidesInOrder'
<1>1. PICK ride \in Rides :
        /\ Exists(ride) /\ transits[ride] = "none"
        /\ Begin(c, <<>>, "insertTransit", Changing(ride, "started", now))
  BY DEF StartTransit
<1>. PICK row : row = Changing(ride, "started", now)
  OBVIOUS
<1>2. row.ride = ride
  BY <1>1, ChangedRow DEF IInv, TypeOK
<1>3. ASSUME RidesInOrder PROVE BeginsInOrder("insertTransit", row)
  BY <1>1, <1>2, <1>3, NotCompleted DEF BeginsInOrder
<1>. PICK todo : todo = <<>>
  OBVIOUS
<1>4. Begin(c, todo, "insertTransit", row) /\ Count(FALSE)
  BY <1>1 DEF StartTransit
<1>. QED
  BY <1>3, <1>4, OrderBegin

LEMMA OrderCompleteTransit ==
  ASSUME IInv, orderly => RidesInOrder, NEW c \in Calls, CompleteTransit(c), orderly'
  PROVE  RidesInOrder'
<1>1. PICK ride \in Rides, hash \in Hashes :
        /\ Exists(ride)
        /\ Begin(c, <<hash>>, "loadDetails", Changing(ride, "completed", now))
  BY DEF CompleteTransit
<1>. PICK row : row = Changing(ride, "completed", now)
  OBVIOUS
<1>2. row.completed = now
  <2>1. details[ride] \in Legs
    BY <1>1 DEF IInv, DetailsKeepAddresses, WithAddresses
  <2>. QED
    BY <2>1 DEF Changing, Legs
<1>3. now # None
  BY AnalyzerAssumption DEF IInv, TypeOK, Times
<1>4. BeginsInOrder("loadDetails", row)
  BY <1>2, <1>3 DEF BeginsInOrder
<1>. PICK todo : todo = <<hash>>
  OBVIOUS
<1>5. Begin(c, todo, "loadDetails", row) /\ Count(FALSE)
  BY <1>1 DEF CompleteTransit
<1>. QED
  BY <1>4, <1>5, OrderBegin

-----------------------------------------------------------------------------
(* Requests go on, one at a time                                            *)

\* While it sees to the addresses, a request knows what it came with.
LEMMA OrderAddresses ==
  ASSUME IInv, RidesInOrder, NEW c \in Calls, FindAddress(c) \/ InsertAddress(c)
  PROVE  RidesInOrder'
<1>1. /\ call[c].at \in {"address", "insertAddress"}
      /\ UNCHANGED <<rideTables, listeners, edges>>
  BY DEF FindAddress, InsertAddress, graph
<1>2. /\ RequestInOrder(call[c]) /\ ~Idle(c)
      /\ \A d \in Calls \ {c} : Idle(d)
  BY <1>1, OnlyRequest
<1>3. call[c].then \notin Inner
  BY <1>2, CallFacts DEF IInv
<1>4. CASE Leave(c)
  BY <1>1, <1>2, <1>4, OrderLeave
<1>5. CASE \E label, todo :
             /\ Continue(c, label, todo, call[c].row)
             /\ label \in {call[c].then, "address", "insertAddress"}
  <2>1. PICK label, todo :
             /\ Continue(c, label, todo, call[c].row)
             /\ label \in {call[c].then, "address", "insertAddress"}
    BY <1>5
  <2>. PICK x : x = [at |-> label, then |-> call[c].then, todo |-> todo,
                     row |-> call[c].row, copy |-> NoRide]
    OBVIOUS
  <2>2. Ahead(x) = call[c].then /\ Ahead(call[c]) = call[c].then /\ x.row = call[c].row
    BY <1>1, <1>3, <2>1 DEF Ahead, Waiting, Inner
  <2>3. RequestInOrder(x)
    BY <1>2, <1>3, <2>2 DEF RequestInOrder, Inner, Idle
  <2>4. Hold(c, x)
    BY <2>1 DEF Continue
  <2>. QED
    BY <1>1, <1>2, <2>3, <2>4, OrderHold
<1>. QED
  BY <1>4, <1>5 DEF FindAddress, InsertAddress

\* A ride whose demand or transit lets the request pass is not completed.
LEMMA OrderCheck ==
  ASSUME IInv, RidesInOrder, orderly, NEW c \in Calls, CheckDemand(c) \/ CheckTransit(c)
  PROVE  RidesInOrder'
<1>1. /\ call[c].at \in {"checkDemand", "checkTransit"}
      /\ UNCHANGED <<rideTables, listeners, edges>>
  BY DEF CheckDemand, CheckTransit, graph
<1>2. \A d \in Calls \ {c} : Idle(d)
  BY <1>1, OnlyRequest
<1>3. CASE Leave(c)
  BY <1>1, <1>2, <1>3, OrderLeave
<1>4. CASE /\ transits[Ride(c)] # "completed"
           /\ Goto(c, "saveFrom") \/ Goto(c, "saveTo")
  <2>1. PICK label \in {"saveFrom", "saveTo"} : Goto(c, label)
    BY <1>4
  <2>. PICK x : x = [at |-> label, then |-> call[c].then, todo |-> call[c].todo,
                     row |-> call[c].row, copy |-> NoRide]
    OBVIOUS
  <2>2. Ahead(x) = label /\ x.row.ride = Ride(c)
    BY DEF Ahead, Waiting, Ride
  <2>3. Ride(c) \in Rides /\ Exists(Ride(c))
    BY <1>1, PastAddresses DEF IInv, Waiting
  <2>4. details[Ride(c)].completed = None
    BY <1>4, <2>3, NotCompleted
  <2>5. RequestInOrder(x)
    BY <1>4, <2>2, <2>4 DEF RequestInOrder, Copied
  <2>6. Hold(c, x)
    BY <2>1 DEF Goto, Continue
  <2>. QED
    BY <1>1, <1>2, <2>5, <2>6, OrderHold
<1>. QED
  BY <1>3, <1>4 DEF CheckDemand, CheckTransit

LEMMA OrderInsertDetails ==
  ASSUME IInv, RidesInOrder, NEW c \in Calls, InsertDetails(c)
  PROVE  RidesInOrder'
<1>. PICK ride : ride = Ride(c)
  OBVIOUS
<1>. PICK row : row = call[c].row
  OBVIOUS
<1>. PICK x : x = NoCall
  OBVIOUS
<1>1. /\ call[c].at = "insertDetails" /\ Hold(c, x) /\ ride \in Rides
      /\ details' = [details EXCEPT ![ride] = row]
      /\ UNCHANGED <<transits, listeners, edges>>
  BY PastAddresses DEF InsertDetails, Leave, graph, IInv, Waiting
<1>2. /\ \A d \in Calls \ {c} : Idle(d)
      /\ details[ride] = NoRide /\ row.completed = None
  BY <1>1, OnlyRequest DEF RequestInOrder, Ahead, Waiting, Ride, Idle
<1>3. \A r \in Rides : r # ride => details'[r] = details[r]
  BY <1>1 DEF IInv, TypeOK
<1>4. details'[ride] = row
  BY <1>1 DEF IInv, TypeOK
<1>5. ride \notin CompletedRides /\ ride \notin CompletedRides'
  BY <1>2, <1>4 DEF CompletedRides, Exists
<1>6. CompletedRides' = CompletedRides
  BY <1>3, <1>5 DEF CompletedRides, Exists
<1>7. RequestInOrder(x)'
  BY DEF RequestInOrder
<1>8. \A r \in CompletedRides : details'[r] = details[r]
  BY <1>3, <1>5 DEF CompletedRides
<1>9. \A r \in CompletedRides' : transits'[r] = "completed"
  BY <1>1, <1>6 DEF RidesInOrder
<1>. QED
  BY <1>1, <1>2, <1>6, <1>7, <1>8, <1>9, OrderStep

\* The transit of a ride that is not completed starts, or is completed.
LEMMA OrderTransits ==
  ASSUME IInv, RidesInOrder, NEW c \in Calls, \A d \in Calls \ {c} : Idle(d),
         NEW x, Hold(c, x), RequestInOrder(x)', NEW status,
         Ride(c) \notin CompletedRides \/ status = "completed",
         transits' = [transits EXCEPT ![Ride(c)] = status],
         UNCHANGED <<details, listeners, edges>>
  PROVE  RidesInOrder'
<1>1. CompletedRides' = CompletedRides
  BY DEF CompletedRides, Exists
<1>2. \A ride \in CompletedRides : transits'[ride] = "completed"
  BY DEF RidesInOrder, CompletedRides, IInv, TypeOK
<1>. QED
  BY <1>1, <1>2, OrderStep

LEMMA OrderInsertTransit ==
  ASSUME IInv, RidesInOrder, NEW c \in Calls, InsertTransit(c)
  PROVE  RidesInOrder'
<1>1. /\ call[c].at = "insertTransit"
      /\ transits' = [transits EXCEPT ![Ride(c)] = "in_transit"]
      /\ UNCHANGED <<details, listeners, edges>> /\ Ride(c) \in Rides
  BY PastAddresses DEF InsertTransit, graph, IInv, Waiting
<1>2. /\ \A d \in Calls \ {c} : Idle(d)
      /\ details[Ride(c)].completed = None
  BY <1>1, OnlyRequest DEF RequestInOrder, Ahead, Waiting, Ride, Idle, Alters
<1>. PICK x : x = [at |-> "saveStarted", then |-> call[c].then, todo |-> call[c].todo,
                   row |-> call[c].row, copy |-> NoRide]
  OBVIOUS
<1>3. Hold(c, x)
  BY DEF InsertTransit, Goto, Continue
<1>4. Ahead(x) = "saveStarted" /\ x.row.ride = Ride(c)
  BY DEF Ahead, Waiting, Ride
<1>5. transits'[Ride(c)] = "in_transit"
  BY <1>1 DEF IInv, TypeOK
<1>6. RequestInOrder(x)'
  BY <1>1, <1>2, <1>4, <1>5 DEF RequestInOrder, Alters, Copied, Ahead, Waiting, Ride
<1>7. Ride(c) \notin CompletedRides
  BY <1>2 DEF CompletedRides
<1>. QED
  BY <1>1, <1>2, <1>3, <1>6, <1>7, OrderTransits

LEMMA OrderCompleteTransitRow ==
  ASSUME IInv, RidesInOrder, orderly, NEW c \in Calls, CompleteTransitRow(c)
  PROVE  RidesInOrder'
<1>1. /\ call[c].at = "completeTransit" /\ UNCHANGED <<details, listeners, edges>>
      /\ Ride(c) \in Rides /\ Exists(Ride(c))
  BY PastAddresses DEF CompleteTransitRow, graph, IInv, Waiting
<1>2. /\ \A d \in Calls \ {c} : Idle(d)
      /\ RequestInOrder(call[c]) /\ ~Idle(c)
  BY <1>1, OnlyRequest
<1>3. CASE Leave(c) /\ UNCHANGED transits
  BY <1>1, <1>2, <1>3, OrderLeave DEF rideTables
<1>4. CASE /\ transits[Ride(c)] = "in_transit"
           /\ transits' = [transits EXCEPT ![Ride(c)] = "completed"]
           /\ Goto(c, "saveCompleted")
  <2>. PICK x : x = [at |-> "saveCompleted", then |-> call[c].then,
                     todo |-> call[c].todo, row |-> call[c].row, copy |-> NoRide]
    OBVIOUS
  <2>1. Hold(c, x)
    BY <1>4 DEF Goto, Continue
  <2>2. Ahead(x) = "saveCompleted" /\ x.row = call[c].row /\ x.row.ride = Ride(c)
    BY DEF Ahead, Waiting, Ride
  <2>3. details[Ride(c)].completed = None
    BY <1>1, <1>4, NotCompleted
  <2>4. Ahead(call[c]) = "completeTransit"
    BY <1>1 DEF Ahead, Waiting
  <2>5. /\ x.row.completed # None
        /\ x.row = [details[Ride(c)] EXCEPT !.completed = x.row.completed]
    BY <1>2, <2>2, <2>4 DEF RequestInOrder, Copied, Idle, Ride
  <2>6. transits'[x.row.ride] = "completed" /\ details' = details
    BY <1>1, <1>4, <2>2 DEF IInv, TypeOK
  <2>7. Ahead(x)' = Ahead(x)
    BY DEF Ahead, Waiting
  <2>8. RequestInOrder(x)'
    BY <2>2, <2>3, <2>5, <2>6, <2>7 DEF RequestInOrder, Alters, Copied
  <2>. QED
    BY <1>1, <1>2, <1>4, <2>1, <2>8, OrderTransits
<1>5. CASE /\ transits' = [transits EXCEPT ![Ride(c)] = "completed"] /\ Leave(c)
  <2>. PICK x : x = NoCall
    OBVIOUS
  <2>1. RequestInOrder(x)' /\ Hold(c, x)
    BY <1>5 DEF RequestInOrder, Leave
  <2>. QED
    BY <1>1, <1>2, <1>5, <2>1, OrderTransits
<1>. QED
  BY <1>3, <1>4, <1>5 DEF CompleteTransitRow

\* A copy is loaded, complete but for the time the ride ended.
LEMMA OrderLoadDetails ==
  ASSUME IInv, RidesInOrder, NEW c \in Calls, LoadDetails(c)
  PROVE  RidesInOrder'
<1>. PICK ride : ride = Ride(c)
  OBVIOUS
<1>. PICK time : time = call[c].row.completed
  OBVIOUS
<1>. PICK row : row = Changing(ride, "completed", time)
  OBVIOUS
<1>. PICK x : x = [at |-> "completeTransit", then |-> call[c].then, todo |-> <<>>,
                   row |-> row, copy |-> NoRide]
  OBVIOUS
<1>1. /\ call[c].at = "loadDetails" /\ Hold(c, x)
      /\ UNCHANGED <<rideTables, listeners, edges>>
  BY DEF LoadDetails, Continue, graph
<1>2. ride \in Rides /\ Exists(ride) /\ time \in Times \union {None}
  BY <1>1, PastAddresses DEF IInv, Waiting, WithAddresses, Legs
<1>3. /\ \A d \in Calls \ {c} : Idle(d)
      /\ time # None
  BY <1>1, OnlyRequest DEF RequestInOrder, Ahead, Waiting, Idle
<1>4. row.ride = ride
  BY <1>2, ChangedRow
<1>5. row = [details[ride] EXCEPT !.completed = time] /\ row.completed = time
  <2>1. details[ride] \in Legs
    BY <1>2 DEF IInv, DetailsKeepAddresses, WithAddresses
  <2>. QED
    BY <2>1 DEF Changing, Legs
<1>6. Ahead(x) = "completeTransit" /\ x.row = row
  BY DEF Ahead, Waiting
<1>7. RequestInOrder(x)
  BY <1>3, <1>4, <1>5, <1>6 DEF RequestInOrder, Alters, Copied
<1>. QED
  BY <1>1, <1>3, <1>7, OrderHold

\* The copy of a save has the time the ride ended only when that is saved.
LEMMA OrderLoadToSave ==
  ASSUME IInv, RidesInOrder, NEW c \in Calls, LoadToSave(c)
  PROVE  RidesInOrder'
<1>. PICK at : at = call[c].at
  OBVIOUS
<1>. PICK ride : ride = Ride(c)
  OBVIOUS
<1>. PICK row : row = call[c].row
  OBVIOUS
<1>. PICK copy : copy = Changing(ride, SavedColumn[at], row[SavedColumn[at]])
  OBVIOUS
<1>. PICK label : label = IF at = "saveCompleted" THEN "updateCompleted"
                          ELSE "updateDetails"
  OBVIOUS
<1>. PICK x : x = [at |-> label, then |-> call[c].then, todo |-> <<>>,
                   row |-> row, copy |-> copy]
  OBVIOUS
<1>1. /\ at \in {"saveFrom", "saveTo", "saveStarted", "saveCompleted"}
      /\ Hold(c, x) /\ UNCHANGED <<rideTables, listeners, edges>>
  BY DEF LoadToSave, SavedColumn, graph
<1>2. ride \in Rides /\ Exists(ride) /\ row.ride = ride
  BY <1>1, PastAddresses DEF IInv, Waiting, Ride
<1>3. details[ride] \in Legs
  BY <1>2 DEF IInv, DetailsKeepAddresses, WithAddresses
<1>4. /\ \A d \in Calls \ {c} : Idle(d)
      /\ RequestInOrder(call[c]) /\ ~Idle(c)
  BY <1>1, OnlyRequest
<1>5. Ahead(call[c]) = at /\ Ahead(x) = label /\ x.row = row /\ x.copy = copy
  BY <1>1 DEF Ahead, Waiting
<1>6. CASE at = "saveCompleted"
  <2>1. copy = [details[ride] EXCEPT !.completed = row.completed]
    BY <1>6 DEF Changing, SavedColumn
  <2>2. /\ row.completed # None
        /\ row = [details[ride] EXCEPT !.completed = row.completed]
        /\ details[ride].completed = None /\ transits[ride] = "completed"
    BY <1>2, <1>4, <1>5, <1>6 DEF RequestInOrder, Copied, Idle
  <2>3. RequestInOrder(x)
    BY <1>2, <1>5, <1>6, <2>1, <2>2 DEF RequestInOrder, Alters, Copied
  <2>. QED
    BY <1>1, <1>4, <2>3, OrderHold
<1>7. CASE at # "saveCompleted"
  <2>1. details[ride].completed = None /\ transits[ride] # "completed"
    BY <1>1, <1>2, <1>4, <1>5, <1>7 DEF RequestInOrder, Alters, Idle
  <2>2. SavedColumn[at] \in {"from", "to", "started"}
    BY <1>1, <1>7 DEF SavedColumn
  <2>3. copy.completed = None
    BY <1>3, <2>1, <2>2 DEF Changing, Legs
  <2>4. RequestInOrder(x)
    BY <1>2, <1>5, <1>7, <2>1, <2>3 DEF RequestInOrder, Alters, Copied
  <2>. QED
    BY <1>1, <1>4, <2>4, OrderHold
<1>. QED
  BY <1>6, <1>7

LEMMA OrderUpdateDetails ==
  ASSUME IInv, RidesInOrder, NEW c \in Calls, UpdateDetails(c)
  PROVE  RidesInOrder'
<1>. PICK ride : ride = Ride(c)
  OBVIOUS
<1>. PICK row : row = call[c].row
  OBVIOUS
<1>. PICK copy : copy = call[c].copy
  OBVIOUS
<1>1. /\ call[c].at \in {"updateDetails", "updateCompleted"}
      /\ details' = [details EXCEPT ![ride] = copy]
      /\ UNCHANGED <<transits, listeners, edges>>
  BY DEF UpdateDetails, graph
<1>2. /\ ride \in Rides /\ row.ride = ride /\ copy.ride = ride
      /\ copy \in Legs /\ row \in Legs
  BY <1>1, PastAddresses DEF IInv, Waiting, Updating, Inner, Ride, WithAddresses
<1>3. /\ \A d \in Calls \ {c} : Idle(d)
      /\ RequestInOrder(call[c]) /\ ~Idle(c)
  BY <1>1, OnlyRequest
<1>4. Ahead(call[c]) = call[c].at
  BY <1>1 DEF Ahead, Waiting
<1>5. details[ride].completed = None
  BY <1>1, <1>2, <1>3, <1>4 DEF RequestInOrder, Alters, Idle
<1>6. /\ details'[ride] = copy
      /\ \A r \in Rides : r # ride => details'[r] = details[r]
  BY <1>1, <1>2 DEF IInv, TypeOK
<1>7. \A r \in CompletedRides : r \in CompletedRides' /\ details'[r] = details[r]
  BY <1>5, <1>6 DEF CompletedRides, Exists
<1>8. \A r \in CompletedRides' : r = ride \/ r \in CompletedRides
  BY <1>6 DEF CompletedRides, Exists
<1>9. \A r \in CompletedRides : transits'[r] = "completed"
  BY <1>1 DEF RidesInOrder
<1>10. CASE call[c].at = "updateDetails"
  <2>. PICK x : x = NoCall
    OBVIOUS
  <2>1. Hold(c, x) /\ RequestInOrder(x)'
    BY <1>10 DEF UpdateDetails, Leave, RequestInOrder
  <2>2. copy.completed = None
    BY <1>3, <1>4, <1>10 DEF RequestInOrder, Idle
  <2>3. ride \notin CompletedRides'
    BY <1>6, <2>2 DEF CompletedRides
  <2>4. \A r \in CompletedRides' : transits'[r] = "completed"
    BY <1>8, <1>9, <2>3
  <2>. QED
    BY <1>1, <1>3, <1>7, <2>1, <2>4, OrderStep
<1>11. CASE call[c].at = "updateCompleted"
  <2>. PICK x : x = [at |-> "emit", then |-> call[c].then, todo |-> call[c].todo,
                     row |-> row, copy |-> NoRide]
    OBVIOUS
  <2>1. Hold(c, x)
    BY <1>11 DEF UpdateDetails, Goto, Continue
  <2>2. copy = row /\ row.completed # None /\ transits[ride] = "completed"
    BY <1>2, <1>3, <1>4, <1>11 DEF RequestInOrder, Copied, Idle
  <2>3. Ahead(x)' = "emit" /\ x.row = row
    BY DEF Ahead, Waiting
  <2>4. row = [row EXCEPT !.completed = row.completed]
    BY <1>2 DEF Legs
  <2>5. RequestInOrder(x)'
    BY <1>2, <1>6, <2>2, <2>3, <2>4 DEF RequestInOrder, Alters, Copied
  <2>6. \A r \in CompletedRides' : transits'[r] = "completed"
    BY <1>1, <1>8, <1>9, <2>2
  <2>. QED
    BY <1>1, <1>3, <1>7, <2>1, <2>5, <2>6, OrderStep
<1>. QED
  BY <1>1, <1>10, <1>11

\* The event tells what the row of the ride does.
LEMMA OrderEmit ==
  ASSUME IInv, RidesInOrder, NEW c \in Calls, Emit(c)
  PROVE  RidesInOrder'
<1>. PICK ride : ride = Ride(c)
  OBVIOUS
<1>. PICK row : row = call[c].row
  OBVIOUS
<1>. PICK started : started = IF row.started = None THEN now ELSE row.started
  OBVIOUS
<1>. PICK leg : leg = [row EXCEPT !.started = started]
  OBVIOUS
<1>. PICK x : x = NoCall
  OBVIOUS
<1>1. /\ call[c].at = "emit" /\ Hold(c, x)
      /\ UNCHANGED <<transits, details, edges>>
      /\ listeners' = listeners \union {[leg |-> leg, draws |-> TRUE, at |-> "mergeFrom"]}
  BY DEF Emit, Leave, rideTables, graph
<1>2. ride \in Rides /\ Exists(ride) /\ row.ride = ride /\ row \in Legs
  BY <1>1, PastAddresses DEF IInv, Waiting, Ride, WithAddresses
<1>3. /\ \A d \in Calls \ {c} : Idle(d)
      /\ row = details[ride] /\ row.completed # None
  BY <1>1, <1>2, OnlyRequest DEF RequestInOrder, Copied, Ahead, Waiting, Idle
<1>4. ride \in CompletedRides
  BY <1>2, <1>3 DEF CompletedRides
<1>5. /\ leg.ride = ride /\ leg.client = row.client /\ leg.from = row.from
      /\ leg.to = row.to /\ leg.completed = row.completed /\ leg.started = started
  BY <1>2 DEF Legs
<1>6. CompletedRides' = CompletedRides
  BY <1>1 DEF CompletedRides, Exists
<1>7. Tells(leg, leg.from, leg.to)'
  BY <1>1, <1>3, <1>4, <1>5, <1>6 DEF Tells
<1>8. \A e \in listeners' :
        e \in listeners \/ (e.draws => Tells(e.leg, e.leg.from, e.leg.to)')
  <2>1. \A e \in listeners' : e \in listeners \/ e.leg = leg
    BY <1>1
  <2>. QED
    BY <1>7, <2>1
<1>9. RequestInOrder(x)'
  BY DEF RequestInOrder
<1>10. \A r \in CompletedRides' : transits'[r] = "completed"
  BY <1>1, <1>6 DEF RidesInOrder
<1>. QED
  BY <1>1, <1>3, <1>6, <1>8, <1>9, <1>10, OrderStep

-----------------------------------------------------------------------------
(* What listeners do, the clock and restarts                                *)

\* The rides stay as they are, and each request goes on later or is lost.
LEMMA OrderRidesStay ==
  ASSUME RidesInOrder, UNCHANGED rideTables,
         \A c \in Calls : call'[c] = call[c] \/ call'[c] = NoCall,
         \A e \in listeners' : e.draws => Tells(e.leg, e.leg.from, e.leg.to),
         \A leg \in edges' : Tells(leg, leg.from[1], leg.to[1])
  PROVE  RidesInOrder'
<1>1. UNCHANGED <<transits, details>>
  BY DEF rideTables
<1>2. CompletedRides' = CompletedRides
  BY <1>1 DEF CompletedRides, Exists
<1>3. ASSUME NEW c \in Calls PROVE RequestInOrder(call[c])'
  BY <1>1 DEF RidesInOrder, RequestInOrder
<1>4. \A c \in Calls, d \in Calls : (Idle(c) \/ Idle(d) \/ c = d)'
  BY DEF RidesInOrder, Idle
<1>5. \A leg, from, to : Tells(leg, from, to)' <=> Tells(leg, from, to)
  BY <1>1, <1>2 DEF Tells
<1>6. \A ride \in CompletedRides' : transits'[ride] = "completed"
  BY <1>1, <1>2 DEF RidesInOrder
<1>. QED
  BY <1>3, <1>4, <1>5, <1>6 DEF RidesInOrder

LEMMA OrderListen ==
  ASSUME IInv, RidesInOrder, NEW e \in listeners, Listen(e)
  PROVE  RidesInOrder'
<1>1. UNCHANGED <<rideTables, call>>
  BY DEF Listen, MergeNode, CreateNode, DrawRide
<1>2. /\ \A f \in listeners : f.draws => Tells(f.leg, f.leg.from, f.leg.to)
      /\ \A leg \in edges : Tells(leg, leg.from[1], leg.to[1])
  BY DEF RidesInOrder
<1>3. e \in Listeners
  BY DEF IInv, TypeOK
<1>4. CASE \E label : Proceed(e, label) /\ UNCHANGED edges
  <2>1. PICK label : Proceed(e, label) /\ UNCHANGED edges
    BY <1>4
  <2>. PICK f : f = [e EXCEPT !.at = label]
    OBVIOUS
  <2>2. f.leg = e.leg /\ f.draws = e.draws
    BY <1>3 DEF Listeners
  <2>3. \A g \in listeners' : g \in listeners \/ g = f
    BY <2>1 DEF Proceed
  <2>4. \A g \in listeners' : g.draws => Tells(g.leg, g.leg.from, g.leg.to)
    BY <1>2, <2>2, <2>3
  <2>. QED
    BY <1>1, <1>2, <2>1, <2>4, OrderRidesStay
<1>5. CASE DrawRide(e)
  <2>. PICK leg : leg = e.leg
    OBVIOUS
  <2>1. /\ \A f \in listeners' : f \in listeners
        /\ \A edge \in edges' : edge \in edges \/ (e.draws /\ edge \in NewEdges(leg))
    BY <1>5 DEF DrawRide
  <2>2. ASSUME e.draws, NEW edge \in NewEdges(leg)
        PROVE  Tells(edge, edge.from[1], edge.to[1])
    <3>1. PICK from \in NodesOf(leg.from), to \in NodesOf(leg.to) :
            edge = EdgeBetween(leg, from, to)
      BY DEF NewEdges
    <3>2. from[1] = leg.from /\ to[1] = leg.to
      BY DEF NodesOf
    <3>3. /\ edge.ride = leg.ride /\ edge.client = leg.client
          /\ edge.from[1] = leg.from /\ edge.to[1] = leg.to
          /\ edge.started = leg.started /\ edge.completed = leg.completed
      BY <3>1, <3>2 DEF EdgeBetween
    <3>4. Tells(leg, leg.from, leg.to)
      BY <1>2, <2>2
    <3>. QED
      BY <3>3, <3>4 DEF Tells
  <2>3. \A edge \in edges' : Tells(edge, edge.from[1], edge.to[1])
    BY <1>2, <2>1, <2>2
  <2>4. \A f \in listeners' : f.draws => Tells(f.leg, f.leg.from, f.leg.to)
    BY <1>2, <2>1
  <2>. QED
    BY <1>1, <2>3, <2>4, OrderRidesStay
<1>. QED
  BY <1>4, <1>5 DEF Listen, MergeNode, CreateNode, graph

\* Populating the graph, the clock, a restart, and steps that change nothing.
LEMMA OrderOthers ==
  ASSUME RidesInOrder, Populate \/ Tick \/ Crash \/ UNCHANGED vars
  PROVE  RidesInOrder'
<1>1. /\ \A f \in listeners : f.draws => Tells(f.leg, f.leg.from, f.leg.to)
      /\ \A leg \in edges : Tells(leg, leg.from[1], leg.to[1])
  BY DEF RidesInOrder
<1>2. UNCHANGED rideTables /\ UNCHANGED edges
  BY DEF Populate, Tick, Crash, vars, graph
<1>3. \A c \in Calls : call'[c] = call[c] \/ call'[c] = NoCall
  BY DEF Populate, Tick, Crash, vars
<1>4. \A e \in listeners' : e \in listeners \/ e.draws = FALSE
  BY DEF Populate, Tick, Crash, vars
<1>5. \A e \in listeners' : e.draws => Tells(e.leg, e.leg.from, e.leg.to)
  BY <1>1, <1>4
<1>. QED
  BY <1>1, <1>2, <1>3, <1>5, OrderRidesStay

\* Requests that never overlapped keep the rides in order.
LEMMA OrderKept ==
  ASSUME IInv, orderly => RidesInOrder, [Next]_vars
  PROVE  orderly' => RidesInOrder'
<1>. SUFFICES ASSUME orderly' PROVE RidesInOrder'
  OBVIOUS
<1>1. ASSUME NEW c \in Calls, Request(c) PROVE RidesInOrder'
  BY <1>1, OrderCreateTransit, OrderChange, OrderStartTransit, OrderCompleteTransit
  DEF Request
<1>2. CASE ~\E c \in Calls : Request(c)
  <2>1. UNCHANGED orderly
    BY <1>2 DEF Next, Handle, FindAddress, InsertAddress, InsertDetails, CheckDemand,
      CheckTransit, InsertTransit, LoadDetails, CompleteTransitRow, LoadToSave,
      UpdateDetails, Emit, Listen, MergeNode, CreateNode, DrawRide, Populate, Tick,
      Crash, vars, world
  <2>2. orderly /\ RidesInOrder
    BY <2>1
  <2>3. ASSUME NEW c \in Calls, Handle(c) PROVE RidesInOrder'
    BY <2>2, <2>3, OrderAddresses, OrderInsertDetails, OrderCheck, OrderInsertTransit,
       OrderLoadDetails, OrderCompleteTransitRow, OrderLoadToSave, OrderUpdateDetails,
       OrderEmit
    DEF Handle
  <2>. QED
    BY <1>2, <2>2, <2>3, OrderListen, OrderOthers DEF Next
<1>. QED
  BY <1>1, <1>2

-----------------------------------------------------------------------------
(* The graph                                                                *)

LEMMA FirstIsNew ==
  ASSUME IInv, NEW leg, nodes[leg.from] > 0, nodes[leg.to] > 0,
         leg.from \in Hashes, leg.to \in Hashes, NEW edge \in NewEdges(leg)
  PROVE  First(edge) \in NewEdges(leg)
<1>1. PICK from \in NodesOf(leg.from), to \in NodesOf(leg.to) :
        edge = EdgeBetween(leg, from, to)
  BY DEF NewEdges
<1>2. from[1] = leg.from /\ to[1] = leg.to
  BY DEF NodesOf
<1>. PICK f, t : f = <<leg.from, 1>> /\ t = <<leg.to, 1>>
  OBVIOUS
<1>3. First(edge) = EdgeBetween(leg, f, t)
  BY <1>1, <1>2 DEF First, EdgeBetween
<1>4. f \in NodesOf(leg.from) /\ t \in NodesOf(leg.to)
  BY DEF NodesOf, IInv, TypeOK
<1>. QED
  BY <1>3, <1>4 DEF NewEdges

LEMMA NewEdgesFinite ==
  ASSUME IInv, NEW leg, leg.from \in Hashes, leg.to \in Hashes
  PROVE  IsFiniteSet(NewEdges(leg))
<1>. DEFINE A == NodesOf(leg.from)
            B == NodesOf(leg.to)
            f == [p \in A \X B |-> EdgeBetween(leg, p[1], p[2])]
<1>1. IsFiniteSet(A) /\ IsFiniteSet(B)
  <2>1. nodes[leg.from] \in Nat /\ nodes[leg.to] \in Nat
    BY DEF IInv, TypeOK
  <2>2. \A n \in Nat : IsFiniteSet(1 .. n)
    BY FS_Interval
  <2>3. \A hash, n : n \in Nat => IsFiniteSet({hash} \X (1 .. n))
    BY <2>2, FS_Singleton, FS_Product
  <2>. QED
    BY <2>1, <2>3 DEF NodesOf
<1>2. IsFiniteSet(A \X B)
  BY <1>1, FS_Product
<1>3. f \in [A \X B -> NewEdges(leg)]
  BY DEF NewEdges
<1>4. \A edge \in NewEdges(leg) : \E p \in A \X B : f[p] = edge
  <2>. SUFFICES ASSUME NEW edge \in NewEdges(leg) PROVE \E p \in A \X B : f[p] = edge
    OBVIOUS
  <2>1. PICK from \in A, to \in B : edge = EdgeBetween(leg, from, to)
    BY DEF NewEdges
  <2>2. <<from, to>> \in A \X B /\ f[<<from, to>>] = edge
    BY <2>1
  <2>. QED
    BY <2>2
<1>5. f \in Surjection(A \X B, NewEdges(leg))
  BY <1>3, <1>4 DEF Surjection
<1>. HIDE DEF f, A, B
<1>. QED
  BY <1>2, <1>5, FS_Surjection

LEMMA GraphListen ==
  ASSUME IInv, GraphInOrder, NEW e \in listeners, Listen(e)
  PROVE  GraphInOrder'
<1>1. /\ e \in Listeners /\ e.leg.from \in Hashes /\ e.leg.to \in Hashes
      /\ HasNodes(e)
  BY DEF IInv, TypeOK, Listeners, Legs, GraphInOrder
<1>2. /\ \A f \in listeners : HasNodes(f) /\ f \in Listeners
      /\ \A f \in listeners : f.leg.from \in Hashes /\ f.leg.to \in Hashes
  BY DEF IInv, TypeOK, Listeners, Legs, GraphInOrder
<1>3. ASSUME NEW label, Proceed(e, label), UNCHANGED edges,
             \A hash \in Hashes : nodes[hash] > 0 => nodes'[hash] > 0,
             label \notin {"mergeFrom", "createFrom"} => nodes'[e.leg.from] > 0,
             label = "draw" => nodes'[e.leg.to] > 0
      PROVE  GraphInOrder'
  <2>. PICK f : f = [e EXCEPT !.at = label]
    OBVIOUS
  <2>1. f.leg = e.leg /\ f.at = label
    BY <1>1 DEF Listeners
  <2>2. HasNodes(f)'
    BY <1>3, <2>1 DEF HasNodes
  <2>3. \A g \in listeners : HasNodes(g)'
    BY <1>2, <1>3 DEF HasNodes
  <2>4. \A g \in listeners' : g \in listeners \/ g = f
    BY <1>3 DEF Proceed
  <2>5. \A g \in listeners' : HasNodes(g)'
    BY <2>2, <2>3, <2>4
  <2>. QED
    BY <1>3, <2>5 DEF GraphInOrder, First
<1>4. CASE MergeNode(e)
  <2>1. /\ e.at \in {"mergeFrom", "mergeTo"}
        /\ UNCHANGED <<nodes, edges>>
        /\ Proceed(e, IF nodes[MergedHash(e)] > 0 THEN NextQuery[e.at]
                      ELSE IF e.at = "mergeFrom" THEN "createFrom" ELSE "createTo")
    BY <1>4 DEF MergeNode, graph
  <2>. PICK label : label = IF nodes[MergedHash(e)] > 0 THEN NextQuery[e.at]
                            ELSE IF e.at = "mergeFrom" THEN "createFrom" ELSE "createTo"
    OBVIOUS
  <2>2. label \notin {"mergeFrom", "createFrom"} => nodes'[e.leg.from] > 0
    BY <1>1, <2>1 DEF HasNodes, MergedHash
  <2>3. label = "draw" => nodes'[e.leg.to] > 0
    BY <1>1, <2>1 DEF HasNodes, MergedHash, NextQuery
  <2>. QED
    BY <1>3, <2>1, <2>2, <2>3
<1>5. CASE CreateNode(e)
  <2>. PICK hash : hash = MergedHash(e)
    OBVIOUS
  <2>. PICK label : label = NextQuery[e.at]
    OBVIOUS
  <2>1. /\ e.at \in {"createFrom", "createTo"} /\ hash \in Hashes
        /\ UNCHANGED edges /\ Proceed(e, label)
        /\ nodes' = [nodes EXCEPT ![hash] = @ + 1]
    BY <1>1, <1>5 DEF CreateNode, MergedHash
  <2>2. /\ nodes'[hash] > 0
        /\ \A h \in Hashes : nodes[h] > 0 => nodes'[h] > 0
    BY <2>1 DEF IInv, TypeOK
  <2>3. CASE e.at = "createFrom"
    <3>1. hash = e.leg.from /\ label = "mergeTo"
      BY <2>3 DEF MergedHash, NextQuery
    <3>. QED
      BY <1>3, <2>1, <2>2, <3>1
  <2>4. CASE e.at = "createTo"
    <3>1. hash = e.leg.to /\ label = "draw"
      BY <2>4 DEF MergedHash, NextQuery
    <3>2. nodes[e.leg.from] > 0
      BY <1>1, <2>4 DEF HasNodes
    <3>. QED
      BY <1>1, <1>3, <2>1, <2>2, <3>1, <3>2
  <2>. QED
    BY <2>1, <2>3, <2>4
<1>6. CASE DrawRide(e)
  <2>. PICK leg : leg = e.leg
    OBVIOUS
  <2>. PICK more : more = IF e.draws THEN NewEdges(leg) ELSE {}
    OBVIOUS
  <2>1. /\ e.at = "draw" /\ edges' = edges \union more /\ UNCHANGED nodes
        /\ \A f \in listeners' : f \in listeners
    BY <1>6 DEF DrawRide
  <2>2. nodes[leg.from] > 0 /\ nodes[leg.to] > 0
    BY <1>1, <2>1 DEF HasNodes
  <2>3. IsFiniteSet(more)
    BY <1>1, NewEdgesFinite, FS_EmptySet
  <2>4. \A edge \in more : First(edge) \in more
    BY <1>1, <2>2, FirstIsNew
  <2>5. IsFiniteSet(edges')
    BY <2>1, <2>3, FS_Union DEF GraphInOrder
  <2>6. \A edge \in edges' : First(edge) \in edges'
    BY <2>1, <2>4 DEF GraphInOrder
  <2>7. \A f \in listeners' : HasNodes(f)'
    BY <1>2, <2>1 DEF HasNodes
  <2>. QED
    BY <2>5, <2>6, <2>7 DEF GraphInOrder, First
<1>. QED
  BY <1>4, <1>5, <1>6 DEF Listen

\* Nobody else changes the graph.
LEMMA GraphKept ==
  ASSUME IInv, GraphInOrder, [Next]_vars
  PROVE  GraphInOrder'
<1>1. ASSUME UNCHANGED graph, \A e \in listeners' : e \in listeners \/ e.at = "mergeFrom"
      PROVE  GraphInOrder'
  BY <1>1 DEF GraphInOrder, HasNodes, First, graph
<1>2. ASSUME NEW c \in Calls, Request(c) PROVE GraphInOrder'
  BY <1>1, <1>2 DEF Request, CreateTransit, ChangeFrom, ChangeTo, StartTransit,
    CompleteTransit, Begin
<1>3. ASSUME NEW c \in Calls, Handle(c) PROVE GraphInOrder'
  <2>1. CASE Emit(c)
    BY <1>1, <2>1 DEF Emit
  <2>2. CASE ~Emit(c)
    BY <1>1, <1>3, <2>2 DEF Handle, FindAddress, InsertAddress, InsertDetails,
      CheckDemand, CheckTransit, InsertTransit, LoadDetails, CompleteTransitRow,
      LoadToSave, UpdateDetails
  <2>. QED
    BY <2>1, <2>2
<1>4. CASE Populate \/ Tick \/ Crash \/ UNCHANGED vars
  BY <1>1, <1>4 DEF Populate, Tick, Crash, vars
<1>. QED
  BY <1>2, <1>3, <1>4, GraphListen DEF Next

-----------------------------------------------------------------------------
(* Answers                                                                  *)

THEOREM InOrderHolds == Spec => []InOrder
<1>1. Init => InOrder
  BY NoCallFacts, FS_EmptySet DEF Init, InOrder, GraphInOrder, RidesInOrder,
    RequestInOrder, Idle, CompletedRides, Exists
<1>2. IInv /\ InOrder /\ [Next]_vars => InOrder'
  BY OrderKept, GraphKept DEF InOrder
<1>. QED
  BY <1>1, <1>2, IInvHolds, PTL DEF Spec

\* When requests came one at a time, every completed ride is drawn and took a
\* minute at least, GraphTransitAnalyzer.analyze answers what the rows of the
\* completed rides would, in a graph with one node of each hash: however the
\* listeners of events overlapped, how often addTransitBetweenAddresses created
\* the node of a hash, and however many legs the longest journey has.
THEOREM AnswersTellRidesHolds == Spec => []AnswersTellRides
<1>1. ASSUME IInv, InOrder PROVE AnswersTellRides
  <2>. DEFINE legs == {LegOf(ride) : ride \in CompletedRides}
  <2>. SUFFICES ASSUME orderly, \A ride \in CompletedRides :
                         /\ Drawn(ride)
                         /\ details[ride].started # None
                         /\ details[ride].completed - details[ride].started >= PerMinute,
                       NEW client \in Clients, NEW hash \in Hashes
                PROVE  Answers(edges, client, hash) = Answers(legs, client, hash)
    BY DEF AnswersTellRides
  <2>1. /\ IsFiniteSet(edges) /\ \A leg \in edges : First(leg) \in edges
        /\ \A leg \in edges : Tells(leg, leg.from[1], leg.to[1])
    BY <1>1 DEF InOrder, GraphInOrder, RidesInOrder
  <2>2. ASSUME NEW ride \in CompletedRides
        PROVE  /\ details[ride] \in Legs /\ details[ride].ride = ride
               /\ details[ride].started \in Nat /\ details[ride].completed \in Nat
    <3>1. details[ride] \in Legs /\ details[ride].ride = ride
      BY <1>1 DEF CompletedRides, IInv, DetailsKeepAddresses, WithAddresses
    <3>2. details[ride].started # None /\ details[ride].completed # None
      BY DEF CompletedRides
    <3>. QED
      BY <3>1, <3>2, AnalyzerAssumption DEF Legs, Times
  <2>3. ASSUME NEW leg \in edges
        PROVE  /\ leg.ride \in CompletedRides /\ First(leg) = LegOf(leg.ride)
               /\ leg.started = details[leg.ride].started
               /\ leg.completed = details[leg.ride].completed
    <3>1. Tells(leg, leg.from[1], leg.to[1])
      BY <2>1
    <3>2. /\ leg.ride \in CompletedRides
          /\ details[leg.ride].started # None /\ details[leg.ride].ride = leg.ride
      BY <2>2, <3>1 DEF Tells
    <3>. QED
      BY <3>1, <3>2 DEF Tells, First, LegOf, EdgeBetween
  <2>4. Timed(edges)
    BY <2>2, <2>3 DEF Timed
  <2>5. \A leg \in edges : First(leg) \in legs
    BY <2>3
  <2>6. legs \in SUBSET edges
    <3>1. ASSUME NEW ride \in CompletedRides PROVE LegOf(ride) \in edges
      <4>1. PICK leg \in edges : leg.ride = ride
        BY DEF Drawn
      <4>. QED
        BY <2>1, <2>3, <4>1
    <3>. QED
      BY <3>1
  <2>. HIDE DEF legs
  <2>. QED
    BY <2>1, <2>4, <2>5, <2>6, SameAnswers
<1>. QED
  BY <1>1, IInvHolds, InOrderHolds, PTL
=============================================================================
