--------------------------- MODULE TransitAnalyzer --------------------------
(***************************************************************************)
(* How completed rides get into the graph the analyzer of transits asks.   *)
(*                                                                         *)
(* Rides and addresses are rows of one database (ride/ride.service.ts,     *)
(* geolocation/address/address.repository.ts); the graph is another        *)
(* (crm/transit-analyzer).  A completed ride is told to the graph by an    *)
(* event that is kept in memory only, and its listener runs on its own:    *)
(* the listeners of two rides overlap even when the requests do not.       *)
(*                                                                         *)
(* A call is a request in progress; an action is what it does between two  *)
(* awaits, but for the SELECT and the UPDATE of a save, which are one.  Of *)
(* a ride only what the graph is told is kept: who assigns the driver, and *)
(* who may start, complete or change, is in RideService, and so are the    *)
(* stale copies that bring a status back when requests overlap: here a     *)
(* status then stops nobody.                                               *)
(***************************************************************************)
EXTENDS Journeys

CONSTANTS
  MaxCalls,    \* bound on the requests in progress
  Clients,     \* clients of rides
  Hashes,      \* hashes of addresses
  Bare,        \* the hash of the same place by five fields only
  Orders,      \* bound: <<client, from, to>> of the rides asked for
  MaxRides,    \* bound on the rides created
  MaxTime,     \* bound on the clock
  MaxExtras,   \* bound on changes of address, calls of populate, restarts, and
               \* requests that begin while another is in progress
  None         \* the null of a column

ASSUME AnalyzerAssumption ==
  /\ Bare \in [Hashes -> Hashes]
  /\ Orders \subseteq Clients \X Hashes \X Hashes
  /\ MaxCalls \in Nat
  /\ MaxRides \in Nat
  /\ MaxTime \in Nat
  /\ MaxExtras \in Nat
  /\ None \notin Nat

VARIABLES
  addresses,   \* hashes with a row in the table of addresses
  transits,    \* status of the transit of each ride
  details,     \* transit_details rows
  call,        \* what each request holds in memory
  listeners,   \* events whose listener has not ended
  nodes,       \* how many nodes of each hash the graph has
  edges,       \* relationships of the graph
  now,         \* the clock
  extras,      \* history: how many of those there were
  orderly,     \* history: no two requests ever overlapped
  crashed      \* history: the process was restarted

rideTables == <<transits, details>>
graph == <<nodes, edges>>
world == <<now, extras, orderly, crashed>>
vars == <<addresses, rideTables, call, listeners, graph, world>>

Calls == 1 .. MaxCalls
Rides == 1 .. MaxRides
Times == 0 .. MaxTime

-----------------------------------------------------------------------------
(* An address is hashed with its name: an Address made of five fields has   *)
(* none, and AddressDTO.toAddressEntity gives it one, '' if need be.  So a  *)
(* place has two hashes at least, and may have as many rows.                *)

Nodes == Hashes \X Nat

\* Columns of a row; a relationship of the graph has the same fields.
Legs == [ride : Rides, client : Clients, from : Hashes, to : Hashes,
         started : Times \union {None}, completed : Times \union {None}]

Edges == [ride : Rides, client : Clients, from : Nodes, to : Nodes,
          started : Times \union {None}, completed : Times \union {None}]

NoRide == [ride |-> None]

Steps ==
  { "idle", "address", "insertAddress", "insertDetails", "checkDemand",
    "saveFrom", "checkTransit", "saveTo", "insertTransit", "saveStarted",
    "loadDetails", "completeTransit", "saveCompleted", "updateDetails",
    "updateCompleted", "emit" }

\* at: the next step; then: the step once the addresses of todo have rows;
\* row: what the handler knows of its ride; copy: the row it is about to save.
CallStates == [at : Steps, then : Steps, todo : Seq(Hashes),
               row : Legs \union {NoRide}, copy : Legs \union {NoRide}]

NoCall == [at |-> "idle", then |-> "idle", todo |-> <<>>, row |-> NoRide,
           copy |-> NoRide]

Idle(c) == call[c] = NoCall

Hold(c, x) == call' = [call EXCEPT ![c] = x]

Continue(c, label, todo, row) ==
  Hold(c, [at |-> label, then |-> call[c].then, todo |-> todo, row |-> row,
           copy |-> NoRide])

Goto(c, label) == Continue(c, label, call[c].todo, call[c].row)

\* A response, or an exception that ends the handler where it is.
Leave(c) == Hold(c, NoCall)

Ride(c) == call[c].row.ride

Exists(ride) == details[ride] # NoRide

CountExtra == extras < MaxExtras /\ extras' = extras + 1

\* A request begins: in the first place that is free, and first sees to it
\* that each hash of todo has a row.
Begin(c, todo, then, row) ==
  /\ Idle(c) /\ \A d \in 1 .. c - 1 : ~Idle(d)
  /\ Hold(c, [at |-> IF todo = <<>> THEN then ELSE "address", then |-> then,
              todo |-> todo, row |-> row, copy |-> NoRide])
  /\ UNCHANGED <<addresses, rideTables, listeners, graph, now, crashed>>

\* It is one of the extras when it overlaps another, and when it is rare.
Count(rare) ==
  LET overlaps == \E c \in Calls : ~Idle(c)
      n == (IF rare THEN 1 ELSE 0) + (IF overlaps THEN 1 ELSE 0)
  IN
  /\ extras + n <= MaxExtras
  /\ extras' = extras + n
  /\ orderly' = (orderly /\ ~overlaps)

-----------------------------------------------------------------------------
(* AddressRepository.save and getOrCreate: look the hash up, then insert;   *)
(* the column is unique, so the INSERT of a hash that has got a row since   *)
(* throws.                                                                  *)

\* Rows of addresses stay, so all that are found until one is missing are
\* looked up in one step.
FindAddress(c) ==
  LET todo == call[c].todo IN
  /\ call[c].at = "address"
  /\ \E found \in 0 .. Len(todo) :
       /\ \A i \in 1 .. found : todo[i] \in addresses
       /\ found < Len(todo) => todo[found + 1] \notin addresses
       /\ Continue(c, IF found = Len(todo) THEN call[c].then ELSE "insertAddress",
                   SubSeq(todo, found + 1, Len(todo)), call[c].row)
  /\ UNCHANGED <<addresses, rideTables, listeners, graph, world>>

\* Fault: an address that has no row is used as it is.
UseAddress(c) ==
  /\ call[c].at = "insertAddress"
  /\ Continue(c, call[c].then, <<>>, call[c].row)
  /\ UNCHANGED <<addresses, rideTables, listeners, graph, world>>

InsertAddress(c) ==
  LET hash == Head(call[c].todo) IN
  /\ call[c].at = "insertAddress"
  /\ IF hash \in addresses
     THEN Leave(c) /\ UNCHANGED addresses
     ELSE /\ addresses' = addresses \union {hash}
          /\ Continue(c, "address", Tail(call[c].todo), call[c].row)
  /\ UNCHANGED <<rideTables, listeners, graph, world>>

-----------------------------------------------------------------------------
(* RideService                                                              *)

\* A ride not created yet and that no other call creates.
FreshRides ==
  {ride \in Rides : ~Exists(ride) /\ \A c \in Calls : call[c].row.ride # ride}

NextRide == CHOOSE ride \in FreshRides : TRUE

\* createTransitFromDTO saves both addresses as the client names them, and
\* createTransit gets or creates their bare forms, which the ride keeps.
CreateTransit(c) ==
  /\ FreshRides # {}
  /\ \E order \in Orders :
       LET from == order[2]
           to   == order[3]
       IN  Begin(c, <<from, to, Bare[from], Bare[to]>>, "insertDetails",
                 [ride |-> NextRide, client |-> order[1],
                  from |-> Bare[from], to |-> Bare[to],
                  started |-> None, completed |-> None])
  /\ Count(FALSE)

InsertDetails(c) ==
  /\ call[c].at = "insertDetails"
  /\ details' = [details EXCEPT ![Ride(c)] = call[c].row]
  /\ Leave(c)
  /\ UNCHANGED <<addresses, transits, listeners, graph, world>>

\* The call goes on with the row as it is, one column changed.
Changing(ride, column, value) == [details[ride] EXCEPT ![column] = value]

\* changeTransitAddressFrom, of a ride no driver is assigned to.
ChangeFrom(c) ==
  /\ \E ride \in Rides, hash \in Hashes :
       /\ Exists(ride) /\ transits[ride] = "none"
       /\ Begin(c, <<hash>>, "checkDemand", Changing(ride, "from", hash))
  /\ Count(TRUE)

\* The demand may refuse (see RideService); that of a started ride does.
CheckDemand(c) ==
  /\ call[c].at = "checkDemand"
  /\ \/ (orderly => transits[Ride(c)] = "none") /\ Goto(c, "saveFrom")
     \/ Leave(c)
  /\ UNCHANGED <<addresses, rideTables, listeners, graph, world>>

ChangeTo(c) ==
  /\ \E ride \in Rides, hash \in Hashes :
       /\ Exists(ride)
       /\ Begin(c, <<hash>>, "checkTransit", Changing(ride, "to", hash))
  /\ Count(TRUE)

\* Fault: the destination of a completed ride may change.
CheckNothing(c) ==
  /\ call[c].at = "checkTransit"
  /\ Goto(c, "saveTo")
  /\ UNCHANGED <<addresses, rideTables, listeners, graph, world>>

\* A completed transit refuses, one in progress may find the place too far.
CheckTransit(c) ==
  /\ call[c].at = "checkTransit"
  /\ \/ (orderly => transits[Ride(c)] # "completed") /\ Goto(c, "saveTo")
     \/ transits[Ride(c)] # "none" /\ Leave(c)
  /\ UNCHANGED <<addresses, rideTables, listeners, graph, world>>

\* startTransit stamps the time as it begins.  A ride is started once (bound).
StartTransit(c) ==
  /\ \E ride \in Rides :
       /\ Exists(ride) /\ transits[ride] = "none"
       /\ \A d \in Calls : call[d].at = "insertTransit" => Ride(d) # ride
       /\ Begin(c, <<>>, "insertTransit", Changing(ride, "started", now))
  /\ Count(FALSE)

InsertTransit(c) ==
  /\ call[c].at = "insertTransit"
  /\ transits' = [transits EXCEPT ![Ride(c)] = "in_transit"]
  /\ Goto(c, "saveStarted")
  /\ UNCHANGED <<addresses, details, listeners, graph, world>>

\* completeTransit stamps the time, and saves the address where the ride ended;
\* the ride does not keep it.  Calls for a completed ride are left out (bound).
CompleteTransit(c) ==
  /\ \E ride \in Rides, hash \in Hashes :
       /\ Exists(ride) /\ transits[ride] = "in_transit"
       /\ Begin(c, <<hash>>, "loadDetails", Changing(ride, "completed", now))
  /\ Count(FALSE)

\* The copy the event is made of, its time of completion set aside.
LoadDetails(c) ==
  /\ call[c].at = "loadDetails"
  /\ Continue(c, "completeTransit", <<>>,
              Changing(Ride(c), "completed", call[c].row.completed))
  /\ UNCHANGED <<addresses, rideTables, listeners, graph, world>>

\* A driver without a fee ends the handler once the transit is completed.
CompleteTransitRow(c) ==
  /\ call[c].at = "completeTransit"
  /\ \/ /\ orderly => transits[Ride(c)] = "in_transit"
        /\ transits' = [transits EXCEPT ![Ride(c)] = "completed"]
        /\ Goto(c, "saveCompleted") \/ Leave(c)
     \/ /\ transits[Ride(c)] # "in_transit"
        /\ Leave(c) /\ UNCHANGED transits
  /\ UNCHANGED <<addresses, details, listeners, graph, world>>

SavedColumn ==
  [ saveFrom |-> "from", saveTo |-> "to", saveStarted |-> "started",
    saveCompleted |-> "completed" ]

\* TransitDetailsFacade loads the row again and changes a column of its copy.
LoadToSave(c) ==
  LET at == call[c].at
      column == SavedColumn[at]
  IN
  /\ at \in DOMAIN SavedColumn
  /\ Hold(c, [at |-> IF at = "saveCompleted" THEN "updateCompleted"
                    ELSE "updateDetails",
              then |-> call[c].then, todo |-> <<>>, row |-> call[c].row,
              copy |-> Changing(Ride(c), column, call[c].row[column])])
  /\ UNCHANGED <<addresses, rideTables, listeners, graph, world>>

\* It saves the copy: every column that differs is written.
UpdateDetails(c) ==
  /\ call[c].at \in {"updateDetails", "updateCompleted"}
  /\ details' = [details EXCEPT ![Ride(c)] = call[c].copy]
  /\ IF call[c].at = "updateCompleted" THEN Goto(c, "emit") ELSE Leave(c)
  /\ UNCHANGED <<addresses, transits, listeners, graph, world>>

\* Fault: a ride whose start the copy does not know is not told.
EmitStarted(c) ==
  /\ call[c].at = "emit"
  /\ listeners' = listeners \union
       IF call[c].row.started = None THEN {}
       ELSE {[leg |-> call[c].row, draws |-> TRUE, at |-> "mergeFrom"]}
  /\ Leave(c)
  /\ UNCHANGED <<addresses, rideTables, graph, world>>

\* The event, of a ride the copy does not know to be started the time it is
\* emitted at; awards and invoices, which come before it, are in AwardsService
\* and RideService.  No listener has begun when emit returns.
Emit(c) ==
  LET row == call[c].row
      started == IF row.started = None THEN now ELSE row.started
  IN
  /\ call[c].at = "emit"
  /\ listeners' = listeners \union
       {[leg |-> [row EXCEPT !.started = started], draws |-> TRUE,
         at |-> "mergeFrom"]}
  /\ Leave(c)
  /\ UNCHANGED <<addresses, rideTables, graph, world>>

-----------------------------------------------------------------------------
(* TransitCompletedListener and GraphTransitAnalyzer.                       *)

\* Three queries, each in a transaction of its own.  No constraint makes the
\* hash of a node unique, so two MERGEs at once may both look in vain and both
\* create: a MERGE is two steps.
NextQuery ==
  [ mergeFrom  |-> "mergeTo", createFrom |-> "mergeTo",
    mergeTo    |-> "draw",    createTo   |-> "draw" ]

Listeners ==
  [leg : Legs, draws : BOOLEAN, at : DOMAIN NextQuery \union {"draw"}]

Proceed(e, label) ==
  listeners' = (listeners \ {e}) \union {[e EXCEPT !.at = label]}

MergedHash(e) ==
  IF e.at \in {"mergeFrom", "createFrom"} THEN e.leg.from ELSE e.leg.to

MergeNode(e) ==
  /\ e.at \in {"mergeFrom", "mergeTo"}
  /\ Proceed(e, IF nodes[MergedHash(e)] > 0 THEN NextQuery[e.at]
                ELSE IF e.at = "mergeFrom" THEN "createFrom" ELSE "createTo")
  /\ UNCHANGED <<addresses, rideTables, call, graph, world>>

CreateNode(e) ==
  /\ e.at \in {"createFrom", "createTo"}
  /\ nodes' = [nodes EXCEPT ![MergedHash(e)] = @ + 1]
  /\ Proceed(e, NextQuery[e.at])
  /\ UNCHANGED <<addresses, rideTables, call, edges, world>>

NodesOf(hash) == {hash} \X (1 .. nodes[hash])

EdgeBetween(leg, from, to) ==
  [ride |-> leg.ride, client |-> leg.client, from |-> from, to |-> to,
   started |-> leg.started, completed |-> leg.completed]

\* Fault: a relationship between hashes.
EdgeBetweenHashes(leg) == {leg}

\* MATCH finds every pair of nodes, and CREATE makes a relationship for each.
NewEdges(leg) ==
  {EdgeBetween(leg, from, to) :
     from \in NodesOf(leg.from), to \in NodesOf(leg.to)}

DrawRide(e) ==
  /\ e.at = "draw"
  /\ listeners' = listeners \ {e}
  /\ edges' = edges \union IF e.draws THEN NewEdges(e.leg) ELSE {}
  /\ UNCHANGED <<addresses, rideTables, call, nodes, world>>

InvalidDates(leg) ==
  [ride |-> leg.ride, client |-> leg.client, from |-> leg.from, to |-> leg.to,
   started |-> None, completed |-> None]

\* PopulateGraphService.populate tells the graph of every completed ride, the
\* first as it happens first.  The times of a row are strings of digits (bigint
\* columns), and the Date of such a string is invalid: both nodes are merged,
\* then toISOString throws, and no ride is drawn.  Where both nodes are there
\* it changes nothing and is left out.
Populate ==
  /\ \E ride \in Rides :
       /\ Exists(ride) /\ details[ride].completed # None
       /\ 0 \in {nodes[details[ride].from], nodes[details[ride].to]}
       /\ listeners' = listeners \union
            {[leg |-> InvalidDates(details[ride]), draws |-> FALSE,
              at |-> "mergeFrom"]}
  /\ CountExtra
  /\ UNCHANGED <<addresses, rideTables, call, graph, now, orderly, crashed>>

-----------------------------------------------------------------------------
\* Requests take no time: a minute may pass between them (bound).
Tick ==
  /\ now < MaxTime
  /\ \A c \in Calls : Idle(c)
  /\ now' = now + 1
  /\ UNCHANGED <<addresses, rideTables, call, listeners, graph, extras, orderly,
                 crashed>>

\* Requests and events in memory are lost; both databases stay.
Crash ==
  /\ crashed' = TRUE
  /\ CountExtra
  /\ call' = [c \in Calls |-> NoCall]
  /\ listeners' = {}
  /\ UNCHANGED <<addresses, rideTables, graph, now, orderly>>

Init ==
  /\ addresses = {}
  /\ transits = [ride \in Rides |-> "none"]
  /\ details = [ride \in Rides |-> NoRide]
  /\ call = [c \in Calls |-> NoCall]
  /\ listeners = {}
  /\ nodes = [hash \in Hashes |-> 0]
  /\ edges = {}
  /\ now = 0
  /\ extras = 0
  /\ orderly = TRUE
  /\ crashed = FALSE

Request(c) ==
  \/ CreateTransit(c) \/ ChangeFrom(c) \/ ChangeTo(c)
  \/ StartTransit(c) \/ CompleteTransit(c)

Handle(c) ==
  \/ FindAddress(c) \/ InsertAddress(c) \/ InsertDetails(c)
  \/ CheckDemand(c) \/ CheckTransit(c) \/ InsertTransit(c)
  \/ LoadDetails(c) \/ CompleteTransitRow(c)
  \/ LoadToSave(c) \/ UpdateDetails(c) \/ Emit(c)

Listen(e) == MergeNode(e) \/ CreateNode(e) \/ DrawRide(e)

Next ==
  \/ \E c \in Calls : Request(c) \/ Handle(c)
  \/ \E e \in listeners : Listen(e)
  \/ Populate
  \/ Tick
  \/ Crash

Spec == Init /\ [][Next]_vars

\* The event loop runs every handler and listener on; clients need not call.
FairSpec ==
  /\ Spec
  /\ \A c \in Calls : WF_vars(Handle(c))
  /\ \A ride \in Rides :
       WF_vars(\E e \in listeners : e.draws /\ e.leg.ride = ride /\ Listen(e))

-----------------------------------------------------------------------------
\* Every variable keeps its type.
TypeOK ==
  /\ addresses \subseteq Hashes
  /\ transits \in [Rides -> {"none", "in_transit", "completed"}]
  /\ details \in [Rides -> Legs \union {NoRide}]
  /\ call \in [Calls -> CallStates]
  /\ listeners \subseteq Listeners
  /\ nodes \in [Hashes -> Nat]
  /\ edges \subseteq Edges
  /\ now \in Times /\ extras \in 0 .. MaxExtras
  /\ orderly \in BOOLEAN /\ crashed \in BOOLEAN

\* What the graph tells can be shown: the address of every node has a row, so
\* findByHashOrFail of the controller never throws, whatever overlaps and
\* whatever is lost in a restart.
AnswersCanBeShown == \A hash \in Hashes : nodes[hash] > 0 => hash \in addresses

CompletedRides == {ride \in Rides : Exists(ride) /\ details[ride].completed # None}

\* A completed ride as a leg, of a graph with one node of each hash.
LegOf(ride) ==
  EdgeBetween(details[ride], <<details[ride].from, 1>>, <<details[ride].to, 1>>)

Drawn(ride) == \E leg \in edges : leg.ride = ride

\* The graph answers what the completed rides would, although its listeners
\* overlap, may create a node twice and draw a ride between every two of them:
\* when every completed ride is drawn and took a minute at least, and requests
\* came one at a time.
AnswersTellRides ==
  /\ orderly
  /\ listeners = {} /\ \A c \in Calls : Idle(c)
  /\ \A ride \in CompletedRides :
       /\ Drawn(ride)
       /\ details[ride].started # None
       /\ details[ride].completed - details[ride].started >= PerMinute
  => \A client \in Clients, hash \in Hashes :
       Answers(edges, client, hash) =
         Answers({LegOf(ride) : ride \in CompletedRides}, client, hash)

\* A completed ride gets into the graph, unless the process is restarted.
EveryRideIsDrawn ==
  \A ride \in Rides : ride \in CompletedRides ~> Drawn(ride) \/ crashed
=============================================================================
