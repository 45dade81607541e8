------------------------- MODULE RideService_proofs -------------------------
(***************************************************************************)
(* Safety of RideService for any number of requests, drivers, rows and     *)
(* search rounds: with requests interleaving at every await, then with     *)
(* requests that come one at a time; and what Pricing computes.            *)
(*                                                                         *)
(* Interleaved, an UPDATE sets columns from the copy a request holds and   *)
(* leaves the others, so every row is a mixture of copies.  What matters   *)
(* of a row is therefore stated column by column (SoundFor), of the rows   *)
(* and of every copy a request holds (CopyInv), and it only ever becomes   *)
(* truer while other requests run: tables grow, histories grow.            *)
(*                                                                         *)
(* One at a time, the row a save has seen is still the row when the UPDATE *)
(* comes (Fresh), and an UPDATE writes the whole copy.  What a ride        *)
(* promises is then told by the tables and by the copy of that one         *)
(* request; each part of the ride has its own invariant, which rests on    *)
(* SerialInv and the parts before it.                                      *)
(***************************************************************************)
EXTENDS RideService, Pricing, SequenceTheorems, FiniteSetTheorems, TLAPS

-----------------------------------------------------------------------------
(* The inductive invariant                                                  *)

\* The columns of an assignment, when the drivers in accepted have accepted.
SoundFor(a, accepted) ==
  /\ a.assigned \in accepted \union {NoDriver}
  /\ a.status = "ON_THE_WAY" => accepted # {}
  /\ a.proposed \subseteq offered

TablesInv ==
  /\ \A i \in 1 .. Len(assignments) : SoundFor(assignments[i], took)
  /\ took \subseteq offered
  /\ NothingWithoutAcceptance

SearchLabels ==
  { "search", "saveProposals", "saveFailure", "updateProposals",
    "updateFailure" }

AnswerLabels == {"saveAssignment", "updateAssignment"}

\* Which endpoints reach a label.
Route(r) ==
  /\ op[r] \in TakesDriver => driver[r] \in Drivers
  /\ pc[r] \in {"insertDemand", "insertAssignment"} => op[r] = "publish"
  /\ pc[r] \in {"loadForSearch"} \union SearchLabels =>
       op[r] \in {"publish", "findDrivers"}
  /\ pc[r] \in {"loadDemand", "saveDemand", "updateDemand"} =>
       op[r] \in {"cancel", "accept", "changeFrom"}
  /\ pc[r] \in {"loadAssignment"} \union AnswerLabels =>
       op[r] \in {"cancel", "accept", "reject"}
  /\ pc[r] = "checkNotAssigned" => op[r] \in {"accept", "changeFrom"}
  /\ pc[r] = "markOccupied" => op[r] = "accept"
  /\ pc[r] \in {"checkAssigned", "insertTransit"} => op[r] = "start"
  /\ pc[r] \in {"loadTransit", "saveTransit", "updateTransit"} =>
       op[r] \in {"changeTo", "complete"}
  /\ pc[r] \in {"driverFee", "generateInvoice"} => op[r] = "complete"

\* The driver whose acceptance a request is about to save.
Taker(r) == IF op[r] = "accept" THEN {driver[r]} ELSE {}

\* The copy a request holds and the row its save saw, by where it is.
CopyInv(r) ==
  /\ pc[r] \in {"saveDemand", "updateDemand"} =>
       img[r] \in Demand /\ row[r] \in 1 .. Len(demands)
  /\ pc[r] \in SearchLabels \union AnswerLabels =>
       /\ img[r] \in Assignment
       /\ row[r] \in 1 .. Len(assignments)
       /\ SoundFor(img[r], took \union Taker(r))
       /\ Taker(r) \subseteq offered
  /\ pc[r] \in {"saveTransit", "updateTransit"} =>
       img[r] \in Transit /\ row[r] \in 1 .. Len(transits)
  /\ /\ op[r] = "complete"
     /\ pc[r] \in {"saveTransit", "updateTransit", "driverFee", "loadDetails"}
     => img[r] \in Transit /\ img[r].km \in MapDistances
  /\ pc[r] \in {"saveDetails", "updateDetails"} => img[r] \in Details

CallInv(r) ==
  /\ Route(r)
  /\ CopyInv(r)
  /\ pc[r] = "insertTransit" => took # {}
  /\ /\ op[r] = "complete"
     /\ pc[r] \in {"saveTransit", "updateTransit", "driverFee", "loadDetails",
                   "saveDetails", "updateDetails", "generateInvoice"}
     => transits # <<>>

IInv == TypeOK /\ TablesInv /\ \A r \in Requests : CallInv(r)

-----------------------------------------------------------------------------
(* The methods of the entities                                              *)

\* An UPDATE takes every column of a row from the row or from the copy saved.
LEMMA UpdatedRow ==
  /\ \A m \in Demand, x \in Demand : \A y : Updated(m, y, x) \in Demand
  /\ \A t \in Transit, x \in Transit : \A y : Updated(t, y, x) \in Transit
  /\ \A t \in Details, x \in Details : \A y : Updated(t, y, x) \in Details
BY DEF Updated, ArrayColumns, Demand, Transit, Details

LEMMA UpdatedAssignment ==
  ASSUME NEW a \in Assignment, NEW x \in Assignment, NEW y
  PROVE  /\ Updated(a, y, x) \in Assignment
         /\ Updated(a, y, x).status \in {a.status, x.status}
         /\ Updated(a, y, x).assigned \in {a.assigned, x.assigned}
         /\ Updated(a, y, x).proposed = x.proposed
BY DEF Updated, ArrayColumns, Assignment

\* Writing the counter of awaited answers touches nothing else.
LEMMA AwaitingUpdate ==
  ASSUME NEW a \in Assignment, NEW n \in Int
  PROVE  LET b == [a EXCEPT !.awaiting = n] IN
         /\ b \in Assignment
         /\ b.status = a.status /\ b.assigned = a.assigned
         /\ b.proposed = a.proposed /\ b.rejected = a.rejected
BY DEF Assignment

\* cancel, failDriverAssignment and acceptBy write the same three columns.
LEMMA SettlingUpdate ==
  ASSUME NEW a \in Assignment, NEW s \in AssignmentStatus,
         NEW d \in Drivers \union {NoDriver}
  PROVE  LET b == [a EXCEPT !.status = s, !.assigned = d, !.awaiting = 0] IN
         /\ b \in Assignment
         /\ b.status = s /\ b.assigned = d
         /\ b.proposed = a.proposed /\ b.rejected = a.rejected
<1>. DEFINE b == [a EXCEPT !.status = s, !.assigned = d]
<1>1. /\ b \in Assignment
      /\ b.status = s /\ b.assigned = d
      /\ b.proposed = a.proposed /\ b.rejected = a.rejected
  BY DEF Assignment
<1>2. [a EXCEPT !.status = s, !.assigned = d, !.awaiting = 0]
        = [b EXCEPT !.awaiting = 0]
  OBVIOUS
<1>. HIDE DEF b
<1>. QED
  BY <1>1, <1>2, AwaitingUpdate

\* acceptBy in particular.
LEMMA AcceptingUpdate ==
  ASSUME NEW a \in Assignment, NEW d \in Drivers
  PROVE  /\ AcceptedBy(a, d) \in Assignment
         /\ AcceptedBy(a, d).status = "ON_THE_WAY"
         /\ AcceptedBy(a, d).assigned = d
         /\ AcceptedBy(a, d).proposed = a.proposed
<1>. DEFINE b == [a EXCEPT !.status = "ON_THE_WAY", !.assigned = d]
<1>1. /\ b \in Assignment
      /\ b.status = "ON_THE_WAY" /\ b.assigned = d
      /\ b.proposed = a.proposed
  BY DEF Assignment, AssignmentStatus
<1>2. AcceptedBy(a, d) = [b EXCEPT !.awaiting = 0]
  BY DEF AcceptedBy
<1>. HIDE DEF b
<1>. QED
  BY <1>1, <1>2, AwaitingUpdate

\* rejectBy writes the rejections and the counter.
LEMMA RejectingUpdate ==
  ASSUME NEW a \in Assignment, NEW d \in Drivers
  PROVE  /\ RejectedBy(a, d) \in Assignment
         /\ RejectedBy(a, d).status = a.status
         /\ RejectedBy(a, d).assigned = a.assigned
         /\ RejectedBy(a, d).proposed = a.proposed
<1>. DEFINE b == [a EXCEPT !.rejected = @ \union {d}]
<1>1. /\ b \in Assignment
      /\ b.status = a.status /\ b.assigned = a.assigned
      /\ b.proposed = a.proposed
      /\ a.awaiting - 1 \in Int
  BY DEF Assignment
<1>2. RejectedBy(a, d) = [b EXCEPT !.awaiting = a.awaiting - 1]
  BY DEF RejectedBy, Assignment
<1>. HIDE DEF b
<1>. QED
  BY <1>1, <1>2, AwaitingUpdate

\* proposeTo, for every position found, writes the proposals and the counter.
LEMMA ProposingUpdate ==
  ASSUME NEW a \in Assignment, NEW found \in SUBSET Drivers, NEW n \in Int
  PROVE  /\ ProposedTo(a, found, n) \in Assignment
         /\ ProposedTo(a, found, n).status = a.status
         /\ ProposedTo(a, found, n).assigned = a.assigned
         /\ ProposedTo(a, found, n).proposed
              = a.proposed \union (found \ a.rejected)
<1>. DEFINE b == [a EXCEPT !.proposed = @ \union (found \ a.rejected)]
<1>1. /\ b \in Assignment
      /\ b.status = a.status /\ b.assigned = a.assigned
      /\ b.proposed = a.proposed \union (found \ a.rejected)
      /\ a.awaiting + n \in Int
  BY DEF Assignment
<1>2. ProposedTo(a, found, n) = [b EXCEPT !.awaiting = a.awaiting + n]
  BY DEF ProposedTo, Assignment
<1>. HIDE DEF b
<1>. QED
  BY <1>1, <1>2, AwaitingUpdate

\* Every method of DriverAssignment keeps the shape of the row and its columns
\* sound; acceptBy for the driver who accepts as well.
LEMMA SettlingMethods ==
  ASSUME NEW a \in Assignment, NEW acc, SoundFor(a, acc)
  PROVE  /\ CancelledAssignment(a) \in Assignment
         /\ SoundFor(CancelledAssignment(a), acc)
         /\ FailedAssignment(a) \in Assignment
         /\ SoundFor(FailedAssignment(a), acc)
<1>. USE EntityAssumption DEF AssignmentStatus, SoundFor
<1>1. CancelledAssignment(a) \in Assignment /\ SoundFor(CancelledAssignment(a), acc)
  BY SettlingUpdate, ZenonT(40) DEF CancelledAssignment
<1>2. FailedAssignment(a) \in Assignment /\ SoundFor(FailedAssignment(a), acc)
  BY SettlingUpdate, ZenonT(40) DEF FailedAssignment
<1>. QED
  BY <1>1, <1>2

LEMMA AssignmentMethods ==
  ASSUME NEW a \in Assignment, NEW acc, SoundFor(a, acc), NEW d \in Drivers
  PROVE  /\ RejectedBy(a, d) \in Assignment /\ SoundFor(RejectedBy(a, d), acc)
         /\ AcceptedBy(a, d) \in Assignment
         /\ SoundFor(AcceptedBy(a, d), acc \union {d})
         /\ CanAcceptBy(a, d) => d \in offered
<1>1. RejectedBy(a, d) \in Assignment /\ SoundFor(RejectedBy(a, d), acc)
  BY RejectingUpdate DEF SoundFor
<1>2. /\ AcceptedBy(a, d) \in Assignment
      /\ SoundFor(AcceptedBy(a, d), acc \union {d})
  BY AcceptingUpdate DEF SoundFor
<1>3. CanAcceptBy(a, d) => d \in offered
  BY DEF SoundFor, CanAcceptBy
<1>. QED
  BY <1>1, <1>2, <1>3

\* The methods of the other three entities keep the shape of their rows.
LEMMA OtherMethods ==
  /\ NewDemand \in Demand
  /\ \A m \in Demand : /\ PickupChanged(m) \in Demand
                       /\ AcceptedDemand(m) \in Demand
                       /\ CancelledDemand(m) \in Demand
  /\ NewTransit \in Transit
  /\ \A t \in Transit, km \in MapDistances :
       /\ CompletedAt(t, km) \in Transit /\ CompletedAt(t, km).km = km
       /\ DestinationChanged(t, km) \in Transit
       /\ DestinationChanged(t, km).km = km
  /\ NewAssignment \in Assignment /\ SoundFor(NewAssignment, {})
<1>1. /\ NewDemand \in Demand
      /\ \A m \in Demand : /\ PickupChanged(m) \in Demand
                           /\ AcceptedDemand(m) \in Demand
                           /\ CancelledDemand(m) \in Demand
  BY DEF NewDemand, Demand, PickupChanged, AcceptedDemand, CancelledDemand
<1>2. /\ NewTransit \in Transit
      /\ \A t \in Transit, km \in MapDistances :
           /\ CompletedAt(t, km) \in Transit /\ CompletedAt(t, km).km = km
           /\ DestinationChanged(t, km) \in Transit
           /\ DestinationChanged(t, km).km = km
  BY DEF NewTransit, Transit, CompletedAt, DestinationChanged
<1>3. NewAssignment \in Assignment /\ SoundFor(NewAssignment, {})
  BY EntityAssumption DEF NewAssignment, Assignment, AssignmentStatus, SoundFor
<1>. QED
  BY <1>1, <1>2, <1>3

\* So do the methods of TransitDetails, for any request that calls them.
LEMMA DetailsMethods ==
  ASSUME NEW r \in Requests, NEW t \in Details, CallInv(r),
         At(r, "loadDetails"), NEW u \in ChangedDetails(r, t)
  PROVE  u \in Details
<1>. USE DEF Details, TransitStatus
<1>1. op[r] = "accept" => driver[r] \in Drivers
  BY DEF CallInv, Route, TakesDriver
<1>2. op[r] = "complete" => img[r].km \in MapDistances
  BY DEF CallInv, CopyInv, At
<1>. QED
  BY <1>1, <1>2, ZenonT(60) DEF ChangedDetails, Endpoints, DetailsPublished,
     DetailsAccepted, DetailsStarted, DetailsCancelled, DetailsCompleted,
     DetailsPickupChanged, DetailsDestinationChanged, DetailsDriversInvolved

-----------------------------------------------------------------------------
(* Requests that do not move                                                *)

\* What CallInv says of a request survives a step of another one, because
\* rows are only added and histories only grow.
LEMMA OtherCalls ==
  ASSUME NEW q \in Requests, CallInv(q),
         pc'[q] = pc[q], op'[q] = op[q], driver'[q] = driver[q],
         row'[q] = row[q], img'[q] = img[q],
         Len(demands) \in Nat, Len(demands') \in Nat,
         Len(assignments) \in Nat, Len(assignments') \in Nat,
         Len(transits) \in Nat, Len(transits') \in Nat,
         Len(demands) <= Len(demands'),
         Len(assignments) <= Len(assignments'),
         Len(transits) <= Len(transits'),
         transits # <<>> => transits' # <<>>,
         offered \subseteq offered', took \subseteq took'
  PROVE  CallInv(q)'
<1>1. Route(q)'
  BY DEF CallInv, Route
<1>2. Taker(q)' = Taker(q)
  BY DEF Taker
<1>3. SoundFor(img[q], took \union Taker(q)) => SoundFor(img[q], took \union Taker(q))'
  BY <1>2 DEF SoundFor
<1>4. /\ row[q] \in 1 .. Len(demands) => row[q] \in 1 .. Len(demands')
      /\ row[q] \in 1 .. Len(assignments) => row[q] \in 1 .. Len(assignments')
      /\ row[q] \in 1 .. Len(transits) => row[q] \in 1 .. Len(transits')
  OBVIOUS
<1>5. CopyInv(q)'
  BY <1>2, <1>3, <1>4 DEF CallInv, CopyInv
<1>. QED
  BY <1>1, <1>5 DEF CallInv
-----------------------------------------------------------------------------
(* The moves of a request                                                   *)

\* Nothing a request other than r holds changes.
OnlyMoves(r) ==
  \A q \in Requests \ {r} :
    /\ pc'[q] = pc[q] /\ op'[q] = op[q] /\ driver'[q] = driver[q]
    /\ row'[q] = row[q] /\ img'[q] = img[q] /\ seen'[q] = seen[q]

\* A request goes on with what it holds.
LEMMA GotoMove ==
  ASSUME CallsTypeOK, NEW r \in Requests, NEW label \in Labels,
         Goto(r, label), UNCHANGED locals
  PROVE  /\ CallsTypeOK' /\ OnlyMoves(r)
         /\ pc'[r] = label /\ op'[r] = op[r] /\ driver'[r] = driver[r]
         /\ row'[r] = row[r] /\ img'[r] = img[r]
BY DEF CallsTypeOK, Goto, locals, OnlyMoves

\* A request takes a copy of a row.
LEMMA HoldMove ==
  ASSUME CallsTypeOK, NEW r \in Requests, NEW label \in Labels,
         NEW i \in Nat, NEW x \in Copies, Hold(r, i, x, label)
  PROVE  /\ CallsTypeOK' /\ OnlyMoves(r)
         /\ pc'[r] = label /\ op'[r] = op[r] /\ driver'[r] = driver[r]
         /\ row'[r] = i /\ img'[r] = x
BY DEF CallsTypeOK, Hold, Goto, OnlyMoves

\* A request goes on after a save.
LEMMA AfterSaveMove ==
  ASSUME CallsTypeOK, NEW r \in Requests, NEW label \in Labels,
         GotoAfterSave(r, label)
  PROVE  /\ CallsTypeOK' /\ OnlyMoves(r)
         /\ pc'[r] = label /\ op'[r] = op[r] /\ driver'[r] = driver[r]
         /\ row'[r] = row[r] /\ img'[r] = img[r]
BY DEF CallsTypeOK, GotoAfterSave, Goto, OnlyMoves

\* A request is answered.
LEMMA FinishMove ==
  ASSUME CallsTypeOK, NEW r \in Requests, Finish(r)
  PROVE  CallsTypeOK' /\ OnlyMoves(r) /\ CallInv(r)'
<1>1. CallsTypeOK' /\ OnlyMoves(r) /\ pc'[r] = "answered" /\ op'[r] = "none"
  BY ServiceAssumption DEF CallsTypeOK, Finish, OnlyMoves, Labels
<1>. QED
  BY <1>1 DEF CallInv, Route, CopyInv, SearchLabels, AnswerLabels, Taker,
     TakesDriver

\* A step that saves nothing needs to be right about its own request only.
LEMMA LocalStep ==
  ASSUME IInv, NEW r \in Requests, UNCHANGED <<tables, history>>,
         CallsTypeOK', OnlyMoves(r), CallInv(r)'
  PROVE  IInv'
<1>1. TypeOK'
  BY DEF IInv, TypeOK, RowsTypeOK, HistoryTypeOK, tables, history
<1>2. TablesInv'
  BY DEF IInv, TablesInv, tables, history, SoundFor,
         NothingWithoutAcceptance
<1>3. ASSUME NEW q \in Requests \ {r}
      PROVE  CallInv(q)'
  <2>1. /\ CallInv(q)
        /\ Len(demands) \in Nat /\ Len(assignments) \in Nat
        /\ Len(transits) \in Nat
    BY LenProperties DEF IInv, TypeOK, RowsTypeOK
  <2>. QED
    BY <2>1, OtherCalls DEF OnlyMoves, tables, history
<1>. QED
  BY <1>1, <1>2, <1>3 DEF IInv

\* An exception changes nothing but the request it ends.
LEMMA ThrowStep ==
  ASSUME IInv, NEW r \in Requests, Throw(r)
  PROVE  IInv'
<1>1. Finish(r) /\ UNCHANGED <<tables, history>>
  BY DEF Throw
<1>2. CallsTypeOK
  BY DEF IInv, TypeOK
<1>3. CallsTypeOK' /\ OnlyMoves(r) /\ CallInv(r)'
  BY <1>1, <1>2, FinishMove
<1>. QED
  BY <1>1, <1>3, LocalStep
-----------------------------------------------------------------------------
(* The steps that save nothing                                              *)

\* What a request relies on where it stands, unfolded.
LEMMA CallFacts ==
  ASSUME IInv, NEW r \in Requests
  PROVE  /\ RowsTypeOK /\ CallsTypeOK /\ HistoryTypeOK /\ TablesInv
         /\ Route(r) /\ CopyInv(r) /\ CallInv(r)
         /\ DOMAIN demands = 1 .. Len(demands)
         /\ DOMAIN assignments = 1 .. Len(assignments)
         /\ DOMAIN transits = 1 .. Len(transits)
         /\ Len(demands) \in Nat /\ Len(assignments) \in Nat
         /\ Len(transits) \in Nat
         /\ transits # <<>> <=> Len(transits) # 0
BY LenProperties, EmptySeq DEF IInv, TypeOK, RowsTypeOK, CallInv

LEMMA RowFacts ==
  ASSUME IInv
  PROVE  /\ \A i \in DOMAIN demands : demands[i] \in Demand /\ i \in Nat
         /\ \A i \in DOMAIN assignments :
              /\ assignments[i] \in Assignment /\ i \in Nat
              /\ SoundFor(assignments[i], took)
         /\ \A i \in DOMAIN transits : transits[i] \in Transit /\ i \in Nat
<1>1. /\ DOMAIN demands = 1 .. Len(demands) /\ Len(demands) \in Nat
      /\ DOMAIN assignments = 1 .. Len(assignments) /\ Len(assignments) \in Nat
      /\ DOMAIN transits = 1 .. Len(transits) /\ Len(transits) \in Nat
      /\ demands \in Seq(Demand) /\ assignments \in Seq(Assignment)
      /\ transits \in Seq(Transit)
  BY LenProperties DEF IInv, TypeOK, RowsTypeOK
<1>2. \A i \in DOMAIN demands : demands[i] \in Demand /\ i \in Nat
  BY <1>1, ElementOfSeq
<1>3. \A i \in DOMAIN transits : transits[i] \in Transit /\ i \in Nat
  BY <1>1, ElementOfSeq
<1>4. \A i \in DOMAIN assignments : assignments[i] \in Assignment /\ i \in Nat
  BY <1>1, ElementOfSeq
<1>5. \A i \in DOMAIN assignments : SoundFor(assignments[i], took)
  BY <1>1 DEF IInv, TablesInv
<1>. QED
  BY <1>2, <1>3, <1>4, <1>5

\* A copy of a demand is held until it is saved.
LEMMA HoldDemand ==
  ASSUME IInv, NEW r \in Requests, NEW i \in DOMAIN demands, NEW x \in Demand,
         op[r] \in {"cancel", "accept", "changeFrom"},
         Hold(r, i, x, "saveDemand"), UNCHANGED <<tables, history>>
  PROVE  IInv'
<1>1. i \in Nat /\ x \in Copies /\ CallsTypeOK /\ "saveDemand" \in Labels
  BY RowFacts DEF IInv, TypeOK, Copies, Labels
<1>2. /\ CallsTypeOK' /\ OnlyMoves(r)
      /\ pc'[r] = "saveDemand" /\ op'[r] = op[r] /\ driver'[r] = driver[r]
      /\ row'[r] = i /\ img'[r] = x
  BY <1>1, HoldMove
<1>3. CallInv(r)'
  BY <1>2, CallFacts
     DEF CallInv, Route, CopyInv, SearchLabels, AnswerLabels, Taker, tables
<1>. QED
  BY <1>2, <1>3, LocalStep

\* So is a copy of a transit.
LEMMA HoldTransit ==
  ASSUME IInv, NEW r \in Requests, NEW i \in DOMAIN transits, NEW x \in Transit,
         op[r] \in {"changeTo", "complete"}, x.km \in MapDistances,
         Hold(r, i, x, "saveTransit"), UNCHANGED <<tables, history>>
  PROVE  IInv'
<1>1. i \in Nat /\ x \in Copies /\ CallsTypeOK /\ "saveTransit" \in Labels
  BY RowFacts DEF IInv, TypeOK, Copies, Labels
<1>2. /\ CallsTypeOK' /\ OnlyMoves(r)
      /\ pc'[r] = "saveTransit" /\ op'[r] = op[r] /\ driver'[r] = driver[r]
      /\ row'[r] = i /\ img'[r] = x
  BY <1>1, HoldMove
<1>3. transits' # <<>>
  BY CallFacts DEF tables
<1>4. CallInv(r)'
  BY <1>2, <1>3, CallFacts
     DEF CallInv, Route, CopyInv, SearchLabels, AnswerLabels, Taker, tables
<1>. QED
  BY <1>2, <1>4, LocalStep

\* And a copy of an assignment, sound for those who accepted and the request.
LEMMA HoldAssignment ==
  ASSUME IInv, NEW r \in Requests, NEW i \in DOMAIN assignments,
         NEW x \in Assignment, SoundFor(x, took \union Taker(r)),
         Taker(r) \subseteq offered, op[r] \in {"cancel", "accept", "reject"},
         Hold(r, i, x, "saveAssignment"), UNCHANGED <<tables, history>>
  PROVE  IInv'
<1>1. i \in Nat /\ x \in Copies /\ CallsTypeOK /\ "saveAssignment" \in Labels
  BY RowFacts DEF IInv, TypeOK, Copies, Labels
<1>2. /\ CallsTypeOK' /\ OnlyMoves(r)
      /\ pc'[r] = "saveAssignment" /\ op'[r] = op[r] /\ driver'[r] = driver[r]
      /\ row'[r] = i /\ img'[r] = x
  BY <1>1, HoldMove
<1>3. /\ Taker(r)' = Taker(r) /\ offered' = offered
      /\ SoundFor(x, took \union Taker(r))'
      /\ Len(assignments') = Len(assignments)
  BY <1>2 DEF Taker, SoundFor, history, tables
<1>4. Route(r)'
  BY <1>2, CallFacts DEF Route, SearchLabels, AnswerLabels
<1>5. CopyInv(r)'
  BY <1>2, <1>3, CallFacts DEF CopyInv, SearchLabels, AnswerLabels
<1>6. CallInv(r)'
  BY <1>2, <1>4, <1>5 DEF CallInv
<1>. QED
  BY <1>2, <1>6, LocalStep

\* Going on without a copy to one of these labels asks for nothing more.
LEMMA GoOn ==
  ASSUME IInv, NEW r \in Requests, NEW label \in Labels,
         Goto(r, label), UNCHANGED <<tables, locals, history>>,
         \/ label = "loadDemand" /\ op[r] \in {"accept", "changeFrom"}
         \/ label = "loadAssignment" /\ op[r] \in {"cancel", "accept"}
         \/ label = "loadDetails" /\ op[r] # "complete"
         \/ label = "insertTransit" /\ op[r] = "start" /\ took # {}
  PROVE  IInv'
<1>1. /\ CallsTypeOK' /\ OnlyMoves(r)
      /\ pc'[r] = label /\ op'[r] = op[r] /\ driver'[r] = driver[r]
      /\ row'[r] = row[r] /\ img'[r] = img[r]
  BY CallFacts, GotoMove
<1>2. CallInv(r)'
  BY <1>1, CallFacts
     DEF CallInv, Route, CopyInv, SearchLabels, AnswerLabels, Taker, history
<1>. QED
  BY <1>1, <1>2, LocalStep
LEMMA DemandReads ==
  ASSUME IInv, NEW r \in Requests,
         NoDemand(r) \/ CancelDemand(r) \/ AcceptDemand(r) \/ ChangePickup(r)
  PROVE  IInv'
<1>1. CASE NoDemand(r)
  BY <1>1, GoOn DEF NoDemand, Labels
<1>2. CASE CancelDemand(r)
  <2>1. PICK i \in DOMAIN demands :
          \/ /\ Hold(r, i, CancelledDemand(demands[i]), "saveDemand")
             /\ UNCHANGED <<tables, history>>
          \/ Throw(r)
    BY <1>2 DEF CancelDemand
  <2>2. CancelledDemand(demands[i]) \in Demand /\ op[r] = "cancel"
    BY <1>2, RowFacts, OtherMethods DEF CancelDemand
  <2>. QED
    BY <2>1, <2>2, HoldDemand, ThrowStep
<1>3. CASE AcceptDemand(r)
  <2>1. PICK i \in DOMAIN demands :
          Hold(r, i, AcceptedDemand(demands[i]), "saveDemand")
    BY <1>3 DEF AcceptDemand
  <2>2. /\ AcceptedDemand(demands[i]) \in Demand /\ op[r] = "accept"
        /\ UNCHANGED <<tables, history>>
    BY <1>3, RowFacts, OtherMethods DEF AcceptDemand
  <2>. QED
    BY <2>1, <2>2, HoldDemand
<1>4. CASE ChangePickup(r)
  <2>1. CASE demands = <<>> /\ Throw(r)
    BY <2>1, ThrowStep
  <2>2. CASE demands # <<>> \/ ~Throw(r)
    <3>1. PICK i \in DOMAIN demands :
            \/ /\ Hold(r, i, PickupChanged(demands[i]), "saveDemand")
               /\ UNCHANGED <<tables, history>>
            \/ Throw(r)
      BY <1>4, <2>2 DEF ChangePickup
    <3>2. PickupChanged(demands[i]) \in Demand /\ op[r] = "changeFrom"
      BY <1>4, RowFacts, OtherMethods DEF ChangePickup
    <3>. QED
      BY <3>1, <3>2, HoldDemand, ThrowStep
  <2>. QED
    BY <2>1, <2>2
<1>. QED
  BY <1>1, <1>2, <1>3, <1>4

LEMMA Checks ==
  ASSUME IInv, NEW r \in Requests, CheckNotAssigned(r) \/ CheckAssigned(r)
  PROVE  IInv'
<1>1. CASE CheckNotAssigned(r)
  <2>1. op[r] \in {"accept", "changeFrom"}
    BY <1>1, CallFacts DEF CheckNotAssigned, At, Route
  <2>. QED
    BY <1>1, <2>1, GoOn, ThrowStep DEF CheckNotAssigned, Labels
<1>2. CASE CheckAssigned(r)
  <2>1. op[r] = "start" /\ (DriverAssigned => took # {})
    BY <1>2, CallFacts, RowFacts
       DEF CheckAssigned, At, Route, DriverAssigned, SoundFor
  <2>. QED
    BY <1>2, <2>1, GoOn, ThrowStep DEF CheckAssigned, Labels
<1>. QED
  BY <1>1, <1>2

LEMMA AssignmentReads ==
  ASSUME IInv, NEW r \in Requests,
         \/ NoAssignment(r) \/ CancelAssignment(r)
         \/ AcceptAssignment(r) \/ RejectAssignment(r)
  PROVE  IInv'
<1>1. CASE NoAssignment(r)
  BY <1>1, GoOn, ThrowStep DEF NoAssignment, Labels
<1>2. CASE CancelAssignment(r)
  <2>1. PICK i \in DOMAIN assignments :
          \/ /\ Hold(r, i, CancelledAssignment(assignments[i]), "saveAssignment")
             /\ UNCHANGED <<tables, history>>
          \/ Throw(r)
    BY <1>2 DEF CancelAssignment
  <2>2. op[r] = "cancel" /\ Taker(r) = {}
    BY <1>2 DEF CancelAssignment, Taker
  <2>3. /\ CancelledAssignment(assignments[i]) \in Assignment
        /\ SoundFor(CancelledAssignment(assignments[i]), took \union Taker(r))
    BY <2>2, RowFacts, SettlingMethods, took \union {} = took
  <2>. QED
    BY <2>1, <2>2, <2>3, HoldAssignment, ThrowStep
<1>3. CASE AcceptAssignment(r)
  <2>1. PICK i \in DOMAIN assignments :
          \/ /\ CanAcceptBy(assignments[i], driver[r])
             /\ Hold(r, i, AcceptedBy(assignments[i], driver[r]),
                     "saveAssignment")
             /\ UNCHANGED <<tables, history>>
          \/ Throw(r)
    BY <1>3 DEF AcceptAssignment
  <2>2. /\ op[r] = "accept" /\ driver[r] \in Drivers
        /\ Taker(r) = {driver[r]}
    BY <1>3, CallFacts DEF AcceptAssignment, Route, TakesDriver, Taker
  <2>3. /\ AcceptedBy(assignments[i], driver[r]) \in Assignment
        /\ SoundFor(AcceptedBy(assignments[i], driver[r]), took \union Taker(r))
        /\ CanAcceptBy(assignments[i], driver[r]) => Taker(r) \subseteq offered
    BY <2>2, RowFacts, AssignmentMethods
  <2>. QED
    BY <2>1, <2>2, <2>3, HoldAssignment, ThrowStep
<1>4. CASE RejectAssignment(r)
  <2>1. PICK i \in DOMAIN assignments :
          Hold(r, i, RejectedBy(assignments[i], driver[r]), "saveAssignment")
    BY <1>4 DEF RejectAssignment
  <2>2. /\ op[r] = "reject" /\ driver[r] \in Drivers
        /\ Taker(r) = {} /\ UNCHANGED <<tables, history>>
    BY <1>4, CallFacts DEF RejectAssignment, Route, TakesDriver, Taker
  <2>3. /\ RejectedBy(assignments[i], driver[r]) \in Assignment
        /\ SoundFor(RejectedBy(assignments[i], driver[r]), took \union Taker(r))
    BY <2>2, RowFacts, AssignmentMethods, took \union {} = took
  <2>. QED
    BY <2>1, <2>2, <2>3, HoldAssignment
<1>. QED
  BY <1>1, <1>2, <1>3, <1>4

LEMMA TransitReads ==
  ASSUME IInv, NEW r \in Requests,
         NoTransit(r) \/ ChangeDestination(r) \/ CompleteTransit(r)
  PROVE  IInv'
<1>1. CASE NoTransit(r)
  BY <1>1, GoOn, ThrowStep DEF NoTransit, Labels
<1>2. CASE ChangeDestination(r)
  <2>1. PICK i \in DOMAIN transits, km \in MapDistances :
          \/ /\ Hold(r, i, DestinationChanged(transits[i], km), "saveTransit")
             /\ UNCHANGED <<tables, history>>
          \/ Throw(r)
    BY <1>2 DEF ChangeDestination
  <2>2. /\ DestinationChanged(transits[i], km) \in Transit
        /\ DestinationChanged(transits[i], km).km \in MapDistances
        /\ op[r] = "changeTo"
    BY <1>2, RowFacts, OtherMethods DEF ChangeDestination
  <2>. QED
    BY <2>1, <2>2, HoldTransit, ThrowStep
<1>3. CASE CompleteTransit(r)
  <2>1. PICK i \in DOMAIN transits, km \in MapDistances :
          \/ /\ Hold(r, i, CompletedAt(transits[i], km), "saveTransit")
             /\ UNCHANGED <<tables, history>>
          \/ Throw(r)
    BY <1>3 DEF CompleteTransit
  <2>2. /\ CompletedAt(transits[i], km) \in Transit
        /\ CompletedAt(transits[i], km).km \in MapDistances
        /\ op[r] = "complete"
    BY <1>3, RowFacts, OtherMethods DEF CompleteTransit
  <2>. QED
    BY <2>1, <2>2, HoldTransit, ThrowStep
<1>. QED
  BY <1>1, <1>2, <1>3
-----------------------------------------------------------------------------
(* The search for drivers                                                   *)

LEMMA SearchStarts ==
  ASSUME IInv, NEW r \in Requests, LoadForSearch(r)
  PROVE  IInv'
<1>1. CASE Throw(r)
  BY <1>1, ThrowStep
<1>2. CASE ~Throw(r)
  <2>1. PICK i \in DOMAIN assignments : Hold(r, i, assignments[i], "search")
    BY <1>2 DEF LoadForSearch
  <2>2. op[r] \in {"publish", "findDrivers"} /\ UNCHANGED <<tables, history>>
    BY <1>2, CallFacts DEF LoadForSearch, At, Route
  <2>3. /\ i \in Nat /\ assignments[i] \in Copies /\ CallsTypeOK
        /\ "search" \in Labels
    BY RowFacts, CallFacts DEF Copies, Labels
  <2>4. /\ CallsTypeOK' /\ OnlyMoves(r)
        /\ pc'[r] = "search" /\ op'[r] = op[r] /\ driver'[r] = driver[r]
        /\ row'[r] = i /\ img'[r] = assignments[i]
    BY <2>1, <2>3, HoldMove
  <2>5. /\ Taker(r)' = {} /\ took' = took
        /\ \A a : SoundFor(a, took) => SoundFor(a, took)'
    BY <2>2, <2>4 DEF Taker, SoundFor, history
  <2>6. CallInv(r)'
    BY <2>2, <2>4, <2>5, CallFacts, RowFacts
       DEF CallInv, Route, CopyInv, SearchLabels, AnswerLabels, tables, TakesDriver
  <2>. QED
    BY <2>2, <2>4, <2>6, LocalStep
<1>. QED
  BY <1>1, <1>2

LEMMA SearchStops ==
  ASSUME IInv, NEW r \in Requests, StopSearch(r)
  PROVE  IInv'
<1>1. /\ pc[r] = "search" /\ op[r] \in {"publish", "findDrivers"}
      /\ UNCHANGED <<tables, history, op, driver, row, img, seen>>
      /\ pc' = [pc EXCEPT ![r] = "loadDetails"]
      /\ round' = [round EXCEPT ![r] = 0]
  BY CallFacts DEF StopSearch, At, Goto, Route, SearchLabels
<1>2. /\ CallsTypeOK' /\ OnlyMoves(r)
      /\ pc'[r] = "loadDetails" /\ op'[r] = op[r]
  BY <1>1, CallFacts, ServiceAssumption DEF CallsTypeOK, OnlyMoves, Labels
<1>3. CallInv(r)'
  BY <1>1, <1>2 DEF CallInv, Route, CopyInv, SearchLabels, AnswerLabels,
     Taker, TakesDriver
<1>. QED
  BY <1>1, <1>2, <1>3, LocalStep

LEMMA SearchGivesUp ==
  ASSUME IInv, NEW r \in Requests, GiveUpSearch(r)
  PROVE  IInv'
<1>1. /\ pc[r] = "search" /\ op[r] \in {"publish", "findDrivers"}
      /\ UNCHANGED <<tables, history, op, driver, row, seen>>
      /\ pc' = [pc EXCEPT ![r] = "saveFailure"]
      /\ img' = [img EXCEPT ![r] = FailedAssignment(img[r])]
      /\ round' = [round EXCEPT ![r] = 0]
  BY CallFacts DEF GiveUpSearch, At, Goto, Route, SearchLabels
<1>2. /\ img[r] \in Assignment /\ SoundFor(img[r], took)
      /\ row[r] \in 1 .. Len(assignments)
  BY <1>1, CallFacts, took \union {} = took DEF CopyInv, SearchLabels, Taker
<1>3. PICK x \in Assignment :
        /\ x = FailedAssignment(img[r])
        /\ SoundFor(x, took)
  BY <1>2, SettlingMethods
<1>4. /\ CallsTypeOK' /\ OnlyMoves(r)
      /\ pc'[r] = "saveFailure" /\ op'[r] = op[r] /\ img'[r] = x
      /\ row'[r] = row[r]
  BY <1>1, <1>3, CallFacts, ServiceAssumption
     DEF CallsTypeOK, OnlyMoves, Labels, Copies
<1>5. SoundFor(x, took)' /\ Taker(r)' = {} /\ took' \union {} = took'
  BY <1>1, <1>3, <1>4 DEF SoundFor, history, Taker
<1>6. CallInv(r)'
  BY <1>1, <1>2, <1>3, <1>4, <1>5
     DEF CallInv, Route, CopyInv, SearchLabels, AnswerLabels, Taker, TakesDriver, tables
<1>. QED
  BY <1>1, <1>4, <1>6, LocalStep

\* A step that adds to the tables or the histories.
LEMMA GrowingStep ==
  ASSUME IInv, NEW r \in Requests, RowsTypeOK', HistoryTypeOK', TablesInv',
         CallsTypeOK', OnlyMoves(r), CallInv(r)',
         Len(demands) <= Len(demands'),
         Len(assignments) <= Len(assignments'),
         Len(transits) <= Len(transits'),
         offered \subseteq offered', took \subseteq took'
  PROVE  IInv'
<1>1. /\ Len(demands') \in Nat /\ Len(assignments') \in Nat
      /\ Len(transits') \in Nat
      /\ transits' # <<>> <=> Len(transits') # 0
  BY LenProperties, EmptySeq DEF RowsTypeOK
<1>2. ASSUME NEW q \in Requests \ {r}
      PROVE  CallInv(q)'
  <2>1. /\ CallInv(q)
        /\ Len(demands) \in Nat /\ Len(assignments) \in Nat
        /\ Len(transits) \in Nat
        /\ transits # <<>> <=> Len(transits) # 0
    BY CallFacts
  <2>2. transits # <<>> => transits' # <<>>
    BY <1>1, <2>1
  <2>. QED
    BY <1>1, <2>1, <2>2, OtherCalls DEF OnlyMoves
<1>. QED
  BY <1>2 DEF IInv, TypeOK

LEMMA SearchGoesOn ==
  ASSUME IInv, NEW r \in Requests, SearchRound(r)
  PROVE  IInv'
<1>1. /\ pc[r] = "search" /\ op[r] \in {"publish", "findDrivers"}
      /\ round[r] < MaxDistance
      /\ UNCHANGED <<tables, op, driver, row, seen, took, pickups>>
      /\ round' = [round EXCEPT ![r] = round[r] + 1]
  BY CallFacts DEF SearchRound, At, Route, SearchLabels
<1>2. PICK found \in SUBSET Drivers :
        \E n \in Cardinality(found \ img[r].rejected)
                   .. (MaxPositions * Cardinality(found \ img[r].rejected)) :
          /\ img' = [img EXCEPT ![r] = ProposedTo(img[r], found, n)]
          /\ offered' = offered \union (found \ img[r].rejected)
          /\ Goto(r, IF found = {} THEN "search" ELSE "saveProposals")
  BY Zenon DEF SearchRound
<1>3. PICK n \in Int :
         /\ img' = [img EXCEPT ![r] = ProposedTo(img[r], found, n)]
         /\ offered' = offered \union (found \ img[r].rejected)
         /\ Goto(r, IF found = {} THEN "search" ELSE "saveProposals")
  <2>. DEFINE c == Cardinality(found \ img[r].rejected)
  <2>1. c \in Nat
    BY EntityAssumption, FS_Subset, FS_CardinalityType
  <2>. HIDE DEF c
  <2>2. \A n \in c .. (MaxPositions * c) : n \in Int
    BY <2>1
  <2>. QED
    BY <1>2, <2>2 DEF c
<1>4. /\ img[r] \in Assignment /\ SoundFor(img[r], took)
      /\ row[r] \in 1 .. Len(assignments)
  BY <1>1, CallFacts, took \union {} = took DEF CopyInv, SearchLabels, Taker
<1>5. PICK x \in Assignment :
        /\ x = ProposedTo(img[r], found, n)
        /\ x.status = img[r].status /\ x.assigned = img[r].assigned
        /\ x.proposed = img[r].proposed \union (found \ img[r].rejected)
  <2>. DEFINE x == ProposedTo(img[r], found, n)
  <2>1. /\ x \in Assignment
        /\ x.status = img[r].status /\ x.assigned = img[r].assigned
        /\ x.proposed = img[r].proposed \union (found \ img[r].rejected)
    BY <1>4, ProposingUpdate
  <2>. QED
    BY <2>1
<1>6. /\ CallsTypeOK' /\ OnlyMoves(r)
      /\ pc'[r] \in {"search", "saveProposals"}
      /\ op'[r] = op[r] /\ img'[r] = x /\ row'[r] = row[r]
  <2>1. round[r] + 1 \in 0 .. MaxDistance
    BY <1>1, CallFacts, ServiceAssumption DEF CallsTypeOK
  <2>. QED
    BY <1>1, <1>3, <1>5, <2>1, CallFacts
       DEF Goto, CallsTypeOK, OnlyMoves, Labels, Copies
<1>7. SoundFor(x, took)' /\ Taker(r)' = {} /\ took' \union {} = took'
  BY <1>1, <1>3, <1>4, <1>5, <1>6 DEF SoundFor, Taker
<1>8. CallInv(r)'
  BY <1>1, <1>4, <1>5, <1>6, <1>7
     DEF CallInv, Route, CopyInv, SearchLabels, AnswerLabels, Taker, TakesDriver, tables
<1>9. RowsTypeOK' /\ HistoryTypeOK'
  BY <1>1, <1>3, CallFacts DEF RowsTypeOK, HistoryTypeOK, tables
<1>10. TablesInv'
  BY <1>1, <1>3, CallFacts DEF TablesInv, tables, SoundFor,
     NothingWithoutAcceptance
<1>. QED
  BY <1>1, <1>3, <1>6, <1>8, <1>9, <1>10, CallFacts, GrowingStep DEF tables
-----------------------------------------------------------------------------
(* The steps that save                                                      *)

LEMMA Inserted ==
  ASSUME NEW S, NEW s \in Seq(S), NEW x \in S
  PROVE  /\ Append(s, x) \in Seq(S) /\ Append(s, x) # <<>>
         /\ Len(Append(s, x)) = Len(s) + 1 /\ Len(s) \in Nat
         /\ \A i \in 1 .. Len(s) : Append(s, x)[i] = s[i]
         /\ Append(s, x)[Len(s) + 1] = x
BY AppendProperties, LenProperties

LEMMA Overwritten ==
  ASSUME NEW S, NEW s \in Seq(S), NEW i \in 1 .. Len(s), NEW x \in S
  PROVE  /\ [s EXCEPT ![i] = x] \in Seq(S)
         /\ Len([s EXCEPT ![i] = x]) = Len(s) /\ Len(s) \in Nat
         /\ \A j \in 1 .. Len(s) :
              [s EXCEPT ![i] = x][j] = IF j = i THEN x ELSE s[j]
BY ExceptSeq, LenProperties

\* The comparison of a save remembers the row as it is.
LEMMA CompareStep ==
  ASSUME IInv, NEW r \in Requests, Compare(r)
  PROVE  IInv'
<1>1. PICK label \in Labels :
        /\ \/ pc[r] = "saveDemand" /\ label = "updateDemand"
           \/ pc[r] = "saveProposals" /\ label = "updateProposals"
           \/ pc[r] = "saveFailure" /\ label = "updateFailure"
           \/ pc[r] = "saveAssignment" /\ label = "updateAssignment"
           \/ pc[r] = "saveTransit" /\ label = "updateTransit"
           \/ pc[r] = "saveDetails" /\ label = "updateDetails"
        /\ Goto(r, label)
  BY DEF Compare, UpdateLabel, Labels
<1>2. /\ UNCHANGED <<tables, op, driver, row, img, round, history>>
      /\ seen' = [seen EXCEPT ![r] = RowInTable(r)]
  BY DEF Compare
<1>3. RowInTable(r) \in Copies
  BY <1>1, CallFacts, RowFacts DEF RowInTable, At, CopyInv, SearchLabels,
     AnswerLabels, Copies, RowsTypeOK
<1>4. /\ CallsTypeOK' /\ OnlyMoves(r)
      /\ pc'[r] = label /\ op'[r] = op[r] /\ driver'[r] = driver[r]
      /\ row'[r] = row[r] /\ img'[r] = img[r]
  BY <1>1, <1>2, <1>3, CallFacts DEF CallsTypeOK, Goto, OnlyMoves
<1>5. /\ Taker(r)' = Taker(r)
      /\ \A a, acc : SoundFor(a, took \union acc) => SoundFor(a, took \union acc)'
  BY <1>2, <1>4 DEF Taker, SoundFor, history
<1>6. CallInv(r)'
  BY <1>1, <1>2, <1>4, <1>5, CallFacts
     DEF CallInv, Route, CopyInv, SearchLabels, AnswerLabels, tables, history
<1>. QED
  BY <1>2, <1>4, <1>6, LocalStep

LEMMA DemandSaves ==
  ASSUME IInv, NEW r \in Requests, PublishDemand(r) \/ UpdateDemand(r)
  PROVE  IInv'
<1>1. /\ demands \in Seq(Demand)
      /\ UNCHANGED <<assignments, transits, details, occupied, invoices,
                     offered, took>>
  BY CallFacts DEF PublishDemand, UpdateDemand, history, RowsTypeOK
<1>2. CASE PublishDemand(r)
  <2>1. /\ demands' = Append(demands, NewDemand) /\ pickups' = pickups
        /\ Goto(r, "insertAssignment") /\ op[r] = "publish" /\ UNCHANGED locals
    BY <1>2, CallFacts DEF PublishDemand, At, Route, history
  <2>2. /\ demands' \in Seq(Demand) /\ Len(demands') = Len(demands) + 1
    BY <1>1, <2>1, OtherMethods, Inserted
  <2>3. /\ CallsTypeOK' /\ OnlyMoves(r)
        /\ pc'[r] = "insertAssignment" /\ op'[r] = op[r]
    BY <1>1, <2>1, CallFacts, GotoMove DEF Labels
  <2>4. CallInv(r)'
    BY <2>1, <2>3 DEF CallInv, Route, CopyInv, SearchLabels, AnswerLabels,
       Taker, TakesDriver
  <2>5. RowsTypeOK' /\ HistoryTypeOK' /\ TablesInv'
    <3>1. RowsTypeOK'
      BY <1>1, <2>1, <2>2, CallFacts DEF RowsTypeOK
    <3>2. HistoryTypeOK'
      BY <1>1, <2>1, <2>2, CallFacts DEF HistoryTypeOK
    <3>3. TablesInv'
      BY <1>1, <2>1, <2>2, CallFacts
         DEF TablesInv, SoundFor, NothingWithoutAcceptance
    <3>. QED
      BY <3>1, <3>2, <3>3
  <2>. QED
    BY <1>1, <2>2, <2>3, <2>4, <2>5, CallFacts, GrowingStep
<1>3. CASE UpdateDemand(r)
  <2>1. /\ img[r] \in Demand /\ row[r] \in 1 .. Len(demands)
        /\ op[r] \in {"cancel", "accept", "changeFrom"}
        /\ demands' = [demands EXCEPT ![row[r]] = Saved(r, demands[row[r]])]
        /\ pickups' \in Nat
    <3>1. /\ img[r] \in Demand /\ row[r] \in 1 .. Len(demands)
          /\ op[r] \in {"cancel", "accept", "changeFrom"}
      BY <1>3, CallFacts DEF UpdateDemand, At, Route, CopyInv
    <3>2. /\ demands' = [demands EXCEPT ![row[r]] = Saved(r, demands[row[r]])]
          /\ pickups' \in Nat
      BY <1>3, CallFacts DEF UpdateDemand, HistoryTypeOK
    <3>. QED
      BY <3>1, <3>2
  <2>2. PICK label \in {"loadDetails", "loadAssignment"} :
          /\ GotoAfterSave(r, label)
          /\ label = "loadAssignment" <=> op[r] # "changeFrom"
    BY <1>3 DEF UpdateDemand
  <2>3. /\ demands' \in Seq(Demand) /\ Len(demands') = Len(demands)
    <3>1. Saved(r, demands[row[r]]) \in Demand
      BY <1>1, <2>1, ElementOfSeq, UpdatedRow DEF Saved
    <3>. QED
      BY <1>1, <2>1, <3>1, Overwritten
  <2>4. /\ CallsTypeOK' /\ OnlyMoves(r)
        /\ pc'[r] = label /\ op'[r] = op[r] /\ driver'[r] = driver[r]
    BY <1>1, <2>2, CallFacts, AfterSaveMove DEF Labels
  <2>5. CallInv(r)'
    BY <2>1, <2>2, <2>4, CallFacts
       DEF CallInv, Route, CopyInv, SearchLabels, AnswerLabels, Taker, TakesDriver
  <2>6. RowsTypeOK' /\ HistoryTypeOK' /\ TablesInv'
    <3>1. RowsTypeOK'
      BY <1>1, <2>1, <2>3, CallFacts DEF RowsTypeOK
    <3>2. HistoryTypeOK'
      BY <1>1, <2>1, <2>3, CallFacts DEF HistoryTypeOK
    <3>3. TablesInv'
      BY <1>1, <2>1, <2>3, CallFacts
         DEF TablesInv, SoundFor, NothingWithoutAcceptance
    <3>. QED
      BY <3>1, <3>2, <3>3
  <2>. QED
    BY <1>1, <2>3, <2>4, <2>5, <2>6, CallFacts, GrowingStep
<1>. QED
  BY <1>2, <1>3
LEMMA AssignmentSaves ==
  ASSUME IInv, NEW r \in Requests, StartAssigningDrivers(r) \/ UpdateAssignment(r)
  PROVE  IInv'
<1>1. /\ assignments \in Seq(Assignment)
      /\ UNCHANGED <<demands, transits, details, occupied, invoices, offered,
                     pickups>>
  BY CallFacts DEF StartAssigningDrivers, UpdateAssignment, history, RowsTypeOK
<1>2. CASE StartAssigningDrivers(r)
  <2>1. /\ assignments' = Append(assignments, NewAssignment)
        /\ Goto(r, "loadForSearch") /\ op[r] = "publish" /\ took' = took
        /\ UNCHANGED locals
    BY <1>2, CallFacts DEF StartAssigningDrivers, At, Route, history
  <2>2. /\ assignments' \in Seq(Assignment)
        /\ Len(assignments') = Len(assignments) + 1
        /\ Len(assignments) \in Nat
        /\ \A i \in 1 .. Len(assignments) : assignments'[i] = assignments[i]
        /\ assignments'[Len(assignments) + 1] = NewAssignment
    BY <1>1, <2>1, OtherMethods, Inserted
  <2>3. /\ CallsTypeOK' /\ OnlyMoves(r)
        /\ pc'[r] = "loadForSearch" /\ op'[r] = op[r]
    BY <2>1, CallFacts, GotoMove DEF Labels
  <2>4. CallInv(r)'
    BY <2>1, <2>3 DEF CallInv, Route, CopyInv, SearchLabels, AnswerLabels,
       Taker, TakesDriver
  <2>5. RowsTypeOK' /\ HistoryTypeOK'
    BY <1>1, <2>1, <2>2, CallFacts DEF RowsTypeOK, HistoryTypeOK
  <2>6. \A i \in 1 .. Len(assignments') :
          \/ i \in 1 .. Len(assignments)
          \/ i = Len(assignments) + 1
    BY <2>2
  <2>7. /\ \A a : a = NewAssignment => SoundFor(a, took)'
        /\ \A a : SoundFor(a, took) => SoundFor(a, took)'
    BY <1>1, <2>1, OtherMethods DEF NewAssignment, SoundFor
  <2>8. \A i \in 1 .. Len(assignments') : SoundFor(assignments[i], took)'
    BY <2>2, <2>6, <2>7, CallFacts DEF TablesInv
  <2>9. TablesInv'
    BY <1>1, <2>1, <2>8, CallFacts DEF TablesInv, NothingWithoutAcceptance
  <2>. QED
    BY <1>1, <2>1, <2>2, <2>3, <2>4, <2>5, <2>9, CallFacts, GrowingStep
<1>3. CASE UpdateAssignment(r)
  <2>1. /\ pc[r] \in SearchLabels \union AnswerLabels
        /\ assignments' = [assignments EXCEPT
                            ![row[r]] = Saved(r, assignments[row[r]])]
        /\ took' = took \union Taker(r)
    BY <1>3 DEF UpdateAssignment, SearchLabels, AnswerLabels, Taker
  <2>2. /\ img[r] \in Assignment /\ row[r] \in 1 .. Len(assignments)
        /\ SoundFor(img[r], took') /\ Taker(r) \subseteq offered
        /\ op[r] \in {"publish", "findDrivers", "cancel", "accept", "reject"}
        /\ op[r] = "accept" => driver[r] \in Drivers
        /\ pc[r] \in SearchLabels => op[r] # "accept"
    BY <2>1, CallFacts
       DEF CopyInv, Route, SearchLabels, AnswerLabels, TakesDriver
  <2>3. PICK x \in Assignment :
          x = Saved(r, assignments[row[r]]) /\ SoundFor(x, took')
    <3>1. assignments[row[r]] \in Assignment /\ SoundFor(assignments[row[r]], took)
      BY <2>2, CallFacts, RowFacts
    <3>2. /\ Saved(r, assignments[row[r]]) \in Assignment
          /\ Saved(r, assignments[row[r]]).status
               \in {assignments[row[r]].status, img[r].status}
          /\ Saved(r, assignments[row[r]]).assigned
               \in {assignments[row[r]].assigned, img[r].assigned}
          /\ Saved(r, assignments[row[r]]).proposed = img[r].proposed
      BY <2>2, <3>1, UpdatedAssignment DEF Saved
    <3>. QED
      BY <2>1, <2>2, <3>1, <3>2 DEF SoundFor
  <2>4. /\ assignments' \in Seq(Assignment)
        /\ Len(assignments') = Len(assignments) /\ Len(assignments) \in Nat
        /\ \A i \in 1 .. Len(assignments) :
             assignments'[i] = IF i = row[r] THEN x ELSE assignments[i]
    BY <1>1, <2>1, <2>2, <2>3, Overwritten
  <2>5. CallsTypeOK' /\ OnlyMoves(r) /\ CallInv(r)'
    <3>1. CASE op[r] = "reject"
      BY <1>3, <3>1, CallFacts, FinishMove DEF UpdateAssignment
    <3>2. CASE op[r] # "reject"
      <4>1. GotoAfterSave(r, AfterUpdateAssignment(r))
        BY <1>3, <3>2 DEF UpdateAssignment
      <4>2. PICK label \in Labels :
              /\ GotoAfterSave(r, label)
              /\ \/ label = "search" /\ pc[r] \in SearchLabels
                 \/ label = "markOccupied" /\ op[r] = "accept"
                 \/ label = "loadDetails"
        <5>1. \/ /\ AfterUpdateAssignment(r) = "search"
                 /\ pc[r] \in SearchLabels
              \/ /\ AfterUpdateAssignment(r) = "markOccupied"
                 /\ op[r] = "accept"
              \/ AfterUpdateAssignment(r) = "loadDetails"
          BY <2>2 DEF AfterUpdateAssignment, At, SearchLabels
        <5>. QED
          BY <4>1, <5>1 DEF Labels
      <4>3. /\ CallsTypeOK' /\ OnlyMoves(r)
            /\ pc'[r] = label /\ op'[r] = op[r] /\ driver'[r] = driver[r]
            /\ row'[r] = row[r] /\ img'[r] = img[r]
        BY <4>2, CallFacts, AfterSaveMove
      <4>4. /\ Taker(r)' = Taker(r) /\ took' \union Taker(r) = took'
            /\ offered' = offered
        BY <1>1, <2>1, <4>3 DEF Taker
      <4>5. SoundFor(img[r], took)'
        BY <2>2, <4>3, <4>4 DEF SoundFor
      <4>6. CallInv(r)'
        BY <2>2, <2>4, <4>2, <4>3, <4>4, <4>5, CallFacts
           DEF CallInv, Route, CopyInv, SearchLabels, AnswerLabels
      <4>. QED
        BY <4>3, <4>6
    <3>. QED
      BY <3>1, <3>2
  <2>6. took \subseteq took' /\ took' \subseteq offered'
    BY <1>1, <2>1, <2>2, CallFacts DEF TablesInv
  <2>7. RowsTypeOK' /\ HistoryTypeOK'
    BY <1>1, <2>4, <2>6, CallFacts DEF RowsTypeOK, HistoryTypeOK
  <2>8. \A i \in 1 .. Len(assignments') : SoundFor(assignments[i], took)'
    BY <1>1, <2>3, <2>4, <2>6, CallFacts DEF TablesInv, SoundFor
  <2>9. TablesInv'
    BY <1>1, <2>6, <2>8, CallFacts DEF TablesInv, NothingWithoutAcceptance
  <2>. QED
    BY <1>1, <2>4, <2>5, <2>6, <2>7, <2>9, CallFacts, GrowingStep
<1>. QED
  BY <1>2, <1>3

LEMMA TransitSaves ==
  ASSUME IInv, NEW r \in Requests, StartTransit(r) \/ UpdateTransit(r)
  PROVE  IInv'
<1>1. /\ transits \in Seq(Transit)
      /\ UNCHANGED <<demands, assignments, details, occupied, invoices, history>>
  BY CallFacts DEF StartTransit, UpdateTransit, RowsTypeOK
<1>2. CASE StartTransit(r)
  <2>1. /\ transits' = Append(transits, NewTransit) /\ took # {}
        /\ Goto(r, "loadDetails") /\ op[r] = "start" /\ UNCHANGED locals
    BY <1>2, CallFacts DEF StartTransit, At, Route, CallInv
  <2>2. /\ transits' \in Seq(Transit) /\ transits' # <<>>
        /\ Len(transits') = Len(transits) + 1
    BY <1>1, <2>1, OtherMethods, Inserted
  <2>3. /\ CallsTypeOK' /\ OnlyMoves(r)
        /\ pc'[r] = "loadDetails" /\ op'[r] = op[r] /\ driver'[r] = driver[r]
    BY <1>1, <2>1, CallFacts, GotoMove DEF Labels
  <2>4. CallInv(r)'
    BY <2>1, <2>3, CallFacts
       DEF CallInv, Route, CopyInv, SearchLabels, AnswerLabels, Taker
  <2>5. RowsTypeOK' /\ HistoryTypeOK' /\ TablesInv'
    <3>1. RowsTypeOK'
      BY <1>1, <2>1, <2>2, CallFacts DEF RowsTypeOK
    <3>2. HistoryTypeOK'
      BY <1>1, <2>1, <2>2, CallFacts DEF HistoryTypeOK, history
    <3>3. TablesInv'
      BY <1>1, <2>1, <2>2, CallFacts
         DEF TablesInv, SoundFor, NothingWithoutAcceptance, history
    <3>. QED
      BY <3>1, <3>2, <3>3
  <2>. QED
    BY <1>1, <2>2, <2>3, <2>4, <2>5, CallFacts, GrowingStep DEF history
<1>3. CASE UpdateTransit(r)
  <2>1. /\ img[r] \in Transit /\ row[r] \in 1 .. Len(transits)
        /\ op[r] \in {"changeTo", "complete"}
        /\ op[r] = "complete" => img[r].km \in MapDistances
        /\ transits' = [transits EXCEPT ![row[r]] = Saved(r, transits[row[r]])]
    BY <1>3, CallFacts DEF UpdateTransit, At, Route, CopyInv
  <2>2. PICK label \in {"driverFee", "loadDetails"} :
          /\ GotoAfterSave(r, label)
          /\ label = "driverFee" => op[r] = "complete"
    BY <1>3 DEF UpdateTransit
  <2>3. /\ transits' \in Seq(Transit) /\ Len(transits') = Len(transits)
    <3>1. Saved(r, transits[row[r]]) \in Transit
      BY <1>1, <2>1, ElementOfSeq, UpdatedRow DEF Saved
    <3>. QED
      BY <1>1, <2>1, <3>1, Overwritten
  <2>4. transits # <<>> /\ transits' # <<>>
    BY <2>1, <2>3, CallFacts, EmptySeq
  <2>5. /\ CallsTypeOK' /\ OnlyMoves(r)
        /\ pc'[r] = label /\ op'[r] = op[r] /\ driver'[r] = driver[r]
        /\ img'[r] = img[r]
    BY <1>1, <2>2, CallFacts, AfterSaveMove DEF Labels
  <2>6. CallInv(r)'
    BY <2>1, <2>2, <2>4, <2>5, CallFacts
       DEF CallInv, Route, CopyInv, SearchLabels, AnswerLabels, Taker
  <2>7. RowsTypeOK' /\ HistoryTypeOK' /\ TablesInv'
    <3>1. RowsTypeOK'
      BY <1>1, <2>3, <2>4, CallFacts DEF RowsTypeOK
    <3>2. HistoryTypeOK'
      BY <1>1, <2>3, <2>4, CallFacts DEF HistoryTypeOK, history
    <3>3. TablesInv'
      BY <1>1, <2>3, <2>4, CallFacts
         DEF TablesInv, SoundFor, NothingWithoutAcceptance, history
    <3>. QED
      BY <3>1, <3>2, <3>3
  <2>. QED
    BY <1>1, <2>3, <2>5, <2>6, <2>7, CallFacts, GrowingStep DEF history
<1>. QED
  BY <1>2, <1>3

LEMMA DriverSteps ==
  ASSUME IInv, NEW r \in Requests,
         MarkOccupied(r) \/ NoDriverFee(r) \/ MarkNotOccupied(r)
  PROVE  IInv'
<1>1. CASE NoDriverFee(r)
  BY <1>1, ThrowStep DEF NoDriverFee
<1>2. CASE MarkOccupied(r) \/ MarkNotOccupied(r)
  <2>1. /\ UNCHANGED <<demands, assignments, transits, details, invoices, locals,
                       history>>
        /\ occupied' \in [Drivers -> BOOLEAN]
        /\ Goto(r, "loadDetails") /\ pc[r] \in {"markOccupied", "driverFee"}
    BY <1>2, CallFacts DEF MarkOccupied, MarkNotOccupied, RowsTypeOK, At
  <2>2. /\ CallsTypeOK' /\ OnlyMoves(r)
        /\ pc'[r] = "loadDetails" /\ op'[r] = op[r] /\ driver'[r] = driver[r]
        /\ img'[r] = img[r]
    BY <2>1, CallFacts, GotoMove DEF Labels
  <2>3. CallInv(r)'
    BY <2>1, <2>2, CallFacts
       DEF CallInv, Route, CopyInv, SearchLabels, AnswerLabels, Taker
  <2>4. RowsTypeOK' /\ HistoryTypeOK' /\ TablesInv'
    <3>1. RowsTypeOK'
      BY <2>1, CallFacts DEF RowsTypeOK
    <3>2. HistoryTypeOK'
      BY <2>1, CallFacts DEF HistoryTypeOK, history
    <3>3. TablesInv'
      BY <2>1, CallFacts
         DEF TablesInv, SoundFor, NothingWithoutAcceptance, history
    <3>. QED
      BY <3>1, <3>2, <3>3
  <2>. QED
    BY <2>1, <2>2, <2>3, <2>4, CallFacts, GrowingStep DEF history
<1>. QED
  BY <1>1, <1>2

LEMMA DetailsSteps ==
  ASSUME IInv, NEW r \in Requests, DetailsStep(r)
  PROVE  IInv'
<1>1. CASE LoadDetails(r)
  <2>1. PICK u \in ChangedDetails(r, details) : Hold(r, 0, u, "saveDetails")
    BY <1>1 DEF LoadDetails
  <2>2. At(r, "loadDetails") /\ UNCHANGED <<tables, history>>
    BY <1>1 DEF LoadDetails
  <2>3. u \in Details
    BY <2>2, CallFacts, DetailsMethods DEF RowsTypeOK
  <2>4. /\ CallsTypeOK' /\ OnlyMoves(r)
        /\ pc'[r] = "saveDetails" /\ op'[r] = op[r] /\ driver'[r] = driver[r]
        /\ img'[r] = u
    BY <2>1, <2>3, 0 \in Nat, "saveDetails" \in Labels, CallFacts, HoldMove
       DEF Copies, Labels
  <2>5. CallInv(r)'
    BY <2>2, <2>3, <2>4, CallFacts
       DEF CallInv, Route, CopyInv, SearchLabels, AnswerLabels, Taker, At,
       tables
  <2>. QED
    BY <2>2, <2>4, <2>5, LocalStep
<1>2. CASE UpdateDetails(r)
  <2>1. /\ UNCHANGED <<demands, assignments, transits, occupied, invoices, history>>
        /\ details' \in Details
    <3>1. details \in Details /\ img[r] \in Details
      BY <1>2, CallFacts DEF UpdateDetails, At, CopyInv, RowsTypeOK
    <3>. QED
      BY <1>2, <3>1, UpdatedRow DEF UpdateDetails, Saved
  <2>2. CallsTypeOK' /\ OnlyMoves(r) /\ CallInv(r)'
    <3>1. CASE op[r] # "complete"
      BY <1>2, <3>1, CallFacts, FinishMove DEF UpdateDetails
    <3>2. CASE op[r] = "complete"
      <4>1. GotoAfterSave(r, "generateInvoice") /\ transits # <<>>
        BY <1>2, <3>2, CallFacts DEF UpdateDetails, CallInv, At
      <4>2. /\ CallsTypeOK' /\ OnlyMoves(r)
            /\ pc'[r] = "generateInvoice" /\ op'[r] = op[r]
            /\ driver'[r] = driver[r]
        BY <4>1, CallFacts, AfterSaveMove DEF Labels
      <4>. QED
        BY <2>1, <3>2, <4>1, <4>2, CallFacts DEF CallInv, Route, CopyInv,
           SearchLabels, AnswerLabels
    <3>. QED
      BY <3>1, <3>2
  <2>3. RowsTypeOK' /\ HistoryTypeOK' /\ TablesInv'
    <3>1. RowsTypeOK'
      BY <2>1, CallFacts DEF RowsTypeOK
    <3>2. HistoryTypeOK'
      BY <2>1, CallFacts DEF HistoryTypeOK, history
    <3>3. TablesInv'
      BY <2>1, CallFacts
         DEF TablesInv, SoundFor, NothingWithoutAcceptance, history
    <3>. QED
      BY <3>1, <3>2, <3>3
  <2>. QED
    BY <2>1, <2>2, <2>3, CallFacts, GrowingStep DEF history
<1>3. CASE GenerateInvoice(r)
  <2>1. /\ UNCHANGED <<demands, assignments, transits, details, occupied, history>>
        /\ invoices' = invoices + 1 /\ transits # <<>> /\ Finish(r)
    BY <1>3, CallFacts DEF GenerateInvoice, At, Route, CallInv
  <2>2. CallsTypeOK' /\ OnlyMoves(r) /\ CallInv(r)'
    BY <2>1, CallFacts, FinishMove
  <2>3. RowsTypeOK' /\ HistoryTypeOK' /\ TablesInv'
    <3>1. RowsTypeOK'
      BY <2>1, CallFacts DEF RowsTypeOK
    <3>2. HistoryTypeOK'
      BY <2>1, CallFacts DEF HistoryTypeOK, history
    <3>3. TablesInv'
      BY <2>1, CallFacts
         DEF TablesInv, SoundFor, NothingWithoutAcceptance, history
    <3>. QED
      BY <3>1, <3>2, <3>3
  <2>. QED
    BY <2>1, <2>2, <2>3, CallFacts, GrowingStep DEF history
<1>. QED
  BY <1>1, <1>2, <1>3 DEF DetailsStep

LEMMA BeginStep ==
  ASSUME IInv, NEW r \in Requests, Begin(r)
  PROVE  IInv'
<1>1. PICK o \in Operations, d \in Drivers \union {NoDriver} :
        /\ op' = [op EXCEPT ![r] = o]
        /\ pc' = [pc EXCEPT ![r] = FirstStep(o)]
        /\ driver' = [driver EXCEPT ![r] = d]
        /\ o \in TakesDriver => d \in Drivers
        /\ UNCHANGED <<tables, row, img, seen, round, history>>
  BY DEF Begin, Goto
<1>2. o \in Endpoints
  BY ServiceAssumption
<1>3. FirstStep(o) \in Labels
  BY <1>2 DEF FirstStep, Endpoints, Labels
<1>4. /\ CallsTypeOK' /\ OnlyMoves(r)
      /\ pc'[r] = FirstStep(o) /\ op'[r] = o /\ driver'[r] = d
  BY <1>1, <1>2, <1>3, CallFacts DEF CallsTypeOK, OnlyMoves
<1>5. CallInv(r)'
  BY <1>1, <1>2, <1>4
     DEF CallInv, Route, CopyInv, SearchLabels, AnswerLabels, Taker, FirstStep,
     Endpoints, TakesDriver
<1>. QED
  BY <1>1, <1>4, <1>5, LocalStep
-----------------------------------------------------------------------------
(* Safety                                                                   *)

LEMMA InitIInv == Init => IInv
<1>. SUFFICES ASSUME Init PROVE IInv
  OBVIOUS
<1>1. /\ demands = <<>> /\ assignments = <<>> /\ transits = <<>>
      /\ invoices = 0 /\ offered = {} /\ took = {} /\ pickups = 0
      /\ occupied \in [Drivers -> BOOLEAN]
  BY DEF Init
<1>2. details \in Details
  BY DEF Init, NewDetails, Details, TransitStatus
<1>3. RowsTypeOK /\ HistoryTypeOK
  BY <1>1, <1>2, EmptySeq DEF RowsTypeOK, HistoryTypeOK
<1>4. CallsTypeOK
  BY ServiceAssumption DEF Init, CallsTypeOK, Labels
<1>5. TablesInv
  <2>1. Len(assignments) = 0 /\ DOMAIN assignments = 1 .. 0
    BY <1>1, EmptySeq, LenProperties
  <2>. QED
    BY <1>1, <2>1 DEF TablesInv, NothingWithoutAcceptance
<1>6. ASSUME NEW r \in Requests PROVE CallInv(r)
  BY DEF Init, CallInv, Route, CopyInv, SearchLabels, AnswerLabels, Taker,
     TakesDriver
<1>. QED
  BY <1>3, <1>4, <1>5, <1>6 DEF IInv, TypeOK

LEMMA NextIInv == IInv /\ [Next]_vars => IInv'
<1>. SUFFICES ASSUME IInv, [Next]_vars PROVE IInv'
  OBVIOUS
<1>1. ASSUME NEW r \in Requests, Begin(r) PROVE IInv'
  BY <1>1, BeginStep
<1>2. ASSUME NEW r \in Requests, DemandStep(r) PROVE IInv'
  BY <1>2, DemandReads, DemandSaves DEF DemandStep
<1>3. ASSUME NEW r \in Requests, AssignmentStep(r) PROVE IInv'
  BY <1>3, Checks, AssignmentReads, AssignmentSaves, SearchStarts, SearchStops,
     SearchGivesUp, SearchGoesOn DEF AssignmentStep
<1>4. ASSUME NEW r \in Requests, TransitStep(r) PROVE IInv'
  BY <1>4, TransitReads, TransitSaves, DriverSteps DEF TransitStep
<1>5. ASSUME NEW r \in Requests, DetailsStep(r) PROVE IInv'
  BY <1>5, DetailsSteps
<1>6. ASSUME NEW r \in Requests, Compare(r) PROVE IInv'
  BY <1>6, CompareStep
<1>7. CASE UNCHANGED vars
  <2>1. /\ UNCHANGED <<demands, assignments, transits, details, occupied, invoices>>
        /\ UNCHANGED <<pc, op, driver, row, img, seen, round, offered, took, pickups>>
    BY <1>7 DEF vars, tables, locals, history
  <2>2. TypeOK'
    BY <2>1 DEF IInv, TypeOK, RowsTypeOK, CallsTypeOK, HistoryTypeOK
  <2>3. TablesInv'
    BY <2>1 DEF IInv, TablesInv, SoundFor, NothingWithoutAcceptance
  <2>4. ASSUME NEW q \in Requests PROVE CallInv(q)'
    BY <2>1, CallFacts, OtherCalls
  <2>. QED
    BY <2>2, <2>3, <2>4 DEF IInv
<1>. QED
  BY <1>1, <1>2, <1>3, <1>4, <1>5, <1>6, <1>7 DEF Next, Step, AllAnswered

\* Whatever the requests do and however they interleave, the invariant holds.
THEOREM Invariance == Spec => []IInv
BY InitIInv, NextIInv, PTL DEF Spec

\* TypeOK: every row a handler saves, and every copy it holds, has the shape
\* of its entity, for any number of requests and rows.
THEOREM TypeCorrect == Spec => []TypeOK
<1>1. IInv => TypeOK
  BY DEF IInv
<1>. QED
  BY <1>1, Invariance, PTL

\* AssignedDriverAccepted: whatever stale copy of a driver_assignment row is
\* saved over a newer one, the driver the row names is one whose acceptance
\* was saved.
THEOREM AssignedDriversAccepted == Spec => []AssignedDriverAccepted
<1>1. IInv => AssignedDriverAccepted
  BY LenProperties DEF IInv, TypeOK, RowsTypeOK, TablesInv, SoundFor,
     AssignedDriverAccepted
<1>. QED
  BY <1>1, Invariance, PTL

\* OnlyOfferedDriversTake: a driver who has taken the ride was notified of it,
\* although acceptBy may have read the proposals long before it is saved.
THEOREM TakersWereOffered == Spec => []OnlyOfferedDriversTake
<1>1. IInv => OnlyOfferedDriversTake
  BY DEF IInv, TablesInv, OnlyOfferedDriversTake
<1>. QED
  BY <1>1, Invariance, PTL

\* NothingWithoutAcceptance: no transit and no invoice exists for a ride that no
\* driver ever accepted, even when the acceptance is undone or overwritten
\* between the check of startTransit and its insert.
THEOREM NoRideWithoutAcceptance == Spec => []NothingWithoutAcceptance
<1>1. IInv => NothingWithoutAcceptance
  BY DEF IInv, TablesInv
<1>. QED
  BY <1>1, Invariance, PTL

-----------------------------------------------------------------------------
(* Every handler ends                                                       *)

SearchingLabels ==
  { "insertDemand", "insertAssignment", "loadForSearch", "search",
    "saveProposals", "updateProposals" }

\* A request goes to a label nearer to the end, in the same round of a search.
LEMMA Nearer ==
  ASSUME CallsTypeOK, NEW r \in Requests, NEW label \in Labels,
         pc'[r] = label, StepsFrom[label] < StepsFrom[pc[r]],
         label \in SearchingLabels =>
           pc[r] \in SearchingLabels /\ round'[r] = round[r]
  PROVE  StepsLeft(r)' < StepsLeft(r)
<1>1. round[r] \in Nat /\ MaxDistance - round[r] \in Nat
  BY ServiceAssumption DEF CallsTypeOK
<1>2. StepsFrom[pc[r]] \in Nat /\ StepsFrom[label] \in Nat
  BY DEF StepsFrom, CallsTypeOK, Labels
<1>3. /\ StepsLeft(r) = StepsFrom[pc[r]] +
                         IF pc[r] \in SearchingLabels
                         THEN 3 * (MaxDistance - round[r]) ELSE 0
      /\ StepsLeft(r)' = StepsFrom[label] +
                          IF label \in SearchingLabels
                          THEN 3 * (MaxDistance - round'[r]) ELSE 0
  BY DEF StepsLeft, Searching, SearchingLabels
<1>. HIDE DEF StepsLeft, StepsFrom, SearchingLabels
<1>. QED
  BY <1>1, <1>2, <1>3

\* A request is answered.
LEMMA FinishIsNearer ==
  ASSUME CallsTypeOK, NEW r \in Requests, InProgress(r), Finish(r)
  PROVE  StepsLeft(r)' < StepsLeft(r)
<1>1. pc'[r] = "answered" /\ "answered" \in Labels
  BY DEF Finish, CallsTypeOK, Labels
<1>2. StepsFrom["answered"] < StepsFrom[pc[r]] /\ "answered" \notin SearchingLabels
  BY DEF InProgress, CallsTypeOK, Labels, StepsFrom, SearchingLabels
<1>. QED
  BY <1>1, <1>2, Nearer

LEMMA GoingOnIsNearer ==
  ASSUME CallsTypeOK, NEW r \in Requests, NEW label \in Labels,
         Goto(r, label), StepsFrom[label] < StepsFrom[pc[r]],
         label \in SearchingLabels =>
           pc[r] \in SearchingLabels /\ round'[r] = round[r]
  PROVE  StepsLeft(r)' < StepsLeft(r)
BY Nearer DEF Goto, CallsTypeOK

LEMMA DemandNearer ==
  ASSUME CallsTypeOK, NEW r \in Requests, InProgress(r), DemandStep(r)
  PROVE  StepsLeft(r)' < StepsLeft(r)
<1>1. CASE Finish(r)
  BY <1>1, FinishIsNearer
<1>2. CASE PublishDemand(r)
  BY <1>2, GoingOnIsNearer
  DEF PublishDemand, At, Labels, StepsFrom, SearchingLabels, locals
<1>3. CASE NoDemand(r)
  BY <1>3, GoingOnIsNearer DEF NoDemand, At, Labels, StepsFrom, SearchingLabels
<1>4. CASE (CancelDemand(r) \/ AcceptDemand(r) \/ ChangePickup(r)) /\ ~Finish(r)
  <2>1. At(r, "loadDemand") /\ Goto(r, "saveDemand")
    BY <1>4 DEF CancelDemand, AcceptDemand, ChangePickup, Throw, Hold
  <2>. QED
    BY <2>1, GoingOnIsNearer DEF At, Labels, StepsFrom, SearchingLabels
<1>5. CASE UpdateDemand(r)
  <2>1. /\ At(r, "updateDemand")
        /\ Goto(r, "loadDetails") \/ Goto(r, "loadAssignment")
    BY <1>5 DEF UpdateDemand, GotoAfterSave
  <2>. QED
    BY <2>1, GoingOnIsNearer DEF At, Labels, StepsFrom, SearchingLabels
<1>. QED
  BY <1>1, <1>2, <1>3, <1>4, <1>5 DEF DemandStep

LEMMA AssignmentNearer ==
  ASSUME CallsTypeOK, NEW r \in Requests, InProgress(r), AssignmentStep(r),
         ~SearchRound(r)
  PROVE  StepsLeft(r)' < StepsLeft(r)
<1>1. CASE Finish(r)
  BY <1>1, FinishIsNearer
<1>2. CASE (CheckNotAssigned(r) \/ CheckAssigned(r)) /\ ~Finish(r)
  <2>1. \/ At(r, "checkNotAssigned") /\ Goto(r, "loadDemand")
        \/ At(r, "checkAssigned") /\ Goto(r, "insertTransit")
    BY <1>2 DEF CheckNotAssigned, CheckAssigned, Throw
  <2>. QED
    BY <2>1, GoingOnIsNearer DEF At, Labels, StepsFrom, SearchingLabels
<1>3. CASE StartAssigningDrivers(r)
  BY <1>3, GoingOnIsNearer
  DEF StartAssigningDrivers, At, Labels, StepsFrom, SearchingLabels, locals
<1>4. CASE LoadForSearch(r) /\ ~Finish(r)
  <2>1. At(r, "loadForSearch") /\ Goto(r, "search") /\ UNCHANGED round
    BY <1>4 DEF LoadForSearch, Throw, Hold
  <2>. QED
    BY <2>1, GoingOnIsNearer DEF At, Labels, StepsFrom, SearchingLabels
<1>5. CASE StopSearch(r) \/ GiveUpSearch(r)
  <2>1. At(r, "search") /\ (Goto(r, "loadDetails") \/ Goto(r, "saveFailure"))
    BY <1>5 DEF StopSearch, GiveUpSearch
  <2>. QED
    BY <2>1, GoingOnIsNearer DEF At, Labels, StepsFrom, SearchingLabels
<1>6. CASE NoAssignment(r) /\ ~Finish(r)
  <2>1. At(r, "loadAssignment") /\ Goto(r, "loadDetails")
    BY <1>6 DEF NoAssignment, Throw
  <2>. QED
    BY <2>1, GoingOnIsNearer DEF At, Labels, StepsFrom, SearchingLabels
<1>7. CASE /\ CancelAssignment(r) \/ AcceptAssignment(r) \/ RejectAssignment(r)
           /\ ~Finish(r)
  <2>1. At(r, "loadAssignment") /\ Goto(r, "saveAssignment")
    BY <1>7 DEF CancelAssignment, AcceptAssignment, RejectAssignment, Throw, Hold
  <2>. QED
    BY <2>1, GoingOnIsNearer DEF At, Labels, StepsFrom, SearchingLabels
<1>8. CASE UpdateAssignment(r) /\ ~Finish(r)
  <2>1. /\ pc[r] \in {"updateProposals", "updateFailure", "updateAssignment"}
        /\ Goto(r, AfterUpdateAssignment(r)) /\ UNCHANGED round
    BY <1>8 DEF UpdateAssignment, GotoAfterSave
  <2>2. CASE At(r, "updateProposals")
    BY <2>1, <2>2, GoingOnIsNearer
    DEF AfterUpdateAssignment, At, Labels, StepsFrom, SearchingLabels
  <2>3. CASE ~At(r, "updateProposals")
    <3>1. Goto(r, "markOccupied") \/ Goto(r, "loadDetails")
      BY <2>1, <2>3 DEF AfterUpdateAssignment
    <3>. QED
      BY <2>1, <2>3, <3>1, GoingOnIsNearer
      DEF At, Labels, StepsFrom, SearchingLabels
  <2>. QED BY <2>2, <2>3
<1>. QED
  BY <1>1, <1>2, <1>3, <1>4, <1>5, <1>6, <1>7, <1>8 DEF AssignmentStep

\* A round of a search saves what it found, or looks further away.
LEMMA SearchNearer ==
  ASSUME CallsTypeOK, NEW r \in Requests, SearchRound(r)
  PROVE  StepsLeft(r)' < StepsLeft(r)
<1>1. /\ pc[r] = "search" /\ pc'[r] \in {"search", "saveProposals"}
      /\ round'[r] = round[r] + 1
      /\ round[r] \in Nat /\ MaxDistance \in Nat
  BY ServiceAssumption DEF SearchRound, At, Goto, CallsTypeOK
<1>2. StepsLeft(r) = 8 + 3 * (MaxDistance - round[r])
  BY <1>1 DEF StepsLeft, Searching, StepsFrom
<1>3. StepsLeft(r)' \in {8 + 3 * (MaxDistance - round'[r]),
                        10 + 3 * (MaxDistance - round'[r])}
  BY <1>1 DEF StepsLeft, Searching, StepsFrom
<1>. HIDE DEF StepsLeft
<1>. QED
  BY <1>1, <1>2, <1>3

LEMMA TransitNearer ==
  ASSUME CallsTypeOK, NEW r \in Requests, InProgress(r), TransitStep(r)
  PROVE  StepsLeft(r)' < StepsLeft(r)
<1>1. CASE Finish(r)
  BY <1>1, FinishIsNearer
<1>2. CASE StartTransit(r) \/ (NoTransit(r) /\ ~Finish(r))
  <2>1. pc[r] \in {"insertTransit", "loadTransit"} /\ Goto(r, "loadDetails")
    BY <1>2 DEF StartTransit, NoTransit, Throw, At
  <2>. QED
    BY <2>1, GoingOnIsNearer DEF Labels, StepsFrom, SearchingLabels
<1>3. CASE (ChangeDestination(r) \/ CompleteTransit(r)) /\ ~Finish(r)
  <2>1. At(r, "loadTransit") /\ Goto(r, "saveTransit")
    BY <1>3 DEF ChangeDestination, CompleteTransit, Throw, Hold
  <2>. QED
    BY <2>1, GoingOnIsNearer DEF At, Labels, StepsFrom, SearchingLabels
<1>4. CASE UpdateTransit(r)
  <2>1. /\ At(r, "updateTransit")
        /\ Goto(r, "driverFee") \/ Goto(r, "loadDetails")
    BY <1>4 DEF UpdateTransit, GotoAfterSave
  <2>. QED
    BY <2>1, GoingOnIsNearer DEF At, Labels, StepsFrom, SearchingLabels
<1>5. CASE MarkOccupied(r) \/ MarkNotOccupied(r)
  <2>1. pc[r] \in {"markOccupied", "driverFee"} /\ Goto(r, "loadDetails")
    BY <1>5 DEF MarkOccupied, MarkNotOccupied, At
  <2>. QED
    BY <2>1, GoingOnIsNearer DEF Labels, StepsFrom, SearchingLabels
<1>6. CASE NoDriverFee(r)
  BY <1>6, FinishIsNearer DEF NoDriverFee, Throw
<1>. QED
  BY <1>1, <1>2, <1>3, <1>4, <1>5, <1>6 DEF TransitStep

LEMMA DetailsNearer ==
  ASSUME CallsTypeOK, NEW r \in Requests, InProgress(r), DetailsStep(r)
  PROVE  StepsLeft(r)' < StepsLeft(r)
<1>1. CASE Finish(r)
  BY <1>1, FinishIsNearer
<1>2. CASE LoadDetails(r)
  <2>1. At(r, "loadDetails") /\ Goto(r, "saveDetails")
    BY <1>2 DEF LoadDetails, Hold
  <2>. QED
    BY <2>1, GoingOnIsNearer DEF At, Labels, StepsFrom, SearchingLabels
<1>3. CASE UpdateDetails(r) /\ ~Finish(r)
  <2>1. At(r, "updateDetails") /\ Goto(r, "generateInvoice")
    BY <1>3 DEF UpdateDetails, GotoAfterSave
  <2>. QED
    BY <2>1, GoingOnIsNearer DEF At, Labels, StepsFrom, SearchingLabels
<1>4. CASE GenerateInvoice(r)
  BY <1>4, FinishIsNearer DEF GenerateInvoice
<1>. QED
  BY <1>1, <1>2, <1>3, <1>4 DEF DetailsStep

LEMMA CompareNearer ==
  ASSUME CallsTypeOK, NEW r \in Requests, Compare(r)
  PROVE  StepsLeft(r)' < StepsLeft(r)
<1>1. /\ pc[r] \in DOMAIN UpdateLabel /\ Goto(r, UpdateLabel[pc[r]])
      /\ UNCHANGED round
  BY DEF Compare
<1>. QED
  BY <1>1, GoingOnIsNearer DEF UpdateLabel, Labels, StepsFrom, SearchingLabels

\* The other requests stay where they are.
LEMMA OthersStay ==
  ASSUME CallsTypeOK, NEW r \in Requests, NEW q \in Requests, r # q,
         Begin(r) \/ Step(r)
  PROVE  pc'[q] = pc[q] /\ img'[q] = img[q] /\ round'[q] = round[q]
<1>1. CASE Begin(r)
  BY <1>1 DEF Begin, Goto, CallsTypeOK
<1>2. CASE DemandStep(r)
  BY <1>2
  DEF DemandStep, PublishDemand, NoDemand, CancelDemand, AcceptDemand,
      ChangePickup, UpdateDemand, Throw, Finish, Hold, Goto, GotoAfterSave,
      locals, CallsTypeOK
<1>3. CASE AssignmentStep(r)
  <2>1. CASE \/ CheckNotAssigned(r) \/ CheckAssigned(r)
             \/ StartAssigningDrivers(r) \/ LoadForSearch(r)
             \/ NoAssignment(r) \/ CancelAssignment(r)
             \/ AcceptAssignment(r) \/ RejectAssignment(r)
    BY <2>1
    DEF CheckNotAssigned, CheckAssigned, StartAssigningDrivers, LoadForSearch,
        NoAssignment, CancelAssignment, AcceptAssignment, RejectAssignment,
        Throw, Finish, Hold, Goto, locals, CallsTypeOK
  <2>2. CASE StopSearch(r) \/ GiveUpSearch(r) \/ UpdateAssignment(r)
    BY <2>2
    DEF StopSearch, GiveUpSearch, UpdateAssignment, Finish, Goto, GotoAfterSave,
        CallsTypeOK
  <2>3. CASE SearchRound(r)
    BY <2>3 DEF SearchRound, Goto, CallsTypeOK
  <2>. QED BY <1>3, <2>1, <2>2, <2>3 DEF AssignmentStep
<1>4. CASE TransitStep(r)
  BY <1>4
  DEF TransitStep, StartTransit, NoTransit, ChangeDestination, CompleteTransit,
      UpdateTransit, MarkOccupied, NoDriverFee, MarkNotOccupied, Throw, Finish,
      Hold, Goto, GotoAfterSave, locals, CallsTypeOK
<1>5. CASE DetailsStep(r) \/ Compare(r)
  BY <1>5
  DEF DetailsStep, LoadDetails, UpdateDetails, GenerateInvoice, Compare, Finish,
      Hold, Goto, GotoAfterSave, CallsTypeOK
<1>. QED
  BY <1>1, <1>2, <1>3, <1>4, <1>5 DEF Step

\* EveryStepCountsDown: every handler ends, the loop of a search included, in a
\* number of steps that only the distance at which a search gives up bounds,
\* whatever the other requests do and whoever is found near.
THEOREM HandlersEnd == Spec => EveryStepCountsDown
<1>1. ASSUME TypeOK, [Next]_vars, NEW q \in Requests, InProgress(q)
      PROVE  \/ pc'[q] = pc[q] /\ img'[q] = img[q] /\ round'[q] = round[q]
             \/ StepsLeft(q)' < StepsLeft(q)
  <2>1. CallsTypeOK
    BY <1>1 DEF TypeOK
  <2>2. ASSUME NEW r \in Requests, Begin(r) \/ Step(r), r # q
        PROVE  pc'[q] = pc[q] /\ img'[q] = img[q] /\ round'[q] = round[q]
    BY <2>1, <2>2, OthersStay
  <2>3. CASE Step(q)
    BY <1>1, <2>1, <2>3, DemandNearer, AssignmentNearer, SearchNearer,
       TransitNearer, DetailsNearer, CompareNearer DEF Step
  <2>4. ~Begin(q)
    BY <1>1 DEF Begin, InProgress, At
  <2>5. CASE UNCHANGED vars
    BY <2>5 DEF vars, locals
  <2>. QED
    BY <1>1, <2>2, <2>3, <2>4, <2>5 DEF Next, AllAnswered
<1>2. TypeOK /\ [Next]_vars =>
        [\A r \in Requests :
           InProgress(r) =>
             \/ pc'[r] = pc[r] /\ img'[r] = img[r] /\ round'[r] = round[r]
             \/ StepsLeft(r)' < StepsLeft(r)]_vars
  BY <1>1
<1>. QED
  BY <1>2, TypeCorrect, PTL DEF Spec, EveryStepCountsDown

-----------------------------------------------------------------------------
(* Requests one at a time                                                   *)

\* At most one request is in progress.
Alone == \A q, r \in Requests : InProgress(q) /\ InProgress(r) => q = r

\* What the SELECT of a save read is still there when its UPDATE comes.
Fresh(r) ==
  /\ pc[r] = "updateDemand"  => seen[r] = demands[row[r]]
  /\ pc[r] \in {"updateProposals", "updateFailure", "updateAssignment"} =>
       seen[r] = assignments[row[r]]
  /\ pc[r] = "updateTransit" => seen[r] = transits[row[r]]
  /\ pc[r] = "updateDetails" => seen[r] = details

\* The invariant of every part of a ride: one request, which is up to date.
SerialInv == Alone /\ \A r \in Requests : Fresh(r)

UpdateLabels == {UpdateLabel[l] : l \in DOMAIN UpdateLabel}

\* A request that takes a step is in progress, and its step moves no other.
LEMMA SoloMove ==
  ASSUME IInv, Alone, NEW r \in Requests, Step(r)
  PROVE  /\ InProgress(r)
         /\ \A q \in Requests \ {r} :
              pc[q] \in {"idle", "answered"} /\ pc'[q] = pc[q]
         /\ Alone'
<1>1. InProgress(r)
  BY DEF Step, DemandStep, PublishDemand, NoDemand, CancelDemand, AcceptDemand,
     ChangePickup, UpdateDemand, AssignmentStep, CheckNotAssigned,
     CheckAssigned, StartAssigningDrivers, LoadForSearch, StopSearch,
     GiveUpSearch, SearchRound, NoAssignment, CancelAssignment,
     AcceptAssignment, RejectAssignment, UpdateAssignment, TransitStep,
     StartTransit, NoTransit, ChangeDestination, CompleteTransit,
     UpdateTransit, MarkOccupied, NoDriverFee, MarkNotOccupied, DetailsStep,
     LoadDetails, UpdateDetails, GenerateInvoice, Compare, UpdateLabel,
     InProgress, At
<1>2. ASSUME NEW q \in Requests \ {r}
      PROVE  pc[q] \in {"idle", "answered"} /\ pc'[q] = pc[q]
  BY <1>1, OthersStay, CallFacts DEF Alone, InProgress
<1>3. Alone'
  BY <1>2 DEF Alone, InProgress
<1>. QED
  BY <1>1, <1>2, <1>3

\* A row that is compared with itself is written as it is held.
LEMMA UpdatedFresh ==
  ASSUME NEW x \in Demand \union Assignment \union Transit \union Details,
         NEW a
  PROVE  Updated(a, a, x) = x
<1>1. x = [c \in DOMAIN x |-> x[c]]
  BY DEF Demand, Assignment, Transit, Details
<1>. QED
  BY <1>1 DEF Updated

\* A request starts only when none is in progress.
LEMMA SoloBegin ==
  ASSUME ~Overlapping, IInv, NEW r \in Requests, Begin(r)
  PROVE  /\ \A q \in Requests : pc[q] \in {"idle", "answered"}
         /\ \A q \in Requests \ {r} : pc'[q] = pc[q]
         /\ pc'[r] \in {"insertDemand", "loadForSearch", "loadDemand",
                        "checkNotAssigned", "loadAssignment", "checkAssigned",
                        "loadTransit"}
         /\ UNCHANGED <<tables, history>>
         /\ Alone'
<1>1. \A q \in Requests : pc[q] \in {"idle", "answered"}
  BY DEF Begin, InProgress
<1>2. \A q \in Requests \ {r} : pc'[q] = pc[q]
  BY CallFacts DEF Begin, Goto, CallsTypeOK
<1>3. /\ pc'[r] \in {"insertDemand", "loadForSearch", "loadDemand",
                     "checkNotAssigned", "loadAssignment", "checkAssigned",
                     "loadTransit"}
      /\ UNCHANGED <<tables, history>>
  <2>1. PICK o \in Endpoints : pc' = [pc EXCEPT ![r] = FirstStep(o)]
    BY ServiceAssumption DEF Begin, Goto
  <2>2. FirstStep(o) \in {"insertDemand", "loadForSearch", "loadDemand",
                          "checkNotAssigned", "loadAssignment",
                          "checkAssigned", "loadTransit"}
    BY <2>1 DEF FirstStep, Endpoints
  <2>. QED
    BY <2>1, <2>2, CallFacts DEF CallsTypeOK, Begin
<1>. QED
  BY <1>1, <1>2, <1>3 DEF Alone, InProgress

\* Only the SELECT of a save comes before its UPDATE.
LEMMA ComparesBeforeUpdate ==
  ASSUME IInv, NEW r \in Requests, Step(r), ~Compare(r)
  PROVE  pc'[r] \notin UpdateLabels
<1>1. \A label \in Labels \ UpdateLabels :
        Goto(r, label) => pc'[r] \notin UpdateLabels
  BY CallFacts DEF Goto, CallsTypeOK
<1>2. Finish(r) => pc'[r] \notin UpdateLabels
  BY CallFacts DEF Finish, CallsTypeOK, UpdateLabels, UpdateLabel
<1>3. /\ {"insertAssignment", "loadDemand", "saveDemand", "insertTransit",
           "loadForSearch", "search", "saveProposals", "saveFailure",
           "loadAssignment", "saveAssignment", "saveTransit", "driverFee",
           "markOccupied", "loadDetails", "saveDetails", "generateInvoice"}
           \subseteq Labels \ UpdateLabels
  BY DEF UpdateLabels, UpdateLabel, Labels
<1>4. CASE DemandStep(r)
  BY <1>1, <1>2, <1>3, <1>4
     DEF DemandStep, PublishDemand, NoDemand, CancelDemand, AcceptDemand,
         ChangePickup, UpdateDemand, Throw, Hold, GotoAfterSave
<1>5. CASE AssignmentStep(r)
  BY <1>1, <1>2, <1>3, <1>5
     DEF AssignmentStep, CheckNotAssigned, CheckAssigned,
         StartAssigningDrivers, LoadForSearch, StopSearch, GiveUpSearch,
         SearchRound, NoAssignment, CancelAssignment, AcceptAssignment,
         RejectAssignment, UpdateAssignment, AfterUpdateAssignment, Throw, Hold,
         GotoAfterSave
<1>6. CASE TransitStep(r)
  BY <1>1, <1>2, <1>3, <1>6
     DEF TransitStep, StartTransit, NoTransit, ChangeDestination,
         CompleteTransit, UpdateTransit, MarkOccupied, NoDriverFee,
         MarkNotOccupied, Throw, Hold, GotoAfterSave
<1>7. CASE DetailsStep(r)
  BY <1>1, <1>2, <1>3, <1>7
     DEF DetailsStep, LoadDetails, UpdateDetails, GenerateInvoice, Hold,
         GotoAfterSave
<1>. QED
  BY <1>4, <1>5, <1>6, <1>7 DEF Step

LEMMA SerialStep ==
  ASSUME ~Overlapping, IInv, SerialInv, [Next]_vars
  PROVE  SerialInv'
<1>1. \A q \in Requests :
        pc'[q] \in {"idle", "answered"} => Fresh(q)'
  BY DEF Fresh
<1>2. ASSUME NEW r \in Requests, Begin(r) PROVE SerialInv'
  BY <1>1, <1>2, SoloBegin DEF SerialInv, Fresh
<1>3. ASSUME NEW r \in Requests, Step(r) PROVE SerialInv'
  <2>1. Alone' /\ \A q \in Requests \ {r} : Fresh(q)'
    BY <1>1, <1>3, SoloMove DEF SerialInv
  <2>2. CASE Compare(r)
    <3>1. /\ UNCHANGED tables /\ row' = row
          /\ seen'[r] = RowInTable(r)
          /\ pc'[r] = UpdateLabel[pc[r]] /\ pc[r] \in DOMAIN UpdateLabel
      BY <2>2, CallFacts DEF Compare, Goto, CallsTypeOK
    <3>2. Fresh(r)'
      BY <3>1 DEF Fresh, RowInTable, UpdateLabel, At, tables
    <3>. QED
      BY <2>1, <3>2 DEF SerialInv
  <2>3. CASE ~Compare(r)
    <3>1. pc'[r] \notin UpdateLabels
      BY <1>3, <2>3, ComparesBeforeUpdate
    <3>2. Fresh(r)'
      BY <3>1 DEF Fresh, UpdateLabels, UpdateLabel
    <3>. QED
      BY <2>1, <3>2 DEF SerialInv
  <2>. QED
    BY <2>2, <2>3
<1>4. CASE UNCHANGED vars
  BY <1>4 DEF SerialInv, Alone, InProgress, Fresh, vars, tables, locals
<1>. QED
  BY <1>2, <1>3, <1>4 DEF Next, AllAnswered

LEMMA InitSerial == Init => SerialInv
BY DEF Init, SerialInv, Alone, InProgress, Fresh

-----------------------------------------------------------------------------
(* Assignments                                                              *)

Coherent(a) ==
  /\ a.status = "ON_THE_WAY" <=> a.assigned # NoDriver
  /\ a.assigned # NoDriver => a.assigned \in a.proposed

\* What a request is about to make of the row a.
OfferCopy(r, a) ==
  /\ Coherent(img[r])
  /\ \/ pc[r] \in {"search", "saveProposals", "updateProposals"}
     \/ op[r] = "reject"
     => img[r].status = a.status /\ img[r].assigned = a.assigned
  /\ pc[r] \in {"saveFailure", "updateFailure"} \/ op[r] = "cancel" =>
       img[r].status \in {"CANCELLED", "DRIVER_ASSIGNMENT_FAILED"}
  /\ op[r] = "accept" =>
       /\ img[r].status = "ON_THE_WAY" /\ img[r].assigned = driver[r]
       /\ a.assigned = NoDriver
       /\ driver[r] \notin a.rejected

OfferCall(r) ==
  /\ pc[r] \in SearchLabels \union AnswerLabels => OfferCopy(r, assignments[row[r]])
  /\ pc[r] = "insertTransit" => DriverAssigned
  /\ op[r] = "accept" /\ pc[r] \in {"markOccupied", "loadDetails"} =>
       /\ row[r] \in DOMAIN assignments
       /\ assignments[row[r]].assigned = driver[r]

OffersInv ==
  /\ \A i \in DOMAIN assignments : Coherent(assignments[i])
  /\ \A r \in Requests : OfferCall(r)

LEMMA NewIsCoherent == Coherent(NewAssignment)
BY DEF Coherent, NewAssignment

\* What each method of DriverAssignment does to status and driver.
LEMMA OfferMethods ==
  ASSUME NEW a \in Assignment, Coherent(a)
  PROVE  /\ CancelledAssignment(a).status = "CANCELLED"
         /\ Coherent(CancelledAssignment(a))
         /\ FailedAssignment(a).status = "DRIVER_ASSIGNMENT_FAILED"
         /\ Coherent(FailedAssignment(a))
         /\ \A d \in Drivers :
              /\ RejectedBy(a, d).status = a.status
              /\ RejectedBy(a, d).assigned = a.assigned
              /\ Coherent(RejectedBy(a, d))
              /\ AcceptedBy(a, d).status = "ON_THE_WAY"
              /\ AcceptedBy(a, d).assigned = d
              /\ CanAcceptBy(a, d) => Coherent(AcceptedBy(a, d))
<1>1. /\ CancelledAssignment(a).status = "CANCELLED"
      /\ Coherent(CancelledAssignment(a))
  BY DEF CancelledAssignment, Coherent, Assignment
<1>2. /\ FailedAssignment(a).status = "DRIVER_ASSIGNMENT_FAILED"
      /\ Coherent(FailedAssignment(a))
  BY DEF FailedAssignment, Coherent, Assignment
<1>3. ASSUME NEW d \in Drivers
      PROVE  /\ RejectedBy(a, d).status = a.status
             /\ RejectedBy(a, d).assigned = a.assigned
             /\ Coherent(RejectedBy(a, d))
  BY RejectingUpdate DEF Coherent
<1>4. ASSUME NEW d \in Drivers
      PROVE  /\ AcceptedBy(a, d).status = "ON_THE_WAY"
             /\ AcceptedBy(a, d).assigned = d
             /\ CanAcceptBy(a, d) => Coherent(AcceptedBy(a, d))
  BY AcceptingUpdate, EntityAssumption DEF Coherent, CanAcceptBy
<1>. QED
  BY <1>1, <1>2, <1>3, <1>4

\* Offering a ride to more drivers leaves its status and its driver.
LEMMA OffersGrow ==
  ASSUME NEW a \in Assignment, Coherent(a), NEW found \in SUBSET Drivers,
         NEW n \in Int
  PROVE  /\ ProposedTo(a, found, n).status = a.status
         /\ ProposedTo(a, found, n).assigned = a.assigned
         /\ Coherent(ProposedTo(a, found, n))
BY ProposingUpdate DEF Coherent

\* One at a time, the UPDATE of an assignment writes the copy.
LEMMA OfferSaved ==
  ASSUME IInv, SerialInv, NEW r \in Requests, UpdateAssignment(r)
  PROVE  /\ row[r] \in 1 .. Len(assignments) /\ img[r] \in Assignment
         /\ Len(assignments') = Len(assignments)
         /\ DOMAIN assignments' = DOMAIN assignments
         /\ assignments' = [assignments EXCEPT ![row[r]] = img[r]]
         /\ \A i \in 1 .. Len(assignments) :
              assignments'[i] = IF i = row[r] THEN img[r] ELSE assignments[i]
<1>1. pc[r] \in {"updateProposals", "updateFailure", "updateAssignment"}
  BY DEF UpdateAssignment
<1>2. row[r] \in 1 .. Len(assignments) /\ img[r] \in Assignment
  BY <1>1, CallFacts DEF CopyInv, SearchLabels, AnswerLabels
<1>3. Saved(r, assignments[row[r]]) = img[r]
  BY <1>1, <1>2, UpdatedFresh DEF Saved, SerialInv, Fresh
<1>4. assignments' = [assignments EXCEPT ![row[r]] = img[r]]
  BY <1>2, <1>3 DEF UpdateAssignment
<1>. QED
  BY <1>2, <1>4, CallFacts, Overwritten DEF RowsTypeOK

OfferLabels ==
  SearchLabels \union AnswerLabels \union {"insertTransit", "markOccupied"}

\* A request that has nothing to say of an assignment.
LEMMA NoOffer ==
  ASSUME NEW r \in Requests, pc'[r] \notin OfferLabels,
         pc'[r] = "loadDetails" => op'[r] # "accept"
  PROVE  OfferCall(r)'
BY DEF OfferCall, OfferLabels

LEMMA OffersStay ==
  ASSUME IInv, SerialInv, OffersInv, NEW r \in Requests, Step(r),
         assignments' = assignments, OfferCall(r)'
  PROVE  OffersInv'
<1>1. \A q \in Requests \ {r} : OfferCall(q)'
  BY SoloMove, NoOffer DEF SerialInv, OfferLabels, SearchLabels, AnswerLabels
<1>. QED
  BY <1>1 DEF OffersInv, Coherent

\* The steps that neither touch an assignment nor hold a copy of one.
LEMMA OfferBystanders ==
  ASSUME IInv, SerialInv, OffersInv, NEW r \in Requests,
         \/ DemandStep(r) \/ CheckNotAssigned(r) \/ StopSearch(r)
         \/ NoAssignment(r) \/ StartTransit(r) \/ NoTransit(r)
         \/ ChangeDestination(r) \/ CompleteTransit(r) \/ UpdateTransit(r)
         \/ NoDriverFee(r) \/ MarkNotOccupied(r) \/ DetailsStep(r)
  PROVE  OffersInv'
<1>1. Step(r)
  BY DEF Step, AssignmentStep, TransitStep
<1>2. assignments' = assignments
  BY DEF DemandStep, PublishDemand, NoDemand, CancelDemand, AcceptDemand,
     ChangePickup, UpdateDemand, CheckNotAssigned, StopSearch, NoAssignment,
     StartTransit, NoTransit, ChangeDestination, CompleteTransit,
     UpdateTransit, NoDriverFee, MarkNotOccupied, DetailsStep, LoadDetails,
     UpdateDetails, GenerateInvoice, Throw, tables
<1>3. CASE Finish(r)
  <2>1. pc'[r] = "answered"
    BY <1>3, CallFacts DEF Finish, CallsTypeOK
  <2>. QED
    BY <1>1, <1>2, <2>1, NoOffer, OffersStay
       DEF OfferLabels, SearchLabels, AnswerLabels
<1>4. CASE ~Finish(r)
  <2>1. PICK label \in {"insertAssignment", "loadAssignment", "saveDemand",
                        "loadDetails", "loadDemand", "saveTransit",
                        "driverFee", "saveDetails", "generateInvoice"} :
          /\ Goto(r, label) /\ op' = op
          /\ label = "loadDetails" => op[r] # "accept"
    <3>1. CASE DemandStep(r)
      BY <1>4, <3>1
         DEF DemandStep, PublishDemand, NoDemand, CancelDemand, AcceptDemand,
             ChangePickup, UpdateDemand, Throw, Hold, GotoAfterSave, locals
    <3>2. CASE CheckNotAssigned(r) \/ StopSearch(r) \/ NoAssignment(r)
      BY <1>4, <3>2, CallFacts
         DEF CheckNotAssigned, StopSearch, NoAssignment, Throw, locals, At,
             Route, SearchLabels
    <3>3. CASE \/ StartTransit(r) \/ NoTransit(r) \/ ChangeDestination(r)
               \/ CompleteTransit(r) \/ UpdateTransit(r) \/ NoDriverFee(r)
               \/ MarkNotOccupied(r)
      BY <1>4, <3>3, CallFacts
         DEF StartTransit, NoTransit, ChangeDestination, CompleteTransit,
             UpdateTransit, NoDriverFee, MarkNotOccupied, Throw, Hold,
             GotoAfterSave, locals, At, Route
    <3>4. CASE DetailsStep(r)
      BY <1>4, <3>4
         DEF DetailsStep, LoadDetails, UpdateDetails, GenerateInvoice, Hold,
             GotoAfterSave
    <3>. QED
      BY <3>1, <3>2, <3>3, <3>4
  <2>2. pc'[r] = label /\ op'[r] = op[r]
    BY <2>1, CallFacts DEF Goto, CallsTypeOK
  <2>. QED
    BY <1>1, <1>2, <2>1, <2>2, NoOffer, OffersStay
       DEF OfferLabels, SearchLabels, AnswerLabels
<1>. QED
  BY <1>3, <1>4

\* The copy of a search is that of the row it was loaded from, but for those
\* who were offered the ride.
LEMMA OfferSearches ==
  ASSUME IInv, SerialInv, OffersInv, NEW r \in Requests,
         LoadForSearch(r) \/ GiveUpSearch(r) \/ SearchRound(r)
  PROVE  OffersInv'
<1>1. Step(r) /\ assignments' = assignments
  BY DEF Step, AssignmentStep, LoadForSearch, GiveUpSearch, SearchRound, Throw,
     tables
<1>2. /\ op[r] \in {"publish", "findDrivers"} /\ op[r] # "accept"
      /\ op[r] \notin {"reject", "cancel", "accept"}
  BY CallFacts
     DEF LoadForSearch, GiveUpSearch, SearchRound, At, Route, SearchLabels
<1>3. CASE Finish(r)
  <2>1. pc'[r] = "answered"
    BY <1>3, CallFacts DEF Finish, CallsTypeOK
  <2>. QED
    BY <1>1, <2>1, NoOffer, OffersStay DEF OfferLabels, SearchLabels, AnswerLabels
<1>4. CASE LoadForSearch(r) /\ ~Finish(r)
  <2>1. PICK i \in DOMAIN assignments : Hold(r, i, assignments[i], "search")
    BY <1>4 DEF LoadForSearch, Throw
  <2>2. /\ pc'[r] = "search" /\ op'[r] = op[r] /\ row'[r] = i
        /\ img'[r] = assignments[i]
    BY <2>1, CallFacts DEF Hold, Goto, CallsTypeOK
  <2>3. OfferCall(r)'
    BY <1>1, <1>2, <2>2 DEF OfferCall, OfferCopy, OffersInv, Coherent
  <2>. QED
    BY <1>1, <2>3, OffersStay
<1>5. CASE GiveUpSearch(r) \/ SearchRound(r)
  <2>1. /\ pc[r] = "search" /\ img[r] \in Assignment
        /\ row' = row /\ op' = op
        /\ OfferCopy(r, assignments[row[r]])
    BY <1>5, CallFacts
       DEF GiveUpSearch, SearchRound, At, CopyInv, SearchLabels, OffersInv,
           OfferCall
  <2>2. CASE GiveUpSearch(r)
    <3>1. pc'[r] = "saveFailure" /\ img'[r] = FailedAssignment(img[r])
      BY <2>2, CallFacts DEF GiveUpSearch, Goto, CallsTypeOK
    <3>2. OfferCall(r)'
      BY <1>1, <1>2, <2>1, <3>1, OfferMethods DEF OfferCall, OfferCopy, Coherent
    <3>. QED
      BY <1>1, <3>2, OffersStay
  <2>3. CASE SearchRound(r)
    <3>1. PICK found \in SUBSET Drivers, n \in Int :
            /\ img'[r] = ProposedTo(img[r], found, n)
            /\ pc'[r] \in {"search", "saveProposals"}
      <4>1. PICK found \in SUBSET Drivers :
              \E n \in Cardinality(found \ img[r].rejected)
                         .. (MaxPositions * Cardinality(found \ img[r].rejected)) :
                /\ img' = [img EXCEPT ![r] = ProposedTo(img[r], found, n)]
                /\ Goto(r, IF found = {} THEN "search" ELSE "saveProposals")
        BY <2>3, Zenon DEF SearchRound
      <4>2. Cardinality(found \ img[r].rejected) \in Nat
        BY EntityAssumption, FS_Subset, FS_CardinalityType
      <4>3. \A c \in Nat : \A n \in c .. (MaxPositions * c) : n \in Int
        OBVIOUS
      <4>. QED
        BY <4>1, <4>2, <4>3, CallFacts DEF Goto, CallsTypeOK
    <3>2. OfferCall(r)'
      BY <1>1, <1>2, <2>1, <3>1, OffersGrow DEF OfferCall, OfferCopy, Coherent
    <3>. QED
      BY <1>1, <3>2, OffersStay
  <2>. QED
    BY <1>5, <2>2, <2>3
<1>. QED
  BY <1>3, <1>4, <1>5

\* What a request answers with is made of the row it has just loaded.
LEMMA OfferAnswers ==
  ASSUME IInv, SerialInv, OffersInv, NEW r \in Requests,
         CancelAssignment(r) \/ AcceptAssignment(r) \/ RejectAssignment(r)
  PROVE  OffersInv'
<1>1. Step(r) /\ assignments' = assignments
  BY DEF Step, AssignmentStep, CancelAssignment, AcceptAssignment,
     RejectAssignment, Throw, tables
<1>2. CASE Finish(r)
  <2>1. pc'[r] = "answered"
    BY <1>2, CallFacts DEF Finish, CallsTypeOK
  <2>. QED
    BY <1>1, <2>1, NoOffer, OffersStay DEF OfferLabels, SearchLabels, AnswerLabels
<1>3. CASE ~Finish(r)
  <2>. DEFINE Answer(a) == IF op[r] = "cancel" THEN CancelledAssignment(a)
                           ELSE IF op[r] = "accept" THEN AcceptedBy(a, driver[r])
                           ELSE RejectedBy(a, driver[r])
  <2>1. PICK i \in DOMAIN assignments :
          /\ Hold(r, i, Answer(assignments[i]), "saveAssignment")
          /\ op[r] = "accept" => CanAcceptBy(assignments[i], driver[r])
          /\ op[r] \in {"cancel", "accept", "reject"}
    BY <1>3 DEF CancelAssignment, AcceptAssignment, RejectAssignment, Throw
  <2>2. /\ pc'[r] = "saveAssignment" /\ op'[r] = op[r] /\ row'[r] = i
        /\ img'[r] = Answer(assignments[i]) /\ driver'[r] = driver[r]
    BY <2>1, CallFacts DEF Hold, Goto, CallsTypeOK
  <2>3. assignments[i] \in Assignment /\ Coherent(assignments[i])
    BY RowFacts DEF OffersInv
  <2>4. op[r] \in {"accept", "reject"} => driver[r] \in Drivers
    BY CallFacts DEF Route, TakesDriver
  <2>5. OfferCopy(r, assignments[i])'
    BY <1>1, <2>1, <2>2, <2>3, <2>4, OfferMethods
       DEF OfferCopy, CanAcceptBy, Coherent
  <2>6. OfferCall(r)'
    BY <1>1, <2>2, <2>5 DEF OfferCall
  <2>. QED
    BY <1>1, <2>6, OffersStay
<1>. QED
  BY <1>2, <1>3

LEMMA OfferMoves ==
  ASSUME IInv, SerialInv, OffersInv, NEW r \in Requests,
         CheckAssigned(r) \/ MarkOccupied(r) \/ Compare(r)
  PROVE  OffersInv'
<1>1. Step(r) /\ assignments' = assignments
  BY DEF Step, AssignmentStep, TransitStep, CheckAssigned, MarkOccupied,
     Compare, Throw, tables
<1>2. CASE CheckAssigned(r)
  <2>1. CASE DriverAssigned
    <3>1. pc'[r] = "insertTransit"
      BY <1>2, <2>1, CallFacts DEF CheckAssigned, Goto, CallsTypeOK
    <3>2. OfferCall(r)'
      BY <1>1, <2>1, <3>1
         DEF OfferCall, SearchLabels, AnswerLabels, DriverAssigned
    <3>. QED
      BY <1>1, <3>2, OffersStay
  <2>2. CASE ~DriverAssigned
    <3>1. pc'[r] = "answered"
      BY <1>2, <2>2, CallFacts DEF CheckAssigned, Throw, Finish, CallsTypeOK
    <3>. QED
      BY <1>1, <3>1, NoOffer, OffersStay
         DEF OfferLabels, SearchLabels, AnswerLabels
  <2>. QED
    BY <2>1, <2>2
<1>3. CASE MarkOccupied(r)
  <2>1. /\ pc[r] = "markOccupied" /\ op[r] = "accept"
        /\ pc'[r] = "loadDetails" /\ op'[r] = op[r]
        /\ row'[r] = row[r] /\ driver'[r] = driver[r]
    BY <1>3, CallFacts
       DEF MarkOccupied, At, Route, Goto, CallsTypeOK, locals
  <2>2. OfferCall(r)'
    BY <1>1, <2>1 DEF OfferCall, OffersInv, SearchLabels, AnswerLabels
  <2>. QED
    BY <1>1, <2>2, OffersStay
<1>4. CASE Compare(r)
  <2>1. /\ op'[r] = op[r] /\ row'[r] = row[r] /\ driver'[r] = driver[r]
        /\ img'[r] = img[r]
        /\ pc'[r] = UpdateLabel[pc[r]] /\ pc[r] \in DOMAIN UpdateLabel
    BY <1>4, CallFacts DEF Compare, Goto, CallsTypeOK
  <2>2. OfferCall(r)
    BY DEF OffersInv
  <2>3. OfferCall(r)'
    BY <1>1, <2>1, <2>2
       DEF OfferCall, OfferCopy, SearchLabels, AnswerLabels, UpdateLabel
  <2>. QED
    BY <1>1, <2>3, OffersStay
<1>. QED
  BY <1>2, <1>3, <1>4

LEMMA OfferSaves ==
  ASSUME IInv, SerialInv, OffersInv, NEW r \in Requests,
         StartAssigningDrivers(r) \/ UpdateAssignment(r)
  PROVE  OffersInv'
<1>1. Step(r)
  BY DEF Step, AssignmentStep
<1>2. \A q \in Requests \ {r} : OfferCall(q)'
  BY <1>1, SoloMove, NoOffer DEF SerialInv, OfferLabels, SearchLabels, AnswerLabels
<1>3. CASE StartAssigningDrivers(r)
  <2>1. assignments' = Append(assignments, NewAssignment)
    BY <1>3 DEF StartAssigningDrivers
  <2>2. /\ assignments' \in Seq(Assignment)
        /\ Len(assignments') = Len(assignments) + 1
        /\ Len(assignments) \in Nat
        /\ \A i \in 1 .. Len(assignments) : assignments'[i] = assignments[i]
        /\ assignments'[Len(assignments) + 1] = NewAssignment
    BY <2>1, CallFacts, OtherMethods, Inserted DEF RowsTypeOK
  <2>3. \A i \in 1 .. Len(assignments') :
          i \in 1 .. Len(assignments) \/ i = Len(assignments) + 1
    BY <2>2
  <2>4. \A i \in DOMAIN assignments' : Coherent(assignments'[i])
    BY <2>2, <2>3, NewIsCoherent, LenProperties, CallFacts DEF OffersInv
  <2>5. pc'[r] = "loadForSearch"
    BY <1>3, CallFacts DEF StartAssigningDrivers, Goto, CallsTypeOK
  <2>6. OfferCall(r)'
    BY <2>5, NoOffer DEF OfferLabels, SearchLabels, AnswerLabels
  <2>. QED
    BY <1>2, <2>4, <2>6 DEF OffersInv, Coherent
<1>4. CASE UpdateAssignment(r)
  <2>1. /\ row[r] \in DOMAIN assignments
        /\ DOMAIN assignments' = DOMAIN assignments
        /\ \A i \in DOMAIN assignments :
             assignments'[i] = IF i = row[r] THEN img[r] ELSE assignments[i]
    BY <1>4, OfferSaved, CallFacts
  <2>2. /\ pc[r] \in {"updateProposals", "updateFailure", "updateAssignment"}
        /\ OfferCopy(r, assignments[row[r]])
    BY <1>4 DEF UpdateAssignment, OffersInv, OfferCall, SearchLabels, AnswerLabels
  <2>3. \A i \in DOMAIN assignments' : Coherent(assignments'[i])
    BY <2>1, <2>2 DEF OfferCopy, OffersInv
  <2>4. CASE op[r] = "reject"
    <3>1. pc'[r] = "answered"
      BY <1>4, <2>4, CallFacts DEF UpdateAssignment, Finish, CallsTypeOK
    <3>2. OfferCall(r)'
      BY <3>1, NoOffer DEF OfferLabels, SearchLabels, AnswerLabels
    <3>. QED
      BY <1>2, <2>3, <3>2 DEF OffersInv, Coherent
  <2>5. CASE op[r] # "reject"
    <3>1. /\ pc'[r] = AfterUpdateAssignment(r) /\ op'[r] = op[r]
          /\ row'[r] = row[r] /\ driver'[r] = driver[r] /\ img'[r] = img[r]
      BY <1>4, <2>5, CallFacts
         DEF UpdateAssignment, GotoAfterSave, Goto, CallsTypeOK
    <3>2. /\ pc[r] = "updateProposals" => op[r] \in {"publish", "findDrivers"}
          /\ pc[r] = "updateFailure" => op[r] \in {"publish", "findDrivers"}
      BY CallFacts DEF Route, SearchLabels
    <3>3. CASE pc[r] = "updateProposals"
      <4>1. pc'[r] = "search" /\ assignments'[row'[r]] = img[r]
        BY <2>1, <3>1, <3>2, <3>3 DEF AfterUpdateAssignment, At
      <4>2. OfferCall(r)'
        BY <2>2, <3>1, <3>2, <3>3, <4>1 DEF OfferCall, OfferCopy, Coherent
      <4>. QED
        BY <1>2, <2>3, <4>2 DEF OffersInv, Coherent
    <3>4. CASE pc[r] # "updateProposals"
      <4>1. /\ op[r] = "accept" => pc'[r] = "markOccupied"
            /\ op[r] # "accept" => pc'[r] = "loadDetails"
        BY <3>1, <3>4 DEF AfterUpdateAssignment, At
      <4>2. op[r] = "accept" => assignments'[row'[r]].assigned = driver[r]
        BY <2>1, <2>2, <3>1 DEF OfferCopy
      <4>3. OfferCall(r)'
        BY <2>1, <3>1, <4>1, <4>2 DEF OfferCall, SearchLabels, AnswerLabels
      <4>. QED
        BY <1>2, <2>3, <4>3 DEF OffersInv, Coherent
    <3>. QED
      BY <3>3, <3>4
  <2>. QED
    BY <2>4, <2>5
<1>. QED
  BY <1>3, <1>4

LEMMA OffersBegin ==
  ASSUME ~Overlapping, IInv, OffersInv, NEW r \in Requests, Begin(r)
  PROVE  OffersInv'
<1>1. \A q \in Requests : OfferCall(q)'
  BY SoloBegin, NoOffer DEF OfferLabels, SearchLabels, AnswerLabels
<1>. QED
  BY <1>1, SoloBegin DEF OffersInv, tables, Coherent

LEMMA OffersStep ==
  ASSUME ~Overlapping, IInv, SerialInv, OffersInv, [Next]_vars
  PROVE  OffersInv'
<1>1. ASSUME NEW r \in Requests, Step(r) PROVE OffersInv'
  BY <1>1, OfferBystanders, OfferSearches, OfferAnswers, OfferMoves, OfferSaves
     DEF Step, AssignmentStep, TransitStep
<1>2. ASSUME NEW r \in Requests, Begin(r) PROVE OffersInv'
  BY <1>2, OffersBegin
<1>3. CASE UNCHANGED vars
  BY <1>3 DEF OffersInv, OfferCall, OfferCopy, Coherent, DriverAssigned, vars,
     tables, locals
<1>. QED
  BY <1>1, <1>2, <1>3 DEF Next, AllAnswered

LEMMA InitOffers == Init => OffersInv
<1>. SUFFICES ASSUME Init PROVE OffersInv
  OBVIOUS
<1>1. DOMAIN assignments = {}
  BY InitIInv, CallFacts, EmptySeq DEF Init, IInv, TypeOK, RowsTypeOK
<1>. QED
  BY <1>1 DEF Init, OffersInv, OfferCall, SearchLabels, AnswerLabels

\* Only these two steps write an assignment.
LEMMA OfferChanges ==
  ASSUME Next, assignments' # assignments
  PROVE  \E r \in Requests : StartAssigningDrivers(r) \/ UpdateAssignment(r)
<1>. USE DEF tables
<1>1. ASSUME NEW r \in Requests, DemandStep(r) PROVE FALSE
  BY <1>1 DEF DemandStep, PublishDemand, NoDemand, CancelDemand, AcceptDemand,
     ChangePickup, UpdateDemand, Throw
<1>2. ASSUME NEW r \in Requests, AssignmentStep(r)
      PROVE  StartAssigningDrivers(r) \/ UpdateAssignment(r)
  BY <1>2 DEF AssignmentStep, CheckNotAssigned, CheckAssigned, LoadForSearch,
     StopSearch, GiveUpSearch, SearchRound, NoAssignment, CancelAssignment,
     AcceptAssignment, RejectAssignment, Throw
<1>3. ASSUME NEW r \in Requests, TransitStep(r) PROVE FALSE
  BY <1>3 DEF TransitStep, StartTransit, NoTransit, ChangeDestination,
     CompleteTransit, UpdateTransit, MarkOccupied, NoDriverFee,
     MarkNotOccupied, Throw
<1>4. ASSUME NEW r \in Requests, DetailsStep(r) PROVE FALSE
  BY <1>4 DEF DetailsStep, LoadDetails, UpdateDetails, GenerateInvoice
<1>5. ASSUME NEW r \in Requests, Compare(r) \/ Begin(r) PROVE FALSE
  BY <1>5 DEF Compare, Begin
<1>. QED
  BY <1>1, <1>2, <1>3, <1>4, <1>5 DEF Next, Step, AllAnswered, vars

\* What a saved answer makes of an assignment, as the contract of a ride sees it.
LEMMA SavedOffer ==
  ASSUME IInv, SerialInv, OffersInv, NEW r \in Requests, UpdateAssignment(r)
  PROVE  LET a == assignments[row[r]] IN
         /\ row[r] \in DOMAIN assignments /\ img[r] \in Assignment
         /\ \/ /\ img[r].status = a.status /\ img[r].assigned = a.assigned
            \/ /\ img[r].status \in {"CANCELLED", "DRIVER_ASSIGNMENT_FAILED"}
               /\ img[r].assigned = NoDriver
            \/ /\ img[r].status = "ON_THE_WAY" /\ img[r].assigned = driver[r]
               /\ a.assigned = NoDriver /\ driver[r] \notin a.rejected
               /\ driver[r] \in Drivers /\ op[r] = "accept"
               /\ pc'[r] = "markOccupied" /\ driver'[r] = driver[r]
<1>1. pc[r] \in {"updateProposals", "updateFailure", "updateAssignment"}
  BY DEF UpdateAssignment
<1>2. /\ row[r] \in DOMAIN assignments /\ img[r] \in Assignment
      /\ OfferCopy(r, assignments[row[r]])
      /\ pc[r] = "updateAssignment" => op[r] \in {"cancel", "accept", "reject"}
      /\ pc[r] # "updateAssignment" => op[r] \in {"publish", "findDrivers"}
      /\ op[r] = "accept" => driver[r] \in Drivers
  BY <1>1, CallFacts, OfferSaved
     DEF OffersInv, OfferCall, SearchLabels, AnswerLabels, Route, TakesDriver
<1>3. ASSUME op[r] = "accept"
      PROVE  pc'[r] = "markOccupied" /\ driver'[r] = driver[r]
  <2>1. AfterUpdateAssignment(r) = "markOccupied"
    BY <1>1, <1>2, <1>3 DEF AfterUpdateAssignment, At
  <2>. QED
    BY <1>3, <2>1, CallFacts
       DEF UpdateAssignment, GotoAfterSave, Goto, CallsTypeOK
<1>. QED
  BY <1>1, <1>2, <1>3 DEF OfferCopy, Coherent

\* What the next invariants rest on.
LEMMA SerialRides ==
  ASSUME ~Overlapping
  PROVE  Spec => [](IInv /\ SerialInv /\ OffersInv)
<1>1. Init => IInv /\ SerialInv /\ OffersInv
  BY InitIInv, InitSerial, InitOffers
<1>2. IInv /\ SerialInv /\ OffersInv /\ [Next]_vars
        => (IInv /\ SerialInv /\ OffersInv)'
  BY NextIInv, SerialStep, OffersStep
<1>. QED
  BY <1>1, <1>2, PTL DEF Spec

\* AssignmentCoherent: when requests do not overlap, an assignment is
\* ON_THE_WAY exactly when it names a driver, one it was proposed to, whatever
\* searches, answers and cancellations came before.
THEOREM AssignmentsCoherent ==
  ASSUME ~Overlapping
  PROVE  Spec => []AssignmentCoherent
<1>1. OffersInv => AssignmentCoherent
  BY DEF OffersInv, Coherent, AssignmentCoherent
<1>. QED
  BY <1>1, SerialRides, PTL

\* RejectionIsRespected: no saved row gives the ride to a driver whose
\* rejection is in it, for all that acceptBy was checked some awaits before.
THEOREM RejectionsRespected ==
  ASSUME ~Overlapping
  PROVE  Spec => RejectionIsRespected
<1>. DEFINE Kept(i) ==
       assignments'[i].assigned # assignments[i].assigned =>
         assignments'[i].assigned \notin assignments[i].rejected
<1>1. ASSUME IInv, SerialInv, OffersInv, Next, assignments' # assignments,
             NEW i \in DOMAIN assignments
      PROVE  Kept(i)
  <2>1. PICK r \in Requests : StartAssigningDrivers(r) \/ UpdateAssignment(r)
    BY <1>1, OfferChanges
  <2>2. CASE StartAssigningDrivers(r)
    <3>1. assignments'[i] = assignments[i]
      BY <1>1, <2>2, CallFacts, OtherMethods, Inserted
         DEF StartAssigningDrivers, RowsTypeOK
    <3>. QED
      BY <3>1
  <2>3. CASE UpdateAssignment(r)
    <3>1. assignments'[i] = IF i = row[r] THEN img[r] ELSE assignments[i]
      BY <1>1, <2>3, OfferSaved, CallFacts
    <3>2. NoDriver \notin assignments[i].rejected
      BY <1>1, RowFacts, EntityAssumption DEF Assignment
    <3>. QED
      BY <1>1, <2>3, <3>1, <3>2, SavedOffer
  <2>. QED
    BY <2>1, <2>2, <2>3
<1>2. IInv /\ SerialInv /\ OffersInv /\ [Next]_vars =>
        [\A i \in DOMAIN assignments : Kept(i)]_assignments
  BY <1>1 DEF vars, tables
<1>. QED
  BY <1>2, SerialRides, PTL DEF Spec, RejectionIsRespected

-----------------------------------------------------------------------------
(* Occupied drivers                                                         *)

\* A completion that has freed a driver and will send an invoice.
Billing(r) ==
  /\ op[r] = "complete"
  /\ pc[r] \in {"loadDetails", "saveDetails", "updateDetails",
                "generateInvoice"}

\* The driver of a ride that is not billed is occupied, or is about to be, or
\* a completion that will send an invoice has just freed a driver.
OccupancyInv ==
  invoices = 0 =>
    \A i \in DOMAIN assignments :
      assignments[i].assigned # NoDriver =>
        \/ occupied[assignments[i].assigned]
        \/ \E r \in Requests :
             /\ pc[r] = "markOccupied"
             /\ driver[r] = assignments[i].assigned
        \/ \E r \in Requests : Billing(r)

\* A step that frees no driver, gives none the ride, and leads on from where
\* the occupied driver was about to be marked or the invoice to be sent.
LEMMA OccupancyKept ==
  ASSUME IInv, Alone, OccupancyInv, NEW r \in Requests, Step(r),
         assignments' = assignments, invoices' = invoices,
         \A d \in Drivers : occupied[d] => occupied'[d],
         pc[r] = "markOccupied" => occupied'[driver[r]],
         Billing(r) => Billing(r)'
  PROVE  OccupancyInv'
<1>. SUFFICES ASSUME invoices = 0, NEW i \in DOMAIN assignments,
                     assignments[i].assigned # NoDriver
              PROVE  \/ occupied'[assignments[i].assigned]
                     \/ \E q \in Requests : Billing(q)'
  BY DEF OccupancyInv
<1>1. assignments[i].assigned \in Drivers
  BY RowFacts DEF Assignment
<1>2. CASE occupied[assignments[i].assigned]
  BY <1>1, <1>2
<1>3. CASE \E q \in Requests : /\ pc[q] = "markOccupied"
                              /\ driver[q] = assignments[i].assigned
  BY <1>3, SoloMove
<1>4. CASE \E q \in Requests : Billing(q)
  BY <1>4, SoloMove DEF Billing
<1>. QED
  BY <1>2, <1>3, <1>4 DEF OccupancyInv

LEMMA OccupancyDemands ==
  ASSUME IInv, SerialInv, OccupancyInv, NEW r \in Requests, DemandStep(r)
  PROVE  OccupancyInv'
<1>1. /\ Step(r)
      /\ UNCHANGED <<assignments, invoices, occupied>>
      /\ pc[r] \in {"insertDemand", "loadDemand", "updateDemand"}
  BY DEF Step, DemandStep, PublishDemand, NoDemand, CancelDemand, AcceptDemand,
     ChangePickup, UpdateDemand, Throw, tables, At
<1>. QED
  BY <1>1, OccupancyKept DEF Billing, SerialInv

LEMMA OccupancyAssignments ==
  ASSUME IInv, SerialInv, OffersInv, OccupancyInv, NEW r \in Requests,
         AssignmentStep(r)
  PROVE  OccupancyInv'
<1>1. Step(r)
  BY DEF Step
<1>2. CASE ~StartAssigningDrivers(r) /\ ~UpdateAssignment(r)
  <2>1. /\ UNCHANGED <<assignments, invoices, occupied>>
        /\ pc[r] \in {"checkNotAssigned", "checkAssigned", "loadForSearch",
                      "search", "loadAssignment"}
    BY <1>2 DEF AssignmentStep, CheckNotAssigned, CheckAssigned, LoadForSearch,
       StopSearch, GiveUpSearch, SearchRound, NoAssignment, CancelAssignment,
       AcceptAssignment, RejectAssignment, Throw, tables, At
  <2>. QED
    BY <1>1, <2>1, OccupancyKept DEF Billing, SerialInv
<1>3. CASE StartAssigningDrivers(r) \/ UpdateAssignment(r)
  <2>. SUFFICES ASSUME invoices = 0, NEW i \in DOMAIN assignments',
                       assignments'[i].assigned # NoDriver
                PROVE  \/ occupied[assignments'[i].assigned]
                       \/ \E q \in Requests :
                            /\ pc'[q] = "markOccupied"
                            /\ driver'[q] = assignments'[i].assigned
    BY <1>3 DEF OccupancyInv, StartAssigningDrivers, UpdateAssignment
  <2>1. /\ pc[r] \in {"insertAssignment", "updateProposals", "updateFailure",
                      "updateAssignment"}
        /\ \A q \in Requests \ {r} : pc[q] \in {"idle", "answered"}
    BY <1>1, <1>3, SoloMove
       DEF StartAssigningDrivers, UpdateAssignment, At, SerialInv
  <2>2. \A j \in DOMAIN assignments :
          assignments[j].assigned # NoDriver => occupied[assignments[j].assigned]
    BY <2>1 DEF OccupancyInv, Billing
  <2>3. CASE StartAssigningDrivers(r)
    <3>1. /\ Len(assignments) \in Nat
          /\ Len(assignments') = Len(assignments) + 1
          /\ DOMAIN assignments' = 1 .. Len(assignments')
          /\ \A j \in 1 .. Len(assignments) : assignments'[j] = assignments[j]
          /\ assignments'[Len(assignments) + 1].assigned = NoDriver
      BY <2>3, CallFacts, OtherMethods, Inserted, LenProperties
         DEF StartAssigningDrivers, RowsTypeOK, NewAssignment
    <3>2. i \in 1 .. Len(assignments) /\ assignments'[i] = assignments[i]
      BY <3>1
    <3>. QED
      BY <2>2, <3>2, CallFacts
  <2>4. CASE UpdateAssignment(r)
    BY <2>2, <2>4, OfferSaved, SavedOffer, CallFacts
  <2>. QED
    BY <1>3, <2>3, <2>4
<1>. QED
  BY <1>2, <1>3

LEMMA OccupancyTransits ==
  ASSUME IInv, SerialInv, OccupancyInv, NEW r \in Requests, TransitStep(r)
  PROVE  OccupancyInv'
<1>1. Step(r) /\ UNCHANGED <<assignments, invoices>>
  BY DEF Step, TransitStep, StartTransit, NoTransit, ChangeDestination,
     CompleteTransit, UpdateTransit, MarkOccupied, NoDriverFee,
     MarkNotOccupied, Throw, tables
<1>2. CASE ~MarkOccupied(r) /\ ~MarkNotOccupied(r)
  <2>1. /\ UNCHANGED occupied
        /\ pc[r] \in {"insertTransit", "loadTransit", "updateTransit",
                      "driverFee"}
    BY <1>2 DEF TransitStep, StartTransit, NoTransit, ChangeDestination,
       CompleteTransit, UpdateTransit, NoDriverFee, Throw, tables, At
  <2>. QED
    BY <1>1, <2>1, OccupancyKept DEF Billing, SerialInv
<1>3. CASE MarkOccupied(r)
  <2>1. /\ pc[r] = "markOccupied" /\ driver[r] \in Drivers
        /\ occupied \in [Drivers -> BOOLEAN]
        /\ occupied' = [occupied EXCEPT ![driver[r]] = TRUE]
    BY <1>3, CallFacts DEF MarkOccupied, At, Route, TakesDriver, RowsTypeOK
  <2>. QED
    BY <1>1, <2>1, OccupancyKept DEF Billing, SerialInv
<1>4. CASE MarkNotOccupied(r)
  <2>1. pc[r] = "driverFee" /\ op[r] = "complete"
    BY <1>4, CallFacts DEF MarkNotOccupied, At, Route
  <2>2. pc'[r] = "loadDetails" /\ op'[r] = "complete"
    BY <1>4, <2>1, CallFacts DEF MarkNotOccupied, Goto, CallsTypeOK, locals
  <2>3. Billing(r)'
    BY <2>2 DEF Billing
  <2>. QED
    BY <2>3 DEF OccupancyInv
<1>. QED
  BY <1>2, <1>3, <1>4

LEMMA OccupancyDetails ==
  ASSUME IInv, SerialInv, OccupancyInv, NEW r \in Requests,
         DetailsStep(r) \/ Compare(r)
  PROVE  OccupancyInv'
<1>1. Step(r)
  BY DEF Step
<1>2. CASE GenerateInvoice(r)
  <2>1. invoices' # 0
    BY <1>2, CallFacts DEF GenerateInvoice, RowsTypeOK
  <2>. QED
    BY <2>1 DEF OccupancyInv
<1>3. CASE LoadDetails(r) \/ UpdateDetails(r)
  <2>1. /\ UNCHANGED <<assignments, invoices, occupied>>
        /\ pc[r] \in {"loadDetails", "updateDetails"}
    BY <1>3 DEF LoadDetails, UpdateDetails, tables, At
  <2>2. Billing(r) => Billing(r)'
    BY <1>3, CallFacts
       DEF LoadDetails, UpdateDetails, Hold, GotoAfterSave, Goto, CallsTypeOK,
           Billing
  <2>. QED
    BY <1>1, <2>1, <2>2, OccupancyKept DEF SerialInv
<1>4. CASE Compare(r)
  <2>1. /\ UNCHANGED <<assignments, invoices, occupied>>
        /\ pc[r] \in DOMAIN UpdateLabel
        /\ pc'[r] = UpdateLabel[pc[r]] /\ op'[r] = op[r]
    BY <1>4, CallFacts DEF Compare, tables, Goto, CallsTypeOK
  <2>2. Billing(r) => Billing(r)'
    BY <2>1 DEF Billing, UpdateLabel
  <2>3. pc[r] # "markOccupied"
    BY <2>1 DEF UpdateLabel
  <2>. QED
    BY <1>1, <2>1, <2>2, <2>3, OccupancyKept DEF SerialInv
<1>. QED
  BY <1>2, <1>3, <1>4 DEF DetailsStep

LEMMA OccupancyStep ==
  ASSUME ~Overlapping, IInv, SerialInv, OffersInv, OccupancyInv, [Next]_vars
  PROVE  OccupancyInv'
<1>1. ASSUME NEW r \in Requests, Step(r) PROVE OccupancyInv'
  BY <1>1, OccupancyDemands, OccupancyAssignments, OccupancyTransits,
     OccupancyDetails DEF Step
<1>2. ASSUME NEW r \in Requests, Begin(r) PROVE OccupancyInv'
  BY <1>2, SoloBegin DEF OccupancyInv, Billing, tables
<1>3. CASE UNCHANGED vars
  BY <1>3 DEF OccupancyInv, Billing, vars, tables, locals
<1>. QED
  BY <1>1, <1>2, <1>3 DEF Next, AllAnswered

\* AssignedDriverIsOccupied: as long as nothing is billed and no request is in
\* progress, the driver of a ride is occupied, whoever completes what in which
\* order.
THEOREM AssignedDriversOccupied ==
  ASSUME ~Overlapping
  PROVE  Spec => []AssignedDriverIsOccupied
<1>1. Init => OccupancyInv
  <2>. SUFFICES ASSUME Init PROVE OccupancyInv
    OBVIOUS
  <2>1. DOMAIN assignments = {}
    BY InitIInv, CallFacts, EmptySeq DEF Init, IInv, TypeOK, RowsTypeOK
  <2>. QED
    BY <2>1 DEF OccupancyInv
<1>2. OccupancyInv => AssignedDriverIsOccupied
  BY DEF OccupancyInv, AssignedDriverIsOccupied, Quiet, InProgress, Billing
<1>. QED
  BY <1>1, <1>2, OccupancyStep, SerialRides, PTL DEF Spec

-----------------------------------------------------------------------------
(* Pickup changes                                                           *)

\* One element for each change a demand counts.
Changes ==
  {p \in (1 .. Len(demands)) \X (1 .. 3) : p[2] <= demands[p[1]].changes}

PickupCall(r) ==
  pc[r] \in {"saveDemand", "updateDemand"} =>
    /\ op[r] = "changeFrom" =>
         /\ demands[row[r]].changes <= 2
         /\ img[r].changes = demands[row[r]].changes + 1
    /\ op[r] # "changeFrom" => img[r].changes = demands[row[r]].changes

PickupsInv ==
  /\ \A i \in DOMAIN demands : demands[i].changes <= 3
  /\ Cardinality(Changes) = pickups
  /\ \A r \in Requests : PickupCall(r)

LEMMA CountedTo ==
  ASSUME NEW n \in Nat
  PROVE  IsFiniteSet(1 .. n) /\ Cardinality(1 .. n) = n
<1>1. /\ IsFiniteSet(1 .. n)
      /\ Cardinality(1 .. n) = IF 1 > n THEN 0 ELSE n - 1 + 1
  BY 1 \in Int, n \in Int, FS_Interval
<1>. QED
  BY <1>1

LEMMA ChangesFinite ==
  ASSUME demands \in Seq(Demand)
  PROVE  /\ IsFiniteSet(Changes)
         /\ Cardinality(Changes) <= 3 * Len(demands)
<1>. DEFINE All == (1 .. Len(demands)) \X (1 .. 3)
<1>1. Len(demands) \in Nat
  BY LenProperties
<1>2. /\ IsFiniteSet(1 .. Len(demands))
      /\ Cardinality(1 .. Len(demands)) = Len(demands)
      /\ IsFiniteSet(1 .. 3) /\ Cardinality(1 .. 3) = 3
  BY <1>1, CountedTo
<1>3. IsFiniteSet(All) /\ Cardinality(All) = Len(demands) * 3
  <2>1. /\ IsFiniteSet(All)
        /\ Cardinality(All) = Cardinality(1 .. Len(demands)) * Cardinality(1 .. 3)
    <3>. HIDE DEF All
    <3>1. \A S, T : IsFiniteSet(S) /\ IsFiniteSet(T) =>
            /\ IsFiniteSet(S \X T)
            /\ Cardinality(S \X T) = Cardinality(S) * Cardinality(T)
      BY FS_Product, Zenon
    <3>. QED
      BY <1>2, <3>1, Zenon DEF All
  <2>. QED
    BY <1>2, <2>1
<1>4. Changes \in SUBSET All
  BY DEF Changes
<1>. HIDE DEF All
<1>5. IsFiniteSet(Changes) /\ Cardinality(Changes) <= Cardinality(All)
  BY <1>3, <1>4, FS_Subset
<1>. QED
  BY <1>1, <1>3, <1>5

\* One at a time, the UPDATE of a demand writes the copy.
LEMMA DemandSaved ==
  ASSUME IInv, SerialInv, NEW r \in Requests, UpdateDemand(r)
  PROVE  /\ row[r] \in 1 .. Len(demands) /\ img[r] \in Demand
         /\ Len(demands') = Len(demands)
         /\ \A i \in 1 .. Len(demands) :
              demands'[i] = IF i = row[r] THEN img[r] ELSE demands[i]
<1>1. pc[r] = "updateDemand"
  BY DEF UpdateDemand, At
<1>2. row[r] \in 1 .. Len(demands) /\ img[r] \in Demand
  BY <1>1, CallFacts DEF CopyInv
<1>3. Saved(r, demands[row[r]]) = img[r]
  BY <1>1, <1>2, UpdatedFresh DEF Saved, SerialInv, Fresh
<1>4. demands' = [demands EXCEPT ![row[r]] = img[r]]
  BY <1>2, <1>3 DEF UpdateDemand
<1>. QED
  BY <1>2, <1>4, CallFacts, Overwritten DEF RowsTypeOK

LEMMA PickupsStay ==
  ASSUME IInv, SerialInv, PickupsInv, NEW r \in Requests, Step(r),
         demands' = demands, pickups' = pickups, PickupCall(r)'
  PROVE  PickupsInv'
<1>1. \A q \in Requests \ {r} : PickupCall(q)'
  BY SoloMove DEF SerialInv, PickupCall
<1>. QED
  BY <1>1 DEF PickupsInv, Changes

\* The steps that neither touch a demand nor hold a copy of one.
LEMMA PickupBystanders ==
  ASSUME IInv, SerialInv, PickupsInv, NEW r \in Requests,
         \/ AssignmentStep(r) \/ TransitStep(r) \/ DetailsStep(r) \/ NoDemand(r)
  PROVE  PickupsInv'
<1>1. Step(r)
  BY DEF Step, DemandStep
<1>2. demands' = demands /\ pickups' = pickups
  BY DEF AssignmentStep, CheckNotAssigned, CheckAssigned, LoadForSearch,
     StopSearch, GiveUpSearch, SearchRound, NoAssignment, CancelAssignment,
     AcceptAssignment, RejectAssignment, StartAssigningDrivers,
     UpdateAssignment, TransitStep, StartTransit, NoTransit,
     ChangeDestination, CompleteTransit, UpdateTransit, MarkOccupied,
     NoDriverFee, MarkNotOccupied, DetailsStep, LoadDetails, UpdateDetails,
     GenerateInvoice, NoDemand, Throw, tables, history
<1>3. pc'[r] \notin {"saveDemand", "updateDemand"}
  <2>1. \A label \in Labels \ {"saveDemand", "updateDemand"} :
          Goto(r, label) => pc'[r] \notin {"saveDemand", "updateDemand"}
    BY CallFacts DEF Goto, CallsTypeOK
  <2>2. Finish(r) => pc'[r] \notin {"saveDemand", "updateDemand"}
    BY CallFacts DEF Finish, CallsTypeOK
  <2>3. /\ {"loadDemand", "insertTransit", "loadForSearch", "search",
             "saveProposals", "saveFailure", "loadAssignment",
             "saveAssignment", "saveTransit", "driverFee", "markOccupied",
             "loadDetails", "saveDetails", "generateInvoice"}
             \subseteq Labels \ {"saveDemand", "updateDemand"}
    BY DEF Labels
  <2>4. CASE AssignmentStep(r)
    BY <2>1, <2>2, <2>3, <2>4
       DEF AssignmentStep, CheckNotAssigned, CheckAssigned,
           StartAssigningDrivers, LoadForSearch, StopSearch, GiveUpSearch,
           SearchRound, NoAssignment, CancelAssignment, AcceptAssignment,
           RejectAssignment, UpdateAssignment, AfterUpdateAssignment, Throw,
           Hold, GotoAfterSave
  <2>5. CASE TransitStep(r)
    BY <2>1, <2>2, <2>3, <2>5
       DEF TransitStep, StartTransit, NoTransit, ChangeDestination,
           CompleteTransit, UpdateTransit, MarkOccupied, NoDriverFee,
           MarkNotOccupied, Throw, Hold, GotoAfterSave
  <2>6. CASE DetailsStep(r) \/ NoDemand(r)
    BY <2>1, <2>2, <2>3, <2>6
       DEF DetailsStep, LoadDetails, UpdateDetails, GenerateInvoice, Hold,
           GotoAfterSave, NoDemand
  <2>. QED
    BY <2>4, <2>5, <2>6
<1>. QED
  BY <1>1, <1>2, <1>3, PickupsStay DEF PickupCall

\* What the methods of a demand do to the number of its changes.
LEMMA ChangeMethods ==
  ASSUME NEW m \in Demand
  PROVE  /\ PickupChanged(m).changes = m.changes + 1
         /\ AcceptedDemand(m).changes = m.changes
         /\ CancelledDemand(m).changes = m.changes
         /\ \A near \in BOOLEAN : CanChangePickup(m, near) => m.changes <= 2
         /\ m.changes \in Nat
BY DEF Demand, PickupChanged, AcceptedDemand, CancelledDemand, CanChangePickup

LEMMA PickupReads ==
  ASSUME IInv, SerialInv, PickupsInv, NEW r \in Requests,
         CancelDemand(r) \/ AcceptDemand(r) \/ ChangePickup(r) \/ Compare(r)
  PROVE  PickupsInv'
<1>1. /\ Step(r) /\ demands' = demands /\ pickups' = pickups
  BY DEF Step, DemandStep, CancelDemand, AcceptDemand, ChangePickup, Compare,
     Throw, tables, history
<1>2. CASE Finish(r)
  BY <1>1, <1>2, CallFacts, PickupsStay DEF Finish, CallsTypeOK, PickupCall
<1>3. CASE Compare(r)
  <2>1. /\ op'[r] = op[r] /\ row'[r] = row[r] /\ img'[r] = img[r]
        /\ pc'[r] = UpdateLabel[pc[r]] /\ pc[r] \in DOMAIN UpdateLabel
    BY <1>3, CallFacts DEF Compare, Goto, CallsTypeOK
  <2>2. PickupCall(r)'
    BY <1>1, <2>1 DEF PickupsInv, PickupCall, UpdateLabel
  <2>. QED
    BY <1>1, <2>2, PickupsStay
<1>4. CASE ~Finish(r) /\ ~Compare(r)
  <2>. DEFINE Answer(m) == IF op[r] = "cancel" THEN CancelledDemand(m)
                           ELSE IF op[r] = "accept" THEN AcceptedDemand(m)
                           ELSE PickupChanged(m)
  <2>1. PICK i \in DOMAIN demands :
          /\ Hold(r, i, Answer(demands[i]), "saveDemand")
          /\ op[r] = "changeFrom" =>
               \E near \in BOOLEAN : CanChangePickup(demands[i], near)
          /\ op[r] \in {"cancel", "accept", "changeFrom"}
    BY <1>4 DEF CancelDemand, AcceptDemand, ChangePickup, Throw
  <2>2. /\ pc'[r] = "saveDemand" /\ op'[r] = op[r] /\ row'[r] = i
        /\ img'[r] = Answer(demands[i])
    BY <2>1, CallFacts DEF Hold, Goto, CallsTypeOK
  <2>3. demands[i] \in Demand
    BY RowFacts
  <2>4. PickupCall(r)'
    BY <1>1, <2>1, <2>2, <2>3, ChangeMethods DEF PickupCall
  <2>. QED
    BY <1>1, <2>4, PickupsStay
<1>. QED
  BY <1>2, <1>3, <1>4

LEMMA PickupSaves ==
  ASSUME IInv, SerialInv, PickupsInv, NEW r \in Requests,
         PublishDemand(r) \/ UpdateDemand(r)
  PROVE  PickupsInv'
<1>1. /\ demands \in Seq(Demand) /\ Len(demands) \in Nat
      /\ DOMAIN demands = 1 .. Len(demands)
      /\ \A i \in 1 .. Len(demands) : demands[i].changes \in 0 .. 3
  <2>1. /\ demands \in Seq(Demand) /\ Len(demands) \in Nat
        /\ DOMAIN demands = 1 .. Len(demands)
    BY CallFacts DEF RowsTypeOK
  <2>2. \A i \in DOMAIN demands : demands[i].changes \in Nat
    BY RowFacts, ChangeMethods
  <2>3. \A i \in DOMAIN demands : demands[i].changes <= 3
    BY DEF PickupsInv
  <2>. QED
    BY <2>1, <2>2, <2>3
<1>2. DOMAIN demands' = 1 .. Len(demands')
  BY NextIInv, CallFacts
     DEF Next, Step, DemandStep
<1>3. \A q \in Requests : PickupCall(q)'
  <2>1. Step(r)
    BY DEF Step, DemandStep
  <2>2. pc'[r] \notin {"saveDemand", "updateDemand"}
    BY CallFacts
       DEF PublishDemand, UpdateDemand, GotoAfterSave, Goto, CallsTypeOK
  <2>. QED
    BY <2>1, <2>2, SoloMove DEF SerialInv, PickupCall
<1>4. CASE PublishDemand(r)
  <2>1. /\ Len(demands') = Len(demands) + 1
        /\ \A i \in 1 .. Len(demands) : demands'[i] = demands[i]
        /\ demands'[Len(demands) + 1].changes = 0
        /\ pickups' = pickups
    BY <1>1, <1>4, OtherMethods, Inserted DEF PublishDemand, NewDemand, history
  <2>2. \A i \in 1 .. Len(demands') :
          i \in 1 .. Len(demands) \/ i = Len(demands) + 1
    BY <1>1, <2>1
  <2>3. Changes' = Changes
    BY <1>1, <2>1, <2>2 DEF Changes
  <2>4. \A i \in DOMAIN demands' : demands'[i].changes <= 3
    BY <1>1, <1>2, <2>1, <2>2
  <2>. QED
    BY <1>3, <2>1, <2>3, <2>4 DEF PickupsInv
<1>5. CASE UpdateDemand(r)
  <2>. DEFINE i == row[r]
              c == demands[i].changes
  <2>1. /\ i \in 1 .. Len(demands) /\ Len(demands') = Len(demands)
        /\ \A j \in 1 .. Len(demands) :
             demands'[j] = IF j = i THEN img[r] ELSE demands[j]
        /\ pickups' = IF op[r] = "changeFrom" THEN pickups + 1 ELSE pickups
    BY <1>5, DemandSaved DEF UpdateDemand
  <2>2. /\ op[r] = "changeFrom" => c <= 2 /\ img[r].changes = c + 1
        /\ op[r] # "changeFrom" => img[r].changes = c
    BY <1>5 DEF UpdateDemand, At, PickupsInv, PickupCall
  <2>3. \A j \in DOMAIN demands' : demands'[j].changes <= 3
    BY <1>1, <1>2, <2>1, <2>2
  <2>4. CASE op[r] # "changeFrom"
    <3>1. Changes' = Changes
      BY <1>1, <2>1, <2>2, <2>4 DEF Changes
    <3>. QED
      BY <1>3, <2>1, <2>3, <2>4, <3>1 DEF PickupsInv
  <2>5. CASE op[r] = "changeFrom"
    <3>. HIDE DEF i
    <3>1. Changes' = Changes \union {<<i, c + 1>>}
      <4>1. \A p \in (1 .. Len(demands)) \X (1 .. 3) :
              p[2] <= demands'[p[1]].changes
                <=> p[2] <= demands[p[1]].changes \/ p = <<i, c + 1>>
        BY <1>1, <2>1, <2>2, <2>5
      <4>2. <<i, c + 1>> \in (1 .. Len(demands)) \X (1 .. 3)
        BY <1>1, <2>1, <2>2, <2>5
      <4>. QED
        BY <2>1, <4>1, <4>2 DEF Changes
    <3>2. <<i, c + 1>> \notin Changes
      BY <1>1, <2>1 DEF Changes
    <3>3. Cardinality(Changes') = Cardinality(Changes) + 1
      BY <1>1, <3>1, <3>2, ChangesFinite, FS_AddElement
    <3>. QED
      BY <1>3, <2>1, <2>3, <2>5, <3>3 DEF PickupsInv
  <2>. QED
    BY <2>4, <2>5
<1>. QED
  BY <1>4, <1>5

LEMMA PickupsStep ==
  ASSUME ~Overlapping, IInv, SerialInv, PickupsInv, [Next]_vars
  PROVE  PickupsInv'
<1>1. ASSUME NEW r \in Requests, Step(r) PROVE PickupsInv'
  BY <1>1, PickupBystanders, PickupReads, PickupSaves DEF Step, DemandStep
<1>2. ASSUME NEW r \in Requests, Begin(r) PROVE PickupsInv'
  BY <1>2, SoloBegin DEF PickupsInv, PickupCall, Changes, tables, history
<1>3. CASE UNCHANGED vars
  BY <1>3 DEF PickupsInv, PickupCall, Changes, vars, tables, locals, history
<1>. QED
  BY <1>1, <1>2, <1>3 DEF Next, AllAnswered

\* ThreePickupChangesPerDemand: a ride has at most three changes of its pickup
\* for each time it was published, however they fall on its demands: the
\* changes saved are those the demands count.
THEOREM ThreePickupChanges ==
  ASSUME ~Overlapping
  PROVE  Spec => []ThreePickupChangesPerDemand
<1>1. Init => PickupsInv
  <2>. SUFFICES ASSUME Init PROVE PickupsInv
    OBVIOUS
  <2>1. DOMAIN demands = {} /\ Len(demands) = 0 /\ pickups = 0
    BY InitIInv, CallFacts, EmptySeq DEF Init, IInv, TypeOK, RowsTypeOK
  <2>2. Changes = {}
    BY <2>1 DEF Changes
  <2>. QED
    BY <2>1, <2>2, FS_EmptySet DEF Init, PickupsInv, PickupCall
<1>2. IInv /\ PickupsInv => ThreePickupChangesPerDemand
  BY ChangesFinite
     DEF PickupsInv, ThreePickupChangesPerDemand, IInv, TypeOK, RowsTypeOK
<1>. QED
  BY <1>1, <1>2, PickupsStep, SerialRides, PTL DEF Spec

-----------------------------------------------------------------------------
(* Transits and invoices                                                    *)

CompletedTransits ==
  {i \in 1 .. Len(transits) : transits[i].status = "completed"}

\* A completion whose transit is saved and that has sent no invoice yet.
Owing(r) ==
  /\ op[r] = "complete"
  /\ pc[r] \in {"driverFee", "loadDetails", "saveDetails", "updateDetails",
                "generateInvoice"}

TripCall(r) ==
  /\ pc[r] \in {"saveTransit", "updateTransit"} =>
       /\ transits[row[r]].status = "in_transit"
       /\ img[r].status = IF op[r] = "complete" THEN "completed"
                                                ELSE "in_transit"
  /\ op[r] = "complete" /\ pc[r] \in {"driverFee", "loadDetails"} =>
       /\ img[r].status = "completed"
       /\ \E i \in 1 .. Len(transits) : transits[i] = img[r]
  /\ Owing(r) => invoices < Cardinality(CompletedTransits)
  /\ op[r] = "start" /\ pc[r] = "loadDetails" => transits # <<>>

TripsInv ==
  /\ invoices <= Cardinality(CompletedTransits)
  /\ \A r \in Requests : TripCall(r)

LEMMA CompletedFinite ==
  ASSUME IInv
  PROVE  /\ IsFiniteSet(CompletedTransits)
         /\ Cardinality(CompletedTransits) \in Nat
<1>1. Len(transits) \in Nat
  BY LenProperties DEF IInv, TypeOK, RowsTypeOK
<1>2. IsFiniteSet(1 .. Len(transits))
  BY <1>1, CountedTo
<1>3. CompletedTransits \in SUBSET (1 .. Len(transits))
  BY DEF CompletedTransits
<1>. QED
  BY <1>2, <1>3, FS_Subset, FS_CardinalityType

\* One at a time, the UPDATE of a transit writes the copy.
LEMMA TransitSaved ==
  ASSUME IInv, SerialInv, NEW r \in Requests, UpdateTransit(r)
  PROVE  /\ row[r] \in 1 .. Len(transits) /\ img[r] \in Transit
         /\ Len(transits') = Len(transits)
         /\ transits' = [transits EXCEPT ![row[r]] = img[r]]
         /\ \A i \in 1 .. Len(transits) :
              transits'[i] = IF i = row[r] THEN img[r] ELSE transits[i]
<1>1. pc[r] = "updateTransit"
  BY DEF UpdateTransit, At
<1>2. row[r] \in 1 .. Len(transits) /\ img[r] \in Transit
  BY <1>1, CallFacts DEF CopyInv
<1>3. Saved(r, transits[row[r]]) = img[r]
  BY <1>1, <1>2, UpdatedFresh DEF Saved, SerialInv, Fresh
<1>4. transits' = [transits EXCEPT ![row[r]] = img[r]]
  BY <1>2, <1>3 DEF UpdateTransit
<1>. QED
  BY <1>2, <1>4, CallFacts, Overwritten DEF RowsTypeOK

TripLabels ==
  { "saveTransit", "updateTransit", "driverFee", "loadDetails",
    "saveDetails", "updateDetails", "generateInvoice" }

\* A request that has nothing to say of a transit.
LEMMA NoTrip ==
  ASSUME NEW r \in Requests,
         pc'[r] \in TripLabels =>
           /\ pc'[r] \in {"loadDetails", "saveDetails", "updateDetails"}
           /\ op'[r] # "complete"
           /\ pc'[r] = "loadDetails" => op'[r] # "start"
  PROVE  TripCall(r)'
BY DEF TripCall, TripLabels, Owing

LEMMA TripsStay ==
  ASSUME IInv, SerialInv, TripsInv, NEW r \in Requests, Step(r),
         transits' = transits, invoices' = invoices, TripCall(r)'
  PROVE  TripsInv'
<1>1. \A q \in Requests \ {r} : TripCall(q)'
  BY SoloMove, NoTrip DEF SerialInv, TripLabels
<1>2. CompletedTransits' = CompletedTransits
  BY DEF CompletedTransits
<1>. QED
  BY <1>1, <1>2 DEF TripsInv

\* The steps that neither touch a transit nor hold a copy of one.
LEMMA TripBystanders ==
  ASSUME IInv, SerialInv, TripsInv, NEW r \in Requests,
         \/ DemandStep(r) \/ AssignmentStep(r) \/ NoTransit(r)
         \/ MarkOccupied(r) \/ NoDriverFee(r)
  PROVE  TripsInv'
<1>1. Step(r)
  BY DEF Step, TransitStep
<1>2. transits' = transits /\ invoices' = invoices
  BY DEF DemandStep, PublishDemand, NoDemand, CancelDemand, AcceptDemand,
     ChangePickup, UpdateDemand, AssignmentStep, CheckNotAssigned,
     CheckAssigned, LoadForSearch, StopSearch, GiveUpSearch, SearchRound,
     NoAssignment, CancelAssignment, AcceptAssignment, RejectAssignment,
     StartAssigningDrivers, UpdateAssignment, NoTransit, MarkOccupied,
     NoDriverFee, Throw, tables
<1>3. CASE Finish(r)
  <2>1. pc'[r] = "answered"
    BY <1>3, CallFacts DEF Finish, CallsTypeOK
  <2>. QED
    BY <1>1, <1>2, <2>1, NoTrip, TripsStay DEF TripLabels
<1>4. CASE ~Finish(r)
  <2>1. PICK label \in {"insertAssignment", "loadAssignment", "saveDemand",
                        "loadDetails", "loadDemand", "insertTransit",
                        "loadForSearch", "search", "saveProposals",
                        "saveFailure", "saveAssignment", "markOccupied"} :
          /\ Goto(r, label) /\ op' = op
          /\ label = "loadDetails" => op[r] \notin {"complete", "start"}
    <3>1. CASE DemandStep(r)
      BY <1>4, <3>1
         DEF DemandStep, PublishDemand, NoDemand, CancelDemand, AcceptDemand,
             ChangePickup, UpdateDemand, Throw, Hold, GotoAfterSave, locals
    <3>2. CASE AssignmentStep(r) /\ ~UpdateAssignment(r)
      BY <1>4, <3>2, CallFacts
         DEF AssignmentStep, CheckNotAssigned, CheckAssigned,
             StartAssigningDrivers, LoadForSearch, StopSearch, GiveUpSearch,
             SearchRound, NoAssignment, CancelAssignment, AcceptAssignment,
             RejectAssignment, Throw, Hold, locals, At, Route, SearchLabels
    <3>3. CASE UpdateAssignment(r)
      <4>1. /\ Goto(r, AfterUpdateAssignment(r)) /\ op' = op
            /\ pc[r] \in {"updateProposals", "updateFailure",
                          "updateAssignment"}
        BY <1>4, <3>3 DEF UpdateAssignment, GotoAfterSave
      <4>2. op[r] \notin {"complete", "start"}
        BY <4>1, CallFacts DEF Route, SearchLabels, AnswerLabels
      <4>3. AfterUpdateAssignment(r) \in
              {"search", "markOccupied", "loadDetails"}
        BY DEF AfterUpdateAssignment
      <4>. QED
        BY <4>1, <4>2, <4>3
    <3>4. CASE NoTransit(r) \/ MarkOccupied(r) \/ NoDriverFee(r)
      BY <1>4, <3>4, CallFacts
         DEF NoTransit, MarkOccupied, NoDriverFee, Throw, locals, At, Route
    <3>. QED
      BY <3>1, <3>2, <3>3, <3>4
  <2>2. pc'[r] = label /\ op'[r] = op[r]
    BY <2>1, CallFacts DEF Goto, CallsTypeOK
  <2>. QED
    BY <1>1, <1>2, <2>1, <2>2, NoTrip, TripsStay DEF TripLabels
<1>. QED
  BY <1>3, <1>4

\* The copy of a transit is made of a row that is in transit, and so is the
\* row when the copy is saved.
LEMMA TripReads ==
  ASSUME IInv, SerialInv, TripsInv, NEW r \in Requests,
         ChangeDestination(r) \/ CompleteTransit(r)
  PROVE  TripsInv'
<1>1. Step(r) /\ transits' = transits /\ invoices' = invoices
  BY DEF Step, TransitStep, ChangeDestination, CompleteTransit, Throw, tables
<1>2. CASE Finish(r)
  <2>1. pc'[r] = "answered"
    BY <1>2, CallFacts DEF Finish, CallsTypeOK
  <2>. QED
    BY <1>1, <2>1, NoTrip, TripsStay DEF TripLabels
<1>3. CASE ~Finish(r)
  <2>1. PICK i \in DOMAIN transits, km \in MapDistances :
          \/ /\ op[r] = "changeTo" /\ CanChangeDestination(transits[i], km)
             /\ Hold(r, i, DestinationChanged(transits[i], km), "saveTransit")
          \/ /\ op[r] = "complete" /\ CanComplete(transits[i])
             /\ Hold(r, i, CompletedAt(transits[i], km), "saveTransit")
    BY <1>3 DEF ChangeDestination, CompleteTransit, Throw
  <2>2. /\ pc'[r] = "saveTransit" /\ op'[r] = op[r] /\ row'[r] = i
        /\ img'[r] = IF op[r] = "complete" THEN CompletedAt(transits[i], km)
                                           ELSE DestinationChanged(transits[i], km)
    BY <2>1, CallFacts DEF Hold, Goto, CallsTypeOK
  <2>3. transits[i] \in Transit
    BY RowFacts
  <2>4. /\ transits[i].status = "in_transit"
        /\ CompletedAt(transits[i], km).status = "completed"
        /\ DestinationChanged(transits[i], km).status = "in_transit"
    BY <2>1, <2>3 DEF CanChangeDestination, CanComplete, Transit, CompletedAt,
       DestinationChanged
  <2>5. TripCall(r)'
    BY <1>1, <2>1, <2>2, <2>4 DEF TripCall, Owing
  <2>. QED
    BY <1>1, <2>5, TripsStay
<1>. QED
  BY <1>2, <1>3

LEMMA TripMoves ==
  ASSUME IInv, SerialInv, TripsInv, NEW r \in Requests,
         Compare(r) \/ MarkNotOccupied(r) \/ LoadDetails(r) \/ UpdateDetails(r)
  PROVE  TripsInv'
<1>1. Step(r) /\ transits' = transits /\ invoices' = invoices
  BY DEF Step, TransitStep, DetailsStep, Compare, MarkNotOccupied, LoadDetails,
     UpdateDetails, Throw, tables
<1>2. TripCall(r) /\ CompletedTransits' = CompletedTransits
  BY <1>1 DEF TripsInv, CompletedTransits
<1>3. CASE Compare(r)
  <2>1. /\ op'[r] = op[r] /\ row'[r] = row[r] /\ img'[r] = img[r]
        /\ pc'[r] = UpdateLabel[pc[r]] /\ pc[r] \in DOMAIN UpdateLabel
    BY <1>3, CallFacts DEF Compare, Goto, CallsTypeOK
  <2>2. TripCall(r)'
    BY <1>1, <1>2, <2>1 DEF TripCall, Owing, UpdateLabel
  <2>. QED
    BY <1>1, <2>2, TripsStay
<1>4. CASE MarkNotOccupied(r)
  <2>1. /\ pc[r] = "driverFee" /\ op[r] = "complete"
        /\ pc'[r] = "loadDetails" /\ op'[r] = op[r] /\ img'[r] = img[r]
    BY <1>4, CallFacts
       DEF MarkNotOccupied, At, Route, Goto, CallsTypeOK, locals
  <2>2. TripCall(r)'
    BY <1>1, <1>2, <2>1 DEF TripCall, Owing
  <2>. QED
    BY <1>1, <2>2, TripsStay
<1>5. CASE LoadDetails(r)
  <2>1. /\ pc[r] = "loadDetails" /\ pc'[r] = "saveDetails" /\ op'[r] = op[r]
    BY <1>5, CallFacts DEF LoadDetails, At, Hold, Goto, CallsTypeOK
  <2>2. TripCall(r)'
    BY <1>1, <1>2, <2>1 DEF TripCall, Owing
  <2>. QED
    BY <1>1, <2>2, TripsStay
<1>6. CASE UpdateDetails(r)
  <2>1. CASE op[r] = "complete"
    <3>1. /\ pc[r] = "updateDetails" /\ pc'[r] = "generateInvoice"
          /\ op'[r] = op[r]
      BY <1>6, <2>1, CallFacts
         DEF UpdateDetails, At, GotoAfterSave, Goto, CallsTypeOK
    <3>2. TripCall(r)'
      BY <1>1, <1>2, <3>1 DEF TripCall, Owing
    <3>. QED
      BY <1>1, <3>2, TripsStay
  <2>2. CASE op[r] # "complete"
    <3>1. pc'[r] = "answered"
      BY <1>6, <2>2, CallFacts DEF UpdateDetails, Finish, CallsTypeOK
    <3>. QED
      BY <1>1, <3>1, NoTrip, TripsStay DEF TripLabels
  <2>. QED
    BY <2>1, <2>2
<1>. QED
  BY <1>3, <1>4, <1>5, <1>6

\* A start adds a transit in transit, and a saved completion completes one more.
LEMMA TripSaves ==
  ASSUME IInv, SerialInv, TripsInv, NEW r \in Requests,
         StartTransit(r) \/ UpdateTransit(r) \/ GenerateInvoice(r)
  PROVE  TripsInv'
<1>1. Step(r)
  BY DEF Step, TransitStep, DetailsStep
<1>2. \A q \in Requests \ {r} : TripCall(q)'
  BY <1>1, SoloMove, NoTrip DEF SerialInv, TripLabels
<1>3. /\ transits \in Seq(Transit) /\ Len(transits) \in Nat /\ invoices \in Nat
      /\ Cardinality(CompletedTransits) \in Nat
      /\ IsFiniteSet(CompletedTransits)
  BY CallFacts, CompletedFinite DEF RowsTypeOK
<1>4. CASE StartTransit(r)
  <2>1. /\ Len(transits') = Len(transits) + 1 /\ transits' # <<>>
        /\ \A i \in 1 .. Len(transits) : transits'[i] = transits[i]
        /\ transits'[Len(transits) + 1].status = "in_transit"
        /\ invoices' = invoices
    BY <1>3, <1>4, OtherMethods, Inserted DEF StartTransit, NewTransit
  <2>2. \A i \in 1 .. Len(transits') :
          i \in 1 .. Len(transits) \/ i = Len(transits) + 1
    BY <1>3, <2>1
  <2>3. CompletedTransits' = CompletedTransits
    BY <1>3, <2>1, <2>2 DEF CompletedTransits
  <2>4. /\ pc[r] = "insertTransit" /\ op[r] = "start"
        /\ pc'[r] = "loadDetails" /\ op'[r] = op[r]
    BY <1>4, CallFacts
       DEF StartTransit, At, Route, Goto, CallsTypeOK, locals
  <2>5. TripCall(r)'
    BY <2>1, <2>4 DEF TripCall, Owing
  <2>. QED
    BY <1>2, <2>1, <2>3, <2>5 DEF TripsInv
<1>5. CASE UpdateTransit(r)
  <2>. DEFINE i == row[r]
  <2>1. /\ i \in 1 .. Len(transits) /\ Len(transits') = Len(transits)
        /\ \A j \in 1 .. Len(transits) :
             transits'[j] = IF j = i THEN img[r] ELSE transits[j]
        /\ invoices' = invoices
    BY <1>5, TransitSaved DEF UpdateTransit
  <2>2. /\ pc[r] = "updateTransit" /\ op[r] \in {"changeTo", "complete"}
        /\ transits[i].status = "in_transit"
        /\ img[r].status = IF op[r] = "complete" THEN "completed"
                                                 ELSE "in_transit"
    BY <1>5, CallFacts DEF UpdateTransit, At, TripsInv, TripCall, Route
  <2>3. /\ op'[r] = op[r] /\ img'[r] = img[r]
        /\ pc'[r] = IF op[r] = "complete" THEN "driverFee" ELSE "loadDetails"
    BY <1>5, CallFacts DEF UpdateTransit, GotoAfterSave, Goto, CallsTypeOK
  <2>. HIDE DEF i
  <2>4. CASE op[r] = "complete"
    <3>1. CompletedTransits' = CompletedTransits \union {i}
      BY <1>3, <2>1, <2>2, <2>4 DEF CompletedTransits
    <3>2. i \notin CompletedTransits
      BY <2>2 DEF CompletedTransits
    <3>3. Cardinality(CompletedTransits') = Cardinality(CompletedTransits) + 1
      BY <1>3, <3>1, <3>2, FS_AddElement
    <3>4. invoices' < Cardinality(CompletedTransits')
      BY <1>3, <2>1, <3>3 DEF TripsInv
    <3>5. TripCall(r)'
      BY <2>1, <2>2, <2>3, <2>4, <3>4 DEF TripCall, Owing
    <3>. QED
      BY <1>2, <1>3, <2>1, <3>3, <3>5 DEF TripsInv
  <2>5. CASE op[r] # "complete"
    <3>1. CompletedTransits' = CompletedTransits
      BY <1>3, <2>1, <2>2, <2>5 DEF CompletedTransits
    <3>2. TripCall(r)'
      BY <2>2, <2>3, <2>5, NoTrip DEF TripLabels
    <3>. QED
      BY <1>2, <2>1, <3>1, <3>2 DEF TripsInv
  <2>. QED
    BY <2>4, <2>5
<1>6. CASE GenerateInvoice(r)
  <2>1. /\ Owing(r) /\ invoices' = invoices + 1 /\ transits' = transits
        /\ pc'[r] = "answered"
    BY <1>6, CallFacts
       DEF GenerateInvoice, At, Route, Owing, Finish, CallsTypeOK
  <2>2. CompletedTransits' = CompletedTransits
    BY <2>1 DEF CompletedTransits
  <2>3. TripCall(r)'
    BY <2>1, NoTrip DEF TripLabels
  <2>4. invoices < Cardinality(CompletedTransits)
    BY <2>1 DEF TripsInv, TripCall
  <2>. QED
    BY <1>2, <1>3, <2>1, <2>2, <2>3, <2>4 DEF TripsInv
<1>. QED
  BY <1>4, <1>5, <1>6

LEMMA TripsStep ==
  ASSUME ~Overlapping, IInv, SerialInv, TripsInv, [Next]_vars
  PROVE  TripsInv'
<1>1. ASSUME NEW r \in Requests, Step(r) PROVE TripsInv'
  BY <1>1, TripBystanders, TripReads, TripMoves, TripSaves
     DEF Step, TransitStep, DetailsStep
<1>2. ASSUME NEW r \in Requests, Begin(r) PROVE TripsInv'
  <2>1. \A q \in Requests : TripCall(q)'
    BY <1>2, SoloBegin, NoTrip DEF TripLabels
  <2>. QED
    BY <1>2, <2>1, SoloBegin DEF TripsInv, CompletedTransits, tables
<1>3. CASE UNCHANGED vars
  BY <1>3 DEF TripsInv, TripCall, Owing, CompletedTransits, vars, tables, locals
<1>. QED
  BY <1>1, <1>2, <1>3 DEF Next, AllAnswered

LEMMA InitTrips == Init => TripsInv
<1>. SUFFICES ASSUME Init PROVE TripsInv
  OBVIOUS
<1>1. Cardinality(CompletedTransits) \in Nat /\ invoices = 0
  BY InitIInv, CompletedFinite DEF Init
<1>. QED
  BY <1>1 DEF Init, TripsInv, TripCall, Owing

-----------------------------------------------------------------------------
(* The details                                                              *)

\* The price is that of a completed transit, and no trip is told of before one.
Truthful(t) ==
  /\ t.status = "completed" => t.price # NoPrice
  /\ t.status \in {"in_transit", "completed"} => transits # <<>>
  /\ t.price # NoPrice =>
       \E i \in 1 .. Len(transits) :
         transits[i] = [status |-> "completed", km |-> t.price]
  /\ t.status = "transit_to_passenger" => assignments # <<>>

\* Of a ride that was published once: the details name whoever drives it, ...
ShowsDriver(t) ==
  Len(assignments) = 1 => assignments[1].assigned \in {NoDriver, t.driver}

\* ... and tell of a driver on the way only while there is one.
ShowsAnswer(t) ==
  Len(assignments) = 1 /\ t.status = "transit_to_passenger" =>
    assignments[1].assigned # NoDriver

\* The details do not name the driver yet whose acceptance is saved, ...
Accepting(r) ==
  /\ op[r] = "accept"
  /\ pc[r] \in {"markOccupied", "loadDetails", "saveDetails", "updateDetails"}

\* ... or still tell of one whom a search or a cancellation has taken away.
Withdrawing(r) ==
  /\ op[r] \in {"publish", "findDrivers", "cancel"}
  /\ pc[r] \in SearchLabels \union {"loadDetails", "saveDetails",
                                    "updateDetails"}

DetailsCall(r) ==
  pc[r] \in {"saveDetails", "updateDetails"} =>
    Truthful(img[r]) /\ ShowsDriver(img[r]) /\ ShowsAnswer(img[r])

DetailsInv ==
  /\ Truthful(details)
  /\ (\E r \in Requests : Accepting(r)) \/ ShowsDriver(details)
  /\ (\E r \in Requests : Withdrawing(r)) \/ ShowsAnswer(details)
  /\ \A r \in Requests : DetailsCall(r)

\* What the invariant says of the only request in progress.
LEMMA DetailsSolo ==
  ASSUME IInv, SerialInv, DetailsInv, NEW r \in Requests, Step(r)
  PROVE  /\ Truthful(details) /\ DetailsCall(r)
         /\ Accepting(r) \/ ShowsDriver(details)
         /\ Withdrawing(r) \/ ShowsAnswer(details)
         /\ \A q \in Requests \ {r} : DetailsCall(q)'
BY SoloMove DEF SerialInv, DetailsInv, Accepting, Withdrawing, SearchLabels,
   DetailsCall

\* Completed transits stay, and so does what the details say of them.
LEMMA TruthGrows ==
  ASSUME NEW t, Truthful(t), Len(transits) \in Nat, Len(transits') \in Nat,
         Len(transits) <= Len(transits'), transits # <<>> => transits' # <<>>,
         \A i \in 1 .. Len(transits) :
           transits[i].status = "completed" => transits'[i] = transits[i],
         assignments # <<>> => assignments' # <<>>
  PROVE  /\ t.status = "completed" => t.price # NoPrice
         /\ t.status \in {"in_transit", "completed"} => transits' # <<>>
         /\ t.price # NoPrice =>
              \E i \in 1 .. Len(transits') :
                transits'[i] = [status |-> "completed", km |-> t.price]
         /\ t.status = "transit_to_passenger" => assignments' # <<>>
BY DEF Truthful

\* A step that changes neither the details nor an assignment.
LEMMA DetailsStay ==
  ASSUME IInv, IInv', SerialInv, DetailsInv, NEW r \in Requests, Step(r),
         assignments' = assignments, details' = details,
         Len(transits) <= Len(transits'),
         \A i \in 1 .. Len(transits) :
           transits[i].status = "completed" => transits'[i] = transits[i],
         Accepting(r) => Accepting(r)',
         Withdrawing(r) => Withdrawing(r)',
         DetailsCall(r)'
  PROVE  DetailsInv'
<1>1. /\ Len(transits) \in Nat /\ Len(transits') \in Nat
      /\ transits # <<>> => transits' # <<>>
  BY CallFacts, LenProperties, EmptySeq DEF IInv, TypeOK, RowsTypeOK
<1>2. Truthful(details)'
  BY <1>1, DetailsSolo, TruthGrows DEF Truthful
<1>3. (\E q \in Requests : Accepting(q)') \/ ShowsDriver(details)'
  BY DetailsSolo DEF ShowsDriver
<1>4. (\E q \in Requests : Withdrawing(q)') \/ ShowsAnswer(details)'
  BY DetailsSolo DEF ShowsAnswer
<1>. QED
  BY <1>2, <1>3, <1>4, DetailsSolo DEF DetailsInv

LEMMA DetailsBystanders ==
  ASSUME IInv, SerialInv, TripsInv, DetailsInv, NEW r \in Requests,
         DemandStep(r) \/ TransitStep(r) \/ GenerateInvoice(r)
  PROVE  DetailsInv'
<1>1. /\ Step(r) /\ IInv'
      /\ assignments' = assignments /\ details' = details
  <2>1. Step(r)
    BY DEF Step, DetailsStep
  <2>2. assignments' = assignments /\ details' = details
    BY DEF DemandStep, PublishDemand, NoDemand, CancelDemand, AcceptDemand,
       ChangePickup, UpdateDemand, TransitStep, StartTransit, NoTransit,
       ChangeDestination, CompleteTransit, UpdateTransit, MarkOccupied,
       NoDriverFee, MarkNotOccupied, GenerateInvoice, Throw, tables
  <2>. QED
    BY <2>1, <2>2, NextIInv DEF Next
<1>2. /\ Len(transits) <= Len(transits')
      /\ \A i \in 1 .. Len(transits) :
           transits[i].status = "completed" => transits'[i] = transits[i]
  <2>1. CASE StartTransit(r)
    BY <2>1, CallFacts, OtherMethods, Inserted DEF StartTransit, RowsTypeOK
  <2>2. CASE UpdateTransit(r)
    <3>1. transits[row[r]].status = "in_transit"
      BY <2>2 DEF UpdateTransit, At, TripsInv, TripCall
    <3>. QED
      BY <2>2, <3>1, TransitSaved, CallFacts
  <2>3. CASE ~StartTransit(r) /\ ~UpdateTransit(r)
    <3>1. transits' = transits
      BY <2>3 DEF DemandStep, PublishDemand, NoDemand, CancelDemand,
         AcceptDemand, ChangePickup, UpdateDemand, TransitStep, NoTransit,
         ChangeDestination, CompleteTransit, MarkOccupied, NoDriverFee,
         MarkNotOccupied, GenerateInvoice, Throw, tables
    <3>. QED
      BY <3>1, CallFacts
  <2>. QED
    BY <2>1, <2>2, <2>3
<1>3. pc'[r] \notin {"saveDetails", "updateDetails"}
  BY CallFacts
     DEF DemandStep, PublishDemand, NoDemand, CancelDemand, AcceptDemand,
         ChangePickup, UpdateDemand, TransitStep, StartTransit, NoTransit,
         ChangeDestination, CompleteTransit, UpdateTransit, MarkOccupied,
         NoDriverFee, MarkNotOccupied, GenerateInvoice, Throw, Finish, Hold,
         GotoAfterSave, Goto, CallsTypeOK
<1>4. pc[r] \notin SearchLabels \union {"loadDetails", "saveDetails",
                                        "updateDetails"}
  BY DEF DemandStep, PublishDemand, NoDemand, CancelDemand, AcceptDemand,
     ChangePickup, UpdateDemand, TransitStep, StartTransit, NoTransit,
     ChangeDestination, CompleteTransit, UpdateTransit, MarkOccupied,
     NoDriverFee, MarkNotOccupied, GenerateInvoice, At, SearchLabels
<1>5. Accepting(r) => Accepting(r)'
  <2>1. SUFFICES ASSUME Accepting(r) PROVE Accepting(r)'
    OBVIOUS
  <2>2. pc[r] = "markOccupied" /\ op[r] = "accept"
    BY <1>4, <2>1 DEF Accepting
  <2>3. MarkOccupied(r)
    BY <2>2 DEF DemandStep, PublishDemand, NoDemand, CancelDemand,
       AcceptDemand, ChangePickup, UpdateDemand, TransitStep, StartTransit,
       NoTransit, ChangeDestination, CompleteTransit, UpdateTransit,
       NoDriverFee, MarkNotOccupied, GenerateInvoice, At
  <2>. QED
    BY <2>2, <2>3, CallFacts
       DEF MarkOccupied, Goto, CallsTypeOK, locals, Accepting
<1>. QED
  BY <1>1, <1>2, <1>3, <1>4, <1>5, DetailsStay DEF DetailsCall, Withdrawing

\* The steps about an assignment that do not save it.
LEMMA DetailsReads ==
  ASSUME IInv, SerialInv, DetailsInv, NEW r \in Requests,
         AssignmentStep(r), ~StartAssigningDrivers(r), ~UpdateAssignment(r)
  PROVE  DetailsInv'
<1>1. Step(r)
  BY DEF Step
<1>2. /\ UNCHANGED <<assignments, details, transits>> /\ IInv'
  <2>1. UNCHANGED <<assignments, details, transits>>
    BY DEF AssignmentStep, CheckNotAssigned, CheckAssigned, LoadForSearch,
       StopSearch, GiveUpSearch, SearchRound, NoAssignment, CancelAssignment,
       AcceptAssignment, RejectAssignment, Throw, tables
  <2>. QED
    BY <1>1, <2>1, NextIInv DEF Next
<1>3. /\ pc'[r] \notin {"saveDetails", "updateDetails"}
      /\ pc[r] \in {"checkNotAssigned", "checkAssigned", "loadForSearch",
                    "search", "loadAssignment"}
  BY CallFacts
     DEF AssignmentStep, CheckNotAssigned, CheckAssigned, LoadForSearch,
         StopSearch, GiveUpSearch, SearchRound, NoAssignment,
         CancelAssignment, AcceptAssignment, RejectAssignment, Throw, Finish,
         Hold, Goto, CallsTypeOK, At
<1>4. pc[r] = "search" => /\ op'[r] = op[r]
                          /\ pc'[r] \in SearchLabels \union {"loadDetails"}
  <2>1. pc[r] = "search" => StopSearch(r) \/ GiveUpSearch(r) \/ SearchRound(r)
    BY DEF AssignmentStep, CheckNotAssigned, CheckAssigned, LoadForSearch,
       NoAssignment, CancelAssignment, AcceptAssignment, RejectAssignment, At
  <2>. QED
    BY <2>1, CallFacts
       DEF StopSearch, GiveUpSearch, SearchRound, Goto, CallsTypeOK,
           SearchLabels
<1>. QED
  BY <1>1, <1>2, <1>3, <1>4, CallFacts, DetailsStay
     DEF DetailsCall, Accepting, Withdrawing, SearchLabels

\* What the facade makes of the details is true when it is about to be saved.
LEMMA DetailsMade ==
  ASSUME IInv, SerialInv, OffersInv, TripsInv, DetailsInv, NEW r \in Requests,
         Step(r), At(r, "loadDetails"), NEW t \in ChangedDetails(r, details)
  PROVE  Truthful(t) /\ ShowsDriver(t) /\ ShowsAnswer(t)
<1>1. /\ details \in Details /\ pc[r] = "loadDetails"
      /\ Truthful(details)
      /\ Accepting(r) \/ ShowsDriver(details)
      /\ Withdrawing(r) \/ ShowsAnswer(details)
  BY CallFacts, DetailsSolo DEF RowsTypeOK, At
<1>2. CASE op[r] = "accept"
  <2>1. /\ row[r] \in 1 .. Len(assignments)
        /\ assignments[row[r]].assigned = driver[r]
        /\ driver[r] \in Drivers /\ driver[r] # NoDriver
        /\ assignments # <<>>
    BY <1>1, <1>2, CallFacts, EmptySeq, EntityAssumption
       DEF OffersInv, OfferCall, Route, TakesDriver, RowsTypeOK
  <2>2. t = DetailsAccepted(details, driver[r])
    BY <1>2 DEF ChangedDetails
  <2>3. /\ t.status = "transit_to_passenger" /\ t.driver = driver[r]
        /\ t.price = details.price
    BY <1>1, <2>2 DEF DetailsAccepted, Details
  <2>. QED
    BY <1>1, <2>1, <2>3, CallFacts DEF Truthful, ShowsDriver, ShowsAnswer
<1>3. CASE op[r] = "complete"
  <2>1. /\ img[r] \in Transit /\ img[r].km \in MapDistances
        /\ img[r].status = "completed"
    BY <1>1, <1>3, CallFacts DEF CopyInv, TripsInv, TripCall
  <2>2. PICK i \in 1 .. Len(transits) : transits[i] = img[r]
    BY <1>1, <1>3 DEF TripsInv, TripCall
  <2>3. /\ transits[i] = [status |-> "completed", km |-> img[r].km]
        /\ transits # <<>>
    BY <2>1, <2>2, EmptySeq DEF Transit
  <2>4. t = DetailsCompleted(details, img[r].km)
    BY <1>3 DEF ChangedDetails
  <2>5. /\ t.status = "completed" /\ t.driver = details.driver
        /\ t.price = img[r].km /\ t.price # NoPrice
    BY <1>1, <2>1, <2>4, EntityAssumption DEF DetailsCompleted, Details
  <2>. QED
    BY <1>1, <1>3, <2>3, <2>5 DEF Truthful, ShowsDriver, ShowsAnswer, Accepting
<1>4. CASE op[r] = "start"
  <2>1. transits # <<>>
    BY <1>1, <1>4 DEF TripsInv, TripCall
  <2>2. t = DetailsStarted(details)
    BY <1>4 DEF ChangedDetails
  <2>3. /\ t.status = "in_transit" /\ t.driver = details.driver
        /\ t.price = details.price
    BY <1>1, <2>2 DEF DetailsStarted, Details
  <2>. QED
    BY <1>1, <1>4, <2>1, <2>3 DEF Truthful, ShowsDriver, ShowsAnswer, Accepting
<1>5. CASE op[r] \in {"publish", "findDrivers", "cancel"}
  <2>1. t \in {DetailsPublished(details), DetailsDriversInvolved(details),
               DetailsCancelled(details)}
    BY <1>5 DEF ChangedDetails
  <2>2. /\ t.status \in {"waiting_for_driver_assignment",
                         "driver_assignment_failed", "cancelled"}
        /\ t.driver = details.driver /\ t.price = details.price
    BY <1>1, <2>1
       DEF DetailsPublished, DetailsDriversInvolved, DetailsCancelled, Details
  <2>. QED
    BY <1>1, <1>5, <2>2 DEF Truthful, ShowsDriver, ShowsAnswer, Accepting
<1>6. CASE op[r] \notin {"publish", "findDrivers", "cancel", "accept", "start",
                         "complete"}
  <2>1. PICK a \in Addresses : \/ t = DetailsPickupChanged(details, a)
                               \/ t = DetailsDestinationChanged(details, a)
    BY <1>6 DEF ChangedDetails
  <2>2. /\ t.status = details.status /\ t.driver = details.driver
        /\ t.price = details.price
    BY <1>1, <2>1
       DEF DetailsPickupChanged, DetailsDestinationChanged, Details
  <2>. QED
    BY <1>1, <1>6, <2>2
       DEF Truthful, ShowsDriver, ShowsAnswer, Accepting, Withdrawing
<1>. QED
  BY <1>2, <1>3, <1>4, <1>5, <1>6

LEMMA DetailsMoves ==
  ASSUME IInv, SerialInv, OffersInv, TripsInv, DetailsInv, NEW r \in Requests,
         LoadDetails(r) \/ Compare(r)
  PROVE  DetailsInv'
<1>1. /\ Step(r) /\ IInv'
      /\ UNCHANGED <<assignments, details, transits>>
  <2>1. Step(r) /\ UNCHANGED <<assignments, details, transits>>
    BY DEF Step, DetailsStep, LoadDetails, Compare, tables
  <2>. QED
    BY <2>1, NextIInv DEF Next
<1>2. CASE LoadDetails(r)
  <2>1. PICK t \in ChangedDetails(r, details) : Hold(r, 0, t, "saveDetails")
    BY <1>2 DEF LoadDetails
  <2>2. /\ pc[r] = "loadDetails" /\ pc'[r] = "saveDetails"
        /\ op'[r] = op[r] /\ img'[r] = t
    BY <1>2, <2>1, CallFacts DEF LoadDetails, At, Hold, Goto, CallsTypeOK
  <2>3. Truthful(t) /\ ShowsDriver(t) /\ ShowsAnswer(t)
    BY <1>1, <2>2, DetailsMade DEF At
  <2>4. DetailsCall(r)'
    BY <1>1, <2>2, <2>3 DEF DetailsCall, Truthful, ShowsDriver, ShowsAnswer
  <2>5. /\ Accepting(r) => Accepting(r)'
        /\ Withdrawing(r) => Withdrawing(r)'
    BY <2>2 DEF Accepting, Withdrawing
  <2>. QED
    BY <1>1, <2>4, <2>5, CallFacts, DetailsStay
<1>3. CASE Compare(r)
  <2>1. /\ op'[r] = op[r] /\ img'[r] = img[r]
        /\ pc'[r] = UpdateLabel[pc[r]] /\ pc[r] \in DOMAIN UpdateLabel
    BY <1>3, CallFacts DEF Compare, Goto, CallsTypeOK
  <2>2. DetailsCall(r)'
    BY <1>1, <2>1, DetailsSolo
       DEF DetailsCall, UpdateLabel, Truthful, ShowsDriver, ShowsAnswer
  <2>3. /\ Accepting(r) => Accepting(r)'
        /\ Withdrawing(r) => Withdrawing(r)'
    BY <2>1 DEF Accepting, Withdrawing, SearchLabels, UpdateLabel
  <2>. QED
    BY <1>1, <2>2, <2>3, CallFacts, DetailsStay
<1>. QED
  BY <1>2, <1>3

\* The UPDATE of the details writes the copy.
LEMMA DetailsSaves ==
  ASSUME IInv, SerialInv, DetailsInv, NEW r \in Requests, UpdateDetails(r)
  PROVE  DetailsInv'
<1>1. /\ Step(r) /\ UNCHANGED <<assignments, transits>>
      /\ pc[r] = "updateDetails"
  BY DEF Step, DetailsStep, UpdateDetails, At
<1>2. details' = img[r]
  <2>1. img[r] \in Details /\ seen[r] = details
    BY <1>1, CallFacts DEF CopyInv, SerialInv, Fresh
  <2>. QED
    BY <2>1, UpdatedFresh DEF UpdateDetails, Saved
<1>3. Truthful(img[r]) /\ ShowsDriver(img[r]) /\ ShowsAnswer(img[r])
  BY <1>1, DetailsSolo DEF DetailsCall
<1>4. pc'[r] \in {"generateInvoice", "answered"}
  BY CallFacts DEF UpdateDetails, GotoAfterSave, Goto, Finish, CallsTypeOK
<1>5. Truthful(details)' /\ ShowsDriver(details)' /\ ShowsAnswer(details)'
  BY <1>1, <1>2, <1>3 DEF Truthful, ShowsDriver, ShowsAnswer
<1>. QED
  BY <1>1, <1>4, <1>5, DetailsSolo DEF DetailsInv, DetailsCall

\* An assignment is saved before the details follow it.
LEMMA DetailsFollow ==
  ASSUME IInv, SerialInv, OffersInv, DetailsInv, NEW r \in Requests,
         StartAssigningDrivers(r) \/ UpdateAssignment(r)
  PROVE  DetailsInv'
<1>1. /\ Step(r) /\ UNCHANGED <<transits, details>>
  BY DEF Step, AssignmentStep, StartAssigningDrivers, UpdateAssignment
<1>2. CASE StartAssigningDrivers(r)
  <2>1. /\ Len(assignments') = Len(assignments) + 1 /\ assignments' # <<>>
        /\ assignments'[Len(assignments) + 1].assigned = NoDriver
        /\ Len(assignments) = 0 <=> assignments = <<>>
    BY <1>2, CallFacts, OtherMethods, Inserted, EmptySeq
       DEF StartAssigningDrivers, RowsTypeOK, NewAssignment
  <2>2. /\ Truthful(details)'
        /\ ShowsDriver(details)' /\ ShowsAnswer(details)'
    BY <1>1, <2>1, CallFacts, DetailsSolo DEF Truthful, ShowsDriver, ShowsAnswer
  <2>3. pc'[r] = "loadForSearch"
    BY <1>2, CallFacts DEF StartAssigningDrivers, Goto, CallsTypeOK
  <2>. QED
    BY <1>1, <2>2, <2>3, DetailsSolo DEF DetailsInv, DetailsCall
<1>3. CASE UpdateAssignment(r)
  <2>. DEFINE i == row[r]
              a == assignments[i]
  <2>1. /\ i \in 1 .. Len(assignments)
        /\ Len(assignments) \in Nat /\ Len(assignments') = Len(assignments)
        /\ \A j \in 1 .. Len(assignments) :
             assignments'[j] = IF j = i THEN img[r] ELSE assignments[j]
        /\ assignments' # <<>>
    BY <1>3, OfferSaved, CallFacts, NextIInv, EmptySeq
  <2>2. /\ pc[r] \in {"updateProposals", "updateFailure", "updateAssignment"}
        /\ OfferCopy(r, a)
        /\ pc[r] = "updateAssignment" => op[r] \in {"cancel", "accept", "reject"}
        /\ pc[r] # "updateAssignment" => op[r] \in {"publish", "findDrivers"}
        /\ op[r] = "accept" => driver[r] \in Drivers
    BY <1>3, CallFacts
       DEF UpdateAssignment, OffersInv, OfferCall, SearchLabels, AnswerLabels,
           Route, TakesDriver
  <2>3. Truthful(details)'
    BY <1>1, <2>1, DetailsSolo DEF Truthful
  <2>4. ShowsDriver(details)
    BY <1>1, <2>2, DetailsSolo DEF Accepting
  <2>5. op[r] # "reject" =>
          pc'[r] = AfterUpdateAssignment(r) /\ op'[r] = op[r]
    BY <1>3, CallFacts
       DEF UpdateAssignment, GotoAfterSave, Goto, CallsTypeOK
  <2>6. /\ pc'[r] \notin {"saveDetails", "updateDetails"}
        /\ op[r] \in {"publish", "findDrivers", "cancel"} => Withdrawing(r)'
        /\ op[r] = "accept" => Accepting(r)'
    <3>1. CASE op[r] = "reject"
      <4>1. pc'[r] = "answered"
        BY <1>3, <3>1, CallFacts DEF UpdateAssignment, Finish, CallsTypeOK
      <4>. QED
        BY <3>1, <4>1
    <3>2. CASE op[r] # "reject"
      <4>1. AfterUpdateAssignment(r) =
              IF pc[r] = "updateProposals" THEN "search"
              ELSE IF op[r] = "accept" THEN "markOccupied" ELSE "loadDetails"
        BY <2>2 DEF AfterUpdateAssignment, At
      <4>. QED
        BY <2>2, <2>5, <3>2, <4>1 DEF Withdrawing, Accepting, SearchLabels
    <3>. QED
      BY <3>1, <3>2
  <2>7. Accepting(r)' \/ ShowsDriver(details)'
    <3>1. CASE op[r] = "accept"
      BY <2>6, <3>1
    <3>2. CASE op[r] # "accept"
      <4>1. img[r].assigned \in {NoDriver, a.assigned}
        BY <2>2, <3>2 DEF OfferCopy, Coherent
      <4>. QED
        BY <1>1, <2>1, <2>4, <4>1 DEF ShowsDriver
    <3>. QED
      BY <3>1, <3>2
  <2>8. Withdrawing(r)' \/ ShowsAnswer(details)'
    <3>1. CASE op[r] \in {"publish", "findDrivers", "cancel"}
      BY <2>6, <3>1
    <3>2. CASE op[r] = "accept"
      <4>1. img[r].assigned # NoDriver
        BY <2>2, <3>2, EntityAssumption DEF OfferCopy
      <4>. QED
        BY <2>1, <4>1 DEF ShowsAnswer
    <3>3. CASE op[r] = "reject"
      <4>1. img[r].assigned = a.assigned /\ ShowsAnswer(details)
        BY <1>1, <2>2, <3>3, DetailsSolo DEF OfferCopy, Withdrawing
      <4>. QED
        BY <1>1, <2>1, <4>1 DEF ShowsAnswer
    <3>. QED
      BY <2>2, <3>1, <3>2, <3>3
  <2>. QED
    BY <1>1, <2>3, <2>6, <2>7, <2>8, DetailsSolo DEF DetailsInv, DetailsCall
<1>. QED
  BY <1>2, <1>3

LEMMA DetailsNext ==
  ASSUME ~Overlapping, IInv, SerialInv, OffersInv, TripsInv, DetailsInv,
         [Next]_vars
  PROVE  DetailsInv'
<1>1. ASSUME NEW r \in Requests, Step(r) PROVE DetailsInv'
  BY <1>1, DetailsBystanders, DetailsReads, DetailsMoves, DetailsSaves,
     DetailsFollow DEF Step, DetailsStep
<1>2. ASSUME NEW r \in Requests, Begin(r) PROVE DetailsInv'
  <2>1. /\ \A q \in Requests : DetailsCall(q)'
        /\ \A q \in Requests : ~Accepting(q) /\ ~Withdrawing(q)
    BY <1>2, SoloBegin DEF DetailsCall, Accepting, Withdrawing, SearchLabels
  <2>. QED
    BY <1>2, <2>1, SoloBegin
       DEF DetailsInv, Truthful, ShowsDriver, ShowsAnswer, tables
<1>3. CASE UNCHANGED vars
  BY <1>3 DEF DetailsInv, Truthful, ShowsDriver, ShowsAnswer, DetailsCall,
     Accepting, Withdrawing, vars, tables, locals
<1>. QED
  BY <1>1, <1>2, <1>3 DEF Next, AllAnswered

LEMMA InitDetails == Init => DetailsInv
<1>. SUFFICES ASSUME Init PROVE DetailsInv
  OBVIOUS
<1>1. details.status = "draft" /\ details.price = NoPrice
  BY DEF Init, NewDetails
<1>2. Len(assignments) = 0
  BY EmptySeq DEF Init
<1>. QED
  BY <1>1, <1>2
     DEF Init, DetailsInv, Truthful, ShowsDriver, ShowsAnswer, DetailsCall

\* The transits and the details with what they rest on.
LEMMA SerialTrips ==
  ASSUME ~Overlapping
  PROVE  Spec => [](IInv /\ SerialInv /\ OffersInv /\ TripsInv /\ DetailsInv)
<1>1. Init => IInv /\ SerialInv /\ OffersInv /\ TripsInv /\ DetailsInv
  BY InitIInv, InitSerial, InitOffers, InitTrips, InitDetails
<1>2. IInv /\ SerialInv /\ OffersInv /\ TripsInv /\ DetailsInv /\ [Next]_vars
        => (IInv /\ SerialInv /\ OffersInv /\ TripsInv /\ DetailsInv)'
  BY NextIInv, SerialStep, OffersStep, TripsStep, DetailsNext
<1>. QED
  BY <1>1, <1>2, PTL DEF Spec

\* DetailsTellTheTruth: when no request is in progress, the details show the
\* driver of a ride that was published once for as long as there is one, and
\* the price of a transit that was completed.
THEOREM DetailsAreTrue ==
  ASSUME ~Overlapping
  PROVE  Spec => []DetailsTellTheTruth
<1>1. IInv /\ OffersInv /\ DetailsInv => DetailsTellTheTruth
  <2>. SUFFICES ASSUME IInv, OffersInv, DetailsInv, Quiet
                PROVE  DetailsTellTheTruth
    BY DEF DetailsTellTheTruth
  <2>1. Truthful(details) /\ ShowsDriver(details) /\ ShowsAnswer(details)
    BY DEF DetailsInv, Quiet, InProgress, Accepting, Withdrawing, SearchLabels
  <2>2. DOMAIN transits = 1 .. Len(transits)
    BY LenProperties DEF IInv, TypeOK, RowsTypeOK
  <2>3. ASSUME Len(assignments) = 1, NEW v \in ClientViews
        PROVE  /\ v.driver \in {NoDriver, details.driver}
               /\ v.status = "transit_to_passenger" => v.driver # NoDriver
    <3>1. DOMAIN assignments = {1} /\ assignments # <<>>
      <4>1. assignments \in Seq(Assignment)
        BY DEF IInv, TypeOK, RowsTypeOK
      <4>2. DOMAIN assignments = 1 .. 1
        BY <2>3, <4>1, LenProperties
      <4>3. assignments # <<>>
        <5>1. Len(<<>>) = 0
          BY EmptySeq
        <5>. QED
          BY <2>3, <5>1
      <4>4. 1 .. 1 = {1}
        OBVIOUS
      <4>. QED
        BY <4>2, <4>3, <4>4
    <3>2. v = TransitDTO(assignments[1])
      BY <3>1 DEF ClientViews, InvolvedDrivers
    <3>3. Coherent(assignments[1])
      BY <3>1 DEF OffersInv
    <3>. QED
      BY <2>1, <2>3, <3>2, <3>3
         DEF TransitDTO, ShowsDriver, ShowsAnswer, Coherent
  <2>. QED
    BY <2>1, <2>2, <2>3 DEF DetailsTellTheTruth, Truthful
<1>. QED
  BY <1>1, SerialTrips, PTL

-----------------------------------------------------------------------------
(* The contract of a ride                                                   *)

\* f of every row of s.
Image(f, s) == [i \in DOMAIN s |-> f[s[i]]]

LEMMA ImageAppend ==
  ASSUME NEW S, NEW f, NEW s \in Seq(S), NEW x \in S
  PROVE  Image(f, Append(s, x)) = Append(Image(f, s), f[x])
<1>. DEFINE T == {f[y] : y \in S}
            left == Image(f, Append(s, x))
            right == Append(Image(f, s), f[x])
            n == Len(s)
<1>1. /\ n \in Nat /\ DOMAIN s = 1 .. n /\ \A i \in 1 .. n : s[i] \in S
      /\ DOMAIN Append(s, x) = 1 .. n + 1
      /\ \A i \in 1 .. n : Append(s, x)[i] = s[i]
      /\ Append(s, x)[n + 1] = x
  BY Inserted, LenProperties, ElementOfSeq
<1>2. /\ Image(f, s) \in Seq(T) /\ Len(Image(f, s)) = n
      /\ \A i \in 1 .. n : Image(f, s)[i] = f[s[i]]
  BY <1>1 DEF Image
<1>3. /\ right \in Seq(T) /\ Len(right) = n + 1
      /\ \A i \in 1 .. n : right[i] = f[s[i]]
      /\ right[n + 1] = f[x]
  BY <1>2, Inserted
<1>4. /\ left \in Seq(T) /\ Len(left) = n + 1
      /\ \A i \in 1 .. n + 1 : left[i] = f[Append(s, x)[i]]
  <2>1. \A i \in 1 .. n + 1 : Append(s, x)[i] \in S
    BY Inserted, ElementOfSeq, <1>1
  <2>. QED
    BY <1>1, <2>1 DEF Image
<1>. HIDE DEF left, right, n
<1>5. \A i \in 1 .. n + 1 : left[i] = right[i]
  BY <1>1, <1>3, <1>4
<1>6. left = right
  BY <1>3, <1>4, <1>5, SeqEqual
<1>. QED
  BY <1>6 DEF left, right

\* How the contract sees an assignment and a transit.
OfferOf ==
  [a \in Assignment |-> [state |-> OfferState(a), taker |-> a.assigned]]
TripOf == [t \in Transit |-> t.status]

LEMMA Views ==
  OfferOf[NewAssignment] = [state |-> "open", taker |-> NoDriver]
BY OtherMethods
   DEF OfferOf, OfferState, Assignment, NewAssignment, AssignmentStatus

\* The refinement mapping, row by row.
Offers(as) ==
  [i \in DOMAIN as |->
     [state |-> OfferState(as[i]), taker |-> as[i].assigned]]
Trips(ts) == [i \in DOMAIN ts |-> ts[i].status]

LEMMA Mapping ==
  /\ \A as \in Seq(Assignment) : Offers(as) = Image(OfferOf, as)
  /\ \A ts \in Seq(Transit) : Trips(ts) = Image(TripOf, ts)
<1>1. /\ \A as \in Seq(Assignment) : \A i \in DOMAIN as : as[i] \in Assignment
      /\ \A ts \in Seq(Transit) : \A i \in DOMAIN ts : ts[i] \in Transit
  BY LenProperties, ElementOfSeq
<1>. QED
  BY <1>1 DEF Offers, Trips, Image, OfferOf, TripOf

\* What a row that is inserted or saved adds to the view of the contract.
LEMMA OfferInserted ==
  ASSUME NEW as \in Seq(Assignment), NEW a \in Assignment
  PROVE  Offers(Append(as, a)) = Append(Offers(as), OfferOf[a])
<1>1. Append(as, a) \in Seq(Assignment)
  BY Inserted
<1>2. Image(OfferOf, Append(as, a)) = Append(Image(OfferOf, as), OfferOf[a])
  BY ImageAppend
<1>. QED
  BY <1>1, <1>2, Mapping

LEMMA TripInserted ==
  ASSUME NEW ts \in Seq(Transit), NEW t \in Transit
  PROVE  Trips(Append(ts, t)) = Append(Trips(ts), t.status)
<1>1. Append(ts, t) \in Seq(Transit) /\ TripOf[t] = t.status
  BY Inserted DEF TripOf
<1>2. Image(TripOf, Append(ts, t)) = Append(Image(TripOf, ts), TripOf[t])
  BY ImageAppend
<1>. QED
  BY <1>1, <1>2, Mapping

\* Only these five steps are seen by the contract.
LEMMA ContractSteps ==
  ASSUME Next
  PROVE  \/ UNCHANGED <<assignments, transits, invoices>>
         \/ \E r \in Requests :
              \/ StartAssigningDrivers(r) \/ UpdateAssignment(r)
              \/ StartTransit(r) \/ UpdateTransit(r) \/ GenerateInvoice(r)
<1>. USE DEF tables
<1>1. ASSUME NEW r \in Requests, DemandStep(r)
      PROVE  UNCHANGED <<assignments, transits, invoices>>
  BY <1>1 DEF DemandStep, PublishDemand, NoDemand, CancelDemand, AcceptDemand,
     ChangePickup, UpdateDemand, Throw
<1>2. ASSUME NEW r \in Requests, AssignmentStep(r)
      PROVE  \/ UNCHANGED <<assignments, transits, invoices>>
             \/ StartAssigningDrivers(r) \/ UpdateAssignment(r)
  BY <1>2 DEF AssignmentStep, CheckNotAssigned, CheckAssigned, LoadForSearch,
     StopSearch, GiveUpSearch, SearchRound, NoAssignment, CancelAssignment,
     AcceptAssignment, RejectAssignment, Throw
<1>3. ASSUME NEW r \in Requests, TransitStep(r)
      PROVE  \/ UNCHANGED <<assignments, transits, invoices>>
             \/ StartTransit(r) \/ UpdateTransit(r)
  BY <1>3 DEF TransitStep, NoTransit, ChangeDestination, CompleteTransit,
     MarkOccupied, NoDriverFee, MarkNotOccupied, Throw
<1>4. ASSUME NEW r \in Requests, DetailsStep(r)
      PROVE  \/ UNCHANGED <<assignments, transits, invoices>>
             \/ GenerateInvoice(r)
  BY <1>4 DEF DetailsStep, LoadDetails, UpdateDetails
<1>5. ASSUME NEW r \in Requests, Compare(r) \/ Begin(r)
      PROVE  UNCHANGED <<assignments, transits, invoices>>
  BY <1>5 DEF Compare, Begin
<1>. QED
  BY <1>1, <1>2, <1>3, <1>4, <1>5 DEF Next, Step, AllAnswered, vars

\* An assignment is inserted: the ride is offered once more.
LEMMA PublishRefined ==
  ASSUME IInv, NEW r \in Requests, StartAssigningDrivers(r)
  PROVE  Lifecycle!Publish
<1>1. /\ assignments' = Append(assignments, NewAssignment)
      /\ UNCHANGED <<transits, invoices>>
  BY DEF StartAssigningDrivers
<1>2. assignments \in Seq(Assignment) /\ NewAssignment \in Assignment
  BY OtherMethods DEF IInv, TypeOK, RowsTypeOK
<1>3. Offers(assignments')
        = Append(Offers(assignments), [state |-> "open", taker |-> NoDriver])
  BY <1>1, <1>2, Views, OfferInserted
<1>. QED
  BY <1>1, <1>3 DEF Lifecycle!Publish, Lifecycle!Offer, Offers

\* An assignment is saved: a driver takes the offer, or it is closed, or the
\* contract sees nothing.
LEMMA AnswerRefined ==
  ASSUME IInv, SerialInv, OffersInv, NEW r \in Requests, UpdateAssignment(r)
  PROVE  [Lifecycle!Next]_(Lifecycle!vars)
<1>. DEFINE i == row[r]
            x == img[r]
            a == assignments[i]
            saved == [state |-> OfferState(x), taker |-> x.assigned]
<1>1. /\ UNCHANGED <<transits, invoices>>
      /\ i \in DOMAIN assignments /\ x \in Assignment /\ a \in Assignment
      /\ DOMAIN assignments' = DOMAIN assignments
      /\ \A j \in DOMAIN assignments :
           assignments'[j] = IF j = i THEN x ELSE assignments[j]
  BY OfferSaved, SavedOffer, RowFacts, CallFacts DEF UpdateAssignment
<1>. HIDE DEF i, x
<1>2. Offers(assignments') = [Offers(assignments) EXCEPT ![i] = saved]
  BY <1>1 DEF Offers
<1>3. CASE x.status = a.status /\ x.assigned = a.assigned
  <2>1. saved = [state |-> OfferState(a), taker |-> a.assigned]
    BY <1>3 DEF OfferState
  <2>2. Offers(assignments') = Offers(assignments)
    BY <1>1, <2>1 DEF Offers
  <2>. QED
    BY <1>1, <2>2 DEF Lifecycle!vars, Offers
<1>4. CASE /\ x.status \in {"CANCELLED", "DRIVER_ASSIGNMENT_FAILED"}
           /\ x.assigned = NoDriver
  <2>1. saved = [state |-> "closed", taker |-> NoDriver]
    BY <1>4 DEF OfferState
  <2>2. Lifecycle!Close(i)
    BY <1>1, <1>2, <2>1 DEF Lifecycle!Close, Lifecycle!Offer, Offers
  <2>. QED
    BY <1>1, <2>2 DEF Lifecycle!Next, Lifecycle!Close
<1>5. ASSUME x.status = "ON_THE_WAY", a.assigned = NoDriver, x.assigned \in Drivers
      PROVE  Lifecycle!Next
  <2>1. saved = [state |-> "taken", taker |-> x.assigned]
    BY <1>5 DEF OfferState
  <2>2. Offers(assignments)[i].taker = NoDriver
    BY <1>1, <1>5 DEF Offers
  <2>3. Lifecycle!Take(i, x.assigned)
    BY <1>1, <1>2, <2>1, <2>2 DEF Lifecycle!Take, Lifecycle!Offer, Offers
  <2>. QED
    BY <1>1, <1>5, <2>3 DEF Lifecycle!Next, Lifecycle!Take
<1>. QED
  BY <1>3, <1>4, <1>5, SavedOffer DEF i, x

\* A transit is inserted: the trip starts, and a driver has taken the ride.
LEMMA StartRefined ==
  ASSUME IInv, OffersInv, NEW r \in Requests, StartTransit(r)
  PROVE  Lifecycle!StartTrip
<1>1. /\ transits' = Append(transits, NewTransit)
      /\ UNCHANGED <<assignments, invoices>>
      /\ DriverAssigned
  BY DEF StartTransit, At, OffersInv, OfferCall
<1>2. /\ transits \in Seq(Transit) /\ NewTransit \in Transit
      /\ NewTransit.status = "in_transit"
  BY OtherMethods DEF IInv, TypeOK, RowsTypeOK, NewTransit
<1>3. Trips(transits') = Append(Trips(transits), "in_transit")
  BY <1>1, <1>2, TripInserted
<1>4. PICK i \in DOMAIN assignments : assignments[i].status = "ON_THE_WAY"
  BY <1>1 DEF DriverAssigned
<1>5. OfferState(assignments[i]) = "taken"
  BY <1>4 DEF OfferState
<1>. QED
  BY <1>1, <1>3, <1>4, <1>5 DEF Lifecycle!StartTrip, Trips

\* A transit is saved: the trip is finished, or its destination has changed.
LEMMA FinishRefined ==
  ASSUME IInv, SerialInv, TripsInv, NEW r \in Requests, UpdateTransit(r)
  PROVE  [Lifecycle!Next]_(Lifecycle!vars)
<1>. DEFINE j == row[r]
            x == img[r]
<1>1. /\ UNCHANGED <<assignments, invoices>>
      /\ j \in DOMAIN transits
      /\ DOMAIN transits' = DOMAIN transits
      /\ \A i \in DOMAIN transits :
           transits'[i] = IF i = j THEN x ELSE transits[i]
  BY TransitSaved, CallFacts, LenProperties, NextIInv
     DEF UpdateTransit, IInv, TypeOK, RowsTypeOK
<1>2. /\ transits[j].status = "in_transit"
      /\ x.status \in {"in_transit", "completed"}
  BY <1>1 DEF UpdateTransit, At, TripsInv, TripCall
<1>. HIDE DEF j, x
<1>3. Trips(transits') = [Trips(transits) EXCEPT ![j] = x.status]
  BY <1>1 DEF Trips
<1>4. CASE x.status = "completed"
  <2>1. Lifecycle!FinishTrip(j)
    BY <1>1, <1>2, <1>3, <1>4 DEF Lifecycle!FinishTrip, Trips
  <2>. QED
    BY <1>1, <2>1 DEF Lifecycle!Next, Lifecycle!FinishTrip
<1>5. CASE x.status = "in_transit"
  <2>1. Trips(transits') = Trips(transits)
    BY <1>1, <1>2, <1>5 DEF Trips
  <2>. QED
    BY <1>1, <2>1 DEF Lifecycle!vars, Trips
<1>. QED
  BY <1>2, <1>4, <1>5

\* An invoice is generated for a completed transit that has none.
LEMMA BillRefined ==
  ASSUME IInv, TripsInv, NEW r \in Requests, GenerateInvoice(r)
  PROVE  Lifecycle!Bill
<1>1. /\ invoices' = invoices + 1 /\ UNCHANGED <<assignments, transits>>
      /\ Owing(r)
  BY CallFacts DEF GenerateInvoice, At, Route, Owing
<1>2. invoices < Cardinality(CompletedTransits)
  BY <1>1 DEF TripsInv, TripCall
<1>3. Lifecycle!Completed = CompletedTransits
  BY CallFacts DEF Lifecycle!Completed, CompletedTransits
<1>4. Lifecycle!Cardinality(CompletedTransits) = Cardinality(CompletedTransits)
  BY DEF Lifecycle!Cardinality, Cardinality
<1>. QED
  BY <1>1, <1>2, <1>3, <1>4 DEF Lifecycle!Bill

LEMMA LifecycleNext ==
  ASSUME ~Overlapping, IInv, SerialInv, OffersInv, TripsInv, [Next]_vars
  PROVE  [Lifecycle!Next]_(Lifecycle!vars)
<1>1. CASE UNCHANGED <<assignments, transits, invoices>>
  BY <1>1 DEF Lifecycle!vars
<1>2. ASSUME NEW r \in Requests,
             \/ StartAssigningDrivers(r) \/ UpdateAssignment(r)
             \/ StartTransit(r) \/ UpdateTransit(r) \/ GenerateInvoice(r)
      PROVE  [Lifecycle!Next]_(Lifecycle!vars)
  BY <1>2, PublishRefined, AnswerRefined, StartRefined, FinishRefined,
     BillRefined DEF Lifecycle!Next
<1>. QED
  BY <1>1, <1>2, ContractSteps DEF vars, tables

LEMMA LifecycleInit == Init => Lifecycle!Init
<1>. SUFFICES ASSUME Init PROVE Lifecycle!Init
  OBVIOUS
<1>1. DOMAIN assignments = {} /\ DOMAIN transits = {}
  BY InitIInv, CallFacts, EmptySeq DEF Init, IInv, TypeOK, RowsTypeOK
<1>. QED
  BY <1>1 DEF Init, Lifecycle!Init

\* ImplementsLifecycle: requests that do not overlap keep the contract of a
\* ride: one driver at a time, no trip without a driver, one invoice at most
\* for each trip that was finished.
THEOREM RefinesLifecycle ==
  ASSUME ~Overlapping
  PROVE  Spec => ImplementsLifecycle
<1>1. Init => Lifecycle!Init
  BY LifecycleInit
<1>2. IInv /\ SerialInv /\ OffersInv /\ TripsInv /\ [Next]_vars
        => [Lifecycle!Next]_(Lifecycle!vars)
  BY LifecycleNext
<1>. QED
  BY <1>1, <1>2, SerialTrips, PTL
     DEF Spec, ImplementsLifecycle, Lifecycle!Spec

-----------------------------------------------------------------------------
(* What a ride costs and what its driver gets, for every time, distance and *)
(* fee.                                                                     *)

Rates == {10, 15, 25, 35}

LEMMA RoundedBounds ==
  ASSUME NEW n \in Int, NEW d \in Nat, d > 0
  PROVE  /\ Rounded(n, d) \in Int
         /\ 2 * d * Rounded(n, d) <= 2 * n + d
         /\ 2 * n + d < 2 * d * Rounded(n, d) + 2 * d
<1> DEFINE m == 2 * n + d
           k == 2 * d
<1>1. m \in Int /\ k \in Nat /\ k > 0
  OBVIOUS
<1>2. m \div k \in Int /\ m % k \in 0 .. (k - 1) /\ m = k * (m \div k) + (m % k)
  <2> HIDE DEF m, k
  <2> QED BY <1>1, SMT
<1> QED BY <1>1, <1>2 DEF Rounded

LEMMA RoundedHundredths ==
  ASSUME NEW n \in Int
  PROVE  /\ Rounded(n, 100) \in Int
         /\ 200 * Rounded(n, 100) <= 2 * n + 100
         /\ 2 * n + 100 < 200 * Rounded(n, 100) + 200
BY RoundedBounds

LEMMA RoundedGrows ==
  ASSUME NEW m \in Int, NEW n \in Int, m <= n
  PROVE  Rounded(m, 100) <= Rounded(n, 100)
BY RoundedHundredths

LEMMA RoundedTells ==
  ASSUME NEW m \in Int, NEW n \in Int, Rounded(m, 100) = Rounded(n, 100)
  PROVE  m < n + 100 /\ n < m + 100
BY RoundedHundredths

\* Whole cents stay as they are.
LEMMA RoundedWhole ==
  ASSUME NEW m \in Int
  PROVE  Rounded(100 * m, 100) = m
<1> DEFINE n == 100 * m
           r == Rounded(n, 100)
<1>1. n \in Int
  OBVIOUS
<1>2. r \in Int /\ 200 * r <= 2 * n + 100 /\ 2 * n + 100 < 200 * r + 200
  <2> HIDE DEF n
  <2> QED BY <1>1, RoundedHundredths
<1>3. r = m
  <2> HIDE DEF r
  <2> QED BY <1>2
<1> QED BY <1>3

LEMMA RatesOfTime ==
  ASSUME NEW t \in Time
  PROVE  /\ TariffOfTime(t).kmRate \in Rates
         /\ TariffOfTime(t).baseFee \in Nat
BY DEF TariffOfTime, Tariff, BaseFee, Rates

-----------------------------------------------------------------------------
\* A longer ride never costs less, at any time (Tariff.calculateCost).
THEOREM CostsGrow ==
  ASSUME NEW t \in Time, NEW a \in Nat, NEW b \in Nat, a <= b
  PROVE  EstimatedPrice(t, a) <= EstimatedPrice(t, b)
<1> DEFINE rate == TariffOfTime(t).kmRate
<1>1. a * rate \in Int /\ b * rate \in Int /\ a * rate <= b * rate
  BY RatesOfTime DEF Rates
<1>2. Rounded(a * rate, 100) <= Rounded(b * rate, 100)
  BY <1>1, RoundedGrows
<1>3. Rounded(a * rate, 100) \in Int /\ Rounded(b * rate, 100) \in Int
  <2> HIDE DEF rate
  <2> QED BY <1>1, RoundedHundredths
<1> QED BY <1>2, <1>3, RatesOfTime DEF EstimatedPrice, CalculateCost

\* Rides of different lengths in whole kilometres have different prices, so
\* that RideService may keep the kilometres where the code keeps the price
\* (Transit.calculateFinalCosts).
THEOREM PriceTellsDistance ==
  ASSUME NEW t \in Time, NEW a \in Nat, NEW b \in Nat,
         EstimatedPrice(t, 1000 * a) = EstimatedPrice(t, 1000 * b)
  PROVE  a = b
<1> DEFINE rate == TariffOfTime(t).kmRate
<1>1. (1000 * a) * rate \in Int /\ (1000 * b) * rate \in Int
  BY RatesOfTime DEF Rates
<1>2. Rounded((1000 * a) * rate, 100) = Rounded((1000 * b) * rate, 100)
  <2>1. /\ Rounded((1000 * a) * rate, 100) \in Int
        /\ Rounded((1000 * b) * rate, 100) \in Int
    BY <1>1, RoundedHundredths
  <2> QED BY <2>1, RatesOfTime DEF EstimatedPrice, CalculateCost
<1>3. /\ (1000 * a) * rate < (1000 * b) * rate + 100
      /\ (1000 * b) * rate < (1000 * a) * rate + 100
  BY <1>1, <1>2, RoundedTells
<1> QED BY <1>3, RatesOfTime DEF Rates

LEMMA FeeOfPriceIsInt ==
  ASSUME NEW fee \in DriverFee, NEW price \in Nat
  PROVE  FeeOfPrice(fee, price) \in Int
<1>1. price * fee.amount \in Int /\ price - fee.amount \in Int
  BY DEF DriverFee
<1> QED BY <1>1, RoundedHundredths DEF FeeOfPrice

\* More of the price: a percentage of more than 100, or a flat deduction below
\* nothing, and no other fee.
LEMMA FeeOfPriceAbove ==
  ASSUME NEW fee \in DriverFee, NEW price \in Nat, FeeOfPrice(fee, price) > price
  PROVE  \/ fee.feeType = "flat" /\ fee.amount < 0
         \/ fee.feeType = "percentage" /\ fee.amount > 100
<1>1. CASE fee.feeType = "flat"
  BY <1>1 DEF FeeOfPrice, DriverFee
<1>2. CASE fee.feeType = "percentage"
  <2> SUFFICES ASSUME fee.amount <= 100 PROVE FALSE
    BY <1>2 DEF DriverFee
  <2>1. /\ price * fee.amount \in Int /\ 100 * price \in Int
        /\ price * fee.amount <= 100 * price
    BY DEF DriverFee
  <2>2. FeeOfPrice(fee, price) <= price
    BY <1>2, <2>1, RoundedGrows, RoundedWhole DEF FeeOfPrice
  <2> QED BY <2>2, FeeOfPriceIsInt
<1> QED BY <1>1, <1>2 DEF DriverFee, FeeTypes

\* What a driver gets (DriverFee.calculateDriverFee), whatever the columns of the
\* fee hold: the minimum at least, and more than the passenger pays only by a
\* minimum above the price, a negative flat amount or a percentage over 100, none
\* of which the constructor, setAmount or setMin refuses.  A percentage of 100 or
\* more does leave the driver the whole price at least.
THEOREM FeeBounds ==
  ASSUME NEW fee \in DriverFee, NEW price \in Nat
  PROVE  /\ CalculateDriverFee(fee, price) >= fee.min
         /\ CalculateDriverFee(fee, price) > price =>
              \/ fee.min > price
              \/ fee.feeType = "flat" /\ fee.amount < 0
              \/ fee.feeType = "percentage" /\ fee.amount > 100
         /\ fee.feeType = "percentage" /\ fee.amount >= 100 =>
              CalculateDriverFee(fee, price) >= price
<1>1. FeeOfPrice(fee, price) \in Int /\ fee.min \in Int
  BY FeeOfPriceIsInt DEF DriverFee
<1>2. /\ CalculateDriverFee(fee, price) >= fee.min
      /\ CalculateDriverFee(fee, price) >= FeeOfPrice(fee, price)
      /\ CalculateDriverFee(fee, price) \in {FeeOfPrice(fee, price), fee.min}
  BY <1>1 DEF CalculateDriverFee
<1>3. ASSUME CalculateDriverFee(fee, price) > price
      PROVE  \/ fee.min > price
             \/ fee.feeType = "flat" /\ fee.amount < 0
             \/ fee.feeType = "percentage" /\ fee.amount > 100
  <2>1. CASE CalculateDriverFee(fee, price) = fee.min
    BY <1>3, <2>1
  <2>2. CASE CalculateDriverFee(fee, price) = FeeOfPrice(fee, price)
    BY <1>3, <2>2, FeeOfPriceAbove
  <2> QED BY <1>2, <2>1, <2>2
<1>4. ASSUME fee.feeType = "percentage", fee.amount >= 100
      PROVE  CalculateDriverFee(fee, price) >= price
  <2>1. /\ price * fee.amount \in Int /\ 100 * price \in Int
        /\ 100 * price <= price * fee.amount
    BY <1>4 DEF DriverFee
  <2>2. Rounded(100 * price, 100) <= Rounded(price * fee.amount, 100)
    BY <2>1, RoundedGrows
  <2>3. price <= FeeOfPrice(fee, price)
    BY <1>4, <2>2, RoundedWhole DEF FeeOfPrice
  <2> QED BY <1>1, <1>2, <2>3
<1> QED BY <1>2, <1>3, <1>4

\* A driver gets less for a dearer ride only by a negative percentage, which
\* nothing refuses either (DriverFee.calculateDriverFee).
THEOREM FeesGrow ==
  ASSUME NEW fee \in DriverFee, NEW p \in Nat, NEW q \in Nat, p <= q
  PROVE  CalculateDriverFee(fee, q) < CalculateDriverFee(fee, p) =>
           fee.feeType = "percentage" /\ fee.amount < 0
<1> SUFFICES ASSUME CalculateDriverFee(fee, q) < CalculateDriverFee(fee, p)
             PROVE  fee.feeType = "percentage" /\ fee.amount < 0
  OBVIOUS
<1>1. /\ FeeOfPrice(fee, p) \in Int /\ FeeOfPrice(fee, q) \in Int
      /\ FeeOfPrice(fee, q) < FeeOfPrice(fee, p)
  BY FeeOfPriceIsInt DEF CalculateDriverFee, DriverFee
<1>2. fee.feeType = "percentage"
  BY <1>1 DEF FeeOfPrice, DriverFee, FeeTypes
<1>3. SUFFICES ASSUME fee.amount >= 0 PROVE FALSE
  BY <1>2 DEF DriverFee
<1>4. /\ p * fee.amount \in Int /\ q * fee.amount \in Int
      /\ p * fee.amount <= q * fee.amount
  BY <1>3 DEF DriverFee
<1>5. FeeOfPrice(fee, p) <= FeeOfPrice(fee, q)
  BY <1>2, <1>4, RoundedGrows DEF FeeOfPrice
<1> QED BY <1>1, <1>5
=============================================================================
