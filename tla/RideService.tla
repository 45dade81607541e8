----------------------------- MODULE RideService ----------------------------
(***************************************************************************)
(* The life of one ride (one requestUUID) under concurrent HTTP requests.  *)
(*                                                                         *)
(* Node runs one request at a time, but every await lets another request   *)
(* run.  A request is a process; an action is what it does between two     *)
(* awaits that touch shared rows.  A handler loads a row and changes its   *)
(* copy in memory; saving the copy is two more steps, a comparison with    *)
(* the row as it is then and an UPDATE of the columns that differ.  No     *)
(* transaction spans them and nothing checks the version column.           *)
(***************************************************************************)
EXTENDS RideEntities, Sequences

CONSTANTS
  Requests,        \* HTTP requests; each is handled once
  Operations,      \* the endpoints the requests of a run call
  NoRow,           \* no row held in memory
  Overlapping,     \* TRUE: requests interleave at every await;
                   \* FALSE: a request starts when no other is in progress
  PayableDrivers,  \* drivers with a DriverFee row
  MaxDistance,     \* km at which a search gives up (20 in the code)
  MaxPositions,    \* bound on the positions one driver has in a search round
  MaxPublications  \* bound on the calls of publishTransit

Endpoints ==
  { "publish", "findDrivers", "cancel", "accept", "reject", "start",
    "complete", "changeFrom", "changeTo" }

ASSUME ServiceAssumption ==
  /\ Operations \subseteq Endpoints
  /\ Overlapping \in BOOLEAN
  /\ PayableDrivers \subseteq Drivers
  /\ MaxDistance \in Nat \ {0}
  /\ MaxPositions \in Nat \ {0}
  /\ MaxPublications \in Nat
  /\ Addresses # {}

VARIABLES
  demands,      \* transit_demand rows of the ride
  assignments,  \* driver_assignment rows of the ride
  transits,     \* transit rows of the ride
  details,      \* its transit_details row
  occupied,     \* driver.isOccupied
  invoices,     \* invoices generated for the ride
  pc,           \* where a request is
  op,           \* the endpoint it called
  driver,       \* its driverId parameter
  row,          \* which row of a table it loaded
  img,          \* its copy of that row
  seen,         \* the row its save compared that copy with
  round,        \* distanceToCheck of its search
  offered,      \* history: drivers notified of a possible transit
  took,         \* history: drivers whose acceptance was saved
  pickups       \* history: pickup changes saved

tables == <<demands, assignments, transits, details, occupied, invoices>>
locals == <<op, driver, row, img, seen, round>>
history == <<offered, took, pickups>>
vars == <<tables, pc, locals, history>>

-----------------------------------------------------------------------------
(* Requests                                                                 *)

InProgress(r) == pc[r] \notin {"idle", "answered"}

At(r, label) == pc[r] = label
Goto(r, label) == pc' = [pc EXCEPT ![r] = label]

\* A response, or an exception that ends the handler where it is.
Finish(r) ==
  /\ pc'     = [pc EXCEPT ![r] = "answered"]
  /\ op'     = [op EXCEPT ![r] = "none"]
  /\ driver' = [driver EXCEPT ![r] = NoDriver]
  /\ row'    = [row EXCEPT ![r] = 0]
  /\ img'    = [img EXCEPT ![r] = NoRow]
  /\ seen'   = [seen EXCEPT ![r] = NoRow]
  /\ round'  = [round EXCEPT ![r] = 0]

Throw(r) == Finish(r) /\ UNCHANGED <<tables, history>>

\* The request holds x, its changed copy of row i, and goes on to save it.
Hold(r, i, x, label) ==
  /\ row' = [row EXCEPT ![r] = i]
  /\ img' = [img EXCEPT ![r] = x]
  /\ Goto(r, label)
  /\ UNCHANGED <<op, driver, seen, round>>

FirstStep(o) ==
  CASE o = "publish"                -> "insertDemand"
    [] o = "findDrivers"            -> "loadForSearch"
    [] o = "cancel"                 -> "loadDemand"
    [] o \in {"accept", "changeFrom"} -> "checkNotAssigned"
    [] o = "reject"                 -> "loadAssignment"
    [] o = "start"                  -> "checkAssigned"
    [] OTHER                        -> "loadTransit"

TakesDriver == {"accept", "reject", "start", "complete"}

Publications ==
  Len(demands) + Cardinality({q \in Requests : At(q, "insertDemand")})

\* A controller method calls its handler; the ride and the drivers exist.
Begin(r) ==
  /\ At(r, "idle")
  /\ Overlapping \/ \A q \in Requests : ~InProgress(q)
  /\ \E o \in Operations :
       /\ o = "publish" => Publications < MaxPublications
       /\ op' = [op EXCEPT ![r] = o]
       /\ Goto(r, FirstStep(o))
       /\ \E d \in IF o \in TakesDriver THEN Drivers ELSE {NoDriver} :
            driver' = [driver EXCEPT ![r] = d]
  /\ UNCHANGED <<tables, row, img, seen, round, history>>

-----------------------------------------------------------------------------
(* Saving a row that exists                                                 *)

UpdateLabel ==
  [ saveDemand     |-> "updateDemand",
    saveProposals  |-> "updateProposals",
    saveFailure    |-> "updateFailure",
    saveAssignment |-> "updateAssignment",
    saveTransit    |-> "updateTransit",
    saveDetails    |-> "updateDetails" ]

RowInTable(r) ==
  CASE At(r, "saveDemand")  -> demands[row[r]]
    [] At(r, "saveTransit") -> transits[row[r]]
    [] At(r, "saveDetails") -> details
    [] OTHER                -> assignments[row[r]]

\* The SELECT of a save; the UPDATE is an action of the service.
Compare(r) ==
  /\ pc[r] \in DOMAIN UpdateLabel
  /\ seen' = [seen EXCEPT ![r] = RowInTable(r)]
  /\ Goto(r, UpdateLabel[pc[r]])
  /\ UNCHANGED <<tables, op, driver, row, img, round, history>>

\* What row becomes when the request updates it with its copy.
Saved(r, current) == Updated(current, seen[r], img[r])

\* The request goes on; what the save saw is forgotten.
GotoAfterSave(r, label) ==
  /\ Goto(r, label)
  /\ seen' = [seen EXCEPT ![r] = NoRow]
  /\ UNCHANGED <<op, driver, row, img, round>>

-----------------------------------------------------------------------------
(* DemandService and ChangePickupService                                    *)

PublishDemand(r) ==
  /\ At(r, "insertDemand")
  /\ demands' = Append(demands, NewDemand)
  /\ Goto(r, "insertAssignment")
  /\ UNCHANGED <<assignments, transits, details, occupied, invoices, locals,
                 history>>

\* cancelDemand and acceptDemand ignore a missing demand.
NoDemand(r) ==
  /\ At(r, "loadDemand")
  /\ op[r] \in {"cancel", "accept"}
  /\ demands = <<>>
  /\ Goto(r, "loadAssignment")
  /\ UNCHANGED <<tables, locals, history>>

CancelDemand(r) ==
  /\ At(r, "loadDemand") /\ op[r] = "cancel"
  /\ \E i \in DOMAIN demands :
       IF CanCancelDemand(demands[i])
       THEN /\ Hold(r, i, CancelledDemand(demands[i]), "saveDemand")
            /\ UNCHANGED <<tables, history>>
       ELSE Throw(r)

AcceptDemand(r) ==
  /\ At(r, "loadDemand") /\ op[r] = "accept"
  /\ \E i \in DOMAIN demands :
       Hold(r, i, AcceptedDemand(demands[i]), "saveDemand")
  /\ UNCHANGED <<tables, history>>

ChangePickup(r) ==
  /\ At(r, "loadDemand") /\ op[r] = "changeFrom"
  /\ \/ \E i \in DOMAIN demands, near \in BOOLEAN :
          IF CanChangePickup(demands[i], near)
          THEN /\ Hold(r, i, PickupChanged(demands[i]), "saveDemand")
               /\ UNCHANGED <<tables, history>>
          ELSE Throw(r)
     \/ demands = <<>> /\ Throw(r)

UpdateDemand(r) ==
  /\ At(r, "updateDemand")
  /\ demands' = [demands EXCEPT ![row[r]] = Saved(r, @)]
  /\ pickups' = IF op[r] = "changeFrom" THEN pickups + 1 ELSE pickups
  /\ GotoAfterSave(r, IF op[r] = "changeFrom" THEN "loadDetails"
                                             ELSE "loadAssignment")
  /\ UNCHANGED <<assignments, transits, details, occupied, invoices, offered,
                 took>>

-----------------------------------------------------------------------------
(* DriverAssignmentFacade                                                   *)

DriverAssigned ==
  \E i \in DOMAIN assignments : assignments[i].status = "ON_THE_WAY"

\* acceptTransit and changeTransitAddressFrom refuse a ride with a driver.
CheckNotAssigned(r) ==
  /\ At(r, "checkNotAssigned")
  /\ IF DriverAssigned
     THEN Throw(r)
     ELSE Goto(r, "loadDemand") /\ UNCHANGED <<tables, locals, history>>

\* Fault: nothing is checked before a transit is started.
StartUnchecked(r) ==
  /\ At(r, "checkAssigned")
  /\ Goto(r, "insertTransit")
  /\ UNCHANGED <<tables, locals, history>>

\* startTransit wants one.  existsFor tests a promise, which is always
\* truthy, so a missing demand is no obstacle.
CheckAssigned(r) ==
  /\ At(r, "checkAssigned")
  /\ IF DriverAssigned
     THEN Goto(r, "insertTransit") /\ UNCHANGED <<tables, locals, history>>
     ELSE Throw(r)

StartAssigningDrivers(r) ==
  /\ At(r, "insertAssignment")
  /\ assignments' = Append(assignments, NewAssignment)
  /\ Goto(r, "loadForSearch")
  /\ UNCHANGED <<demands, transits, details, occupied, invoices, locals,
                 history>>

LoadForSearch(r) ==
  /\ At(r, "loadForSearch")
  /\ \/ /\ \E i \in DOMAIN assignments : Hold(r, i, assignments[i], "search")
        /\ UNCHANGED <<tables, history>>
     \/ assignments = <<>> /\ Throw(r)

\* noneFound(): enough drivers are asked already, or no car class is active.
StopSearch(r) ==
  /\ At(r, "search")
  /\ \/ img[r].awaiting > 4
     \/ /\ ~ShouldNotWaitForDriverAnymore(img[r])
        /\ round[r] < MaxDistance
  /\ Goto(r, "loadDetails")
  /\ round' = [round EXCEPT ![r] = 0]
  /\ UNCHANGED <<tables, op, driver, row, img, seen, history>>

GiveUpSearch(r) ==
  /\ At(r, "search")
  /\ img[r].awaiting <= 4
  /\ ShouldNotWaitForDriverAnymore(img[r]) \/ round[r] + 1 > MaxDistance
  /\ round' = [round EXCEPT ![r] = 0]
  /\ img' = [img EXCEPT ![r] = FailedAssignment(img[r])]
  /\ Goto(r, "saveFailure")
  /\ UNCHANGED <<tables, op, driver, row, seen, history>>

\* Fault: distanceToCheck is never increased.
SearchSameDistance(r) ==
  /\ At(r, "search")
  /\ img[r].awaiting <= 4
  /\ ~ShouldNotWaitForDriverAnymore(img[r])
  /\ round[r] < MaxDistance
  /\ \E found \in SUBSET {d \in Drivers : ~occupied[d]} :
       LET new == found \ img[r].rejected IN
       \E n \in Cardinality(new) .. (MaxPositions * Cardinality(new)) :
         /\ img' = [img EXCEPT ![r] = ProposedTo(@, found, n)]
         /\ offered' = offered \union new
         /\ Goto(r, IF found = {} THEN "search" ELSE "saveProposals")
  /\ UNCHANGED <<tables, op, driver, row, seen, round, took, pickups>>

\* One turn of the loop: the free drivers with a position within the distance
\* are offered the ride, in the copy loaded before the loop.  When nobody is
\* found nothing is saved.
SearchRound(r) ==
  /\ At(r, "search")
  /\ img[r].awaiting <= 4
  /\ ~ShouldNotWaitForDriverAnymore(img[r])
  /\ round[r] < MaxDistance
  /\ round' = [round EXCEPT ![r] = @ + 1]
  /\ \E found \in SUBSET {d \in Drivers : ~occupied[d]} :
       LET new == found \ img[r].rejected IN
       \E n \in Cardinality(new) .. (MaxPositions * Cardinality(new)) :
         /\ img' = [img EXCEPT ![r] = ProposedTo(@, found, n)]
         /\ offered' = offered \union new
         /\ Goto(r, IF found = {} THEN "search" ELSE "saveProposals")
  /\ UNCHANGED <<tables, op, driver, row, seen, took, pickups>>

NoAssignment(r) ==
  /\ At(r, "loadAssignment")
  /\ assignments = <<>>
  /\ IF op[r] = "cancel"
     THEN Goto(r, "loadDetails") /\ UNCHANGED <<tables, locals, history>>
     ELSE Throw(r)

CancelAssignment(r) ==
  /\ At(r, "loadAssignment") /\ op[r] = "cancel"
  /\ \E i \in DOMAIN assignments :
       IF CanCancelAssignment(assignments[i])
       THEN /\ Hold(r, i, CancelledAssignment(assignments[i]), "saveAssignment")
            /\ UNCHANGED <<tables, history>>
       ELSE Throw(r)

AcceptAssignment(r) ==
  /\ At(r, "loadAssignment") /\ op[r] = "accept"
  /\ \E i \in DOMAIN assignments :
       IF CanAcceptBy(assignments[i], driver[r])
       THEN /\ Hold(r, i, AcceptedBy(assignments[i], driver[r]),
                    "saveAssignment")
            /\ UNCHANGED <<tables, history>>
       ELSE Throw(r)

RejectAssignment(r) ==
  /\ At(r, "loadAssignment") /\ op[r] = "reject"
  /\ \E i \in DOMAIN assignments :
       Hold(r, i, RejectedBy(assignments[i], driver[r]), "saveAssignment")
  /\ UNCHANGED <<tables, history>>

AfterUpdateAssignment(r) ==
  CASE At(r, "updateProposals") -> "search"
    [] op[r] = "accept"         -> "markOccupied"
    [] OTHER                    -> "loadDetails"

UpdateAssignment(r) ==
  /\ pc[r] \in {"updateProposals", "updateFailure", "updateAssignment"}
  /\ assignments' = [assignments EXCEPT ![row[r]] = Saved(r, @)]
  /\ took' = IF op[r] = "accept" THEN took \union {driver[r]} ELSE took
  /\ IF op[r] = "reject"
     THEN Finish(r)
     ELSE GotoAfterSave(r, AfterUpdateAssignment(r))
  /\ UNCHANGED <<demands, transits, details, occupied, invoices, offered,
                 pickups>>

-----------------------------------------------------------------------------
(* StartTransitService, ChangeDestinationService, CompleteTransitService    *)

StartTransit(r) ==
  /\ At(r, "insertTransit")
  /\ transits' = Append(transits, NewTransit)
  /\ Goto(r, "loadDetails")
  /\ UNCHANGED <<demands, assignments, details, occupied, invoices, locals,
                 history>>

NoTransit(r) ==
  /\ At(r, "loadTransit")
  /\ transits = <<>>
  /\ IF op[r] = "changeTo"
     THEN Goto(r, "loadDetails") /\ UNCHANGED <<tables, locals, history>>
     ELSE Throw(r)

ChangeDestination(r) ==
  /\ At(r, "loadTransit") /\ op[r] = "changeTo"
  /\ \E i \in DOMAIN transits, km \in MapDistances :
       IF CanChangeDestination(transits[i], km)
       THEN /\ Hold(r, i, DestinationChanged(transits[i], km), "saveTransit")
            /\ UNCHANGED <<tables, history>>
       ELSE Throw(r)

CompleteTransit(r) ==
  /\ At(r, "loadTransit") /\ op[r] = "complete"
  /\ \E i \in DOMAIN transits, km \in MapDistances :
       IF CanComplete(transits[i])
       THEN /\ Hold(r, i, CompletedAt(transits[i], km), "saveTransit")
            /\ UNCHANGED <<tables, history>>
       ELSE Throw(r)

UpdateTransit(r) ==
  /\ At(r, "updateTransit")
  /\ transits' = [transits EXCEPT ![row[r]] = Saved(r, @)]
  /\ GotoAfterSave(r, IF op[r] = "complete" THEN "driverFee" ELSE "loadDetails")
  /\ UNCHANGED <<demands, assignments, details, occupied, invoices, history>>

-----------------------------------------------------------------------------
(* DriverService and DriverFeeService                                       *)

\* Fault: the driver who accepted stays free.
MarkNobodyOccupied(r) ==
  /\ At(r, "markOccupied")
  /\ Goto(r, "loadDetails")
  /\ UNCHANGED <<tables, locals, history>>

MarkOccupied(r) ==
  /\ At(r, "markOccupied")
  /\ occupied' = [occupied EXCEPT ![driver[r]] = TRUE]
  /\ Goto(r, "loadDetails")
  /\ UNCHANGED <<demands, assignments, transits, details, invoices, locals,
                 history>>

\* calculateDriverFee throws for a driver without a fee: the transit is
\* completed already, and everything after it is skipped.
NoDriverFee(r) ==
  /\ At(r, "driverFee")
  /\ driver[r] \notin PayableDrivers
  /\ Throw(r)

MarkNotOccupied(r) ==
  /\ At(r, "driverFee")
  /\ driver[r] \in PayableDrivers
  /\ occupied' = [occupied EXCEPT ![driver[r]] = FALSE]
  /\ Goto(r, "loadDetails")
  /\ UNCHANGED <<demands, assignments, transits, details, invoices, locals,
                 history>>

-----------------------------------------------------------------------------
(* TransitDetailsFacade: each method loads the row, changes and saves it.   *)

\* Fault: the price of a completed transit is not copied to its details.
CompleteWithoutPrice(r, t) ==
  CASE op[r] = "publish"     -> {DetailsPublished(t)}
    [] op[r] = "findDrivers" -> {DetailsDriversInvolved(t)}
    [] op[r] = "cancel"      -> {DetailsCancelled(t)}
    [] op[r] = "accept"      -> {DetailsAccepted(t, driver[r])}
    [] op[r] = "start"       -> {DetailsStarted(t)}
    [] op[r] = "complete"    -> {[t EXCEPT !.status = "completed"]}
    [] op[r] = "changeFrom"  -> {DetailsPickupChanged(t, a) : a \in Addresses}
    [] OTHER                 -> {DetailsDestinationChanged(t, a) : a \in Addresses}

ChangedDetails(r, t) ==
  CASE op[r] = "publish"     -> {DetailsPublished(t)}
    [] op[r] = "findDrivers" -> {DetailsDriversInvolved(t)}
    [] op[r] = "cancel"      -> {DetailsCancelled(t)}
    [] op[r] = "accept"      -> {DetailsAccepted(t, driver[r])}
    [] op[r] = "start"       -> {DetailsStarted(t)}
    [] op[r] = "complete"    -> {DetailsCompleted(t, img[r].km)}
    [] op[r] = "changeFrom"  -> {DetailsPickupChanged(t, a) : a \in Addresses}
    [] OTHER                 -> {DetailsDestinationChanged(t, a) : a \in Addresses}

LoadDetails(r) ==
  /\ At(r, "loadDetails")
  /\ \E t \in ChangedDetails(r, details) : Hold(r, 0, t, "saveDetails")
  /\ UNCHANGED <<tables, history>>

UpdateDetails(r) ==
  /\ At(r, "updateDetails")
  /\ details' = Saved(r, details)
  /\ IF op[r] = "complete"
     THEN GotoAfterSave(r, "generateInvoice")
     ELSE Finish(r)
  /\ UNCHANGED <<demands, assignments, transits, occupied, invoices, history>>

\* The tail of completeTransit: miles, the invoice, the completion event.
GenerateInvoice(r) ==
  /\ At(r, "generateInvoice")
  /\ invoices' = invoices + 1
  /\ Finish(r)
  /\ UNCHANGED <<demands, assignments, transits, details, occupied, history>>

-----------------------------------------------------------------------------
(* The specification                                                        *)

\* createTransit has saved a request and its details; nothing else exists.
Init ==
  /\ demands = <<>>
  /\ assignments = <<>>
  /\ transits = <<>>
  /\ \E from, to \in Addresses : details = NewDetails(from, to)
  /\ occupied = [d \in Drivers |-> FALSE]
  /\ invoices = 0
  /\ pc     = [r \in Requests |-> "idle"]
  /\ op     = [r \in Requests |-> "none"]
  /\ driver = [r \in Requests |-> NoDriver]
  /\ row    = [r \in Requests |-> 0]
  /\ img    = [r \in Requests |-> NoRow]
  /\ seen   = [r \in Requests |-> NoRow]
  /\ round  = [r \in Requests |-> 0]
  /\ offered = {}
  /\ took = {}
  /\ pickups = 0

DemandStep(r) ==
  \/ PublishDemand(r) \/ NoDemand(r) \/ CancelDemand(r) \/ AcceptDemand(r)
  \/ ChangePickup(r)  \/ UpdateDemand(r)

AssignmentStep(r) ==
  \/ CheckNotAssigned(r) \/ CheckAssigned(r) \/ StartAssigningDrivers(r)
  \/ LoadForSearch(r)    \/ StopSearch(r)    \/ GiveUpSearch(r)
  \/ SearchRound(r)      \/ NoAssignment(r)  \/ CancelAssignment(r)
  \/ AcceptAssignment(r) \/ RejectAssignment(r) \/ UpdateAssignment(r)

TransitStep(r) ==
  \/ StartTransit(r) \/ NoTransit(r)   \/ ChangeDestination(r)
  \/ CompleteTransit(r) \/ UpdateTransit(r)
  \/ MarkOccupied(r) \/ NoDriverFee(r) \/ MarkNotOccupied(r)

DetailsStep(r) == LoadDetails(r) \/ UpdateDetails(r) \/ GenerateInvoice(r)

\* What the event loop does for a request that is in progress.
Step(r) ==
  \/ DemandStep(r)  \/ AssignmentStep(r) \/ TransitStep(r)
  \/ DetailsStep(r) \/ Compare(r)

\* Every request is answered: nothing is left to run.
AllAnswered == (\A r \in Requests : ~InProgress(r)) /\ UNCHANGED vars

Next == (\E r \in Requests : Begin(r) \/ Step(r)) \/ AllAnswered

Spec == Init /\ [][Next]_vars

-----------------------------------------------------------------------------
(* Types                                                                    *)

Labels ==
  { "idle", "answered", "insertDemand", "loadDemand", "saveDemand",
    "checkNotAssigned", "checkAssigned", "insertAssignment", "loadForSearch",
    "search", "saveProposals", "saveFailure", "loadAssignment",
    "saveAssignment", "insertTransit", "loadTransit", "saveTransit",
    "driverFee", "markOccupied", "loadDetails", "saveDetails",
    "generateInvoice", "updateDemand", "updateProposals", "updateFailure",
    "updateAssignment", "updateTransit", "updateDetails" }

RowsTypeOK ==
  /\ demands \in Seq(Demand)
  /\ assignments \in Seq(Assignment)
  /\ transits \in Seq(Transit)
  /\ details \in Details
  /\ occupied \in [Drivers -> BOOLEAN]
  /\ invoices \in Nat

Copies == Demand \union Assignment \union Transit \union Details

CallsTypeOK ==
  /\ pc \in [Requests -> Labels]
  /\ op \in [Requests -> Endpoints \union {"none"}]
  /\ driver \in [Requests -> Drivers \union {NoDriver}]
  /\ row \in [Requests -> Nat]
  /\ img \in [Requests -> Copies \union {NoRow}]
  /\ seen \in [Requests -> Copies \union {NoRow}]
  /\ round \in [Requests -> 0 .. MaxDistance]

HistoryTypeOK ==
  /\ offered \subseteq Drivers
  /\ took \subseteq Drivers
  /\ pickups \in Nat

\* Every table and every request's copy has the shape of its entity.
TypeOK == RowsTypeOK /\ CallsTypeOK /\ HistoryTypeOK

-----------------------------------------------------------------------------
(* What holds however requests interleave                                   *)

\* A driver named by a driver_assignment row is one whose acceptance was
\* saved, however many stale copies of the row are written back over it.
AssignedDriverAccepted ==
  \A i \in DOMAIN assignments :
    assignments[i].assigned \in took \union {NoDriver}

\* Only a driver who was notified of the ride can have taken it
\* (acceptBy looks the driver up among the proposed ones), whatever stale
\* copies are written over the assignment in the meantime.
OnlyOfferedDriversTake == took \subseteq offered

\* No transit exists for a ride that no driver ever accepted (start checks
\* the assignment), and no invoice without a transit (complete loads it).
NothingWithoutAcceptance ==
  /\ transits # <<>> => took # {}
  /\ invoices > 0 => transits # <<>>

\* Steps a request takes at most from each label, a search but for its rounds.
StepsFrom ==
  [ idle |-> 0,             answered |-> 0,         generateInvoice |-> 1,
    updateDetails |-> 2,    saveDetails |-> 3,      loadDetails |-> 4,
    markOccupied |-> 5,     driverFee |-> 5,        updateAssignment |-> 6,
    updateTransit |-> 6,    updateFailure |-> 6,    saveAssignment |-> 7,
    saveTransit |-> 7,      saveFailure |-> 7,      insertTransit |-> 7,
    loadAssignment |-> 8,   loadTransit |-> 8,      checkAssigned |-> 8,
    search |-> 8,           updateProposals |-> 9,  saveProposals |-> 10,
    updateDemand |-> 9,     saveDemand |-> 10,      loadDemand |-> 11,
    checkNotAssigned |-> 12, loadForSearch |-> 9,   insertAssignment |-> 10,
    insertDemand |-> 11 ]

Searching(r) ==
  pc[r] \in { "insertDemand", "insertAssignment", "loadForSearch", "search",
              "saveProposals", "updateProposals" }

StepsLeft(r) ==
  StepsFrom[pc[r]] + IF Searching(r) THEN 3 * (MaxDistance - round[r]) ELSE 0

\* The while (true) loop of searchForPossibleDrivers comes to an end, whatever
\* the tracking service answers, and with it every handler: each step leaves
\* fewer.  That there is a step is that the runs have no deadlock.
EveryStepCountsDown ==
  [][\A r \in Requests :
       InProgress(r) =>
         \/ pc'[r] = pc[r] /\ img'[r] = img[r] /\ round'[r] = round[r]
         \/ StepsLeft(r)' < StepsLeft(r)]_vars

-----------------------------------------------------------------------------
(* What holds when the requests of a ride do not overlap                    *)

Quiet == \A r \in Requests : ~InProgress(r)

\* A row of driver_assignment is ON_THE_WAY exactly when it names a driver,
\* and it names one the ride was proposed to.  Requests that overlap can break
\* it: each UPDATE sets only the columns its save saw differ.
AssignmentCoherent ==
  Quiet =>
    \A i \in DOMAIN assignments :
      LET a == assignments[i] IN
      /\ a.status = "ON_THE_WAY" <=> a.assigned # NoDriver
      /\ a.assigned # NoDriver => a.assigned \in a.proposed

\* "Only one driver can accept transit": an assignment that has a driver is
\* never given to another one.
AssignedDriverIsNotReplaced ==
  [][\A i \in DOMAIN assignments :
       assignments[i].assigned # NoDriver =>
         assignments'[i].assigned \in {assignments[i].assigned, NoDriver}]_assignments

\* A transit "can't be accepted by driver who already rejected it".
RejectionIsRespected ==
  [][\A i \in DOMAIN assignments :
       assignments'[i].assigned # assignments[i].assigned =>
         assignments'[i].assigned \notin assignments[i].rejected]_assignments

\* "Can't change pickup place more than three times": three for every demand.
ThreePickupChangesPerDemand == pickups <= 3 * Len(demands)

\* Until the ride is billed the driver it is assigned to stays occupied, so
\* that no other ride is offered to that driver.
AssignedDriverIsOccupied ==
  Quiet /\ invoices = 0 =>
    \A i \in DOMAIN assignments :
      assignments[i].assigned # NoDriver => occupied[assignments[i].assigned]

\* What the assignments hold about the drivers of the ride: findOne may return
\* any of the rows, and without one nobody is involved.
InvolvedDrivers ==
  IF assignments = <<>>
  THEN {NewAssignment}
  ELSE {assignments[i] : i \in DOMAIN assignments}

\* The driver is looked up among those the ride was proposed to.
TransitDTO(a) ==
  [ status   |-> details.status,
    price    |-> details.price,
    proposed |-> a.proposed,
    driver   |-> IF a.assigned \in a.proposed THEN a.assigned ELSE NoDriver ]

\* loadTransit: what a client may be shown.
ClientViews == {TransitDTO(a) : a \in InvolvedDrivers}

\* The read model is right about a completed ride, and its price is the one
\* of a completed transit.  The client of a ride that was published once is
\* shown no driver but the last who accepted it, and is shown that driver from
\* the acceptance until the trip begins or drivers are searched for again.
DetailsTellTheTruth ==
  Quiet =>
    /\ Len(assignments) = 1 =>
         \A v \in ClientViews :
           /\ v.driver \in {NoDriver, details.driver}
           /\ v.status = "transit_to_passenger" => v.driver # NoDriver
    /\ details.status = "completed" => details.price # NoPrice
    /\ details.status \in {"in_transit", "completed"} => transits # <<>>
    /\ details.price # NoPrice =>
         \E i \in DOMAIN transits :
           transits[i] = [status |-> "completed", km |-> details.price]

-----------------------------------------------------------------------------
(* The contract of a ride, as RideLifecycle states it                       *)

OfferState(a) ==
  CASE a.status = "WAITING_FOR_DRIVER_ASSIGNMENT" -> "open"
    [] a.status = "ON_THE_WAY"                    -> "taken"
    [] OTHER                                      -> "closed"

Lifecycle ==
  INSTANCE RideLifecycle WITH
    offers <- [i \in DOMAIN assignments |->
                 [state |-> OfferState(assignments[i]),
                  taker |-> assignments[i].assigned]],
    trips  <- [i \in DOMAIN transits |-> transits[i].status],
    billed <- invoices

\* Requests that do not overlap implement the contract.
ImplementsLifecycle == Lifecycle!Spec
=============================================================================
