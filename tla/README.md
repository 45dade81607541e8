# A verification of legacy_fight

legacy_fight is the back end of a ride company: a NestJS application (TypeScript, TypeORM on PostgreSQL)
that offers rides to drivers, prices them, bills them, pays drivers, awards miles, settles claims, keeps a
fleet and signs contracts. This directory holds TLA+ models of it, configurations that check them with TLC on
small instances, and proofs checked with TLAPS for every instance.

Contents: [inventory](#inventory) · [how the code is modelled](#how-the-code-is-modelled) ·
[modules](#modules) · [runs](#runs) · [fairness](#fairness) · [theorems](#theorems) ·
[what the code does otherwise than it says](#where-the-code-and-its-documents-disagree) ·
[not modelled](#not-modelled) · [plan](#plan)

Paths below are relative to `src/src/`.

## Inventory

| Component | State | Operations that change it | Talks to | What is hard | What must hold |
|---|---|---|---|---|---|
| Ride service (`ride/`) | `transit_demand`, `transit`, `request_for_transit` rows of a requestUUID | createTransit, publish, find drivers, cancel, accept, reject, start, complete, change of pickup and of destination | assignment, details, driver service, tracking, pricing, invoices, events | every endpoint is a chain of load, change, save with awaits between, and no version check; several rows for one ride | only an asked driver takes a ride, one does; nothing starts or is billed without an acceptance; three pickup changes; the details, and what a client is shown, tell the truth; every handler ends |
| Driver assignment (`assignment/`) | `driver_assignment` row: asked, rejected and assigned drivers, distance, status | create, search, accept, reject, cancel | tracking, driver service, notifications | a search is a `while (true)` around awaits that saves what it loaded before | assigned driver accepted and was asked; a rejection is final; the search ends |
| Transit details (`ride/transit-details`) | the read model of a ride | one update for each event of the ride | written by the ride service last | saved after the rows it mirrors | it agrees with them when the ride is quiet |
| Loyalty (`loyalty/`) | accounts with lists of awarded miles | register, activate, deactivate, register miles, grant, remove, transfer | claims, details, client | lists saved whole from stale copies; sorting strategies; expiry | miles are conserved, not overspent, taken in the client's order; an inactive account is frozen |
| Transit analyzer (`crm/transit-analyzer`, `geolocation/address`) | addresses by hash; a graph of nodes and completed rides in another database | an event for each completed ride, drawn by a listener; populate; analyze | ride service, details | an event kept in memory; listeners that overlap; a MERGE no constraint makes unique; two hashes for a place | the journeys told are those of the rides; a node told has an address; a completed ride is drawn |
| Claims (`crm/claims`) | claims, resolver with the transits refunded | create, setStatus, resolve | miles, clients, details, notifications | three saves in a row without a transaction; a count used as a number | one refund for a transit; miles with the refund of a VIP; few dear refunds; numbers identify |
| Agreements (`agreements/`) | contracts, attachments, data of attachments | create, accept, reject, propose, accept/reject/remove an attachment | – | cascading saves of partial lists | no agreement of one side; nothing accepted while attachments stand open |
| Car fleet (`car-fleet/`) | a class of cars and its counter of active cars | create, activate, deactivate, register, unregister, count logins | sessions | one counter saved with a copy, the other incremented in place, each written by the other's save | counters are right and never negative |
| Driver sessions (`tracking/driver-session*`) | sessions | log in, log out, log out the current one | fleet | several open sessions | the last one is closed |
| Driver report (`driver-fleet/driver-report`) | none: one query over sessions, details and claims | pure | sessions, ride service | rows of three writers compared by time; open sessions drop out | a ride completed in a session is listed, once for each of its claims |
| Driver positions and travelled distance (`tracking/`, `driver-fleet/driver-report/travelled-distance`) | positions, one distance for each five minutes | registerPosition | driver service, distance calculator | windows of time and a clock read several times | a window has one slot, with the distance driven in it |
| Drivers (`driver-fleet/driver.service.ts`) | status, licence, occupancy | create, change status, change licence, mark (not) occupied | ride service | whole rows written back from stale copies | an active driver has a valid licence |
| Pricing and fees (`pricing/`, `driver-fee.*`, `money/`) | none | pure | ride service | tariffs by weekday and hour, halves rounded | dearer when longer; a fee of its minimum at least, and above the price only by that minimum or an amount that nothing limits |
| Documents (`archetypes/contracts`) | a header: author, verifier, content, state | edit, verify, publish, archive, in three designs | events | three designs of one lifecycle | what is published is what was verified, by another than the author |
| Repairs (`archetypes/repair`) | parties, roles, relationships | resolve | – | choice of a role | see [not modelled](#not-modelled) |
| Clients, invoices, notifications, driver attributes, finding active drivers, configuration | rows or none | inserts, reads, stubs | – | little | see [not modelled](#not-modelled) |

How the parts meet: the ride service calls the others in order and awaits each; nothing is queued except the
`TransitCompleted` event, whose listener writes to a graph database. Shared state is the database only. There is no lock,
no version check (`@VersionColumn` is written and never compared) and, with three exceptions
(`CarTypeRepository.create`, and the transaction TypeORM opens inside one `save`), no transaction.
So what is hard everywhere is the same: a copy that has become stale between a load and a save. `PROJECT.json` lists each
place under `hazards`.

## How the code is modelled

* **A call is a process** (`Requests` or `Calls`), `pc` its place in the handler, and an action what it does between
  two awaits that touch shared rows. Node runs one call at a time in between, so an action is atomic because the code is.
  Awaits between which nothing shared is read or written are one action.
* **A save of TypeORM is two steps**: a SELECT, then an UPDATE of the columns in which the copy differs from what the
  SELECT found. A stale copy thus overwrites some columns and not others ("mixed columns"), and the models
  keep this: `Compare`/`Update` of the modules. Array columns are always written; a one-to-many list
  is written whole (rows put in, rows taken out). `repository.update` (drivers) writes every column.
* **`findOne` without an order** returns an arbitrary matching row: `\E`. **A transaction** is one step.
* **A crash** (claims, contracts, fleet, analyzer) ends all calls in progress and leaves the rows; the events in memory are gone with them.
* **Serial and overlapping.** Some promises hold only while calls come one by one. Where a module can
  overlap calls, the history variable `orderly` says that none has overlapped, and properties that need it say so; a run therefore
  checks both the ones that hold in every interleaving and the ones that hold without. The ride and the awards
  have a constant `Overlapping` instead.
* **Data** is reduced to what the properties tell apart: ids and addresses are model values, times are ticks or days, a
  distance is a number of kilometres, texts are left out.
* **Bounds** (`MaxCalls`, `MaxClock`, `MaxTime`, `MaxRides`, `MaxClaims`, `MaxExtras`, `MaxOverlap`, `MaxPositions`,
  `MaxDistance`, `MaxPublications`, `MaxAccounts`, and in some modules the number of calls, each handled once) are constants or guards
  named in each module; the proofs hold for any value of them.
* **Faults.** Definitions commented `Fault:` are used by no action. They are plausible mistakes, each put in place of
  a definition of the code to see that a property notices (`mutants` in `PROJECT.json`).

## Modules

**Ride.** `RideEntities` has the entities (TransitDemand, DriverAssignment, Transit, TransitDetails) as operators named for
the methods. `RideService` has the nine endpoints of `ride.service.ts` and what they call, step by step. `RideLifecycle` is the abstract
specification: a ride is quiet, on its way or done, by whom; `RideService` implements it with `demands`, `assignments` and
`transits` mapped to a phase (`Lifecycle`, `ImplementsLifecycle`). Worth knowing:
`publishedAt` is a `bigint` column and comes back as a string, so that the five minutes of waiting for a driver never
pass and the condition is a constant; `existsFor` is called without `await` in one place, so its answer is always truthy there;
the map service is a stub that answers 42 and the model takes any number; the price is kept as kilometres, which
`PriceTellsDistance` justifies. `ClientViews` is what
`loadTransit` shows, `TransitDTO` of the details and the assignment, which are two reads of two rows. The table `request_for_transit` is written once, before the ride starts (the initial state).

**Transit analyzer.** `Journeys` has the answer of the query over the graph as an operator on a set of legs: paths that leave from where the
last leg ended, soon enough, the longest of them; and the answer of the analyzer it replaces. `TransitAnalyzer` is how
rides get there: requests find or insert addresses by hash, change the row of the ride, and a completed ride leaves an event in memory; its
listener merges two nodes and draws the ride between every pair of nodes with these hashes. A MERGE is two steps, since no constraint makes
a hash unique; listeners of two rides overlap; a restart loses the events. `populate` fails where it fails in the code: the dates it makes of `bigint`
strings are invalid, and it throws after the two MERGEs. A place has two hashes, with a name and without (`Bare`). Who
may start or complete a ride is in `RideService`; here a status stops nobody once requests overlap. A call to complete a ride that is completed is
left out (a bound).

**Pricing.** `Pricing` has tariffs by weekday and hour, cost (in cents, the half up), and the driver's fee, as operators.
`MCRideService` instantiates it and asks TLC for the examples of the tests.

**Loyalty.** `AwardsAccount` has the algorithms on one or two accounts (sorting strategies, removal, transfer with its
splice of the list it walks) as operators; `AwardsService` the calls around them. The day passes only while no call is in progress. A
transfer of a client to itself (`SelfTransfer`) is out of the runs.

**Claims.** `ClaimService`: create (count, then insert), setStatus, tryToResolveAutomatically, the type of the client. DRAFT and
NEW are one status, nothing tells them apart. The thresholds come from configuration; `Dear` and
`FreeClaims` stand for them (3 in the code, 1 in the run). A claim is numbered by twice the count, and the first by 1, as in the code.

**Agreements.** `ContractService`: the contracts of one partner. A contract loaded for one attachment
(`findByAttachmentId`) holds that attachment only, and its save takes the others out; this is what the module is about.

**Fleet, sessions and the report.** `FleetService`: one class of cars and the sessions of drivers with such cars. A call ends by going back to
`idle` and begins again as another; a handler reads the clock where the code does, where it was or one further. The save of a type
cascades to the counter loaded with it; its two SELECTs are one step. A minimum that is missing in the configuration counts as 0.
A log-out unregisters a car from the fleet counter, as the code does. `removeCarType` and `unregisterActiveCar` are used by tests only and left out.
`DriverReport` extends it by rides at their completion, whose time is taken several awaits before the row is saved, and by the report: the query is
an operator of the tables. A history, `during`, says which sessions of the driver were open, and not being closed, when that time was taken.

**Drivers and positions.** `DriverService`: the drivers, and `DriverTracking` on top of it: positions, windows, and a clock that moves at
any time. The query for the slot before the current one compares texts of timestamps written in two formats (`Z` and
`+00:00`), so it never finds one; `BorderFound` lets a run take both outcomes.

**Documents.** `DocumentHeader` (state, one document), then one module for each design: `LegacyDocument`, `StraightForwardDocument`,
`DynamicDocument` (the states the builder assembles are data here as they are there). `Documents` lets one of the three run, and
`DocumentLifecycle` is what they have in common: only the straight-forward one has a way back to draft, since its draft state may be entered from
any state. The dynamic one repeats the actions of a state on its transition to itself, tests the content with
`!== null`, and archives with the event DocumentPublished. None is wired into the application; the in-memory repository
shares the object, so there is nothing to interleave.

`MC*` modules give symmetry sets and small constants. `*_proofs` modules hold the theorems.

## Runs

Each property has a mutant that breaks it under the same configuration.

| Run | Instance | Shows |
|---|---|---|
| `RideSerial` | 5 requests to any endpoint, one at a time; 2 drivers, one without a fee row; 2 publications; a short and a long way | AssignmentCoherent, AssignedDriverIsOccupied, DetailsTellTheTruth, ThreePickupChangesPerDemand, RejectionIsRespected, and the refinement of RideLifecycle |
| `RideConcurrent` | 3 requests interleaving at every await; 2 drivers | AssignedDriverAccepted, OnlyOfferedDriversTake, NothingWithoutAcceptance: what stale copies cannot break; EveryStepCountsDown: every handler ends, the search too |
| `RideTwoDriversAccept` | 2 acceptances | counterexample: the second replaces the first |
| `Analyzer` | 2 rides of 2 clients there and back, 2 requests; one extra among overlap, change of address, populate and restart; clock to 2 | AnswersCanBeShown always; AnswersTellRides while requests do not overlap, though listeners do; EveryRideIsDrawn, unless the process restarts, under fairness |
| `AwardsSerial` | 4 calls one at a time; 3 clients, two with an active account, up to 3 accounts; 1 or 2 miles; a day passing | MilesAreConserved, InactiveAccountsAreFrozen, SpendsInOrder |
| `AwardsOverspent` | 3 overlapping calls | counterexample: the same mile is spent twice |
| `Claims` | 4 calls, 2 at a time, crashes | VipRefundsComeWithMiles always; OneRefundPerTransit, FewDearRefunds, ClaimNumbersIdentify one by one |
| `Contracts` | 5 calls, 2 at a time, crashes | NoOneSidedAgreement always; AttachmentsAreListed, AcceptanceNeedsItsAttachments one by one |
| `ContractsHalfAccepted` | 5 calls one at a time | counterexample: accepted with one of two attachments open |
| `Documents` | 3 users, 3 texts, all sequences of commands | VerifiedByAnother, ReviewedAsSeen, refinement of DocumentLifecycle |
| `Fleet` | 5 calls, 2 at a time, 2 drivers, crashes; 2 cars activate; clock to 4; a ride with up to 2 claims | CarsCounterNotNegative and RidesAreReported always; CarsAreCounted, LatestSessionCloses one by one |
| `Tracking` | 3 calls, 2 at a time, 3 places, windows of 2 ticks, clock to 4 | ActiveDriversAreLicensed always; PositionsAddUp for positions that come at once |

Why the bounds are enough. Every hazard in the list is a race of two calls, or a sequence of a few: a ride needs four
calls to a completed trip (publish, accept, start, complete) and a fifth to disturb it; an acceptance, a
rejection and a search are what can disturb an assignment at once; a claim is refunded twice by two calls on two claims
(four calls); an agreement needs propose, two acceptances, and the acceptance of the contract, with one call to spare; a class of cars
is created, has two cars, is activated, and one more, or is created, has a car, and a driver logs in and out twice at once while a ride
completes: five calls; four ticks let each of log-in, completion and the two log-outs be at, before or after the others. Twin nodes
need two listeners that overlap, and a journey of two legs two rides. Windows 0–1, 2–3 and 4– give a position inside a window, at its
border, and in the one before. Numbers matter only compared to each other, and two or three values give every order.
Deadlock is checked where a module has an action for the state in which everything is answered (`AllAnswered`: ride, awards). In the other modules calls are
handled once and the system then stops, so `CHECK_DEADLOCK FALSE`.

## Fairness

One run states liveness, `Analyzer`, and `TransitAnalyzer.FairSpec` is its specification: `WF_vars(Handle(c))` for each request and weak
fairness of the listeners of each ride. The event loop of Node runs every callback whose await has finished, and the awaits
are of database queries that answer. Fairness is per request and per ride and not of all listeners together, because a callback that is ready is run
however many others become ready. Nothing more is assumed: not that any request comes (`Request` is not fair), nor that the clock moves, nor that the process
is never restarted.

That the handlers of a ride end needs no fairness to be said: `EveryStepCountsDown` gives each place of a handler, and each round of the search,
a number of steps left that every step of it lowers, and the runs find no deadlock. So the `while (true)` of the
search ends by itself, because its distance grows in every round, whatever the tracking service answers and whoever interleaves.

## Theorems

All theorems are about every value of the constants: any sets of requests, drivers, clients, texts, any bounds, under the named
assumptions of the modules (`…Assumption`: numbers are numbers, subsets are subsets, and a value for "none" is not a real one). Every
invariant and every safety property of the passing runs is stated by one. What holds of calls that come one at a time is proved of orderly histories where a module has the
history `orderly`; of rides and loyalty, which have the constant instead, the theorem assumes `~Overlapping`, and of loyalty `~SelfTransfer`, as the
runs do.

**`RideService_proofs`**, requests that interleave – `TypeCorrect`, `AssignedDriversAccepted`, `TakersWereOffered`, `NoRideWithoutAcceptance`, `HandlersEnd`
(an action property: it needs only the type of what a request holds). The others are not inductive: an UPDATE writes columns from a copy loaded long ago. The invariant adds that
every copy a request holds is itself such that it may be written: `IInv == TypeOK /\ TablesInv /\ \A r : CallInv(r)`, where
`CallInv` says of each copy (`img`, `seen`) what `TablesInv` says of rows – its driver has accepted, or is the one
whose acceptance this request is about to save. That mixing columns of two such rows gives such a row is the
lemma all steps of saving rest on.

**`RideService_proofs`**, one at a time – `AssignmentsCoherent`, `RejectionsRespected`, `AssignedDriversOccupied`, `ThreePickupChanges`, `DetailsAreTrue`, and the
refinement `RefinesLifecycle`. `SerialInv` says that one request is in progress (`Alone`) and that what the SELECT of its save has seen is still the row (`Fresh`), so that an UPDATE
writes the whole copy. On it, one invariant for each part of a ride: the status and the driver of an assignment and of the copy of it (`OffersInv`); a driver is occupied, about to
be marked so, or just freed by a completion that will send an invoice (`OccupancyInv`); as many elements as demands count changes (`PickupsInv`); invoices are at most the completed transits, fewer
while a completion owes one (`TripsInv`); and the details, which tell of a driver later than the assignment does, in both directions (`DetailsInv`). The refinement maps every row of
assignments and transits to what the contract sees of it, and each step of a save to one action of `RideLifecycle` or none.

**`RideService_proofs`**, pricing – `CostsGrow`, `PriceTellsDistance`, `FeeBounds`, `FeesGrow`. They rest on bounds of rounding to whole cents
(`RoundedBounds`) and on the factor of every tariff being at least 1. Nothing in `driver-fee.entity.ts` limits a fee, so that the theorems on fees are about every
integer the columns can hold: `FeeBounds` says that a driver gets the minimum at least, and names the three fees by which one gets more than the price of the ride (a minimum above it,
a negative flat amount, a percentage over 100); `FeesGrow` that only a negative percentage pays less for a dearer ride. No run checks them; TLC evaluates the examples of the tests.

**`AwardsService_proofs`** – `TypesAreKept` in any interleaving; one at a time `MilesStayConserved`, `InactiveStayFrozen`, `SpendingIsOrdered`. A call holds a copy of an account (`IsCopyOf`); one at a
time the copy is of the rows the tables hold (`IsCurrent`, `SeesTheTables`), and its save replaces the rows of that account and no other (`WrittenAlone`, `OtherRows`). What all accounts
hold changes by what the copy holds more than its account (`HeldAfterSave`), so the books balance after every save still to come, or after both of a transfer (`Balanced`): for all
miles, and of each date of expiry no more than was granted. The loops of `removeMiles` and `moveMilesTo` are folds and recursive functions over lists of any length; see below.

**`ClaimService_proofs`** – `TypeCorrect`, `VipRefundsHaveMiles` (in any interleaving and across crashes), `TransitRefundedOnce`, `ClaimsAreNumbered` and
`DearRefundsAreFew` (while calls come one by one). `IInv` is `TypeOK`, what a call between its saves has already recorded (`CallInv`), and, as long as
the history is orderly, that the resolver on disk lists every transit refunded except by the one call in progress (`OrderlyInv`). For dear transits `DearInv` adds that one
list, short when the decision was taken, holds all those a client was refunded.

**`Documents_proofs`** – `TypeCorrect`, `AuthorsNeedAnother`, `NothingSlipsIn`, `PublicationsAreAnnounced`, and the
refinement `ModelsImplementLifecycle`. The three properties are inductive together with the type invariant and
`Started` (a header whose model has begun has a state of that model).

**`ContractService_proofs`** – `TypeCorrect`, `AgreementsHaveTwoSides` (in any interleaving and across crashes), `ContractsAreNumbered`,
`AttachmentsHaveData` and `AcceptedWithAttachments` (while calls come one by one). In any interleaving a status that a call is about to write is
backed by the acceptances saved so far and, if the call is an acceptance, by its own (`CallOK`), so that the
stale list of another call cannot make an agreement of one side (`RowsInv`). One by one, what a call holds is what the tables say (`ListOK`): the list
is part of the attachments in the contract, all of them accepted when the contract is about to be. An attachment without data is that of the
call in progress (`Listed`), and a removed one is gone from both tables (`Gone`).

**`TransitAnalyzer_proofs`** – `TypeOKHolds`, `AnswersCanBeShownHolds` (however requests and listeners overlap, with restarts) and `AnswersTellRidesHolds` (listeners overlap, requests do
not). The graph and the addresses
are in two databases, so the invariant of the first two follows a hash on its way: it has a row, or is still to be looked up by the request that
brings it (`CallKeepsAddresses`), before it is in a row of a ride, in an event, or in a node. For the answers, `InOrder` says that a request
on the way to the event knows of its ride what the row says, that a row is not changed once it is completed (`RequestInOrder`), that events and legs therefore tell it (`Tells`), and that each
ride in the graph is drawn between the first nodes of its hashes too (`GraphInOrder`). The recursion over lengths of paths gives the paths that the query matches (`IsPath`, `PathsAre`).
Since a ride takes a minute at least and a stop lasts more than minus one minute, rides end one after the other along a path; so the path between the first nodes visits no leg twice
(`FirstPath`), and the longest journeys are the same (`SameAnswers`). The minute is needed: without it two copies of a leg may follow each other.

**`DriverReport_proofs`** – `TypeCorrect`, `CarsStayNatural`, `RidesStayReported`, in any interleaving and across crashes; `CarsStayCounted` and `LatestSessionsClose` (an action property) while calls
come one by one. A stale copy of a type
is written in part, so each copy must be sound by itself: it has no negative number, since the check was made on the row it was loaded from
(`CallOK`, `ChangedFacts`). The report rests on the clock: a session a ride was completed in began no later than the ride, and every time at which it was or may still be closed,
the times that calls hold included, is no earlier (`RideOK`); so it does not matter that log-outs overwrite each other. One by one, the copy and what the SELECT has seen are the row and the counter, but for
the change in hand (`CopyFresh`), and no session opens or closes between finding one and closing it (`ClosesLatest`).

**`DriverTracking_proofs`** – `ActiveDriversLicensed` and `PositionsKeepTypes`, in any interleaving, and `PositionsStayAdded`. The first alone is not inductive: a deactivation writes
a whole stale row. The invariant adds that the licence of every copy is the licence of the row, which holds because
only the licence of an active driver may be changed, to a valid one, and it is valid already: the licence of a driver never changes. Types need that a call about to
save a slot holds one that exists, and that slots begin where windows do (`TrackTypes`). `PositionsAddUp` is about positions registered at once and one by one. Between calls the slots tell what the positions say, and
that of the last window ends where the driver is (`Tracks`); during the only call they tell it of the positions before its own, and the call holds what it owes (`Owes`): the last step added to
the slot of its window, or to that of the window before, or a new slot. There is a place to be at (`Places # {}`, named in `TrackingAssumption`).

**Induction over data.** The theorems on induction of the library take an operator as a parameter, which the provers cannot instantiate. Two lemmas do without: what holds of a subset of a
finite set when it holds of its strict subsets holds of all (`SubsetInduction`, from the well-foundedness of strict inclusion), and what holds of 0 and goes from each number to the next
holds up to n (`StepInduction`). They speak of membership in a set instead. A fold or a recursive function is then a table of values (`Sums`, `Debts`, `Turns`, `PathsTo`): it exists because it exists on
every smaller part, and the `CHOOSE` behind the definition picks one.

Proved and checked by no run: `ContractsAreNumbered`, `PublicationsAreAnnounced`, and those on pricing.

Only model-checked: liveness (`EveryRideIsDrawn`), which is out of the prover's reach, and that handlers do not deadlock, which speaks of ENABLED. The three runs that expect a violation have nothing
to prove. That `Journeys` is the answer of Neo4j, and the answers of the analyzer it replaced, are checked on examples.

## Where the code and its documents disagree

Three runs show it, with the quoted tests in `findings`: two drivers accept one ride; a mile is spent twice; a contract is accepted with an
attachment open. In each the test makes the calls one after the other, or with one attachment.

Seen while modelling, modelled as the code is, and without a run:

* `ride/change-destination.service.ts:44` – both rules name IN_TRANSIT where the comment has two different states; a ride in
  progress may take the longer detour.
* A cancellation that interleaves with a start, or follows a second publication, cancels a ride under way; the test of the life cycle says it cannot.
* The dynamic documents let the author verify by the transition of a state to itself.
* A search that is repeated while a driver is on the way, and gives up, fails the assignment and clears its driver: the client is no longer shown who comes
  (`DetailsTellTheTruth` therefore says: until drivers are searched for again).
* The graph: `populate` has no caller, and throws at the first ride, whose times come back as texts; an event is never sent again after a
  restart; the first leg of a journey may be another client's, and a stop may last from −0:59 to 15:59
  (`JourneysAtTheirBounds` of `MCTransitAnalyzer` evaluates both).
* `POST /transits` and the completion of a ride take plain objects where the service calls methods of their classes, since no pipe makes instances of them.
* The old creators of the driver report compare the times of sessions and rides with their sides swapped; tests freeze the clock, so that it goes
  unseen. No module provides them. The report that is used is right there, but the endpoint takes `lastDays` from a path that does not have it, a ride with two
  claims is two entries, and a driver without an attribute other than remarks of a medical examination has no report at all.
* The average position of a driver is grouped by the id of the position, so that nothing is averaged, and cut to twenty rows before sessions and
  statuses are looked at.
* One log-out takes its time before it unregisters the car and the other after; neither looks whether the session is closed.
* A position that comes late adds the whole distance of its window once more.
* `changePhoto` refuses exactly the photos it should take, `logOut` decrements the counter of the fleet instead of that of active cars.
* The endpoint for positions takes `seenAt` as it comes, a text, and the service calls a method of dates on it; the tests call the service with a date.
* `driver-fleet/driver-fee.entity.ts:33` – neither the constructor nor the setters limit a fee: a percentage over 100, or a negative flat amount, may leave the
  driver more than the passenger pays.
* A driver created with an invalid licence can never be given a valid one nor be activated.

## Not modelled

* Finding active drivers is one query and two filters; it changes nothing, and a ride is modelled for every answer it may give. What is wrong with it is above.
* Notifications and geocoding are stubs. Of invoices there is their count only: the subject is a text.
* Repairs are not run by the application: no module provides them, their repositories query in a dialect the ORM does not have, and their tests are skipped.
  What they decide, which parts the first role found pays for, and the legacy job doer beside them, is a choice without state.
* The editor of documents is not wired either, and keeps a text.
* Registration of clients and driver attributes insert rows nothing decides on; data transfer objects copy columns; configuration is constants of the modules that read it.
* The report's query for the driver and its attributes; `removeCarType`, `unregisterActiveCar`; the algorithm by which Neo4j finds paths, of which only the answer is modelled.
* Isolation levels below one statement, failing queries other than by a crash, and the network between client and server.

`PROJECT.json` gives each component its status and the reason.

## Plan

Done: rides and their lifecycle, interleaved and one at a time; loyalty; claims; fleet, sessions and the driver report, with
proofs; the three models of documents; agreements; drivers, positions and distances; pricing; the transit analyzer with addresses.

The theorems cover every safety property the runs check, and the refinements of both lifecycles.

Left, in the order of importance:

1. A composition of the completion of a ride, which registers miles and marks the driver free, and of a refund, which registers miles: one module over
   `RideService`, `AwardsService` and `ClaimService`, with the crash between them.
2. Properties that hold in every interleaving, or across crashes, where now they are stated one by one: what is left of the count of cars and of the books
   of miles after a stale save.
