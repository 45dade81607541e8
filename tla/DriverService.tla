---------------------------- MODULE DriverService ----------------------------
(***************************************************************************)
(* The drivers (driver-fleet/driver.service.ts).                           *)
(*                                                                         *)
(* Each call loads a driver, changes the copy and saves it.  A save writes *)
(* the columns that differ from the row it finds; a change of status is an *)
(* update instead, which writes every column of the copy.                  *)
(***************************************************************************)
EXTENDS Naturals, Sequences, FiniteSets

CONSTANTS
  Calls,       \* calls of the services; each is handled once
  MaxOverlap   \* bound on the calls in progress at the same time

ASSUME DriverAssumption == MaxOverlap \in Nat

VARIABLES
  drivers,   \* driver rows
  pc,        \* where a call is
  held,      \* the driver it holds in memory
  orderly    \* history: every call ended before the next began, and took
             \* no time

driverVars == <<drivers, held>>

DriverStatus == {"inactive", "active"}

\* Numbers that match the format of a licence, and numbers that do not.
Licenses == {"valid", "invalid"}

Driver == [status : DriverStatus, license : Licenses, isOccupied : BOOLEAN]

NewDriver(status, license) ==
  [status |-> status, license |-> license, isOccupied |-> FALSE]

Blank ==
  [op |-> "none", driver |-> 0, row |-> NewDriver("inactive", "invalid"),
   seen |-> NewDriver("inactive", "invalid")]

InProgress(r) == pc[r] \notin {"idle", "answered"}
Quiet == \A r \in Calls : ~InProgress(r)

CanBegin(r) ==
  /\ pc[r] = "idle"
  /\ Cardinality({q \in Calls : InProgress(q)}) < MaxOverlap

Goto(r, label) == pc' = [pc EXCEPT ![r] = label]
Hold(r, x) == held' = [held EXCEPT ![r] = x]

-----------------------------------------------------------------------------
Operations ==
  {"activate", "deactivate", "changeLicense", "markOccupied", "markNotOccupied"}

\* Names and photos are left out.  withLicense throws unless the number has the format of a licence.
MayCreate(status, license) == status = "active" => license = "valid"

CreateDriver(r) ==
  /\ CanBegin(r)
  /\ \E status \in DriverStatus, license \in Licenses :
       /\ MayCreate(status, license)
       /\ drivers' = Append(drivers, NewDriver(status, license))
  /\ Goto(r, "answered")
  /\ orderly' = (orderly /\ Quiet)
  /\ UNCHANGED held

BeginOnDriver(r) ==
  /\ CanBegin(r)
  /\ \E o \in Operations, d \in DOMAIN drivers :
       Hold(r, [Blank EXCEPT !.op = o, !.driver = d])
  /\ Goto(r, "load")
  /\ orderly' = (orderly /\ Quiet)
  /\ UNCHANGED drivers

\* Fault: a driver is activated whatever the licence.
ActivateAnyone(o, row) == o = "changeLicense" => row.status = "active"

\* The conditions under which a call throws are the negation of these.
Allowed(o, row) ==
  /\ o = "activate" => row.license = "valid"
  /\ o = "changeLicense" => row.status = "active"

\* A licence is changed to a valid one or the call throws.
Changed(o, row) ==
  CASE o = "activate"        -> [row EXCEPT !.status = "active"]
    [] o = "deactivate"      -> [row EXCEPT !.status = "inactive"]
    [] o = "changeLicense"   -> [row EXCEPT !.license = "valid"]
    [] o = "markOccupied"    -> [row EXCEPT !.isOccupied = TRUE]
    [] o = "markNotOccupied" -> [row EXCEPT !.isOccupied = FALSE]

SaveOf(o) == IF o \in {"activate", "deactivate"} THEN "overwrite" ELSE "compare"

LoadDriver(r) ==
  LET o   == held[r].op
      row == drivers[held[r].driver]
  IN
  /\ pc[r] = "load"
  /\ \/ /\ Allowed(o, row)
        /\ Hold(r, [held[r] EXCEPT !.row = Changed(o, row)])
        /\ Goto(r, SaveOf(o))
     \/ /\ ~Allowed(o, row)
        /\ Hold(r, Blank)
        /\ Goto(r, "answered")
  /\ UNCHANGED <<drivers, orderly>>

\* repository.update in changeDriverStatus.
OverwriteDriver(r) ==
  /\ pc[r] = "overwrite"
  /\ drivers' = [drivers EXCEPT ![held[r].driver] = held[r].row]
  /\ Hold(r, Blank)
  /\ Goto(r, "answered")
  /\ UNCHANGED orderly

\* The SELECT of a save.
CompareDriver(r) ==
  /\ pc[r] = "compare"
  /\ Hold(r, [held[r] EXCEPT !.seen = drivers[held[r].driver]])
  /\ Goto(r, "update")
  /\ UNCHANGED <<drivers, orderly>>

Written(new, seen, current) == IF new # seen THEN new ELSE current

SavedDriver(new, seen, current) ==
  [ status     |-> Written(new.status, seen.status, current.status),
    license    |-> Written(new.license, seen.license, current.license),
    isOccupied |-> Written(new.isOccupied, seen.isOccupied, current.isOccupied) ]

UpdateDriver(r) ==
  LET d == held[r].driver IN
  /\ pc[r] = "update"
  /\ drivers' = [drivers EXCEPT
                   ![d] = SavedDriver(held[r].row, held[r].seen, drivers[d])]
  /\ Hold(r, Blank)
  /\ Goto(r, "answered")
  /\ UNCHANGED orderly

DriverInit ==
  /\ drivers = <<NewDriver("active", "valid")>>
  /\ pc = [r \in Calls |-> "idle"]
  /\ held = [r \in Calls |-> Blank]
  /\ orderly = TRUE

DriverStep(r) ==
  \/ CreateDriver(r) \/ BeginOnDriver(r) \/ LoadDriver(r)
  \/ OverwriteDriver(r) \/ CompareDriver(r) \/ UpdateDriver(r)

-----------------------------------------------------------------------------
(* Properties                                                               *)

DriverLabels == {"idle", "load", "overwrite", "compare", "update", "answered"}

HeldDriver ==
  [op : Operations \union {"none"}, driver : DOMAIN drivers \union {0},
   row : Driver, seen : Driver]

\* "Can't create active driver with invalid license", "Can't activate driver
\* with invalid license": however calls overlap, no stale copy makes one
\* (createDriver, changeDriverStatus, changeLicenseNumber).
ActiveDriversAreLicensed ==
  \A d \in DOMAIN drivers :
    drivers[d].status = "active" => drivers[d].license = "valid"
=============================================================================
