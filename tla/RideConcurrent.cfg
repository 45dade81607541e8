\* Three requests to any endpoints interleave at every await.
SPECIFICATION Spec
CONSTANTS
  d1 = d1
  d2 = d2
  NoDriver = NoDriver
  NoRow = NoRow
  NoPrice = NoPrice
  Drivers <- TwoDrivers
  PayableDrivers <- TwoDrivers
  Addresses = {home}
  MapDistances = {42}
  Requests = {r1, r2, r3}
  Operations = {"publish", "findDrivers", "cancel", "accept", "reject", "start", "complete", "changeFrom", "changeTo"}
  Overlapping = TRUE
  MaxDistance = 1
  MaxPositions = 1
  MaxPublications = 1
SYMMETRY RequestSymmetry
INVARIANTS
  AssignedDriverAccepted
  OnlyOfferedDriversTake
  NothingWithoutAcceptance
PROPERTIES
  EveryStepCountsDown
