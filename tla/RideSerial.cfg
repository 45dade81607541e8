\* One request at a time, two publications at most: what the tests of the
\* life cycle promise, and the contract of RideLifecycle.
SPECIFICATION Spec
CONSTANTS
  d1 = d1
  d2 = d2
  NoDriver = NoDriver
  NoRow = NoRow
  NoPrice = NoPrice
  Drivers <- TwoDrivers
  PayableDrivers <- OneDriver
  Addresses = {home}
  MapDistances = {3, 42}
  Requests = {r1, r2, r3, r4, r5}
  Operations = {"publish", "findDrivers", "cancel", "accept", "reject", "start", "complete", "changeFrom", "changeTo"}
  Overlapping = FALSE
  MaxDistance = 2
  MaxPositions = 1
  MaxPublications = 2
SYMMETRY RequestSymmetry
INVARIANTS
  TypeOK
  ThreePickupChangesPerDemand
  AssignmentCoherent
  AssignedDriverIsOccupied
  DetailsTellTheTruth
PROPERTIES
  RejectionIsRespected
  ImplementsLifecycle
