\* Two acceptances interleave.
SPECIFICATION Spec
CONSTANTS
  d1 = d1
  d2 = d2
  NoDriver = NoDriver
  NoRow = NoRow
  NoPrice = NoPrice
  Drivers <- TwoDrivers
  PayableDrivers <- TwoDrivers
  Addresses = {home}
  MapDistances = {42}
  Requests = {r1, r2, r3}
  Operations = {"publish", "accept"}
  Overlapping = TRUE
  MaxDistance = 2
  MaxPositions = 1
  MaxPublications = 1
SYMMETRY RequestSymmetry
PROPERTIES
  AssignedDriverIsNotReplaced
