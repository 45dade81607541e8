\* Calls two at a time, with crashes; two cars activate the class.
SPECIFICATION ReportSpec
CONSTANTS
  Calls = {c1, c2}
  Drivers = {d1, d2}
  MinCars = 2
  NoRow = NoRow
  MaxCalls = 5
  MaxClock = 4
  MaxRides = 1
  MaxClaims = 2
SYMMETRY RunSymmetry
CHECK_DEADLOCK FALSE
INVARIANTS
  TypeOK
  CarsCounterNotNegative
  CarsAreCounted
  RidesAreReported
PROPERTIES
  LatestSessionCloses
