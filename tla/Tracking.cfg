\* Three calls, two at a time; three windows of two ticks.
SPECIFICATION Spec
CONSTANTS
  Calls = {c1, c2, c3}
  MaxOverlap = 2
  Places = {0, 1, 3}
  Window = 2
  MaxTime = 4
  BorderFound = {TRUE, FALSE}
SYMMETRY RunSymmetry
CHECK_DEADLOCK FALSE
INVARIANTS
  TypeOK
  ActiveDriversAreLicensed
  PositionsAddUp
