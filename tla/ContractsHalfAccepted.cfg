\* One call at a time: a contract with two attachments, one of them accepted.
SPECIFICATION Spec
CONSTANTS
  Calls = {c1, c2, c3, c4, c5}
  InitialContracts = 1
  MaxOverlap = 1
SYMMETRY RunSymmetry
CHECK_DEADLOCK FALSE
PROPERTIES
  AcceptanceNeedsAllProposed
