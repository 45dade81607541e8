\* Calls two at a time, with crashes, on a partner with a contract.
SPECIFICATION Spec
CONSTANTS
  Calls = {c1, c2, c3, c4, c5}
  InitialContracts = 1
  MaxOverlap = 2
SYMMETRY RunSymmetry
CHECK_DEADLOCK FALSE
INVARIANTS
  TypeOK
  NoOneSidedAgreement
  AttachmentsAreListed
PROPERTIES
  AcceptanceNeedsItsAttachments
