\* Four calls in any interleaving, with crashes; one free claim.
SPECIFICATION Spec
CONSTANTS
  Calls = {c1, c2, c3, c4}
  Clients = {ann, bob}
  WithAccount = {ann}
  Transits = {short, long}
  Dear = {short, long}
  FreeClaims = 1
  NoRefund = NoRefund
  MaxOverlap = 2
SYMMETRY RunSymmetry
CHECK_DEADLOCK FALSE
INVARIANTS
  TypeOK
  VipRefundsComeWithMiles
  OneRefundPerTransit
  FewDearRefunds
  ClaimNumbersIdentify
