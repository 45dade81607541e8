\* Two removals of the same miles interleave.
SPECIFICATION Spec
CONSTANTS
  ann = ann
  bob = bob
  cat = cat
  Never = Never
  Clients <- TwoClients
  Calls = {c1, c2, c3}
  Operations = {"grant", "spend"}
  Amounts = {1}
  Lifetimes = {1}
  Overlapping = TRUE
  SelfTransfer = FALSE
  InitiallyActive <- TwoClients
  MaxAccounts = 2
  MaxTime = 1
SYMMETRY CallSymmetry
INVARIANTS
  NoMoreSpentThanGranted
