\* One call at a time; two clients start with active accounts, one has none.
SPECIFICATION Spec
CONSTANTS
  ann = ann
  bob = bob
  cat = cat
  Never = Never
  Clients <- ThreeClients
  Calls = {c1, c2, c3, c4}
  Operations = {"register", "activate", "deactivate", "earn", "grant", "spend", "transfer"}
  Amounts = {1, 2}
  Lifetimes = {1, 2}
  Overlapping = FALSE
  SelfTransfer = FALSE
  InitiallyActive <- TwoClients
  MaxAccounts = 3
  MaxTime = 1
SYMMETRY CallSymmetry
INVARIANTS
  TypeOK
  MilesAreConserved
PROPERTIES
  InactiveAccountsAreFrozen
  SpendsInOrder
