SPECIFICATION FairSpec
CONSTANTS
  None = None
  ann = ann
  bob = bob
  p = p
  q = q
  MaxCalls = 2
  Clients = {ann, bob}
  Hashes = {p, q}
  Bare <- AsTheyAre
  Orders <- ThereAndBack
  MaxRides = 2
  MaxTime = 2
  MaxExtras = 1
  PerMinute = 1
  MaxStop = 0
INVARIANTS
  TypeOK
  AnswersCanBeShown
  AnswersTellRides
CHECK_DEADLOCK FALSE
PROPERTIES EveryRideIsDrawn
