CONSTANTS
  t1 = t1
  t2 = t2
  t3 = t3
  Tags = {t1, t2, t3}
  Broadcast = Broadcast
  NoTag = NoTag
  Service = "STANDARD"
  Mechanisms = {0, 1}
  EstMethods = {1}
  InitialQ = 2
  InitialQfp = 20
  C = 3
  Unit = 10
  MaxQ = 3
  WrapQ = 4
  EstConstant = 3
  Multiplier = 67
  InitialFrame = 3
  Backlog = 2
  MaxRatio = 3
  MaxSessions = 2
  Overlap = FALSE
  MaxLost = 1
  MaxLate = 0
SYMMETRY TagSymmetry
CHECK_DEADLOCK FALSE
SPECIFICATION Spec
INVARIANTS NoSilentMiss SuccessCount
