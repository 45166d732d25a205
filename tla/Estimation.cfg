CONSTANTS
  t1 = t1
  t2 = t2
  t3 = t3
  Tags = {t1, t2, t3}
  Broadcast = Broadcast
  NoTag = NoTag
  Service = "EBTSA"
  Mechanisms = {0}
  EstMethods = {3, 4}
  InitialQ = 1
  InitialQfp = 10
  C = 5
  Unit = 10
  MaxQ = 2
  WrapQ = 1
  EstConstant = 3
  Multiplier = 67
  InitialFrame = 3
  Backlog = 2
  MaxRatio = 3
  MaxSessions = 1
  Overlap = FALSE
  MaxLost = 1
  MaxLate = 0
SYMMETRY TagSymmetry
CHECK_DEADLOCK FALSE
SPECIFICATION Spec
INVARIANTS NoSilentMiss SuccessCount
