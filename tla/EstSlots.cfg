CONSTANTS
  t1 = t1
  t2 = t2
  Tags = {t1, t2}
  Broadcast = Broadcast
  NoTag = NoTag
  Service = "EBTSA"
  Mechanisms = {0}
  EstMethods = {4}
  InitialQ = 2
  InitialQfp = 20
  C = 3
  Unit = 10
  MaxQ = 3
  WrapQ = 1
  EstConstant = 3
  Multiplier = 67
  InitialFrame = 3
  Backlog = 2
  MaxRatio = 3
  MaxSessions = 1
  Overlap = FALSE
  MaxLost = 0
  MaxLate = 0
SYMMETRY TagSymmetry
CHECK_DEADLOCK FALSE
SPECIFICATION Spec
INVARIANT EmptySlot
