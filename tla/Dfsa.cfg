CONSTANTS
  t1 = t1
  t2 = t2
  t3 = t3
  Tags = {t1, t2, t3}
  Broadcast = Broadcast
  NoTag = NoTag
  Service = "EDFSA"
  Mechanisms = {0}
  EstMethods = {0, 1, 2, 3, 4}
  InitialQ = 2
  InitialQfp = 40
  C = 3
  Unit = 10
  MaxQ = 15
  WrapQ = 4
  EstConstant = 3
  Multiplier = 67
  InitialFrame = 3
  Backlog = 2
  MaxRatio = 3
  MaxSessions = 2
  Overlap = TRUE
  MaxLost = 0
  MaxLate = 1
SYMMETRY TagSymmetry
CHECK_DEADLOCK FALSE
SPECIFICATION Spec
INVARIANTS TypeOK NoSilentMiss IdleSlot CountTellsSlot SuccessCount
