CONSTANTS
  t1 = t1
  t2 = t2
  Tags = {t1, t2}
  r1 = r1
  r2 = r2
  Readers = {r1, r2}
  NoReader = NoReader
  Broadcast = Broadcast
  NoTag = NoTag
  Service = "STANDARD"
  Mechanisms = {0, 1}
  EstMethods = {1}
  InitialQ = 1
  InitialQfp = 10
  C = 10
  Unit = 10
  MaxQ = 2
  WrapQ = 4
  EstConstant = 3
  Multiplier = 67
  InitialFrame = 3
  Backlog = 2
  MaxRatio = 3
  MaxSessions = 1
SYMMETRY Symmetry
CHECK_DEADLOCK FALSE
SPECIFICATION Spec
INVARIANTS TypeOK NoTagLeftOut
