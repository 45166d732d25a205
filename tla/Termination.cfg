CONSTANTS
  t1 = t1
  t2 = t2
  Tags = {t1, t2}
  Broadcast = Broadcast
  NoTag = NoTag
CHECK_DEADLOCK FALSE
SPECIFICATION FairSpec
PROPERTY Terminates
