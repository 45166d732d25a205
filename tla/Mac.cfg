CONSTANTS
  a = a
  b = b
  c = c
  Nodes = {a, b, c}
  MAC_BROADCAST = MAC_BROADCAST
  None = None
  Setups <- AllSetups
SPECIFICATION FairSpec
CHECK_DEADLOCK FALSE
INVARIANTS TypeOK NoTimerTwice StateMatchesPackets PausedWhileBusy InOrderOnce AckedIsPassed FullRetries
PROPERTY EveryPacketOver
