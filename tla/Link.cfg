CONSTANTS
  rd = rd
  t1 = t1
  Nodes = {rd, t1}
  Reader = rd
  Everyone = Everyone
  None = None
  Setups <- AllSetups
SPECIFICATION FairSpec
INVARIANTS TypeOK HeldAwaitsArp NothingStranded
PROPERTIES ImplementsFifo LastPacketArrives
CHECK_DEADLOCK FALSE
