SPECIFICATION FairSpec
CONSTANTS
  me = me  a1 = a1  a2 = a2
  Addr = {me, a1}
  Self = me
  None = None
  MaxInc = 2
  MaxLeaves = 0
PROPERTY SuspectIsDecided
CHECK_DEADLOCK FALSE
