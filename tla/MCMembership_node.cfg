SPECIFICATION FairSpec
CONSTANTS
  me = me  a1 = a1  a2 = a2
  Addr = {me, a1}
  Self = me
  None = None
  MaxInc = 3
  MaxLeaves = 2
INVARIANTS RingFollowsMembers GossipsItsBeliefs TimeoutFitsStatus
PROPERTIES BeliefsGetNewer WatchedSuspectIsDecided
CHECK_DEADLOCK FALSE
