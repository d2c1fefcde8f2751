SPECIFICATION ViewsSpec
CONSTANTS
  a = a  b = b  c = c  me = me  h1 = h1  h2 = h2  h3 = h3  h4 = h4  g1 = g1  g2 = g2  g3 = g3
  Node = {a, b, c}
  Watched = {x}
  None = None
  FirstVersion = 1
  MaxVersion = 3
  PingReqSize = 3
  MaxSyncs = 1
  Limit <- LimitDef
  Pings <- PingsDef
  Declarers = {a, c}
  MaxCalls = 1
  MaxEvents = 2
  Host = {h1, h2, h3, h4}
  Preferred = {h1, h2}
  JoinSize = 2
  Factor = 2
  Self = me
  MaxInc = 2
  List <- Lists
  Near = {g1}
  Far = {g2, g3}
  Me = g1
  NoHealTimer = NoHealTimer
  MaxFailures = 2
  MaxFaults = 1
  MaxHeals = 1
  MaxHealTimers = 2
  MaxBootstraps = 2
INVARIANTS SlotsAreCounted EnoughJoined MergedIsNewest OneHealLoop
PROPERTIES DroppedWhenTold Converges JoinEnds HealKeepsPingable PartitionHeals
CHECK_DEADLOCK FALSE
