SPECIFICATION Spec
CONSTANTS
  MaxBootstraps = 2
  Peer = {m1, m2, m3}
  Idle = Idle
  PingReqSize = 2
  MaxStarts = 2
  Hook = {h1, h2}
  Pre = {h1, h2}
  Post = {h2}
  Comrade = {x, y}
  MaxPiggyback = 5
  PingRatio = 60
  MaxInitiates = 2
  Nil = Nil
  Fake = Fake
  Server = {1, 2, 3}
  HashOf <- Hashes
  KeyHash = {5, 8}
  MaxWanted = 3
  Mates = {p, q, r}
  Flaky = {p, q}
  NoTimer = NoTimer
  ScoreMax = 2
  Penalty = 1
  SuppressLimit = 2
  ReuseLimit = 1
  NVal = 2
  RVal = 2
  MaxPercentage = 30
  MaxRuns = 2
  Fading = {p}
  TraceRequest = {q1, q2, q3}
  Omitted = Omitted
  DefaultName = DefaultName
  Additions <- Adds
  Removals <- Rems
INVARIANTS NobodyWaitsLong PhasesInOrder TreeIsRedBlack TimersFitSets
PROPERTIES GossipGoesOn EvictionEnds RingImplements DampingGoesOn TracersComeAndGo
CHECK_DEADLOCK FALSE
