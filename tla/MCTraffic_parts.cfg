SPECIFICATION Spec
CONSTANTS
  a = a  b = b  c = c  r1 = r1  r2 = r2  c1 = c1  c2 = c2
  j1 = j1  j2 = j2  j3 = j3
  Peers = {a, b, c}
  Doors = {a}
  Mortal = {c}
  Movers = {c}
  Client = Client
  Request = {r1, r2}
  Nearest <- Closest
  Kinds <- Methods
  MaxRetries <- Tries
  Refusals = {"ENOENT"}
  MaxInflight = 1
  MaxTurns = 1
  Call = {c1, c2}
  Endpoint <- Endpoints
  Limit = 1
  WedgedAfter = 2
  Job = {j1, j2, j3}
  Ways <- SomeWays
  Addr <- Where
  Odd = {j3}
  Paths <- Extra
  Nobody = Nobody
  PoolMax = 1
  MaxErrors = 1
  MinDelay = 2
  MaxDelay = 7
  Retries <- Limits
  Timeouts = {5, 9}
  Unlimited = Unlimited
  AskTime = 2
INVARIANTS InflightIsExact PassedOnAgainOnlyIfTurned AnswersAreTrue
           ClientInv DrainedBeforeClosed
PROPERTIES RequestsAreAnswered CallsReturn DeliveriesEnd DiscoveryEnds
CHECK_DEADLOCK FALSE
