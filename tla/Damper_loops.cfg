SPECIFICATION DampSpec
CONSTANTS
  MaxBootstraps = 1
  Mates = {p, q, r}
  Flaky = {p, q}
  NoTimer = NoTimer
  ScoreMax = 3
  Penalty = 1
  SuppressLimit = 3
  ReuseLimit = 1
  NVal = 2
  RVal = 2
  MaxPercentage = 30
  MaxRuns = 2
  Fading = {}
INVARIANT OneDampLoop
CHECK_DEADLOCK FALSE
