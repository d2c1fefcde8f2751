SPECIFICATION Spec
CONSTANTS
  n1 = n1  n2 = n2  n3 = n3  t1 = t1  t2 = t2
  Node = {n1, n2}
  Timer = {t1}
  Rank <- Clockwise
  Founders = {n1, n2}
  Leavers = {n1}
  None = None
  MaxRetries = 1
  MaxBalances = 0
  MaxDoubts = 0
  MaxTimeouts = 0
  MaxStarts = 0
  MaxCrashes = 0
INVARIANT NoTimerLost
CHECK_DEADLOCK FALSE
