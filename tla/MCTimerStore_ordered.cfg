SPECIFICATION FairSpec
CONSTANTS
  b1 = b1  b2 = b2  b3 = b3  r1 = r1  i1 = i1
  Id = {i1}
  Body = {b1, b2, b3}
  Request = {r1}
  IdOf <- OneId
  None = None
  Unroutable = {b3}
  BadVerb = {b2}
  Ordered = TRUE
  MaxCrashes = 1
  MaxFaults = 1
INVARIANTS MapAgreesWithStorage NoZombieTimer
PROPERTIES AtMostOncePerSession CancelIsFinal StoredTimerResolved
CHECK_DEADLOCK FALSE
