SPECIFICATION Spec
CONSTANTS
  b1 = b1  b2 = b2  b3 = b3  r1 = r1  i1 = i1
  Id = {i1}
  Body = {b1, b2}
  Request = {}
  IdOf <- OneId
  None = None
  Unroutable = {}
  BadVerb = {}
  Ordered = TRUE
  MaxCrashes = 0
  MaxFaults = 0
INVARIANT OneTimeoutPerId
CHECK_DEADLOCK FALSE
