CONSTANTS
  i1 = i1  i2 = i2  h1 = h1
  Invoker = {i1, i2}
  Prompt = {h1}
  Limit = 1
  Threshold = 2
  Attempts = 2
  OpenLen = 1
  MaxClock = 1
  MaxInvokes = 3
SPECIFICATION GatewaySpec
INVARIANTS FailureReachesWaiters
CHECK_DEADLOCK FALSE
