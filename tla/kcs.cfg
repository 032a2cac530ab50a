CONSTANTS
  p1 = p1
  p2 = p2
  Proc = {p1, p2}
  NonBlocking = {p2}
  RqLen = 2
  RsLen = 3
  BufLen = 2
  MaxCalls = 2

SPECIFICATION FairSpec
INVARIANT SemaphoreBalanced
PROPERTY ServiceSpec
PROPERTY CommandReturns
CHECK_DEADLOCK FALSE
