CONSTANTS
  Hosts = {"h", "k", "l"}
  Threads = {"w1", "w2", "w3"}
  None = None
  MaxFailures = 1

SPECIFICATION PoolFairSpec
INVARIANT HostInOnePlace
INVARIANT NoThreadAfterFree
PROPERTY HostPolledAgain
PROPERTY StopReturns
CHECK_DEADLOCK FALSE
