CONSTANTS
  c1 = c1
  c2 = c2
  Ctx = {c1}
  Blocking = {}
  DeactivateOnly = {}
  NumThreads = 1
  ConcurrentTeardown = TRUE

SPECIFICATION FairSpec
PROPERTY TeardownReturns
CHECK_DEADLOCK FALSE
