CONSTANTS
  c1 = c1
  c2 = c2
  Ctx = {c1, c2}
  Blocking = {c1}
  DeactivateOnly = {c1}
  NumThreads = 1
  ConcurrentTeardown = FALSE

SPECIFICATION FairSpec
INVARIANT NoUseAfterFree
INVARIANT CallbackOnce
PROPERTY StatusFinal
PROPERTY BlockReturns
PROPERTY DestroyedFreed
PROPERTY TeardownReturns
CHECK_DEADLOCK FALSE
