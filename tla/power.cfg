CONSTANTS
  Hosts = {"h", "k"}
  Ids = {"a", "b", "c"}
  None = None
  Capacity = 1
  HostOf <- MCHostOf
  Args <- MCArgs

SPECIFICATION FairSpec
INVARIANT OneLine
INVARIANT FanoutKept
INVARIANT HostSerialized
INVARIANT LineTrue
PROPERTY BatchEnds
CHECK_DEADLOCK FALSE
