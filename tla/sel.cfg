CONSTANTS
  Args <- MCArgs
  SelSize = 3
  RetryMax = 3
  Filtered = {2}
  MaxEvents = 4

SPECIFICATION FairSpec
INVARIANT ErasedLogged
INVARIANT RepeatsBounded
PROPERTY EventLogged
PROPERTY RoomMade
