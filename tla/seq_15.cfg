CONSTANTS
  SequenceMax = 10
  Window = 3
  ListBits = 5
  Ipmi20 = FALSE
  Horizon = 6
  MaxSent = 16

SPECIFICATION MCSpec
INVARIANT ListTracksWindow
INVARIANT NoReplay
INVARIANT InRangeAccepted
CHECK_DEADLOCK FALSE
