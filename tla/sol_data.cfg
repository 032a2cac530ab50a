CONSTANTS
  SeqMax = 3
  MaxSend = 2
  BufMax = 2
  OutMax = 1
  MaxRetransmission = 1
  IncrementWorkaround = FALSE
  SerialKeepalive = "nul"
  Break = Break
  Reordering = FALSE
  Capacity = 1
  MinAccept = 0
  MaxTyped = 3
  MaxBreaks = 0
  MaxOutput = 2
  MaxAccepted = 3

SPECIFICATION Spec
INVARIANT BufferIsRest
PROPERTY InputSpec
PROPERTY OutputSpec
CHECK_DEADLOCK FALSE
