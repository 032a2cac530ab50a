CONSTANTS
  SeqMax = 15
  MaxSend = 1
  BufMax = 4
  OutMax = 4
  MaxRetransmission = 2
  IncrementWorkaround = TRUE
  SerialKeepalive = "off"
  Break = Break
  Reordering = FALSE
  Capacity = 1
  MinAccept = 1
  MaxTyped = 3
  MaxBreaks = 1
  MaxOutput = 0
  MaxAccepted = 3

SPECIFICATION Spec
INVARIANT PacketFits
CHECK_DEADLOCK FALSE
