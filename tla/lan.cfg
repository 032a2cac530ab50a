CONSTANTS
  RqMod = 4
  TagMod = 2
  SessionTimeout = 2
  BackoffCount = 2
  SequenceMax = 7
  Window = 2
  ListBits = 4
  Capacity = 1
  Lifetime = 1
  MaxCommands = 1

SPECIFICATION FairSpec
INVARIANT AnswerOwn
INVARIANT SessionAgreed
INVARIANT NoFalsePassword
PROPERTY CallReturns
CHECK_DEADLOCK FALSE
