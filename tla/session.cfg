CONSTANTS
  Configs <- SomeConfigs
  MaxRetransmission = 1
  AcceptableErrors = 1
  Instances = 2
  NetMax = 2

SPECIFICATION FairSpec
INVARIANT TypeOK
INVARIANT NoLogicBug
INVARIANT FailureExplained
INVARIANT SolGranted
PROPERTY InUseRespected
PROPERTY ServesOrEnds
CHECK_DEADLOCK FALSE
