SPECIFICATION FairSpec
CONSTANTS
  Timeouts <- MCTimeouts
  MaxPackets = 3
INVARIANTS TypeOK OkMeansWritten
PROPERTIES WeakerOnlyIfUnreported CallsReturn FailureReachesSend
CHECK_DEADLOCK FALSE
