SPECIFICATION FairSpec
CONSTANTS
  Timeouts <- MCTimeouts
  MaxPackets = 3
PROPERTY NoWeakerError
CHECK_DEADLOCK FALSE
