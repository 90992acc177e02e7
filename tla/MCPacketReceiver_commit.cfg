SPECIFICATION FairSpec
CONSTANTS
  UserCalls = {"Receive", "Commit"}
  MaxPackets = 2
  HeartbeatsAt = {}
  MaxCommits = 3
  Window = 1
PROPERTY CommitEventuallyReturns
CHECK_DEADLOCK FALSE
