SPECIFICATION FairSpec
CONSTANTS
  UserCalls = {"Receive", "Finish", "Cancel"}
  MaxPackets = 2
  HeartbeatsAt = {}
  MaxCommits = 0
  Window = 1
PROPERTIES CancelEventuallyReturns ReceiveEventuallyReturns FinishEventuallyReturns
CHECK_DEADLOCK FALSE
