SPECIFICATION Spec
CONSTANTS
  UserCalls = {"Receive", "Commit", "CommitsDone", "Cancel"}
  MaxPackets = 2
  HeartbeatsAt = {1}
  MaxCommits = 2
  Window = 1
INVARIANTS TypeOK FinishPreconditionMet NoUseAfterFinish DeliveredInOrder OutOfRangeMeansAll
           HalfCloseFlushes QuietAfterCancel
PROPERTY ReceiveEndIsFinal
CHECK_DEADLOCK FALSE
