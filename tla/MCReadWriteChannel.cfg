SPECIFICATION FairSpec
CONSTANTS
  Channels = {c1, c2}
  Selectors = {s1}
  Notes = {n1, n2}
  Item = {a, b}
  None = None
  Capacity = 1
  MaxWrites = 2
INVARIANTS TypeOK NothingLost EndIsFinal NoLostWakeup SelectedIsReadable
PROPERTIES SetOnlyAfterNotified ClosedIsDrained ImplementsStreams
CHECK_DEADLOCK FALSE
