SPECIFICATION Spec
CONSTANTS
  p1 = p1
  p2 = p2
  a1 = a1
  a2 = a2
  Programs = {p1, p2}
  AssetsOf <- MCAssetsOf
  TransformersOf <- MCTransformersOf
  Annotations = 2
  MaxStored = 3
INVARIANTS TypeOK SuccessMeansWritten
PROPERTIES TransformReturns OwnProcessesAreSpared
CHECK_DEADLOCK FALSE
