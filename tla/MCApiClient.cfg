SPECIFICATION Spec
CONSTANTS
  Rpcs <- MCRpcs
  Sync <- MCSync
  Async <- MCAsync
  Rest <- MCRest
  Fields <- MCFields
  Names <- MCNames
  Pagers <- MCPagers
  MaxAttempts = 2
  Iterators = {i1, i2}
  MaxPages = 3
INVARIANTS TypeOK RequestArrivesWhole RoutedToResource ExecutedAsPromised NoPageSkipped
PROPERTY IterationEnds
