SPECIFICATION FairSpec
CONSTANTS
  Streams = {s1}
  Capacity = 2
  MaintainOrder = TRUE
  Workers = 1
  MultiBatch = FALSE
  RowsPerStream = 3
  Rows <- MCRows
  Errors <- MCErrors
  MaxAttempts = 3
  TimeLimited = FALSE
  Skew <- Miscounts
  MaxOffset = 4
  SwitchBytes = 1
INVARIANTS
  TypeOK
  RetriesBounded
  NoStrandedJob
PROPERTIES
  ImplementsDelivery
  ReadEnds
