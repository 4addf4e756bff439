SPECIFICATION SpecRecvAgain
CONSTANTS
  Streams = {s1}
  Capacity = 2
  MaintainOrder = FALSE
  Workers = 2
  MultiBatch = FALSE
  RowsPerStream = 3
  Rows <- MCRows
  Errors <- MCErrors
  MaxAttempts = 2
  TimeLimited = FALSE
  Skew <- Honest
  MaxOffset = 4
  SwitchBytes = 1
INVARIANTS
  ErrIsLast
