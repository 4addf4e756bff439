SPECIFICATION Spec
CONSTANTS
  Streams = {s1, s2}
  Capacity = 2
  MaintainOrder = FALSE
  Workers = 2
  MultiBatch = FALSE
  RowsPerStream = 2
  Rows <- MCRows
  Errors <- MCErrors
  MaxAttempts = 2
  TimeLimited = FALSE
  Skew <- Honest
  MaxOffset = 2
  SwitchBytes = 1
INVARIANTS
  CleanEndIsComplete
  CancelIsReported
  RowsOnce
SYMMETRY Symmetry
