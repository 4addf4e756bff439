SPECIFICATION FairSpec
CONSTANTS
  Streams = {d, s1, s2}
  Default = d
  HasCheck = TRUE
  SchemaGiven = FALSE
  Capacity = 1
  MaintainOrder = FALSE
  Workers = 2
  MultiBatch = FALSE
  DefaultRows = 2
  SessionRows = 1
  Rows <- MCRows
  Errors <- MCErrors
  MaxAttempts = 2
  TimeLimited = FALSE
  Skew <- Honest
  MaxOffset = 2
  SwitchBytes = 1
INVARIANTS
  ResultIsComplete
  NeverBothSources
  SchemaIsAnswered
PROPERTIES
  ReadEnds
  CancelStopsEverything
