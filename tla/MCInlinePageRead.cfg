SPECIFICATION FairSpec
CONSTANTS
  Streams = {d}
  Default = d
  Capacity = 2
  MaintainOrder = TRUE
  Workers = 1
  MultiBatch = TRUE
  ResultRows = 3
  Rows <- MCRows
  Errors <- MCErrors
  MaxAttempts = 2
  TimeLimited = TRUE
  Skew <- Miscounts
  MaxOffset = 4
  SwitchBytes = 1
INVARIANTS
  PythonReadIsComplete
  OrderedPrefix
  PermitsConserved
PROPERTIES
  LastAnswerIsLast
  InterruptIsNoticed
  LetGoStopsEverything
