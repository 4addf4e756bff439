SPECIFICATION FairSpec
CONSTANTS
  MaxRows = 3
  ThresholdBytes = 7
  MedianRowSize = 2
  MaxTries = 2
  Parallelism = 2
  Words = {"a", "b"}
  MaxCauses = 2
  Texts <- MCTexts
  Limits <- MCLimits
  Ids <- MCIds
INVARIANTS
  ResultCoversRows
  FailedJobIsReported
  OrderedReadHasOneStream
  SelectHasSchema
  ScriptIsServed
  QueryRunsOnce
  PythonCauseIsKept
  FailureIsShown
  TextHasOneReading
  TextRoundTrip
PROPERTIES
  CallReturns
