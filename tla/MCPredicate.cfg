SPECIFICATION Spec
CONSTANTS
  Scans <- AllScans
INVARIANTS
  RowsAreKept
  ExactIsExact
  RewritesOnlySharpen
