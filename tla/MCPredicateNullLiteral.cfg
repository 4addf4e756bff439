SPECIFICATION Spec
CONSTANTS
  Scans <- NullLiteralScans
INVARIANTS
  SupersetOfRows
