SPECIFICATION Spec
CONSTANTS
  Scans <- NullableScans
INVARIANTS
  SupersetOfRows
