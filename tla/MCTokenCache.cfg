SPECIFICATION Spec
CONSTANTS
  Callers = {c1, c2}
  MaxCalls = 3
  MaxTime = 2
  SoftBuffer = 2
  HardBuffer = 1
  Lifetimes = {1, 3}
  BaseCooldown = 1
  MaxCooldown = 3
  Free = Free
  Background = Background
SYMMETRY Symmetry
INVARIANTS
  OneRefresh
  GivenTokensAreCached
PROPERTIES
  NeverOlder
  FetchOnlyWhenNeeded
  ServedFromCacheIsLive
