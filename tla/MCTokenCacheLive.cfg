SPECIFICATION FairSpec
CONSTANTS
  Callers = {c1, c2}
  MaxCalls = 3
  MaxTime = 0
  SoftBuffer = 2
  HardBuffer = 1
  Lifetimes = {2}
  BaseCooldown = 1
  MaxCooldown = 3
  Free = Free
  Background = Background
PROPERTIES
  CallsReturn
  LockIsReleased
