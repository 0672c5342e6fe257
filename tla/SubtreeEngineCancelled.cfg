\* A client hangs up during its diff.
SPECIFICATION Spec
CONSTANTS
  Callers = {c1}
  Keys = {k1}
  Dirs = {d1}
  Cap <- OneOfEach
  CacheEntries = 1
  None = none
  MaxCalls = 1
  MaxHangups = 1

INVARIANT CachedLimitsAreCeilings
CHECK_DEADLOCK FALSE
