\* Liveness: calls for one key whose clients may hang up, followers, and abandoned jobs that hold their slots.
SPECIFICATION FairSpec
CONSTANTS
  Callers = {c1, c2}
  Keys = {k1}
  Dirs = {d1, d2}
  Cap <- OneOfEach
  CacheEntries = 1
  None = none
  MaxCalls = 3
  MaxHangups = 2

PROPERTIES EveryCallReturns DirsAreRemoved
CHECK_DEADLOCK FALSE
