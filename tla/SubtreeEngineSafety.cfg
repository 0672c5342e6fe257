\* Two callers, two keys, a cache of one entry: callers that hang up, time out, fail and are coalesced.
SPECIFICATION Spec
CONSTANTS
  Callers = {c1, c2}
  Keys = {k1, k2}
  Dirs = {d1, d2}
  Cap <- OneOfEach
  CacheEntries = 1
  None = none
  MaxCalls = 3
  MaxHangups = 2
SYMMETRY Symmetry
INVARIANTS DirsOutliveTheirJobs CapsHold ComputedOnce AnsweredByKey
PROPERTY ImplementsService
CHECK_DEADLOCK FALSE
