\* Two fields in one walk, one with a backfill window and one without, contents
\* one field or the other cannot be extracted from, and merges that slip commits
\* in behind a mark.
SPECIFICATION FairSpec
CONSTANTS
  Fields = {image, chart}
  Keys = {k1}
  Values = {v1}
  Absent = absent
  Contents <- ReadableOrBroken
  Window <- MixedWindows
  NoField = nofield
  MaxCommitsPerWalk = 3
  AllowMerge = TRUE
  AllowRewrite = FALSE
  MaxHistory = 3
  MaxCommits = 3
  Times = {1, 2}
  MaxTime = 2
  MaxFaults = 1
INVARIANTS FeedEndsAtHead WalkReachesMarks SuccessMeansCaughtUp
PROPERTY EventuallyCaughtUp
CHECK_DEADLOCK FALSE
