\* Force-pushes that drop commits and bring them back, skewed author times, a
\* backfill window that moves on, a failed call or a stop, and two keys whose
\* rows are written one after the other.
SPECIFICATION Spec
CONSTANTS
  Fields = {image}
  Keys = {k1, k2}
  Values = {v1}
  Absent = absent
  Contents <- AllOrNone
  Window <- TodaysWindows
  NoField = nofield
  MaxCommitsPerWalk = 3
  AllowMerge = FALSE
  AllowRewrite = TRUE
  MaxHistory = 3
  MaxCommits = 3
  Times = {1, 2}
  MaxTime = 2
  MaxFaults = 1
SYMMETRY AlikeKeys
INVARIANTS
  FeedIsTruthful
  NoGapBehindMark
  Coverage
  FeedEndsAtHead
PROPERTY ImplementsFeed
CHECK_DEADLOCK FALSE
