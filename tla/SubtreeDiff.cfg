\* Every pair of the stacks and charts of MCSubtreeDiff, under ceilings that
\* each of them meets or exceeds.  Two levels of blocks, four lines of text.
CONSTANTS
  Jobs <- SomeJobs
  AllBounds <- SomeBounds
  TreeEntries <- SomeEntries
  BlockBodies <- SomeBodies
  LineBytes = 2
  MaxBlockDepth = 2
  MaxUnifiedBytes = 9
  ForceReplacementAttrs = {1}
SPECIFICATION Spec
INVARIANTS CeilingsHold DiffTellsTheTrees UnifiedReadsBack FailuresHaveTheirCause
PROPERTY DirectoryIsWalked
