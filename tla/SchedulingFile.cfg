\* The file is edited, broken or removed, and the process restarted, while
\* the scheduler ticks and polls.
SPECIFICATION SSpec
CONSTANTS
  image = image
  chart = chart
  replicas = replicas
  x1 = x1
  x2 = x2
  Keys = {image, chart, replicas}
  Exprs = {x1, x2}
  FileSet <- GlobOf
  Configs <- Files
  MaxTime = 3
  MaxReloads = 0
  Bad = {broken}
  Missing = missing
  NoConfig <- NoTrackers
  AllowEditInLoad = FALSE
  AllowRevert = FALSE
  MaxContents = 3
  MaxStarts = 1
INVARIANTS
  RestsOnTheFile
  EveryTrackerOnTime
  StatusTellsTheSchedule
PROPERTIES
  KeepsLastGood
  EditsTakeEffect
  TicksFindTheDue
  DueIsPolled
  TicksFollowTheFile
CHECK_DEADLOCK FALSE
