\* An edit between the two reads of Load.
SPECIFICATION FairSpec
CONSTANTS
  Good = {c1, c2}
  Bad = {b1}
  Missing = missing
  None = none
  AllowEditInLoad = TRUE
  AllowRevert = FALSE
  MaxContents = 4
  MaxStarts = 0
PROPERTY EditsTakeEffect
CHECK_DEADLOCK FALSE
