SPECIFICATION Spec
CONSTANTS
  NumProc = 2
  LastAngle = 1
  LastFrame = 1
  MaxAhead = 1
  DisplayFirst = FALSE
  None = None
  Sizes <- TwoSizes
  Documents <- OneDocument
  ArgcChoices <- RightArgc
INVARIANTS WindowsAfterLoad TileFollowsWindow
CHECK_DEADLOCK FALSE
