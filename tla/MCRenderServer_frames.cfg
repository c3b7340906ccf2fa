SPECIFICATION Spec
CONSTANTS
  NumProc = 3
  LastAngle = 3
  LastFrame = 1
  MaxAhead = 2
  DisplayFirst = TRUE
  None = None
  Sizes <- OneSize
  Documents <- OneDocument
  ArgcChoices <- AnyArgc
INVARIANTS TypeOK CoherentFrame NothingLeftAtFinalize SkewBounded
PROPERTIES Terminates ImplementsLoader
