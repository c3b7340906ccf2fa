SPECIFICATION HSpec
CONSTANTS
  None = None
  Null = Null
  LastFrame = 0
  MaxAhead = 1
  Sizes <- OneSize
  Documents <- MCDocuments
  ArgcChoices <- AnyArgc
  NumProc = 2
  LastAngle = 1
  DisplayFirst = TRUE
  Coordinates = {1, 2, 3}
  OtherColumns = {7}
  BadColumns = {8}
  MaxWrites = 1
INVARIANTS HTypeOK EachParticleOnce NoPictureWithoutFrames
PROPERTY HTerminates
