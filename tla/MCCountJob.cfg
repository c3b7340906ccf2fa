SPECIFICATION Spec
CONSTANTS
  LastKey = 3
  FirstKeys = {0, 2}
  MaxPuts = 1
  MaxSplits = 1
  None = None
INVARIANTS TypeOK OneLinePerRegion SumBracketed
PROPERTIES CallsCount JobEnds
