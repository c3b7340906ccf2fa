SPECIFICATION Spec
CONSTANTS
  RowKeys = {1, 2}
  Qualifiers = {3, 4}
  Timestamps = {1, 2}
  None = None
  MaxWrites = 1
INVARIANTS TypeOK ExactCount CleanExit
PROPERTY ImplementsCounter
