SPECIFICATION Spec
CONSTANTS
  RowKeys = {1}
  Qualifiers = {1}
  Timestamps = {1, 2}
  None = None
  MaxWrites = 0
INVARIANT AllKeyValues
