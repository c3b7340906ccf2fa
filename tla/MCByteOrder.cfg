SPECIFICATION Spec
CONSTANTS
  Size = 3
  Byte = {0, 1}
INVARIANT TypeOK
PROPERTY Converts
