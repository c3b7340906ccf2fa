SPECIFICATION Spec
CONSTANTS
  DocLen = 5
  BufSize = 3
  MaxEndpoints = 2
  Trailing <- AnythingFollows
INVARIANT OnlyReceivedBytes
