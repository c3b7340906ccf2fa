SPECIFICATION Spec
CONSTANTS
  Clients = {reader, idler}
  MayStall = {idler}
  HeaderLen = 1
  DataLen = 2
  Window = 2
  MaxEndpoints = 2
INVARIANTS TypeOK PrintsWholeMessage
PROPERTIES NotHeldUp Released
