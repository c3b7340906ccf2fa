SPECIFICATION Spec
CONSTANTS
  Others = {"t1"}
  Demo = "demo_table"
  LastRow = 1
  MaxNow = 3
  None = None
INVARIANTS TypeOK AssertionsHold LatestKept ScannersClosed OneMoment
PROPERTIES BothEnd
