CONSTANTS
  Depth = 2
  PipeSize = 1
  MaxMade = 3
  OutBuf = 2
  Stream = 2
  MaxLate = 1
  Faults <- AllFaults
SPECIFICATION Spec
INVARIANTS Conserved EndMeansAll
PROPERTIES CallsReturn
CHECK_DEADLOCK FALSE
