SPECIFICATION Spec
CONSTANTS
  PipeSize = 2
  MaxCapture = 2
  MaxOut = 3
  MaxErr = 3
  StderrBreaks = TRUE
CHECK_DEADLOCK FALSE
INVARIANTS
  TypeOK
  WholeRunReported
  VerdictKept
PROPERTIES
  RoomReturns
  WrapperEnds
