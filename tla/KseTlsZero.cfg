SPECIFICATION Spec
CONSTANTS
  HsRecords = 1
  FlightEnds = {1}
  Batch = 3
  MaxConns = 1
  MaxRecords = 4
INVARIANTS
  ZeroIsSuccess
CHECK_DEADLOCK FALSE
