SPECIFICATION FairSpec
CONSTANTS
  HsRecords = 4
  FlightEnds = {1}
  Batch = 3
  MaxConns = 2
  MaxRecords = 7
INVARIANTS
  RestIsCurrent
  RejectionExplained
PROPERTIES
  ImplementsChannel
  SocketDrained
CHECK_DEADLOCK FALSE
