SPECIFICATION FairSpec
CONSTANTS
  FirstSize = 2
  MaxSize = 4
  MaxBlocks = 3
  MaxElements = 6
  MaxPermits = 6
INVARIANTS
  RingIntact
  PermitsExact
  PermitsAreElements
PROPERTIES
  ImplementsFifo
  EveryElementDelivered
CHECK_DEADLOCK FALSE
