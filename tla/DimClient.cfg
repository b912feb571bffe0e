SPECIFICATION FairSpec
CONSTANTS
  MaxFd = 2
  MaxInput = 2
  MaxQueue = 2
INVARIANTS
  OneSocket
  ConnectedHasKeys
PROPERTIES
  Reconnects
  QueueMoves
