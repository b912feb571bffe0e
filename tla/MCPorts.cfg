SPECIFICATION FairSpec
CONSTANTS
  Workers = {reader}
  MaxKills = 2
  MaxExits = 1
  MaxFails = 2
  AnswersAgain = TRUE
  MaxInput = 3
  MsgLen = 3
  Room = 2
  Senders1 = {a, b}
  Senders2 = {c}
  SteadySenders = {b, c}
  Leavers = {a}
  Quiet = 2
  MaxQueue = 2
  MaxSignals = 1
INVARIANTS
  TypeOK
  UsbConsistent
  ReaderNeverBlocks
PROPERTIES
  StrayOnlyAtExit
  PoweredAgain
  CutOnlyByReader
  PortMoves
  SteadyConnected
CHECK_DEADLOCK FALSE
