SPECIFICATION Spec
CONSTANTS
  MaxSets = 2
  MaxFails = 1
  Size = 3
  MaxFrames = 3
  MaxChunk = 2
INVARIANTS
  NoOtherText
  LossExplained
  AloneDelivered
  OwnInOrder
CHECK_DEADLOCK FALSE
