SPECIFICATION FairSpec
CONSTANTS
  MaxBlocks = 3
  MaxCalls = 6
  MaxFails = 3
INVARIANTS
  OwnAnswer
  AnswerAge
PROPERTIES
  CallReturns
CHECK_DEADLOCK FALSE
