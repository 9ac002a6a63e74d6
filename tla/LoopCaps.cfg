SPECIFICATION FairSpec
CONSTANTS
  Intents <- AllIntents
  HarnessReads = 2
  FileReads = 1
  RetryMax = 1
  ToolCap = 3
  MaxErr = 2
  MaxBatch = 2
  IdenticalCap = 2
  Window = 3
  MinDistinct = 2
  SameToolErrorCap = 2
INVARIANTS
  LoopInv
  SessionIsBounded
  WakeIsLastAsked
  StopsOnRepetition
  RowTellsOwnOrLate
PROPERTIES
  EndIsFinal
  ImplementsModelCalls
  SessionEnds
CHECK_DEADLOCK FALSE
