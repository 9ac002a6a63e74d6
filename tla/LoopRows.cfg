SPECIFICATION Spec
CONSTANTS
  Intents <- BreakerIntents
  RetryMax = 0
  ToolCap = 4
  MaxErr = 3
  HarnessReads = 0
  FileReads = 1
  MaxBatch = 1
  IdenticalCap = 3
  Window = 4
  MinDistinct = 2
  SameToolErrorCap = 3
INVARIANT RowTellsOwnCall
CHECK_DEADLOCK FALSE
