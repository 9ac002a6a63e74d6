SPECIFICATION FairSpec
CONSTANTS
  HeaderSize = 2
  Half = 1
  LogMax = 2
  MaxPolls = 1
  MaxBytes = 3
  MaxFrame = 2
INVARIANTS
  StreamsIntact
  RanIsTold
  CallInv
PROPERTY CallEnds
CHECK_DEADLOCK FALSE
