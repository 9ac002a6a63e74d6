SPECIFICATION FairSpec
CONSTANTS
  MaxSessions = 2
  MaxRequests = 2
  MaxCrashes = 1
  MaxRefusals = 1
  JournalMax = 2
  TornJournal = FALSE
  Budget = 2
  TornWrites = FALSE
INVARIANTS
  CacheAgreesWithStream
  EveryRequestAccounted
  NoSessionPastBudget
  StreamInv
PROPERTIES
  LedgerSpec
  SpentRunCompletes
  EverySessionIsClosed
