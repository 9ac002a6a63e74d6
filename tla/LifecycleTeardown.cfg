SPECIFICATION Spec
CONSTANTS
  MaxSessions = 2
  MaxRequests = 1
  MaxCrashes = 1
  MaxRefusals = 0
  JournalMax = 2
  TornJournal = FALSE
  Budget = 2
  TornWrites = FALSE
INVARIANT TeardownIsRedone
