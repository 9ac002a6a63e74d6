SPECIFICATION FairSpec
CONSTANTS
  MaxSessions = 2
  MaxRequests = 1
  MaxCrashes = 1
  MaxRefusals = 0
  JournalMax = 2
  TornJournal = TRUE
  Budget = 2
  TornWrites = TRUE
PROPERTY CrashNeverDeadlocksRun
CHECK_DEADLOCK FALSE
