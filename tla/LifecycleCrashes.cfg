SPECIFICATION Spec
CONSTANTS
  MaxSessions = 3
  MaxRequests = 1
  MaxCrashes = 2
  MaxRefusals = 0
  JournalMax = 2
  TornJournal = TRUE
  Budget = 1
  TornWrites = FALSE
INVARIANTS
  SessionsNumberedInOrder
  ClosedOnce
  SessionsDoNotOverlap
  JournalInOrder
  TotalsAgree
  RunCompleteIsFinal
