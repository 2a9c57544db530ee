CONSTANTS
  Allowed <- MCAllowed
  Requests <- MCRequests
  PreflightLimit = 1
  CleanupLimit = 1
  PhaseLimit = 3
  CleanupBudget = 4
  MaxDrifts = 1

SPECIFICATION FairSpec
INVARIANTS TypeOK Proven NoSilentResidue EveryCleanupTried
PROPERTIES JobEnds
CHECK_DEADLOCK FALSE
