SPECIFICATION FairSpec
CONSTANTS
    MaxRuns = 2
    MaxAttempts = 2
    MaxBoots = 2
    MaxPolls = 1
    None = None
INVARIANTS
    TypeOK
    KeyFitsInstance
    CleanupStopsChild
    SubscriptionReleased
PROPERTIES
    LeaseSpec
    DiagnosedBeforeDestroyed
    RunEnds
CHECK_DEADLOCK FALSE
