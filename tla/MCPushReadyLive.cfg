SPECIFICATION FairSpec
CONSTANTS
    Gate = {g1}
    Command = {"push-ready", "validate", "verify", "pre-push"}
    Commit = {"first", "second"}
    Fork <- MCFork
    Edited = "edited"
    Policy <- MCPolicy
    BasePolicy <- MCBasePolicy
    HeadPolicy <- MCHeadPolicy
    MaxBase = 1
    MaxMoves = 1
    MaxRuns = 3
    Garbage = Garbage
    None = None
PROPERTIES
    Delivers
CHECK_DEADLOCK FALSE
