SPECIFICATION Spec
CONSTANTS
    Gate = {g1, g2}
    Command = {"push-ready", "pre-push"}
    Commit = {"first", "second"}
    Fork <- MCFork
    Edited = "edited"
    Policy <- MCPolicy
    BasePolicy <- MCBasePolicy
    HeadPolicy <- MCHeadPolicy
    MaxBase = 1
    MaxMoves = 1
    MaxRuns = 3
    Garbage = Garbage
    None = None
SYMMETRY Symmetry
INVARIANTS
    TypeOK
    AcceptedWasChecked
    AcceptedIsCurrent
CHECK_DEADLOCK FALSE
