SPECIFICATION FairSpec
CONSTANTS
    File = {f1, f2}
    Other = other
    ReleaseId = {i1, i2}
    MaxAttempts = 2
    MaxChanges = 0
    Foreign = Foreign
    Broken = Broken
    None = None
PROPERTIES
    RetryResumesDraft
CHECK_DEADLOCK FALSE
