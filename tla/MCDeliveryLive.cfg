SPECIFICATION FairSpec
CONSTANTS
    File = {f1, f2}
    Other = other
    ReleaseId = {i1, i2, i3}
    MaxAttempts = 2
    MaxChanges = 1
    Foreign = Foreign
    Broken = Broken
    None = None
PROPERTIES
    Delivers
CHECK_DEADLOCK FALSE
