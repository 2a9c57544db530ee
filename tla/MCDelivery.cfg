SPECIFICATION Spec
CONSTANTS
    File = {f1, f2}
    Other = other
    ReleaseId = {i1, i2, i3}
    MaxAttempts = 2
    MaxChanges = 3
    Foreign = Foreign
    Broken = Broken
    None = None
SYMMETRY Symmetry
INVARIANTS
    TypeOK
    ReportedIsSealed
PROPERTIES
    DurableSpec
CHECK_DEADLOCK FALSE
