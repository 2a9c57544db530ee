SPECIFICATION Spec
CONSTANTS
    Writer <- MCWriter
    Path <- MCPath
    Outputs <- MCOutputs
    Pid <- MCPid
    PidOf <- MCPidOf
    Foreign = Foreign
    MaxChanges = 1
    None = None
INVARIANTS
    TypeOK
    SuccessIsComplete
    FailureLeavesNothing
    ExactlyOneWins
PROPERTIES
    NoClobber
CHECK_DEADLOCK FALSE
