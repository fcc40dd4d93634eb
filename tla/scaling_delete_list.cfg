SPECIFICATION Spec
CONSTANTS
    MaxChunk = 2
    MaxEdits = 1
    MaxFaults = 1
INVARIANT FailedInUseProxiesKept
CHECK_DEADLOCK FALSE
