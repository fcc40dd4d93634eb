SPECIFICATION Spec
CONSTANTS
    MaxChunk = 2
    MaxEdits = 2
    MaxFaults = 0
INVARIANT StableMeansNoneTerminating
CHECK_DEADLOCK FALSE
