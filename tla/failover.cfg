SPECIFICATION FairFailoverSpec
CONSTANTS
    MaxChunk = 2
    MaxEdits = 3
    MaxFaults = 1
    MaxDisruptions = 3
INVARIANT StrandedExplained
PROPERTY ConvergesOrStranded
PROPERTY ShrinkOnlyWhenStable
CHECK_DEADLOCK FALSE
