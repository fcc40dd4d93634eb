SPECIFICATION FairSpec
CONSTANTS
    MaxPods = 4
    MaxExits = 3
    ForcedDeletes = FALSE
INVARIANT TypeOK
INVARIANT OneOperator
PROPERTY LatestOperatorRuns
CHECK_DEADLOCK FALSE
