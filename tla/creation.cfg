SPECIFICATION FairSpec
CONSTANTS
    Components = {"broker", "storage"}
    MaxFaults = 2
INVARIANT TypeOK
INVARIANT ServiceBeforeStatefulSet
INVARIANT DoneMeansCreated
PROPERTY CreatedOrGone
CHECK_DEADLOCK FALSE
