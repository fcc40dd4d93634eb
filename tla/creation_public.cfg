SPECIFICATION Spec
CONSTANTS
    Components = {"broker", "storage"}
    MaxFaults = 2
INVARIANT DoneMeansReachable
CHECK_DEADLOCK FALSE
