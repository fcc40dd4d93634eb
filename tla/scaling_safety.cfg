SPECIFICATION Spec
CONSTANTS
    MaxChunk = 2
    MaxEdits = 2
    MaxFaults = 1
INVARIANT TypeOK
INVARIANT ScalingInv
INVARIANT DoneMeansScaled
PROPERTY ScalesSafely
PROPERTY ShrinkKeepsSlots
PROPERTY ShrinkOnlyWhenStable
CHECK_DEADLOCK FALSE
