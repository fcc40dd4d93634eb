SPECIFICATION Spec
CONSTANTS
    Half = 16
    Capacity = 8
    MaxEdits = 2
INVARIANT TypeOK
INVARIANT WrapStrandsNoSlots
INVARIANT DoneIsExact
