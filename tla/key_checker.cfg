SPECIFICATION Spec
CONSTANTS
    Keys = {k1, k2, k3, k4}
    MAX_KVS = 3
    MaxCorrupted = 2
SYMMETRY Symmetry
INVARIANT TypeOK
INVARIANT NoFalseAlarm
INVARIANT ReadsMissNothing
