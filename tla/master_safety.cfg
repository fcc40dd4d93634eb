SPECIFICATION Spec
CONSTANTS
    Brokers = {b1, b2, b3}
    Coordinators = {c1}
    NoBroker = NoBroker
    MaxEpoch = 2
    MaxFaults = 3
SYMMETRY Symmetry
INVARIANT TypeOK
INVARIANT SingleMaster
PROPERTY CoordinatorsKeepABroker
INVARIANT EpochRecovered
PROPERTY SurvivingMetadataWins
