SPECIFICATION FairSpec
CONSTANTS
    Brokers = {b1, b2, b3}
    Coordinators = {c1, c2}
    NoBroker = NoBroker
    MaxEpoch = 0
    MaxFaults = 2
PROPERTY Settles
 
