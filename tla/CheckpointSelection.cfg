\* Series of up to five epochs, patience two from the second epoch.
SPECIFICATION Spec
CONSTANTS
    MaxEpoch = 5
    MinimumEpoch = 2
    Patience = 2
    Topology <- Two
    Official <- Two
    Nll <- Two
INVARIANTS
    StopsAtFirstExhaustion
    SelectsBest
CHECK_DEADLOCK FALSE
