\* The phase after a failure in its first epoch.
SPECIFICATION FairSpec
CONSTANTS
    s1 = s1
    s2 = s2
    MaxEpoch = 3
    Frames = 3
    Accumulation = 2
    Source = {s1}
    ByHand = FALSE
    SelectEarly = FALSE
    ReadyFirst = FALSE
    MaxFaults = 1
    None = None
PROPERTIES
    TrainingCompletes
CHECK_DEADLOCK FALSE
