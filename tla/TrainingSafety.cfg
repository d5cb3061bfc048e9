\* The qualification phase, and people of two sources who start trainers by hand.
SPECIFICATION FairSpec
CONSTANTS
    s1 = s1
    s2 = s2
    MaxEpoch = 3
    Frames = 3
    Accumulation = 2
    Source = {s1, s2}
    ByHand = TRUE
    SelectEarly = FALSE
    ReadyFirst = FALSE
    MaxFaults = 3
    None = None
INVARIANTS
    TrainingInv
    StepsAreScheduled
    OneRecordPerFailure
PROPERTIES
    UpdatesAreMeans
    CompleteIsFinal
    
    SelectionIsReached
CHECK_DEADLOCK FALSE
