SPECIFICATION FairSpec
CONSTANTS
    ArmOrder <- MCArmOrder
    Epochs = 2
    Draws <- MCDraws
    MaxKills = 2
    Partial = Partial
    None = None
\* The study is not run again once accepted.
CHECK_DEADLOCK FALSE
INVARIANTS
    StudyIsOneChain
PROPERTIES
    
    StudyResumesUnlessCaught
