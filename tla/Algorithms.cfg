\* Every derivation stops after its one step.
SPECIFICATION Spec
CONSTANTS
    Threshold = 2
    EdgeThreshold = 1
    Confident = 2
    PythonCount = 9
    NativeCount = 2
    None = None
    Requests <- SmallRequests
    Challenged <- TwoPredictions
    Frames <- SmallFrames
    Clips <- SmallSegments
    Envelopes <- SmallEnvelopes
    ModelOutputs <- SmallModelOutputs
    PythonLimit <- PythonLimits
    NativeLimit <- NativeLimits
    Slots = 1
    Unit = 2
    Likely = 1
    Stores <- SmallStores
    Asked = {1, 2, 3, 4, 5, 6, 7, 8, 9, 10, 11, 12}
    Comparison = 7
    Offered <- SmallOffers
    Batch = 2
    OwnLimit = 1
    ServiceLimit = 2
    Derived = "derived"
    Transfers <- SmallTransfers
    Outside = 0
    Clones <- SmallClones
    Commands <- SmallCommands
    MaxCommands = 4
    Dataset = "openlane"
    Terms <- KnownTerms
    NaN = NaN
INVARIANTS
    KpisAreThoseDefined
    GeometryIsShared
    
    EvidenceIsSound
    DatasetIsFaithful
    CustodyIsKept
CHECK_DEADLOCK FALSE
