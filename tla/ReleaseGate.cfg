\* One command after another or interleaved with a second one, over all pairs of arms.
SPECIFICATION Spec
CONSTANTS
    p1 = p1
    p2 = p2
    Proc = {p1, p2}
    Cell <- Cells
    Metric <- CellMetric
    Slice <- CellSlice
    Support <- CellSupportClass
    Ranked = {"lanes"}
    Timed = {"latency"}
    DraftMargin <- DraftMargins
    Goal <- Goals
    Baseline <- FreezeEvidence
    Pairs <- OneOfAll
    Registry = "v1"
    Registries = {"v0", "v1"}
    KnownSlices = {"weather"}
    Floor <- Floors
    MinPairs = 3
    Schedule = "balanced"
    MaxRuns = 4
    None = None
INVARIANTS
    PassIsEarned
    RejectionIsFounded
    DecidedUnderItsCharter
SYMMETRY Symmetry
CHECK_DEADLOCK FALSE
