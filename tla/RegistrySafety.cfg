\* Two processes; crashes, failing calls, one rotten object and a lost index.
SPECIFICATION Spec
CONSTANTS
    p1 = p1
    p2 = p2
    root = root
    child = child
    third = third
    blob = blob
    other = other
    nothing = nothing
    Proc = {p1, p2}
    Artifact = {root, child, third}
    Blob = {blob, other}
    Unknown = {nothing}
    PayloadOf <- Payloads
    ParentsOf <- ParentsDangling
    MaxFaults = 1
    MaxDamage = 1
    MayLoseIndex = TRUE
    NoProc = NoProc
    None = None
SYMMETRY Symmetry
INVARIANTS
    RegistryInv
    ReceiptIsDurable
    RebuildIsComplete
PROPERTIES
    GcMissesNothing
