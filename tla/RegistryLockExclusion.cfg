\* The documented exclusion, against processes that may simply exit.
SPECIFICATION Spec
CONSTANTS
    p1 = p1
    p2 = p2
    p3 = p3
    Proc = {p1, p2, p3}
    Mortal = {p1, p2, p3}
    HostOf <- OneHost
    MaxLease = 1
    NoDir = NoDir
    NoOwner = NoOwner
SYMMETRY Symmetry
CHECK_DEADLOCK FALSE
INVARIANTS
    MutualExclusion
