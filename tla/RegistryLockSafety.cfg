\* p1 goes on; p2 of its host and p3 of another may terminate anywhere.  One lease each.
SPECIFICATION FairSpec
CONSTANTS
    p1 = p1
    p2 = p2
    p3 = p3
    Proc = {p1, p2, p3}
    Mortal = {p2, p3}
    HostOf <- TwoHosts
    MaxLease = 1
    NoDir = NoDir
    NoOwner = NoOwner
CHECK_DEADLOCK FALSE
INVARIANTS
    ExclusiveUnlessMisreclaimed
    
    LockInv
PROPERTIES
    ClaimIsNotTaken
    ImplementsLease
    StaleLeaseIsReclaimed
    TransactionEnds
