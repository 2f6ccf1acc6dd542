CONSTANTS
    b1 = b1
    b2 = b2
    b3 = b3
    b4 = b4
    b5 = b5
    Batch = {b1, b2, b3, b4, b5}
    NoBatch = NoBatch
    Slots = 4
    Workloads <- MCWorkloads
    Count <- MCCount
    FirstSeqNum = 0
    MaxSyncErrors = 1
SPECIFICATION Spec
SYMMETRY MCSymmetry
CONSTRAINT MCOneByOne
INVARIANTS
    VisibleIsApplied
    SomeonePublishes
    LogInOrder
    KeptOnReturn
    NeverFull
