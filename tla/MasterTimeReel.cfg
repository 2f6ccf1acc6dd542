CONSTANTS
    g = g
    a1 = a1
    a2 = a2
    a3 = a3
    b1 = b1
    b2 = b2
    og = og
    NoFrame = NoFrame
    Frame <- MCFrame
    Genesis <- g
    FrameNumber <- MCFrameNumber
    ParentSelector <- MCParentSelector
    Difficulty <- MCDifficulty
    MaxFrame = 3
    MaxCopies = 1
    FixedDifficulty = 160000
    MaxPending = 2
    MaxCrashes = 1
SPECIFICATION FairSpec
INVARIANTS
    ChainIntegrity
    HeadIsLatest
    NothingReady
    BadNeverCommitted
PROPERTIES
    ImplementsFrameChain
    HeadAdvances
CHECK_DEADLOCK FALSE
