SPECIFICATION FairSpec
CONSTANTS
    h = h
    u = u
    Honest = {h}
    Unreliable = {u}
    Self = self
    NoPeer = noPeer
    NoInfo = noInfo
    Announced <- MCAnnounced
    StartHead = 1
    MaxFrame = 3
    SyncCandidates = 2
    Lag = 1
    Width = 8
    MaxStrays = 1
INVARIANTS
    PollsWillingOthers
    SyncLeavesNoGap
    
PROPERTIES
    SyncEnds
    CatchesUp
CHECK_DEADLOCK FALSE
