CONSTANTS
    g = g
    a1 = a1
    a2 = a2
    a3 = a3
    b1 = b1
    b2 = b2
    gossip = gossip
    sync = sync
    NoFrame = NoFrame
    Frame <- MCShort
    Genesis = g
    MaxFrame = 2
    FrameNumber <- MCFrameNumber
    ParentSelector <- MCParentSelector
    SelectorRank <- MCSelectorRank
    Caller = {gossip, sync}
    Waiter = {sync}
    Settings <- MCAlwaysSend
    RepairFrame = 0
    BatchSize = 1
SPECIFICATION FairSpec
PROPERTIES
    DoneClosed
    HeadAdvances
    StopCompletes
CHECK_DEADLOCK FALSE
