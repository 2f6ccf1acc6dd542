CONSTANTS
    g = g
    a1 = a1
    a2 = a2
    a3 = a3
    b1 = b1
    b2 = b2
    gossip = gossip
    sync = sync
    NoFrame = NoFrame
    Frame <- MCSiblings
    Genesis = g
    MaxFrame = 3
    FrameNumber <- MCFrameNumber
    ParentSelector <- MCParentSelector
    SelectorRank <- MCSelectorRank
    Caller = {gossip, sync}
    Waiter = {sync}
    Settings <- MCSettings
    RepairFrame = 0
    BatchSize = 1
SPECIFICATION Spec
INVARIANTS
    StoreSound
    QueueSound
    NothingStranded
PROPERTIES
    ImplementsPrunedChain
    DeliveredInOrder
CHECK_DEADLOCK FALSE
