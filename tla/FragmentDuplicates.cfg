CONSTANTS
    f1 = f1
    f2 = f2
    f3 = f3
    p = p
    s1 = s1
    s2 = s2
    s3 = s3
    s4 = s4
    s5 = s5
    NoFrame = NoFrame
    NoShard = NoShard
    Frame = {f1}
    Prover = {p}
    Signer <- MCSigner
    FrameNumber <- MCFrameNumber
    Output <- MCOutput
    Mode <- MCMode
    Large = {}
    Valid = {f1}
    Shard = {s1, s2, s3, s4, s5}
    DataShards = 4
    MaxBuffers = 2
    MaxRecent = 1
    MaxRepeats = 1
SPECIFICATION Spec
SYMMETRY MCShards
INVARIANTS
    SufficientBuilds
CHECK_DEADLOCK FALSE
