CONSTANTS
    r1 = r1
    r2 = r2
    v1 = v1
    v2 = v2
    h1 = h1
    h2 = h2
    Replica = {r1, r2}
    Vertex = {v1, v2}
    Hyperedge = {h1, h2}
    Extrinsics <- MCExtrinsics
    Nested <- MCNested
    Size <- MCSize
    ShardKey <- MCShardKey
    MaxOps <- MCMaxOps
    MaxLoads = 1
SPECIFICATION Spec
INVARIANTS
    ExtrinsicsPresent
    Convergence
    SizeCovers
    WithinReaches
CHECK_DEADLOCK FALSE
