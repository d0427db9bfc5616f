\* Both planners on one chunk.
CONSTANTS
    None = None
    Nodes = {n1, n2}
    Chunks = {c1}
    DesiredReplicaCount = 1
    Capacity = 2
    ChunkBytes = 1
    HighWatermark = 2
    LowWatermark = 1
    Loads = {1, 2}
    NodeTimeout = TRUE
    Planners = {"failover", "rebalance"}
    Restarts = TRUE
    Store = "memory"
    MaxPlans = 3
SPECIFICATION Spec
SYMMETRY Symmetry
INVARIANTS
    TypeOK
    OnePlanPerType
    DataKept
    OnePlannerIsSafe
