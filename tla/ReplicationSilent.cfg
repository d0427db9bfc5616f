\* A node that stops sending heartbeats.
CONSTANTS
    None = None
    Nodes = {n1, n2}
    Chunks = {c1}
    DesiredReplicaCount = 1
    Capacity = 2
    ChunkBytes = 1
    HighWatermark = 2
    LowWatermark = 1
    Loads = {1}
    NodeTimeout = TRUE
    Planners = {"failover"}
    Restarts = FALSE
    Store = "memory"
    MaxPlans = 2
SPECIFICATION FairSpec
PROPERTY
    SilentNodeFailsOver
