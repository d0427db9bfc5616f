SPECIFICATION Spec
CONSTANTS
    n1 = n1
    n2 = n2
    p1 = p1
    Nodes = {n1, n2}
    Processes = {p1}
    None = None
    PlanTypes = {"rebalance", "failover"}
    Store = "memory"
    DesiredReplicaCount = 1
    MaxPlans = 1
    MaxMessages = 2
    MaxAttempts = 2
    MaxFaults = 1
SYMMETRY Symmetry
INVARIANTS TypeOK FirstPlanKeepsData
CHECK_DEADLOCK FALSE
