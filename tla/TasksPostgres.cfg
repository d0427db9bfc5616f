SPECIFICATION Spec
CONSTANTS
    n1 = n1
    n2 = n2
    p1 = p1
    p2 = p2
    Nodes = {n1, n2}
    Processes = {p1, p2}
    None = None
    PlanTypes = {"rebalance", "failover"}
    Store = "postgres"
    DesiredReplicaCount = 2
    MaxPlans = 0
    MaxMessages = 2
    MaxAttempts = 2
    MaxFaults = 1
SYMMETRY Symmetry
INVARIANTS NoTaskLost DeadAfterRetries OncePerClaim
CHECK_DEADLOCK FALSE
