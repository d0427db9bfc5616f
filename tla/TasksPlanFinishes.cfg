SPECIFICATION FairSpec
CONSTANTS
    n1 = n1
    n2 = n2
    p1 = p1
    Nodes = {n1, n2}
    Processes = {p1}
    None = None
    PlanTypes = {"rebalance"}
    Store = "memory"
    DesiredReplicaCount = 1
    MaxPlans = 1
    MaxMessages = 3
    MaxAttempts = 2
    MaxFaults = 0
PROPERTIES PlanFinishes
CHECK_DEADLOCK FALSE
