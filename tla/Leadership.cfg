SPECIFICATION Spec
CONSTANTS
    p1 = p1
    p2 = p2
    Processes = {p1, p2}
    Migrations = 2
    MaxTerms = 4
    MaxFaults = 2
INVARIANTS TypeOK LoopsOverlapOnlyAfterLoss OneGeneration ServesPrepared
PROPERTIES ShutdownEnds SomeoneLeads StartEnds
CHECK_DEADLOCK FALSE
