\* One file, two sessions, two chunks, the in-memory store.
CONSTANTS
    None = None
    f1 = f1
    d1 = d1
    d2 = d2
    n1 = n1
    Files = {f1}
    Sessions = {s1, s2}
    Chunks = {c1, c2}
    Nodes = {n1}
    Data = {d1, d2}
    ChunkSize = 2
    MaxIndex = 1
    FileSizes = {3}
    MinimumReplicaCount = 0
    ChunkRequests <- MCRequests
    ExpectedStatuses <- MCExpected
    ChunkIDs <- MCOneFile
    Store = "memory"
SPECIFICATION Spec
SYMMETRY MCSymmetry
INVARIANTS
    AvailableIsReadable
    AvailableWasCompleted
    RowsAgree
    InductiveInvariant
    ScanAgrees
PROPERTIES ImplementsObjectStore
