\* One file, its only chunk with and without a verified checksum, one transaction that others overlap.
CONSTANTS
    None = None
    f1 = f1
    d1 = d1
    n1 = n1
    Files = {f1}
    Sessions = {s1, s2}
    Chunks = {c1}
    Nodes = {n1}
    Data = {d1}
    ChunkSize = 2
    MaxIndex = 0
    FileSizes = {2}
    MinimumReplicaCount = 0
    ChunkRequests <- MCRequests
    ExpectedStatuses <- MCExpected
    ChunkIDs <- MCOneFile
    Store = "postgres"
    Txs = {t1}
SPECIFICATION TxSpec
SYMMETRY MCSymmetry
INVARIANTS
    OneActiveSession
    ReadableUnlessOverlapped
