SPECIFICATION Spec
CONSTANTS
    f1 = f1
    u1 = u1
    u2 = u2
    d1 = d1
    g1 = g1
    b1 = b1
    b2 = b2
    None = None
    Files = {f1}
    Uploads = {u1, u2}
    Deletes = {d1, d2}
    Downloads = {g1}
    Bases = {b1, b2}
    Nodes = {1, 2}
    Callers <- const_Callers
    Data <- const_Data
    Chunks <- const_Chunks
    ChunkSize = 2
    FileSizes = {3}
    MaxIndex = 1
    Desired = 2
    Capacity = 2
    Store = "memory"
    MaxEvents = 4
    MaxFaults = 2
SYMMETRY Symmetry
CONSTRAINT Bound
INVARIANTS TypeOK CopiesAreWhole AvailableIsStored DeletedIsGone DownloadIsFile
CHECK_DEADLOCK FALSE
