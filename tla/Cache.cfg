SPECIFICATION Spec
CONSTANTS
    r1 = r1
    r2 = r2
    Readers = {r1, r2}
    None = None
    TTL <- const_TTL
    Jitter = 0
    MaxWrites = 1
    MaxFaults = 1
INVARIANTS TypeOK DirectoryListIsLater OneFill
PROPERTIES CacheSettles
