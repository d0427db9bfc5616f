SPECIFICATION Spec
CONSTANTS
    Inodes = {root, i1, i2, i3}
    Files = {f1}
    Names <- const_Names
    Escaped <- const_Escaped
    Clients = {c1, c2}
    Stores = {"postgres"}
    Root = root
    None = None
    MaxOps = 4
SYMMETRY Symmetry
INVARIANTS NoDirectoryBelowItself
CHECK_DEADLOCK FALSE
