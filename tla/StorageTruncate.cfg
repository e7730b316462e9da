SPECIFICATION Spec
CONSTANTS
    MaxPages = 2
    InitPages = 2
    Capacity = 2
    MaxTxn = 2
    CkptThreshold = 2
    Vals = {a}
    Empty = Empty
    None = None
PROPERTY NeverTruncateActive
