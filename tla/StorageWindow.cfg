SPECIFICATION Spec
CONSTANTS
    MaxPages = 2
    InitPages = 2
    Capacity = 2
    MaxTxn = 1
    CkptThreshold = 0
    Vals = {a}
    Empty = Empty
    None = None
PROPERTY TruncationIsSafe
