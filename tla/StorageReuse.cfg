SPECIFICATION Spec
CONSTANTS
    MaxPages = 2
    InitPages = 1
    Capacity = 2
    MaxTxn = 2
    CkptThreshold = 9
    Vals = {a}
    Empty = Empty
    None = None
PROPERTY NewPageIsUnused
