SPECIFICATION Spec
CONSTANTS
    MaxPages = 2
    InitPages = 2
    Capacity = 1
    MaxTxn = 2
    CkptThreshold = 9
    Vals = {a, b}
    Empty = Empty
    None = None
INVARIANT CommitsAreDurable
