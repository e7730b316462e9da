SPECIFICATION Spec
CONSTANTS
    MaxPages = 2
    InitPages = 1
    Capacity = 1
    MaxTxn = 2
    CkptThreshold = 1
    Vals = {a, Empty}
    Empty = Empty
    None = None
CONSTRAINT NoPageDamaged
INVARIANT TypeOK
INVARIANT CleanMatchesDisk
INVARIANT RecoveryRestoresCommitted
INVARIANT ReadsSeeWork
