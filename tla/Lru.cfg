SPECIFICATION Spec
CONSTANTS
    Pages = {p1, p2, p3, p4}
    Capacity = 3
INVARIANT LruTypeOK
INVARIANT SlotsPartition
INVARIANT LinksMirror
INVARIANT PeekIsOldestFirst
PROPERTY ImplementsLruList
