SPECIFICATION FairSpec
CONSTANTS
    Pages = {p1, p2, p3}
    Hot = {p1}
    Capacity = 2
    Vals = {a, b}
    Torn = Torn
    None = None
CHECK_DEADLOCK FALSE
INVARIANT LocksTypeOK
INVARIANT NoLostUpdate
PROPERTY StatementsEnd
