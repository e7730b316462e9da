SPECIFICATION Spec
CONSTANTS
    Pages = {p1, p2, p3}
    Hot = {p1, p2}
    Capacity = 2
    Vals = {a, b}
    Torn = Torn
    None = None
SYMMETRY LocksSymmetry
CHECK_DEADLOCK FALSE
INVARIANT RollbackErases
