SPECIFICATION Spec
CONSTANTS
    p1 = p1
    p2 = p2
    Procs = {p1, p2}
    Nobody = Nobody
    NumPages = 4
    MaxLen = 3
    MaxCalls = 4
SYMMETRY ProcSymmetry
INVARIANTS AreasExact PagesExact
CHECK_DEADLOCK FALSE
