SPECIFICATION MCSpec
CONSTANTS
    p1 = p1
    p2 = p2
    t1 = t1
    t2 = t2
    t3 = t3
    Procs = {p1, p2}
    First = p1
    Threads = {t1, t2, t3}
    ProcOf <- MCProcOf
    Size = 2
    Margin = 1
    Objects = {1, 2, 3, 4, 5, 6}
    NoObj = NoObj
    MaxCalls = 4
    MaxFailures = 1
    n1 = n1
    n2 = n2
    f1 = f1
    f2 = f2
    s1 = s1
    s2 = s2
    h1 = h1
    h2 = h2
    nil = nil
    short = short
    long = long
CONSTRAINT Sound
SYMMETRY NameSymmetry
INVARIANTS DescriptorsExact RamfsExact FileBlocksExact DirectoriesExact
PROPERTIES ExecClosesMarked
CHECK_DEADLOCK FALSE
