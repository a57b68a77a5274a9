SPECIFICATION MCSpec
CONSTANTS
    Waiters = {t1, t2, t3}
    none = none
    Config <- MCConfig
    Threads = {m, a, b}
    Main = m
    Limit = 4
    MaxFailures = 1
    MaxSignals = 1
    Components = {"timeout"}
SYMMETRY WaiterSymmetry
INVARIANTS QueueAssertHolds
CHECK_DEADLOCK FALSE
