SPECIFICATION MCSpec
CONSTANTS
    Waiters = {t1, t2, t3}
    none = none
    Config <- MCConfig
    Threads = {m, a, b}
    Main = m
    Limit = 4
    MaxFailures = 1
    MaxSignals = 1
    Components = {"group", "timeout", "stray", "requeue"}
SYMMETRY WaiterSymmetry
INVARIANTS Types GroupExact InternalKillInvisible QueuesExact WakesExact
CHECK_DEADLOCK FALSE
