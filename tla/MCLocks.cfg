SPECIFICATION MCSpec
CONSTANTS
    t1 = t1
    t2 = t2
    t3 = t3
    word = word
    none = none
    Threads <- MCThreads
    NoThread = NoThread
    MaxRefs = 2
    MaxSignals = 1
INVARIANTS TypeOK MutualExclusion NoLostWakeup QueueIsWaiters
PROPERTIES LockRefinement LockServed FutexServed
CHECK_DEADLOCK FALSE
