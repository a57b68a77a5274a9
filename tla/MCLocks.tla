------------------------------ MODULE MCLocks ------------------------------
(* The kernel mutex (Mutex, extended here) with three threads and recursion    *)
(* depth two, and futex waits and wakes (Futex), checked side by side because  *)
(* the same scheduling makes them live.  A behaviour is one of one component;  *)
(* running says which.                                                         *)
EXTENDS Mutex, TLC

CONSTANTS t1, t2, t3, word, none

VARIABLE running

\* the variables of Futex
VARIABLES
    f_word, f_owner, f_refs, f_mqueue, f_cqueue, f_onq, f_qbits, f_event,
    f_waiting, f_pending, f_delivering, f_pc, f_goal, f_op, f_ret, f_local,
    f_moved, f_target, f_crashed, f_calls, f_timeouts, f_strays, f_signals

fvars == << f_word, f_owner, f_refs, f_mqueue, f_cqueue, f_onq, f_qbits,
            f_event, f_waiting, f_pending, f_delivering, f_pc, f_goal, f_op,
            f_ret, f_local, f_moved, f_target, f_crashed, f_calls,
            f_timeouts, f_strays, f_signals >>

MCThreads == {t1, t2, t3}

\* one futex, waits with one of two bits, wakes with one of them or with both
F == INSTANCE Futex WITH
        word <- f_word, owner <- f_owner, refs <- f_refs,
        mqueue <- f_mqueue, cqueue <- f_cqueue, onq <- f_onq,
        qbits <- f_qbits, event <- f_event, waiting <- f_waiting,
        pending <- f_pending, delivering <- f_delivering, pc <- f_pc,
        goal <- f_goal, op <- f_op, ret <- f_ret, local <- f_local,
        moved <- f_moved, target <- f_target, crashed <- f_crashed,
        calls <- f_calls, timeouts <- f_timeouts, strays <- f_strays,
        signals <- f_signals, Futexes <- {word}, NoFutex <- none,
        Bits <- {1, 2}, Kinds <- {"wait", "wake", "release"},
        WaitSets <- {{1}, {2}}, WakeSets <- {{1}, {1, 2}},
        Counts <- {1, 2}, Pairs <- {}, MaxCalls <- 1, MaxTimeouts <- 0,
        MaxStrays <- 0, MaxSignals <- 0

MCInit == running \in {"mutex", "futex"} /\ Init /\ F!Init

MCNext ==
    /\ UNCHANGED running
    /\ \/ running = "mutex" /\ Next /\ UNCHANGED fvars
       \/ running = "futex" /\ F!Next /\ UNCHANGED vars

\* the fairness of FairSpec in both modules
MCFairness ==
    \A t \in Threads :
        /\ WF_vars(running = "mutex" /\ CallStep(t))
        /\ WF_vars(running = "mutex" /\ Unlock(t))
        /\ SF_vars(running = "mutex" /\ Unlock(t) /\ refs = 1)
        /\ WF_fvars(running = "futex" /\ ~f_crashed /\ F!CallStep(t))

MCSpec == MCInit /\ [][MCNext]_<<running, vars, fvars>> /\ MCFairness

-----------------------------------------------------------------------------
\* A wake takes the waiters whose bits match, in order of arrival
\* (Futex!SelectInOrder), a thread that waits on a word that has changed returns
\* (Futex!WaiterReturns) and, without timeouts, the assertion of push_back holds
\* (Futex!QueueAssertHolds).
FutexServed == F!SelectInOrder /\ F!WaiterReturns /\ []F!QueueAssertHolds
=============================================================================
