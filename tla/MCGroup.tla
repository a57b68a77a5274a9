------------------------------ MODULE MCGroup ------------------------------
(* The threads of a process (ThreadGroup, extended here) and the futexes they  *)
(* wait on (Futex), in configurations with and without signals and requeues.   *)
(* A behaviour is one of the group or of one configuration of the futexes;     *)
(* running says which.                                                         *)
EXTENDS ThreadGroup, TLC

CONSTANTS
    Waiters,        \* the threads that wait on futexes
    none,           \* no thread, and no futex
    Components,     \* what is explored: "group", or a configuration of the futexes
    Config          \* the parameters of Futex in each configuration

\* the configurations of the futexes
Cases == Components \ {"group"}

ASSUME WaitersAssumption == IsFiniteSet(Waiters) /\ none \notin Waiters

\* A bitset that waits is not empty (-EINVAL otherwise), and counts are not negative.
ASSUME ConfigAssumption ==
    \A c \in Cases :
        /\ Config[c].waitSets \subseteq SUBSET Config[c].bits
        /\ {} \notin Config[c].waitSets
        /\ Config[c].wakeSets \subseteq SUBSET Config[c].bits
        /\ Config[c].counts \subseteq Nat
        /\ Config[c].pairs \subseteq Config[c].futexes \X Config[c].futexes

VARIABLE running

\* the variables of Futex
VARIABLES
    f_word, f_owner, f_refs, f_mqueue, f_cqueue, f_onq, f_qbits, f_event,
    f_waiting, f_pending, f_delivering, f_pc, f_goal, f_op, f_ret, f_local,
    f_moved, f_target, f_crashed, f_calls, f_timeouts, f_strays, f_signals

fvars == << f_word, f_owner, f_refs, f_mqueue, f_cqueue, f_onq, f_qbits,
            f_event, f_waiting, f_pending, f_delivering, f_pc, f_goal, f_op,
            f_ret, f_local, f_moved, f_target, f_crashed, f_calls,
            f_timeouts, f_strays, f_signals >>

WaiterSymmetry == Permutations(Waiters)

F(c) == INSTANCE Futex WITH
        word <- f_word, owner <- f_owner, refs <- f_refs,
        mqueue <- f_mqueue, cqueue <- f_cqueue, onq <- f_onq,
        qbits <- f_qbits, event <- f_event, waiting <- f_waiting,
        pending <- f_pending, delivering <- f_delivering, pc <- f_pc,
        goal <- f_goal, op <- f_op, ret <- f_ret, local <- f_local,
        moved <- f_moved, target <- f_target, crashed <- f_crashed,
        calls <- f_calls, timeouts <- f_timeouts, strays <- f_strays,
        signals <- f_signals, Threads <- Waiters, NoThread <- none,
        NoFutex <- none, Futexes <- Config[c].futexes, Bits <- Config[c].bits,
        Kinds <- Config[c].kinds, WaitSets <- Config[c].waitSets,
        WakeSets <- Config[c].wakeSets, Counts <- Config[c].counts,
        Pairs <- Config[c].pairs, MaxCalls <- Config[c].maxCalls,
        MaxTimeouts <- Config[c].maxTimeouts, MaxStrays <- Config[c].maxStrays,
        MaxSignals <- Config[c].maxSignals

\* one futex and two calls each, with a timeout or a stray wakeup; and two futexes with
\* requeue in all directions and a signal
MCWait == [futexes |-> {"x"}, bits |-> {1}, kinds |-> {"wait", "wake", "release"},
           waitSets |-> {{1}}, wakeSets |-> {{1}}, counts |-> {1}, pairs |-> {},
           maxCalls |-> 2, maxTimeouts |-> 0, maxStrays |-> 0, maxSignals |-> 0]
MCConfig ==
    [timeout |-> [MCWait EXCEPT !.maxTimeouts = 1],
     stray |-> [MCWait EXCEPT !.maxStrays = 1],
     requeue |-> [futexes |-> {"x", "y"}, bits |-> {1},
                  kinds |-> {"wait", "wake", "requeue"}, waitSets |-> {{1}},
                  wakeSets |-> {{1}}, counts |-> {1}, pairs |-> {"x", "y"} \X {"x", "y"},
                  maxCalls |-> 1, maxTimeouts |-> 0, maxStrays |-> 0, maxSignals |-> 1]]

\* the futexes while the group runs
fOff ==
    /\ f_word = 0 /\ f_owner = 0 /\ f_refs = 0 /\ f_mqueue = 0 /\ f_cqueue = 0
    /\ f_onq = 0 /\ f_qbits = 0 /\ f_event = 0 /\ f_waiting = 0 /\ f_pending = 0
    /\ f_delivering = 0 /\ f_pc = 0 /\ f_goal = 0 /\ f_op = 0 /\ f_ret = 0
    /\ f_local = 0 /\ f_moved = 0 /\ f_target = 0 /\ f_crashed = 0 /\ f_calls = 0
    /\ f_timeouts = 0 /\ f_strays = 0 /\ f_signals = 0

MCInit == /\ running \in Components
          /\ Init
          /\ \/ running = "group" /\ fOff
             \/ \E c \in Cases : running = c /\ F(c)!Init

MCNext ==
    /\ UNCHANGED running
    /\ \/ running = "group" /\ Next /\ UNCHANGED fvars
       \/ \E c \in Cases : running = c /\ F(c)!Next /\ UNCHANGED vars

MCSpec == MCInit /\ [][MCNext]_<<running, vars, fvars>>

-----------------------------------------------------------------------------
\* No signal and no requeue reaches a waiter in this configuration.
Plain(c) == Config[c].maxSignals = 0 /\ "requeue" \notin Config[c].kinds

\* The types of the variables of the component explored (TypeOK of each module).
Types ==
    /\ running = "group" => TypeOK
    /\ \A c \in Cases : running = c => F(c)!TypeOK

\* thread->queue names the queue a thread is in, in every configuration
\* (Futex!QueueFieldExact), and no thread outside a futex call is in a queue
\* (Futex!NoQueuedOutsider), unless a signal ends a waiter that was selected, or a
\* requeued waiter looks for itself in the queue it came from.
QueuesExact ==
    \A c \in Cases : running = c =>
        F(c)!QueueFieldExact /\ (Plain(c) => F(c)!NoQueuedOutsider)

\* A thread taken off a queue is going to be woken, in every configuration
\* (Futex!SelectedIsWoken).  Without signals and requeues the waker uses the event
\* of a thread that is still in its wait (Futex!TargetInWait), and nobody waits for
\* the old value of a word after the wake that followed its change
\* (Futex!NoStaleWaiter).
WakesExact ==
    \A c \in Cases : running = c =>
        /\ F(c)!SelectedIsWoken
        /\ Plain(c) => F(c)!TargetInWait /\ F(c)!NoStaleWaiter

\* The assertion of push_back holds also when waits time out
\* (Futex!QueueAssertHolds).
QueueAssertHolds == \A c \in Cases : F(c)!QueueAssertHolds
=============================================================================
