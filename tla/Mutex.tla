------------------------------- MODULE Mutex -------------------------------
(***************************************************************************)
(* The kernel mutex (kernel/mutex.c) together with what a blocked thread   *)
(* sleeps on: the host event word of target/shared/waitwake.c and the      *)
(* signal fields that kernel/signal.c uses to interrupt the sleep.         *)
(*                                                                         *)
(* Every field of struct _myst_mutex is only touched under m->lock, a spin *)
(* lock, so one spin-locked section is one action.  What the code does     *)
(* outside the spin lock (setting waiting_on_event, the atomic operations  *)
(* on the event word, waking the waiter that unlock selected) is a step of *)
(* its own, because other threads run in between.                          *)
(***************************************************************************)
EXTENDS Integers, Sequences

CONSTANTS Threads,      \* the kernel threads that use the mutex
          NoThread,     \* the NULL thread pointer
          MaxRefs,      \* bound on recursive locking of the mutex
          MaxSignals    \* bound on the number of signals ever delivered

ASSUME ThreadsAssumption == NoThread \notin Threads
ASSUME BoundsAssumption == MaxRefs \in Nat \ {0} /\ MaxSignals \in Nat

VARIABLES
    owner,       \* m->owner
    refs,        \* m->refs
    queue,       \* m->queue, front first
    event,       \* *(int*)thread->event, the host event word
    waiting,     \* thread->signal.waiting_on_event
    pending,     \* thread has an unblocked pending signal
    delivering,  \* targets whose myst_signal_deliver is between setting the
                 \* pending bit and testing waiting_on_event
    signals,     \* number of signals delivered so far
    pc,          \* where each thread is
    waiter,      \* the local "waiter" of myst_mutex_unlock
    hold         \* lock calls that returned 0 minus unlock calls: what the
                 \* callers of the mutex rely on

mutexVars == <<owner, refs, queue>>
signalVars == <<waiting, pending, delivering, signals>>
vars == <<owner, refs, queue, event, waiting, pending, delivering, signals,
          pc, waiter, hold>>

(***************************************************************************)
(* Program points.  "run" is kernel code outside the mutex calls; "try",   *)
(* "enter", "wait", "sleep" and "woken" are _mutex_lock's loop; "eintr" is *)
(* the -EINTR branch of myst_mutex_lock; "wake" is myst_mutex_unlock about *)
(* to call myst_tcall_wake; "exited" is a thread that a terminating signal *)
(* took out of myst_signal_process.                                        *)
(***************************************************************************)
Blocking == {"enter", "wait", "sleep", "woken"}
Locations == {"run", "try", "eintr", "wake", "exited"} \cup Blocking

InQueue(t) == \E i \in 1..Len(queue) : queue[i] = t

\* myst_thread_queue_remove_thread: unlink t wherever it is in the queue
Unlink(q, t) ==
    LET k == CHOOSE i \in 1..Len(q) : q[i] = t
    IN  [i \in 1..(Len(q) - 1) |-> IF i < k THEN q[i] ELSE q[i + 1]]

Init ==
    /\ owner = NoThread
    /\ refs = 0
    /\ queue = <<>>
    /\ event = [t \in Threads |-> 0]
    /\ waiting = [t \in Threads |-> FALSE]
    /\ pending = [t \in Threads |-> FALSE]
    /\ delivering = {}
    /\ signals = 0
    /\ pc = [t \in Threads |-> "run"]
    /\ waiter = [t \in Threads |-> NoThread]
    /\ hold = [t \in Threads |-> 0]

-----------------------------------------------------------------------------
(***************************************************************************)
(* __myst_mutex_trylock, the part of the spin-locked section that both     *)
(* lock and trylock share.                                                 *)
(***************************************************************************)
MayObtain(t) ==
    \/ owner = t
    \/ owner = NoThread /\ (queue = <<>> \/ Head(queue) = t)

\* mutant: the front of the queue takes the mutex without looking at the owner
ObtainIgnoringOwner(t) ==
    /\ \/ owner = NoThread /\ queue = <<>> /\ UNCHANGED queue
       \/ queue # <<>> /\ Head(queue) = t /\ queue' = Tail(queue)
    /\ owner' = t
    /\ refs' = 1
    /\ hold' = [hold EXCEPT ![t] = @ + 1]

Obtain(t) ==
    /\ \/ /\ owner = t
          /\ refs' = refs + 1
          /\ UNCHANGED <<owner, queue>>
       \/ /\ owner = NoThread
          /\ queue = <<>>
          /\ owner' = t
          /\ refs' = 1
          /\ UNCHANGED queue
       \/ /\ owner = NoThread
          /\ queue # <<>>
          /\ Head(queue) = t
          /\ queue' = Tail(queue)
          /\ owner' = t
          /\ refs' = 1
    /\ hold' = [hold EXCEPT ![t] = @ + 1]

\* myst_mutex_lock is called
LockCall(t) ==
    /\ pc[t] = "run"
    /\ hold[t] < MaxRefs
    /\ pc' = [pc EXCEPT ![t] = "try"]
    /\ UNCHANGED <<mutexVars, signalVars, event, waiter, hold>>

\* the attempt succeeds: _mutex_lock returns 0
LockObtain(t) ==
    /\ pc[t] = "try"
    /\ Obtain(t)
    /\ pc' = [pc EXCEPT ![t] = "run"]
    /\ UNCHANGED <<signalVars, event, waiter>>

\* mutant: -EINTR without removing the thread from the queue
InterruptedStillQueued(t) ==
    /\ pc[t] = "try"
    /\ ~MayObtain(t)
    /\ pending[t]
    /\ pc' = [pc EXCEPT ![t] = "eintr"]
    /\ UNCHANGED <<mutexVars, signalVars, event, waiter, hold>>

\* the attempt fails and a signal is active: leave the queue, return -EINTR
LockInterrupted(t) ==
    /\ pc[t] = "try"
    /\ ~MayObtain(t)
    /\ pending[t]
    /\ queue' = IF InQueue(t) THEN Unlink(queue, t) ELSE queue
    /\ pc' = [pc EXCEPT ![t] = "eintr"]
    /\ UNCHANGED <<owner, refs, signalVars, event, waiter, hold>>

\* the attempt fails: join the queue once and go to sleep
LockEnqueue(t) ==
    /\ pc[t] = "try"
    /\ ~MayObtain(t)
    /\ ~pending[t]
    /\ queue' = IF InQueue(t) THEN queue ELSE Append(queue, t)
    /\ pc' = [pc EXCEPT ![t] = "enter"]
    /\ UNCHANGED <<owner, refs, signalVars, event, waiter, hold>>

\* self->signal.waiting_on_event = true
SetWaiting(t) ==
    /\ pc[t] = "enter"
    /\ waiting' = [waiting EXCEPT ![t] = TRUE]
    /\ pc' = [pc EXCEPT ![t] = "wait"]
    /\ UNCHANGED <<mutexVars, pending, delivering, signals, event, waiter, hold>>

\* myst_tcall_wait: the atomic decrement decides between sleeping and returning
TcallWait(t) ==
    /\ pc[t] = "wait"
    /\ event' = [event EXCEPT ![t] = @ - 1]
    /\ pc' = [pc EXCEPT ![t] = IF event[t] = 0 THEN "sleep" ELSE "woken"]
    /\ UNCHANGED <<mutexVars, signalVars, waiter, hold>>

\* myst_tcall_wait: FUTEX_WAIT loops while the event word is -1
TcallReturn(t) ==
    /\ pc[t] = "sleep"
    /\ event[t] # -1
    /\ pc' = [pc EXCEPT ![t] = "woken"]
    /\ UNCHANGED <<mutexVars, signalVars, event, waiter, hold>>

\* self->signal.waiting_on_event = false, and round the loop again
ClearWaiting(t) ==
    /\ pc[t] = "woken"
    /\ waiting' = [waiting EXCEPT ![t] = FALSE]
    /\ pc' = [pc EXCEPT ![t] = "try"]
    /\ UNCHANGED <<mutexVars, pending, delivering, signals, event, waiter, hold>>

\* myst_mutex_lock: myst_signal_process runs the handlers and lock starts over,
\* or a terminating signal takes the thread out through its jump buffer
LockSignalProcess(t) ==
    /\ pc[t] = "eintr"
    /\ pending' = [pending EXCEPT ![t] = FALSE]
    /\ \E next \in {"try", "exited"} : pc' = [pc EXCEPT ![t] = next]
    /\ UNCHANGED <<mutexVars, waiting, delivering, signals, event, waiter, hold>>

\* myst_mutex_trylock; a failed attempt changes nothing (-EBUSY)
TryLock(t) ==
    /\ pc[t] = "run"
    /\ hold[t] < MaxRefs
    /\ Obtain(t)
    /\ UNCHANGED <<signalVars, event, pc, waiter>>

\* mutants of unlock: the first unlock of a recursive lock frees the mutex; the
\* count is tested before it is decremented; the waiter is read at the back
UnlockFreesEarly(t) ==
    /\ pc[t] = "run"
    /\ owner = t
    /\ refs' = refs - 1
    /\ hold' = [hold EXCEPT ![t] = @ - 1]
    /\ owner' = NoThread
    /\ UNCHANGED <<queue, signalVars, event, waiter, pc>>

UnlockPostDecrement(t) ==
    /\ pc[t] = "run"
    /\ owner = t
    /\ refs' = refs - 1
    /\ hold' = [hold EXCEPT ![t] = IF @ = 0 THEN 0 ELSE @ - 1]
    /\ owner' = IF refs = 0 THEN NoThread ELSE owner
    /\ UNCHANGED <<queue, signalVars, event, waiter, pc>>

UnlockPicksBack(t) ==
    /\ pc[t] = "run"
    /\ owner = t
    /\ refs' = refs - 1
    /\ hold' = [hold EXCEPT ![t] = @ - 1]
    /\ IF refs = 1
       THEN /\ owner' = NoThread
            /\ waiter' = [waiter EXCEPT ![t] =
                    IF queue = <<>> THEN NoThread ELSE queue[Len(queue)]]
            /\ pc' = [pc EXCEPT ![t] = IF queue = <<>> THEN "run" ELSE "wake"]
       ELSE UNCHANGED <<owner, waiter, pc>>
    /\ UNCHANGED <<queue, signalVars, event>>

\* __myst_mutex_unlock: the spin-locked section of unlock.  A caller that does
\* not own the mutex gets -EPERM and changes nothing
Unlock(t) ==
    /\ pc[t] = "run"
    /\ owner = t
    /\ refs' = refs - 1
    /\ hold' = [hold EXCEPT ![t] = @ - 1]
    /\ IF refs = 1
       THEN /\ owner' = NoThread
            /\ waiter' = [waiter EXCEPT ![t] =
                              IF queue = <<>> THEN NoThread ELSE Head(queue)]
            /\ pc' = [pc EXCEPT ![t] = IF queue = <<>> THEN "run" ELSE "wake"]
       ELSE UNCHANGED <<owner, waiter, pc>>
    /\ UNCHANGED <<queue, signalVars, event>>

\* mutant: wake only a waiter that already says it is waiting on its event
UnlockWakesIfWaiting(t) ==
    /\ pc[t] = "wake"
    /\ event' = IF waiting[waiter[t]]
                THEN [event EXCEPT ![waiter[t]] = @ + 1] ELSE event
    /\ waiter' = [waiter EXCEPT ![t] = NoThread]
    /\ pc' = [pc EXCEPT ![t] = "run"]
    /\ UNCHANGED <<mutexVars, signalVars, hold>>

\* myst_mutex_unlock: myst_tcall_wake(waiter->event)
UnlockWake(t) ==
    /\ pc[t] = "wake"
    /\ event' = [event EXCEPT ![waiter[t]] = @ + 1]
    /\ waiter' = [waiter EXCEPT ![t] = NoThread]
    /\ pc' = [pc EXCEPT ![t] = "run"]
    /\ UNCHANGED <<mutexVars, signalVars, hold>>

-----------------------------------------------------------------------------
(***************************************************************************)
(* myst_signal_deliver from any other context: set the pending bit under   *)
(* signal.lock, then, outside that lock, wake the target if it says it is  *)
(* waiting.  A signal that is pending is an unblocked one.                 *)
(***************************************************************************)
DeliverSignal(t) ==
    /\ signals < MaxSignals
    /\ pc[t] # "exited"
    /\ t \notin delivering
    /\ pending' = [pending EXCEPT ![t] = TRUE]
    /\ delivering' = delivering \cup {t}
    /\ signals' = signals + 1
    /\ UNCHANGED <<mutexVars, waiting, event, pc, waiter, hold>>

DeliverWake(t) ==
    /\ t \in delivering
    /\ delivering' = delivering \ {t}
    /\ event' = IF waiting[t] THEN [event EXCEPT ![t] = @ + 1] ELSE event
    /\ UNCHANGED <<mutexVars, waiting, pending, signals, pc, waiter, hold>>

\* myst_signal_process at a system call boundary, outside any mutex call
SyscallSignalProcess(t) ==
    /\ pc[t] = "run"
    /\ pending[t]
    /\ hold[t] = 0
    /\ pending' = [pending EXCEPT ![t] = FALSE]
    /\ \E next \in {"run", "exited"} : pc' = [pc EXCEPT ![t] = next]
    /\ UNCHANGED <<mutexVars, waiting, delivering, signals, event, waiter, hold>>

-----------------------------------------------------------------------------
\* the steps a thread takes by itself once it has entered a mutex call
CallStep(t) ==
    \/ LockObtain(t) \/ LockInterrupted(t) \/ LockEnqueue(t)
    \/ SetWaiting(t) \/ TcallWait(t) \/ TcallReturn(t) \/ ClearWaiting(t)
    \/ LockSignalProcess(t) \/ UnlockWake(t)

Next ==
    \E t \in Threads :
        \/ CallStep(t)
        \/ LockCall(t) \/ TryLock(t) \/ Unlock(t)
        \/ DeliverSignal(t) \/ DeliverWake(t) \/ SyscallSignalProcess(t)

\* A thread inside a mutex call keeps running (the host schedules every
\* thread), and a critical section is finite: the owner's last unlock, enabled
\* again and again, is taken in the end.
Fairness ==
    \A t \in Threads : /\ WF_vars(CallStep(t))
                       /\ WF_vars(Unlock(t))
                       /\ SF_vars(Unlock(t) /\ refs = 1)

Spec == Init /\ [][Next]_vars
FairSpec == Spec /\ Fairness

-----------------------------------------------------------------------------
(***************************************************************************)
(* Properties                                                              *)
(***************************************************************************)
\* The types of the variables.
TypeOK ==
    /\ owner \in Threads \cup {NoThread}
    /\ refs \in Nat
    /\ queue \in Seq(Threads)
    /\ event \in [Threads -> Int]
    /\ waiting \in [Threads -> BOOLEAN]
    /\ pending \in [Threads -> BOOLEAN]
    /\ delivering \in SUBSET Threads
    /\ signals \in Nat
    /\ pc \in [Threads -> Locations]
    /\ waiter \in [Threads -> Threads \cup {NoThread}]
    /\ hold \in [Threads -> Nat]

\* Mutual exclusion as the callers see it: two threads never both sit between a
\* lock (or trylock) that returned 0 and its unlock.
MutualExclusion ==
    \A t, u \in Threads : hold[t] > 0 /\ hold[u] > 0 => t = u

\* The recursion count in the mutex is the number of unlocks its owner still
\* owes, so the last unlock, and only the last, frees the mutex.
RefsMatchHolds ==
    \A t \in Threads : hold[t] = IF owner = t THEN refs ELSE 0

\* t is in the queue and cannot stay asleep: it is awake, its event word lets
\* the next myst_tcall_wait return, or an unlock is about to wake it.
Stirring(t) ==
    \/ pc[t] \in {"try", "woken"}
    \/ pc[t] \in {"enter", "wait"} /\ event[t] > 0
    \/ pc[t] = "sleep" /\ event[t] > -1
    \/ \E u \in Threads : pc[u] = "wake" /\ waiter[u] = t

\* No lost wakeup: whenever the mutex is free and threads queue for it, the
\* thread at the front, the only one that may take it, is on its way.  It
\* relates the waiter that unlock picked under the spin lock to what that
\* thread did between the spin lock and its sleep.
NoLostWakeup ==
    owner = NoThread /\ queue # <<>> => Stirring(Head(queue))

\* A thread waits in the queue at most once and only from inside the loop of
\* _mutex_lock: -EINTR, success and exit all leave no stale entry behind.
QueueIsWaiters ==
    /\ \A i, j \in 1..Len(queue) : queue[i] = queue[j] => i = j
    /\ \A i \in 1..Len(queue) : pc[queue[i]] \in Blocking \cup {"try"}
    /\ \A t \in Threads : pc[t] \in Blocking => InQueue(t)

\* Every lock call gets the mutex or ends with its thread, under fair
\* scheduling, finite critical sections and finitely many signals.
LockProgress ==
    \A t \in Threads : pc[t] = "try" ~> (hold[t] > 0 \/ pc[t] = "exited")

\* The mutex implements the lock its callers rely on (module Lock): every step
\* of the detailed mutex, with its spin-locked attempts, sleeps, wakeups and
\* signals, is a grant, a queueing, a giving up or a release of the abstract
\* one, in order of arrival, or changes nothing a caller can see.
L == INSTANCE Lock WITH depth <- hold, line <- queue

LockRefinement == L!Spec

\* The progress the abstract lock promises, that whenever it is free the first in
\* line gets it or gives up, and so every lock call gets the mutex.
LockServed == L!Fairness /\ LockProgress
=============================================================================
