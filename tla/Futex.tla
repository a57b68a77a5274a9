------------------------------- MODULE Futex -------------------------------
(***************************************************************************)
(* The futex system call (kernel/futex.c) on the kernel's condition        *)
(* variables (kernel/cond.c): FUTEX_WAIT with an optional timeout and      *)
(* bitset, FUTEX_WAKE of one or several waiters, FUTEX_REQUEUE, and the    *)
(* signals that interrupt a wait.                                          *)
(*                                                                         *)
(* A condition variable's queue is only touched under its spin lock, so a  *)
(* spin-locked section is one action.  Wakers move the threads they select *)
(* to a queue of their own under the lock and walk it after the lock is    *)
(* released; the field thread->queue stays set until they get there.  The  *)
(* mutex of a futex is the mutex of module Mutex seen from outside: FIFO,  *)
(* recursive, exclusive, and a blocked thread may leave it for a signal.   *)
(***************************************************************************)
EXTENDS Integers, Sequences, FiniteSets, FiniteSetsExt, Functions

CONSTANTS
    Threads,        \* the threads of the process
    NoThread,       \* the NULL thread pointer
    Futexes,        \* the user words in use as futexes
    NoFutex,        \* no futex
    Bits,           \* the bits of a futex bitset
    Kinds,          \* which of "wait", "wake", "release", "requeue" are called
    WaitSets,       \* the bitsets passed to FUTEX_WAIT (_BITSET), none of them empty
    WakeSets,       \* the bitsets passed to FUTEX_WAKE (_BITSET), none of them empty
    Counts,         \* the counts passed to FUTEX_WAKE and FUTEX_REQUEUE
    Pairs,          \* the pairs of futexes passed to FUTEX_REQUEUE
    MaxCalls,       \* bound on futex calls per thread
    MaxTimeouts,    \* bound on the waits that time out
    MaxStrays,      \* bound on the wakeups nobody asked for
    MaxSignals      \* bound on the number of signals delivered

MatchAny == Bits    \* FUTEX_BITSET_MATCH_ANY

VARIABLES
    word,        \* the user word: 0 is the value waiters wait on
    owner,       \* futex->mutex.owner
    refs,        \* futex->mutex.refs
    mqueue,      \* futex->mutex.queue
    cqueue,      \* futex->cond.queue
    onq,         \* thread->queue: "none", or the kind of queue it points to
    qbits,       \* thread->qbitset
    event,       \* *(int*)thread->event
    waiting,     \* thread->signal.waiting_on_event
    pending,     \* the thread has an unblocked pending signal
    delivering,  \* signals between the pending bit and the wake
    pc,          \* where each thread is
    goal,        \* the mutex being locked and where to go with it
    op,          \* the arguments of the current futex call
    ret,         \* the result of the current wait so far
    local,       \* a waker's own queue: the waiters it is going to wake
    moved,       \* a requeuer's own queue: the waiters it is going to requeue
    target,      \* the waiter whose event a waker is about to wake
    crashed,     \* an assert failed: the kernel stopped
    calls, timeouts, strays, signals    \* counters for the bounds

lockVars == <<owner, refs, mqueue>>
queueVars == <<cqueue, onq, qbits>>
signalVars == <<pending, delivering, signals>>
sleepVars == <<event, waiting, timeouts, strays>>
wakerVars == <<local, moved, target>>
callVars == <<op, calls>>
vars == <<word, lockVars, queueVars, signalVars, sleepVars, wakerVars,
          callVars, pc, goal, ret, crashed>>

Locations == {"run", "lock", "blocked", "check", "process", "enqueue",
              "enter", "wait", "sleep", "awake", "select", "pick", "wake",
              "lock2", "requeue", "unlock", "unlock2", "exited"}
WaitLocations == {"enter", "wait", "sleep", "awake"}

NoOp == [kind |-> "none", f |-> NoFutex, f2 |-> NoFutex, n |-> 0, m |-> 0,
         bits |-> {}, timed |-> FALSE]
NoGoal == [f |-> NoFutex, next |-> "run"]

Init ==
    /\ word = [f \in Futexes |-> 0]
    /\ owner = [f \in Futexes |-> NoThread]
    /\ refs = [f \in Futexes |-> 0]
    /\ mqueue = [f \in Futexes |-> <<>>]
    /\ cqueue = [f \in Futexes |-> <<>>]
    /\ onq = [t \in Threads |-> "none"]
    /\ qbits = [t \in Threads |-> {}]
    /\ event = [t \in Threads |-> 0]
    /\ waiting = [t \in Threads |-> FALSE]
    /\ pending = [t \in Threads |-> FALSE]
    /\ delivering = {}
    /\ pc = [t \in Threads |-> "run"]
    /\ goal = [t \in Threads |-> NoGoal]
    /\ op = [t \in Threads |-> NoOp]
    /\ ret = [t \in Threads |-> "ok"]
    /\ local = [t \in Threads |-> <<>>]
    /\ moved = [t \in Threads |-> <<>>]
    /\ target = [t \in Threads |-> NoThread]
    /\ crashed = FALSE
    /\ calls = [t \in Threads |-> 0]
    /\ timeouts = 0
    /\ strays = 0
    /\ signals = 0

\* the part of q at the positions in I, in order
Part(q, I) ==
    [k \in 1..Cardinality(I) |->
        q[CHOOSE i \in I : Cardinality({j \in I : j <= i}) = k]]

\* the threads of U leave the queue
Without(q, U) == Part(q, {i \in 1..Len(q) : q[i] \notin U})

Goto(t, l) == pc' = [pc EXCEPT ![t] = l]

\* start locking the mutex of f, to continue at l with it
GotoLocked(t, f, l) ==
    /\ Goto(t, "lock")
    /\ goal' = [goal EXCEPT ![t] = [f |-> f, next |-> l]]

-----------------------------------------------------------------------------
(* The futex's mutex, as module Mutex shows it *)

\* mutant: the owner is not looked at
MayTakeAlways(t, f) == TRUE

MayTake(t, f) ==
    \/ owner[f] = t
    \/ owner[f] = NoThread /\ (mqueue[f] # <<>> => Head(mqueue[f]) = t)

LockTake(t) ==
    LET f == goal[t].f IN
    /\ pc[t] \in {"lock", "blocked"}
    /\ MayTake(t, f)
    /\ owner' = [owner EXCEPT ![f] = t]
    /\ refs' = [refs EXCEPT ![f] = @ + 1]
    /\ mqueue' = [mqueue EXCEPT ![f] = Without(@, {t})]
    /\ onq' = IF t \in Range(mqueue[f]) THEN [onq EXCEPT ![t] = "none"] ELSE onq
    /\ Goto(t, goal[t].next)
    /\ goal' = [goal EXCEPT ![t] = NoGoal]
    /\ UNCHANGED <<word, cqueue, qbits, signalVars, sleepVars, wakerVars,
                   callVars, ret, crashed>>

\* the mutex is taken: push_back asserts that the thread is in no other queue, before
\* signals are looked at
LockBlock(t) ==
    LET f == goal[t].f IN
    /\ pc[t] = "lock"
    /\ ~MayTake(t, f)
    /\ IF onq[t] = "none"
       THEN /\ ~pending[t]
            /\ mqueue' = [mqueue EXCEPT ![f] = Append(@, t)]
            /\ onq' = [onq EXCEPT ![t] = "mutex"]
            /\ Goto(t, "blocked")
            /\ UNCHANGED crashed
       ELSE /\ crashed' = TRUE
            /\ UNCHANGED <<mqueue, onq, pc>>
    /\ UNCHANGED <<word, owner, refs, cqueue, qbits, signalVars, sleepVars,
                   wakerVars, callVars, goal, ret>>

\* a signal takes the thread out of the queue, which it may have joined in the same
\* step; its handler runs and the thread locks again, or the signal terminates the
\* thread there
LockInterrupted(t) ==
    LET f == goal[t].f IN
    /\ pc[t] \in {"lock", "blocked"}
    /\ pc[t] = "lock" => onq[t] = "none"
    /\ ~MayTake(t, f)
    /\ pending[t]
    /\ mqueue' = [mqueue EXCEPT ![f] = Without(@, {t})]
    /\ onq' = IF t \in Range(mqueue[f]) THEN [onq EXCEPT ![t] = "none"] ELSE onq
    /\ pending' = [pending EXCEPT ![t] = FALSE]
    /\ \E l \in {"lock", "exited"} : Goto(t, l)
    /\ UNCHANGED <<word, owner, refs, cqueue, qbits, delivering, signals,
                   sleepVars, wakerVars, callVars, goal, ret, crashed>>

\* __myst_mutex_unlock of the mutex of f by its owner
Release(f) ==
    /\ refs' = [refs EXCEPT ![f] = @ - 1]
    /\ owner' = IF refs[f] = 1 THEN [owner EXCEPT ![f] = NoThread] ELSE owner
    /\ UNCHANGED mqueue

-----------------------------------------------------------------------------
(* FUTEX_WAIT: myst_futex_wait and _cond_timedwait *)

Call(t, o, f, l) ==
    /\ pc[t] = "run"
    /\ calls[t] < MaxCalls
    /\ o.kind \in Kinds
    /\ calls' = [calls EXCEPT ![t] = @ + 1]
    /\ op' = [op EXCEPT ![t] = o]
    /\ GotoLocked(t, f, l)
    /\ UNCHANGED <<lockVars, queueVars, signalVars, sleepVars, wakerVars,
                   ret, crashed>>

\* only a wait with a timeout can time out
Timed == {b \in BOOLEAN : b => MaxTimeouts > 0}

\* the caller waits while the word is 0
WaitCall(t) ==
    \E f \in Futexes, b \in WaitSets, timed \in Timed :
        /\ Call(t, [NoOp EXCEPT !.kind = "wait", !.f = f, !.bits = b,
                                !.timed = timed], f, "check")
        /\ UNCHANGED word

\* *uaddr is compared under the mutex; mutant: it is not
NeverChanged(f) == TRUE
StillExpected(f) == word[f] = 0

WaitCheck(t) ==
    /\ pc[t] = "check"
    /\ IF StillExpected(op[t].f)
       THEN Goto(t, "process") /\ UNCHANGED ret
       ELSE Goto(t, "unlock") /\ ret' = [ret EXCEPT ![t] = "again"]
    /\ UNCHANGED <<word, lockVars, queueVars, signalVars, sleepVars, wakerVars,
                   callVars, goal, crashed>>

\* myst_cond_timedwait processes pending signals first, with the mutex held
WaitProcess(t) ==
    /\ pc[t] = "process"
    /\ pending' = [pending EXCEPT ![t] = FALSE]
    /\ \/ Goto(t, "enqueue")
       \/ pending[t] /\ Goto(t, "exited")
    /\ UNCHANGED <<word, lockVars, queueVars, delivering, signals, sleepVars,
                   wakerVars, callVars, goal, ret, crashed>>

\* under the cond's spin lock: join its queue and release the mutex
WaitEnqueue(t) ==
    LET f == op[t].f IN
    /\ pc[t] = "enqueue"
    /\ IF onq[t] = "none"
       THEN /\ cqueue' = [cqueue EXCEPT ![f] = Append(@, t)]
            /\ onq' = [onq EXCEPT ![t] = "cond"]
            /\ qbits' = [qbits EXCEPT ![t] = op[t].bits]
            /\ Release(f)
            /\ Goto(t, "enter")
            /\ UNCHANGED crashed
       ELSE /\ crashed' = TRUE
            /\ UNCHANGED <<queueVars, lockVars, pc>>
    /\ UNCHANGED <<word, signalVars, sleepVars, wakerVars, callVars, goal, ret>>

WaitEnter(t) ==
    /\ pc[t] = "enter"
    /\ waiting' = [waiting EXCEPT ![t] = TRUE]
    /\ Goto(t, "wait")
    /\ UNCHANGED <<word, lockVars, queueVars, signalVars, event, timeouts, strays,
                   wakerVars, callVars, goal, ret, crashed>>

\* myst_tcall_wait
TcallWait(t) ==
    /\ pc[t] = "wait"
    /\ event' = [event EXCEPT ![t] = @ - 1]
    /\ Goto(t, IF event[t] = 0 THEN "sleep" ELSE "awake")
    /\ UNCHANGED <<word, lockVars, queueVars, signalVars, waiting, timeouts, strays,
                   wakerVars, callVars, goal, ret, crashed>>

TcallReturn(t) ==
    /\ pc[t] = "sleep"
    /\ event[t] # -1
    /\ Goto(t, "awake")
    /\ UNCHANGED <<word, lockVars, queueVars, signalVars, sleepVars, wakerVars,
                   callVars, goal, ret, crashed>>

\* a word that is still -1 is reset; mutant: it is not
KeepEvent(e) == e
ResetEvent(e) == IF e = -1 THEN 0 ELSE e

\* the host's FUTEX_WAIT times out; the word may have been woken by then
TcallTimeout(t) ==
    /\ pc[t] = "sleep"
    /\ op[t].timed
    /\ timeouts < MaxTimeouts
    /\ timeouts' = timeouts + 1
    /\ event' = [event EXCEPT ![t] = ResetEvent(@)]
    /\ ret' = [ret EXCEPT ![t] = "timedout"]
    /\ Goto(t, "awake")
    /\ UNCHANGED <<word, lockVars, queueVars, signalVars, waiting, strays, wakerVars,
                   callVars, goal, crashed>>

\* a wakeup left over from the mutex, or one the host made up
StrayWake(t) ==
    /\ pc[t] = "sleep"
    /\ event[t] = -1
    /\ strays < MaxStrays
    /\ strays' = strays + 1
    /\ event' = [event EXCEPT ![t] = 0]
    /\ UNCHANGED <<word, lockVars, queueVars, signalVars, waiting, timeouts,
                   wakerVars, callVars, pc, goal, ret, crashed>>

\* thread->queue = NULL; mutant: the field is not cleared
UnhookForgotten(u) == onq
Unhook(u) == [onq EXCEPT ![u] = "none"]

\* myst_thread_queue_remove_thread; mutant: the waiter stays
LeaveForgotten(t, f) == UNCHANGED queueVars
Leave(t, f) ==
    /\ cqueue' = [cqueue EXCEPT ![f] = Without(@, {t})]
    /\ onq' = Unhook(t)
    /\ UNCHANGED qbits

\* under the cond's spin lock again: selected, failed, interrupted, or back to
\* sleep
Recheck(t) ==
    LET f == op[t].f IN
    /\ pc[t] = "awake"
    /\ waiting' = [waiting EXCEPT ![t] = FALSE]
    /\ \/ /\ t \notin Range(cqueue[f])
          /\ GotoLocked(t, f, "unlock")
          /\ UNCHANGED <<queueVars, ret>>
       \/ /\ t \in Range(cqueue[f])
          /\ ret[t] # "ok"
          /\ Leave(t, f)
          /\ GotoLocked(t, f, "unlock")
          /\ UNCHANGED ret
       \/ /\ t \in Range(cqueue[f])
          /\ ret[t] = "ok"
          /\ pending[t]
          /\ Leave(t, f)
          /\ ret' = [ret EXCEPT ![t] = "intr"]
          /\ GotoLocked(t, f, "unlock")
       \/ /\ t \in Range(cqueue[f])
          /\ ret[t] = "ok"
          /\ ~pending[t]
          /\ Goto(t, "enter")
          /\ UNCHANGED <<queueVars, goal, ret>>
    /\ UNCHANGED <<word, lockVars, signalVars, event, timeouts, strays, wakerVars,
                   callVars, crashed>>

-----------------------------------------------------------------------------
(* FUTEX_WAKE: myst_futex_wake, myst_cond_signal and myst_cond_broadcast *)

\* FUTEX_WAKE by itself, or after the caller changed the word ("release")
WakeCall(t) ==
    \/ \E f \in Futexes, b \in WakeSets, n \in Counts :
          /\ Call(t, [NoOp EXCEPT !.kind = "wake", !.f = f, !.bits = b, !.n = n],
                  f, "select")
          /\ UNCHANGED word
    \/ \E f \in Futexes :
          /\ Call(t, [NoOp EXCEPT !.kind = "release", !.f = f,
                                  !.bits = MatchAny, !.n = Cardinality(Threads)],
                  f, "select")
          /\ word' = [word EXCEPT ![f] = 1]

\* the first n of the positions in I
First(I, n) == {i \in I : Cardinality({j \in I : j <= i}) <= n}

\* the positions of the waiters whose bitset meets b
Matching(q, b) == {i \in 1..Len(q) : qbits[q[i]] \cap b # {}}

\* the first n that match; mutant: the bitset of the waiters is not looked at
ChosenIgnoringBits(q, b, n) == Part(q, First(1..Len(q), n))
Chosen(q, b, n) == Part(q, First(Matching(q, b), n))

\* the threads of c leave the queue of f for a queue of the waker's own, or,
\* with myst_cond_signal's plain path, for none
Select(t) ==
    LET f == op[t].f
        c == Chosen(cqueue[f], op[t].bits, op[t].n)
        plain == op[t].n = 1 /\ op[t].bits = MatchAny
    IN
    /\ pc[t] = "select"
    /\ cqueue' = [cqueue EXCEPT ![f] = Without(@, Range(c))]
    /\ onq' = [u \in Threads |-> IF u \in Range(c)
                                 THEN IF plain THEN "none" ELSE "local"
                                 ELSE onq[u]]
    /\ IF plain /\ c # <<>>
       THEN target' = [target EXCEPT ![t] = Head(c)] /\ UNCHANGED local
       ELSE local' = [local EXCEPT ![t] = c] /\ UNCHANGED target
    /\ Goto(t, IF plain /\ c # <<>> THEN "wake" ELSE "pick")
    /\ UNCHANGED <<word, lockVars, qbits, signalVars, sleepVars, moved,
                   callVars, goal, ret, crashed>>

\* next waiter of the waker's own queue: clear its queue field
PickWaiter(t) ==
    /\ pc[t] = "pick"
    /\ IF local[t] # <<>>
       THEN /\ target' = [target EXCEPT ![t] = Head(local[t])]
            /\ onq' = Unhook(Head(local[t]))
            /\ local' = [local EXCEPT ![t] = Tail(@)]
            /\ Goto(t, "wake")
       ELSE /\ Goto(t, IF op[t].kind = "requeue" THEN "requeue" ELSE "unlock")
            /\ UNCHANGED <<target, onq, local>>
    /\ UNCHANGED <<word, lockVars, cqueue, qbits, signalVars, sleepVars, moved,
                   callVars, goal, ret, crashed>>

\* myst_tcall_wake; mutant: only for a thread that already says it is waiting
WakeIfWaiting(u) == IF waiting[u] THEN event[u] + 1 ELSE event[u]
TcallWake(u) == event[u] + 1

WakeWaiter(t) ==
    /\ pc[t] = "wake"
    /\ event' = [event EXCEPT ![target[t]] = TcallWake(target[t])]
    /\ target' = [target EXCEPT ![t] = NoThread]
    /\ Goto(t, "pick")
    /\ UNCHANGED <<word, lockVars, queueVars, signalVars, waiting, timeouts, strays,
                   local, moved, callVars, goal, ret, crashed>>

\* the mutex is released and the call returns
Unlock(t) ==
    /\ pc[t] = "unlock"
    /\ Release(op[t].f)
    /\ IF op[t].kind = "requeue"
       THEN Goto(t, "unlock2") /\ UNCHANGED op
       ELSE Goto(t, "run") /\ op' = [op EXCEPT ![t] = NoOp]
    /\ ret' = [ret EXCEPT ![t] = "ok"]
    /\ UNCHANGED <<word, queueVars, signalVars, sleepVars, local, moved, target,
                   calls, goal, crashed>>

-----------------------------------------------------------------------------
(* FUTEX_REQUEUE: _futex_requeue and myst_cond_requeue *)

RequeueCall(t) ==
    \E p \in Pairs, n, m \in Counts :
        /\ Call(t, [NoOp EXCEPT !.kind = "requeue", !.f = p[1], !.f2 = p[2],
                                !.n = n, !.m = m], p[1], "lock2")
        /\ UNCHANGED word

RequeueLock2(t) ==
    /\ pc[t] = "lock2"
    /\ GotoLocked(t, op[t].f2, "select")
    /\ UNCHANGED <<word, lockVars, queueVars, signalVars, sleepVars, wakerVars,
                   callVars, ret, crashed>>

\* the first n waiters are to be woken, the next m to be requeued
RequeueSelect(t) ==
    LET f == op[t].f
        all == 1..Len(cqueue[f])
        woken == First(all, op[t].n)
        c == Part(cqueue[f], woken)
        d == Part(cqueue[f], First(all \ woken, op[t].m))
    IN
    /\ pc[t] = "select"
    /\ op[t].kind = "requeue"
    /\ cqueue' = [cqueue EXCEPT ![f] = Without(@, Range(c) \cup Range(d))]
    /\ onq' = [u \in Threads |-> IF u \in Range(c) \cup Range(d) THEN "local" ELSE onq[u]]
    /\ local' = [local EXCEPT ![t] = c]
    /\ moved' = [moved EXCEPT ![t] = d]
    /\ Goto(t, "pick")
    /\ UNCHANGED <<word, lockVars, qbits, signalVars, sleepVars, target,
                   callVars, goal, ret, crashed>>

PushAll(q, m) == q \o m

\* under the second cond's spin lock
RequeuePush(t) ==
    LET f2 == op[t].f2 IN
    /\ pc[t] = "requeue"
    /\ cqueue' = [cqueue EXCEPT ![f2] = PushAll(@, moved[t])]
    /\ onq' = [u \in Threads |-> IF u \in Range(moved[t]) THEN "cond" ELSE onq[u]]
    /\ moved' = [moved EXCEPT ![t] = <<>>]
    /\ Goto(t, "unlock")
    /\ UNCHANGED <<word, lockVars, qbits, signalVars, sleepVars, local, target,
                   callVars, goal, ret, crashed>>

Unlock2(t) ==
    /\ pc[t] = "unlock2"
    /\ Release(op[t].f2)
    /\ Goto(t, "run")
    /\ op' = [op EXCEPT ![t] = NoOp]
    /\ UNCHANGED <<word, queueVars, signalVars, sleepVars, wakerVars, calls,
                   goal, ret, crashed>>

-----------------------------------------------------------------------------
(* Signals *)

DeliverSignal(t) ==
    /\ signals < MaxSignals
    /\ pc[t] # "exited"
    /\ t \notin delivering
    /\ pending' = [pending EXCEPT ![t] = TRUE]
    /\ delivering' = delivering \cup {t}
    /\ signals' = signals + 1
    /\ UNCHANGED <<word, lockVars, queueVars, sleepVars, wakerVars, callVars,
                   pc, goal, ret, crashed>>

DeliverWake(t) ==
    /\ t \in delivering
    /\ delivering' = delivering \ {t}
    /\ event' = IF waiting[t] THEN [event EXCEPT ![t] = @ + 1] ELSE event
    /\ UNCHANGED <<word, lockVars, queueVars, pending, signals, waiting,
                   timeouts, strays, wakerVars, callVars, pc, goal, ret, crashed>>

\* myst_signal_process between two system calls
SyscallSignalProcess(t) ==
    /\ pc[t] = "run"
    /\ pending[t]
    /\ pending' = [pending EXCEPT ![t] = FALSE]
    /\ \E l \in {"run", "exited"} : Goto(t, l)
    /\ UNCHANGED <<word, lockVars, queueVars, delivering, signals, sleepVars,
                   wakerVars, callVars, goal, ret, crashed>>

-----------------------------------------------------------------------------
\* what a thread does by itself once it is inside a futex call
CallStep(t) ==
    \/ LockTake(t) \/ LockBlock(t) \/ LockInterrupted(t)
    \/ WaitCheck(t) \/ WaitProcess(t) \/ WaitEnqueue(t) \/ WaitEnter(t)
    \/ TcallWait(t) \/ TcallReturn(t) \/ Recheck(t)
    \/ (op[t].kind # "requeue" /\ Select(t)) \/ PickWaiter(t) \/ WakeWaiter(t)
    \/ Unlock(t)
    \/ RequeueLock2(t) \/ RequeueSelect(t) \/ RequeuePush(t) \/ Unlock2(t)

Next ==
    /\ ~crashed
    /\ \E t \in Threads :
          \/ CallStep(t)
          \/ WaitCall(t) \/ WakeCall(t) \/ RequeueCall(t)
          \/ TcallTimeout(t) \/ StrayWake(t)
          \/ DeliverSignal(t) \/ DeliverWake(t) \/ SyscallSignalProcess(t)

Spec == Init /\ [][Next]_vars

\* the host schedules every thread, so a thread inside a call keeps going
FairSpec == Spec /\ \A t \in Threads : WF_vars(~crashed /\ CallStep(t))

-----------------------------------------------------------------------------
(***************************************************************************)
(* Properties                                                              *)
(***************************************************************************)
\* The types of the variables.
TypeOK ==
    /\ word \in [Futexes -> {0, 1}]
    /\ owner \in [Futexes -> Threads \cup {NoThread}]
    /\ refs \in [Futexes -> 0..2]
    /\ cqueue \in [Futexes -> Seq(Threads)]
    /\ mqueue \in [Futexes -> Seq(Threads)]
    /\ onq \in [Threads -> {"none", "cond", "mutex", "local"}]
    /\ qbits \in [Threads -> SUBSET Bits]
    /\ event \in [Threads -> Int]
    /\ pc \in [Threads -> Locations]
    /\ ret \in [Threads -> {"ok", "again", "timedout", "intr"}]
    /\ target \in [Threads -> Threads \cup {NoThread}]
    /\ \A t \in Threads : event[t] >= -1 /\ (event[t] = -1 => pc[t] = "sleep")

\* What push_back asserts: a thread that is put on a wait queue is on no other
\* one.  Between the two, thread->queue may still point to the local queue of a
\* waker that has released the cond's spin lock.
QueueAssertHolds == ~crashed

\* A thread is in exactly the queues its queue field says, and at most once in
\* all the condition variables' queues together, whatever timeouts, signals,
\* wakes and requeues do.
QueueFieldExact ==
    /\ \A f, g \in Futexes : \A i \in 1..Len(cqueue[f]), j \in 1..Len(cqueue[g]) :
          cqueue[f][i] = cqueue[g][j] => f = g /\ i = j
    /\ \A t \in Threads :
          /\ onq[t] = "cond" <=> \E f \in Futexes : t \in Range(cqueue[f])
          /\ onq[t] = "mutex" <=> \E f \in Futexes : t \in Range(mqueue[f])
          /\ onq[t] = "local" <=> \E u \in Threads : t \in Range(local[u]) \cup Range(moved[u])

\* A thread leaves a futex call with no trace of it in a wait queue.
NoQueuedOutsider ==
    \A t \in Threads : pc[t] \in {"run", "exited"} => onq[t] = "none"

\* No lost wakeup: a thread that was taken off the queue and sleeps is still
\* going to be woken by the waker that took it.
SelectedIsWoken ==
    \A t \in Threads :
        pc[t] = "sleep" /\ event[t] = -1 /\ onq[t] # "cond" =>
            \E u \in Threads : target[u] = t \/ t \in Range(local[u]) \cup Range(moved[u])

\* The futex contract: once a thread has changed the word and its wake call has
\* been through the queue, nobody still waits for the old value: a waiter
\* either saw the new value under the mutex or was in the queue by then.  (The
\* waker may be terminated by a signal before it gets that far.)
NoStaleWaiter ==
    \A f \in Futexes : word[f] = 1 =>
        \A t \in Range(cqueue[f]) : op[t].f = f =>
            \E u \in Threads : /\ op[u].kind = "release" /\ op[u].f = f
                               /\ pc[u] \in {"lock", "blocked", "select", "exited"}

\* A waker uses thread->event of a waiter after the cond's spin lock is
\* released: that thread has not left its wait and gone away by then.
TargetInWait ==
    \A t \in Threads : target[t] # NoThread =>
        pc[target[t]] \in WaitLocations \cup {"lock", "blocked"}

\* A wake of some of the waiters takes them in arrival order and takes only
\* those whose bitset meets the waker's.
SelectInOrder ==
    [][\A t \in Threads : pc[t] = "select" /\ pc'[t] # "select"
                          /\ op[t].kind \in {"wake", "release"} =>
         LET q == cqueue[op[t].f]
             gone == {i \in 1..Len(q) : q[i] \notin Range(cqueue'[op[t].f])}
             match == {i \in 1..Len(q) : qbits[q[i]] \cap op[t].bits # {}}
         IN  /\ gone \subseteq match
             /\ \A i \in gone, j \in match : j < i => j \in gone
             /\ Cardinality(gone) = Min({op[t].n, Cardinality(match)})]_vars

\* A thread whose futex word has changed returns from FUTEX_WAIT.
WaiterReturns ==
    \A t \in Threads, f \in Futexes :
        (word[f] = 1 /\ op[t].f = f /\ op[t].kind = "wait") ~> pc[t] = "run"
=============================================================================
