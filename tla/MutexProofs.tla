---------------------------- MODULE MutexProofs ----------------------------
(***************************************************************************)
(* Proofs about the kernel mutex, for every set of threads and every bound *)
(* on recursion and signals.                                               *)
(***************************************************************************)
EXTENDS Mutex, SequenceTheorems, TLAPS

-----------------------------------------------------------------------------
(* Facts about the queue operations *)

\* Removing a queued thread gives a queue that is one shorter, whose entries
\* are the others in their order (myst_thread_queue_remove_thread).
LEMMA UnlinkProperties ==
    ASSUME NEW q \in Seq(Threads), NEW t \in Threads,
           \E i \in 1..Len(q) : q[i] = t
    PROVE  /\ Unlink(q, t) \in Seq(Threads)
           /\ Len(Unlink(q, t)) = Len(q) - 1
           /\ \E k \in 1..Len(q) :
                 /\ q[k] = t
                 /\ \A i \in 1..(Len(q) - 1) :
                       Unlink(q, t)[i] = IF i < k THEN q[i] ELSE q[i + 1]
<1> DEFINE k == CHOOSE i \in 1..Len(q) : q[i] = t
           f == [i \in 1..(Len(q) - 1) |-> IF i < k THEN q[i] ELSE q[i + 1]]
<1>1. k \in 1..Len(q) /\ q[k] = t
  OBVIOUS
<1> HIDE DEF k
<1>2. Len(q) - 1 \in Nat
  BY <1>1, LenProperties
<1>3. \A i \in 1..(Len(q) - 1) : f[i] \in Threads
  BY <1>1, <1>2, ElementOfSeq
<1>4. f \in Seq(Threads) /\ Len(f) = Len(q) - 1
  BY <1>2, <1>3, IsASeq
<1>5. Unlink(q, t) = f
  BY DEF Unlink, k
<1>6. QED
  BY <1>1, <1>4, <1>5

\* The front of a non-empty queue and what is left when it goes
\* (myst_thread_queue_pop_front).
LEMMA FrontProperties ==
    ASSUME NEW q \in Seq(Threads), q # <<>>
    PROVE  /\ Len(q) \in Nat \ {0}
           /\ Head(q) = q[1]
           /\ Head(q) \in Threads
           /\ Tail(q) \in Seq(Threads)
           /\ Len(Tail(q)) = Len(q) - 1
           /\ \A i \in 1..(Len(q) - 1) : Tail(q)[i] = q[i + 1]
<1>1. Len(q) \in Nat \ {0}
  BY EmptySeq
<1>2. Tail(q) \in Seq(Threads) /\ Len(Tail(q)) = Len(q) - 1
      /\ \A i \in 1..Len(Tail(q)) : Tail(q)[i] = q[i + 1]
  BY HeadTailProperties
<1>3. Head(q) = q[1] /\ Head(q) \in Threads
  BY <1>1, HeadTailProperties
<1>4. QED
  BY <1>1, <1>2, <1>3

-----------------------------------------------------------------------------
(* Types and mutual exclusion *)

\* a locked mutex has a positive recursion count
OwnerHasRefs == owner # NoThread => refs > 0

\* an unlock that is about to wake a waiter has one
WakeHasTarget == \A t \in Threads : pc[t] = "wake" => waiter[t] \in Threads

MutexInv == TypeOK /\ RefsMatchHolds /\ OwnerHasRefs /\ WakeHasTarget

\* one spin-locked attempt that succeeds
LEMMA ObtainPreserves ==
    ASSUME MutexInv, NEW t \in Threads, Obtain(t)
    PROVE  /\ owner' \in Threads \cup {NoThread} /\ refs' \in Nat
           /\ queue' \in Seq(Threads) /\ hold' \in [Threads -> Nat]
           /\ RefsMatchHolds' /\ OwnerHasRefs'
<1>1. t # NoThread
  BY ThreadsAssumption
<1>2. /\ owner \in Threads \cup {NoThread} /\ refs \in Nat
      /\ queue \in Seq(Threads) /\ hold \in [Threads -> Nat]
  BY DEF MutexInv, TypeOK
<1>3. queue # <<>> => Tail(queue) \in Seq(Threads)
  BY <1>2, FrontProperties
<1>4. hold' = [hold EXCEPT ![t] = hold[t] + 1]
  BY DEF Obtain
<1>5. CASE owner = t
  <2>1. owner' = t /\ refs' = refs + 1 /\ queue' = queue
    BY <1>1, <1>5 DEF Obtain
  <2>2. refs > 0 /\ hold' \in [Threads -> Nat]
    BY <1>1, <1>2, <1>4, <1>5 DEF MutexInv, OwnerHasRefs
  <2>3. \A u \in Threads : hold'[u] = IF t = u THEN refs + 1 ELSE 0
    BY <1>2, <1>4, <1>5 DEF MutexInv, RefsMatchHolds
  <2>4. QED
    BY <1>2, <2>1, <2>2, <2>3 DEF RefsMatchHolds, OwnerHasRefs
<1>6. CASE owner = NoThread
  <2>1. owner' = t /\ refs' = 1 /\ queue' \in Seq(Threads)
    BY <1>1, <1>2, <1>3, <1>6 DEF Obtain
  <2>2. \A u \in Threads : hold[u] = 0
    BY <1>6, ThreadsAssumption DEF MutexInv, RefsMatchHolds
  <2>3. \A u \in Threads : hold'[u] = IF t = u THEN 1 ELSE 0
    BY <1>2, <1>4, <2>2
  <2>4. hold' \in [Threads -> Nat]
    BY <1>2, <1>4
  <2>5. QED
    BY <1>2, <2>1, <2>3, <2>4 DEF RefsMatchHolds, OwnerHasRefs
<1>7. QED
  BY <1>5, <1>6 DEF Obtain

LEMMA MutexInvInductive == MutexInv /\ [Next]_vars => MutexInv'
<1> SUFFICES ASSUME MutexInv, [Next]_vars PROVE MutexInv'
  OBVIOUS
<1> USE ThreadsAssumption
<1>1. ASSUME NEW t \in Threads, LockObtain(t) \/ TryLock(t)
      PROVE  MutexInv'
  <2>1. Obtain(t) /\ UNCHANGED <<signalVars, event, waiter>>
    BY <1>1 DEF LockObtain, TryLock
  <2>2. pc' \in [Threads -> Locations]
    BY <1>1 DEF LockObtain, TryLock, MutexInv, TypeOK, Locations
  <2>3. WakeHasTarget'
    BY <1>1 DEF LockObtain, TryLock, MutexInv, TypeOK, WakeHasTarget
  <2>4. QED
    BY <2>1, <2>2, <2>3, ObtainPreserves DEF MutexInv, TypeOK, signalVars
<1>2. ASSUME NEW t \in Threads, Unlock(t)
      PROVE  MutexInv'
  <2>1. queue # <<>> => Head(queue) \in Threads
    BY FrontProperties DEF MutexInv, TypeOK
  <2>2. waiter' \in [Threads -> Threads \cup {NoThread}]
    BY <1>2, <2>1 DEF MutexInv, TypeOK, Unlock
  <2>3. pc' \in [Threads -> Locations]
    BY <1>2 DEF MutexInv, TypeOK, Unlock, Locations
  <2>4. /\ owner' \in Threads \cup {NoThread} /\ refs' \in Nat
        /\ hold' \in [Threads -> Nat] /\ RefsMatchHolds' /\ OwnerHasRefs'
    BY <1>2 DEF MutexInv, TypeOK, Unlock, RefsMatchHolds, OwnerHasRefs
  <2>5. WakeHasTarget'
    BY <1>2, <2>1 DEF MutexInv, TypeOK, Unlock, WakeHasTarget
  <2>6. QED
    BY <1>2, <2>2, <2>3, <2>4, <2>5 DEF MutexInv, TypeOK, Unlock, signalVars
<1>3. ASSUME NEW t \in Threads, LockInterrupted(t) \/ LockEnqueue(t)
      PROVE  MutexInv'
  <2>1. queue' \in Seq(Threads)
    <3>1. queue \in Seq(Threads)
      BY DEF MutexInv, TypeOK
    <3>2. InQueue(t) => Unlink(queue, t) \in Seq(Threads)
      BY <3>1, UnlinkProperties DEF InQueue
    <3>3. Append(queue, t) \in Seq(Threads)
      BY <3>1, AppendProperties
    <3>4. QED
      BY <1>3, <3>1, <3>2, <3>3 DEF LockInterrupted, LockEnqueue
  <2>2. pc' \in [Threads -> Locations]
    BY <1>3 DEF MutexInv, TypeOK, LockInterrupted, LockEnqueue, Locations,
                Blocking
  <2>3. UNCHANGED <<owner, refs, signalVars, event, waiter, hold>>
    BY <1>3 DEF LockInterrupted, LockEnqueue
  <2>4. WakeHasTarget'
    BY <1>3 DEF MutexInv, TypeOK, LockInterrupted, LockEnqueue, WakeHasTarget
  <2>5. QED
    BY <2>1, <2>2, <2>3, <2>4 DEF MutexInv, TypeOK, signalVars,
                                  RefsMatchHolds, OwnerHasRefs
<1>4. ASSUME NEW t \in Threads, LockCall(t) \/ TcallReturn(t) \/ TcallWait(t)
      PROVE  MutexInv'
  <2>1. pc' \in [Threads -> Locations]
    BY <1>4 DEF MutexInv, TypeOK, LockCall, TcallReturn, TcallWait, Locations,
                Blocking
  <2>2. event' \in [Threads -> Int]
    BY <1>4 DEF MutexInv, TypeOK, LockCall, TcallReturn, TcallWait
  <2>3. UNCHANGED <<mutexVars, signalVars, waiter, hold>>
    BY <1>4 DEF LockCall, TcallReturn, TcallWait
  <2>4. WakeHasTarget'
    BY <1>4 DEF MutexInv, TypeOK, LockCall, TcallReturn, TcallWait,
                WakeHasTarget
  <2>5. QED
    BY <2>1, <2>2, <2>3, <2>4 DEF MutexInv, TypeOK, mutexVars, signalVars,
                                  RefsMatchHolds, OwnerHasRefs
<1>5. ASSUME NEW t \in Threads, SetWaiting(t) \/ ClearWaiting(t)
      PROVE  MutexInv'
  <2>1. pc' \in [Threads -> Locations]
    BY <1>5 DEF MutexInv, TypeOK, SetWaiting, ClearWaiting, Locations, Blocking
  <2>2. waiting' \in [Threads -> BOOLEAN]
    BY <1>5 DEF MutexInv, TypeOK, SetWaiting, ClearWaiting
  <2>3. UNCHANGED <<mutexVars, pending, delivering, signals, event, waiter, hold>>
    BY <1>5 DEF SetWaiting, ClearWaiting
  <2>4. WakeHasTarget'
    BY <1>5 DEF MutexInv, TypeOK, SetWaiting, ClearWaiting,
                WakeHasTarget
  <2>5. QED
    BY <2>1, <2>2, <2>3, <2>4 DEF MutexInv, TypeOK, mutexVars,
                                  RefsMatchHolds, OwnerHasRefs
<1>6. ASSUME NEW t \in Threads, LockSignalProcess(t) \/ SyscallSignalProcess(t)
      PROVE  MutexInv'
  <2>1. pc' \in [Threads -> Locations]
    BY <1>6 DEF MutexInv, TypeOK, LockSignalProcess, SyscallSignalProcess,
                Locations
  <2>2. pending' \in [Threads -> BOOLEAN]
    BY <1>6 DEF MutexInv, TypeOK, LockSignalProcess, SyscallSignalProcess
  <2>3. UNCHANGED <<mutexVars, waiting, delivering, signals, event, waiter, hold>>
    BY <1>6 DEF LockSignalProcess, SyscallSignalProcess
  <2>4. WakeHasTarget'
    BY <1>6 DEF MutexInv, TypeOK, LockSignalProcess, SyscallSignalProcess,
                WakeHasTarget
  <2>5. QED
    BY <2>1, <2>2, <2>3, <2>4 DEF MutexInv, TypeOK, mutexVars,
                                  RefsMatchHolds, OwnerHasRefs
<1>7. ASSUME NEW t \in Threads, UnlockWake(t)
      PROVE  MutexInv'
  <2>1. pc' \in [Threads -> Locations]
    BY <1>7 DEF MutexInv, TypeOK, UnlockWake, Locations
  <2>2. event' \in [Threads -> Int]
    <3>1. waiter[t] \in Threads
      BY <1>7 DEF MutexInv, UnlockWake, WakeHasTarget
    <3>2. QED
      BY <1>7, <3>1 DEF MutexInv, TypeOK, UnlockWake
  <2>3. waiter' \in [Threads -> Threads \cup {NoThread}]
    BY <1>7 DEF MutexInv, TypeOK, UnlockWake
  <2>4. UNCHANGED <<mutexVars, signalVars, hold>>
    BY <1>7 DEF UnlockWake
  <2>5. WakeHasTarget'
    BY <1>7 DEF MutexInv, TypeOK, UnlockWake, WakeHasTarget
  <2>6. QED
    BY <2>1, <2>2, <2>3, <2>4, <2>5 DEF MutexInv, TypeOK, mutexVars,
                             signalVars, RefsMatchHolds, OwnerHasRefs
<1>8. ASSUME NEW t \in Threads, DeliverSignal(t) \/ DeliverWake(t)
      PROVE  MutexInv'
  <2>1. event' \in [Threads -> Int]
    BY <1>8 DEF MutexInv, TypeOK, DeliverSignal, DeliverWake
  <2>2. pending' \in [Threads -> BOOLEAN]
    BY <1>8 DEF MutexInv, TypeOK, DeliverSignal, DeliverWake
  <2>3. delivering' \in SUBSET Threads /\ signals' \in Nat
    BY <1>8 DEF MutexInv, TypeOK, DeliverSignal, DeliverWake
  <2>4. UNCHANGED <<mutexVars, waiting, pc, waiter, hold>>
    BY <1>8 DEF DeliverSignal, DeliverWake
  <2>5. QED
    BY <2>1, <2>2, <2>3, <2>4 DEF MutexInv, TypeOK, mutexVars, RefsMatchHolds,
                                  OwnerHasRefs, WakeHasTarget
<1>9. CASE UNCHANGED vars
  BY <1>9 DEF MutexInv, TypeOK, vars, RefsMatchHolds, OwnerHasRefs,
              WakeHasTarget
<1>10. QED
  BY <1>1, <1>2, <1>3, <1>4, <1>5, <1>6, <1>7, <1>8, <1>9 DEF Next, CallStep

\* Every behaviour of the mutex code keeps the variables in their types and the
\* recursion count equal to the unlocks its owner owes.
THEOREM MutexInvariant == Spec => []MutexInv
<1>1. Init => MutexInv
  BY ThreadsAssumption, EmptySeq DEF Init, MutexInv, TypeOK, RefsMatchHolds,
     OwnerHasRefs, WakeHasTarget, Locations
<1>2. QED
  BY <1>1, MutexInvInductive, PTL DEF Spec

\* The variables of the mutex keep their types: its recursion count is never negative and
\* its queue holds threads.
THEOREM TypeCorrect == Spec => []TypeOK
<1>1. MutexInv => TypeOK
  BY DEF MutexInv
<1>2. QED
  BY <1>1, MutexInvariant, PTL

\* Two threads are never both inside a critical section of the mutex, whatever
\* trylock, recursion, -EINTR retries and stray wakeups do.
THEOREM MutexExclusion == Spec => []MutualExclusion
<1>1. MutexInv => MutualExclusion
  BY DEF MutexInv, RefsMatchHolds, MutualExclusion
<1>2. QED
  BY <1>1, MutexInvariant, PTL

-----------------------------------------------------------------------------
(* The wait queue *)

\* the owner does not wait for its own mutex
OwnerNotQueued == \A i \in 1..Len(queue) : queue[i] # owner

QueueInv == QueueIsWaiters /\ OwnerNotQueued

\* the actions that change neither the queue nor, as far as the queue is
\* concerned, where a thread is
LEMMA QueueStable ==
    ASSUME MutexInv, QueueIsWaiters, queue' = queue,
           \A t \in Threads : \/ pc'[t] = pc[t]
                              \/ /\ pc[t] \in Blocking \cup {"try"}
                                 /\ pc'[t] \in Blocking \cup {"try"}
                                 /\ pc'[t] \in Blocking => pc[t] \in Blocking
                              \/ /\ pc[t] \notin Blocking \cup {"try"}
                                 /\ pc'[t] \notin Blocking
    PROVE  QueueIsWaiters'
<1>1. \A i \in 1..Len(queue) : queue[i] \in Threads
  BY ElementOfSeq DEF MutexInv, TypeOK
<1>2. QED
  BY <1>1 DEF QueueIsWaiters, InQueue

\* a thread leaves the queue: the others stay, still once each
LEMMA QueueLeaves ==
    ASSUME MutexInv, QueueIsWaiters, NEW t \in Threads,
           pc[t] = "try", InQueue(t) => queue' = Unlink(queue, t),
           ~InQueue(t) => queue' = queue,
           pc' = [pc EXCEPT ![t] = "eintr"]
    PROVE  QueueIsWaiters'
<1>1. queue \in Seq(Threads) /\ Len(queue) \in Nat
  BY LenProperties DEF MutexInv, TypeOK
<1>2. \A i \in 1..Len(queue) : queue[i] \in Threads
  BY <1>1, ElementOfSeq
<1>3. pc \in [Threads -> Locations] /\ "try" \notin Blocking
      /\ "eintr" \notin Blocking
  BY DEF MutexInv, TypeOK, Blocking
<1>4. CASE ~InQueue(t)
  <2>1. \A i \in 1..Len(queue) : queue[i] # t
    BY <1>4 DEF InQueue
  <2>2. QED
    BY <1>2, <1>3, <1>4, <2>1 DEF QueueIsWaiters, InQueue
<1>5. CASE InQueue(t)
  <2>1. PICK k \in 1..Len(queue) :
            /\ queue[k] = t
            /\ \A i \in 1..(Len(queue) - 1) :
                  queue'[i] = IF i < k THEN queue[i] ELSE queue[i + 1]
    <3>1. queue' = Unlink(queue, t) /\ \E i \in 1..Len(queue) : queue[i] = t
      BY <1>5 DEF InQueue
    <3>2. \E k \in 1..Len(queue) :
             /\ queue[k] = t
             /\ \A i \in 1..(Len(queue) - 1) :
                   Unlink(queue, t)[i] = IF i < k THEN queue[i] ELSE queue[i + 1]
      BY <1>1, <3>1, UnlinkProperties
    <3>3. QED
      BY <3>1, <3>2, Zenon
  <2>2. Len(queue') = Len(queue) - 1
    BY <1>1, <1>5, UnlinkProperties DEF InQueue
  <2>3. \A i, j \in 1..Len(queue) : queue[i] = queue[j] => i = j
    BY DEF QueueIsWaiters
  <2>4. \A i \in 1..Len(queue') :
            queue'[i] \in {queue[j] : j \in 1..Len(queue) \ {k}}
    BY <1>1, <2>1, <2>2
  <2>5. \A i, j \in 1..Len(queue') : queue'[i] = queue'[j] => i = j
    <3>1. SUFFICES ASSUME NEW i \in 1..Len(queue'), NEW j \in 1..Len(queue'),
                          queue'[i] = queue'[j]
                   PROVE  i = j
      OBVIOUS
    <3> DEFINE o(n) == IF n < k THEN n ELSE n + 1
    <3>2. queue'[i] = queue[o(i)] /\ queue'[j] = queue[o(j)]
      BY <1>1, <2>1, <2>2
    <3>3. o(i) \in 1..Len(queue) /\ o(j) \in 1..Len(queue)
      BY <1>1, <2>2
    <3>4. o(i) = o(j)
      BY <2>3, <3>1, <3>2, <3>3
    <3>5. QED
      BY <1>1, <2>2, <3>4
  <2>6. \A i \in 1..Len(queue') : pc'[queue'[i]] \in Blocking \cup {"try"}
    BY <1>2, <1>3, <2>1, <2>3, <2>4 DEF QueueIsWaiters
  <2>7. ASSUME NEW u \in Threads, pc'[u] \in Blocking
        PROVE  InQueue(u)'
    <3>1. u # t /\ pc[u] \in Blocking
      BY <1>3, <2>7
    <3>2. PICK n \in 1..Len(queue) : queue[n] = u
      BY <3>1 DEF QueueIsWaiters, InQueue
    <3>3. n # k
      BY <2>1, <3>1, <3>2
    <3>4. CASE n < k
      <4>1. n \in 1..(Len(queue) - 1) /\ queue'[n] = u
        BY <1>1, <2>1, <3>2, <3>4
      <4>2. QED
        BY <2>2, <4>1 DEF InQueue
    <3>5. CASE n > k
      <4>1. n - 1 \in 1..(Len(queue) - 1) /\ queue'[n - 1] = u
        BY <1>1, <2>1, <3>2, <3>5
      <4>2. QED
        BY <2>2, <4>1 DEF InQueue
    <3>6. QED
      BY <1>1, <3>3, <3>4, <3>5
  <2>8. QED
    BY <2>5, <2>6, <2>7 DEF QueueIsWaiters
<1>6. QED
  BY <1>4, <1>5

\* a thread joins the queue, unless it is there already
LEMMA QueueJoins ==
    ASSUME MutexInv, QueueIsWaiters, NEW t \in Threads, LockEnqueue(t)
    PROVE  QueueIsWaiters'
<1>1. queue \in Seq(Threads) /\ Len(queue) \in Nat
  BY LenProperties DEF MutexInv, TypeOK
<1>2. \A i \in 1..Len(queue) : queue[i] \in Threads
  BY <1>1, ElementOfSeq
<1>3. /\ pc \in [Threads -> Locations] /\ "enter" \in Blocking
      /\ pc' = [pc EXCEPT ![t] = "enter"] /\ pc[t] = "try"
  BY DEF MutexInv, TypeOK, Blocking, LockEnqueue
<1>4. CASE InQueue(t)
  <2>1. queue' = queue
    BY <1>4 DEF LockEnqueue
  <2>2. QED
    BY <1>2, <1>3, <1>4, <2>1 DEF QueueIsWaiters, InQueue
<1>5. CASE ~InQueue(t)
  <2>1. /\ Len(queue') = Len(queue) + 1
        /\ \A i \in 1..Len(queue) : queue'[i] = queue[i]
        /\ queue'[Len(queue) + 1] = t
    BY <1>1, <1>5, AppendProperties DEF LockEnqueue
  <2>2. \A i \in 1..Len(queue) : queue[i] # t
    BY <1>5 DEF InQueue
  <2>3. \A i, j \in 1..Len(queue') : queue'[i] = queue'[j] => i = j
    BY <1>1, <2>1, <2>2 DEF QueueIsWaiters
  <2>4. \A i \in 1..Len(queue') : pc'[queue'[i]] \in Blocking \cup {"try"}
    BY <1>1, <1>2, <1>3, <2>1 DEF QueueIsWaiters
  <2>5. \A u \in Threads : pc'[u] \in Blocking => InQueue(u)'
    BY <1>1, <1>3, <2>1 DEF QueueIsWaiters, InQueue
  <2>6. QED
    BY <2>3, <2>4, <2>5 DEF QueueIsWaiters
<1>6. QED
  BY <1>4, <1>5

\* the front of the queue takes the mutex
LEMMA QueueObtain ==
    ASSUME MutexInv, QueueInv, NEW t \in Threads, Obtain(t),
           \/ pc[t] = "try" /\ pc' = [pc EXCEPT ![t] = "run"]
           \/ pc[t] = "run" /\ pc' = pc
    PROVE  QueueInv'
<1>1. queue \in Seq(Threads) /\ Len(queue) \in Nat
  BY LenProperties DEF MutexInv, TypeOK
<1>2. \A i \in 1..Len(queue) : queue[i] \in Threads
  BY <1>1, ElementOfSeq
<1>3. /\ pc \in [Threads -> Locations] /\ pc'[t] = "run"
      /\ \A u \in Threads \ {t} : pc'[u] = pc[u]
      /\ "run" \notin Blocking /\ pc[t] \notin Blocking
  BY DEF MutexInv, TypeOK, Blocking
<1>4. owner' = t
  BY DEF Obtain
<1>5. CASE queue' = queue /\ ~InQueue(t)
  <2>1. \A i \in 1..Len(queue) : queue[i] # t
    BY <1>5 DEF InQueue
  <2>2. QED
    BY <1>2, <1>3, <1>5, <2>1, <1>4 DEF QueueInv, QueueIsWaiters, InQueue,
                                        OwnerNotQueued
<1>6. CASE queue # <<>> /\ Head(queue) = t /\ queue' = Tail(queue)
  <2>1. /\ Len(queue) > 0 /\ queue[1] = t /\ Len(queue') = Len(queue) - 1
        /\ \A i \in 1..(Len(queue) - 1) : queue'[i] = queue[i + 1]
    BY <1>1, <1>6, FrontProperties
  <2>2. \A i, j \in 1..Len(queue) : queue[i] = queue[j] => i = j
    BY DEF QueueInv, QueueIsWaiters
  <2>3. \A i, j \in 1..Len(queue') : queue'[i] = queue'[j] => i = j
    BY <1>1, <2>1, <2>2
  <2>4. \A i \in 1..Len(queue') : pc'[queue'[i]] \in Blocking \cup {"try"}
    BY <1>1, <1>2, <1>3, <2>1, <2>2 DEF QueueInv, QueueIsWaiters
  <2>5. ASSUME NEW u \in Threads, pc'[u] \in Blocking
        PROVE  InQueue(u)'
    <3>1. u # t /\ pc[u] \in Blocking
      BY <1>3, <2>5
    <3>2. PICK n \in 1..Len(queue) : queue[n] = u
      BY <3>1 DEF QueueInv, QueueIsWaiters, InQueue
    <3>3. n # 1
      BY <2>1, <3>1, <3>2
    <3>4. n - 1 \in 1..Len(queue') /\ queue'[n - 1] = u
      BY <1>1, <2>1, <3>2, <3>3
    <3>5. QED
      BY <3>4 DEF InQueue
  <2>6. OwnerNotQueued'
    BY <1>1, <1>4, <2>1, <2>2 DEF OwnerNotQueued
  <2>7. QED
    BY <2>3, <2>4, <2>5, <2>6 DEF QueueInv, QueueIsWaiters
<1>7. QED
  <2>1. CASE owner = t
    BY <1>5, <2>1, ThreadsAssumption DEF Obtain, QueueInv, OwnerNotQueued, InQueue
  <2>2. CASE owner = NoThread /\ queue = <<>>
    BY <1>5, <2>2, EmptySeq, ThreadsAssumption DEF Obtain, InQueue
  <2>3. CASE owner = NoThread /\ queue # <<>>
    BY <1>6, <2>3, ThreadsAssumption DEF Obtain
  <2>4. QED
    BY <2>1, <2>2, <2>3 DEF Obtain

LEMMA QueueInvInductive == MutexInv /\ QueueInv /\ [Next]_vars => QueueInv'
<1> SUFFICES ASSUME MutexInv, QueueInv, [Next]_vars PROVE QueueInv'
  OBVIOUS
<1>1. queue \in Seq(Threads) /\ Len(queue) \in Nat
  BY LenProperties DEF MutexInv, TypeOK
<1>2. pc \in [Threads -> Locations]
  BY DEF MutexInv, TypeOK
<1>3. ASSUME NEW t \in Threads, LockObtain(t) \/ TryLock(t)
      PROVE  QueueInv'
  BY <1>3, QueueObtain DEF LockObtain, TryLock
<1>4. ASSUME NEW t \in Threads, LockInterrupted(t)
      PROVE  QueueInv'
  <2>1. QueueIsWaiters'
    BY <1>4, QueueLeaves DEF LockInterrupted, QueueInv
  <2>2. \A i \in 1..Len(queue') : \E j \in 1..Len(queue) : queue'[i] = queue[j]
    <3>1. CASE ~InQueue(t)
      BY <1>4, <3>1 DEF LockInterrupted
    <3>2. CASE InQueue(t)
      <4>1. /\ queue' = Unlink(queue, t)
            /\ \E i \in 1..Len(queue) : queue[i] = t
        BY <1>4, <3>2 DEF LockInterrupted, InQueue
      <4>2. /\ Len(queue') = Len(queue) - 1
            /\ \E k \in 1..Len(queue) : \A i \in 1..(Len(queue) - 1) :
                  queue'[i] = IF i < k THEN queue[i] ELSE queue[i + 1]
        BY <1>1, <4>1, UnlinkProperties
      <4>3. QED
        BY <1>1, <4>2
    <3>3. QED
      BY <3>1, <3>2
  <2>3. OwnerNotQueued'
    BY <1>4, <2>2 DEF LockInterrupted, QueueInv, OwnerNotQueued
  <2>4. QED
    BY <2>1, <2>3 DEF QueueInv
<1>5. ASSUME NEW t \in Threads, LockEnqueue(t)
      PROVE  QueueInv'
  <2>1. QueueIsWaiters'
    BY <1>5, QueueJoins DEF QueueInv
  <2>2. owner' = owner /\ t # owner
    BY <1>5 DEF LockEnqueue, MayObtain
  <2>3. CASE InQueue(t)
    BY <1>5, <2>1, <2>2, <2>3 DEF LockEnqueue, QueueInv, OwnerNotQueued
  <2>4. CASE ~InQueue(t)
    <3>1. /\ Len(queue') = Len(queue) + 1
          /\ \A i \in 1..Len(queue) : queue'[i] = queue[i]
          /\ queue'[Len(queue) + 1] = t
      BY <1>1, <1>5, <2>4, AppendProperties DEF LockEnqueue
    <3>2. QED
      BY <1>1, <2>1, <2>2, <3>1 DEF QueueInv, OwnerNotQueued
  <2>5. QED
    BY <2>3, <2>4
<1>6. ASSUME NEW t \in Threads, Unlock(t)
      PROVE  QueueInv'
  <2>1. QueueIsWaiters'
    BY <1>2, <1>6, QueueStable DEF Unlock, QueueInv, Blocking
  <2>2. \A i \in 1..Len(queue) : queue[i] \in Threads
    BY <1>1, ElementOfSeq
  <2>3. queue' = queue /\ (owner' = owner \/ owner' = NoThread)
    BY <1>6 DEF Unlock
  <2>4. QED
    BY <2>1, <2>2, <2>3, ThreadsAssumption DEF QueueInv, OwnerNotQueued
<1>7. ASSUME NEW t \in Threads,
             \/ LockCall(t) \/ SetWaiting(t) \/ TcallWait(t)
             \/ TcallReturn(t) \/ ClearWaiting(t) \/ LockSignalProcess(t)
             \/ UnlockWake(t) \/ SyscallSignalProcess(t)
      PROVE  QueueInv'
  <2>1. queue' = queue /\ owner' = owner
    BY <1>7 DEF LockCall, SetWaiting, TcallWait, TcallReturn, ClearWaiting,
       LockSignalProcess, UnlockWake, SyscallSignalProcess, mutexVars
  <2>2. PICK next \in Locations :
            /\ pc' = [pc EXCEPT ![t] = next]
            /\ \/ pc[t] = next
               \/ /\ pc[t] \in Blocking /\ next \in Blocking \cup {"try"}
               \/ /\ pc[t] \in {"run", "eintr", "wake"}
                  /\ next \in {"run", "try", "exited"}
    BY <1>2, <1>7 DEF LockCall, SetWaiting, TcallWait, TcallReturn,
       ClearWaiting, LockSignalProcess, UnlockWake, SyscallSignalProcess,
       Locations, Blocking
  <2>3. QueueIsWaiters'
    BY <1>2, <2>1, <2>2, QueueStable DEF QueueInv, Blocking
  <2>4. QED
    BY <2>1, <2>3 DEF QueueInv, OwnerNotQueued
<1>8. ASSUME NEW t \in Threads, DeliverSignal(t) \/ DeliverWake(t)
      PROVE  QueueInv'
  BY <1>8, QueueStable DEF DeliverSignal, DeliverWake, mutexVars, QueueInv,
     OwnerNotQueued
<1>9. CASE UNCHANGED vars
  BY <1>9, QueueStable DEF vars, QueueInv, OwnerNotQueued
<1>10. QED
  BY <1>3, <1>4, <1>5, <1>6, <1>7, <1>8, <1>9 DEF Next, CallStep

\* A thread is queued for the mutex at most once, only from inside the loop of
\* _mutex_lock, and never while it owns it: success, -EINTR and exit leave no
\* stale entry behind, however signals race with the queue.
THEOREM MutexQueue == Spec => []QueueIsWaiters
<1>1. Init => QueueInv
  BY EmptySeq DEF Init, QueueInv, QueueIsWaiters, OwnerNotQueued, Blocking
<1>2. QueueInv => QueueIsWaiters
  BY DEF QueueInv
<1>3. QED
  BY <1>1, <1>2, MutexInvariant, QueueInvInductive, PTL DEF Spec

-----------------------------------------------------------------------------
(* No lost wakeup *)

\* the event word is -1 only while its thread sleeps on it
EventInv ==
    \A t \in Threads : event[t] >= -1 /\ (event[t] = -1 => pc[t] = "sleep")

LEMMA EventInvInductive == MutexInv /\ EventInv /\ [Next]_vars => EventInv'
<1> SUFFICES ASSUME MutexInv, EventInv, [Next]_vars PROVE EventInv'
  OBVIOUS
<1>1. /\ pc \in [Threads -> Locations] /\ event \in [Threads -> Int]
      /\ waiter \in [Threads -> Threads \cup {NoThread}]
  BY DEF MutexInv, TypeOK
<1>2. ASSUME NEW t \in Threads,
             \/ LockObtain(t) \/ LockInterrupted(t) \/ LockEnqueue(t)
             \/ SetWaiting(t) \/ ClearWaiting(t) \/ LockSignalProcess(t)
             \/ LockCall(t) \/ TryLock(t) \/ Unlock(t)
             \/ SyscallSignalProcess(t) \/ DeliverSignal(t)
      PROVE  EventInv'
  <2>1. event' = event
    BY <1>2 DEF LockObtain, LockInterrupted, LockEnqueue, SetWaiting,
       ClearWaiting, LockSignalProcess, LockCall, TryLock, Unlock,
       SyscallSignalProcess, DeliverSignal
  <2>2. \A u \in Threads : pc[u] = "sleep" => pc'[u] = "sleep"
    BY <1>1, <1>2 DEF LockObtain, LockInterrupted, LockEnqueue, SetWaiting,
       ClearWaiting, LockSignalProcess, LockCall, TryLock, Unlock,
       SyscallSignalProcess, DeliverSignal
  <2>3. QED
    BY <2>1, <2>2 DEF EventInv
<1>3. ASSUME NEW t \in Threads, TcallWait(t) \/ TcallReturn(t)
      PROVE  EventInv'
  BY <1>1, <1>3 DEF TcallWait, TcallReturn, EventInv
<1>4. ASSUME NEW t \in Threads, UnlockWake(t)
      PROVE  EventInv'
  <2>1. waiter[t] \in Threads
    BY <1>4 DEF MutexInv, WakeHasTarget, UnlockWake
  <2>2. QED
    BY <1>1, <1>4, <2>1 DEF UnlockWake, EventInv
<1>5. ASSUME NEW t \in Threads, DeliverWake(t)
      PROVE  EventInv'
  BY <1>1, <1>5 DEF DeliverWake, EventInv
<1>6. CASE UNCHANGED vars
  BY <1>6 DEF vars, EventInv
<1>7. QED
  BY <1>2, <1>3, <1>4, <1>5, <1>6 DEF Next, CallStep

\* a thread that is on its way stays on its way until it leaves the queue
LEMMA StirringStable ==
    ASSUME MutexInv, EventInv, NEW h \in Threads, pc[h] \in Blocking \cup {"try"},
           Stirring(h), NEW t \in Threads,
           \/ SetWaiting(t) \/ TcallWait(t) \/ TcallReturn(t)
           \/ ClearWaiting(t) \/ LockSignalProcess(t) \/ UnlockWake(t)
           \/ LockCall(t) \/ SyscallSignalProcess(t)
           \/ DeliverSignal(t) \/ DeliverWake(t)
           \/ (h # t /\ (LockInterrupted(t) \/ LockEnqueue(t)))
    PROVE  Stirring(h)'
<1>1. /\ pc \in [Threads -> Locations] /\ event \in [Threads -> Int]
      /\ waiter \in [Threads -> Threads \cup {NoThread}]
  BY DEF MutexInv, TypeOK
<1>2. event[h] >= -1 /\ (event[h] = -1 => pc[h] = "sleep")
  BY DEF EventInv
<1>3. CASE SetWaiting(t) \/ TcallWait(t) \/ TcallReturn(t) \/ ClearWaiting(t)
  <2>1. \A u \in Threads : pc[u] = "wake" => pc'[u] = "wake" /\ waiter' = waiter
    BY <1>1, <1>3 DEF SetWaiting, TcallWait, TcallReturn, ClearWaiting
  <2>2. CASE \E u \in Threads : pc[u] = "wake" /\ waiter[u] = h
    BY <2>1, <2>2 DEF Stirring
  <2>3. CASE \/ pc[h] \in {"try", "woken"}
             \/ pc[h] \in {"enter", "wait"} /\ event[h] > 0
             \/ pc[h] = "sleep" /\ event[h] > -1
    BY <1>1, <1>3, <2>3 DEF SetWaiting, TcallWait, TcallReturn, ClearWaiting,
                            Stirring
  <2>4. QED
    BY <2>2, <2>3 DEF Stirring
<1>4. CASE \/ LockSignalProcess(t) \/ LockCall(t) \/ SyscallSignalProcess(t)
           \/ DeliverSignal(t) \/ (h # t /\ (LockInterrupted(t) \/ LockEnqueue(t)))
  <2>1. event' = event /\ waiter' = waiter /\ pc'[h] = pc[h]
    BY <1>1, <1>4 DEF LockSignalProcess, LockCall, SyscallSignalProcess,
       DeliverSignal, LockInterrupted, LockEnqueue, Blocking
  <2>2. \A u \in Threads : pc[u] = "wake" => pc'[u] = "wake"
    BY <1>1, <1>4 DEF LockSignalProcess, LockCall, SyscallSignalProcess,
       DeliverSignal, LockInterrupted, LockEnqueue
  <2>3. QED
    BY <2>1, <2>2 DEF Stirring
<1>5. CASE UnlockWake(t)
  <2>1. waiter[t] \in Threads /\ t # h
    BY <1>5 DEF MutexInv, WakeHasTarget, UnlockWake, Blocking
  <2>2. /\ pc'[h] = pc[h]
        /\ \A u \in Threads \ {t} : pc'[u] = pc[u] /\ waiter'[u] = waiter[u]
    BY <1>1, <1>5, <2>1 DEF UnlockWake
  <2>3. CASE waiter[t] = h
    <3>1. event'[h] = event[h] + 1
      BY <1>1, <1>5, <2>3 DEF UnlockWake
    <3>2. QED
      BY <1>1, <1>2, <2>2, <3>1 DEF Stirring, Blocking
  <2>4. CASE waiter[t] # h
    <3>1. event'[h] = event[h]
      BY <1>1, <1>5, <2>1, <2>4 DEF UnlockWake
    <3>2. QED
      BY <2>2, <2>4, <3>1 DEF Stirring
  <2>5. QED
    BY <2>3, <2>4
<1>6. CASE DeliverWake(t)
  <2>1. pc' = pc /\ waiter' = waiter /\ event'[h] >= event[h] /\ event'[h] \in Int
    BY <1>1, <1>6 DEF DeliverWake
  <2>2. QED
    BY <1>1, <2>1 DEF Stirring
<1>7. QED
  BY <1>3, <1>4, <1>5, <1>6

\* the inductive invariant behind NoLostWakeup
WakeupInv == MutexInv /\ QueueInv /\ EventInv /\ NoLostWakeup

LEMMA WakeupInvInductive == WakeupInv /\ [Next]_vars => WakeupInv'
<1> SUFFICES ASSUME WakeupInv, [Next]_vars PROVE WakeupInv'
  OBVIOUS
<1>1. MutexInv /\ QueueInv /\ EventInv
  BY DEF WakeupInv
<1>2. MutexInv' /\ QueueInv' /\ EventInv'
  BY <1>1, MutexInvInductive, QueueInvInductive, EventInvInductive
<1>3. SUFFICES ASSUME owner' = NoThread, queue' # <<>>
               PROVE  Stirring(Head(queue))'
  BY <1>2 DEF WakeupInv, NoLostWakeup
<1>4. queue \in Seq(Threads) /\ Len(queue) \in Nat /\ queue' \in Seq(Threads)
  BY <1>1, <1>2, LenProperties DEF MutexInv, TypeOK
<1>5. ASSUME NEW t \in Threads, LockObtain(t) \/ TryLock(t)
      PROVE  FALSE
  BY <1>3, <1>5, ThreadsAssumption DEF LockObtain, TryLock, Obtain
<1>6. ASSUME NEW t \in Threads, Unlock(t)
      PROVE  Stirring(Head(queue))'
  <2>1. queue' = queue /\ refs = 1
    BY <1>3, <1>6, ThreadsAssumption DEF Unlock
  <2>2. pc' = [pc EXCEPT ![t] = "wake"]
        /\ waiter' = [waiter EXCEPT ![t] = Head(queue)]
    BY <1>3, <1>6, <2>1 DEF Unlock
  <2>3. pc'[t] = "wake" /\ waiter'[t] = Head(queue)
    BY <1>1, <2>2 DEF MutexInv, TypeOK
  <2>4. QED
    BY <2>1, <2>3 DEF Stirring
<1>7. ASSUME NEW t \in Threads,
             \/ LockInterrupted(t) \/ LockEnqueue(t) \/ SetWaiting(t)
             \/ TcallWait(t) \/ TcallReturn(t) \/ ClearWaiting(t)
             \/ LockSignalProcess(t) \/ UnlockWake(t) \/ LockCall(t)
             \/ SyscallSignalProcess(t) \/ DeliverSignal(t) \/ DeliverWake(t)
      PROVE  Stirring(Head(queue))'
  <2>1. owner = NoThread
    BY <1>3, <1>7 DEF LockInterrupted, LockEnqueue, SetWaiting, TcallWait,
       TcallReturn, ClearWaiting, LockSignalProcess, UnlockWake, LockCall,
       SyscallSignalProcess, DeliverSignal, DeliverWake, mutexVars
  <2>2. /\ queue # <<>> /\ Head(queue') = Head(queue)
        /\ LockInterrupted(t) \/ LockEnqueue(t) => Head(queue) # t
    <3>1. CASE LockInterrupted(t) \/ LockEnqueue(t)
      <4>1. queue # <<>> /\ Head(queue) # t
        BY <2>1, <3>1 DEF LockInterrupted, LockEnqueue, MayObtain
      <4>2. Head(queue) = queue[1] /\ Head(queue') = queue'[1]
            /\ Len(queue) \in Nat \ {0}
        BY <1>3, <1>4, <4>1, FrontProperties
      <4>3. CASE queue' = queue
        BY <4>1, <4>3
      <4>4. CASE InQueue(t) /\ queue' = Unlink(queue, t)
        <5>1. PICK k \in 1..Len(queue) :
                  /\ queue[k] = t
                  /\ \A i \in 1..(Len(queue) - 1) :
                        Unlink(queue, t)[i] =
                            IF i < k THEN queue[i] ELSE queue[i + 1]
          BY <1>4, <4>4, UnlinkProperties DEF InQueue
        <5>2. k > 1 /\ 1 \in 1..(Len(queue) - 1)
          BY <1>4, <4>1, <4>2, <5>1
        <5>3. QED
          BY <4>1, <4>2, <4>4, <5>1, <5>2
      <4>5. CASE queue' = Append(queue, t)
        <5>1. \A i \in 1..Len(queue) : Append(queue, t)[i] = queue[i]
          BY <1>4, AppendProperties
        <5>2. QED
          BY <4>1, <4>2, <4>5, <5>1
      <4>6. QED
        BY <3>1, <4>3, <4>4, <4>5 DEF LockInterrupted, LockEnqueue
    <3>2. CASE ~(LockInterrupted(t) \/ LockEnqueue(t))
      BY <1>3, <1>7, <3>2 DEF SetWaiting, TcallWait, TcallReturn, ClearWaiting,
         LockSignalProcess, UnlockWake, LockCall, SyscallSignalProcess,
         DeliverSignal, DeliverWake, mutexVars
    <3>3. QED
      BY <3>1, <3>2
  <2> DEFINE h == Head(queue)
  <2>3. h \in Threads /\ pc[h] \in Blocking \cup {"try"}
    <3>1. h = queue[1] /\ h \in Threads /\ 1 \in 1..Len(queue)
      BY <1>4, <2>2, FrontProperties
    <3>2. QED
      BY <1>1, <3>1 DEF QueueInv, QueueIsWaiters
  <2>4. Stirring(h)
    BY <2>1, <2>2 DEF WakeupInv, NoLostWakeup
  <2> HIDE DEF h
  <2>5. \A u \in Threads : u = h => Stirring(u)'
    BY <1>1, <1>7, <2>2, <2>3, <2>4, StirringStable DEF h
  <2>6. QED
    BY <2>2, <2>3, <2>5 DEF Stirring, h
<1>8. CASE UNCHANGED vars
  BY <1>3, <1>8 DEF vars, WakeupInv, NoLostWakeup, Stirring
<1>9. QED
  BY <1>5, <1>6, <1>7, <1>8 DEF Next, CallStep

\* No lost wakeup, for every number of threads, recursion depth and signal: a
\* free mutex with waiters always has its front waiter on the way.
THEOREM MutexNoLostWakeup == Spec => []NoLostWakeup
<1>1. Init => WakeupInv
  <2>1. Init => MutexInv
    BY ThreadsAssumption, EmptySeq DEF Init, MutexInv, TypeOK, RefsMatchHolds,
       OwnerHasRefs, WakeHasTarget, Locations
  <2>2. Init => QueueInv
    BY EmptySeq DEF Init, QueueInv, QueueIsWaiters, OwnerNotQueued, Blocking
  <2>3. Init => EventInv /\ NoLostWakeup
    BY DEF Init, EventInv, NoLostWakeup
  <2>4. QED
    BY <2>1, <2>2, <2>3 DEF WakeupInv
<1>2. WakeupInv => NoLostWakeup
  BY DEF WakeupInv
<1>3. QED
  BY <1>1, <1>2, WakeupInvInductive, PTL DEF Spec
-----------------------------------------------------------------------------
(***************************************************************************)
(* The detailed mutex implements the abstract lock of module Lock.         *)
(***************************************************************************)

\* a thread that obtains the mutex is granted the abstract lock
LEMMA ObtainIsGrant ==
    ASSUME MutexInv, NEW t \in Threads, Obtain(t)
    PROVE  L!Grant(t)
<1>1. t # NoThread /\ NoThread \notin Threads
  BY ThreadsAssumption
<1>2. hold \in [Threads -> Nat] /\ queue \in Seq(Threads) /\ refs \in Nat
  BY DEF MutexInv, TypeOK
<1>3. \A u \in Threads : hold[u] = IF owner = u THEN refs ELSE 0
  BY DEF MutexInv, RefsMatchHolds
<1>4. owner = t \/ owner = NoThread
  BY DEF Obtain
<1>5. L!FreeFor(t)
  BY <1>1, <1>3, <1>4 DEF L!FreeFor
<1>6. hold' = [hold EXCEPT ![t] = @ + 1]
  BY DEF Obtain
<1>7. CASE owner = t
  <2>1. hold[t] > 0
    BY <1>2, <1>3, <1>7, <1>1 DEF MutexInv, OwnerHasRefs
  <2>2. queue' = queue
    BY <1>7, <1>1 DEF Obtain
  <2>3. QED
    BY <1>5, <1>6, <2>1, <2>2 DEF L!Grant
<1>8. CASE owner = NoThread
  <2>1. hold[t] = 0
    BY <1>3, <1>8, <1>1
  <2>2. \/ queue = <<>> /\ queue' = queue
        \/ queue # <<>> /\ Head(queue) = t /\ queue' = Tail(queue)
    BY <1>8, <1>1 DEF Obtain
  <2>3. QED
    BY <1>5, <1>6, <2>1, <2>2 DEF L!Grant
<1>9. QED
  BY <1>4, <1>7, <1>8

\* a thread that has to wait joins the abstract line, or is in it already
LEMMA EnqueueIsJoin ==
    ASSUME MutexInv, NEW t \in Threads, LockEnqueue(t)
    PROVE  L!Join(t) \/ UNCHANGED <<hold, queue>>
<1>1. t # NoThread /\ NoThread \notin Threads
  BY ThreadsAssumption
<1>2. hold \in [Threads -> Nat] /\ refs \in Nat /\ owner \in Threads \cup {NoThread}
  BY DEF MutexInv, TypeOK
<1>3. \A u \in Threads : hold[u] = IF owner = u THEN refs ELSE 0
  BY DEF MutexInv, RefsMatchHolds
<1>4. hold' = hold
  BY DEF LockEnqueue
<1>5. CASE InQueue(t)
  BY <1>4, <1>5 DEF LockEnqueue
<1>6. CASE ~InQueue(t)
  <2>1. owner # t /\ (queue # <<>> \/ owner # NoThread)
    BY DEF LockEnqueue, MayObtain
  <2>2. hold[t] = 0
    BY <1>3, <2>1
  <2>3. owner # NoThread => owner \in Threads \ {t} /\ hold[owner] # 0
    BY <1>2, <1>3, <2>1 DEF MutexInv, OwnerHasRefs
  <2>4. queue # <<>> \/ ~L!FreeFor(t)
    BY <2>1, <2>3 DEF L!FreeFor
  <2>5. ~L!InLine(t)
    BY <1>6 DEF InQueue, L!InLine
  <2>6. queue' = Append(queue, t)
    BY <1>6 DEF LockEnqueue
  <2>7. QED
    BY <2>2, <2>4, <2>5, <2>6, <1>4 DEF L!Join
<1>7. QED
  BY <1>5, <1>6

\* a lock call that a signal interrupts leaves the abstract line, if it was in it
LEMMA InterruptedIsLeave ==
    ASSUME MutexInv, NEW t \in Threads, LockInterrupted(t)
    PROVE  L!Leave(t) \/ UNCHANGED <<hold, queue>>
<1>1. hold' = hold
  BY DEF LockInterrupted
<1>2. CASE ~InQueue(t)
  BY <1>1, <1>2 DEF LockInterrupted
<1>3. CASE InQueue(t)
  <2>1. PICK k \in 1..Len(queue) :
           /\ queue[k] = t
           /\ Unlink(queue, t) =
                 [i \in 1..(Len(queue) - 1) |-> IF i < k THEN queue[i] ELSE queue[i + 1]]
    <3> DEFINE k == CHOOSE i \in 1..Len(queue) : queue[i] = t
    <3>1. k \in 1..Len(queue) /\ queue[k] = t
      BY <1>3 DEF InQueue
    <3>2. QED
      BY <3>1 DEF Unlink
  <2>2. queue' = Unlink(queue, t)
    BY <1>3 DEF LockInterrupted
  <2>3. QED
    BY <1>1, <2>1, <2>2 DEF L!Leave
<1>4. QED
  BY <1>2, <1>3

\* every step of the mutex is a step of the abstract lock or leaves it alone
LEMMA MutexStepRefines == MutexInv /\ [Next]_vars => [L!Next]_(L!vars)
<1> SUFFICES ASSUME MutexInv, [Next]_vars PROVE [L!Next]_(L!vars)
  OBVIOUS
<1>1. ASSUME NEW t \in Threads, LockObtain(t) \/ TryLock(t)
      PROVE  L!Next
  <2>1. Obtain(t)
    BY <1>1 DEF LockObtain, TryLock
  <2>2. QED
    BY <2>1, ObtainIsGrant DEF L!Next
<1>2. ASSUME NEW t \in Threads, LockEnqueue(t) PROVE [L!Next]_(L!vars)
  BY <1>2, EnqueueIsJoin DEF L!Next, L!vars
<1>3. ASSUME NEW t \in Threads, LockInterrupted(t) PROVE [L!Next]_(L!vars)
  BY <1>3, InterruptedIsLeave DEF L!Next, L!vars
<1>4. ASSUME NEW t \in Threads, Unlock(t) PROVE L!Next
  <2>1. hold[t] > 0
    BY <1>4, ThreadsAssumption DEF Unlock, MutexInv, RefsMatchHolds, OwnerHasRefs
  <2>2. hold' = [hold EXCEPT ![t] = @ - 1] /\ queue' = queue
    BY <1>4 DEF Unlock
  <2>3. L!Release(t)
    BY <2>1, <2>2 DEF L!Release
  <2>4. QED
    BY <2>3 DEF L!Next
<1>5. ASSUME NEW t \in Threads,
             \/ LockCall(t) \/ SetWaiting(t) \/ TcallWait(t) \/ TcallReturn(t)
             \/ ClearWaiting(t) \/ LockSignalProcess(t) \/ UnlockWake(t)
             \/ DeliverSignal(t) \/ DeliverWake(t) \/ SyscallSignalProcess(t)
      PROVE  UNCHANGED <<hold, queue>>
  BY <1>5 DEF LockCall, SetWaiting, TcallWait, TcallReturn, ClearWaiting,
     LockSignalProcess, UnlockWake, DeliverSignal, DeliverWake,
     SyscallSignalProcess, mutexVars
<1>6. CASE UNCHANGED vars
  BY <1>6 DEF vars, L!vars
<1>7. CASE Next
  BY <1>1, <1>2, <1>3, <1>4, <1>5, <1>7 DEF Next, CallStep, L!vars
<1>8. QED
  BY <1>6, <1>7

\* The mutex implements the abstract recursive lock with first-come service, for
\* every number of threads, recursion depth and number of signals.
THEOREM MutexImplementsLock == Spec => LockRefinement
<1>1. Init => L!Init
  BY DEF Init, L!Init
<1>2. QED
  BY <1>1, MutexStepRefines, MutexInvariant, PTL DEF Spec, LockRefinement, L!Spec
=============================================================================
