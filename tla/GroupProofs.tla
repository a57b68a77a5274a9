---------------------------- MODULE GroupProofs ----------------------------
(***************************************************************************)
(* Proofs about the threads of a process, module ThreadGroup: the group    *)
(* list, the thread count and the end of the process are right for any     *)
(* number of threads; and about the futexes they wait on, module Futex in  *)
(* the configurations of MCGroup: the wait queues are right and no wakeup  *)
(* is lost, for any threads, futexes and arguments of the calls.           *)
(***************************************************************************)
EXTENDS MCGroup, ListLemmas, FiniteSetTheorems

\* The list has the main thread first and holds those that are in the group.
Linked ==
    /\ Len(group) >= 1 /\ group[1] = Main
    /\ IsInjective(group)
    /\ ToSet(group) = {Main} \cup {t \in Threads : pc[t] \notin {"none", "unlock", "gone"}}

\* The main thread is never created, nor does it leave the group.
MainPlace == pc[Main] \notin {"none", "linked", "unlink", "unlock"}

\* A clone call that has linked its thread is the only one to start it.
Cloning ==
    \A t \in Threads : pc[t] = "start" =>
        /\ pc[child[t]] = "linked"
        /\ \A u \in Threads : pc[u] = "start" /\ child[u] = child[t] => u = t

\* The process is torn down by the main thread, when it is alone.
Teardown ==
    /\ proc # "live" => pc[Main] \in {"count", "gone"}
    /\ TeardownLast

\* Without a signal from outside, a thread has SIGKILL pending only if the status
\* of the process is already set.
Unsignalled ==
    signals = 0 =>
        /\ cause # "signal"
        /\ \A t \in Threads : pending[t] # {} \/ pc[t] = "sweep" => cause # "none"

IInv == /\ TypeOK
        /\ Linked
        /\ MainPlace
        /\ Cloning
        /\ CountExact
        /\ Teardown
        /\ Unsignalled

\* a thread at one of these stays in the group and in the count at the others
Busy == {"run", "enter", "blocked", "reserve", "sweep", "killwait", "exit"}

-----------------------------------------------------------------------------
\* The group list as a sequence without repetition.
LEMMA GroupFacts ==
    ASSUME TypeOK, Linked
    PROVE  /\ group \in Seq(Threads) /\ Len(group) \in Nat /\ Len(group) >= 1
           /\ \A i \in 1..Len(group) : group[i] \in Threads
           /\ \A e : e \in ToSet(group) <=> \E i \in 1..Len(group) : group[i] = e
           /\ \A i, j \in 1..Len(group) : group[i] = group[j] => i = j
<1>1. group \in Seq(Threads)
  BY DEF TypeOK
<1>2. IsInjective(group) /\ Len(group) >= 1
  BY DEF Linked
<1>3. \A i \in 1..Len(group) : group[i] \in Threads
  BY <1>1, ElementOfSeq
<1>4. /\ Len(group) \in Nat
      /\ \A e : e \in ToSet(group) <=> \E i \in 1..Len(group) : group[i] = e
      /\ IsInjective(group) <=> \A i, j \in 1..Len(group) : group[i] = group[j] => i = j
  BY <1>1, ListElements
<1>5. QED
  BY <1>1, <1>2, <1>3, <1>4

\* A thread of the group is at its index.
LEMMA IndexOf ==
    ASSUME TypeOK, Linked, NEW t \in ToSet(group)
    PROVE  Index(t) \in 1..Len(group) /\ group[Index(t)] = t
<1>1. \E i \in 1..Len(group) : group[i] = t
  BY GroupFacts
<1>2. QED
  BY <1>1 DEF Index

\* The threads that are counted are finitely many.
LEMMA CountedFinite ==
    /\ IsFiniteSet(Counted) /\ Cardinality(Counted) \in Nat
    /\ IsFiniteSet(Reserved) /\ Cardinality(Reserved) \in Nat
<1>1. Counted \subseteq Threads /\ Reserved \subseteq Threads
  BY DEF Counted, Reserved
<1>2. IsFiniteSet(Counted) /\ IsFiniteSet(Reserved)
  BY <1>1, FS_Subset, ThreadsAssumption
<1>3. QED
  BY <1>2, FS_CardinalityType

\* Steps between places that count alike leave the group and the count alone.
LEMMA Calm ==
    ASSUME IInv, group' = group, numThreads' = numThreads,
           failures' = failures, child' = child, proc' = proc,
           \A t \in Threads : pc'[t] = pc[t] \/ {pc[t], pc'[t]} \subseteq Busy
    PROVE  Linked' /\ MainPlace' /\ Cloning' /\ CountExact' /\ Teardown'
<1> USE DEF IInv
<1>1. Main \in Threads
  BY ThreadsAssumption
<1>2. ASSUME NEW t \in Threads
      PROVE  /\ pc'[t] \in {"none", "unlock", "gone"} <=> pc[t] \in {"none", "unlock", "gone"}
             /\ pc'[t] = "link" <=> pc[t] = "link"
             /\ pc'[t] = "start" <=> pc[t] = "start"
             /\ pc'[t] = "linked" <=> pc[t] = "linked"
             /\ pc'[t] = "unlink" <=> pc[t] = "unlink"
             /\ pc'[t] = "none" <=> pc[t] = "none"
             /\ pc'[t] = "unlock" <=> pc[t] = "unlock"
             /\ pc'[t] \in {"zombify", "count", "gone"} <=> pc[t] \in {"zombify", "count", "gone"}
             /\ pc'[t] \in {"count", "gone"} <=> pc[t] \in {"count", "gone"}
  BY DEF Busy
<1>3. Linked'
  BY <1>2 DEF Linked
<1>4. MainPlace'
  BY <1>1, <1>2 DEF MainPlace
<1>5. Cloning'
  <2>1. \A t \in Threads : child[t] \in Threads
    BY DEF TypeOK
  <2>2. QED
    BY <1>2, <2>1 DEF Cloning
<1>6. CountExact'
  <2>1. Counted' = Counted /\ Reserved' = Reserved
    BY <1>2 DEF Counted, Reserved
  <2>2. QED
    BY <2>1 DEF CountExact
<1>7. Teardown'
  BY <1>1, <1>2 DEF Teardown, TeardownLast
<1>8. QED
  BY <1>3, <1>4, <1>5, <1>6, <1>7

-----------------------------------------------------------------------------
\* One thread, the main one: the invariant holds to begin with.
LEMMA InitInv == Init => IInv
<1> SUFFICES ASSUME Init PROVE IInv
  OBVIOUS
<1>0. Main \in Threads
  BY ThreadsAssumption
<1>1. group \in Seq(Threads) /\ Len(group) = 1 /\ group[1] = Main
  BY <1>0 DEF Init
<1>2. TypeOK
  <2>1. pc \in [Threads -> Locations]
    BY DEF Init, Locations
  <2>2. QED
    BY <1>0, <1>1, <2>1 DEF Init, TypeOK
<1>3. Linked
  <2>1. /\ \A e : e \in ToSet(group) <=> \E i \in 1..1 : group[i] = e
        /\ IsInjective(group) <=> \A i, j \in 1..1 : group[i] = group[j] => i = j
    BY <1>1, ListElements
  <2>2. ToSet(group) = {Main} /\ IsInjective(group)
    BY <1>1, <2>1
  <2>3. QED
    BY <1>0, <1>1, <2>2 DEF Init, Linked
<1>4. MainPlace /\ Cloning /\ Teardown /\ Unsignalled
  BY <1>0 DEF Init, MainPlace, Cloning, Teardown, TeardownLast, Unsignalled
<1>5. CountExact
  <2>1. Counted = {Main} /\ Reserved = {}
    BY <1>0 DEF Init, Counted, Reserved
  <2>2. Cardinality(Counted) = 1 /\ Cardinality(Reserved) = 0
    BY <2>1, FS_Singleton, FS_EmptySet
  <2>3. QED
    BY <2>2 DEF Init, CountExact
<1>6. QED
  BY <1>2, <1>3, <1>4, <1>5 DEF IInv

\* A clone call below the limit.
LEMMA CloneCheckInv ==
    ASSUME IInv, NEW t \in Threads, CloneCheck(t)
    PROVE  IInv'
<1> USE DEF IInv
<1>1. TypeOK'
  BY DEF CloneCheck, Goto, TypeOK, Locations, cloneVars
<1>2. \A u \in Threads : pc'[u] = pc[u] \/ {pc[u], pc'[u]} \subseteq Busy
  BY DEF CloneCheck, Goto, TypeOK, Busy
<1>3. Linked' /\ MainPlace' /\ Cloning' /\ CountExact' /\ Teardown'
  BY <1>2, Calm DEF CloneCheck, cloneVars
<1>4. Unsignalled'
  BY DEF CloneCheck, Goto, TypeOK, Unsignalled
<1>5. QED
  BY <1>1, <1>3, <1>4

\* A thread enters a blocking call, sleeps and is woken.
LEMMA BlockInv ==
    ASSUME IInv, NEW t \in Threads, BlockEnter(t) \/ Block(t) \/ Unblock(t)
    PROVE  IInv'
<1> USE DEF IInv
<1>0. /\ UNCHANGED <<group, numThreads, cloneVars, pending, cause, proc, signals>>
      /\ \E l \in {"enter", "blocked", "run"} : pc' = [pc EXCEPT ![t] = l]
      /\ pc[t] \in Busy
  BY DEF BlockEnter, Block, Unblock, Goto, Busy
<1>1. TypeOK'
  BY <1>0 DEF TypeOK, Locations, cloneVars
<1>2. \A u \in Threads : pc'[u] = pc[u] \/ {pc[u], pc'[u]} \subseteq Busy
  BY <1>0 DEF TypeOK, Busy
<1>3. Linked' /\ MainPlace' /\ Cloning' /\ CountExact' /\ Teardown'
  BY <1>0, <1>2, Calm DEF cloneVars
<1>4. Unsignalled'
  BY <1>0 DEF TypeOK, Unsignalled
<1>5. QED
  BY <1>1, <1>3, <1>4

\* SYS_exit and SYS_exit_group set the status of the process at most once.
LEMMA ExitInv ==
    ASSUME IInv, NEW t \in Threads, Exit(t) \/ ExitGroup(t)
    PROVE  IInv'
<1> USE DEF IInv
<1>0. /\ UNCHANGED <<group, numThreads, cloneVars, pending, proc, signals>>
      /\ \/ pc' = [pc EXCEPT ![t] = "exit"] /\ cause' \in {cause, FirstCause("exit")}
         \/ pc' = [pc EXCEPT ![t] = "sweep"] /\ cause' = FirstCause("exit")
      /\ pc[t] = "run"
  BY DEF Exit, ExitGroup, Goto
<1>1. TypeOK'
  BY <1>0 DEF TypeOK, Locations, cloneVars, FirstCause
<1>2. \A u \in Threads : pc'[u] = pc[u] \/ {pc[u], pc'[u]} \subseteq Busy
  BY <1>0 DEF TypeOK, Busy
<1>3. Linked' /\ MainPlace' /\ Cloning' /\ CountExact' /\ Teardown'
  BY <1>0, <1>2, Calm DEF cloneVars
<1>4. Unsignalled'
  BY <1>0 DEF TypeOK, Unsignalled, FirstCause
<1>5. QED
  BY <1>1, <1>3, <1>4

\* The SIGKILLs for the other threads of the group, and the wait for them.
LEMMA KillInv ==
    ASSUME IInv, NEW t \in Threads, KillSweep(t) \/ KillWait(t)
    PROVE  IInv'
<1> USE DEF IInv
<1>0. UNCHANGED <<group, numThreads, cloneVars, cause, proc, signals>>
  BY DEF KillSweep, KillWait
<1>1. pc' \in [Threads -> Locations]
  BY DEF KillSweep, KillWait, Woken, TypeOK, Locations
<1>2. pending' \in [Threads -> SUBSET {"kill", "term"}]
  BY DEF KillSweep, KillWait, Deliver, TypeOK
<1>3. TypeOK'
  BY <1>0, <1>1, <1>2 DEF TypeOK, cloneVars
<1>4. \A u \in Threads : pc'[u] = pc[u] \/ {pc[u], pc'[u]} \subseteq Busy
  BY DEF KillSweep, KillWait, Woken, TypeOK, Busy
<1>5. Linked' /\ MainPlace' /\ Cloning' /\ CountExact' /\ Teardown'
  BY <1>0, <1>4, Calm DEF cloneVars
<1>6. Unsignalled'
  <2>1. CASE KillSweep(t)
    <3>1. signals = 0 => cause # "none" /\ cause # "signal"
      BY <2>1 DEF KillSweep, Unsignalled
    <3>2. QED
      BY <1>0, <3>1 DEF Unsignalled
  <2>2. CASE KillWait(t)
    <3>1. \A u \in Threads : pc'[u] = "sweep" => pc[u] = "sweep"
      BY <2>2 DEF KillWait, Woken, TypeOK
    <3>2. pending' = pending
      BY <2>2 DEF KillWait
    <3>3. QED
      BY <1>0, <3>1, <3>2 DEF Unsignalled
  <2>3. QED
    BY <2>1, <2>2
<1>7. QED
  BY <1>3, <1>5, <1>6

\* A signal from outside.
LEMMA FatalSignalInv ==
    ASSUME IInv, NEW t \in Threads, FatalSignal(t)
    PROVE  IInv'
<1> USE DEF IInv
<1>0. /\ UNCHANGED <<group, numThreads, cloneVars, cause, proc>>
      /\ signals' = signals + 1 /\ signals \in Nat
  BY DEF FatalSignal, TypeOK
<1>1. pc' \in [Threads -> Locations]
  BY DEF FatalSignal, Woken, TypeOK, Locations
<1>2. pending' \in [Threads -> SUBSET {"kill", "term"}]
  BY DEF FatalSignal, Deliver, TypeOK
<1>3. TypeOK'
  BY <1>0, <1>1, <1>2 DEF TypeOK, cloneVars
<1>4. \A u \in Threads : pc'[u] = pc[u] \/ {pc[u], pc'[u]} \subseteq Busy
  BY DEF FatalSignal, Woken, TypeOK, Busy
<1>5. Linked' /\ MainPlace' /\ Cloning' /\ CountExact' /\ Teardown'
  BY <1>0, <1>4, Calm DEF cloneVars
<1>6. Unsignalled'
  <2>1. signals' # 0
    BY <1>0
  <2>2. QED
    BY <2>1 DEF Unsignalled
<1>7. QED
  BY <1>3, <1>5, <1>6

\* The default action of a signal.
LEMMA SignalProcessInv ==
    ASSUME IInv, NEW t \in Threads, SignalProcess(t)
    PROVE  IInv'
<1> USE DEF IInv
<1>0. /\ UNCHANGED <<group, numThreads, cloneVars, proc, signals>>
      /\ cause' = FirstCause("signal") /\ pending[t] # {}
  BY DEF SignalProcess
<1>1. pc' \in [Threads -> Locations]
  BY DEF SignalProcess, Goto, Woken, TypeOK, Locations
<1>2. pending' \in [Threads -> SUBSET {"kill", "term"}]
  BY DEF SignalProcess, Deliver, TypeOK
<1>3. TypeOK'
  BY <1>0, <1>1, <1>2 DEF TypeOK, cloneVars, FirstCause
<1>4. \A u \in Threads : pc'[u] = pc[u] \/ {pc[u], pc'[u]} \subseteq Busy
  BY DEF SignalProcess, Goto, Woken, TypeOK, Busy
<1>5. Linked' /\ MainPlace' /\ Cloning' /\ CountExact' /\ Teardown'
  BY <1>0, <1>4, Calm DEF cloneVars
<1>6. Unsignalled'
  BY <1>0 DEF Unsignalled, FirstCause
<1>7. QED
  BY <1>3, <1>5, <1>6

-----------------------------------------------------------------------------
\* A thread more or less in a finite set.
LEMMA OneMore ==
    ASSUME NEW S, IsFiniteSet(S), NEW x, x \notin S
    PROVE  Cardinality(S \cup {x}) = Cardinality(S) + 1 /\ Cardinality(S) \in Nat
BY FS_AddElement, FS_CardinalityType

\* Taking one out of it.
LEMMA OneLess ==
    ASSUME NEW S, IsFiniteSet(S), NEW x \in S
    PROVE  Cardinality(S \ {x}) = Cardinality(S) - 1 /\ Cardinality(S) \in Nat
           /\ Cardinality(S) >= 1
<1>1. IsFiniteSet(S \ {x}) /\ x \notin S \ {x} /\ (S \ {x}) \cup {x} = S
  BY FS_RemoveElement
<1> DEFINE R == S \ {x}
<1>2. Cardinality(R \cup {x}) = Cardinality(R) + 1 /\ Cardinality(R) \in Nat
  <2> HIDE DEF R
  <2>1. IsFiniteSet(R) /\ x \notin R
    BY <1>1 DEF R
  <2>2. QED
    BY <2>1, OneMore
<1>3. QED
  BY <1>1, <1>2

\* What the group and the main thread do not see: places of the group that differ
\* only in the count.
LEMMA GroupKept ==
    ASSUME IInv, NEW t \in Threads, NEW l, pc' = [pc EXCEPT ![t] = l],
           group' = group, proc' = proc, child' = child,
           pc[t] \notin {"none", "unlock", "gone", "zombify", "count", "linked", "start"},
           l \notin {"none", "unlock", "gone", "zombify", "count", "linked", "start"},
           t = Main => l # "unlink"
    PROVE  Linked' /\ MainPlace' /\ Cloning' /\ Teardown'
<1> USE DEF IInv
<1>0. Main \in Threads /\ \A u \in Threads : pc'[u] = IF u = t THEN l ELSE pc[u]
  BY ThreadsAssumption DEF TypeOK
<1>1. Linked'
  BY <1>0 DEF Linked
<1>2. MainPlace'
  BY <1>0 DEF MainPlace
<1>3. Cloning'
  <2>1. \A u \in Threads : child[u] \in Threads
    BY DEF TypeOK
  <2>2. QED
    BY <1>0, <2>1 DEF Cloning
<1>4. Teardown'
  BY <1>0 DEF Teardown, TeardownLast
<1>5. QED
  BY <1>1, <1>2, <1>3, <1>4

\* The thread a clone call will make is counted.
LEMMA CloneReserveInv ==
    ASSUME IInv, NEW t \in Threads, CloneReserve(t)
    PROVE  IInv'
<1> USE DEF IInv
<1>0. /\ pc[t] = "reserve" /\ pc' = [pc EXCEPT ![t] = "link"] /\ numThreads' = numThreads + 1
      /\ UNCHANGED <<group, cloneVars, pending, cause, proc, signals>>
      /\ numThreads \in Nat /\ failures \in Nat
  BY DEF CloneReserve, Goto, TypeOK
<1>1. TypeOK'
  BY <1>0 DEF TypeOK, Locations, cloneVars
<1>2. Linked' /\ MainPlace' /\ Cloning' /\ Teardown'
  BY <1>0, GroupKept DEF cloneVars
<1>3. CountExact'
  <2>1. Counted' = Counted /\ Reserved' = Reserved \cup {t} /\ t \notin Reserved
    BY <1>0 DEF Counted, Reserved, TypeOK
  <2>2. Cardinality(Reserved') = Cardinality(Reserved) + 1
    BY <2>1, CountedFinite, OneMore
  <2>3. QED
    BY <1>0, <2>1, <2>2, CountedFinite DEF CountExact, cloneVars
<1>4. Unsignalled'
  BY <1>0 DEF TypeOK, Unsignalled
<1>5. QED
  BY <1>1, <1>2, <1>3, <1>4

\* The one it cannot make stays counted.
LEMMA CloneNoMemoryInv ==
    ASSUME IInv, NEW t \in Threads, CloneNoMemory(t)
    PROVE  IInv'
<1> USE DEF IInv
<1>0. /\ pc[t] = "link" /\ pc' = [pc EXCEPT ![t] = "run"] /\ failures' = failures + 1
      /\ UNCHANGED <<group, numThreads, child, pending, cause, proc, signals>>
      /\ numThreads \in Nat /\ failures \in Nat
  BY DEF CloneNoMemory, Goto, TypeOK
<1>1. TypeOK'
  BY <1>0 DEF TypeOK, Locations
<1>2. Linked' /\ MainPlace' /\ Cloning' /\ Teardown'
  BY <1>0, GroupKept
<1>3. CountExact'
  <2>1. Counted' = Counted /\ Reserved' = Reserved \ {t} /\ t \in Reserved
    BY <1>0 DEF Counted, Reserved, TypeOK
  <2>2. Cardinality(Reserved') = Cardinality(Reserved) - 1
    BY <2>1, CountedFinite, OneLess
  <2>3. QED
    BY <1>0, <2>1, <2>2, CountedFinite DEF CountExact
<1>4. Unsignalled'
  BY <1>0 DEF TypeOK, Unsignalled
<1>5. QED
  BY <1>1, <1>2, <1>3, <1>4

\* The new thread is linked behind its creator.
LEMMA CloneLinkInv ==
    ASSUME IInv, NEW t \in Threads, CloneLink(t)
    PROVE  IInv'
<1> USE DEF IInv
<1>0. PICK u \in Threads :
      /\ pc[u] = "none" /\ pc[t] = "link"
      /\ group' = InsertAfter(group, Index(t), u)
      /\ child' = [child EXCEPT ![t] = u]
      /\ pc' = [pc EXCEPT ![t] = "start", ![u] = "linked"]
      /\ UNCHANGED <<numThreads, failures, pending, cause, proc, signals>>
  BY DEF CloneLink, Unused
<1>1. /\ Main \in Threads /\ t # u /\ u # Main
      /\ \A v \in Threads : pc'[v] = IF v = t THEN "start" ELSE IF v = u THEN "linked" ELSE pc[v]
      /\ pc[u] = "none" /\ pc[t] = "link"
      /\ UNCHANGED <<numThreads, failures, pending, cause, proc, signals>>
  BY <1>0, ThreadsAssumption DEF TypeOK, MainPlace
<1>2. u \notin ToSet(group) /\ t \in ToSet(group) /\ IsInjective(group)
  BY <1>0, <1>1 DEF Linked
<1> DEFINE k == Index(t)
<1>3. k \in 1..Len(group) /\ group \in Seq(Threads)
  BY <1>2, IndexOf, GroupFacts
<1>4. group' = InsertAt(group, k + 1, u)
  BY <1>0 DEF InsertAfter
<1> HIDE DEF k
<1>5. /\ group' \in Seq(Threads) /\ IsInjective(group')
      /\ ToSet(group') = ToSet(group) \cup {u}
      /\ Len(group') = Len(group) + 1
      /\ \A j \in 1..(Len(group) + 1) :
            group'[j] = IF j <= k THEN group[j] ELSE IF j = k + 1 THEN u ELSE group[j - 1]
  <2>1. /\ InsertAt(group, k + 1, u) \in Seq(Threads) /\ IsInjective(InsertAt(group, k + 1, u))
        /\ ToSet(InsertAt(group, k + 1, u)) = ToSet(group) \cup {u}
        /\ Len(InsertAt(group, k + 1, u)) = Len(group) + 1
        /\ \A j \in 1..(Len(group) + 1) :
              InsertAt(group, k + 1, u)[j] =
                 IF j <= k THEN group[j] ELSE IF j = k + 1 THEN u ELSE group[j - 1]
    BY <1>2, <1>3, ListInsert
  <2>2. QED
    BY <1>4, <2>1
<1>6. TypeOK'
  <2>1. pc' \in [Threads -> Locations]
    BY <1>0 DEF TypeOK, Locations
  <2>2. QED
    BY <1>0, <1>5, <2>1 DEF TypeOK
<1>7. Linked'
  <2>1. Len(group') >= 1 /\ group'[1] = Main
    <3>1. Len(group) \in Nat /\ Len(group) >= 1 /\ group[1] = Main
      BY GroupFacts DEF Linked
    <3>2. 1 \in 1..(Len(group) + 1) /\ 1 <= k
      BY <1>3, <3>1
    <3>3. QED
      BY <1>5, <3>1, <3>2
  <2>2. QED
    BY <1>1, <1>5, <2>1 DEF Linked
<1>8. MainPlace'
  BY <1>1 DEF MainPlace
<1>9. Cloning'
  <2>1. /\ \A v \in Threads : child[v] \in Threads
        /\ \A v \in Threads : child'[v] = IF v = t THEN u ELSE child[v]
    BY <1>0 DEF TypeOK
  <2>2. ASSUME NEW v \in Threads, pc'[v] = "start"
        PROVE  pc'[child'[v]] = "linked"
    BY <1>1, <2>1, <2>2 DEF Cloning
  <2>3. ASSUME NEW v \in Threads, pc'[v] = "start", NEW x \in Threads, pc'[x] = "start",
               child'[x] = child'[v]
        PROVE  x = v
    BY <1>1, <2>1, <2>3 DEF Cloning
  <2>4. QED
    BY <2>2, <2>3 DEF Cloning
<1>10. CountExact'
  <2>1. /\ Counted' = Counted \cup {u} /\ u \notin Counted
        /\ Reserved' = Reserved \ {t} /\ t \in Reserved
    BY <1>1 DEF Counted, Reserved
  <2>2. Cardinality(Counted') = Cardinality(Counted) + 1
    BY <2>1, CountedFinite, OneMore
  <2>3. Cardinality(Reserved') = Cardinality(Reserved) - 1
    BY <2>1, CountedFinite, OneLess
  <2>4. numThreads \in Nat /\ failures \in Nat
    BY DEF TypeOK
  <2>5. QED
    BY <1>1, <2>2, <2>3, <2>4, CountedFinite DEF CountExact
<1>11. Teardown'
  BY <1>1 DEF Teardown, TeardownLast
<1>12. Unsignalled'
  BY <1>1 DEF Unsignalled
<1>13. QED
  BY <1>6, <1>7, <1>8, <1>9, <1>10, <1>11, <1>12

\* The host runs the new thread, or it stays linked for ever.
LEMMA CloneStartInv ==
    ASSUME IInv, NEW t \in Threads, CloneStart(t)
    PROVE  IInv'
<1> USE DEF IInv
<1>0. /\ Main \in Threads /\ child[t] \in Threads /\ pc[t] = "start"
      /\ pc[child[t]] = "linked" /\ child[t] # t /\ child[t] # Main
      /\ numThreads \in Nat /\ failures \in Nat
      /\ \A v \in Threads : child[v] \in Threads
  BY ThreadsAssumption DEF TypeOK, CloneStart, Cloning, MainPlace
<1>1. /\ UNCHANGED <<group, numThreads, pending, cause, proc, signals>>
      /\ child' = [child EXCEPT ![t] = Main] /\ failures' \in {failures, failures + 1}
      /\ \/ pc' = [pc EXCEPT ![t] = "run", ![child[t]] = "run"]
         \/ pc' = [pc EXCEPT ![t] = "run"]
  BY DEF CloneStart, Goto
<1>2. \A v \in Threads :
         /\ pc'[v] = IF v = t THEN "run" ELSE IF v = child[t] THEN pc'[v] ELSE pc[v]
         /\ v = child[t] => pc'[v] \in {"run", "linked"}
  BY <1>0, <1>1 DEF TypeOK
<1>3. TypeOK'
  <2>1. pc' \in [Threads -> Locations]
    BY <1>0, <1>1 DEF TypeOK, Locations
  <2>2. failures' \in Nat
    BY <1>0, <1>1
  <2>3. QED
    BY <1>0, <1>1, <2>1, <2>2 DEF TypeOK
<1>4. Linked'
  BY <1>0, <1>1, <1>2 DEF Linked
<1>5. MainPlace'
  BY <1>0, <1>2 DEF MainPlace
<1>6. Cloning'
  <2>1. ASSUME NEW v \in Threads, pc'[v] = "start"
        PROVE  v # t /\ pc[v] = "start" /\ child'[v] = child[v] /\ child[v] # child[t]
               /\ pc'[child[v]] = "linked"
    <3>1. v # t /\ pc[v] = "start"
      BY <1>0, <1>2, <2>1
    <3>2. pc[child[v]] = "linked" /\ child[v] # child[t] /\ child[v] # t
      BY <1>0, <3>1 DEF Cloning
    <3>3. child'[v] = child[v]
      BY <1>1, <3>1 DEF TypeOK
    <3>4. QED
      BY <1>0, <1>2, <3>1, <3>2, <3>3
  <2>2. ASSUME NEW v \in Threads, pc'[v] = "start", NEW x \in Threads, pc'[x] = "start",
               child'[x] = child'[v]
        PROVE  x = v
    BY <2>1, <2>2 DEF Cloning
  <2>3. QED
    BY <2>1, <2>2 DEF Cloning
<1>7. CountExact'
  <2>1. Counted' = Counted /\ Reserved' = Reserved
    BY <1>0, <1>2 DEF Counted, Reserved
  <2>2. QED
    BY <1>0, <1>1, <2>1, CountedFinite DEF CountExact
<1>8. Teardown'
  BY <1>0, <1>1, <1>2 DEF Teardown, TeardownLast
<1>9. Unsignalled'
  BY <1>0, <1>1, <1>2 DEF Unsignalled
<1>10. QED
  BY <1>3, <1>4, <1>5, <1>6, <1>7, <1>8, <1>9

\* A thread on its way out is no longer counted.
LEMMA ExitCountInv ==
    ASSUME IInv, NEW t \in Threads, ExitCount(t)
    PROVE  IInv'
<1> USE DEF IInv
<1>0. /\ t # Main /\ pc[t] = "exit" /\ pc' = [pc EXCEPT ![t] = "unlink"]
      /\ numThreads' = numThreads - 1
      /\ UNCHANGED <<group, cloneVars, pending, cause, proc, signals>>
      /\ numThreads \in Nat /\ failures \in Nat /\ failures' = failures
  BY DEF ExitCount, Goto, TypeOK, cloneVars
<1>1. /\ Counted' = Counted \ {t} /\ t \in Counted /\ Reserved' = Reserved
  BY <1>0 DEF Counted, Reserved, TypeOK
<1>2. Cardinality(Counted') = Cardinality(Counted) - 1 /\ Cardinality(Counted) >= 1
  BY <1>1, CountedFinite, OneLess
<1>3. CountExact' /\ numThreads' \in Nat
  BY <1>0, <1>1, <1>2, CountedFinite DEF CountExact
<1>4. TypeOK'
  <2>1. pc' \in [Threads -> Locations]
    BY <1>0 DEF TypeOK, Locations
  <2>2. QED
    BY <1>0, <1>3, <2>1 DEF TypeOK, cloneVars
<1>5. Linked' /\ MainPlace' /\ Cloning' /\ Teardown'
  BY <1>0, GroupKept DEF cloneVars
<1>6. Unsignalled'
  BY <1>0 DEF TypeOK, Unsignalled
<1>7. QED
  BY <1>3, <1>4, <1>5, <1>6

\* It leaves the group; the main thread stays the first.
LEMMA ExitUnlinkInv ==
    ASSUME IInv, NEW t \in Threads, ExitUnlink(t)
    PROVE  IInv'
<1> USE DEF IInv
<1>0. /\ pc[t] = "unlink" /\ pc' = [pc EXCEPT ![t] = "unlock"] /\ t # Main /\ Main \in Threads
      /\ UNCHANGED <<numThreads, cloneVars, pending, cause, proc, signals>>
      /\ child' = child /\ failures' = failures
  BY ThreadsAssumption DEF ExitUnlink, Goto, MainPlace, cloneVars
<1>1. \A v \in Threads : pc'[v] = IF v = t THEN "unlock" ELSE pc[v]
  BY <1>0 DEF TypeOK
<1> DEFINE k == Index(t)
<1>2. t \in ToSet(group) /\ IsInjective(group)
  BY <1>0 DEF Linked
<1>3. k \in 1..Len(group) /\ group[k] = t /\ group \in Seq(Threads)
  BY <1>2, IndexOf, GroupFacts
<1>4. group' = RemoveAt(group, k)
  BY DEF ExitUnlink
<1> HIDE DEF k
<1>5. /\ group' \in Seq(Threads) /\ IsInjective(group')
      /\ ToSet(group') = ToSet(group) \ {t}
      /\ Len(group') = Len(group) - 1
      /\ \A j \in 1..(Len(group) - 1) : group'[j] = IF j < k THEN group[j] ELSE group[j + 1]
  <2>1. /\ RemoveAt(group, k) \in Seq(Threads) /\ IsInjective(RemoveAt(group, k))
        /\ ToSet(RemoveAt(group, k)) = ToSet(group) \ {group[k]}
        /\ Len(RemoveAt(group, k)) = Len(group) - 1
        /\ \A j \in 1..(Len(group) - 1) :
              RemoveAt(group, k)[j] = IF j < k THEN group[j] ELSE group[j + 1]
    BY <1>2, <1>3, ListRemove
  <2>2. QED
    BY <1>3, <1>4, <2>1
<1>6. TypeOK'
  <2>1. pc' \in [Threads -> Locations]
    BY <1>0 DEF TypeOK, Locations
  <2>2. QED
    BY <1>0, <1>5, <2>1 DEF TypeOK
<1>7. Linked'
  <2>1. Len(group') >= 1 /\ group'[1] = Main
    <3>1. Len(group) \in Nat /\ Len(group) >= 1 /\ group[1] = Main
      BY GroupFacts DEF Linked
    <3>2. k # 1
      BY <1>0, <1>3, <3>1
    <3>3. 1 \in 1..(Len(group) - 1) /\ 1 < k
      BY <1>3, <3>1, <3>2
    <3>4. QED
      BY <1>5, <3>1, <3>3
  <2>2. QED
    BY <1>0, <1>1, <1>5, <2>1 DEF Linked
<1>8. MainPlace'
  BY <1>0, <1>1 DEF MainPlace
<1>9. Cloning'
  <2>1. \A v \in Threads : child[v] \in Threads
    BY DEF TypeOK
  <2>2. QED
    BY <1>0, <1>1, <2>1 DEF Cloning
<1>10. CountExact'
  <2>1. Counted' = Counted /\ Reserved' = Reserved
    BY <1>0, <1>1 DEF Counted, Reserved
  <2>2. QED
    BY <1>0, <2>1 DEF CountExact
<1>11. Teardown'
  BY <1>0, <1>1 DEF Teardown, TeardownLast
<1>12. Unsignalled'
  BY <1>0, <1>1 DEF Unsignalled
<1>13. QED
  BY <1>6, <1>7, <1>8, <1>9, <1>10, <1>11, <1>12

\* It releases the lock of the group.
LEMMA ExitUnlockInv ==
    ASSUME IInv, NEW t \in Threads, ExitUnlock(t)
    PROVE  IInv'
<1> USE DEF IInv
<1>0. /\ pc[t] = "unlock" /\ pc' = [pc EXCEPT ![t] = "gone"] /\ t # Main /\ Main \in Threads
      /\ UNCHANGED <<group, numThreads, cloneVars, pending, cause, proc, signals>>
      /\ child' = child /\ failures' = failures
  BY ThreadsAssumption DEF ExitUnlock, Goto, MainPlace, cloneVars
<1>1. \A v \in Threads : pc'[v] = IF v = t THEN "gone" ELSE pc[v]
  BY <1>0 DEF TypeOK
<1>2. TypeOK'
  BY <1>0 DEF TypeOK, Locations
<1>3. Linked' /\ MainPlace'
  BY <1>0, <1>1 DEF Linked, MainPlace
<1>4. Cloning'
  <2>1. \A v \in Threads : child[v] \in Threads
    BY DEF TypeOK
  <2>2. QED
    BY <1>0, <1>1, <2>1 DEF Cloning
<1>5. CountExact'
  <2>1. Counted' = Counted /\ Reserved' = Reserved
    BY <1>0, <1>1 DEF Counted, Reserved
  <2>2. QED
    BY <1>0, <2>1 DEF CountExact
<1>6. Teardown' /\ Unsignalled'
  BY <1>0, <1>1 DEF Teardown, TeardownLast, Unsignalled
<1>7. QED
  BY <1>2, <1>3, <1>4, <1>5, <1>6

\* The main thread finds itself alone, turns the process into a zombie, and is
\* the last one to be counted.
LEMMA MainInv ==
    ASSUME IInv, MainStep
    PROVE  IInv'
<1> USE DEF IInv
<1>0. Main \in Threads /\ numThreads \in Nat /\ failures \in Nat
  BY ThreadsAssumption DEF TypeOK
<1>1. PICK l \in {"zombify", "count", "gone"} :
      /\ pc' = [pc EXCEPT ![Main] = l]
      /\ UNCHANGED <<group, cloneVars, pending, cause, signals>>
      /\ l = "zombify" => pc[Main] = "exit" /\ group = <<Main>>
      /\ l = "count" => pc[Main] = "zombify"
      /\ l = "gone" => pc[Main] = "count" /\ numThreads' = numThreads - 1
      /\ l # "gone" => numThreads' = numThreads
      /\ proc' = IF l = "count" THEN "zombie" ELSE proc
  <2>1. CASE Join
    BY <2>1 DEF Join, Goto, Alone
  <2>2. CASE Zombify
    BY <2>2 DEF Zombify, Goto
  <2>3. CASE MainCount
    BY <2>3 DEF MainCount, Goto
  <2>4. QED
    BY <2>1, <2>2, <2>3 DEF MainStep
<1>2. /\ \A v \in Threads : pc'[v] = IF v = Main THEN l ELSE pc[v]
      /\ child' = child /\ failures' = failures
      /\ pc[Main] \in {"exit", "zombify", "count"}
  BY <1>0, <1>1 DEF TypeOK, cloneVars
<1>3. Linked'
  BY <1>0, <1>1, <1>2 DEF Linked
<1>4. MainPlace'
  BY <1>0, <1>2 DEF MainPlace
<1>5. Cloning'
  <2>1. \A v \in Threads : child[v] \in Threads
    BY DEF TypeOK
  <2>2. QED
    BY <1>0, <1>2, <2>1 DEF Cloning
<1>6. CountExact' /\ numThreads' \in Nat
  <2>1. CASE l # "gone"
    <3>1. Counted' = Counted /\ Reserved' = Reserved
      BY <1>0, <1>2, <2>1 DEF Counted, Reserved
    <3>2. QED
      BY <1>0, <1>1, <1>2, <2>1, <3>1 DEF CountExact
  <2>2. CASE l = "gone"
    <3>1. Counted' = Counted \ {Main} /\ Main \in Counted /\ Reserved' = Reserved
      BY <1>0, <1>2, <2>2 DEF Counted, Reserved
    <3>2. Cardinality(Counted') = Cardinality(Counted) - 1 /\ Cardinality(Counted) >= 1
      BY <3>1, CountedFinite, OneLess
    <3>3. QED
      BY <1>0, <1>1, <1>2, <2>2, <3>1, <3>2, CountedFinite DEF CountExact
  <2>3. QED
    BY <2>1, <2>2
<1>7. TypeOK'
  <2>1. pc' \in [Threads -> Locations]
    BY <1>1 DEF TypeOK, Locations
  <2>2. QED
    BY <1>1, <1>2, <1>6, <2>1 DEF TypeOK
<1>8. \A v \in Threads \ {Main} : pc[v] \in {"none", "unlock", "gone"}
  <2>1. CASE l = "zombify"
    <3>1. ToSet(group) = {Main}
      <4>1. Len(group) = 1 /\ group[1] = Main /\ group \in Seq(Threads)
        BY <1>1, <2>1 DEF TypeOK
      <4>2. \A e : e \in ToSet(group) <=> \E i \in 1..1 : group[i] = e
        BY <4>1, ListElements
      <4>3. QED
        BY <4>1, <4>2
    <3>2. QED
      BY <3>1 DEF Linked
  <2>2. CASE l # "zombify"
    BY <1>1, <2>2 DEF Teardown, TeardownLast
  <2>3. QED
    BY <2>1, <2>2
<1>9. Teardown'
  <2>1. proc' # "live" => l \in {"count", "gone"}
    BY <1>1 DEF Teardown
  <2>2. QED
    BY <1>0, <1>2, <1>8, <2>1 DEF Teardown, TeardownLast
<1>10. Unsignalled'
  BY <1>0, <1>1, <1>2 DEF Unsignalled
<1>11. QED
  BY <1>3, <1>4, <1>5, <1>6, <1>7, <1>9, <1>10

-----------------------------------------------------------------------------
\* The invariant is kept by every step.
LEMMA NextInv == IInv /\ [Next]_vars => IInv'
<1> SUFFICES ASSUME IInv, [Next]_vars PROVE IInv'
  OBVIOUS
<1>1. ASSUME NEW t \in Threads, KernelStep(t) PROVE IInv'
  BY <1>1, CloneReserveInv, CloneNoMemoryInv, CloneLinkInv, CloneStartInv, BlockInv, KillInv,
     SignalProcessInv, ExitCountInv, ExitUnlinkInv, ExitUnlockInv DEF KernelStep
<1>2. ASSUME NEW t \in Threads,
             \/ CloneCheck(t) \/ BlockEnter(t) \/ Unblock(t)
             \/ Exit(t) \/ ExitGroup(t) \/ FatalSignal(t)
      PROVE  IInv'
  BY <1>2, CloneCheckInv, BlockInv, ExitInv, FatalSignalInv
<1>3. CASE MainStep
  BY <1>3, MainInv
<1>4. CASE Reap \/ UNCHANGED vars
  <2>1. /\ UNCHANGED <<group, numThreads, pc, cloneVars, pending, cause, signals>>
        /\ proc' \in {proc, "reaped"} /\ (proc' # "live" => proc # "live")
    BY <1>4 DEF Reap, vars
  <2>2. TypeOK'
    BY <2>1 DEF IInv, TypeOK, cloneVars
  <2>3. Counted' = Counted /\ Reserved' = Reserved
    BY <2>1 DEF Counted, Reserved
  <2>4. CountExact'
    BY <2>1, <2>3 DEF IInv, CountExact, cloneVars
  <2>5. Linked' /\ MainPlace' /\ Cloning'
    BY <2>1 DEF IInv, Linked, MainPlace, Cloning, cloneVars
  <2>6. Teardown' /\ Unsignalled'
    BY <2>1 DEF IInv, Teardown, TeardownLast, Unsignalled
  <2>7. QED
    BY <2>2, <2>4, <2>5, <2>6 DEF IInv
<1>5. QED
  BY <1>1, <1>2, <1>3, <1>4 DEF Next

\* The inductive invariant holds in every reachable state.
THEOREM Invariance == Spec => []IInv
<1>1. Init => IInv
  BY InitInv
<1>2. IInv /\ [Next]_vars => IInv'
  BY NextInv
<1>3. QED
  BY <1>1, <1>2, PTL DEF Spec

\* Every variable keeps its type: in particular _num_threads never falls below 0.
THEOREM TypeCorrect == Spec => []TypeOK
<1>1. IInv => TypeOK
  BY DEF IInv
<1>2. Spec => []IInv
  BY Invariance
<1>3. QED
  BY <1>1, <1>2, PTL

\* The group list holds the threads of the process and _num_threads counts them,
\* however clone and exit interleave; the main thread tears the process down last.
THEOREM GroupIsExact == Spec => []GroupExact
<1>1. IInv => GroupExact
  <2> SUFFICES ASSUME IInv PROVE GroupExact
    OBVIOUS
  <2>1. group \in Seq(Threads) /\ group # <<>> /\ group[1] = Main
    BY GroupFacts DEF IInv, Linked
  <2>2. Head(group) = Main
    BY <2>1
  <2>3. QED
    BY <2>2 DEF IInv, Linked, GroupExact, ListExact, Teardown
<1>2. Spec => []IInv
  BY Invariance
<1>3. QED
  BY <1>1, <1>2, PTL

\* A process that was sent no signal does not end by one, although its threads are
\* sent SIGKILL by exit_group.
THEOREM InternalKillIsInvisible == Spec => []InternalKillInvisible
<1>1. IInv => InternalKillInvisible
  BY DEF IInv, Unsignalled, InternalKillInvisible
<1>2. Spec => []IInv
  BY Invariance
<1>3. QED
  BY <1>1, <1>2, PTL

-----------------------------------------------------------------------------
(* The futexes, in configuration c *)

Fs(c) == Config[c].futexes

WaitPart == {"check", "process", "enqueue", "enter", "wait", "sleep", "awake"}
WakePart == {"select", "pick", "wake"}

\* The variables have their types.
FutexTypes(c) ==
    /\ f_word \in [Fs(c) -> {0, 1}]
    /\ f_owner \in [Fs(c) -> Waiters \cup {none}]
    /\ f_refs \in [Fs(c) -> Nat]
    /\ f_cqueue \in [Fs(c) -> Seq(Waiters)]
    /\ f_mqueue \in [Fs(c) -> Seq(Waiters)]
    /\ f_local \in [Waiters -> Seq(Waiters)]
    /\ f_moved \in [Waiters -> Seq(Waiters)]
    /\ f_onq \in [Waiters -> {"none", "cond", "mutex", "local"}]
    /\ f_qbits \in [Waiters -> SUBSET Config[c].bits]
    /\ f_event \in [Waiters -> Int]
    /\ f_pc \in [Waiters -> F(c)!Locations]
    /\ f_goal \in [Waiters -> [f : Fs(c) \cup {none}, next : F(c)!Locations]]
    /\ f_op \in [Waiters -> [kind : {"none", "wait", "wake", "release", "requeue"},
                             f : Fs(c) \cup {none}, f2 : Fs(c) \cup {none},
                             n : Nat, m : Nat, bits : SUBSET Config[c].bits,
                             timed : BOOLEAN]]
    /\ f_ret \in [Waiters -> {"ok", "again", "timedout", "intr"}]
    /\ f_target \in [Waiters -> Waiters \cup {none}]

\* The arguments of a call are those its kind takes.
Arguments(c) ==
    \A t \in Waiters :
        /\ f_op[t].kind # "none" => f_op[t].f \in Fs(c)
        /\ f_op[t].kind = "requeue" => f_op[t].f2 \in Fs(c)
        /\ f_op[t].kind = "wait" => f_op[t].bits # {}
        /\ f_op[t].kind = "release" => /\ f_op[t].n = Cardinality(Waiters)
                                       /\ f_op[t].bits = Config[c].bits

\* A thread that locks a mutex locks one of its call, and goes on where the call does.
Locking(t) ==
    \/ /\ f_op[t].kind = "wait"
       /\ f_goal[t].f = f_op[t].f /\ f_goal[t].next \in {"check", "unlock"}
    \/ /\ f_op[t].kind \in {"wake", "release"}
       /\ f_goal[t].f = f_op[t].f /\ f_goal[t].next = "select"
    \/ /\ f_op[t].kind = "requeue"
       /\ \/ f_goal[t].f = f_op[t].f /\ f_goal[t].next = "lock2"
          \/ f_goal[t].f = f_op[t].f2 /\ f_goal[t].next = "select"

\* A thread is where the kind of its call can take it.
Shape(c) ==
    \A t \in Waiters :
        /\ f_pc[t] = "run" => f_op[t].kind = "none"
        /\ f_pc[t] \in WaitPart => f_op[t].kind = "wait"
        /\ f_pc[t] \in WakePart => f_op[t].kind \in {"wake", "release", "requeue"}
        /\ f_pc[t] \in {"lock2", "requeue", "unlock2"} => f_op[t].kind = "requeue"
        /\ f_pc[t] = "unlock" => f_op[t].kind # "none"
        /\ f_pc[t] \in {"lock", "blocked"} => Locking(t)
        /\ f_pc[t] \notin {"lock", "blocked", "exited"} => f_goal[t].next = "run"

\* t holds the mutex of its first futex; a thread that is terminated while it
\* waits for the second one, or before it waits, keeps it
HoldsFirst(t) ==
    \/ f_pc[t] \in {"check", "process", "enqueue", "select", "pick", "wake", "lock2",
                    "requeue", "unlock"}
    \/ /\ f_pc[t] \in {"lock", "blocked", "exited"}
       /\ f_op[t].kind = "requeue" /\ f_goal[t].next = "select"
    \/ /\ f_pc[t] = "exited"
       /\ f_op[t].kind = "wait" /\ f_goal[t].next = "run"
HoldsSecond(t) ==
    /\ f_op[t].kind = "requeue"
    /\ f_pc[t] \in {"select", "pick", "wake", "requeue", "unlock", "unlock2"}

Holds(t, f) == (IF HoldsFirst(t) /\ f_op[t].f = f THEN 1 ELSE 0)
               + (IF HoldsSecond(t) /\ f_op[t].f2 = f THEN 1 ELSE 0)

\* The owner of a mutex is the thread that holds it, refs says how often.
Held(c) ==
    \A f \in Fs(c) :
        /\ f_owner[f] = none => f_refs[f] = 0
        /\ \A t \in Waiters : IF f_owner[f] = t
                              THEN f_refs[f] = Holds(t, f) /\ f_refs[f] # 0
                              ELSE Holds(t, f) = 0

\* Only the event of a thread that sleeps is -1.
Events ==
    \A t \in Waiters : f_event[t] >= -1 /\ (f_event[t] = -1 => f_pc[t] = "sleep")

\* Nobody is twice in a queue.
Distinct(c) ==
    /\ \A f \in Fs(c) : IsInjective(f_cqueue[f]) /\ IsInjective(f_mqueue[f])
    /\ \A u \in Waiters : IsInjective(f_local[u]) /\ IsInjective(f_moved[u])

\* A thread is in one queue only, the one its queue field says.
QueuedOnce(c, t) ==
    /\ \A f, g \in Fs(c) :
          t \in ToSet(f_cqueue[f]) /\ t \in ToSet(f_cqueue[g]) => f = g
    /\ \A u, v \in Waiters :
          /\ t \in ToSet(f_local[u]) /\ t \in ToSet(f_local[v]) => u = v
          /\ t \in ToSet(f_moved[u]) /\ t \in ToSet(f_moved[v]) => u = v
          /\ t \in ToSet(f_local[u]) => t \notin ToSet(f_moved[v])
QueuedWhere(c, t) ==
    /\ f_onq[t] = "cond" <=> \E f \in Fs(c) : t \in ToSet(f_cqueue[f])
    /\ f_onq[t] = "mutex" <=> \E f \in Fs(c) : t \in ToSet(f_mqueue[f])
    /\ f_onq[t] = "local" <=> \E u \in Waiters : \/ t \in ToSet(f_local[u])
                                                \/ t \in ToSet(f_moved[u])
Queued(c) == \A t \in Waiters : QueuedOnce(c, t) /\ QueuedWhere(c, t)

\* A thread in a queue of a mutex is blocked on it, and a waker that has threads in
\* queues of its own is on its way through them.
Places(c) ==
    \A t \in Waiters :
        /\ \A f \in Fs(c) : t \in ToSet(f_mqueue[f]) =>
              f_pc[t] = "blocked" /\ f_goal[t].f = f
        /\ \A u \in Waiters :
              /\ t \in ToSet(f_local[u]) => f_pc[u] \in {"pick", "wake"}
              /\ t \in ToSet(f_moved[u]) => /\ f_pc[u] \in {"pick", "wake", "requeue"}
                                            /\ f_op[u].kind = "requeue"
        /\ f_target[t] # none => f_pc[t] = "wake"

\* A thread that left the queue is about to be woken, or its event says so already.
AboutToWake ==
    \A t \in Waiters : f_onq[t] = "none" =>
        /\ f_pc[t] \in {"enter", "wait"} =>
              f_event[t] >= 1 \/ \E u \in Waiters : f_target[u] = t
        /\ f_pc[t] = "sleep" /\ f_event[t] = -1 => \E u \in Waiters : f_target[u] = t

FutexInv(c) ==
    /\ FutexTypes(c) /\ Arguments(c) /\ Shape(c) /\ Held(c) /\ Events
    /\ Distinct(c) /\ Queued(c) /\ Places(c) /\ AboutToWake

-----------------------------------------------------------------------------
(* ... without signals and requeues *)

\* No signal is ever sent and nobody requeues.
Quiet ==
    /\ f_signals = 0
    /\ f_pending = [t \in Waiters |-> FALSE]
    /\ \A t \in Waiters : f_pc[t] # "exited" /\ f_op[t].kind # "requeue"

\* t waits on f: it has not got the mutex of f back
InWait(t, f) ==
    /\ f_op[t].kind = "wait" /\ f_op[t].f = f
    /\ \/ f_pc[t] \in {"enter", "wait", "sleep", "awake"}
       \/ f_pc[t] \in {"lock", "blocked"} /\ f_goal[t].next = "unlock"

\* t waits in the queue of f
Sits(t, f) ==
    /\ f_op[t].kind = "wait" /\ f_op[t].f = f
    /\ f_pc[t] \in {"enter", "wait", "sleep", "awake"}
    /\ f_qbits[t] = f_op[t].bits

\* the waker u took t from the queue and has not woken it
Taken(u, t) == t \in ToSet(f_local[u]) \/ f_target[u] = t

\* A thread in the queue of a futex, or that was taken from it and not woken yet,
\* waits on that futex.
Waiting(c) ==
    \A t \in Waiters :
        /\ \A f \in Fs(c) : t \in ToSet(f_cqueue[f]) => Sits(t, f)
        /\ \A u \in Waiters : Taken(u, t) => InWait(t, f_op[u].f)

\* u has changed the word of f and has not been through its queue
Releasing(u, f) ==
    /\ f_op[u].kind = "release" /\ f_op[u].f = f
    /\ f_pc[u] \in {"lock", "blocked", "select", "exited"}

\* t has seen the old value of f and is about to join the queue
Joining(t, f) == f_pc[t] \in {"process", "enqueue"} /\ f_op[t].f = f

\* A thread that waits on f, or is about to, for a value that has changed is going to
\* be found by the one that changed it.
Fresh(c) ==
    \A f \in Fs(c) : f_word[f] = 1 =>
        \A t \in Waiters : t \in ToSet(f_cqueue[f]) \/ Joining(t, f) =>
            \E u \in Waiters : Releasing(u, f)

PlainInv(c) == Plain(c) => Quiet /\ Waiting(c) /\ Fresh(c)

-----------------------------------------------------------------------------
(* Parts of a queue *)

\* The place of i among the positions in I.
Rank(I, i) == Cardinality({j \in I : j <= i})

\* The positions in I are counted 1, 2, ... up to their number.
LEMMA Ranks ==
    ASSUME NEW n \in Nat, NEW I \in SUBSET (1..n)
    PROVE  /\ IsFiniteSet(I) /\ Cardinality(I) \in Nat
           /\ \A i \in I : Rank(I, i) \in 1..Cardinality(I)
           /\ \A i, j \in I : Rank(I, i) = Rank(I, j) => i = j
           /\ \A k \in 1..Cardinality(I) : \E i \in I : Rank(I, i) = k
<1>1. IsFiniteSet(I) /\ Cardinality(I) \in Nat
  <2>1. IsFiniteSet(1..n)
    BY FS_Interval
  <2>2. QED
    BY <2>1, FS_Subset, FS_CardinalityType
<1>2. ASSUME NEW i \in I
      PROVE  /\ IsFiniteSet({j \in I : j <= i}) /\ Rank(I, i) \in Nat
             /\ Rank(I, i) \in 1..Cardinality(I)
  <2> DEFINE L == {j \in I : j <= i}
  <2>1. L \in SUBSET I /\ i \in L
    OBVIOUS
  <2>2. IsFiniteSet(L) /\ Cardinality(L) <= Cardinality(I) /\ Cardinality(L) \in Nat
    BY <1>1, <2>1, FS_Subset, FS_CardinalityType
  <2>3. Cardinality(L) # 0
    BY <2>1, <2>2, FS_EmptySet
  <2>4. Rank(I, i) = Cardinality(L)
    BY DEF Rank
  <2> HIDE DEF L
  <2>5. QED
    BY <1>1, <2>2, <2>3, <2>4 DEF L
<1>3. ASSUME NEW i \in I, NEW j \in I, i < j PROVE Rank(I, i) # Rank(I, j)
  <2> DEFINE L == {k \in I : k <= i}
             M == {k \in I : k <= j}
  <2>0. i \in Int /\ j \in Int /\ \A k \in I : k \in Int /\ (k <= i => k <= j)
    BY <1>3
  <2>1. L \in SUBSET M /\ j \in M /\ j \notin L
    <3>1. j <= j /\ ~(j <= i)
      BY <1>3, <2>0
    <3>2. QED
      BY <2>0, <3>1
  <2>2. IsFiniteSet(M) /\ (Cardinality(M) = Cardinality(L) => M = L)
    BY <1>2, <2>1, FS_Subset
  <2>3. QED
    BY <2>1, <2>2 DEF Rank
<1>4. ASSUME NEW i \in I, NEW j \in I, Rank(I, i) = Rank(I, j) PROVE i = j
  <2>1. i \in Int /\ j \in Int
    OBVIOUS
  <2>2. ~(i < j) /\ ~(j < i)
    BY <1>3, <1>4
  <2>3. QED
    BY <2>1, <2>2
<1>5. \A k \in 1..Cardinality(I) : \E i \in I : Rank(I, i) = k
  <2> DEFINE r == [i \in I |-> Rank(I, i)]
             T == 1..Cardinality(I)
  <2>0. \A i \in I : Rank(I, i) \in T
    BY <1>2
  <2>1. r \in Injection(I, T)
    BY <1>4, <2>0 DEF Injection, IsInjective
  <2>2. IsFiniteSet(T) /\ Cardinality(T) = Cardinality(I)
    BY <1>1, FS_Interval
  <2>3. r \in Surjection(I, T)
    <3> HIDE DEF r, T
    <3>1. QED
      BY <2>1, <2>2, FS_Injection
  <2>4. QED
    BY <2>3 DEF Surjection
<1>6. QED
  BY <1>1, <1>2, <1>4, <1>5

\* Both modules count with the same Cardinality.
LEMMA SameCardinality ==
    ASSUME NEW c, NEW S PROVE F(c)!Cardinality(S) = Cardinality(S)
  BY DEF F!Cardinality, Cardinality

\* Futex!Range and ToSet are the threads in a queue.
LEMMA InQueue ==
    ASSUME NEW c, NEW q \in Seq(Waiters)
    PROVE  /\ F(c)!Range(q) = ToSet(q) /\ ToSet(q) \subseteq Waiters
           /\ Len(q) \in Nat
           /\ \A t : t \in ToSet(q) <=> \E i \in 1..Len(q) : q[i] = t
<1>1. F(c)!Range(q) = ToSet(q)
  BY DEF F!Range, ToSet
<1>2. QED
  BY <1>1, ListElements

\* Nobody is in an empty queue.
LEMMA EmptyQueue == ToSet(<<>>) = {}
  BY DEF ToSet

\* A part of a queue is a queue of the threads at these positions.
LEMMA PartFacts ==
    ASSUME NEW c, NEW q \in Seq(Waiters), IsInjective(q), NEW I \in SUBSET (1..Len(q))
    PROVE  /\ F(c)!Part(q, I) \in Seq(Waiters)
           /\ IsInjective(F(c)!Part(q, I))
           /\ ToSet(F(c)!Part(q, I)) = {q[i] : i \in I}
           /\ Len(F(c)!Part(q, I)) = Cardinality(I)
<1> DEFINE n == Cardinality(I)
           p == [k \in 1..n |-> CHOOSE i \in I : Rank(I, i) = k]
           r == F(c)!Part(q, I)
<1>1. n \in Nat /\ \A k \in 1..n : p[k] \in I /\ Rank(I, p[k]) = k
  BY InQueue, Ranks
<1>2. r = [k \in 1..n |-> q[p[k]]]
  BY DEF F!Part, Rank, F!Cardinality, Cardinality
<1>3. \A i \in I : Rank(I, i) \in 1..n /\ p[Rank(I, i)] = i
  <2> TAKE i \in I
  <2>1. Rank(I, i) \in 1..n
    BY InQueue, Ranks
  <2>2. p[Rank(I, i)] \in I /\ Rank(I, p[Rank(I, i)]) = Rank(I, i)
    BY <1>1, <2>1
  <2>3. QED
    BY <2>1, <2>2, InQueue, Ranks
<1> HIDE DEF n, p, r
<1>4. /\ \A i \in 1..Len(q) : q[i] \in Waiters
      /\ \A i, j \in 1..Len(q) : q[i] = q[j] => i = j
  BY ListElements, ElementOfSeq
<1>5. r \in Seq(Waiters) /\ Len(r) = n
  <2>1. \A k \in 1..n : q[p[k]] \in Waiters
    BY <1>1, <1>4
  <2>2. QED
    BY <1>1, <1>2, <2>1
<1>6. IsInjective(r)
  <2>1. ASSUME NEW j \in 1..n, NEW k \in 1..n, r[j] = r[k] PROVE j = k
    <3>1. q[p[j]] = q[p[k]] /\ p[j] \in 1..Len(q) /\ p[k] \in 1..Len(q)
      BY <1>1, <1>2, <2>1
    <3>2. p[j] = p[k]
      BY <1>4, <3>1
    <3>3. QED
      BY <1>1, <3>2
  <2>2. QED
    BY <1>5, <2>1, ListElements
<1>7. ToSet(r) = {q[i] : i \in I}
  <2>1. \A t : t \in ToSet(r) <=> \E k \in 1..n : r[k] = t
    BY <1>5, InQueue
  <2>2. ASSUME NEW k \in 1..n PROVE r[k] \in {q[i] : i \in I}
    BY <1>1, <1>2
  <2>3. ASSUME NEW i \in I PROVE \E k \in 1..n : r[k] = q[i]
    BY <1>2, <1>3
  <2>4. QED
    BY <2>1, <2>2, <2>3
<1>8. QED
  BY <1>5, <1>6, <1>7 DEF r, n

\* Threads that leave a queue.
LEMMA WithoutFacts ==
    ASSUME NEW c, NEW q \in Seq(Waiters), IsInjective(q), NEW U
    PROVE  /\ F(c)!Without(q, U) \in Seq(Waiters)
           /\ IsInjective(F(c)!Without(q, U))
           /\ ToSet(F(c)!Without(q, U)) = ToSet(q) \ U
<1> DEFINE I == {i \in 1..Len(q) : q[i] \notin U}
<1>1. F(c)!Without(q, U) = F(c)!Part(q, I)
  BY DEF F!Without
<1>2. I \in SUBSET (1..Len(q))
  OBVIOUS
<1>3. {q[i] : i \in I} = ToSet(q) \ U
  BY InQueue
<1> HIDE DEF I
<1>4. QED
  BY <1>1, <1>2, <1>3, PartFacts

\* The first n positions are some of them; the first one is one.
LEMMA FirstFacts ==
    ASSUME NEW c, NEW l \in Nat, NEW I \in SUBSET (1..l), NEW n
    PROVE  /\ F(c)!First(I, n) \in SUBSET I
           /\ n = 1 => \A i, j \in F(c)!First(I, n) : i = j
<1>1. F(c)!First(I, n) = {i \in I : Rank(I, i) <= n}
  BY SameCardinality DEF F!First, Rank
<1>2. ASSUME n = 1, NEW i \in F(c)!First(I, n), NEW j \in F(c)!First(I, n) PROVE i = j
  <2>1. i \in I /\ j \in I /\ Rank(I, i) <= 1 /\ Rank(I, j) <= 1
    BY <1>1, <1>2
  <2>2. /\ Cardinality(I) \in Nat
        /\ Rank(I, i) \in 1..Cardinality(I) /\ Rank(I, j) \in 1..Cardinality(I)
        /\ Rank(I, i) = Rank(I, j) => i = j
    BY <2>1, Ranks
  <2>3. QED
    BY <2>1, <2>2
<1>3. QED
  BY <1>1, <1>2

\* The chosen waiters are in the queue.
LEMMA ChosenFacts ==
    ASSUME NEW c, NEW q \in Seq(Waiters), IsInjective(q), NEW b, NEW n
    PROVE  /\ F(c)!Chosen(q, b, n) \in Seq(Waiters)
           /\ IsInjective(F(c)!Chosen(q, b, n))
           /\ ToSet(F(c)!Chosen(q, b, n)) \subseteq ToSet(q)
           /\ n = 1 /\ F(c)!Chosen(q, b, n) # <<>> =>
                 /\ Head(F(c)!Chosen(q, b, n)) \in Waiters
                 /\ ToSet(F(c)!Chosen(q, b, n)) = {Head(F(c)!Chosen(q, b, n))}
           /\ F(c)!Chosen(q, b, n) = <<>> => ToSet(F(c)!Chosen(q, b, n)) = {}
<1> DEFINE J == F(c)!Matching(q, b)
           I == F(c)!First(J, n)
           r == F(c)!Chosen(q, b, n)
<1>1. J \in SUBSET (1..Len(q)) /\ Len(q) \in Nat
  BY InQueue DEF F!Matching
<1>2. I \in SUBSET (1..Len(q)) /\ (n = 1 => \A i, j \in I : i = j)
  <2> HIDE DEF J
  <2>1. QED
    BY <1>1, FirstFacts
<1>3. r = F(c)!Part(q, I)
  BY DEF F!Chosen
<1> HIDE DEF I, J, r
<1>4. r \in Seq(Waiters) /\ IsInjective(r) /\ ToSet(r) = {q[i] : i \in I}
  BY <1>2, <1>3, PartFacts
<1>5. ToSet(r) \subseteq ToSet(q)
  BY <1>2, <1>4, InQueue
<1>6. ASSUME n = 1, r # <<>> PROVE Head(r) \in Waiters /\ ToSet(r) = {Head(r)}
  <2>1. 1 \in 1..Len(r) /\ r[1] = Head(r) /\ r[1] \in Waiters
    BY <1>4, <1>6, ElementOfSeq, EmptySeq
  <2>2. r[1] \in ToSet(r)
    BY <1>4, <2>1, InQueue
  <2>3. \A x, y \in ToSet(r) : x = y
    BY <1>2, <1>4, <1>6
  <2>4. QED
    BY <2>1, <2>2, <2>3
<1>7. r = <<>> => ToSet(r) = {}
  BY EmptyQueue
<1>8. QED
  BY <1>4, <1>5, <1>6, <1>7 DEF r

-----------------------------------------------------------------------------
(* Steps that leave the queues and mutexes alone *)

USE DEF F!lockVars, F!queueVars, F!signalVars, F!sleepVars, F!wakerVars, F!callVars

\* A step of a thread that moves on with the mutexes it holds, and is neither in the
\* queue of a mutex nor a waker on its way.
LEMMA FutexCalm ==
    ASSUME NEW c \in Cases, FutexInv(c), NEW t \in Waiters, NEW l,
           UNCHANGED <<f_cqueue, f_mqueue, f_local, f_moved, f_onq, f_owner, f_refs,
                       f_target>>,
           f_pc' = [f_pc EXCEPT ![t] = l],
           f_pc[t] \notin {"blocked", "pick", "wake", "requeue"},
           \A u \in Waiters : u # t => f_op'[u] = f_op[u] /\ f_goal'[u] = f_goal[u],
           \A f \in Fs(c) : Holds(t, f)' = Holds(t, f)
    PROVE  Held(c)' /\ Distinct(c)' /\ Queued(c)' /\ Places(c)'
<1>1. f_pc'[t] = l /\ \A u \in Waiters : u # t => f_pc'[u] = f_pc[u]
  BY DEF FutexInv, FutexTypes
<1>2. \A u \in Waiters, f \in Fs(c) : Holds(u, f)' = Holds(u, f)
  BY <1>1 DEF Holds, HoldsFirst, HoldsSecond
<1>3. Held(c)'
  BY <1>2 DEF FutexInv, Held
<1>4. Distinct(c)' /\ Queued(c)'
  BY DEF FutexInv, Distinct, Queued, QueuedOnce, QueuedWhere
<1>5. Places(c)'
  BY <1>1 DEF FutexInv, Places
<1>6. QED
  BY <1>3, <1>4, <1>5

LEMMA WaitCheckInv ==
    ASSUME NEW c \in Cases, FutexInv(c), NEW t \in Waiters, F(c)!WaitCheck(t)
    PROVE  FutexInv(c)'
<1> USE DEF FutexInv
<1>1. PICK l \in {"process", "unlock"} : f_pc' = [f_pc EXCEPT ![t] = l]
  BY DEF F!WaitCheck, F!Goto
<1>2. /\ f_pc[t] = "check"
      /\ UNCHANGED <<f_word, f_owner, f_refs, f_mqueue, f_cqueue, f_onq, f_qbits,
                     f_event, f_local, f_moved, f_target, f_op, f_goal>>
      /\ f_ret' = f_ret \/ f_ret' = [f_ret EXCEPT ![t] = "again"]
  BY DEF F!WaitCheck
<1>3. FutexTypes(c)' /\ Arguments(c)'
  BY <1>1, <1>2 DEF FutexTypes, Arguments, F!Locations
<1>4. Shape(c)'
  <2>1. f_pc'[t] = l /\ \A u \in Waiters : u # t => f_pc'[u] = f_pc[u]
    BY <1>1 DEF FutexTypes
  <2>2. QED
    BY <1>1, <1>2, <2>1 DEF Shape, Locking, WaitPart, WakePart
<1>5. Events' /\ AboutToWake'
  BY <1>1, <1>2 DEF FutexTypes, Events, AboutToWake
<1>6. \A f \in Fs(c) : Holds(t, f)' = Holds(t, f)
  BY <1>1, <1>2 DEF FutexTypes, Shape, WaitPart, Holds, HoldsFirst, HoldsSecond
<1>7. QED
  BY <1>1, <1>2, <1>3, <1>4, <1>5, <1>6, FutexCalm

LEMMA WaitProcessInv ==
    ASSUME NEW c \in Cases, FutexInv(c), NEW t \in Waiters, F(c)!WaitProcess(t)
    PROVE  FutexInv(c)'
<1> USE DEF FutexInv
<1>1. PICK l \in {"enqueue", "exited"} : f_pc' = [f_pc EXCEPT ![t] = l]
  BY DEF F!WaitProcess, F!Goto
<1>2. /\ f_pc[t] = "process"
      /\ UNCHANGED <<f_word, f_owner, f_refs, f_mqueue, f_cqueue, f_onq, f_qbits,
                     f_event, f_local, f_moved, f_target, f_op, f_goal, f_ret>>
  BY DEF F!WaitProcess
<1>3. FutexTypes(c)' /\ Arguments(c)'
  BY <1>1, <1>2 DEF FutexTypes, Arguments, F!Locations
<1>4. Shape(c)'
  <2>1. f_pc'[t] = l /\ \A u \in Waiters : u # t => f_pc'[u] = f_pc[u]
    BY <1>1 DEF FutexTypes
  <2>2. QED
    BY <1>1, <1>2, <2>1 DEF Shape, Locking, WaitPart, WakePart
<1>5. Events' /\ AboutToWake'
  BY <1>1, <1>2 DEF FutexTypes, Events, AboutToWake
<1>6. \A f \in Fs(c) : Holds(t, f)' = Holds(t, f)
  BY <1>1, <1>2 DEF FutexTypes, Shape, WaitPart, Holds, HoldsFirst, HoldsSecond
<1>7. QED
  BY <1>1, <1>2, <1>3, <1>4, <1>5, <1>6, FutexCalm

\* The steps of a wait on its event.
LEMMA SleepInv ==
    ASSUME NEW c \in Cases, FutexInv(c), NEW t \in Waiters,
           \/ F(c)!WaitEnter(t) \/ F(c)!TcallWait(t) \/ F(c)!TcallReturn(t)
           \/ F(c)!TcallTimeout(t)
    PROVE  FutexInv(c)'
<1> USE DEF FutexInv
<1> DEFINE l == IF f_pc[t] = "enter" THEN "wait"
                ELSE IF f_pc[t] = "wait" /\ f_event[t] = 0 THEN "sleep" ELSE "awake"
<1>1. /\ f_pc[t] \in {"enter", "wait", "sleep"}
      /\ f_pc' = [f_pc EXCEPT ![t] = l]
      /\ UNCHANGED <<f_word, f_owner, f_refs, f_mqueue, f_cqueue, f_onq, f_qbits,
                     f_local, f_moved, f_target, f_op, f_goal>>
      /\ f_ret' = f_ret \/ f_ret' = [f_ret EXCEPT ![t] = "timedout"]
  BY DEF F!WaitEnter, F!TcallWait, F!TcallReturn, F!TcallTimeout, F!Goto
<1>2. \/ f_pc[t] = "enter" /\ f_event' = f_event
      \/ f_pc[t] = "wait" /\ f_event' = [f_event EXCEPT ![t] = @ - 1]
      \/ f_pc[t] = "sleep" /\ f_event[t] # -1 /\ f_event' = f_event
      \/ f_pc[t] = "sleep" /\ f_event[t] = -1 /\ f_event' = [f_event EXCEPT ![t] = 0]
  <2>1. CASE F(c)!WaitEnter(t)
    BY <2>1 DEF F!WaitEnter
  <2>2. CASE F(c)!TcallWait(t)
    BY <2>2 DEF F!TcallWait
  <2>3. CASE F(c)!TcallReturn(t)
    BY <2>3 DEF F!TcallReturn
  <2>4. CASE F(c)!TcallTimeout(t)
    BY <2>4 DEF F!TcallTimeout, F!ResetEvent, FutexTypes
  <2>5. QED
    BY <2>1, <2>2, <2>3, <2>4
<1>3. l \in {"wait", "sleep", "awake"} /\ (l = "sleep" => f_pc[t] = "wait" /\ f_event[t] = 0)
      /\ (f_pc[t] = "enter" <=> l = "wait") /\ (f_pc[t] = "wait" /\ f_event[t] = 0 => l = "sleep")
  BY <1>1
<1> HIDE DEF l
<1>4. FutexTypes(c)' /\ Arguments(c)'
  <2>1. f_pc' \in [Waiters -> F(c)!Locations]
    BY <1>1, <1>3 DEF FutexTypes, F!Locations
  <2>2. f_event' \in [Waiters -> Int]
    BY <1>2 DEF FutexTypes
  <2>3. QED
    BY <1>1, <2>1, <2>2 DEF FutexTypes, Arguments
<1>5. Shape(c)'
  BY <1>1, <1>3 DEF FutexTypes, Shape, Locking, WaitPart, WakePart
<1>6. Events'
  BY <1>1, <1>2, <1>3 DEF FutexTypes, Events
<1>7. AboutToWake'
  BY <1>1, <1>2, <1>3 DEF FutexTypes, Events, AboutToWake
<1>8. \A f \in Fs(c) : Holds(t, f)' = Holds(t, f)
  BY <1>1, <1>3 DEF FutexTypes, Shape, WaitPart, Holds, HoldsFirst, HoldsSecond
<1>9. QED
  BY <1>1, <1>4, <1>5, <1>6, <1>7, <1>8, FutexCalm

\* The arguments of a call.
LEMMA CallArguments ==
    ASSUME NEW c \in Cases, NEW t \in Waiters,
           F(c)!WaitCall(t) \/ F(c)!WakeCall(t) \/ F(c)!RequeueCall(t)
    PROVE  \E o, f, l :
              /\ F(c)!Call(t, o, f, l)
              /\ o \in [kind : {"wait", "wake", "release", "requeue"},
                        f : Fs(c), f2 : Fs(c) \cup {none}, n : Nat, m : Nat,
                        bits : SUBSET Config[c].bits, timed : BOOLEAN]
              /\ o.f = f
              /\ o.kind = "wait" => o.bits # {} /\ l = "check"
              /\ o.kind \in {"wake", "release"} => l = "select"
              /\ o.kind = "requeue" => o.f2 \in Fs(c) /\ l = "lock2"
              /\ o.kind = "release" => o.n = Cardinality(Waiters)
                                       /\ o.bits = Config[c].bits
              /\ \/ UNCHANGED f_word
                 \/ o.kind = "release" /\ f_word' = [f_word EXCEPT ![f] = 1]
<1>1. CASE F(c)!WaitCall(t)
  BY <1>1, ConfigAssumption DEF F!WaitCall, F!NoOp, F!Timed, Fs
<1>2. CASE F(c)!WakeCall(t)
  <2>1. Cardinality(Waiters) \in Nat
    BY WaitersAssumption, FS_CardinalityType
  <2>2. QED
    <3>1. CASE \E f \in Fs(c), b \in Config[c].wakeSets, n \in Config[c].counts :
                  /\ F(c)!Call(t, [F(c)!NoOp EXCEPT !.kind = "wake", !.f = f, !.bits = b,
                                                   !.n = n], f, "select")
                  /\ UNCHANGED f_word
      BY <3>1, ConfigAssumption DEF F!NoOp, Fs
    <3>2. CASE \E f \in Fs(c) :
                  /\ F(c)!Call(t, [F(c)!NoOp EXCEPT !.kind = "release", !.f = f,
                                                   !.bits = Config[c].bits,
                                                   !.n = Cardinality(Waiters)], f, "select")
                  /\ f_word' = [f_word EXCEPT ![f] = 1]
      <4>1. PICK f \in Fs(c) :
                  /\ F(c)!Call(t, [F(c)!NoOp EXCEPT !.kind = "release", !.f = f,
                                                   !.bits = Config[c].bits,
                                                   !.n = Cardinality(Waiters)], f, "select")
                  /\ f_word' = [f_word EXCEPT ![f] = 1]
        BY <3>2
      <4> DEFINE o == [F(c)!NoOp EXCEPT !.kind = "release", !.f = f,
                                        !.bits = Config[c].bits, !.n = Cardinality(Waiters)]
      <4>2. /\ o \in [kind : {"wait", "wake", "release", "requeue"},
                      f : Fs(c), f2 : Fs(c) \cup {none}, n : Nat, m : Nat,
                      bits : SUBSET Config[c].bits, timed : BOOLEAN]
            /\ o.f = f /\ o.kind = "release" /\ o.bits = Config[c].bits
            /\ o.n = Cardinality(Waiters)
        BY <2>1 DEF F!NoOp
      <4>3. F(c)!Call(t, o, f, "select")
        BY <4>1
      <4> HIDE DEF o
      <4>4. QED
        BY <4>1, <4>2, <4>3
    <3>3. F(c)!Cardinality(Waiters) = Cardinality(Waiters)
      BY SameCardinality
    <3>4. QED
      BY <1>2, <3>1, <3>2, <3>3, Zenon DEF F!WakeCall, F!MatchAny, Fs
<1>3. CASE F(c)!RequeueCall(t)
  BY <1>3, ConfigAssumption DEF F!RequeueCall, F!NoOp, Fs
<1>4. QED
  BY <1>1, <1>2, <1>3

\* A call begins.
LEMMA CallInv ==
    ASSUME NEW c \in Cases, FutexInv(c), NEW t \in Waiters,
           F(c)!WaitCall(t) \/ F(c)!WakeCall(t) \/ F(c)!RequeueCall(t)
    PROVE  FutexInv(c)'
<1> USE DEF FutexInv
<1>1. PICK o, f, l : /\ F(c)!Call(t, o, f, l)
                     /\ o \in [kind : {"wait", "wake", "release", "requeue"},
                               f : Fs(c), f2 : Fs(c) \cup {none}, n : Nat, m : Nat,
                               bits : SUBSET Config[c].bits, timed : BOOLEAN]
                     /\ o.f = f
                     /\ o.kind = "wait" => o.bits # {} /\ l = "check"
                     /\ o.kind \in {"wake", "release"} => l = "select"
                     /\ o.kind = "requeue" => o.f2 \in Fs(c) /\ l = "lock2"
                     /\ o.kind = "release" => o.n = Cardinality(Waiters)
                                              /\ o.bits = Config[c].bits
                     /\ \/ UNCHANGED f_word
                        \/ o.kind = "release" /\ f_word' = [f_word EXCEPT ![f] = 1]
  BY CallArguments
<1>2. /\ f_pc[t] = "run"
      /\ f_pc' = [f_pc EXCEPT ![t] = "lock"]
      /\ f_goal' = [f_goal EXCEPT ![t] = [f |-> f, next |-> l]]
      /\ f_op' = [f_op EXCEPT ![t] = o]
      /\ UNCHANGED <<f_owner, f_refs, f_mqueue, f_cqueue, f_onq, f_qbits, f_event,
                     f_local, f_moved, f_target, f_ret>>
  BY <1>1 DEF F!Call, F!GotoLocked, F!Goto
<1>3. l \in F(c)!Locations /\ f \in Fs(c)
  BY <1>1 DEF F!Locations
<1>4. FutexTypes(c)'
  BY <1>1, <1>2, <1>3 DEF FutexTypes, F!Locations
<1>5. Arguments(c)' /\ Shape(c)'
  <2>1. /\ f_pc'[t] = "lock" /\ f_op'[t] = o /\ f_goal'[t] = [f |-> f, next |-> l]
        /\ \A u \in Waiters : u # t => /\ f_pc'[u] = f_pc[u] /\ f_op'[u] = f_op[u]
                                       /\ f_goal'[u] = f_goal[u]
    BY <1>2 DEF FutexTypes
  <2>2. Arguments(c)'
    BY <1>1, <2>1 DEF Arguments
  <2>3. Shape(c)'
    BY <1>1, <2>1 DEF Shape, Locking, WaitPart, WakePart
  <2>4. QED
    BY <2>2, <2>3
<1>6. Events' /\ AboutToWake'
  BY <1>2 DEF FutexTypes, Events, AboutToWake
<1>7. \A g \in Fs(c) : Holds(t, g)' = Holds(t, g)
  BY <1>1, <1>2 DEF FutexTypes, Shape, Holds, HoldsFirst, HoldsSecond
<1>8. Held(c)' /\ Distinct(c)' /\ Queued(c)' /\ Places(c)'
  <2>1. \A u \in Waiters : u # t => f_op'[u] = f_op[u] /\ f_goal'[u] = f_goal[u]
    BY <1>2 DEF FutexTypes
  <2>2. QED
    BY <1>2, <1>7, <2>1, FutexCalm
<1>9. QED
  BY <1>4, <1>5, <1>6, <1>8

LEMMA RequeueLock2Inv ==
    ASSUME NEW c \in Cases, FutexInv(c), NEW t \in Waiters, F(c)!RequeueLock2(t)
    PROVE  FutexInv(c)'
<1> USE DEF FutexInv
<1>1. /\ f_pc[t] = "lock2"
      /\ f_pc' = [f_pc EXCEPT ![t] = "lock"]
      /\ f_goal' = [f_goal EXCEPT ![t] = [f |-> f_op[t].f2, next |-> "select"]]
      /\ UNCHANGED <<f_word, f_owner, f_refs, f_mqueue, f_cqueue, f_onq, f_qbits,
                     f_event, f_local, f_moved, f_target, f_op, f_ret>>
  BY DEF F!RequeueLock2, F!GotoLocked, F!Goto
<1>2. f_op[t].kind = "requeue" /\ f_op[t].f2 \in Fs(c)
  BY <1>1 DEF Shape, Arguments
<1>3. /\ f_pc'[t] = "lock" /\ f_goal'[t] = [f |-> f_op[t].f2, next |-> "select"]
      /\ \A u \in Waiters : u # t => f_pc'[u] = f_pc[u] /\ f_goal'[u] = f_goal[u]
  BY <1>1 DEF FutexTypes
<1>4. FutexTypes(c)' /\ Arguments(c)'
  BY <1>1, <1>2 DEF FutexTypes, Arguments, F!Locations
<1>5. Shape(c)'
  BY <1>1, <1>2, <1>3 DEF Shape, Locking, WaitPart, WakePart
<1>6. Events' /\ AboutToWake'
  BY <1>1, <1>3 DEF Events, AboutToWake
<1>7. \A f \in Fs(c) : Holds(t, f)' = Holds(t, f)
  BY <1>1, <1>2, <1>3 DEF Holds, HoldsFirst, HoldsSecond
<1>8. QED
  BY <1>1, <1>3, <1>4, <1>5, <1>6, <1>7, FutexCalm

LEMMA SyscallSignalProcessInv ==
    ASSUME NEW c \in Cases, FutexInv(c), NEW t \in Waiters, F(c)!SyscallSignalProcess(t)
    PROVE  FutexInv(c)'
<1> USE DEF FutexInv
<1>1. PICK l \in {"run", "exited"} : f_pc' = [f_pc EXCEPT ![t] = l]
  BY DEF F!SyscallSignalProcess, F!Goto
<1>2. /\ f_pc[t] = "run"
      /\ UNCHANGED <<f_word, f_owner, f_refs, f_mqueue, f_cqueue, f_onq, f_qbits,
                     f_event, f_local, f_moved, f_target, f_op, f_goal, f_ret>>
  BY DEF F!SyscallSignalProcess
<1>3. f_pc'[t] = l /\ \A u \in Waiters : u # t => f_pc'[u] = f_pc[u]
  BY <1>1 DEF FutexTypes
<1>4. FutexTypes(c)' /\ Arguments(c)'
  BY <1>1, <1>2 DEF FutexTypes, Arguments, F!Locations
<1>5. Shape(c)'
  BY <1>2, <1>3 DEF Shape, Locking, WaitPart, WakePart
<1>6. Events' /\ AboutToWake'
  BY <1>2, <1>3 DEF Events, AboutToWake
<1>7. \A f \in Fs(c) : Holds(t, f)' = Holds(t, f)
  BY <1>2, <1>3 DEF Shape, Holds, HoldsFirst, HoldsSecond
<1>8. QED
  BY <1>1, <1>2, <1>4, <1>5, <1>6, <1>7, FutexCalm

\* A signal or the host changes the event of a thread, or nothing of all this.
LEMMA OutsideInv ==
    ASSUME NEW c \in Cases, FutexInv(c), NEW t \in Waiters,
           F(c)!StrayWake(t) \/ F(c)!DeliverSignal(t) \/ F(c)!DeliverWake(t)
    PROVE  FutexInv(c)'
<1> USE DEF FutexInv
<1>1. UNCHANGED <<f_word, f_owner, f_refs, f_mqueue, f_cqueue, f_onq, f_qbits, f_pc,
                  f_local, f_moved, f_target, f_op, f_goal, f_ret>>
  BY DEF F!StrayWake, F!DeliverSignal, F!DeliverWake
<1>2. \/ f_event' = f_event
      \/ f_event' = [f_event EXCEPT ![t] = @ + 1]
  <2>1. CASE F(c)!StrayWake(t)
    <3>1. f_event[t] = -1 /\ f_event' = [f_event EXCEPT ![t] = 0]
      BY <2>1 DEF F!StrayWake
    <3>2. QED
      BY <3>1
  <2>2. CASE F(c)!DeliverSignal(t)
    BY <2>2 DEF F!DeliverSignal
  <2>3. CASE F(c)!DeliverWake(t)
    BY <2>3 DEF F!DeliverWake
  <2>4. QED
    BY <2>1, <2>2, <2>3
<1>3. f_event' \in [Waiters -> Int]
  BY <1>2 DEF FutexTypes
<1>4. \A u \in Waiters : f_event'[u] \in Int /\ f_event[u] \in Int /\ f_event'[u] >= f_event[u]
  <2> TAKE u \in Waiters
  <2>1. f_event[u] \in Int /\ f_event'[u] \in Int
    BY <1>3 DEF FutexTypes
  <2>2. f_event'[u] = f_event[u] \/ f_event'[u] = f_event[u] + 1
    BY <1>2 DEF FutexTypes
  <2>3. QED
    BY <2>1, <2>2
<1>5. FutexTypes(c)' /\ Arguments(c)' /\ Shape(c)'
  BY <1>1, <1>3 DEF FutexTypes, Arguments, Shape, Locking
<1>6. Held(c)'
  BY <1>1 DEF Held, Holds, HoldsFirst, HoldsSecond
<1>7. Events' /\ AboutToWake'
  <2>1. Events'
    BY <1>1, <1>4 DEF Events
  <2>2. AboutToWake'
    BY <1>1, <1>4 DEF Events, AboutToWake
  <2>3. QED
    BY <2>1, <2>2
<1>8. Distinct(c)' /\ Queued(c)' /\ Places(c)'
  BY <1>1 DEF Distinct, Queued, QueuedOnce, QueuedWhere, Places
<1>9. QED
  BY <1>5, <1>6, <1>7, <1>8

-----------------------------------------------------------------------------
(* The mutex of a futex *)

\* The mutex a thread is locking is one of its call.
LEMMA LockedFutex ==
    ASSUME NEW c \in Cases, FutexInv(c), NEW t \in Waiters, f_pc[t] \in {"lock", "blocked"}
    PROVE  f_goal[t].f \in Fs(c)
  BY DEF FutexInv, Shape, Arguments, Locking

\* A step of t gets it out of the queue of the mutex of f that it was locking.
LeavesMutex(c, t, f, l) ==
    /\ f_pc[t] \in {"lock", "blocked"} /\ f_goal[t].f = f
    /\ f_mqueue' = [f_mqueue EXCEPT ![f] = F(c)!Without(@, {t})]
    /\ f_onq' = IF t \in ToSet(f_mqueue[f]) THEN [f_onq EXCEPT ![t] = "none"] ELSE f_onq
    /\ f_pc' = [f_pc EXCEPT ![t] = l] /\ l \notin {"blocked", "enter", "wait", "sleep"}
    /\ \A u \in Waiters : u # t => f_op'[u] = f_op[u] /\ f_goal'[u] = f_goal[u]
    /\ UNCHANGED <<f_cqueue, f_local, f_moved, f_target, f_event>>

LEMMA LeaveMutex ==
    ASSUME NEW c \in Cases, FutexInv(c), NEW t \in Waiters, NEW f \in Fs(c), NEW l,
           LeavesMutex(c, t, f, l)
    PROVE  /\ f_mqueue' \in [Fs(c) -> Seq(Waiters)]
           /\ f_onq' \in [Waiters -> {"none", "cond", "mutex", "local"}]
           /\ Distinct(c)' /\ Queued(c)' /\ Places(c)' /\ Events' /\ AboutToWake'
<1> USE DEF FutexInv, LeavesMutex
<1>1. f_mqueue \in [Fs(c) -> Seq(Waiters)] /\ \A g \in Fs(c) : IsInjective(f_mqueue[g])
  BY DEF FutexTypes, Distinct
<1>2. \A g \in Fs(c) : g # f => t \notin ToSet(f_mqueue[g])
  BY DEF Places
<1>3. /\ f_mqueue' \in [Fs(c) -> Seq(Waiters)]
      /\ \A g \in Fs(c) : IsInjective(f_mqueue'[g])
      /\ \A g \in Fs(c), x \in Waiters : x \in ToSet(f_mqueue'[g]) <=>
            x \in ToSet(f_mqueue[g]) /\ (g = f => x \notin {t})
  <2> DEFINE q == f_mqueue[f]
             U == {t}
             r == F(c)!Without(q, U)
  <2>1. q \in Seq(Waiters) /\ IsInjective(q)
    BY <1>1
  <2>2. f_mqueue' = [f_mqueue EXCEPT ![f] = r]
    OBVIOUS
  <2> HIDE DEF q, U
  <2>3. r \in Seq(Waiters)
    BY <2>1, WithoutFacts, Zenon
  <2>4. IsInjective(r)
    BY <2>1, WithoutFacts, Zenon
  <2>5. ToSet(r) = ToSet(q) \ U
    BY <2>1, WithoutFacts, SMT
  <2> HIDE DEF r
  <2>6. f_mqueue'[f] = r /\ \A g \in Fs(c) : g # f => f_mqueue'[g] = f_mqueue[g]
    BY <1>1, <2>2
  <2>7. f_mqueue' \in [Fs(c) -> Seq(Waiters)]
    BY <1>1, <2>2, <2>3
  <2>8. \A g \in Fs(c) : IsInjective(f_mqueue'[g])
    BY <1>1, <2>4, <2>6, Zenon
  <2>9. \A g \in Fs(c), x \in Waiters : x \in ToSet(f_mqueue'[g]) <=>
            x \in ToSet(f_mqueue[g]) /\ (g = f => x \notin {t})
    <3> TAKE g \in Fs(c), x \in Waiters
    <3>1. CASE g = f
      BY <2>5, <2>6, <3>1 DEF q, U
    <3>2. CASE g # f
      BY <2>6, <3>2
    <3>3. QED
      BY <3>1, <3>2
  <2>10. QED
    BY <2>7, <2>8, <2>9
<1>4. \A g \in Fs(c), u \in Waiters :
         u \in ToSet(f_mqueue'[g]) <=> u \in ToSet(f_mqueue[g]) /\ u # t
  BY <1>2, <1>3
<1>5. /\ f_pc'[t] = l /\ \A u \in Waiters : u # t => f_pc'[u] = f_pc[u]
  BY DEF FutexTypes
<1>6. /\ f_onq' \in [Waiters -> {"none", "cond", "mutex", "local"}]
      /\ \A u \in Waiters : u # t => f_onq'[u] = f_onq[u]
      /\ f_onq'[t] = IF t \in ToSet(f_mqueue[f]) THEN "none" ELSE f_onq[t]
  BY DEF FutexTypes
<1>7. Distinct(c)'
  BY <1>3 DEF Distinct
<1>8. Queued(c)'
  <2>1. \A u \in Waiters : QueuedOnce(c, u)'
    BY DEF Queued, QueuedOnce
  <2>2. ASSUME NEW u \in Waiters PROVE QueuedWhere(c, u)'
    <3>1. QueuedWhere(c, u) /\ \A g \in Fs(c) : t \in ToSet(f_mqueue[g]) => g = f
      BY DEF Queued, Places
    <3>2. CASE u = t
      BY <1>4, <1>6, <3>1, <3>2 DEF QueuedWhere
    <3>3. CASE u # t
      BY <1>4, <1>6, <3>1, <3>3 DEF QueuedWhere
    <3>4. QED
      BY <3>2, <3>3
  <2>3. QED
    BY <2>1, <2>2 DEF Queued
<1>9. Places(c)'
  <2>1. \A u \in Waiters : u \notin ToSet(f_local[t]) /\ u \notin ToSet(f_moved[t])
    BY DEF Places
  <2>2. f_target[t] = none
    BY DEF Places
  <2>3. \A u \in Waiters, g \in Fs(c) : u \in ToSet(f_mqueue'[g]) =>
           f_pc'[u] = "blocked" /\ f_goal'[u].f = g
    <3> TAKE u \in Waiters, g \in Fs(c)
    <3> HAVE u \in ToSet(f_mqueue'[g])
    <3>1. u # t /\ u \in ToSet(f_mqueue[g])
      BY <1>4
    <3>2. f_pc[u] = "blocked" /\ f_goal[u].f = g
      BY <3>1 DEF Places
    <3>3. f_pc'[u] = f_pc[u] /\ f_goal'[u] = f_goal[u]
      BY <1>5, <3>1
    <3>4. QED
      BY <3>2, <3>3
  <2>4. \A u, v \in Waiters :
           /\ v \in ToSet(f_local[u]) => f_pc'[u] \in {"pick", "wake"}
           /\ v \in ToSet(f_moved[u]) => /\ f_pc'[u] \in {"pick", "wake", "requeue"}
                                         /\ f_op'[u].kind = "requeue"
           /\ f_target[u] # none => f_pc'[u] = "wake"
    BY <1>5, <2>1, <2>2 DEF Places
  <2>5. QED
    BY <2>3, <2>4 DEF Places
<1>10. Events' /\ AboutToWake'
  BY <1>5, <1>6 DEF Events, AboutToWake
<1>11. QED
  BY <1>3, <1>6, <1>7, <1>8, <1>9, <1>10

\* A thread that locks a mutex comes to hold it once more.
LEMMA LockTakeInv ==
    ASSUME NEW c \in Cases, FutexInv(c), NEW t \in Waiters, F(c)!LockTake(t)
    PROVE  FutexInv(c)'
<1> USE DEF FutexInv
<1>0. PICK f, l : f = f_goal[t].f /\ l = f_goal[t].next
  OBVIOUS
<1>1. /\ f_pc[t] \in {"lock", "blocked"}
      /\ f_owner[f] = t \/ f_owner[f] = none
      /\ f_owner' = [f_owner EXCEPT ![f] = t]
      /\ f_refs' = [f_refs EXCEPT ![f] = @ + 1]
      /\ f_mqueue' = [f_mqueue EXCEPT ![f] = F(c)!Without(@, {t})]
      /\ f_pc' = [f_pc EXCEPT ![t] = l]
      /\ f_goal' = [f_goal EXCEPT ![t] = F(c)!NoGoal]
      /\ UNCHANGED <<f_word, f_cqueue, f_qbits, f_event, f_local, f_moved, f_target,
                     f_op, f_ret>>
  BY <1>0 DEF F!LockTake, F!MayTake, F!Goto
<1>2. f \in Fs(c) /\ Locking(t) /\ l \in {"check", "unlock", "select", "lock2"}
  BY <1>0, <1>1, LockedFutex DEF Shape, Locking
<1>3. f_onq' = IF t \in ToSet(f_mqueue[f]) THEN [f_onq EXCEPT ![t] = "none"] ELSE f_onq
  <2>1. f_mqueue[f] \in Seq(Waiters)
    BY <1>2 DEF FutexTypes
  <2>2. F(c)!Range(f_mqueue[f]) = ToSet(f_mqueue[f])
    BY <2>1, InQueue
  <2>3. QED
    BY <1>0, <2>2 DEF F!LockTake
<1>4. /\ f_pc'[t] = l /\ f_goal'[t] = F(c)!NoGoal
      /\ \A u \in Waiters : u # t => f_pc'[u] = f_pc[u] /\ f_goal'[u] = f_goal[u]
  BY <1>1 DEF FutexTypes
<1>5. /\ f_mqueue' \in [Fs(c) -> Seq(Waiters)]
      /\ f_onq' \in [Waiters -> {"none", "cond", "mutex", "local"}]
      /\ Distinct(c)' /\ Queued(c)' /\ Places(c)' /\ Events' /\ AboutToWake'
  <2>1. f_goal[t].f = f /\ l \notin {"blocked", "enter", "wait", "sleep"}
    BY <1>0, <1>2
  <2>2. LeavesMutex(c, t, f, l)
    BY <1>1, <1>3, <1>4, <2>1 DEF LeavesMutex
  <2>3. QED
    BY <1>2, <2>2, LeaveMutex
<1>6. FutexTypes(c)' /\ Arguments(c)'
  <2>1. f_owner' \in [Fs(c) -> Waiters \cup {none}] /\ f_refs' \in [Fs(c) -> Nat]
    BY <1>1, <1>2 DEF FutexTypes
  <2>2. f_pc' \in [Waiters -> F(c)!Locations]
    BY <1>1, <1>2 DEF FutexTypes, F!Locations
  <2>3. f_goal' \in [Waiters -> [f : Fs(c) \cup {none}, next : F(c)!Locations]]
    BY <1>1 DEF FutexTypes, F!NoGoal, F!Locations
  <2>4. QED
    BY <1>1, <1>5, <2>1, <2>2, <2>3 DEF FutexTypes, Arguments
<1>7. Shape(c)'
  <2>1. l = f_goal[t].next /\ f_goal'[t].next = "run"
    BY <1>0, <1>4 DEF F!NoGoal
  <2>2. QED
    BY <1>1, <1>2, <1>4, <2>1 DEF Shape, Locking, WaitPart, WakePart
<1>8. Held(c)'
  <2>1. \A g \in Fs(c), u \in Waiters : u # t => Holds(u, g)' = Holds(u, g)
    BY <1>1, <1>4 DEF Holds, HoldsFirst, HoldsSecond
  <2>2. \A g \in Fs(c) : g # f => Holds(t, g)' = Holds(t, g)
    BY <1>0, <1>1, <1>2, <1>4 DEF Locking, Holds, HoldsFirst, HoldsSecond
  <2>3. Holds(t, f)' = Holds(t, f) + 1
    BY <1>0, <1>1, <1>2, <1>4 DEF Locking, Holds, HoldsFirst, HoldsSecond
  <2>4. /\ f_owner'[f] = t /\ f_refs'[f] = f_refs[f] + 1 /\ f_refs[f] \in Nat
        /\ \A g \in Fs(c) : g # f => f_owner'[g] = f_owner[g] /\ f_refs'[g] = f_refs[g]
    BY <1>1, <1>2 DEF FutexTypes
  <2>5. f_refs[f] = Holds(t, f) /\ \A u \in Waiters : u # t => Holds(u, f) = 0
    BY <1>1, <1>2, WaitersAssumption DEF Held
  <2>6. t # none
    BY WaitersAssumption
  <2>7. ASSUME NEW g \in Fs(c)
        PROVE  /\ f_owner'[g] = none => f_refs'[g] = 0
               /\ \A u \in Waiters : IF f_owner'[g] = u
                                     THEN f_refs'[g] = Holds(u, g)' /\ f_refs'[g] # 0
                                     ELSE Holds(u, g)' = 0
    <3>1. CASE g = f
      BY <2>1, <2>3, <2>4, <2>5, <2>6, <3>1
    <3>2. CASE g # f
      BY <2>1, <2>2, <2>4, <3>2 DEF Held
    <3>3. QED
      BY <3>1, <3>2
  <2>8. QED
    BY <2>7 DEF Held
<1>9. QED
  BY <1>5, <1>6, <1>7, <1>8

\* A signal takes a thread out of the queue of a mutex.
LEMMA LockInterruptedInv ==
    ASSUME NEW c \in Cases, FutexInv(c), NEW t \in Waiters, F(c)!LockInterrupted(t)
    PROVE  FutexInv(c)'
<1> USE DEF FutexInv
<1>0. PICK f : f = f_goal[t].f
  OBVIOUS
<1>1. PICK l \in {"lock", "exited"} : f_pc' = [f_pc EXCEPT ![t] = l]
  BY DEF F!LockInterrupted, F!Goto
<1>2. /\ f_pc[t] \in {"lock", "blocked"}
      /\ f_mqueue' = [f_mqueue EXCEPT ![f] = F(c)!Without(@, {t})]
      /\ UNCHANGED <<f_word, f_owner, f_refs, f_cqueue, f_qbits, f_event, f_local, f_moved,
                     f_target, f_op, f_goal, f_ret>>
  BY <1>0 DEF F!LockInterrupted
<1>3. f \in Fs(c) /\ Locking(t)
  BY <1>0, <1>2, LockedFutex DEF Shape
<1>4. f_onq' = IF t \in ToSet(f_mqueue[f]) THEN [f_onq EXCEPT ![t] = "none"] ELSE f_onq
  <2>1. f_mqueue[f] \in Seq(Waiters)
    BY <1>3 DEF FutexTypes
  <2>2. F(c)!Range(f_mqueue[f]) = ToSet(f_mqueue[f])
    BY <2>1, InQueue
  <2>3. QED
    BY <1>0, <2>2 DEF F!LockInterrupted
<1>5. f_pc'[t] = l /\ \A u \in Waiters : u # t => f_pc'[u] = f_pc[u]
  BY <1>1 DEF FutexTypes
<1>6. /\ f_mqueue' \in [Fs(c) -> Seq(Waiters)]
      /\ f_onq' \in [Waiters -> {"none", "cond", "mutex", "local"}]
      /\ Distinct(c)' /\ Queued(c)' /\ Places(c)' /\ Events' /\ AboutToWake'
  <2>1. LeavesMutex(c, t, f, l)
    BY <1>0, <1>1, <1>2, <1>4 DEF LeavesMutex
  <2>2. QED
    BY <1>3, <2>1, LeaveMutex
<1>7. FutexTypes(c)' /\ Arguments(c)'
  <2>1. f_pc' \in [Waiters -> F(c)!Locations]
    BY <1>1 DEF FutexTypes, F!Locations
  <2>2. QED
    BY <1>2, <1>6, <2>1 DEF FutexTypes, Arguments
<1>8. Shape(c)'
  BY <1>2, <1>3, <1>5 DEF Shape, Locking, WaitPart, WakePart
<1>9. Held(c)'
  <2>1. \A g \in Fs(c), u \in Waiters : Holds(u, g)' = Holds(u, g)
    BY <1>2, <1>3, <1>5 DEF Locking, Holds, HoldsFirst, HoldsSecond
  <2>2. QED
    BY <1>2, <2>1 DEF Held
<1>10. QED
  BY <1>6, <1>7, <1>8, <1>9

-----------------------------------------------------------------------------
(* Threads that join and leave queues *)

\* Of the queues Q only that of f becomes another one, r.
OneQueue(Q, R, S, f, r) ==
    /\ Q \in [S -> Seq(Waiters)] /\ \A g \in S : IsInjective(Q[g])
    /\ f \in S /\ r \in Seq(Waiters) /\ IsInjective(r)
    /\ R = [Q EXCEPT ![f] = r]

LEMMA OneQueueFacts ==
    ASSUME NEW Q, NEW R, NEW S, NEW f, NEW r, OneQueue(Q, R, S, f, r)
    PROVE  /\ R \in [S -> Seq(Waiters)] /\ \A g \in S : IsInjective(R[g])
           /\ R[f] = r /\ \A g \in S : g # f => R[g] = Q[g]
<1>1. R \in [S -> Seq(Waiters)] /\ R[f] = r /\ \A g \in S : g # f => R[g] = Q[g]
  BY DEF OneQueue
<1>2. ASSUME NEW g \in S PROVE IsInjective(R[g])
  <2>1. CASE g = f
    BY <1>1, <2>1 DEF OneQueue
  <2>2. CASE g # f
    BY <1>1, <2>2 DEF OneQueue
  <2>3. QED
    BY <2>1, <2>2
<1>3. QED
  BY <1>1, <1>2

\* A step that changes none of these variables.
LEMMA FutexSame ==
    ASSUME NEW c \in Cases, FutexInv(c),
           UNCHANGED <<f_word, f_owner, f_refs, f_mqueue, f_cqueue, f_onq, f_qbits,
                       f_event, f_pc, f_goal, f_op, f_ret, f_local, f_moved, f_target>>
    PROVE  FutexInv(c)'
  BY DEF FutexInv, FutexTypes, Arguments, Shape, Locking, Held, Holds, HoldsFirst,
         HoldsSecond, Events, Distinct, Queued, QueuedOnce, QueuedWhere, Places,
         AboutToWake

\* A thread whose queue field is clear is in no queue.
LEMMA NotQueued ==
    ASSUME NEW c \in Cases, FutexInv(c), NEW t \in Waiters, f_onq[t] = "none"
    PROVE  /\ \A f \in Fs(c) : t \notin ToSet(f_cqueue[f]) /\ t \notin ToSet(f_mqueue[f])
           /\ \A u \in Waiters : t \notin ToSet(f_local[u]) /\ t \notin ToSet(f_moved[u])
  BY DEF FutexInv, Queued, QueuedWhere

\* A thread joins the queue of a mutex, or the assertion that it is in no other queue
\* stops the kernel.
LEMMA LockBlockInv ==
    ASSUME NEW c \in Cases, FutexInv(c), NEW t \in Waiters, F(c)!LockBlock(t)
    PROVE  FutexInv(c)'
<1> USE DEF FutexInv
<1>0. PICK f : f = f_goal[t].f
  OBVIOUS
<1>1. /\ f_pc[t] = "lock"
      /\ UNCHANGED <<f_word, f_owner, f_refs, f_cqueue, f_qbits, f_event, f_local, f_moved,
                     f_target, f_op, f_goal, f_ret>>
  BY DEF F!LockBlock
<1>2. CASE f_onq[t] # "none"
  <2>1. UNCHANGED <<f_mqueue, f_onq, f_pc>>
    BY <1>2 DEF F!LockBlock
  <2>2. QED
    BY <1>1, <2>1, FutexSame
<1>3. CASE f_onq[t] = "none"
  <2>1. /\ f_mqueue' = [f_mqueue EXCEPT ![f] = Append(@, t)]
        /\ f_onq' = [f_onq EXCEPT ![t] = "mutex"]
        /\ f_pc' = [f_pc EXCEPT ![t] = "blocked"]
    BY <1>0, <1>3 DEF F!LockBlock, F!Goto
  <2>2. f \in Fs(c) /\ Locking(t)
    BY <1>0, <1>1, LockedFutex DEF Shape
  <2>3. /\ f_mqueue[f] \in Seq(Waiters) /\ IsInjective(f_mqueue[f])
        /\ f_mqueue \in [Fs(c) -> Seq(Waiters)] /\ \A g \in Fs(c) : IsInjective(f_mqueue[g])
    BY <2>2 DEF FutexTypes, Distinct
  <2>4. /\ \A g \in Fs(c) : t \notin ToSet(f_cqueue[g]) /\ t \notin ToSet(f_mqueue[g])
        /\ \A u \in Waiters : t \notin ToSet(f_local[u]) /\ t \notin ToSet(f_moved[u])
    BY <1>3, NotQueued
  <2> DEFINE r == Append(f_mqueue[f], t)
  <2>5. r \in Seq(Waiters) /\ IsInjective(r) /\ ToSet(r) = ToSet(f_mqueue[f]) \cup {t}
    BY <2>2, <2>3, <2>4, ListAppend
  <2>6. OneQueue(f_mqueue, f_mqueue', Fs(c), f, r)
    BY <2>1, <2>2, <2>3, <2>5 DEF OneQueue
  <2> HIDE DEF r
  <2>7. /\ f_mqueue' \in [Fs(c) -> Seq(Waiters)] /\ \A g \in Fs(c) : IsInjective(f_mqueue'[g])
        /\ f_mqueue'[f] = r /\ \A g \in Fs(c) : g # f => f_mqueue'[g] = f_mqueue[g]
    BY <2>6, OneQueueFacts
  <2>8. /\ f_pc'[t] = "blocked" /\ f_onq'[t] = "mutex"
        /\ \A u \in Waiters : u # t => f_pc'[u] = f_pc[u] /\ f_onq'[u] = f_onq[u]
    BY <2>1 DEF FutexTypes
  <2>9. \A g \in Fs(c), u \in Waiters :
           u \in ToSet(f_mqueue'[g]) <=> u \in ToSet(f_mqueue[g]) \/ (u = t /\ g = f)
    BY <2>5, <2>7
  <2>10. FutexTypes(c)' /\ Arguments(c)'
    <3>1. f_pc' \in [Waiters -> F(c)!Locations]
          /\ f_onq' \in [Waiters -> {"none", "cond", "mutex", "local"}]
      BY <2>1 DEF FutexTypes, F!Locations
    <3>2. QED
      BY <1>1, <2>7, <3>1 DEF FutexTypes, Arguments
  <2>11. Shape(c)'
    BY <1>1, <2>2, <2>8 DEF Shape, Locking, WaitPart, WakePart
  <2>12. Held(c)'
    <3>1. \A g \in Fs(c), u \in Waiters : Holds(u, g)' = Holds(u, g)
      BY <1>1, <2>8 DEF Holds, HoldsFirst, HoldsSecond
    <3>2. QED
      BY <1>1, <3>1 DEF Held
  <2>13. Events' /\ AboutToWake'
    BY <1>1, <2>8 DEF Events, AboutToWake
  <2>14. Distinct(c)'
    BY <1>1, <2>7 DEF Distinct
  <2>15. Queued(c)'
    <3>1. \A u \in Waiters : QueuedOnce(c, u)'
      BY <1>1 DEF Queued, QueuedOnce
    <3>2. ASSUME NEW u \in Waiters PROVE QueuedWhere(c, u)'
      <4>1. CASE u = t
        BY <1>1, <2>2, <2>4, <2>8, <2>9, <4>1 DEF QueuedWhere
      <4>2. CASE u # t
        BY <1>1, <2>8, <2>9, <4>2 DEF Queued, QueuedWhere
      <4>3. QED
        BY <4>1, <4>2
    <3>3. QED
      BY <3>1, <3>2 DEF Queued
  <2>16. Places(c)'
    <3>1. \A u \in Waiters, g \in Fs(c) : u \in ToSet(f_mqueue'[g]) =>
             f_pc'[u] = "blocked" /\ f_goal'[u].f = g
      BY <1>0, <1>1, <2>4, <2>8, <2>9 DEF Places
    <3>2. \A u, v \in Waiters :
             /\ v \in ToSet(f_local[u]) => f_pc'[u] \in {"pick", "wake"}
             /\ v \in ToSet(f_moved[u]) => f_pc'[u] \in {"pick", "wake", "requeue"}
                                           /\ f_op'[u].kind = "requeue"
             /\ f_target[u] # none => f_pc'[u] = "wake"
      BY <1>1, <2>8 DEF Places
    <3>3. QED
      BY <1>1, <3>1, <3>2 DEF Places
  <2>17. QED
    BY <2>10, <2>11, <2>12, <2>13, <2>14, <2>15, <2>16
<1>4. QED
  BY <1>2, <1>3

\* A step of t releases the mutex of f once.
Releases(c, t, f) ==
    /\ F(c)!Release(f) /\ f \in Fs(c)
    /\ Holds(t, f)' = Holds(t, f) - 1 /\ Holds(t, f) # 0
    /\ \A g \in Fs(c) : g # f => Holds(t, g)' = Holds(t, g)
    /\ \A u \in Waiters, g \in Fs(c) : u # t => Holds(u, g)' = Holds(u, g)

LEMMA ReleaseHeld ==
    ASSUME NEW c \in Cases, FutexInv(c), NEW t \in Waiters, NEW f, Releases(c, t, f)
    PROVE  /\ f_owner' \in [Fs(c) -> Waiters \cup {none}] /\ f_refs' \in [Fs(c) -> Nat]
           /\ f_mqueue' = f_mqueue
           /\ Held(c)'
<1> USE DEF FutexInv
<1>1. f_owner[f] = t /\ f_refs[f] = Holds(t, f) /\ f_refs[f] # 0
      /\ \A u \in Waiters : u # t => Holds(u, f) = 0
  BY DEF Releases, Held
<1>2. /\ f \in Fs(c) /\ f_mqueue' = f_mqueue
      /\ f_refs' = [f_refs EXCEPT ![f] = @ - 1]
      /\ f_owner' = IF f_refs[f] = 1 THEN [f_owner EXCEPT ![f] = none] ELSE f_owner
  BY DEF Releases, F!Release
<1>3. f_refs[f] \in Nat /\ f_owner' \in [Fs(c) -> Waiters \cup {none}]
      /\ f_refs' \in [Fs(c) -> Nat]
  BY <1>1, <1>2 DEF FutexTypes
<1>4. /\ f_refs'[f] = f_refs[f] - 1 /\ f_owner'[f] = IF f_refs[f] = 1 THEN none ELSE t
      /\ \A g \in Fs(c) : g # f => f_refs'[g] = f_refs[g] /\ f_owner'[g] = f_owner[g]
  BY <1>1, <1>2 DEF FutexTypes
<1>5. t # none /\ \A u \in Waiters : u # none
  BY WaitersAssumption
<1>6. ASSUME NEW g \in Fs(c)
      PROVE  /\ f_owner'[g] = none => f_refs'[g] = 0
             /\ \A u \in Waiters : IF f_owner'[g] = u
                                   THEN f_refs'[g] = Holds(u, g)' /\ f_refs'[g] # 0
                                   ELSE Holds(u, g)' = 0
  <2>1. CASE g = f
    <3>1. CASE f_refs[f] = 1
      BY <1>1, <1>3, <1>4, <1>5, <2>1, <3>1 DEF Releases
    <3>2. CASE f_refs[f] # 1
      BY <1>1, <1>3, <1>4, <1>5, <2>1, <3>2 DEF Releases
    <3>3. QED
      BY <3>1, <3>2
  <2>2. CASE g # f
    BY <1>4, <2>2 DEF Releases, Held
  <2>3. QED
    BY <2>1, <2>2
<1>7. Held(c)'
  BY <1>6 DEF Held
<1>8. QED
  BY <1>2, <1>3, <1>7

\* The mutex is released at the end of a call.
LEMMA UnlockInv ==
    ASSUME NEW c \in Cases, FutexInv(c), NEW t \in Waiters,
           F(c)!Unlock(t) \/ F(c)!Unlock2(t)
    PROVE  FutexInv(c)'
<1> USE DEF FutexInv
<1>1. PICK f, l, o :
         /\ F(c)!Release(f)
         /\ \/ /\ f_pc[t] = "unlock" /\ f = f_op[t].f
               /\ \/ f_op[t].kind = "requeue" /\ l = "unlock2" /\ o = f_op[t]
                  \/ f_op[t].kind # "requeue" /\ l = "run" /\ o = F(c)!NoOp
            \/ f_pc[t] = "unlock2" /\ f = f_op[t].f2 /\ l = "run" /\ o = F(c)!NoOp
         /\ f_pc' = [f_pc EXCEPT ![t] = l]
         /\ f_op' = f_op \/ f_op' = [f_op EXCEPT ![t] = o]
         /\ f_op'[t] = o
  <2>1. CASE F(c)!Unlock(t)
    <3>1. CASE f_op[t].kind = "requeue"
      BY <2>1, <3>1 DEF F!Unlock, F!Goto
    <3>2. CASE f_op[t].kind # "requeue"
      <4>1. f_op' = [f_op EXCEPT ![t] = F(c)!NoOp] /\ f_op'[t] = F(c)!NoOp
        BY <2>1, <3>2 DEF F!Unlock, FutexTypes
      <4>2. QED
        BY <2>1, <3>2, <4>1 DEF F!Unlock, F!Goto
    <3>3. QED
      BY <3>1, <3>2
  <2>2. CASE F(c)!Unlock2(t)
    <3>1. f_op' = [f_op EXCEPT ![t] = F(c)!NoOp] /\ f_op'[t] = F(c)!NoOp
      BY <2>2 DEF F!Unlock2, FutexTypes
    <3>2. QED
      BY <2>2, <3>1 DEF F!Unlock2, F!Goto
  <2>3. QED
    BY <2>1, <2>2
<1>2. /\ UNCHANGED <<f_word, f_cqueue, f_onq, f_qbits, f_event, f_local, f_moved, f_target,
                     f_goal>>
      /\ f_ret' = f_ret \/ f_ret' = [f_ret EXCEPT ![t] = "ok"]
  BY DEF F!Unlock, F!Unlock2
<1>3. /\ F(c)!NoOp.kind = "none" /\ F(c)!NoOp \in
            [kind : {"none", "wait", "wake", "release", "requeue"},
             f : Fs(c) \cup {none}, f2 : Fs(c) \cup {none},
             n : Nat, m : Nat, bits : SUBSET Config[c].bits, timed : BOOLEAN]
  BY DEF F!NoOp
<1>4. f \in Fs(c)
  BY <1>1 DEF Shape, Arguments
<1>5. /\ f_pc'[t] = l
      /\ \A u \in Waiters : u # t => f_pc'[u] = f_pc[u] /\ f_op'[u] = f_op[u]
  BY <1>1 DEF FutexTypes
<1>6. Releases(c, t, f)
  <2>1. \A u \in Waiters, g \in Fs(c) : u # t => Holds(u, g)' = Holds(u, g)
    BY <1>2, <1>5 DEF Holds, HoldsFirst, HoldsSecond
  <2>2. Holds(t, f)' = Holds(t, f) - 1 /\ Holds(t, f) # 0
    BY <1>1, <1>2, <1>3, <1>5 DEF Shape, Holds, HoldsFirst, HoldsSecond
  <2>3. \A g \in Fs(c) : g # f => Holds(t, g)' = Holds(t, g)
    BY <1>1, <1>2, <1>3, <1>5 DEF Shape, Holds, HoldsFirst, HoldsSecond
  <2>4. QED
    BY <1>1, <1>4, <2>1, <2>2, <2>3 DEF Releases
<1>7. /\ f_owner' \in [Fs(c) -> Waiters \cup {none}] /\ f_refs' \in [Fs(c) -> Nat]
      /\ f_mqueue' = f_mqueue /\ Held(c)'
  BY <1>6, ReleaseHeld
<1>8. FutexTypes(c)' /\ Arguments(c)'
  <2>1. f_pc' \in [Waiters -> F(c)!Locations]
    BY <1>1 DEF FutexTypes, F!Locations
  <2>2. f_op' \in [Waiters -> [kind : {"none", "wait", "wake", "release", "requeue"},
                               f : Fs(c) \cup {none}, f2 : Fs(c) \cup {none},
                               n : Nat, m : Nat, bits : SUBSET Config[c].bits,
                               timed : BOOLEAN]]
    <3> DEFINE O == [kind : {"none", "wait", "wake", "release", "requeue"},
                     f : Fs(c) \cup {none}, f2 : Fs(c) \cup {none}, n : Nat, m : Nat,
                     bits : SUBSET Config[c].bits, timed : BOOLEAN]
    <3>1. f_op \in [Waiters -> O]
      BY DEF FutexTypes
    <3>2. F(c)!NoOp \in O
      BY <1>3
    <3> HIDE DEF O
    <3>3. f_op' \in [Waiters -> O]
      BY <1>1, <3>1, <3>2
    <3>4. QED
      BY <3>3 DEF O
  <2>3. FutexTypes(c)'
    BY <1>2, <1>7, <2>1, <2>2 DEF FutexTypes
  <2>4. Arguments(c)'
    BY <1>1, <1>3, <1>5 DEF Arguments
  <2>5. QED
    BY <2>3, <2>4
<1>9. Shape(c)'
  BY <1>1, <1>2, <1>3, <1>5 DEF Shape, Locking, WaitPart, WakePart
<1>10. Events' /\ AboutToWake'
  BY <1>1, <1>2, <1>5 DEF Events, AboutToWake
<1>11. Distinct(c)' /\ Queued(c)'
  BY <1>2, <1>7 DEF Distinct, Queued, QueuedOnce, QueuedWhere
<1>12. Places(c)'
  BY <1>1, <1>2, <1>5, <1>7 DEF Places
<1>13. QED
  BY <1>7, <1>8, <1>9, <1>10, <1>11, <1>12

\* A waiter joins the queue of its futex and releases the mutex.
LEMMA WaitEnqueueInv ==
    ASSUME NEW c \in Cases, FutexInv(c), NEW t \in Waiters, F(c)!WaitEnqueue(t)
    PROVE  FutexInv(c)'
<1> USE DEF FutexInv
<1>0. PICK f : f = f_op[t].f
  OBVIOUS
<1>1. /\ f_pc[t] = "enqueue"
      /\ UNCHANGED <<f_word, f_event, f_local, f_moved, f_target, f_op, f_goal, f_ret>>
  BY DEF F!WaitEnqueue
<1>2. CASE f_onq[t] # "none"
  <2>1. UNCHANGED <<f_owner, f_refs, f_mqueue, f_cqueue, f_onq, f_qbits, f_pc>>
    BY <1>2 DEF F!WaitEnqueue
  <2>2. QED
    BY <1>1, <2>1, FutexSame
<1>3. CASE f_onq[t] = "none"
  <2>1. /\ f_cqueue' = [f_cqueue EXCEPT ![f] = Append(@, t)]
        /\ f_onq' = [f_onq EXCEPT ![t] = "cond"]
        /\ f_qbits' = [f_qbits EXCEPT ![t] = f_op[t].bits]
        /\ f_pc' = [f_pc EXCEPT ![t] = "enter"]
        /\ F(c)!Release(f)
    BY <1>0, <1>3 DEF F!WaitEnqueue, F!Goto
  <2>2. f \in Fs(c) /\ f_op[t].kind = "wait" /\ f_goal[t].next = "run"
    BY <1>0, <1>1 DEF Shape, Arguments, WaitPart
  <2>3. /\ f_cqueue[f] \in Seq(Waiters) /\ IsInjective(f_cqueue[f])
        /\ f_cqueue \in [Fs(c) -> Seq(Waiters)] /\ \A g \in Fs(c) : IsInjective(f_cqueue[g])
    BY <2>2 DEF FutexTypes, Distinct
  <2>4. /\ \A g \in Fs(c) : t \notin ToSet(f_cqueue[g]) /\ t \notin ToSet(f_mqueue[g])
        /\ \A u \in Waiters : t \notin ToSet(f_local[u]) /\ t \notin ToSet(f_moved[u])
    BY <1>3, NotQueued
  <2> DEFINE r == Append(f_cqueue[f], t)
  <2>5. r \in Seq(Waiters) /\ IsInjective(r) /\ ToSet(r) = ToSet(f_cqueue[f]) \cup {t}
    BY <2>2, <2>3, <2>4, ListAppend
  <2>6. OneQueue(f_cqueue, f_cqueue', Fs(c), f, r)
    BY <2>1, <2>2, <2>3, <2>5 DEF OneQueue
  <2> HIDE DEF r
  <2>7. /\ f_cqueue' \in [Fs(c) -> Seq(Waiters)] /\ \A g \in Fs(c) : IsInjective(f_cqueue'[g])
        /\ f_cqueue'[f] = r /\ \A g \in Fs(c) : g # f => f_cqueue'[g] = f_cqueue[g]
    BY <2>6, OneQueueFacts
  <2>8. /\ f_pc'[t] = "enter" /\ f_onq'[t] = "cond"
        /\ \A u \in Waiters : u # t => f_pc'[u] = f_pc[u] /\ f_onq'[u] = f_onq[u]
    BY <2>1 DEF FutexTypes
  <2>9. \A g \in Fs(c), u \in Waiters :
           u \in ToSet(f_cqueue'[g]) <=> u \in ToSet(f_cqueue[g]) \/ (u = t /\ g = f)
    BY <2>5, <2>7
  <2>10. Releases(c, t, f)
    <3>1. \A u \in Waiters, g \in Fs(c) : u # t => Holds(u, g)' = Holds(u, g)
      BY <1>1, <2>8 DEF Holds, HoldsFirst, HoldsSecond
    <3>2. Holds(t, f)' = Holds(t, f) - 1 /\ Holds(t, f) # 0
      BY <1>0, <1>1, <2>2, <2>8 DEF Holds, HoldsFirst, HoldsSecond
    <3>3. \A g \in Fs(c) : g # f => Holds(t, g)' = Holds(t, g)
      BY <1>0, <1>1, <2>2, <2>8 DEF Holds, HoldsFirst, HoldsSecond
    <3>4. QED
      BY <2>1, <2>2, <3>1, <3>2, <3>3 DEF Releases
  <2>11. /\ f_owner' \in [Fs(c) -> Waiters \cup {none}] /\ f_refs' \in [Fs(c) -> Nat]
         /\ f_mqueue' = f_mqueue /\ Held(c)'
    BY <2>10, ReleaseHeld
  <2>12. FutexTypes(c)' /\ Arguments(c)'
    <3>1. f_pc' \in [Waiters -> F(c)!Locations]
          /\ f_onq' \in [Waiters -> {"none", "cond", "mutex", "local"}]
      BY <2>1 DEF FutexTypes, F!Locations
    <3>2. f_op[t].bits \in SUBSET Config[c].bits
      BY DEF FutexTypes
    <3>3. f_qbits' \in [Waiters -> SUBSET Config[c].bits]
      BY <2>1, <3>2 DEF FutexTypes
    <3>4. QED
      BY <1>1, <2>7, <2>11, <3>1, <3>3 DEF FutexTypes, Arguments
  <2>13. Shape(c)'
    BY <1>1, <2>2, <2>8 DEF Shape, Locking, WaitPart, WakePart
  <2>14. Events' /\ AboutToWake'
    BY <1>1, <2>8 DEF Events, AboutToWake
  <2>15. Distinct(c)'
    BY <1>1, <2>7, <2>11 DEF Distinct
  <2>16. Queued(c)'
    <3>1. ASSUME NEW u \in Waiters PROVE QueuedOnce(c, u)'
      <4>1. CASE u = t
        BY <1>1, <2>4, <2>9, <4>1 DEF QueuedOnce
      <4>2. CASE u # t
        BY <1>1, <2>9, <4>2 DEF Queued, QueuedOnce
      <4>3. QED
        BY <4>1, <4>2
    <3>2. ASSUME NEW u \in Waiters PROVE QueuedWhere(c, u)'
      <4>1. CASE u = t
        BY <1>1, <2>2, <2>4, <2>8, <2>9, <2>11, <4>1 DEF QueuedWhere
      <4>2. CASE u # t
        BY <1>1, <2>8, <2>9, <2>11, <4>2 DEF Queued, QueuedWhere
      <4>3. QED
        BY <4>1, <4>2
    <3>3. QED
      BY <3>1, <3>2 DEF Queued
  <2>17. Places(c)'
    BY <1>1, <2>8, <2>11 DEF Places
  <2>18. QED
    BY <2>11, <2>12, <2>13, <2>14, <2>15, <2>16, <2>17
<1>4. QED
  BY <1>2, <1>3

\* A step that takes the threads of U out of the queue of f.
LeavesCond(c, f, U) ==
    f \in Fs(c) /\ f_cqueue' = [f_cqueue EXCEPT ![f] = F(c)!Without(@, U)]

LEMMA LeaveCond ==
    ASSUME NEW c \in Cases, FutexInv(c), NEW f, NEW U, LeavesCond(c, f, U)
    PROVE  /\ f_cqueue' \in [Fs(c) -> Seq(Waiters)]
           /\ \A g \in Fs(c) : IsInjective(f_cqueue'[g])
           /\ \A g \in Fs(c), u \in Waiters :
                 u \in ToSet(f_cqueue'[g]) <=> u \in ToSet(f_cqueue[g]) /\ ~(g = f /\ u \in U)
<1>1. /\ f_cqueue \in [Fs(c) -> Seq(Waiters)] /\ \A g \in Fs(c) : IsInjective(f_cqueue[g])
      /\ f \in Fs(c)
  BY DEF FutexInv, FutexTypes, Distinct, LeavesCond
<1> DEFINE q == f_cqueue[f]
           r == F(c)!Without(q, U)
<1>2. q \in Seq(Waiters) /\ IsInjective(q)
  BY <1>1
<1> HIDE DEF q
<1>3. r \in Seq(Waiters)
  BY <1>2, WithoutFacts, Zenon
<1>4. IsInjective(r)
  BY <1>2, WithoutFacts, Zenon
<1>5. ToSet(r) = ToSet(q) \ U
  BY <1>2, WithoutFacts, SMT
<1>6. OneQueue(f_cqueue, f_cqueue', Fs(c), f, r)
  BY <1>1, <1>3, <1>4 DEF OneQueue, LeavesCond, q
<1> HIDE DEF r
<1>7. /\ f_cqueue' \in [Fs(c) -> Seq(Waiters)] /\ \A g \in Fs(c) : IsInjective(f_cqueue'[g])
      /\ f_cqueue'[f] = r /\ \A g \in Fs(c) : g # f => f_cqueue'[g] = f_cqueue[g]
  BY <1>6, OneQueueFacts
<1>8. \A g \in Fs(c), u \in Waiters :
         u \in ToSet(f_cqueue'[g]) <=> u \in ToSet(f_cqueue[g]) /\ ~(g = f /\ u \in U)
  BY <1>5, <1>7 DEF q
<1>9. QED
  BY <1>7, <1>8

\* A waiter looks whether it is still in the queue.
LEMMA RecheckInv ==
    ASSUME NEW c \in Cases, FutexInv(c), NEW t \in Waiters, F(c)!Recheck(t)
    PROVE  FutexInv(c)'
<1> USE DEF FutexInv
<1>0. PICK f : f = f_op[t].f
  OBVIOUS
<1>1. /\ f_pc[t] = "awake"
      /\ UNCHANGED <<f_word, f_owner, f_refs, f_mqueue, f_qbits, f_event, f_local, f_moved,
                     f_target, f_op>>
      /\ f_ret' = f_ret \/ f_ret' = [f_ret EXCEPT ![t] = "intr"]
  BY DEF F!Recheck, F!Leave
<1>2. f \in Fs(c) /\ f_op[t].kind = "wait" /\ f_goal[t].next = "run"
  BY <1>0, <1>1 DEF Shape, Arguments, WaitPart
<1>3. F(c)!Range(f_cqueue[f]) = ToSet(f_cqueue[f])
  <2>1. f_cqueue[f] \in Seq(Waiters)
    BY <1>2 DEF FutexTypes
  <2>2. QED
    BY <2>1, InQueue
<1>4. PICK l \in {"lock", "enter"} : f_pc' = [f_pc EXCEPT ![t] = l]
  BY DEF F!Recheck, F!GotoLocked, F!Goto
<1>5. f_pc'[t] = l /\ \A u \in Waiters : u # t => f_pc'[u] = f_pc[u]
  BY <1>4 DEF FutexTypes
<1>6. \/ l = "lock" /\ f_goal' = [f_goal EXCEPT ![t] = [f |-> f, next |-> "unlock"]]
      \/ l = "enter" /\ UNCHANGED <<f_cqueue, f_onq, f_goal>> /\ t \in ToSet(f_cqueue[f])
  <2>1. CASE f_goal' = [f_goal EXCEPT ![t] = [f |-> f, next |-> "unlock"]] /\ f_pc'[t] = "lock"
    BY <1>5, <2>1
  <2>2. CASE /\ t \in F(c)!Range(f_cqueue[f]) /\ f_pc'[t] = "enter"
             /\ UNCHANGED <<f_cqueue, f_onq, f_goal>>
    BY <1>3, <1>5, <2>2
  <2>3. f_pc \in [Waiters -> F(c)!Locations]
    BY DEF FutexTypes
  <2>4. QED
    BY <1>0, <2>1, <2>2, <2>3 DEF F!Recheck, F!GotoLocked, F!Goto
<1>7. /\ \A u \in Waiters : u # t => f_goal'[u] = f_goal[u]
      /\ l = "lock" => f_goal'[t] = [f |-> f, next |-> "unlock"]
      /\ l = "enter" => f_goal'[t] = f_goal[t]
      /\ f_goal' \in [Waiters -> [f : Fs(c) \cup {none}, next : F(c)!Locations]]
  <2> DEFINE G == [f : Fs(c) \cup {none}, next : F(c)!Locations]
             o == [f |-> f, next |-> "unlock"]
  <2>1. f_goal \in [Waiters -> G] /\ o \in G
    BY <1>2 DEF FutexTypes, F!Locations
  <2>2. \/ l = "lock" /\ f_goal' = [f_goal EXCEPT ![t] = o]
        \/ l = "enter" /\ f_goal' = f_goal
    BY <1>6
  <2> HIDE DEF G, o
  <2>3. /\ \A u \in Waiters : u # t => f_goal'[u] = f_goal[u]
        /\ l = "lock" => f_goal'[t] = o
        /\ l = "enter" => f_goal'[t] = f_goal[t]
        /\ f_goal' \in [Waiters -> G]
    BY <2>1, <2>2
  <2>4. QED
    BY <2>3 DEF G, o
<1>8. Shape(c)'
  BY <1>0, <1>1, <1>2, <1>5, <1>7 DEF Shape, Locking, WaitPart, WakePart
<1>9. \A g \in Fs(c), u \in Waiters : Holds(u, g)' = Holds(u, g)
  BY <1>1, <1>2, <1>5, <1>7 DEF Holds, HoldsFirst, HoldsSecond
<1>10. Held(c)'
  BY <1>1, <1>9 DEF Held
<1>11. Events'
  BY <1>1, <1>5 DEF Events
<1>12. Arguments(c)'
  BY <1>1 DEF Arguments
<1>13. Places(c)'
  BY <1>1, <1>5, <1>7 DEF Places
<1>14. f_pc' \in [Waiters -> F(c)!Locations]
  BY <1>4 DEF FutexTypes, F!Locations
<1>15. CASE UNCHANGED <<f_cqueue, f_onq>>
  <2>1. FutexTypes(c)'
    BY <1>1, <1>7, <1>14, <1>15 DEF FutexTypes
  <2>2. Distinct(c)' /\ Queued(c)'
    BY <1>1, <1>15 DEF Distinct, Queued, QueuedOnce, QueuedWhere
  <2>3. l = "enter" => f_onq[t] # "none"
    BY <1>2, <1>6 DEF Queued, QueuedWhere
  <2>4. AboutToWake'
    BY <1>1, <1>4, <1>5, <1>15, <2>3 DEF AboutToWake
  <2>5. QED
    BY <1>8, <1>10, <1>11, <1>12, <1>13, <2>1, <2>2, <2>4
<1>16. CASE l = "lock" /\ t \in ToSet(f_cqueue[f]) /\ F(c)!Leave(t, f)
  <2>1. LeavesCond(c, f, {t}) /\ f_onq' = [f_onq EXCEPT ![t] = "none"]
    BY <1>2, <1>16 DEF LeavesCond, F!Leave, F!Unhook
  <2>2. /\ f_cqueue' \in [Fs(c) -> Seq(Waiters)] /\ \A g \in Fs(c) : IsInjective(f_cqueue'[g])
        /\ \A g \in Fs(c), u \in Waiters :
              u \in ToSet(f_cqueue'[g]) <=> u \in ToSet(f_cqueue[g]) /\ ~(g = f /\ u \in {t})
    BY <2>1, LeaveCond
  <2>3. \A g \in Fs(c), u \in Waiters :
           u \in ToSet(f_cqueue'[g]) <=> u \in ToSet(f_cqueue[g]) /\ u # t
    <3>1. \A g \in Fs(c) : t \in ToSet(f_cqueue[g]) => g = f
      BY <1>2, <1>16 DEF Queued, QueuedOnce
    <3>2. QED
      BY <2>2, <3>1
  <2>4. /\ f_onq'[t] = "none" /\ \A u \in Waiters : u # t => f_onq'[u] = f_onq[u]
        /\ f_onq' \in [Waiters -> {"none", "cond", "mutex", "local"}]
    BY <2>1 DEF FutexTypes
  <2>5. FutexTypes(c)'
    BY <1>1, <1>7, <1>14, <2>2, <2>4 DEF FutexTypes
  <2>6. Distinct(c)'
    BY <1>1, <2>2 DEF Distinct
  <2>7. Queued(c)'
    <3>1. ASSUME NEW u \in Waiters PROVE QueuedOnce(c, u)'
      BY <1>1, <2>3 DEF Queued, QueuedOnce
    <3>2. ASSUME NEW u \in Waiters PROVE QueuedWhere(c, u)'
      <4>1. CASE u = t
        <5>1. f_onq[t] = "cond"
          BY <1>2, <1>16 DEF Queued, QueuedWhere
        <5>2. QED
          BY <1>1, <2>3, <2>4, <4>1, <5>1 DEF Queued, QueuedWhere
      <4>2. CASE u # t
        BY <1>1, <2>3, <2>4, <4>2 DEF Queued, QueuedWhere
      <4>3. QED
        BY <4>1, <4>2
    <3>3. QED
      BY <3>1, <3>2 DEF Queued
  <2>8. AboutToWake'
    BY <1>1, <1>5, <1>16, <2>4 DEF AboutToWake
  <2>9. QED
    BY <1>8, <1>10, <1>11, <1>12, <1>13, <2>5, <2>6, <2>7, <2>8
<1>17. UNCHANGED <<f_cqueue, f_onq>>
       \/ (l = "lock" /\ t \in ToSet(f_cqueue[f]) /\ F(c)!Leave(t, f))
  <2>1. f_pc \in [Waiters -> F(c)!Locations]
    BY DEF FutexTypes
  <2>2. CASE UNCHANGED <<f_cqueue, f_onq>>
    BY <2>2
  <2>3. CASE /\ f_pc'[t] = "lock" /\ t \in F(c)!Range(f_cqueue[f]) /\ F(c)!Leave(t, f)
    BY <1>3, <1>5, <2>3
  <2>4. QED
    BY <1>0, <2>1, <2>2, <2>3 DEF F!Recheck, F!GotoLocked, F!Goto
<1>18. QED
  BY <1>15, <1>16, <1>17

-----------------------------------------------------------------------------
(* The wakers *)

\* The step of a waker t that takes the threads of d and e out of the queue of f, to
\* wake the ones and to requeue the others.
Selects(c, t, f, d, e) ==
    /\ f_pc[t] = "select" /\ f = f_op[t].f
    /\ d \in Seq(Waiters) /\ IsInjective(d) /\ ToSet(d) \subseteq ToSet(f_cqueue[f])
    /\ e \in Seq(Waiters) /\ IsInjective(e) /\ ToSet(e) \subseteq ToSet(f_cqueue[f])
    /\ ToSet(d) \cap ToSet(e) = {}
    /\ ToSet(e) # {} => f_op[t].kind = "requeue"
    /\ f_cqueue' = [f_cqueue EXCEPT ![f] = F(c)!Without(@, ToSet(d) \cup ToSet(e))]
    /\ f_onq' = [u \in Waiters |-> IF u \in ToSet(d) \cup ToSet(e) THEN "local" ELSE f_onq[u]]
    /\ f_local' = [f_local EXCEPT ![t] = d]
    /\ f_moved' = [f_moved EXCEPT ![t] = e]
    /\ f_pc' = [f_pc EXCEPT ![t] = "pick"]
    /\ UNCHANGED <<f_word, f_owner, f_refs, f_mqueue, f_qbits, f_event, f_target, f_op,
                   f_goal, f_ret>>

\* Its own queues are empty until then.
LEMMA NothingTaken ==
    ASSUME NEW c \in Cases, FutexInv(c), NEW t \in Waiters, f_pc[t] = "select"
    PROVE  /\ ToSet(f_local[t]) = {} /\ ToSet(f_moved[t]) = {} /\ f_target[t] = none
           /\ f_op[t].f \in Fs(c) /\ f_op[t].kind \in {"wake", "release", "requeue"}
           /\ f_op[t].kind = "requeue" => f_op[t].f2 \in Fs(c)
<1> USE DEF FutexInv
<1>1. ToSet(f_local[t]) \subseteq Waiters /\ ToSet(f_moved[t]) \subseteq Waiters
  <2>1. f_local[t] \in Seq(Waiters) /\ f_moved[t] \in Seq(Waiters)
    BY DEF FutexTypes
  <2>2. QED
    BY <2>1, InQueue
<1>2. QED
  BY <1>1 DEF Places, Shape, Arguments, WakePart

LEMMA SelectsInv ==
    ASSUME NEW c \in Cases, FutexInv(c), NEW t \in Waiters, NEW f, NEW d, NEW e,
           Selects(c, t, f, d, e)
    PROVE  FutexInv(c)'
<1> USE DEF FutexInv
<1> DEFINE U == ToSet(d) \cup ToSet(e)
<1>1. /\ f_pc[t] = "select" /\ f = f_op[t].f
      /\ d \in Seq(Waiters) /\ IsInjective(d) /\ ToSet(d) \subseteq ToSet(f_cqueue[f])
      /\ e \in Seq(Waiters) /\ IsInjective(e) /\ ToSet(e) \subseteq ToSet(f_cqueue[f])
      /\ ToSet(d) \cap ToSet(e) = {}
      /\ ToSet(e) # {} => f_op[t].kind = "requeue"
      /\ f_local' = [f_local EXCEPT ![t] = d]
      /\ f_moved' = [f_moved EXCEPT ![t] = e]
      /\ f_pc' = [f_pc EXCEPT ![t] = "pick"]
      /\ UNCHANGED <<f_word, f_owner, f_refs, f_mqueue, f_qbits, f_event, f_target, f_op,
                     f_goal, f_ret>>
  BY DEF Selects
<1>2. /\ ToSet(f_local[t]) = {} /\ ToSet(f_moved[t]) = {} /\ f_target[t] = none
      /\ f \in Fs(c) /\ f_op[t].kind \in {"wake", "release", "requeue"}
  BY <1>1, NothingTaken
<1>3. /\ f_cqueue' \in [Fs(c) -> Seq(Waiters)] /\ \A g \in Fs(c) : IsInjective(f_cqueue'[g])
      /\ \A g \in Fs(c), u \in Waiters :
            u \in ToSet(f_cqueue'[g]) <=> u \in ToSet(f_cqueue[g]) /\ ~(g = f /\ u \in U)
  <2>1. LeavesCond(c, f, U)
    BY <1>2 DEF LeavesCond, Selects
  <2> HIDE DEF U
  <2>2. QED
    BY <2>1, LeaveCond
<1>4. ASSUME NEW u \in Waiters, u \in U
      PROVE  /\ f_onq[u] = "cond" /\ u \in ToSet(f_cqueue[f])
             /\ \A g \in Fs(c) : u \in ToSet(f_cqueue[g]) => g = f
             /\ \A v \in Waiters : u \notin ToSet(f_local[v]) /\ u \notin ToSet(f_moved[v])
             /\ \A g \in Fs(c) : u \notin ToSet(f_mqueue[g])
  <2>1. u \in ToSet(f_cqueue[f])
    BY <1>1, <1>4
  <2>2. f_onq[u] = "cond"
    BY <1>2, <2>1 DEF Queued, QueuedWhere
  <2>3. QED
    BY <1>2, <2>1, <2>2 DEF Queued, QueuedOnce, QueuedWhere
<1>5. \A u \in Waiters : f_onq'[u] = IF u \in U THEN "local" ELSE f_onq[u]
  BY DEF Selects
<1>6. f_onq' \in [Waiters -> {"none", "cond", "mutex", "local"}]
  BY <1>5 DEF FutexTypes, Selects
<1>7. /\ f_local'[t] = d /\ f_moved'[t] = e /\ f_pc'[t] = "pick"
      /\ \A u \in Waiters : u # t => /\ f_local'[u] = f_local[u] /\ f_moved'[u] = f_moved[u]
                                     /\ f_pc'[u] = f_pc[u]
  BY <1>1 DEF FutexTypes
<1>8. \A u, v \in Waiters :
         /\ u \in ToSet(f_local'[v]) <=> u \in ToSet(f_local[v]) \/ (v = t /\ u \in ToSet(d))
         /\ u \in ToSet(f_moved'[v]) <=> u \in ToSet(f_moved[v]) \/ (v = t /\ u \in ToSet(e))
  BY <1>2, <1>7
<1>9. FutexTypes(c)' /\ Arguments(c)'
  <2>1. f_pc' \in [Waiters -> F(c)!Locations]
    BY <1>1 DEF FutexTypes, F!Locations
  <2>2. f_local' \in [Waiters -> Seq(Waiters)] /\ f_moved' \in [Waiters -> Seq(Waiters)]
    BY <1>1 DEF FutexTypes
  <2>3. QED
    BY <1>1, <1>3, <1>6, <2>1, <2>2 DEF FutexTypes, Arguments
<1>10. Shape(c)'
  BY <1>1, <1>2, <1>7 DEF Shape, Locking, WaitPart, WakePart
<1>11. Held(c)'
  <2>1. \A g \in Fs(c), u \in Waiters : Holds(u, g)' = Holds(u, g)
    BY <1>1, <1>7 DEF Holds, HoldsFirst, HoldsSecond
  <2>2. QED
    BY <1>1, <2>1 DEF Held
<1>12. Events'
  BY <1>1, <1>7 DEF Events
<1>13. AboutToWake'
  BY <1>1, <1>5, <1>7 DEF AboutToWake
<1>14. Distinct(c)'
  <2>1. ASSUME NEW u \in Waiters PROVE IsInjective(f_local'[u]) /\ IsInjective(f_moved'[u])
    <3>1. CASE u = t
      BY <1>1, <1>7, <3>1
    <3>2. CASE u # t
      BY <1>7, <3>2 DEF Distinct
    <3>3. QED
      BY <3>1, <3>2
  <2>2. QED
    BY <1>1, <1>3, <2>1 DEF Distinct
<1> HIDE DEF U
<1>15. \A u \in Waiters : u \in U <=> u \in ToSet(d) \/ u \in ToSet(e)
  BY DEF U
<1>16. ASSUME NEW u \in Waiters PROVE QueuedOnce(c, u)'
  <2>1. \A g, h \in Fs(c) : u \in ToSet(f_cqueue'[g]) /\ u \in ToSet(f_cqueue'[h]) => g = h
    BY <1>3 DEF Queued, QueuedOnce
  <2>2. CASE u \in U
    BY <1>1, <1>4, <1>8, <1>15, <2>1, <2>2 DEF QueuedOnce
  <2>3. CASE u \notin U
    BY <1>8, <1>15, <2>1, <2>3 DEF Queued, QueuedOnce
  <2>4. QED
    BY <2>2, <2>3
<1>17. ASSUME NEW u \in Waiters PROVE QueuedWhere(c, u)'
  <2>1. CASE u \in U
    <3>1. f_onq'[u] = "local" /\ \E v \in Waiters : \/ u \in ToSet(f_local'[v])
                                                    \/ u \in ToSet(f_moved'[v])
      BY <1>5, <1>8, <1>15, <2>1
    <3>2. \A g \in Fs(c) : u \notin ToSet(f_cqueue'[g])
      BY <1>3, <1>4, <2>1
    <3>3. \A g \in Fs(c) : u \notin ToSet(f_mqueue'[g])
      BY <1>1, <1>4, <2>1
    <3>4. QED
      BY <3>1, <3>2, <3>3 DEF QueuedWhere
  <2>2. CASE u \notin U
    <3>1. f_onq'[u] = f_onq[u] /\ QueuedWhere(c, u)
      BY <1>5, <2>2 DEF Queued
    <3>2. \A g \in Fs(c) : /\ u \in ToSet(f_cqueue'[g]) <=> u \in ToSet(f_cqueue[g])
                           /\ u \in ToSet(f_mqueue'[g]) <=> u \in ToSet(f_mqueue[g])
      BY <1>1, <1>3, <2>2
    <3>3. \A v \in Waiters : /\ u \in ToSet(f_local'[v]) <=> u \in ToSet(f_local[v])
                             /\ u \in ToSet(f_moved'[v]) <=> u \in ToSet(f_moved[v])
      BY <1>8, <1>15, <2>2
    <3>4. QED
      BY <3>1, <3>2, <3>3 DEF QueuedWhere
  <2>3. QED
    BY <2>1, <2>2
<1>18. Queued(c)'
  BY <1>16, <1>17 DEF Queued
<1>19. Places(c)'
  BY <1>1, <1>2, <1>7, <1>8 DEF Places
<1>20. QED
  BY <1>9, <1>10, <1>11, <1>12, <1>13, <1>14, <1>18, <1>19

\* A waker takes its waiters out of the queue.
LEMMA SelectInv ==
    ASSUME NEW c \in Cases, FutexInv(c), NEW t \in Waiters, F(c)!Select(t)
    PROVE  FutexInv(c)'
<1> USE DEF FutexInv
<1>0. PICK f, d, plain :
         /\ f = f_op[t].f
         /\ d = F(c)!Chosen(f_cqueue[f], f_op[t].bits, f_op[t].n)
         /\ plain = (f_op[t].n = 1 /\ f_op[t].bits = F(c)!MatchAny)
  OBVIOUS
<1>1. /\ f_pc[t] = "select"
      /\ f_cqueue' = [f_cqueue EXCEPT ![f] = F(c)!Without(@, F(c)!Range(d))]
      /\ f_onq' = [u \in Waiters |-> IF u \in F(c)!Range(d)
                                     THEN IF plain THEN "none" ELSE "local"
                                     ELSE f_onq[u]]
      /\ IF plain /\ d # <<>>
         THEN f_target' = [f_target EXCEPT ![t] = Head(d)] /\ UNCHANGED f_local
         ELSE f_local' = [f_local EXCEPT ![t] = d] /\ UNCHANGED f_target
      /\ f_pc' = [f_pc EXCEPT ![t] = IF plain /\ d # <<>> THEN "wake" ELSE "pick"]
      /\ UNCHANGED <<f_word, f_owner, f_refs, f_mqueue, f_qbits, f_event, f_moved, f_op,
                     f_goal, f_ret>>
  BY <1>0 DEF F!Select, F!Goto
<1>2. /\ ToSet(f_local[t]) = {} /\ ToSet(f_moved[t]) = {} /\ f_target[t] = none
      /\ f \in Fs(c) /\ f_op[t].kind \in {"wake", "release", "requeue"}
  BY <1>0, <1>1, NothingTaken
<1>3. f_cqueue[f] \in Seq(Waiters) /\ IsInjective(f_cqueue[f])
  BY <1>2 DEF FutexTypes, Distinct
<1>4. /\ d \in Seq(Waiters) /\ IsInjective(d) /\ ToSet(d) \subseteq ToSet(f_cqueue[f])
      /\ plain /\ d # <<>> => Head(d) \in Waiters /\ ToSet(d) = {Head(d)}
      /\ d = <<>> => ToSet(d) = {}
  <2> DEFINE q == f_cqueue[f]
             b == f_op[t].bits
             n == f_op[t].n
             r == F(c)!Chosen(q, b, n)
  <2>1. q \in Seq(Waiters) /\ IsInjective(q)
    BY <1>3
  <2>2. r = d /\ (plain => n = 1)
    BY <1>0
  <2> HIDE DEF q, b, n
  <2>3. r \in Seq(Waiters)
    BY <2>1, ChosenFacts, Zenon
  <2>4. IsInjective(r)
    BY <2>1, ChosenFacts, Zenon
  <2>5. ToSet(r) \subseteq ToSet(q) /\ (r = <<>> => ToSet(r) = {})
    <3>1. ToSet(r) \subseteq ToSet(q)
      BY <2>1, ChosenFacts, Zenon
    <3>2. QED
      BY <3>1, EmptyQueue
  <2>6. n = 1 /\ r # <<>> => Head(r) \in Waiters /\ ToSet(r) = {Head(r)}
    BY <2>1, ChosenFacts, SMT
  <2>7. QED
    BY <2>2, <2>3, <2>4, <2>5, <2>6 DEF q
<1>5. F(c)!Range(d) = ToSet(d)
  BY <1>4, InQueue
<1>6. CASE ~(plain /\ d # <<>>)
  <2>1. PICK e : e = f_moved[t]
    OBVIOUS
  <2>2. e \in Seq(Waiters) /\ IsInjective(e) /\ ToSet(e) = {}
    BY <1>2, <2>1 DEF FutexTypes, Distinct
  <2>3. f_moved' = [f_moved EXCEPT ![t] = e]
    BY <1>1, <2>1 DEF FutexTypes
  <2>4. f_onq' = [u \in Waiters |-> IF u \in ToSet(d) \cup ToSet(e) THEN "local" ELSE f_onq[u]]
    BY <1>1, <1>4, <1>5, <1>6, <2>2
  <2>5. ToSet(d) = ToSet(d) \cup ToSet(e)
    BY <2>2
  <2>6. f_cqueue' = [f_cqueue EXCEPT ![f] = F(c)!Without(@, ToSet(d) \cup ToSet(e))]
    BY <1>1, <1>5, <2>5
  <2>7. f_local' = [f_local EXCEPT ![t] = d] /\ f_pc' = [f_pc EXCEPT ![t] = "pick"]
        /\ UNCHANGED <<f_word, f_owner, f_refs, f_mqueue, f_qbits, f_event, f_target, f_op,
                       f_goal, f_ret>>
    BY <1>1, <1>6
  <2>8. ToSet(d) \cap ToSet(e) = {} /\ ToSet(e) \subseteq ToSet(f_cqueue[f])
    BY <2>2
  <2>9. Selects(c, t, f, d, e)
    BY <1>0, <1>1, <1>4, <2>2, <2>3, <2>4, <2>6, <2>7, <2>8 DEF Selects
  <2>10. QED
    BY <2>9, SelectsInv
<1>7. CASE plain /\ d # <<>>
  <2>1. PICK x \in Waiters : x = Head(d) /\ ToSet(d) = {x}
    BY <1>4, <1>7
  <2>2. /\ f_target' = [f_target EXCEPT ![t] = x] /\ f_local' = f_local
        /\ f_pc' = [f_pc EXCEPT ![t] = "wake"]
        /\ f_onq' = [u \in Waiters |-> IF u = x THEN "none" ELSE f_onq[u]]
    BY <1>1, <1>5, <1>7, <2>1
  <2>3. /\ f_cqueue' \in [Fs(c) -> Seq(Waiters)] /\ \A g \in Fs(c) : IsInjective(f_cqueue'[g])
        /\ \A g \in Fs(c), u \in Waiters :
              u \in ToSet(f_cqueue'[g]) <=> u \in ToSet(f_cqueue[g]) /\ ~(g = f /\ u \in {x})
    <3>1. LeavesCond(c, f, {x})
      BY <1>1, <1>2, <1>5, <2>1 DEF LeavesCond
    <3>2. QED
      BY <3>1, LeaveCond
  <2>4. x \in ToSet(f_cqueue[f]) /\ f_onq[x] = "cond"
    BY <1>2, <1>4, <2>1 DEF Queued, QueuedWhere
  <2>5. \A g \in Fs(c) : x \in ToSet(f_cqueue[g]) => g = f
    BY <1>2, <2>4 DEF Queued, QueuedOnce
  <2>6. \A g \in Fs(c), u \in Waiters :
           u \in ToSet(f_cqueue'[g]) <=> u \in ToSet(f_cqueue[g]) /\ u # x
    BY <2>3, <2>5
  <2>7. /\ f_target'[t] = x /\ f_pc'[t] = "wake" /\ f_onq'[x] = "none"
        /\ \A u \in Waiters : u # t => f_target'[u] = f_target[u] /\ f_pc'[u] = f_pc[u]
        /\ \A u \in Waiters : u # x => f_onq'[u] = f_onq[u]
    BY <2>2 DEF FutexTypes
  <2>8. FutexTypes(c)' /\ Arguments(c)'
    <3>1. f_pc' \in [Waiters -> F(c)!Locations]
      BY <2>2 DEF FutexTypes, F!Locations
    <3>2. f_target' \in [Waiters -> Waiters \cup {none}]
          /\ f_onq' \in [Waiters -> {"none", "cond", "mutex", "local"}]
      BY <2>2 DEF FutexTypes
    <3>3. QED
      BY <1>1, <2>2, <2>3, <3>1, <3>2 DEF FutexTypes, Arguments
  <2>9. Shape(c)'
    BY <1>1, <1>2, <2>7 DEF Shape, Locking, WaitPart, WakePart
  <2>10. Held(c)'
    <3>1. \A g \in Fs(c), u \in Waiters : Holds(u, g)' = Holds(u, g)
      BY <1>1, <2>7 DEF Holds, HoldsFirst, HoldsSecond
    <3>2. QED
      BY <1>1, <3>1 DEF Held
  <2>11. Events'
    BY <1>1, <2>7 DEF Events
  <2>12. AboutToWake'
    <3>1. \A u \in Waiters : f_target'[u] # f_target[u] => u = t
      BY <2>7
    <3>2. \A v \in Waiters : (\E u \in Waiters : f_target[u] = v) =>
                             (\E u \in Waiters : f_target'[u] = v)
      BY <1>2, <2>7, WaitersAssumption
    <3>3. \E u \in Waiters : f_target'[u] = x
      BY <2>7
    <3>4. QED
      BY <1>1, <2>7, <3>2, <3>3 DEF AboutToWake
  <2>13. Distinct(c)'
    BY <1>1, <2>2, <2>3 DEF Distinct
  <2>14. ASSUME NEW u \in Waiters PROVE QueuedOnce(c, u)'
    BY <1>1, <2>2, <2>6 DEF Queued, QueuedOnce
  <2>15. ASSUME NEW u \in Waiters PROVE QueuedWhere(c, u)'
    <3>1. QueuedWhere(c, u)
      BY DEF Queued
    <3>2. CASE u = x
      BY <1>1, <2>2, <2>4, <2>6, <2>7, <3>1, <3>2 DEF QueuedWhere
    <3>3. CASE u # x
      BY <1>1, <2>2, <2>6, <2>7, <3>1, <3>3 DEF QueuedWhere
    <3>4. QED
      BY <3>2, <3>3
  <2>16. Queued(c)'
    BY <2>14, <2>15 DEF Queued
  <2>17. Places(c)'
    BY <1>1, <1>2, <2>2, <2>7 DEF Places
  <2>18. QED
    BY <2>8, <2>9, <2>10, <2>11, <2>12, <2>13, <2>16, <2>17
<1>8. QED
  BY <1>6, <1>7

\* A requeuer takes the waiters to wake and the waiters to requeue out of the queue.
LEMMA RequeueSelectInv ==
    ASSUME NEW c \in Cases, FutexInv(c), NEW t \in Waiters, F(c)!RequeueSelect(t)
    PROVE  FutexInv(c)'
<1> USE DEF FutexInv
<1>0. PICK f, q, I, J, d, e :
         /\ f = f_op[t].f /\ q = f_cqueue[f]
         /\ I = F(c)!First(1..Len(q), f_op[t].n)
         /\ J = F(c)!First((1..Len(q)) \ I, f_op[t].m)
         /\ d = F(c)!Part(q, I) /\ e = F(c)!Part(q, J)
  OBVIOUS
<1>1. /\ f_pc[t] = "select" /\ f_op[t].kind = "requeue"
      /\ f_cqueue' = [f_cqueue EXCEPT ![f] = F(c)!Without(@, F(c)!Range(d) \cup F(c)!Range(e))]
      /\ f_onq' = [u \in Waiters |-> IF u \in F(c)!Range(d) \cup F(c)!Range(e)
                                     THEN "local" ELSE f_onq[u]]
      /\ f_local' = [f_local EXCEPT ![t] = d]
      /\ f_moved' = [f_moved EXCEPT ![t] = e]
      /\ f_pc' = [f_pc EXCEPT ![t] = "pick"]
      /\ UNCHANGED <<f_word, f_owner, f_refs, f_mqueue, f_qbits, f_event, f_target, f_op,
                     f_goal, f_ret>>
  BY <1>0 DEF F!RequeueSelect, F!Goto
<1>2. f \in Fs(c)
  BY <1>0, <1>1, NothingTaken
<1>3. q \in Seq(Waiters) /\ IsInjective(q) /\ Len(q) \in Nat
  BY <1>0, <1>2, InQueue DEF FutexTypes, Distinct
<1>4. /\ I \in SUBSET (1..Len(q)) /\ J \in SUBSET (1..Len(q)) /\ I \cap J = {}
  <2> DEFINE K == 1..Len(q)
             L == K \ I
             l == Len(q)
             n == f_op[t].n
             m == f_op[t].m
  <2>1. K \in SUBSET (1..l) /\ L \in SUBSET (1..l) /\ l \in Nat
    BY <1>3
  <2>2. I = F(c)!First(K, n) /\ J = F(c)!First(L, m)
    BY <1>0
  <2> HIDE DEF K, L, l, n, m
  <2>3. I \in SUBSET K /\ J \in SUBSET L
    BY <2>1, <2>2, FirstFacts
  <2>4. QED
    BY <2>3 DEF K, L
<1>5. /\ d \in Seq(Waiters) /\ IsInjective(d) /\ ToSet(d) = {q[i] : i \in I}
      /\ e \in Seq(Waiters) /\ IsInjective(e) /\ ToSet(e) = {q[i] : i \in J}
  <2>1. d \in Seq(Waiters) /\ IsInjective(d) /\ ToSet(d) = {q[i] : i \in I}
    <3>1. d = F(c)!Part(q, I)
      BY <1>0
    <3>2. F(c)!Part(q, I) \in Seq(Waiters)
      BY <1>3, <1>4, PartFacts, Zenon
    <3>3. IsInjective(F(c)!Part(q, I))
      BY <1>3, <1>4, PartFacts, Zenon
    <3>4. ToSet(F(c)!Part(q, I)) = {q[i] : i \in I}
      BY <1>3, <1>4, PartFacts, Zenon
    <3>5. QED
      BY <3>1, <3>2, <3>3, <3>4
  <2>2. e \in Seq(Waiters) /\ IsInjective(e) /\ ToSet(e) = {q[i] : i \in J}
    <3>1. e = F(c)!Part(q, J)
      BY <1>0
    <3>2. F(c)!Part(q, J) \in Seq(Waiters)
      BY <1>3, <1>4, PartFacts, Zenon
    <3>3. IsInjective(F(c)!Part(q, J))
      BY <1>3, <1>4, PartFacts, Zenon
    <3>4. ToSet(F(c)!Part(q, J)) = {q[i] : i \in J}
      BY <1>3, <1>4, PartFacts, Zenon
    <3>5. QED
      BY <3>1, <3>2, <3>3, <3>4
  <2>3. QED
    BY <2>1, <2>2
<1>6. /\ \A i, j \in 1..Len(q) : q[i] = q[j] => i = j
      /\ \A i \in 1..Len(q) : q[i] \in ToSet(q)
  BY <1>3, ListElements
<1>7. /\ ToSet(d) \subseteq ToSet(q) /\ ToSet(e) \subseteq ToSet(q)
      /\ ToSet(d) \cap ToSet(e) = {}
  BY <1>4, <1>5, <1>6
<1>8. F(c)!Range(d) = ToSet(d) /\ F(c)!Range(e) = ToSet(e)
  BY <1>5, InQueue
<1>9. Selects(c, t, f, d, e)
  BY <1>0, <1>1, <1>5, <1>7, <1>8 DEF Selects
<1>10. QED
  BY <1>9, SelectsInv

\* A waker clears the queue field of the next waiter of its own queue, or is done with it.
LEMMA PickWaiterInv ==
    ASSUME NEW c \in Cases, FutexInv(c), NEW t \in Waiters, F(c)!PickWaiter(t)
    PROVE  FutexInv(c)'
<1> USE DEF FutexInv
<1>1. /\ f_pc[t] = "pick"
      /\ UNCHANGED <<f_word, f_owner, f_refs, f_mqueue, f_cqueue, f_qbits, f_event, f_moved,
                     f_op, f_goal, f_ret>>
  BY DEF F!PickWaiter
<1>2. f_target[t] = none /\ f_op[t].kind \in {"wake", "release", "requeue"}
  BY <1>1 DEF Places, Shape, WakePart
<1>3. CASE f_local[t] = <<>>
  <2>1. PICK l \in {"requeue", "unlock"} : /\ f_pc' = [f_pc EXCEPT ![t] = l]
                                           /\ l = "requeue" <=> f_op[t].kind = "requeue"
                                           /\ UNCHANGED <<f_target, f_onq, f_local>>
    BY <1>3 DEF F!PickWaiter, F!Goto
  <2>2. f_pc'[t] = l /\ \A u \in Waiters : u # t => f_pc'[u] = f_pc[u]
    BY <2>1 DEF FutexTypes
  <2>3. FutexTypes(c)' /\ Arguments(c)'
    BY <1>1, <2>1 DEF FutexTypes, Arguments, F!Locations
  <2>4. Shape(c)'
    BY <1>1, <1>2, <2>1, <2>2 DEF Shape, Locking, WaitPart, WakePart
  <2>5. Held(c)'
    <3>1. \A g \in Fs(c), u \in Waiters : Holds(u, g)' = Holds(u, g)
      BY <1>1, <2>1, <2>2 DEF Holds, HoldsFirst, HoldsSecond
    <3>2. QED
      BY <1>1, <3>1 DEF Held
  <2>6. Events' /\ AboutToWake'
    BY <1>1, <2>1, <2>2 DEF Events, AboutToWake
  <2>7. Distinct(c)' /\ Queued(c)'
    BY <1>1, <2>1 DEF Distinct, Queued, QueuedOnce, QueuedWhere
  <2>8. Places(c)'
    <3>1. ToSet(f_local[t]) = {}
      BY <1>3, EmptyQueue
    <3>2. QED
      BY <1>1, <1>2, <2>1, <2>2, <3>1 DEF Places
  <2>9. QED
    BY <2>3, <2>4, <2>5, <2>6, <2>7, <2>8
<1>4. CASE f_local[t] # <<>>
  <2>1. f_local[t] \in Seq(Waiters) /\ IsInjective(f_local[t])
    BY DEF FutexTypes, Distinct
  <2> DEFINE r == Tail(f_local[t])
  <2>2. PICK x : x = Head(f_local[t])
    OBVIOUS
  <2>3. /\ x \in ToSet(f_local[t]) /\ r \in Seq(Waiters) /\ IsInjective(r)
        /\ ToSet(r) = ToSet(f_local[t]) \ {x} /\ x \in Waiters
    BY <1>4, <2>1, <2>2, ListTail, InQueue
  <2>4. /\ f_target' = [f_target EXCEPT ![t] = x]
        /\ f_onq' = [f_onq EXCEPT ![x] = "none"]
        /\ f_local' = [f_local EXCEPT ![t] = r]
        /\ f_pc' = [f_pc EXCEPT ![t] = "wake"]
    BY <1>4, <2>2 DEF F!PickWaiter, F!Goto, F!Unhook
  <2>5. OneQueue(f_local, f_local', Waiters, t, r)
    BY <2>3, <2>4 DEF OneQueue, FutexTypes, Distinct
  <2> HIDE DEF r
  <2>6. /\ f_local' \in [Waiters -> Seq(Waiters)] /\ \A u \in Waiters : IsInjective(f_local'[u])
        /\ f_local'[t] = r /\ \A u \in Waiters : u # t => f_local'[u] = f_local[u]
    BY <2>5, OneQueueFacts
  <2>7. /\ f_target'[t] = x /\ f_pc'[t] = "wake" /\ f_onq'[x] = "none"
        /\ \A u \in Waiters : u # t => f_target'[u] = f_target[u] /\ f_pc'[u] = f_pc[u]
        /\ \A u \in Waiters : u # x => f_onq'[u] = f_onq[u]
    BY <2>3, <2>4 DEF FutexTypes
  <2>8. f_onq[x] = "local" /\ \A v \in Waiters : /\ x \in ToSet(f_local[v]) => v = t
                                                 /\ x \notin ToSet(f_moved[v])
    BY <2>3 DEF Queued, QueuedOnce, QueuedWhere
  <2>9. \A u, v \in Waiters :
           u \in ToSet(f_local'[v]) <=> u \in ToSet(f_local[v]) /\ u # x
    BY <2>3, <2>6, <2>8
  <2>10. FutexTypes(c)' /\ Arguments(c)'
    <3>1. f_pc' \in [Waiters -> F(c)!Locations]
      BY <2>4 DEF FutexTypes, F!Locations
    <3>2. f_target' \in [Waiters -> Waiters \cup {none}]
          /\ f_onq' \in [Waiters -> {"none", "cond", "mutex", "local"}]
      BY <2>3, <2>4 DEF FutexTypes
    <3>3. QED
      BY <1>1, <2>6, <3>1, <3>2 DEF FutexTypes, Arguments
  <2>11. Shape(c)'
    BY <1>1, <1>2, <2>7 DEF Shape, Locking, WaitPart, WakePart
  <2>12. Held(c)'
    <3>1. \A g \in Fs(c), u \in Waiters : Holds(u, g)' = Holds(u, g)
      BY <1>1, <2>7 DEF Holds, HoldsFirst, HoldsSecond
    <3>2. QED
      BY <1>1, <3>1 DEF Held
  <2>13. Events'
    BY <1>1, <2>7 DEF Events
  <2>14. AboutToWake'
    <3>1. \A v \in Waiters : (\E u \in Waiters : f_target[u] = v) =>
                             (\E u \in Waiters : f_target'[u] = v)
      BY <1>2, <2>7, WaitersAssumption
    <3>2. \E u \in Waiters : f_target'[u] = x
      BY <2>7
    <3>3. QED
      BY <1>1, <2>7, <3>1, <3>2 DEF AboutToWake
  <2>15. Distinct(c)'
    BY <1>1, <2>6 DEF Distinct
  <2>16. ASSUME NEW u \in Waiters PROVE QueuedOnce(c, u)'
    BY <1>1, <2>9 DEF Queued, QueuedOnce
  <2>17. ASSUME NEW u \in Waiters PROVE QueuedWhere(c, u)'
    <3>1. QueuedWhere(c, u)
      BY DEF Queued
    <3>2. CASE u = x
      BY <1>1, <2>7, <2>8, <2>9, <3>1, <3>2 DEF QueuedWhere
    <3>3. CASE u # x
      BY <1>1, <2>7, <2>9, <3>1, <3>3 DEF QueuedWhere
    <3>4. QED
      BY <3>2, <3>3
  <2>18. Queued(c)'
    BY <2>16, <2>17 DEF Queued
  <2>19. Places(c)'
    BY <1>1, <1>2, <2>7, <2>9 DEF Places
  <2>20. QED
    BY <2>10, <2>11, <2>12, <2>13, <2>14, <2>15, <2>18, <2>19
<1>5. QED
  BY <1>3, <1>4

\* A waker wakes the waiter it picked.
LEMMA WakeWaiterInv ==
    ASSUME NEW c \in Cases, FutexInv(c), NEW t \in Waiters, F(c)!WakeWaiter(t)
    PROVE  FutexInv(c)'
<1> USE DEF FutexInv
<1>0. PICK x : x = f_target[t]
  OBVIOUS
<1>1. /\ f_pc[t] = "wake"
      /\ f_event' = [f_event EXCEPT ![x] = f_event[x] + 1]
      /\ f_target' = [f_target EXCEPT ![t] = none]
      /\ f_pc' = [f_pc EXCEPT ![t] = "pick"]
      /\ UNCHANGED <<f_word, f_owner, f_refs, f_mqueue, f_cqueue, f_onq, f_qbits, f_local,
                     f_moved, f_op, f_goal, f_ret>>
  BY <1>0 DEF F!WakeWaiter, F!TcallWake, F!Goto
<1>2. f_op[t].kind \in {"wake", "release", "requeue"}
  BY <1>1 DEF Shape, WakePart
<1>3. /\ f_pc'[t] = "pick" /\ f_target'[t] = none
      /\ \A u \in Waiters : u # t => f_target'[u] = f_target[u] /\ f_pc'[u] = f_pc[u]
  BY <1>1 DEF FutexTypes
<1>4. f_event' \in [Waiters -> Int]
  <2>1. \A u \in Waiters : f_event[u] \in Int /\ f_event[u] + 1 \in Int
    BY DEF FutexTypes
  <2>2. QED
    BY <1>1, <2>1 DEF FutexTypes
<1>5. ASSUME NEW u \in Waiters
      PROVE  /\ f_event[u] \in Int /\ f_event'[u] = IF u = x THEN f_event[u] + 1 ELSE f_event[u]
  BY <1>1 DEF FutexTypes
<1>6. FutexTypes(c)' /\ Arguments(c)'
  <2>1. f_pc' \in [Waiters -> F(c)!Locations]
    BY <1>1 DEF FutexTypes, F!Locations
  <2>2. f_target' \in [Waiters -> Waiters \cup {none}]
    BY <1>1 DEF FutexTypes
  <2>3. QED
    BY <1>1, <1>4, <2>1, <2>2 DEF FutexTypes, Arguments
<1>7. Shape(c)'
  BY <1>1, <1>2, <1>3 DEF Shape, Locking, WaitPart, WakePart
<1>8. Held(c)'
  <2>1. \A g \in Fs(c), u \in Waiters : Holds(u, g)' = Holds(u, g)
    BY <1>1, <1>3 DEF Holds, HoldsFirst, HoldsSecond
  <2>2. QED
    BY <1>1, <2>1 DEF Held
<1>9. ASSUME NEW u \in Waiters PROVE f_event'[u] >= -1 /\ (f_event'[u] = -1 => f_pc'[u] = "sleep")
  <2>1. f_event[u] >= -1 /\ (f_event[u] = -1 => f_pc[u] = "sleep")
    BY DEF Events
  <2>2. f_pc[u] = "sleep" => f_pc'[u] = "sleep"
    BY <1>1, <1>3
  <2>3. QED
    BY <1>5, <2>1, <2>2
<1>10. Events'
  BY <1>9 DEF Events
<1>11. ASSUME NEW u \in Waiters, f_onq'[u] = "none"
       PROVE  /\ f_pc'[u] \in {"enter", "wait"} =>
                    f_event'[u] >= 1 \/ \E v \in Waiters : f_target'[v] = u
              /\ f_pc'[u] = "sleep" /\ f_event'[u] = -1 => \E v \in Waiters : f_target'[v] = u
  <2>1. f_pc'[u] \in {"enter", "wait", "sleep"} => f_pc'[u] = f_pc[u]
    BY <1>1, <1>3
  <2>2. f_onq[u] = "none" /\ f_event[u] >= -1 /\ (f_event[u] = -1 => f_pc[u] = "sleep")
    BY <1>1, <1>11 DEF Events
  <2>3. CASE u = x
    BY <1>5, <2>1, <2>2, <2>3
  <2>4. CASE u # x
    <3>1. f_event'[u] = f_event[u]
      BY <1>5, <2>4
    <3>2. \A v \in Waiters : f_target[v] = u => f_target'[v] = u
      BY <1>0, <1>3, <2>4
    <3>3. QED
      BY <2>1, <2>2, <3>1, <3>2 DEF AboutToWake
  <2>5. QED
    BY <2>3, <2>4
<1>12. AboutToWake'
  BY <1>11 DEF AboutToWake
<1>13. Distinct(c)' /\ Queued(c)'
  BY <1>1 DEF Distinct, Queued, QueuedOnce, QueuedWhere
<1>14. Places(c)'
  BY <1>1, <1>3 DEF Places
<1>15. QED
  BY <1>6, <1>7, <1>8, <1>10, <1>12, <1>13, <1>14

\* A requeuer puts the waiters it moves behind those of the second futex.
LEMMA RequeuePushInv ==
    ASSUME NEW c \in Cases, FutexInv(c), NEW t \in Waiters, F(c)!RequeuePush(t)
    PROVE  FutexInv(c)'
<1> USE DEF FutexInv
<1>0. PICK f, m : f = f_op[t].f2 /\ m = f_moved[t]
  OBVIOUS
<1>1. /\ f_pc[t] = "requeue"
      /\ f_cqueue' = [f_cqueue EXCEPT ![f] = @ \o m]
      /\ f_onq' = [u \in Waiters |-> IF u \in F(c)!Range(m) THEN "cond" ELSE f_onq[u]]
      /\ f_moved' = [f_moved EXCEPT ![t] = <<>>]
      /\ f_pc' = [f_pc EXCEPT ![t] = "unlock"]
      /\ UNCHANGED <<f_word, f_owner, f_refs, f_mqueue, f_qbits, f_event, f_local, f_target,
                     f_op, f_goal, f_ret>>
  BY <1>0 DEF F!RequeuePush, F!PushAll, F!Goto
<1>2. f_op[t].kind = "requeue" /\ f \in Fs(c)
  BY <1>0, <1>1 DEF Shape, Arguments
<1>3. /\ f_cqueue \in [Fs(c) -> Seq(Waiters)] /\ \A g \in Fs(c) : IsInjective(f_cqueue[g])
      /\ f_cqueue[f] \in Seq(Waiters) /\ IsInjective(f_cqueue[f])
      /\ m \in Seq(Waiters) /\ IsInjective(m)
  BY <1>0, <1>2 DEF FutexTypes, Distinct
<1>4. F(c)!Range(m) = ToSet(m) /\ ToSet(m) \subseteq Waiters
  BY <1>3, InQueue
<1>5. ASSUME NEW u \in Waiters, u \in ToSet(m)
      PROVE  /\ f_onq[u] = "local"
             /\ \A g \in Fs(c) : u \notin ToSet(f_cqueue[g]) /\ u \notin ToSet(f_mqueue[g])
             /\ \A v \in Waiters : /\ u \in ToSet(f_moved[v]) => v = t
                                   /\ u \notin ToSet(f_local[v])
  <2>1. f_onq[u] = "local"
    BY <1>0, <1>5 DEF Queued, QueuedWhere
  <2>2. QED
    BY <1>0, <1>5, <2>1 DEF Queued, QueuedOnce, QueuedWhere
<1> DEFINE r == f_cqueue[f] \o m
<1>6. /\ r \in Seq(Waiters) /\ IsInjective(r)
      /\ ToSet(r) = ToSet(f_cqueue[f]) \cup ToSet(m)
  <2>1. ToSet(f_cqueue[f]) \cap ToSet(m) = {}
    BY <1>2, <1>4, <1>5
  <2>2. QED
    BY <1>3, <2>1, ListConcat
<1>7. OneQueue(f_cqueue, f_cqueue', Fs(c), f, r)
  BY <1>1, <1>2, <1>3, <1>6 DEF OneQueue
<1> HIDE DEF r
<1>8. /\ f_cqueue' \in [Fs(c) -> Seq(Waiters)] /\ \A g \in Fs(c) : IsInjective(f_cqueue'[g])
      /\ f_cqueue'[f] = r /\ \A g \in Fs(c) : g # f => f_cqueue'[g] = f_cqueue[g]
  BY <1>7, OneQueueFacts
<1>9. \A g \in Fs(c), u \in Waiters :
         u \in ToSet(f_cqueue'[g]) <=> u \in ToSet(f_cqueue[g]) \/ (g = f /\ u \in ToSet(m))
  BY <1>6, <1>8
<1>10. OneQueue(f_moved, f_moved', Waiters, t, <<>>)
  <2>1. <<>> \in Seq(Waiters) /\ IsInjective(<<>>)
    BY DEF IsInjective
  <2>2. QED
    BY <1>1, <2>1 DEF OneQueue, FutexTypes, Distinct
<1>11. /\ f_moved' \in [Waiters -> Seq(Waiters)] /\ \A u \in Waiters : IsInjective(f_moved'[u])
       /\ f_moved'[t] = <<>> /\ \A u \in Waiters : u # t => f_moved'[u] = f_moved[u]
  BY <1>10, OneQueueFacts
<1>12. \A u, v \in Waiters : u \in ToSet(f_moved'[v]) <=> u \in ToSet(f_moved[v]) /\ v # t
  BY <1>11, EmptyQueue
<1>13. /\ f_pc'[t] = "unlock" /\ \A u \in Waiters : u # t => f_pc'[u] = f_pc[u]
       /\ \A u \in Waiters : f_onq'[u] = IF u \in ToSet(m) THEN "cond" ELSE f_onq[u]
  BY <1>1, <1>4 DEF FutexTypes
<1>14. FutexTypes(c)' /\ Arguments(c)'
  <2>1. f_pc' \in [Waiters -> F(c)!Locations]
    BY <1>1 DEF FutexTypes, F!Locations
  <2>2. f_onq' \in [Waiters -> {"none", "cond", "mutex", "local"}]
    BY <1>1, <1>13 DEF FutexTypes
  <2>3. QED
    BY <1>1, <1>8, <1>11, <2>1, <2>2 DEF FutexTypes, Arguments
<1>15. Shape(c)'
  BY <1>1, <1>2, <1>13 DEF Shape, Locking, WaitPart, WakePart
<1>16. Held(c)'
  <2>1. \A g \in Fs(c), u \in Waiters : Holds(u, g)' = Holds(u, g)
    BY <1>1, <1>13 DEF Holds, HoldsFirst, HoldsSecond
  <2>2. QED
    BY <1>1, <2>1 DEF Held
<1>17. Events'
  BY <1>1, <1>13 DEF Events
<1>18. AboutToWake'
  BY <1>1, <1>13 DEF AboutToWake
<1>19. Distinct(c)'
  BY <1>1, <1>8, <1>11 DEF Distinct
<1>20. ASSUME NEW u \in Waiters PROVE QueuedOnce(c, u)'
  <2>1. CASE u \in ToSet(m)
    BY <1>1, <1>5, <1>9, <1>12, <2>1 DEF QueuedOnce
  <2>2. CASE u \notin ToSet(m)
    BY <1>1, <1>9, <1>12, <2>2 DEF Queued, QueuedOnce
  <2>3. QED
    BY <2>1, <2>2
<1>21. ASSUME NEW u \in Waiters PROVE QueuedWhere(c, u)'
  <2>1. CASE u \in ToSet(m)
    <3>1. f_onq'[u] = "cond" /\ u \in ToSet(f_cqueue'[f])
      BY <1>2, <1>9, <1>13, <2>1
    <3>2. \A g \in Fs(c) : u \notin ToSet(f_mqueue'[g])
      BY <1>1, <1>5, <2>1
    <3>3. \A v \in Waiters : u \notin ToSet(f_local'[v]) /\ u \notin ToSet(f_moved'[v])
      BY <1>1, <1>5, <1>12, <2>1
    <3>4. QED
      BY <1>2, <3>1, <3>2, <3>3 DEF QueuedWhere
  <2>2. CASE u \notin ToSet(m)
    <3>1. f_onq'[u] = f_onq[u] /\ QueuedWhere(c, u)
      BY <1>13, <2>2 DEF Queued
    <3>2. \A g \in Fs(c) : /\ u \in ToSet(f_cqueue'[g]) <=> u \in ToSet(f_cqueue[g])
                           /\ u \in ToSet(f_mqueue'[g]) <=> u \in ToSet(f_mqueue[g])
      BY <1>1, <1>9, <2>2
    <3>3. \A v \in Waiters : /\ u \in ToSet(f_local'[v]) <=> u \in ToSet(f_local[v])
                             /\ u \in ToSet(f_moved'[v]) <=> u \in ToSet(f_moved[v])
      BY <1>0, <1>1, <1>12, <2>2
    <3>4. QED
      BY <3>1, <3>2, <3>3 DEF QueuedWhere
  <2>3. QED
    BY <2>1, <2>2
<1>22. Queued(c)'
  BY <1>20, <1>21 DEF Queued
<1>23. Places(c)'
  BY <1>1, <1>12, <1>13 DEF Places
<1>24. QED
  BY <1>14, <1>15, <1>16, <1>17, <1>18, <1>19, <1>22, <1>23

-----------------------------------------------------------------------------
(* The invariant holds *)

LEMMA FutexInit ==
    ASSUME NEW c \in Cases, F(c)!Init PROVE FutexInv(c)
<1>1. /\ f_word = [f \in Fs(c) |-> 0] /\ f_owner = [f \in Fs(c) |-> none]
      /\ f_refs = [f \in Fs(c) |-> 0] /\ f_mqueue = [f \in Fs(c) |-> <<>>]
      /\ f_cqueue = [f \in Fs(c) |-> <<>>] /\ f_onq = [t \in Waiters |-> "none"]
      /\ f_qbits = [t \in Waiters |-> {}] /\ f_event = [t \in Waiters |-> 0]
      /\ f_pc = [t \in Waiters |-> "run"] /\ f_goal = [t \in Waiters |-> F(c)!NoGoal]
      /\ f_op = [t \in Waiters |-> F(c)!NoOp] /\ f_ret = [t \in Waiters |-> "ok"]
      /\ f_local = [t \in Waiters |-> <<>>] /\ f_moved = [t \in Waiters |-> <<>>]
      /\ f_target = [t \in Waiters |-> none]
  BY DEF F!Init, Fs
<1>2. <<>> \in Seq(Waiters) /\ IsInjective(<<>>) /\ ToSet(<<>>) = {}
  BY EmptyQueue DEF IsInjective
<1>3. /\ F(c)!NoOp.kind = "none" /\ F(c)!NoGoal.next = "run"
      /\ F(c)!NoOp \in [kind : {"none", "wait", "wake", "release", "requeue"},
                        f : Fs(c) \cup {none}, f2 : Fs(c) \cup {none},
                        n : Nat, m : Nat, bits : SUBSET Config[c].bits, timed : BOOLEAN]
      /\ F(c)!NoGoal \in [f : Fs(c) \cup {none}, next : F(c)!Locations]
  BY DEF F!NoOp, F!NoGoal, F!Locations
<1>4. FutexTypes(c)
  <2>1. "run" \in F(c)!Locations
    BY DEF F!Locations
  <2>2. QED
    BY <1>1, <1>2, <1>3, <2>1 DEF FutexTypes
<1>5. Arguments(c) /\ Shape(c)
  BY <1>1, <1>3 DEF Arguments, Shape, WaitPart, WakePart
<1>6. Held(c)
  <2>1. \A t \in Waiters, f \in Fs(c) : Holds(t, f) = 0
    BY <1>1 DEF Holds, HoldsFirst, HoldsSecond
  <2>2. QED
    BY <1>1, <2>1, WaitersAssumption DEF Held
<1>7. Events /\ AboutToWake
  BY <1>1 DEF Events, AboutToWake
<1>8. Distinct(c)
  BY <1>1, <1>2 DEF Distinct
<1>9. Queued(c) /\ Places(c)
  BY <1>1, <1>2 DEF Queued, QueuedOnce, QueuedWhere, Places
<1>10. QED
  BY <1>4, <1>5, <1>6, <1>7, <1>8, <1>9 DEF FutexInv

LEMMA FutexNext ==
    ASSUME NEW c \in Cases, FutexInv(c), F(c)!Next PROVE FutexInv(c)'
<1>1. PICK t \in Waiters :
         \/ F(c)!CallStep(t)
         \/ F(c)!WaitCall(t) \/ F(c)!WakeCall(t) \/ F(c)!RequeueCall(t)
         \/ F(c)!TcallTimeout(t) \/ F(c)!StrayWake(t)
         \/ F(c)!DeliverSignal(t) \/ F(c)!DeliverWake(t) \/ F(c)!SyscallSignalProcess(t)
  BY DEF F!Next
<1>2. CASE F(c)!CallStep(t)
  BY <1>2, LockTakeInv, LockBlockInv, LockInterruptedInv, WaitCheckInv, WaitProcessInv,
     WaitEnqueueInv, SleepInv, RecheckInv, SelectInv, PickWaiterInv, WakeWaiterInv,
     UnlockInv, RequeueLock2Inv, RequeueSelectInv, RequeuePushInv DEF F!CallStep
<1>3. CASE F(c)!WaitCall(t) \/ F(c)!WakeCall(t) \/ F(c)!RequeueCall(t)
  BY <1>3, CallInv
<1>4. CASE F(c)!TcallTimeout(t)
  BY <1>4, SleepInv
<1>5. CASE F(c)!StrayWake(t) \/ F(c)!DeliverSignal(t) \/ F(c)!DeliverWake(t)
  BY <1>5, OutsideInv
<1>6. CASE F(c)!SyscallSignalProcess(t)
  BY <1>6, SyscallSignalProcessInv
<1>7. QED
  BY <1>1, <1>2, <1>3, <1>4, <1>5, <1>6

-----------------------------------------------------------------------------
(* Without signals and requeues *)

\* A step that sends no signal, terminates nobody and requeues nothing.
LEMMA QuietNext ==
    ASSUME NEW c \in Cases, FutexInv(c), Plain(c), Quiet, F(c)!Next
    PROVE  Quiet'
<1> USE DEF FutexInv, Quiet
<1>1. PICK t \in Waiters :
         \/ F(c)!CallStep(t)
         \/ F(c)!WaitCall(t) \/ F(c)!WakeCall(t) \/ F(c)!RequeueCall(t)
         \/ F(c)!TcallTimeout(t) \/ F(c)!StrayWake(t)
         \/ F(c)!DeliverSignal(t) \/ F(c)!DeliverWake(t) \/ F(c)!SyscallSignalProcess(t)
  BY DEF F!Next
<1>2. f_pending[t] = FALSE /\ f_pc \in [Waiters -> F(c)!Locations]
  BY DEF FutexTypes
<1>3. ~F(c)!LockInterrupted(t) /\ ~F(c)!SyscallSignalProcess(t) /\ ~F(c)!DeliverSignal(t)
  BY <1>2 DEF F!LockInterrupted, F!SyscallSignalProcess, F!DeliverSignal, Plain
<1>4. ~F(c)!RequeueLock2(t) /\ ~F(c)!RequeueSelect(t) /\ ~F(c)!RequeuePush(t)
      /\ ~F(c)!Unlock2(t)
  BY DEF Shape, F!RequeueLock2, F!RequeueSelect, F!RequeuePush, F!Unlock2
<1>5. ASSUME NEW o, NEW f, NEW l, F(c)!Call(t, o, f, l) PROVE Quiet'
  <2>1. o.kind # "requeue"
    BY <1>5 DEF F!Call, Plain
  <2>2. QED
    BY <1>2, <1>5, <2>1 DEF F!Call, F!GotoLocked, F!Goto, FutexTypes
<1>6. CASE F(c)!WaitCall(t) \/ F(c)!WakeCall(t) \/ F(c)!RequeueCall(t)
  BY <1>5, <1>6 DEF F!WaitCall, F!WakeCall, F!RequeueCall
<1>7. CASE F(c)!LockTake(t)
  <2>1. f_goal[t].next # "exited"
    BY <1>7 DEF F!LockTake, Shape, Locking
  <2>2. QED
    BY <1>2, <1>7, <2>1 DEF F!LockTake, F!Goto
<1>8. CASE F(c)!WaitProcess(t)
  BY <1>2, <1>8 DEF F!WaitProcess, F!Goto
<1>9. CASE F(c)!Unlock(t)
  <2>1. F(c)!NoOp.kind = "none"
    BY DEF F!NoOp
  <2>2. /\ f_signals' = f_signals /\ f_pending' = f_pending
        /\ f_pc' = [f_pc EXCEPT ![t] = "run"] /\ f_op' = [f_op EXCEPT ![t] = F(c)!NoOp]
    BY <1>9 DEF F!Unlock, F!Goto
  <2>3. \A u \in Waiters : f_op'[u] = f_op[u] \/ f_op'[u] = F(c)!NoOp
    BY <2>2 DEF FutexTypes
  <2>4. \A u \in Waiters : f_pc'[u] = f_pc[u] \/ f_pc'[u] = "run"
    BY <1>2, <2>2
  <2>5. QED
    BY <2>1, <2>2, <2>3, <2>4
<1>10. CASE \/ F(c)!LockBlock(t) \/ F(c)!WaitCheck(t) \/ F(c)!WaitEnqueue(t)
            \/ F(c)!WaitEnter(t) \/ F(c)!TcallWait(t) \/ F(c)!TcallReturn(t)
            \/ F(c)!Select(t) \/ F(c)!PickWaiter(t) \/ F(c)!WakeWaiter(t)
            \/ F(c)!TcallTimeout(t) \/ F(c)!StrayWake(t) \/ F(c)!DeliverWake(t)
            \/ F(c)!Recheck(t)
  <2>1. f_signals' = f_signals /\ f_pending' = f_pending /\ f_op' = f_op
    BY <1>10 DEF F!LockBlock, F!WaitCheck, F!WaitEnqueue, F!WaitEnter, F!TcallWait,
       F!TcallReturn, F!Select, F!PickWaiter, F!WakeWaiter, F!TcallTimeout, F!StrayWake,
       F!DeliverWake, F!Recheck
  <2>2. f_pc' = f_pc \/ \E l : l # "exited" /\ f_pc' = [f_pc EXCEPT ![t] = l]
    BY <1>10 DEF F!LockBlock, F!WaitCheck, F!WaitEnqueue, F!WaitEnter, F!TcallWait,
       F!TcallReturn, F!Select, F!PickWaiter, F!WakeWaiter, F!TcallTimeout, F!StrayWake,
       F!DeliverWake, F!Recheck, F!Goto, F!GotoLocked
  <2>3. QED
    BY <1>2, <2>1, <2>2
<1>11. QED
  BY <1>1, <1>3, <1>4, <1>6, <1>7, <1>8, <1>9, <1>10 DEF F!CallStep

\* What a step of t may do to the waiters.
KeepsWaiting(c, t) ==
    /\ \A u \in Waiters : u # t => /\ f_pc'[u] = f_pc[u] /\ f_op'[u] = f_op[u]
                                   /\ f_goal'[u] = f_goal[u] /\ f_qbits'[u] = f_qbits[u]
    /\ \A u \in Waiters, g \in Fs(c) :
          u # t /\ u \in ToSet(f_cqueue'[g]) => u \in ToSet(f_cqueue[g])
    /\ \A g \in Fs(c) : t \in ToSet(f_cqueue'[g]) => Sits(t, g)'
    /\ \A u, v \in Waiters : Taken(u, v)' =>
          Taken(u, v) \/ (u = t /\ v \in ToSet(f_cqueue[f_op[t].f]))
    /\ \A u \in Waiters : Taken(u, t)' => u # t /\ InWait(t, f_op[u].f)'
    /\ \A v \in Waiters : Taken(t, v)' => f_op'[t].f = f_op[t].f /\ f_op[t].f \in Fs(c)

LEMMA KeptWaiting ==
    ASSUME NEW c \in Cases, Waiting(c), NEW t \in Waiters, KeepsWaiting(c, t)
    PROVE  Waiting(c)'
<1>1. ASSUME NEW v \in Waiters, NEW g \in Fs(c), v \in ToSet(f_cqueue'[g]) PROVE Sits(v, g)'
  <2>1. CASE v = t
    BY <1>1, <2>1 DEF KeepsWaiting
  <2>2. CASE v # t
    BY <1>1, <2>2 DEF KeepsWaiting, Waiting, Sits
  <2>3. QED
    BY <2>1, <2>2
<1>2. ASSUME NEW u \in Waiters, NEW v \in Waiters, Taken(u, v)' PROVE InWait(v, f_op[u].f)'
  <2>1. CASE v = t
    BY <1>2, <2>1 DEF KeepsWaiting
  <2>2. CASE v # t
    <3>1. f_pc'[v] = f_pc[v] /\ f_op'[v] = f_op[v] /\ f_goal'[v] = f_goal[v]
      BY <2>2 DEF KeepsWaiting
    <3>2. f_op'[u].f = f_op[u].f
      BY <1>2 DEF KeepsWaiting
    <3>3. CASE Taken(u, v)
      <4>1. InWait(v, f_op[u].f)
        BY <3>3 DEF Waiting
      <4>2. QED
        BY <3>1, <3>2, <4>1 DEF InWait
    <3>4. CASE u = t /\ v \in ToSet(f_cqueue[f_op[t].f])
      <4>1. f_op[t].f \in Fs(c)
        BY <1>2, <3>4 DEF KeepsWaiting
      <4>2. Sits(v, f_op[t].f)
        BY <3>4, <4>1 DEF Waiting
      <4>3. QED
        BY <3>1, <3>2, <3>4, <4>2 DEF Sits, InWait
    <3>5. QED
      BY <1>2, <3>3, <3>4 DEF KeepsWaiting
  <2>3. QED
    BY <2>1, <2>2
<1>3. QED
  BY <1>1, <1>2 DEF Waiting

\* What a step of t may do to those who wait for an old value.
KeepsFresh(c, t) ==
    /\ \A u \in Waiters : u # t => f_pc'[u] = f_pc[u] /\ f_op'[u] = f_op[u]
    /\ \A g \in Fs(c) : f_word'[g] = f_word[g] \/ Releasing(t, g)'
    /\ \A u \in Waiters, g \in Fs(c) : u \in ToSet(f_cqueue'[g]) \/ Joining(u, g)' =>
          u \in ToSet(f_cqueue[g]) \/ Joining(u, g) \/ f_word'[g] = 0
    /\ \A g \in Fs(c) : Releasing(t, g) =>
          \/ Releasing(t, g)'
          \/ \A u \in Waiters : ~(u \in ToSet(f_cqueue'[g]) \/ Joining(u, g)')

LEMMA KeptFresh ==
    ASSUME NEW c \in Cases, Fresh(c), NEW t \in Waiters, KeepsFresh(c, t)
    PROVE  Fresh(c)'
<1>1. ASSUME NEW g \in Fs(c), f_word'[g] = 1, NEW v \in Waiters,
             v \in ToSet(f_cqueue'[g]) \/ Joining(v, g)'
      PROVE  \E u \in Waiters : Releasing(u, g)'
  <2>1. CASE Releasing(t, g)'
    BY <2>1
  <2>2. CASE ~Releasing(t, g)'
    <3>1. f_word[g] = 1 /\ (v \in ToSet(f_cqueue[g]) \/ Joining(v, g))
      BY <1>1, <2>2 DEF KeepsFresh
    <3>2. PICK u \in Waiters : Releasing(u, g)
      BY <3>1 DEF Fresh
    <3>3. u # t
      BY <1>1, <2>2, <3>2 DEF KeepsFresh
    <3>4. f_pc'[u] = f_pc[u] /\ f_op'[u] = f_op[u]
      BY <3>3 DEF KeepsFresh
    <3>5. QED
      BY <3>2, <3>4 DEF Releasing
  <2>3. QED
    BY <2>1, <2>2
<1>2. QED
  BY <1>1 DEF Fresh

\* A step of t that leaves the queues of the waiters alone.
StaysOut(c, t) ==
    /\ UNCHANGED <<f_cqueue, f_local, f_target, f_qbits>>
    /\ f_pc[t] \notin {"pick", "wake"}
    /\ \A u \in Waiters : u # t => /\ f_pc'[u] = f_pc[u] /\ f_op'[u] = f_op[u]
                                   /\ f_goal'[u] = f_goal[u]
    /\ \A g \in Fs(c) : t \in ToSet(f_cqueue[g]) => Sits(t, g)'
    /\ \A u \in Waiters : u # t /\ Taken(u, t) => InWait(t, f_op[u].f)'
    /\ \A g \in Fs(c) : /\ f_word'[g] = f_word[g] \/ Releasing(t, g)'
                        /\ Joining(t, g)' => Joining(t, g) \/ f_word'[g] = 0
                        /\ Releasing(t, g) => Releasing(t, g)'

LEMMA PlainCalm ==
    ASSUME NEW c \in Cases, FutexInv(c), Waiting(c), Fresh(c), NEW t \in Waiters,
           StaysOut(c, t)
    PROVE  Waiting(c)' /\ Fresh(c)'
<1>1. \A v \in Waiters : ~Taken(t, v)
  BY WaitersAssumption DEF FutexInv, Places, Taken, StaysOut
<1>2. \A u, v \in Waiters : Taken(u, v)' <=> Taken(u, v)
  BY DEF Taken, StaysOut
<1>3. KeepsWaiting(c, t)
  BY <1>1, <1>2 DEF KeepsWaiting, StaysOut
<1>4. KeepsFresh(c, t)
  BY DEF KeepsFresh, StaysOut, Joining
<1>5. QED
  BY <1>3, <1>4, KeptWaiting, KeptFresh

\* A step that changes none of these variables.
LEMMA PlainSame ==
    ASSUME NEW c \in Cases, Waiting(c), Fresh(c),
           UNCHANGED <<f_word, f_cqueue, f_local, f_target, f_qbits, f_pc, f_op, f_goal>>
    PROVE  Waiting(c)' /\ Fresh(c)'
  BY DEF Waiting, Sits, Taken, InWait, Fresh, Joining, Releasing

\* A thread that is not in its wait is in no queue of waiters.
LEMMA Elsewhere ==
    ASSUME NEW c \in Cases, Waiting(c), NEW t \in Waiters,
           f_pc[t] \notin {"enter", "wait", "sleep", "awake", "lock", "blocked"}
    PROVE  /\ \A g \in Fs(c) : t \notin ToSet(f_cqueue[g])
           /\ \A u \in Waiters : ~Taken(u, t)
  BY DEF Waiting, Sits, InWait

\* A waker that is not done holds the mutex of its futex.
LEMMA TakerHolds ==
    ASSUME NEW c \in Cases, FutexInv(c), NEW u \in Waiters, NEW t \in Waiters, Taken(u, t)
    PROVE  /\ f_pc[u] \in {"pick", "wake"} /\ f_op[u].f \in Fs(c)
           /\ f_owner[f_op[u].f] = u
<1> USE DEF FutexInv
<1>1. f_pc[u] \in {"pick", "wake"} /\ f_op[u].f \in Fs(c)
  BY WaitersAssumption DEF Taken, Places, Shape, Arguments, WakePart
<1>2. Holds(u, f_op[u].f) # 0
  BY <1>1 DEF Holds, HoldsFirst, HoldsSecond
<1>3. QED
  BY <1>1, <1>2 DEF Held

LEMMA CallPlain ==
    ASSUME NEW c \in Cases, FutexInv(c), Waiting(c), Fresh(c), NEW t \in Waiters,
           F(c)!WaitCall(t) \/ F(c)!WakeCall(t) \/ F(c)!RequeueCall(t)
    PROVE  Waiting(c)' /\ Fresh(c)'
<1> USE DEF FutexInv
<1>1. PICK o, f, l : /\ F(c)!Call(t, o, f, l)
                     /\ o.f = f
                     /\ \/ UNCHANGED f_word
                        \/ o.kind = "release" /\ f_word' = [f_word EXCEPT ![f] = 1]
  BY CallArguments
<1>2. /\ f_pc[t] = "run" /\ f_pc'[t] = "lock" /\ f_op'[t] = o
      /\ \A u \in Waiters : u # t => /\ f_pc'[u] = f_pc[u] /\ f_op'[u] = f_op[u]
                                     /\ f_goal'[u] = f_goal[u]
      /\ UNCHANGED <<f_cqueue, f_local, f_target, f_qbits>>
  BY <1>1 DEF F!Call, F!GotoLocked, F!Goto, FutexTypes
<1>3. /\ \A g \in Fs(c) : t \notin ToSet(f_cqueue[g])
      /\ \A u \in Waiters : ~Taken(u, t)
  BY <1>2, Elsewhere
<1>4. \A g \in Fs(c) : f_word'[g] = f_word[g] \/ Releasing(t, g)'
  BY <1>1, <1>2 DEF Releasing, FutexTypes
<1>5. \A g \in Fs(c) : ~Joining(t, g)' /\ ~Releasing(t, g)
  BY <1>2 DEF Joining, Releasing
<1>6. StaysOut(c, t)
  BY <1>2, <1>3, <1>4, <1>5 DEF StaysOut
<1>7. QED
  BY <1>6, PlainCalm

LEMMA LockTakePlain ==
    ASSUME NEW c \in Cases, FutexInv(c), Waiting(c), Fresh(c), NEW t \in Waiters,
           F(c)!LockTake(t)
    PROVE  Waiting(c)' /\ Fresh(c)'
<1> USE DEF FutexInv
<1>0. PICK f, l : f = f_goal[t].f /\ l = f_goal[t].next
  OBVIOUS
<1>1. /\ f_pc[t] \in {"lock", "blocked"} /\ f_owner[f] \in {t, none}
      /\ f_pc'[t] = l
      /\ \A u \in Waiters : u # t => f_pc'[u] = f_pc[u] /\ f_goal'[u] = f_goal[u]
      /\ UNCHANGED <<f_word, f_op, f_cqueue, f_local, f_target, f_qbits>>
  BY <1>0 DEF F!LockTake, F!MayTake, F!Goto, FutexTypes
<1>2. Locking(t) /\ l \in {"check", "unlock", "select", "lock2"}
  BY <1>0, <1>1 DEF Shape, Locking
<1>3. \A g \in Fs(c) : t \notin ToSet(f_cqueue[g])
  BY <1>1 DEF Waiting, Sits
<1>4. ASSUME NEW u \in Waiters, u # t, Taken(u, t) PROVE FALSE
  <2>1. f_owner[f_op[u].f] = u /\ u # none
    BY <1>4, TakerHolds, WaitersAssumption
  <2>2. f_op[t].kind = "wait" /\ f_op[t].f = f_op[u].f
    BY <1>4 DEF Waiting, InWait
  <2>3. f = f_op[u].f
    BY <1>0, <1>2, <2>2 DEF Locking
  <2>4. QED
    BY <1>1, <1>4, <2>1, <2>3
<1>5. \A g \in Fs(c) : ~Joining(t, g)' /\ (Releasing(t, g) => Releasing(t, g)')
  BY <1>0, <1>1, <1>2 DEF Locking, Joining, Releasing
<1>6. StaysOut(c, t)
  BY <1>1, <1>3, <1>4, <1>5 DEF StaysOut
<1>7. QED
  BY <1>6, PlainCalm

LEMMA LockBlockPlain ==
    ASSUME NEW c \in Cases, FutexInv(c), Waiting(c), Fresh(c), NEW t \in Waiters,
           F(c)!LockBlock(t)
    PROVE  Waiting(c)' /\ Fresh(c)'
<1> USE DEF FutexInv
<1>1. /\ f_pc[t] = "lock" /\ f_pc'[t] \in {"lock", "blocked"}
      /\ \A u \in Waiters : u # t => f_pc'[u] = f_pc[u]
      /\ UNCHANGED <<f_word, f_op, f_cqueue, f_local, f_target, f_qbits, f_goal>>
  BY DEF F!LockBlock, F!Goto, FutexTypes
<1>2. \A g \in Fs(c) : t \notin ToSet(f_cqueue[g])
  BY <1>1 DEF Waiting, Sits
<1>3. \A u \in Waiters : Taken(u, t) => InWait(t, f_op[u].f)'
  BY <1>1 DEF Waiting, InWait
<1>4. \A g \in Fs(c) : ~Joining(t, g)' /\ (Releasing(t, g) => Releasing(t, g)')
  BY <1>1 DEF Joining, Releasing
<1>5. StaysOut(c, t)
  BY <1>1, <1>2, <1>3, <1>4 DEF StaysOut
<1>6. QED
  BY <1>5, PlainCalm

\* The steps of a waiter before it joins the queue, and the end of a call.
LEMMA CheckPlain ==
    ASSUME NEW c \in Cases, FutexInv(c), Waiting(c), Fresh(c), NEW t \in Waiters,
           F(c)!WaitCheck(t) \/ F(c)!WaitProcess(t) \/ F(c)!Unlock(t)
    PROVE  Waiting(c)' /\ Fresh(c)'
<1> USE DEF FutexInv
<1>1. /\ \/ /\ f_pc[t] = "check" /\ f_op' = f_op
            /\ f_pc'[t] = "unlock" \/ f_word[f_op[t].f] = 0
         \/ f_pc[t] = "process" /\ f_op' = f_op
         \/ f_pc[t] = "unlock" /\ f_pc'[t] \in {"unlock2", "run"}
      /\ f_pc'[t] # "check"
      /\ \A u \in Waiters : u # t => f_pc'[u] = f_pc[u] /\ f_op'[u] = f_op[u]
      /\ UNCHANGED <<f_word, f_cqueue, f_local, f_target, f_qbits, f_goal>>
  <2>1. CASE F(c)!WaitCheck(t)
    BY <2>1 DEF F!WaitCheck, F!StillExpected, F!Goto, FutexTypes
  <2>2. CASE F(c)!WaitProcess(t)
    BY <2>2 DEF F!WaitProcess, F!Goto, FutexTypes
  <2>3. CASE F(c)!Unlock(t)
    BY <2>3 DEF F!Unlock, F!Goto, FutexTypes
  <2>4. QED
    BY <2>1, <2>2, <2>3
<1>2. /\ \A g \in Fs(c) : t \notin ToSet(f_cqueue[g])
      /\ \A u \in Waiters : ~Taken(u, t)
  BY <1>1, Elsewhere
<1>3. \A g \in Fs(c) : /\ Joining(t, g)' => Joining(t, g) \/ f_word'[g] = 0
                       /\ ~Releasing(t, g)
  BY <1>1 DEF Joining, Releasing
<1>4. StaysOut(c, t)
  BY <1>1, <1>2, <1>3 DEF StaysOut
<1>5. QED
  BY <1>4, PlainCalm

LEMMA SleepPlain ==
    ASSUME NEW c \in Cases, FutexInv(c), Waiting(c), Fresh(c), NEW t \in Waiters,
           \/ F(c)!WaitEnter(t) \/ F(c)!TcallWait(t) \/ F(c)!TcallReturn(t)
           \/ F(c)!TcallTimeout(t)
    PROVE  Waiting(c)' /\ Fresh(c)'
<1> USE DEF FutexInv
<1>1. /\ f_pc[t] \in {"enter", "wait", "sleep"} /\ f_pc'[t] \in {"wait", "sleep", "awake"}
      /\ \A u \in Waiters : u # t => f_pc'[u] = f_pc[u]
      /\ UNCHANGED <<f_word, f_op, f_cqueue, f_local, f_target, f_qbits, f_goal>>
  BY DEF F!WaitEnter, F!TcallWait, F!TcallReturn, F!TcallTimeout, F!Goto, FutexTypes
<1>2. \A g \in Fs(c) : t \in ToSet(f_cqueue[g]) => Sits(t, g)'
  BY <1>1 DEF Waiting, Sits
<1>3. \A u \in Waiters : Taken(u, t) => InWait(t, f_op[u].f)'
  BY <1>1 DEF Waiting, InWait
<1>4. \A g \in Fs(c) : ~Joining(t, g)' /\ ~Releasing(t, g)
  BY <1>1 DEF Joining, Releasing
<1>5. StaysOut(c, t)
  BY <1>1, <1>2, <1>3, <1>4 DEF StaysOut
<1>6. QED
  BY <1>5, PlainCalm


\* A waiter joins the queue.
LEMMA WaitEnqueuePlain ==
    ASSUME NEW c \in Cases, FutexInv(c), Waiting(c), Fresh(c), NEW t \in Waiters,
           F(c)!WaitEnqueue(t)
    PROVE  Waiting(c)' /\ Fresh(c)'
<1> USE DEF FutexInv
<1>0. PICK f : f = f_op[t].f
  OBVIOUS
<1>1. /\ f_pc[t] = "enqueue"
      /\ UNCHANGED <<f_word, f_local, f_target, f_op, f_goal>>
  BY DEF F!WaitEnqueue
<1>2. CASE f_onq[t] # "none"
  <2>1. UNCHANGED <<f_cqueue, f_qbits, f_pc>>
    BY <1>2 DEF F!WaitEnqueue
  <2>2. QED
    BY <1>1, <2>1, PlainSame
<1>3. CASE f_onq[t] = "none"
  <2>1. /\ f_cqueue' = [f_cqueue EXCEPT ![f] = Append(@, t)]
        /\ f_qbits' = [f_qbits EXCEPT ![t] = f_op[t].bits]
        /\ f_pc' = [f_pc EXCEPT ![t] = "enter"]
    BY <1>0, <1>3 DEF F!WaitEnqueue, F!Goto
  <2>2. f \in Fs(c) /\ f_op[t].kind = "wait"
    BY <1>0, <1>1 DEF Shape, Arguments, WaitPart
  <2>3. /\ f_cqueue[f] \in Seq(Waiters) /\ IsInjective(f_cqueue[f])
        /\ f_cqueue \in [Fs(c) -> Seq(Waiters)]
    BY <2>2 DEF FutexTypes, Distinct
  <2>4. /\ \A g \in Fs(c) : t \notin ToSet(f_cqueue[g])
        /\ \A u \in Waiters : ~Taken(u, t)
    BY <1>1, Elsewhere
  <2> DEFINE r == Append(f_cqueue[f], t)
  <2>5. ToSet(r) = ToSet(f_cqueue[f]) \cup {t}
    BY <2>2, <2>3, <2>4, ListAppend
  <2>6. f_cqueue'[f] = r /\ \A g \in Fs(c) : g # f => f_cqueue'[g] = f_cqueue[g]
    BY <2>1, <2>2, <2>3
  <2> HIDE DEF r
  <2>7. \A g \in Fs(c), u \in Waiters :
           u \in ToSet(f_cqueue'[g]) <=> u \in ToSet(f_cqueue[g]) \/ (u = t /\ g = f)
    BY <2>5, <2>6
  <2>8. /\ f_pc'[t] = "enter" /\ f_qbits'[t] = f_op[t].bits
        /\ \A u \in Waiters : u # t => f_pc'[u] = f_pc[u] /\ f_qbits'[u] = f_qbits[u]
    BY <2>1 DEF FutexTypes
  <2>9. Sits(t, f)' /\ Joining(t, f) /\ \A g \in Fs(c) : ~Joining(t, g)' /\ ~Releasing(t, g)
    BY <1>0, <1>1, <2>2, <2>8 DEF Sits, Joining, Releasing
  <2>10. \A u, v \in Waiters : Taken(u, v)' <=> Taken(u, v)
    BY <1>1 DEF Taken
  <2>11. \A v \in Waiters : ~Taken(t, v)
    BY <1>1, WaitersAssumption DEF Places, Taken
  <2>12. KeepsWaiting(c, t)
    BY <1>1, <2>4, <2>7, <2>8, <2>9, <2>10, <2>11 DEF KeepsWaiting
  <2>13. \A u \in Waiters, g \in Fs(c) : u # t => (Joining(u, g)' <=> Joining(u, g))
    BY <1>1, <2>8 DEF Joining
  <2>14. KeepsFresh(c, t)
    BY <1>1, <2>7, <2>8, <2>9, <2>13 DEF KeepsFresh
  <2>15. QED
    BY <2>12, <2>14, KeptWaiting, KeptFresh
<1>4. QED
  BY <1>2, <1>3

\* A waiter looks whether it is still in the queue.
LEMMA RecheckPlain ==
    ASSUME NEW c \in Cases, FutexInv(c), Waiting(c), Fresh(c), NEW t \in Waiters,
           F(c)!Recheck(t)
    PROVE  Waiting(c)' /\ Fresh(c)'
<1> USE DEF FutexInv
<1>0. PICK f : f = f_op[t].f
  OBVIOUS
<1>1. /\ f_pc[t] = "awake"
      /\ UNCHANGED <<f_word, f_qbits, f_local, f_target, f_op>>
  BY DEF F!Recheck, F!Leave
<1>2. f \in Fs(c) /\ f_op[t].kind = "wait"
  BY <1>0, <1>1 DEF Shape, Arguments, WaitPart
<1>3. F(c)!Range(f_cqueue[f]) = ToSet(f_cqueue[f])
  <2>1. f_cqueue[f] \in Seq(Waiters)
    BY <1>2 DEF FutexTypes
  <2>2. QED
    BY <2>1, InQueue
<1>4. \A g \in Fs(c) : t \in ToSet(f_cqueue[g]) => g = f /\ Sits(t, f)
  BY <1>0 DEF Waiting, Sits
<1>5. \A v \in Waiters : ~Taken(t, v)
  BY <1>1, WaitersAssumption DEF Places, Taken
<1>6. \A u, v \in Waiters : Taken(u, v)' <=> Taken(u, v)
  BY <1>1 DEF Taken
<1>7. \/ /\ f_pc' = [f_pc EXCEPT ![t] = "lock"]
         /\ f_goal' = [f_goal EXCEPT ![t] = [f |-> f, next |-> "unlock"]]
         /\ \/ f_cqueue' = f_cqueue /\ t \notin ToSet(f_cqueue[f])
            \/ f_cqueue' = [f_cqueue EXCEPT ![f] = F(c)!Without(@, {t})]
      \/ /\ f_pc' = [f_pc EXCEPT ![t] = "enter"]
         /\ UNCHANGED <<f_goal, f_cqueue>>
  BY <1>0, <1>3 DEF F!Recheck, F!GotoLocked, F!Goto, F!Leave
<1>8. /\ f_pc'[t] \in {"lock", "enter"} /\ (f_pc'[t] = "lock" => f_goal'[t].next = "unlock")
      /\ \A u \in Waiters : u # t => f_pc'[u] = f_pc[u] /\ f_goal'[u] = f_goal[u]
  <2> DEFINE o == [f |-> f, next |-> "unlock"]
  <2>1. o.next = "unlock"
    OBVIOUS
  <2>2. \/ f_goal' = [f_goal EXCEPT ![t] = o] /\ f_pc' = [f_pc EXCEPT ![t] = "lock"]
        \/ f_goal' = f_goal /\ f_pc' = [f_pc EXCEPT ![t] = "enter"]
    BY <1>7
  <2> HIDE DEF o
  <2>3. QED
    BY <2>1, <2>2 DEF FutexTypes
<1>9. \A u \in Waiters : Taken(u, t) => InWait(t, f_op[u].f)'
  BY <1>1, <1>2, <1>8 DEF Waiting, InWait
<1>10. \A g \in Fs(c) : ~Joining(t, g)' /\ ~Releasing(t, g)
  BY <1>1, <1>8 DEF Joining, Releasing
<1>11. CASE f_cqueue' = f_cqueue /\ (t \in ToSet(f_cqueue[f]) => f_pc'[t] = "enter")
  <2>1. \A g \in Fs(c) : t \in ToSet(f_cqueue[g]) => Sits(t, g)'
    BY <1>1, <1>4, <1>11 DEF Sits
  <2>2. StaysOut(c, t)
    BY <1>1, <1>8, <1>9, <1>10, <1>11, <2>1 DEF StaysOut
  <2>3. QED
    BY <2>2, PlainCalm
<1>12. CASE f_cqueue' = [f_cqueue EXCEPT ![f] = F(c)!Without(@, {t})]
  <2>1. LeavesCond(c, f, {t})
    BY <1>2, <1>12 DEF LeavesCond
  <2>2. \A g \in Fs(c), u \in Waiters :
           u \in ToSet(f_cqueue'[g]) <=> u \in ToSet(f_cqueue[g]) /\ ~(g = f /\ u \in {t})
    BY <2>1, LeaveCond
  <2>3. \A g \in Fs(c), u \in Waiters :
           u \in ToSet(f_cqueue'[g]) => u \in ToSet(f_cqueue[g]) /\ u # t
    BY <1>4, <2>2
  <2>4. KeepsWaiting(c, t)
    BY <1>1, <1>5, <1>6, <1>8, <1>9, <2>3 DEF KeepsWaiting
  <2>5. \A u \in Waiters, g \in Fs(c) : u # t => (Joining(u, g)' <=> Joining(u, g))
    BY <1>1, <1>8 DEF Joining
  <2>6. KeepsFresh(c, t)
    BY <1>1, <1>8, <1>10, <2>3, <2>5 DEF KeepsFresh
  <2>7. QED
    BY <2>4, <2>6, KeptWaiting, KeptFresh
<1>13. f_pc' = [f_pc EXCEPT ![t] = "enter"] => f_pc'[t] = "enter"
  BY DEF FutexTypes
<1>14. QED
  BY <1>7, <1>11, <1>12, <1>13

\* A queue of n threads at most has n places at most: the first n places are all of them.
LEMMA FirstAll ==
    ASSUME NEW c, NEW q \in Seq(Waiters), IsInjective(q), NEW I, I = 1..Len(q)
    PROVE  F(c)!First(I, Cardinality(Waiters)) = I
<1> DEFINE N == Cardinality(Waiters)
<1>1. IsFiniteSet(Waiters) /\ N \in Nat
  BY WaitersAssumption, FS_CardinalityType
<1>2. /\ Len(q) \in Nat
      /\ \A i \in 1..Len(q) : q[i] \in Waiters
      /\ \A i, j \in 1..Len(q) : q[i] = q[j] => i = j
  BY ListElements, ElementOfSeq
<1>3. Cardinality(I) <= N
  <2> DEFINE h == [i \in I |-> q[i]]
  <2>1. h \in Injection(I, Waiters)
    BY <1>2 DEF Injection, IsInjective
  <2> HIDE DEF h
  <2>2. QED
    BY <1>1, <2>1, FS_Injection
<1>4. F(c)!First(I, N) = {i \in I : Rank(I, i) <= N}
  BY SameCardinality DEF F!First, Rank
<1>5. ASSUME NEW i \in I PROVE Rank(I, i) <= N
  <2>1. I \in SUBSET (1..Len(q))
    OBVIOUS
  <2>2. Cardinality(I) \in Nat /\ Rank(I, i) \in 1..Cardinality(I)
    BY <1>2, <2>1, Ranks
  <2> DEFINE k == Cardinality(I)
             m == Rank(I, i)
  <2>3. k \in Nat /\ m \in 1..k /\ k <= N
    BY <1>3, <2>2
  <2> HIDE DEF k, m, N
  <2>4. m <= N
    BY <1>1, <2>3
  <2>5. QED
    BY <2>4 DEF m
<1>6. QED
  BY <1>4, <1>5

\* The threads a waker takes all waited in the queue.
SelectsPlain(c, t, f, U) ==
    /\ f_pc[t] = "select" /\ f = f_op[t].f
    /\ U \subseteq ToSet(f_cqueue[f])
    /\ f_cqueue' = [f_cqueue EXCEPT ![f] = F(c)!Without(@, U)]
    /\ f_pc'[t] \in {"pick", "wake"}
    /\ \A u \in Waiters : u # t => f_pc'[u] = f_pc[u]
    /\ \A u, v \in Waiters : Taken(u, v)' => Taken(u, v) \/ (u = t /\ v \in U)
    /\ f_op[t].kind = "release" => U = ToSet(f_cqueue[f])
    /\ UNCHANGED <<f_word, f_op, f_goal, f_qbits>>

LEMMA SelectedPlain ==
    ASSUME NEW c \in Cases, FutexInv(c), Waiting(c), Fresh(c), NEW t \in Waiters,
           NEW f, NEW U, SelectsPlain(c, t, f, U)
    PROVE  Waiting(c)' /\ Fresh(c)'
<1> USE DEF FutexInv
<1>1. /\ f_pc[t] = "select" /\ f = f_op[t].f /\ U \subseteq ToSet(f_cqueue[f])
      /\ f_pc'[t] \in {"pick", "wake"}
      /\ \A u \in Waiters : u # t => f_pc'[u] = f_pc[u]
      /\ \A u, v \in Waiters : Taken(u, v)' => Taken(u, v) \/ (u = t /\ v \in U)
      /\ f_op[t].kind = "release" => U = ToSet(f_cqueue[f])
      /\ UNCHANGED <<f_word, f_op, f_goal, f_qbits>>
  BY DEF SelectsPlain
<1>2. f \in Fs(c)
  BY <1>1, NothingTaken
<1>3. \A g \in Fs(c), u \in Waiters :
         u \in ToSet(f_cqueue'[g]) <=> u \in ToSet(f_cqueue[g]) /\ ~(g = f /\ u \in U)
  <2>1. LeavesCond(c, f, U)
    BY <1>2 DEF SelectsPlain, LeavesCond
  <2>2. QED
    BY <2>1, LeaveCond
<1>4. /\ \A g \in Fs(c) : t \notin ToSet(f_cqueue[g])
      /\ \A u \in Waiters : ~Taken(u, t)
  BY <1>1, Elsewhere
<1>5. KeepsWaiting(c, t)
  <2>1. \A g \in Fs(c) : t \notin ToSet(f_cqueue'[g])
    BY <1>3, <1>4
  <2>2. t \notin U
    BY <1>1, <1>2, <1>4
  <2>3. \A u \in Waiters : ~Taken(u, t)'
    BY <1>1, <1>4, <2>2
  <2>4. QED
    BY <1>1, <1>2, <1>3, <2>1, <2>3 DEF KeepsWaiting
<1>6. \A u \in Waiters, g \in Fs(c) : Joining(u, g)' <=> Joining(u, g)
  BY <1>1 DEF Joining
<1>7. ASSUME NEW u \in Waiters PROVE ~Joining(u, f)
  <2>1. SUFFICES ASSUME Joining(u, f) PROVE FALSE
    OBVIOUS
  <2>2. Holds(t, f) # 0 /\ Holds(u, f) # 0
    BY <1>1, <2>1 DEF Joining, Holds, HoldsFirst, HoldsSecond
  <2>3. t = u
    BY <1>2, <2>2 DEF Held
  <2>4. QED
    BY <1>1, <2>1, <2>3 DEF Joining
<1>8. ASSUME NEW g \in Fs(c), Releasing(t, g), NEW u \in Waiters
      PROVE  u \notin ToSet(f_cqueue'[g]) /\ ~Joining(u, g)'
  <2>1. g = f /\ U = ToSet(f_cqueue[f])
    BY <1>1, <1>8 DEF Releasing
  <2>2. QED
    BY <1>3, <1>6, <1>7, <2>1
<1>9. KeepsFresh(c, t)
  BY <1>1, <1>3, <1>6, <1>8 DEF KeepsFresh
<1>10. QED
  BY <1>5, <1>9, KeptWaiting, KeptFresh

\* A release takes every waiter: each waits with a bitset that is not empty.
LEMMA ReleaseTakesAll ==
    ASSUME NEW c \in Cases, FutexInv(c), Waiting(c), NEW t \in Waiters,
           f_pc[t] = "select", f_op[t].kind = "release"
    PROVE  ToSet(F(c)!Chosen(f_cqueue[f_op[t].f], f_op[t].bits, f_op[t].n))
              = ToSet(f_cqueue[f_op[t].f])
<1> USE DEF FutexInv
<1>0. PICK f, b, n, q : f = f_op[t].f /\ b = f_op[t].bits /\ n = f_op[t].n /\ q = f_cqueue[f]
  OBVIOUS
<1>1. f \in Fs(c)
  BY <1>0, NothingTaken
<1>2. q \in Seq(Waiters) /\ IsInjective(q)
  BY <1>0, <1>1 DEF FutexTypes, Distinct
<1>3. n = Cardinality(Waiters) /\ b = Config[c].bits
  BY <1>0 DEF Arguments
<1> DEFINE I == 1..Len(q)
<1>4. F(c)!Matching(q, b) = I
  <2>1. ASSUME NEW i \in I PROVE f_qbits[q[i]] \cap b # {}
    <3>1. PICK u : u = q[i]
      OBVIOUS
    <3>2. u \in ToSet(f_cqueue[f]) /\ u \in Waiters
      BY <1>0, <1>2, <3>1, InQueue
    <3>3. Sits(u, f)
      BY <1>1, <3>2 DEF Waiting
    <3>4. f_qbits[u] # {} /\ f_qbits[u] \subseteq Config[c].bits
      BY <3>2, <3>3 DEF Sits, Arguments, FutexTypes
    <3>5. QED
      BY <1>3, <3>1, <3>4
  <2>2. QED
    BY <2>1 DEF F!Matching
<1>5. F(c)!First(I, n) = I
  BY <1>2, <1>3, FirstAll
<1>6. F(c)!Chosen(q, b, n) = F(c)!Part(q, I)
  BY <1>4, <1>5 DEF F!Chosen
<1>7. I \in SUBSET (1..Len(q)) /\ {q[i] : i \in I} = ToSet(q)
  <2>1. \A u : u \in ToSet(q) <=> \E i \in 1..Len(q) : q[i] = u
    BY <1>2, InQueue
  <2>2. QED
    BY <2>1
<1> HIDE DEF I
<1>8. ToSet(F(c)!Part(q, I)) = {q[i] : i \in I}
  BY <1>2, <1>7, PartFacts, SMT
<1>9. QED
  BY <1>0, <1>6, <1>7, <1>8

\* A waker takes its waiters out of the queue.
LEMMA SelectPlain ==
    ASSUME NEW c \in Cases, FutexInv(c), Waiting(c), Fresh(c), NEW t \in Waiters,
           F(c)!Select(t)
    PROVE  Waiting(c)' /\ Fresh(c)'
<1> USE DEF FutexInv
<1>0. PICK f, d, plain :
         /\ f = f_op[t].f
         /\ d = F(c)!Chosen(f_cqueue[f], f_op[t].bits, f_op[t].n)
         /\ plain = (f_op[t].n = 1 /\ f_op[t].bits = F(c)!MatchAny)
  OBVIOUS
<1>1. /\ f_pc[t] = "select"
      /\ f_cqueue' = [f_cqueue EXCEPT ![f] = F(c)!Without(@, F(c)!Range(d))]
      /\ IF plain /\ d # <<>>
         THEN f_target' = [f_target EXCEPT ![t] = Head(d)] /\ UNCHANGED f_local
         ELSE f_local' = [f_local EXCEPT ![t] = d] /\ UNCHANGED f_target
      /\ f_pc' = [f_pc EXCEPT ![t] = IF plain /\ d # <<>> THEN "wake" ELSE "pick"]
      /\ UNCHANGED <<f_word, f_qbits, f_op, f_goal>>
  BY <1>0 DEF F!Select, F!Goto
<1>2. f \in Fs(c)
  BY <1>0, <1>1, NothingTaken
<1>3. f_cqueue[f] \in Seq(Waiters) /\ IsInjective(f_cqueue[f])
  BY <1>2 DEF FutexTypes, Distinct
<1>4. /\ d \in Seq(Waiters) /\ ToSet(d) \subseteq ToSet(f_cqueue[f])
      /\ plain /\ d # <<>> => Head(d) \in ToSet(d)
  <2> DEFINE q == f_cqueue[f]
             b == f_op[t].bits
             n == f_op[t].n
             r == F(c)!Chosen(q, b, n)
  <2>1. q \in Seq(Waiters) /\ IsInjective(q)
    BY <1>3
  <2>2. r = d /\ (plain => n = 1)
    BY <1>0
  <2> HIDE DEF q, b, n
  <2>3. r \in Seq(Waiters)
    BY <2>1, ChosenFacts, Zenon
  <2>4. ToSet(r) \subseteq ToSet(q)
    BY <2>1, ChosenFacts, Zenon
  <2>5. n = 1 /\ r # <<>> => ToSet(r) = {Head(r)}
    BY <2>1, ChosenFacts, SMT
  <2>6. QED
    BY <2>2, <2>3, <2>4, <2>5 DEF q
<1>5. F(c)!Range(d) = ToSet(d)
  BY <1>4, InQueue
<1>6. PICK U : U = ToSet(d)
  OBVIOUS
<1>7. /\ f_pc'[t] \in {"pick", "wake"}
      /\ \A u \in Waiters : u # t => f_pc'[u] = f_pc[u]
  BY <1>1 DEF FutexTypes
<1>8. ASSUME NEW u \in Waiters, NEW v \in Waiters, Taken(u, v)'
      PROVE  Taken(u, v) \/ (u = t /\ v \in U)
  <2>1. CASE plain /\ d # <<>>
    <3>1. f_local' = f_local /\ f_target' = [f_target EXCEPT ![t] = Head(d)] /\ Head(d) \in U
      BY <1>1, <1>4, <1>6, <2>1
    <3>2. (u # t => f_target'[u] = f_target[u]) /\ f_target'[t] = Head(d)
      BY <3>1 DEF FutexTypes
    <3>3. QED
      BY <1>8, <3>1, <3>2 DEF Taken
  <2>2. CASE ~(plain /\ d # <<>>)
    <3>1. f_target' = f_target /\ f_local' = [f_local EXCEPT ![t] = d]
      BY <1>1, <2>2
    <3>2. (u # t => f_local'[u] = f_local[u]) /\ f_local'[t] = d
      BY <3>1 DEF FutexTypes
    <3>3. QED
      BY <1>6, <1>8, <3>1, <3>2 DEF Taken
  <2>3. QED
    BY <2>1, <2>2
<1>9. f_op[t].kind = "release" => U = ToSet(f_cqueue[f])
  BY <1>0, <1>1, <1>6, ReleaseTakesAll
<1>10. f_cqueue' = [f_cqueue EXCEPT ![f] = F(c)!Without(@, U)]
  BY <1>1, <1>5, <1>6
<1>11. SelectsPlain(c, t, f, U)
  BY <1>0, <1>1, <1>4, <1>6, <1>7, <1>8, <1>9, <1>10 DEF SelectsPlain
<1>12. QED
  BY <1>11, SelectedPlain

\* A waker goes through its own queue.
LEMMA WakePlain ==
    ASSUME NEW c \in Cases, FutexInv(c), Waiting(c), Fresh(c), NEW t \in Waiters,
           F(c)!PickWaiter(t) \/ F(c)!WakeWaiter(t)
    PROVE  Waiting(c)' /\ Fresh(c)'
<1> USE DEF FutexInv
<1>1. /\ f_pc[t] \in {"pick", "wake"} /\ f_pc'[t] \in {"pick", "wake", "requeue", "unlock"}
      /\ \A u \in Waiters : u # t => f_pc'[u] = f_pc[u]
      /\ UNCHANGED <<f_word, f_op, f_goal, f_qbits, f_cqueue>>
  BY DEF F!PickWaiter, F!WakeWaiter, F!Goto, FutexTypes
<1>2. /\ \A g \in Fs(c) : t \notin ToSet(f_cqueue[g])
      /\ \A u \in Waiters : ~Taken(u, t)
  BY <1>1, Elsewhere
<1>3. ASSUME NEW u \in Waiters, NEW v \in Waiters, Taken(u, v)' PROVE Taken(u, v)
  <2>1. CASE F(c)!WakeWaiter(t)
    BY <1>3, <2>1, WaitersAssumption DEF F!WakeWaiter, Taken, FutexTypes
  <2>2. CASE F(c)!PickWaiter(t) /\ f_local[t] = <<>>
    BY <1>3, <2>2 DEF F!PickWaiter, Taken
  <2>3. CASE F(c)!PickWaiter(t) /\ f_local[t] # <<>>
    <3>0. PICK q : q = f_local[t]
      OBVIOUS
    <3>1. /\ f_target' = [f_target EXCEPT ![t] = Head(q)]
          /\ f_local' = [f_local EXCEPT ![t] = Tail(q)]
      BY <2>3, <3>0 DEF F!PickWaiter
    <3>2. /\ f_target'[t] = Head(q) /\ f_local'[t] = Tail(q)
          /\ u # t => f_target'[u] = f_target[u] /\ f_local'[u] = f_local[u]
      BY <3>1 DEF FutexTypes
    <3>3. q \in Seq(Waiters) /\ IsInjective(q) /\ q # <<>>
      BY <2>3, <3>0 DEF FutexTypes, Distinct
    <3>4. Head(q) \in ToSet(q) /\ ToSet(Tail(q)) \subseteq ToSet(q)
      BY <3>3, ListTail
    <3>5. QED
      BY <1>3, <3>0, <3>2, <3>4 DEF Taken
  <2>4. QED
    BY <2>1, <2>2, <2>3
<1>4. \A v \in Waiters : Taken(t, v)' => f_op[t].f \in Fs(c)
  BY <1>1 DEF Shape, Arguments, WakePart
<1>5. KeepsWaiting(c, t)
  BY <1>1, <1>2, <1>3, <1>4 DEF KeepsWaiting
<1>6. \A u \in Waiters, g \in Fs(c) : (Joining(u, g)' => Joining(u, g)) /\ ~Releasing(t, g)
  BY <1>1 DEF Joining, Releasing
<1>7. KeepsFresh(c, t)
  BY <1>1, <1>6 DEF KeepsFresh
<1>8. QED
  BY <1>5, <1>7, KeptWaiting, KeptFresh

\* Nobody is signalled or requeued: every step keeps the waiters where they are known.
LEMMA PlainNext ==
    ASSUME NEW c \in Cases, FutexInv(c), PlainInv(c), F(c)!Next
    PROVE  PlainInv(c)'
<1>0. SUFFICES ASSUME Plain(c) PROVE Quiet' /\ Waiting(c)' /\ Fresh(c)'
  BY DEF PlainInv, Plain
<1>1. Quiet /\ Waiting(c) /\ Fresh(c)
  BY <1>0 DEF PlainInv
<1>2. Quiet'
  BY <1>0, <1>1, QuietNext
<1>3. PICK t \in Waiters :
         \/ F(c)!CallStep(t)
         \/ F(c)!WaitCall(t) \/ F(c)!WakeCall(t) \/ F(c)!RequeueCall(t)
         \/ F(c)!TcallTimeout(t) \/ F(c)!StrayWake(t)
         \/ F(c)!DeliverSignal(t) \/ F(c)!DeliverWake(t) \/ F(c)!SyscallSignalProcess(t)
  BY DEF F!Next
<1>4. ~F(c)!LockInterrupted(t) /\ ~F(c)!SyscallSignalProcess(t) /\ ~F(c)!DeliverSignal(t)
  BY <1>0, <1>1 DEF F!LockInterrupted, F!SyscallSignalProcess, F!DeliverSignal, Plain, Quiet
<1>5. ~F(c)!RequeueLock2(t) /\ ~F(c)!RequeueSelect(t) /\ ~F(c)!RequeuePush(t)
      /\ ~F(c)!Unlock2(t)
  BY <1>1 DEF FutexInv, Quiet, Shape, F!RequeueLock2, F!RequeueSelect, F!RequeuePush,
     F!Unlock2
<1>6. CASE F(c)!StrayWake(t) \/ F(c)!DeliverWake(t)
  <2>1. UNCHANGED <<f_word, f_cqueue, f_local, f_target, f_qbits, f_pc, f_op, f_goal>>
    BY <1>6 DEF F!StrayWake, F!DeliverWake
  <2>2. QED
    BY <1>1, <1>2, <2>1, PlainSame
<1>7. CASE F(c)!WaitCall(t) \/ F(c)!WakeCall(t) \/ F(c)!RequeueCall(t)
  BY <1>1, <1>2, <1>7, CallPlain
<1>8. CASE F(c)!CallStep(t) \/ F(c)!TcallTimeout(t)
  BY <1>1, <1>2, <1>4, <1>5, <1>8, LockTakePlain, LockBlockPlain, CheckPlain, SleepPlain,
     WaitEnqueuePlain, RecheckPlain, SelectPlain, WakePlain DEF F!CallStep
<1>9. QED
  BY <1>3, <1>4, <1>6, <1>7, <1>8

\* Nobody waits at first.
LEMMA PlainInit ==
    ASSUME NEW c \in Cases, F(c)!Init PROVE PlainInv(c)
<1>1. /\ f_word = [f \in Fs(c) |-> 0] /\ f_cqueue = [f \in Fs(c) |-> <<>>]
      /\ f_local = [t \in Waiters |-> <<>>] /\ f_target = [t \in Waiters |-> none]
      /\ f_pc = [t \in Waiters |-> "run"] /\ f_op = [t \in Waiters |-> F(c)!NoOp]
      /\ f_pending = [t \in Waiters |-> FALSE] /\ f_signals = 0
  BY DEF F!Init, Fs
<1>2. F(c)!NoOp.kind = "none"
  BY DEF F!NoOp
<1>3. Quiet
  BY <1>1, <1>2 DEF Quiet
<1>4. Waiting(c) /\ Fresh(c)
  BY <1>1, EmptyQueue, WaitersAssumption DEF Waiting, Taken, Fresh
<1>5. QED
  BY <1>3, <1>4 DEF PlainInv

-----------------------------------------------------------------------------
(* What the invariants say *)

LEMMA FutexTypeOK ==
    ASSUME NEW c \in Cases, FutexInv(c) PROVE F(c)!TypeOK
<1> USE DEF FutexInv
<1>1. f_refs \in [Fs(c) -> 0..2]
  <2>1. ASSUME NEW f \in Fs(c) PROVE f_refs[f] \in 0..2
    <3>1. f_refs[f] \in Nat /\ f_owner[f] \in Waiters \cup {none}
      BY DEF FutexTypes
    <3>2. CASE f_owner[f] = none
      BY <3>2 DEF Held
    <3>3. CASE f_owner[f] \in Waiters
      <4>1. PICK t \in Waiters : f_owner[f] = t
        BY <3>3
      <4>2. f_refs[f] = Holds(t, f)
        BY <4>1 DEF Held
      <4>3. QED
        BY <4>2 DEF Holds
    <3>4. QED
      BY <3>1, <3>2, <3>3
  <2>2. QED
    BY <2>1 DEF FutexTypes
<1>2. QED
  BY <1>1 DEF FutexTypes, Events, F!TypeOK, Fs

LEMMA FieldExact ==
    ASSUME NEW c \in Cases, FutexInv(c) PROVE F(c)!QueueFieldExact
<1> USE DEF FutexInv
<1>1. \A f \in Fs(c) : f_cqueue[f] \in Seq(Waiters) /\ f_mqueue[f] \in Seq(Waiters)
  BY DEF FutexTypes
<1>2. \A u \in Waiters : f_local[u] \in Seq(Waiters) /\ f_moved[u] \in Seq(Waiters)
  BY DEF FutexTypes
<1>3. \A f \in Fs(c) : /\ F(c)!Range(f_cqueue[f]) = ToSet(f_cqueue[f])
                       /\ F(c)!Range(f_mqueue[f]) = ToSet(f_mqueue[f])
  BY <1>1, InQueue
<1>4. \A u \in Waiters : /\ F(c)!Range(f_local[u]) = ToSet(f_local[u])
                         /\ F(c)!Range(f_moved[u]) = ToSet(f_moved[u])
  BY <1>2, InQueue
<1>5. ASSUME NEW f \in Fs(c), NEW g \in Fs(c),
             NEW i \in 1..Len(f_cqueue[f]), NEW j \in 1..Len(f_cqueue[g]),
             f_cqueue[f][i] = f_cqueue[g][j]
      PROVE  f = g /\ i = j
  <2>1. PICK t : t = f_cqueue[f][i]
    OBVIOUS
  <2>2. t \in ToSet(f_cqueue[f]) /\ t \in Waiters
    BY <1>1, <2>1, InQueue
  <2>3. t \in ToSet(f_cqueue[g])
    BY <1>1, <1>5, <2>1, InQueue
  <2>4. f = g
    BY <2>2, <2>3 DEF Queued, QueuedOnce
  <2>5. IsInjective(f_cqueue[f])
    BY DEF Distinct
  <2>6. i = j
    BY <1>1, <1>5, <2>4, <2>5, ListElements
  <2>7. QED
    BY <2>4, <2>6
<1>6. ASSUME NEW t \in Waiters
      PROVE  /\ f_onq[t] = "cond" <=> \E f \in Fs(c) : t \in F(c)!Range(f_cqueue[f])
             /\ f_onq[t] = "mutex" <=> \E f \in Fs(c) : t \in F(c)!Range(f_mqueue[f])
             /\ f_onq[t] = "local" <=> \E u \in Waiters :
                   t \in F(c)!Range(f_local[u]) \cup F(c)!Range(f_moved[u])
  BY <1>3, <1>4 DEF Queued, QueuedWhere
<1>7. QED
  BY <1>5, <1>6 DEF F!QueueFieldExact, Fs

LEMMA OutsideUnqueued ==
    ASSUME NEW c \in Cases, FutexInv(c), Quiet, Waiting(c) PROVE F(c)!NoQueuedOutsider
<1> USE DEF FutexInv
<1>1. ASSUME NEW t \in Waiters, f_pc[t] \in {"run", "exited"} PROVE f_onq[t] = "none"
  <2>1. f_onq[t] # "cond"
    BY <1>1 DEF Queued, QueuedWhere, Waiting, Sits
  <2>2. f_onq[t] # "mutex"
    BY <1>1 DEF Queued, QueuedWhere, Places
  <2>3. f_onq[t] # "local"
    <3>1. \A u \in Waiters : t \notin ToSet(f_local[u])
      BY <1>1 DEF Waiting, Taken, InWait
    <3>2. \A u \in Waiters : t \notin ToSet(f_moved[u])
      BY DEF Places, Quiet
    <3>3. QED
      BY <3>1, <3>2 DEF Queued, QueuedWhere
  <2>4. QED
    BY <2>1, <2>2, <2>3 DEF FutexTypes
<1>2. QED
  BY <1>1 DEF F!NoQueuedOutsider

LEMMA TakenIsWoken ==
    ASSUME NEW c \in Cases, FutexInv(c) PROVE F(c)!SelectedIsWoken
<1> USE DEF FutexInv
<1>1. \A u \in Waiters : /\ F(c)!Range(f_local[u]) = ToSet(f_local[u])
                         /\ F(c)!Range(f_moved[u]) = ToSet(f_moved[u])
  <2>1. \A u \in Waiters : f_local[u] \in Seq(Waiters) /\ f_moved[u] \in Seq(Waiters)
    BY DEF FutexTypes
  <2>2. QED
    BY <2>1, InQueue
<1>2. ASSUME NEW t \in Waiters, f_pc[t] = "sleep", f_event[t] = -1, f_onq[t] # "cond"
      PROVE  \E u \in Waiters : f_target[u] = t
                \/ t \in F(c)!Range(f_local[u]) \cup F(c)!Range(f_moved[u])
  <2>1. f_onq[t] # "mutex"
    BY <1>2 DEF Queued, QueuedWhere, Places
  <2>2. CASE f_onq[t] = "none"
    BY <1>2, <2>2 DEF AboutToWake
  <2>3. CASE f_onq[t] = "local"
    BY <1>1, <2>3 DEF Queued, QueuedWhere
  <2>4. QED
    BY <1>2, <2>1, <2>2, <2>3 DEF FutexTypes
<1>3. QED
  BY <1>2 DEF F!SelectedIsWoken

LEMMA TargetWaits ==
    ASSUME NEW c \in Cases, FutexInv(c), Waiting(c) PROVE F(c)!TargetInWait
<1>1. ASSUME NEW t \in Waiters, f_target[t] # none
      PROVE  f_pc[f_target[t]] \in {"enter", "wait", "sleep", "awake", "lock", "blocked"}
  <2>1. PICK v \in Waiters : f_target[t] = v
    BY <1>1 DEF FutexInv, FutexTypes
  <2>2. InWait(v, f_op[t].f)
    BY <2>1 DEF Waiting, Taken
  <2>3. QED
    BY <2>1, <2>2 DEF InWait
<1>2. QED
  BY <1>1 DEF F!TargetInWait, F!WaitLocations

LEMMA NobodyStale ==
    ASSUME NEW c \in Cases, FutexInv(c), Fresh(c) PROVE F(c)!NoStaleWaiter
<1>1. ASSUME NEW f \in Fs(c), f_word[f] = 1, NEW t \in F(c)!Range(f_cqueue[f])
      PROVE  \E u \in Waiters : /\ f_op[u].kind = "release" /\ f_op[u].f = f
                                /\ f_pc[u] \in {"lock", "blocked", "select", "exited"}
  <2>1. f_cqueue[f] \in Seq(Waiters)
    BY DEF FutexInv, FutexTypes
  <2>2. t \in ToSet(f_cqueue[f]) /\ t \in Waiters
    BY <2>1, InQueue
  <2>3. QED
    BY <1>1, <2>2 DEF Fresh, Releasing
<1>2. QED
  BY <1>1 DEF F!NoStaleWaiter, Fs

-----------------------------------------------------------------------------
(* The group and the futexes together *)

\* The group keeps its invariant, and the configuration of the futexes that runs
\* keeps its own.
MCInv ==
    /\ IInv
    /\ \A c \in Cases : running = c => FutexInv(c) /\ PlainInv(c)

LEMMA MCInitInv == MCInit => MCInv
<1> SUFFICES ASSUME MCInit PROVE MCInv
  OBVIOUS
<1>1. IInv
  BY InitInv DEF MCInit
<1>2. ASSUME NEW c \in Cases, running = c PROVE FutexInv(c) /\ PlainInv(c)
  <2>1. F(c)!Init
    BY <1>2 DEF MCInit, Cases
  <2>2. QED
    BY <2>1, FutexInit, PlainInit
<1>3. QED
  BY <1>1, <1>2 DEF MCInv

LEMMA MCNextInv == MCInv /\ [MCNext]_<<running, vars, fvars>> => MCInv'
<1> SUFFICES ASSUME MCInv, [MCNext]_<<running, vars, fvars>> PROVE MCInv'
  OBVIOUS
<1>1. [Next]_vars /\ running' = running
  BY DEF MCNext
<1>2. IInv'
  BY <1>1, NextInv DEF MCInv
<1>3. ASSUME NEW c \in Cases, running' = c PROVE FutexInv(c)' /\ PlainInv(c)'
  <2>1. running = c /\ FutexInv(c) /\ PlainInv(c) /\ c # "group"
    BY <1>1, <1>3 DEF MCInv, Cases
  <2>2. CASE F(c)!Next
    BY <2>1, <2>2, FutexNext, PlainNext
  <2>3. CASE UNCHANGED fvars
    <3>1. FutexInv(c)'
      BY <2>1, <2>3, FutexSame DEF fvars
    <3>2. Quiet => Quiet'
      BY <2>3 DEF fvars, Quiet
    <3>3. Waiting(c) /\ Fresh(c) => Waiting(c)' /\ Fresh(c)'
      BY <2>3, PlainSame DEF fvars
    <3>4. PlainInv(c)'
      BY <2>1, <3>2, <3>3 DEF PlainInv, Plain
    <3>5. QED
      BY <3>1, <3>4
  <2>4. F(c)!Next \/ UNCHANGED fvars
    BY <2>1 DEF MCNext
  <2>5. QED
    BY <2>2, <2>3, <2>4
<1>4. QED
  BY <1>2, <1>3 DEF MCInv

\* The inductive invariant holds of the composition of the thread group (kernel/thread.c,
\* kernel/exec.c) and the futexes (kernel/futex.c, kernel/cond.c).
THEOREM MCInvariance == MCSpec => []MCInv
<1>1. MCInit => MCInv
  BY MCInitInv
<1>2. MCInv /\ [MCNext]_<<running, vars, fvars>> => MCInv'
  BY MCNextInv
<1>3. QED
  BY <1>1, <1>2, PTL DEF MCSpec

\* Every variable of the group and of the futexes keeps its type: a mutex is taken twice
\* at most, and the event of a thread falls to -1 only while it sleeps in myst_tcall_wait.
THEOREM TypesCorrect == MCSpec => []Types
<1>1. MCInv => Types
  <2> SUFFICES ASSUME MCInv PROVE Types
    OBVIOUS
  <2>1. TypeOK
    BY DEF MCInv, IInv
  <2>2. ASSUME NEW c \in Cases, running = c PROVE F(c)!TypeOK
    BY <2>2, FutexTypeOK DEF MCInv
  <2>3. QED
    BY <2>1, <2>2 DEF Types
<1>2. MCSpec => []MCInv
  BY MCInvariance
<1>3. QED
  BY <1>1, <1>2, PTL

\* thread->queue names the queue a thread is in, whatever FUTEX_WAIT, FUTEX_WAKE,
\* FUTEX_REQUEUE, timeouts and signals do; without signals and requeues a thread that
\* has left its futex call is in no queue.
THEOREM QueuesAreExact == MCSpec => []QueuesExact
<1>1. MCInv => QueuesExact
  <2> SUFFICES ASSUME MCInv, NEW c \in Cases, running = c
               PROVE  F(c)!QueueFieldExact /\ (Plain(c) => F(c)!NoQueuedOutsider)
    BY DEF QueuesExact
  <2>1. FutexInv(c) /\ PlainInv(c)
    BY DEF MCInv
  <2>2. QED
    BY <2>1, FieldExact, OutsideUnqueued DEF PlainInv
<1>2. MCSpec => []MCInv
  BY MCInvariance
<1>3. QED
  BY <1>1, <1>2, PTL

\* No wakeup is lost: a sleeping thread that is off the queue of its condition variable
\* is woken by the waker that took it, also when timeouts, signals and requeues meet
\* it.  Without signals and requeues the waker wakes a thread that is still in its wait,
\* and FUTEX_WAKE after a change of the word leaves nobody waiting for the old value.
THEOREM WakesAreExact == MCSpec => []WakesExact
<1>1. MCInv => WakesExact
  <2> SUFFICES ASSUME MCInv, NEW c \in Cases, running = c
               PROVE  /\ F(c)!SelectedIsWoken
                      /\ Plain(c) => F(c)!TargetInWait /\ F(c)!NoStaleWaiter
    BY DEF WakesExact
  <2>1. FutexInv(c) /\ PlainInv(c)
    BY DEF MCInv
  <2>2. QED
    BY <2>1, TakenIsWoken, TargetWaits, NobodyStale DEF PlainInv
<1>2. MCSpec => []MCInv
  BY MCInvariance
<1>3. QED
  BY <1>1, <1>2, PTL
=============================================================================
