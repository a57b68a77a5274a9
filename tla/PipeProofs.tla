---------------------------- MODULE PipeProofs -----------------------------
(***************************************************************************)
(* Proofs about module Pipe: no unit is lost or invented, poll tells the   *)
(* truth and the counts of the ends are the handles, for any number of     *)
(* readers and writers, any capacity and any sizes of the buffers.         *)
(***************************************************************************)
EXTENDS Pipe, ListLemmas, FiniteSetTheorems

\* The condition variable's queue holds the threads that sleep, each once.
Queued ==
    /\ IsInjective(queue)
    /\ \A t \in Threads : t \in ToSet(queue) <=> pc[t] = "wait"

\* inside the loop of a read or a write
Within == {"loop", "wait", "woken"}

\* A call has something left to move, and has moved something only inside its loop;
\* a read moves what it moves when it returns.
Progress ==
    \A t \in Threads :
        /\ pc[t] \in Within \cup {"lock"} => rem[t] > 0
        /\ t \in Readers \/ pc[t] \notin Within => done[t] = 0

\* Only a reduced capacity can be exceeded.
Capacity == ~resized => nbytes <= pipesz

\* The counts are the handles also while a dup is under way, whose count is then
\* of a pipe with a handle.
Handles ==
    ~raced => /\ nreaders = Cardinality(Open(Readers))
              /\ nwriters = Cardinality(Open(Writers))
              /\ freed <=> Open(Threads) = {}
              /\ \A t \in Threads : pc[t] = "dup" => loaded[t] > 0
              /\ sigpipe => Open(Readers) = {}

IInv == /\ TypeOK
        /\ Queued
        /\ Progress
        /\ Capacity
        /\ PollExact
        /\ Conservation
        /\ Handles

-----------------------------------------------------------------------------
(***************************************************************************)
(* Sets of units                                                           *)
(***************************************************************************)
\* Finitely many threads have moved finitely many units.
LEMMA UnitsFinite ==
    ASSUME NEW S, IsFiniteSet(S), NEW n, \A t \in S : n[t] \in Nat
    PROVE  IsFiniteSet(Units(n, S)) /\ Cardinality(Units(n, S)) \in Nat
<1> DEFINE T == {{t} \X (1..n[t]) : t \in S}
           h == [t \in S |-> {t} \X (1..n[t])]
<1>1. h \in Surjection(S, T)
  BY DEF Surjection
<1>2. IsFiniteSet(T)
  BY <1>1, FS_Surjection
<1>3. ASSUME NEW t \in S PROVE IsFiniteSet({t} \X (1..n[t]))
  <2>1. IsFiniteSet({t}) /\ IsFiniteSet(1..n[t])
    <3>1. 1 \in Int /\ n[t] \in Int
      OBVIOUS
    <3>2. QED
      BY <3>1, FS_Singleton, FS_Interval, Zenon
  <2>2. QED
    BY <2>1, FS_Product
<1>4. IsFiniteSet(UNION T)
  BY <1>2, <1>3, FS_UNION
<1>5. QED
  BY <1>4, FS_CardinalityType DEF Units

\* Another k units of one thread are k units more.
LEMMA UnitsAdd ==
    ASSUME NEW S, IsFiniteSet(S), NEW n, NEW m, \A t \in S : n[t] \in Nat,
           NEW u \in S, NEW k \in Nat, m[u] = n[u] + k, \A t \in S \ {u} : m[t] = n[t]
    PROVE  Cardinality(Units(m, S)) = Cardinality(Units(n, S)) + k
<1> DEFINE A == Units(n, S)
           D == {u} \X ((n[u] + 1)..(n[u] + k))
<1>0. n[u] \in Nat
  OBVIOUS
<1>1. IsFiniteSet(A) /\ Cardinality(A) \in Nat
  BY UnitsFinite
<1>2. IsFiniteSet(D) /\ Cardinality(D) = k
  <2> DEFINE I == (n[u] + 1)..(n[u] + k)
  <2>1. IsFiniteSet(I) /\ Cardinality(I) = k
    <3>1. n[u] + 1 \in Int /\ n[u] + k \in Int
      BY <1>0
    <3>2. IsFiniteSet(I) /\ Cardinality(I) = IF n[u] + 1 > n[u] + k THEN 0
                                             ELSE (n[u] + k) - (n[u] + 1) + 1
      BY <3>1, FS_Interval
    <3>3. QED
      BY <1>0, <3>2
  <2>2. IsFiniteSet({u}) /\ Cardinality({u}) = 1
    BY FS_Singleton
  <2> HIDE DEF I
  <2>3. IsFiniteSet({u} \X I) /\ Cardinality({u} \X I) = 1 * k
    BY <2>1, <2>2, FS_Product
  <2>4. QED
    BY <2>3 DEF I
<1>3. A \cap D = {}
  BY <1>0 DEF Units
<1>4. Units(m, S) = A \cup D
  <2>1. 1..m[u] = (1..n[u]) \cup ((n[u] + 1)..(n[u] + k))
    BY <1>0
  <2>2. {u} \X (1..m[u]) = ({u} \X (1..n[u])) \cup D
    BY <2>1
  <2>3. \A t \in S \ {u} : {t} \X (1..m[t]) = {t} \X (1..n[t])
    OBVIOUS
  <2>4. QED
    BY <2>2, <2>3 DEF Units
<1>5. Cardinality(A \cup D) = Cardinality(A) + Cardinality(D) - Cardinality({})
  BY <1>1, <1>2, <1>3, FS_Union
<1>6. QED
  BY <1>1, <1>2, <1>4, <1>5, FS_EmptySet

\* Units that threads of the other end have moved make no difference.
LEMMA UnitsSame ==
    ASSUME NEW S, NEW n, NEW m, \A t \in S : m[t] = n[t]
    PROVE  Units(m, S) = Units(n, S)
BY DEF Units

-----------------------------------------------------------------------------
(***************************************************************************)
(* The queue                                                               *)
(***************************************************************************)
\* Signalling takes the first sleeper, if there is one, off the queue, and nobody
\* else but the thread that signals moves.
LEMMA SignalEffect ==
    ASSUME TypeOK, Queued, NEW t \in Threads \cup {NoThread}, NEW next \in Locations,
           next # "wait", t \in Threads => pc[t] # "wait", SignalOne(t, next)
    PROVE  /\ queue' \in Seq(Threads) /\ pc' \in [Threads -> Locations]
           /\ Queued'
           /\ t \in Threads => pc'[t] = next
           /\ \A u \in Threads \ {t} : \/ pc'[u] = pc[u]
                                       \/ pc[u] = "wait" /\ pc'[u] = "woken"
<1>1. queue \in Seq(Threads) /\ pc \in [Threads -> Locations]
  BY DEF TypeOK
<1>2. pc' = [u \in Threads |-> IF u = t THEN next
                              ELSE IF u \in Signalled(queue) THEN "woken" ELSE pc[u]]
  BY DEF SignalOne
<1>3. IsInjective(queue) /\ \A u \in Threads : u \in ToSet(queue) <=> pc[u] = "wait"
  BY DEF Queued
<1>4. /\ Signalled(queue) \subseteq ToSet(queue)
      /\ queue' \in Seq(Threads) /\ IsInjective(queue')
      /\ ToSet(queue') = ToSet(queue) \ Signalled(queue)
  <2>1. CASE queue = <<>>
    BY <1>1, <1>3, <2>1 DEF SignalOne, Rest, Signalled
  <2>2. CASE queue # <<>>
    BY <1>1, <1>3, <2>2, ListTail DEF SignalOne, Rest, Signalled
  <2>3. QED
    BY <2>1, <2>2
<1>5. pc' \in [Threads -> Locations]
  <2>1. "woken" \in Locations
    BY DEF Locations
  <2>2. QED
    BY <1>1, <1>2, <2>1
<1>6. \A u \in Threads : u \in ToSet(queue') <=> pc'[u] = "wait"
  BY <1>2, <1>3, <1>4
<1>7. QED
  BY <1>2, <1>3, <1>4, <1>5, <1>6 DEF Queued

\* A thread that goes to sleep joins the queue.
LEMMA WaitEffect ==
    ASSUME TypeOK, Queued, NEW t \in Threads, pc[t] # "wait", Wait(t)
    PROVE  queue' \in Seq(Threads) /\ pc' \in [Threads -> Locations] /\ Queued'
<1>1. queue \in Seq(Threads) /\ pc \in [Threads -> Locations]
  BY DEF TypeOK
<1>2. IsInjective(queue) /\ \A u \in Threads : u \in ToSet(queue) <=> pc[u] = "wait"
  BY DEF Queued
<1>3. queue' = Append(queue, t) /\ pc' = [pc EXCEPT ![t] = "wait"]
  BY DEF Wait
<1>4. queue' \in Seq(Threads) /\ IsInjective(queue') /\ ToSet(queue') = ToSet(queue) \cup {t}
  BY <1>1, <1>2, <1>3, ListAppend
<1>5. QED
  BY <1>1, <1>2, <1>3, <1>4 DEF Queued, Locations

\* A thread that a signal wakes leaves the queue.
LEMMA EintrEffect ==
    ASSUME TypeOK, Queued, NEW t \in Threads, Eintr(t)
    PROVE  queue' \in Seq(Threads) /\ pc' \in [Threads -> Locations] /\ Queued'
<1>1. queue \in Seq(Threads) /\ pc \in [Threads -> Locations]
  BY DEF TypeOK
<1>2. IsInjective(queue) /\ \A u \in Threads : u \in ToSet(queue) <=> pc[u] = "wait"
  BY DEF Queued
<1>3. queue' = RemoveAt(queue, Place(t)) /\ pc' = [pc EXCEPT ![t] = "woken"] /\ pc[t] = "wait"
  BY DEF Eintr
<1>4. Place(t) \in 1..Len(queue) /\ queue[Place(t)] = t
  <2>1. \E i \in 1..Len(queue) : queue[i] = t
    BY <1>1, <1>2, <1>3, ListElements
  <2>2. QED
    BY <2>1 DEF Place
<1>5. queue' \in Seq(Threads) /\ IsInjective(queue') /\ ToSet(queue') = ToSet(queue) \ {t}
  BY <1>1, <1>2, <1>3, <1>4, ListRemove
<1>6. QED
  BY <1>1, <1>2, <1>3, <1>5 DEF Queued, Locations

\* A step of a thread that is and stays awake leaves the queue as it is.
LEMMA QueueKept ==
    ASSUME TypeOK, Queued, queue' = queue, NEW t \in Threads, NEW next \in Locations,
           pc[t] # "wait", next # "wait", pc' = [pc EXCEPT ![t] = next]
    PROVE  queue' \in Seq(Threads) /\ pc' \in [Threads -> Locations] /\ Queued'
BY DEF TypeOK, Queued
-----------------------------------------------------------------------------
(***************************************************************************)
(* Steps that leave a part of the state alone                              *)
(***************************************************************************)
LEMMA TypesOfAll ==
    ASSUME TypeOK
    PROVE  \A t \in Threads : /\ rem[t] \in Nat /\ done[t] \in Nat /\ moved[t] \in Nat
                              /\ loaded[t] \in Int /\ pc[t] \in Locations
                              /\ eintr[t] \in BOOLEAN /\ nonblock[t] \in BOOLEAN
BY DEF TypeOK

\* Neither the buffer nor what the threads were told changes.
LEMMA ConservationKept ==
    ASSUME Conservation, nbytes' = nbytes, orphans' = orphans, HostOpen' => HostOpen,
           \A t \in Threads : moved'[t] + done'[t] = moved[t] + done[t]
    PROVE  Conservation'
<1>1. Told' = Told
  BY DEF Told
<1>2. QED
  BY <1>1 DEF Conservation, Units

\* The buffer, its capacity and the host pipe do not change, and no reader comes.
LEMMA BufferKept ==
    ASSUME Capacity, PollExact, UNCHANGED <<nbytes, state, pipesz, resized>>,
           HostOpen' => HostOpen
    PROVE  Capacity' /\ PollExact'
BY DEF Capacity, PollExact

\* The host's read end is not opened again.
Off == {"none", "close", "count", "closed"}

LEMMA HostKept ==
    ASSUME \A r \in Readers : pc'[r] \notin Off => pc[r] \notin Off
    PROVE  HostOpen' => HostOpen
BY DEF HostOpen, Off

\* A step of one thread that has the host's end of its handle already.
LEMMA HostStep ==
    ASSUME TypeOK, NEW t \in Threads, NEW next, pc[t] \notin Off, pc' = [pc EXCEPT ![t] = next]
    PROVE  HostOpen' => HostOpen
<1>1. Readers \subseteq Threads /\ pc \in [Threads -> Locations] BY DEF Threads, TypeOK
<1>2. QED BY <1>1, HostKept

\* A step of one thread that also wakes another.
LEMMA HostSignal ==
    ASSUME TypeOK, NEW t, t \in Readers => pc[t] \notin Off \/ pc'[t] \in Off,
           \A u \in Threads \ {t} : pc'[u] = pc[u] \/ (pc[u] = "wait" /\ pc'[u] = "woken")
    PROVE  HostOpen' => HostOpen
<1>1. Readers \subseteq Threads BY DEF Threads
<1>2. ASSUME NEW r \in Readers, pc'[r] \notin Off PROVE pc[r] \notin Off
  BY <1>1, <1>2 DEF Off
<1>3. QED BY <1>2, HostKept

\* No handle comes or goes, and no count changes.
Shut == {"none", "dup", "closed"}

LEMMA HandlesKept ==
    ASSUME Handles, UNCHANGED <<nreaders, nwriters, freed, raced, sigpipe>>,
           \A t \in Threads : pc'[t] \in Shut <=> pc[t] \in Shut,
           \A t \in Threads : pc'[t] = "dup" => pc[t] = "dup" /\ loaded'[t] = loaded[t]
    PROVE  Handles'
<1>1. Readers \subseteq Threads /\ Writers \subseteq Threads
  BY DEF Threads
<1>2. ASSUME NEW S, S \subseteq Threads PROVE Open(S)' = Open(S)
  BY <1>2 DEF Open, Shut
<1>3. Open(Readers)' = Open(Readers) /\ Open(Writers)' = Open(Writers)
      /\ Open(Threads)' = Open(Threads)
  BY <1>1, <1>2
<1>4. QED
  BY <1>3 DEF Handles

\* The counts of the ends and the handles of threads.
LEMMA OpenFinite ==
    /\ IsFiniteSet(Open(Readers)) /\ Cardinality(Open(Readers)) \in Nat
    /\ IsFiniteSet(Open(Writers)) /\ Cardinality(Open(Writers)) \in Nat
    /\ Open(Threads) = Open(Readers) \cup Open(Writers)
    /\ Cardinality(Open(Readers)) = 0 <=> Open(Readers) = {}
    /\ Cardinality(Open(Writers)) = 0 <=> Open(Writers) = {}
<1>1. Open(Readers) \subseteq Readers /\ Open(Writers) \subseteq Writers
      /\ Open(Threads) = Open(Readers) \cup Open(Writers)
  BY DEF Open, Threads
<1>2. IsFiniteSet(Open(Readers)) /\ IsFiniteSet(Open(Writers))
  BY <1>1, FS_Subset, EndsAssumption
<1>3. QED
  BY <1>1, <1>2, FS_CardinalityType, FS_EmptySet

-----------------------------------------------------------------------------
(***************************************************************************)
(* The initial state                                                       *)
(***************************************************************************)
\* pipe2 gives one handle of each end of an empty pipe.
LEMMA InitInv == Init => IInv
<1> SUFFICES ASSUME Init PROVE IInv
  OBVIOUS
<1> USE DEF Init
<1>1. FirstReader \in Threads /\ FirstWriter \in Threads
  BY EndsAssumption DEF Threads
<1>2. TypeOK
  <2>1. pc \in [Threads -> Locations]
    BY DEF Locations
  <2>2. queue \in Seq(Threads)
    OBVIOUS
  <2>3. pipesz \in Sizes \cup {FirstSize} /\ state \in 0..2 /\ nbytes \in Nat
        /\ nreaders \in Int /\ nwriters \in Int
    OBVIOUS
  <2>4. /\ rem \in [Threads -> Nat] /\ done \in [Threads -> Nat] /\ moved \in [Threads -> Nat]
        /\ loaded \in [Threads -> Int]
    OBVIOUS
  <2>5. QED
    BY <2>1, <2>2, <2>3, <2>4 DEF TypeOK
<1>3. Queued
  <2>1. ToSet(queue) = {} /\ IsInjective(queue)
    BY DEF ToSet, IsInjective
  <2>2. QED
    BY <2>1 DEF Queued
<1>4. Progress
  BY DEF Progress, Within
<1>5. Capacity /\ PollExact
  BY SizesAssumption DEF Capacity, PollExact
<1>6. Conservation
  <2>1. \A t \in Threads : Told[t] = 0
    BY DEF Told
  <2>2. \A t \in Threads : {t} \X (1..Told[t]) = {}
    BY <2>1
  <2>3. Units(Told, Writers) = {} /\ Units(Told, Readers) = {}
    BY <2>2 DEF Units, Threads
  <2>4. QED
    BY <2>3, FS_EmptySet DEF Conservation
<1>7. Handles
  <2>1. Open(Readers) = {FirstReader} /\ Open(Writers) = {FirstWriter}
    BY EndsAssumption DEF Open, Threads
  <2>2. Cardinality(Open(Readers)) = 1 /\ Cardinality(Open(Writers)) = 1
    BY <2>1, FS_Singleton
  <2>3. QED
    BY <2>1, <2>2, OpenFinite DEF Handles
<1>8. QED
  BY <1>2, <1>3, <1>4, <1>5, <1>6, <1>7 DEF IInv
-----------------------------------------------------------------------------
(***************************************************************************)
(* The steps of a call                                                     *)
(***************************************************************************)
LEMMA CallInv ==
    ASSUME IInv, NEW t \in Threads, NEW n \in Counts, Call(t, n)
    PROVE  IInv'
<1> USE DEF IInv
<1>1. UNCHANGED <<sharedVars, holder, queue, moved, nonblock, loaded, ghostVars>>
      /\ pc[t] = "idle" /\ pc' = [pc EXCEPT ![t] = "lock"] /\ rem' = [rem EXCEPT ![t] = n]
      /\ done' = [done EXCEPT ![t] = 0] /\ eintr' = [eintr EXCEPT ![t] = FALSE]
  BY DEF Call
<1>h. HostOpen' => HostOpen BY <1>1, HostStep DEF Off
<1>2. n \in Nat /\ n > 0
  BY SizesAssumption
<1>3. done[t] = 0 /\ \A u \in Threads : done'[u] = done[u]
  BY <1>1 DEF Progress, Within, TypeOK
<1>4. queue' \in Seq(Threads) /\ pc' \in [Threads -> Locations] /\ Queued'
  BY <1>1, QueueKept DEF Locations
<1>5. TypeOK'
  BY <1>1, <1>2, <1>4 DEF TypeOK, sharedVars, ghostVars, failVars
<1>6. Progress'
  BY <1>1, <1>2, <1>3 DEF Progress, Within, TypeOK
<1>7. Capacity' /\ PollExact'
  BY <1>h, <1>1, BufferKept DEF sharedVars, ghostVars, failVars
<1>8. Conservation'
  BY <1>h, <1>1, <1>3, ConservationKept DEF sharedVars, ghostVars, failVars
<1>9. Handles'
  BY <1>1, HandlesKept DEF sharedVars, ghostVars, failVars, Shut, TypeOK
<1>10. QED
  BY <1>4, <1>5, <1>6, <1>7, <1>8, <1>9

\* What the end of a call leaves behind.
LEMMA ReturnEffect ==
    ASSUME TypeOK, NEW t \in Threads, NEW n \in Nat, NEW err, Return(t, n, err)
    PROVE  /\ moved' \in [Threads -> Nat] /\ done' \in [Threads -> Nat]
           /\ rem' \in [Threads -> Nat] /\ holder' = NoThread /\ eintr' = eintr
           /\ done'[t] = 0 /\ moved'[t] = moved[t] + (IF err = "EOK" THEN n ELSE 0)
           /\ \A u \in Threads \ {t} :
                 done'[u] = done[u] /\ moved'[u] = moved[u] /\ rem'[u] = rem[u]
BY DEF Return, TypeOK

LEMMA LockInv ==
    ASSUME IInv, NEW t \in Threads, Lock(t)
    PROVE  IInv'
<1> USE DEF IInv
<1>1. UNCHANGED <<sharedVars, queue, nonblock, loaded, raced, resized, orphans>>
      /\ pc[t] \in {"lock", "woken"}
  BY DEF Lock
<1>h. HostOpen' => HostOpen
  <2>1. \E next : pc' = [pc EXCEPT ![t] = next] BY DEF Lock
  <2>2. QED BY <1>1, <2>1, HostStep DEF Off
<1>2. CASE /\ Return(t, 0, "EPIPE") /\ pc' = [pc EXCEPT ![t] = "idle"] /\ pc[t] = "lock"
           /\ nreaders = 0 /\ sigpipe' = TRUE
  <2>1. done[t] = 0
    BY <1>2 DEF Progress, Within
  <2>2. /\ moved' \in [Threads -> Nat] /\ done' \in [Threads -> Nat]
        /\ rem' \in [Threads -> Nat] /\ holder' = NoThread /\ eintr' = eintr
        /\ done'[t] = 0 /\ moved'[t] = moved[t]
        /\ \A u \in Threads \ {t} :
              done'[u] = done[u] /\ moved'[u] = moved[u] /\ rem'[u] = rem[u]
    BY <1>2, ReturnEffect, TypesOfAll
  <2>3. queue' \in Seq(Threads) /\ pc' \in [Threads -> Locations] /\ Queued'
    BY <1>1, <1>2, QueueKept DEF Locations
  <2>4. TypeOK'
    BY <1>1, <1>2, <2>2, <2>3 DEF TypeOK, sharedVars
  <2>5. Progress'
    BY <1>2, <2>2 DEF Progress, Within, TypeOK
  <2>6. Conservation'
    BY <1>h, <1>1, <2>1, <2>2, ConservationKept DEF sharedVars, ghostVars, failVars
  <2>7. Handles'
    <3>1. Open(Readers)' = Open(Readers) /\ Open(Writers)' = Open(Writers)
          /\ Open(Threads)' = Open(Threads)
      BY <1>2 DEF Open, Threads, TypeOK
    <3>2. ~raced => Open(Readers) = {} BY <1>2, OpenFinite DEF Handles
    <3>3. \A v \in Threads : pc'[v] = "dup" => pc[v] = "dup" BY <1>2 DEF TypeOK
    <3>4. QED BY <1>1, <3>1, <3>2, <3>3 DEF Handles, sharedVars
  <2>8. QED
    BY <1>h, <1>1, <2>3, <2>4, <2>5, <2>6, <2>7, BufferKept DEF sharedVars, ghostVars, failVars
<1>3. CASE holder' = t /\ pc' = [pc EXCEPT ![t] = "loop"] /\ UNCHANGED <<localVars, sigpipe>>
  <2>1. queue' \in Seq(Threads) /\ pc' \in [Threads -> Locations] /\ Queued'
    BY <1>1, <1>3, QueueKept DEF Locations
  <2>2. TypeOK'
    BY <1>1, <1>3, <2>1 DEF TypeOK, sharedVars, ghostVars, failVars, localVars
  <2>3. Progress'
    BY <1>1, <1>3 DEF Progress, Within, TypeOK, localVars
  <2>4. Conservation'
    BY <1>h, <1>1, <1>3, ConservationKept DEF sharedVars, localVars, ghostVars, failVars
  <2>5. Handles'
    BY <1>1, <1>3, HandlesKept DEF sharedVars, ghostVars, failVars, Shut, TypeOK
  <2>6. QED
    BY <1>h, <1>1, <2>1, <2>2, <2>3, <2>4, <2>5, BufferKept DEF sharedVars, ghostVars, failVars
<1>4. QED
  BY <1>2, <1>3 DEF Lock

\* A call that has to wait, at either end.
LEMMA WaitInv ==
    ASSUME IInv, NEW t \in Threads, pc[t] = "loop", Wait(t),
           UNCHANGED <<sharedVars, nonblock, loaded, ghostVars>>
    PROVE  IInv'
<1> USE DEF IInv
<1>1. pc' = [pc EXCEPT ![t] = "wait"] /\ holder' = NoThread /\ UNCHANGED localVars
  BY DEF Wait
<1>h. HostOpen' => HostOpen BY <1>1, HostStep DEF Off
<1>2. queue' \in Seq(Threads) /\ pc' \in [Threads -> Locations] /\ Queued'
  BY WaitEffect
<1>3. TypeOK'
  BY <1>1, <1>2 DEF TypeOK, sharedVars, ghostVars, failVars, localVars
<1>4. Progress'
  BY <1>1 DEF Progress, Within, TypeOK, localVars
<1>5. Conservation'
  BY <1>h, <1>1, ConservationKept DEF sharedVars, localVars, ghostVars, failVars
<1>6. Handles'
  BY <1>1, HandlesKept DEF sharedVars, ghostVars, failVars, Shut, TypeOK
<1>7. QED
  BY <1>h, <1>2, <1>3, <1>4, <1>5, <1>6, BufferKept DEF sharedVars, ghostVars, failVars

\* A call that returns what it has moved so far, at either end.
LEMMA GiveUpInv ==
    ASSUME IInv, NEW t \in Threads, pc[t] = "loop", pc' = [pc EXCEPT ![t] = "idle"],
           NEW err, Return(t, done[t], err), err # "EOK" => done[t] = 0,
           UNCHANGED <<sharedVars, queue, nonblock, loaded, ghostVars>>
    PROVE  IInv'
<1> USE DEF IInv
<1>h. HostOpen' => HostOpen BY HostStep DEF Off
<1>2. done[t] \in Nat /\ moved[t] \in Nat
  BY TypesOfAll
<1>3. /\ moved' \in [Threads -> Nat] /\ done' \in [Threads -> Nat]
      /\ rem' \in [Threads -> Nat] /\ holder' = NoThread /\ eintr' = eintr
      /\ done'[t] = 0 /\ moved'[t] = moved[t] + done[t]
      /\ \A u \in Threads \ {t} :
            done'[u] = done[u] /\ moved'[u] = moved[u] /\ rem'[u] = rem[u]
  BY <1>2, ReturnEffect
<1>4. queue' \in Seq(Threads) /\ pc' \in [Threads -> Locations] /\ Queued'
  BY QueueKept DEF Locations
<1>5. TypeOK'
  BY <1>3, <1>4 DEF TypeOK, sharedVars, ghostVars, failVars
<1>6. Progress'
  BY <1>3 DEF Progress, Within, TypeOK
<1>7. Conservation'
  BY <1>h, <1>2, <1>3, ConservationKept DEF sharedVars, ghostVars, failVars
<1>8. Handles'
  BY HandlesKept DEF sharedVars, ghostVars, failVars, Shut, TypeOK
<1>9. QED
  BY <1>h, <1>4, <1>5, <1>6, <1>7, <1>8, BufferKept DEF sharedVars, ghostVars, failVars

\* An interrupted call returns what it has moved, and that is counted already.
LEMMA InterruptedInv ==
    ASSUME IInv, NEW t \in Threads, Interrupted(t)
    PROVE  IInv'
<1> DEFINE err == IF done[t] = 0 THEN "EINTR" ELSE "EOK"
<1>1. UNCHANGED <<sharedVars, queue, nonblock, loaded, ghostVars>>
      /\ pc[t] = "loop" /\ pc' = [pc EXCEPT ![t] = "idle"] /\ Return(t, done[t], err)
  BY DEF Interrupted
<1>2. err # "EOK" => done[t] = 0
  OBVIOUS
<1> HIDE DEF err
<1>3. QED
  BY <1>1, <1>2, GiveUpInv

LEMMA ReadEmptyInv ==
    ASSUME IInv, NEW t \in Threads, ReadEmpty(t)
    PROVE  IInv'
<1> DEFINE err == IF nwriters = 0 THEN "EOK" ELSE "EAGAIN"
<1>1. UNCHANGED <<sharedVars, nonblock, loaded, ghostVars>> /\ pc[t] = "loop" /\ t \in Readers
  BY DEF ReadEmpty
<1>2. done[t] = 0
  BY <1>1 DEF IInv, Progress
<1>3. CASE Return(t, 0, err) /\ pc' = [pc EXCEPT ![t] = "idle"] /\ UNCHANGED queue
  <2> HIDE DEF err
  <2>1. QED
    BY <1>1, <1>2, <1>3, GiveUpInv
<1>4. CASE Wait(t)
  BY <1>1, <1>4, WaitInv
<1>5. QED
  BY <1>3, <1>4 DEF ReadEmpty

LEMMA WriteFullInv ==
    ASSUME IInv, NEW t \in Threads, WriteFull(t)
    PROVE  IInv'
<1> DEFINE err == IF nonblock[t] /\ done[t] = 0 THEN "EAGAIN" ELSE "EOK"
<1>1. UNCHANGED <<sharedVars, nonblock, loaded, ghostVars>> /\ pc[t] = "loop"
  BY DEF WriteFull
<1>2. err # "EOK" => done[t] = 0
  OBVIOUS
<1>3. CASE Return(t, done[t], err) /\ pc' = [pc EXCEPT ![t] = "idle"] /\ UNCHANGED queue
  <2> HIDE DEF err
  <2>1. QED
    BY <1>1, <1>2, <1>3, GiveUpInv
<1>4. CASE Wait(t)
  BY <1>1, <1>4, WaitInv
<1>5. QED
  BY <1>3, <1>4 DEF WriteFull

\* Min of two numbers.
LEMMA MinOfTwo ==
    ASSUME NEW a \in Nat, NEW b \in Nat
    PROVE  Min({a, b}) \in {a, b} /\ Min({a, b}) <= a /\ Min({a, b}) <= b
<1>1. \E x \in {a, b} : \A y \in {a, b} : x =< y
  OBVIOUS
<1>2. QED
  BY <1>1 DEF Min

\* The signal at the end of an iteration leaves the handles alone.
LEMMA SignalHandles ==
    ASSUME IInv, NEW t \in Threads, pc[t] \notin Shut \cup {"wait"},
           NEW next \in Locations \ {"wait", "none", "dup", "closed"}, SignalOne(t, next),
           UNCHANGED <<nreaders, nwriters, freed, loaded, raced, sigpipe>>
    PROVE  Handles'
<1>1. /\ pc'[t] = next
      /\ \A u \in Threads \ {t} : pc'[u] = pc[u] \/ (pc[u] = "wait" /\ pc'[u] = "woken")
  BY SignalEffect DEF IInv
<1>2. QED
  BY <1>1, HandlesKept DEF IInv, Shut
\* k units more for one thread of an end are k units more for that end.
LEMMA ToldMore ==
    ASSUME TypeOK, NEW t \in Threads, NEW k \in Nat,
           moved'[t] + done'[t] = moved[t] + done[t] + k,
           \A u \in Threads \ {t} : moved'[u] + done'[u] = moved[u] + done[u]
    PROVE  /\ Cardinality(Units(Told, Writers)) \in Nat
           /\ Cardinality(Units(Told, Readers)) \in Nat
           /\ Cardinality(Units(Told, Readers))' =
                 Cardinality(Units(Told, Readers)) + (IF t \in Readers THEN k ELSE 0)
           /\ Cardinality(Units(Told, Writers))' =
                 Cardinality(Units(Told, Writers)) + (IF t \in Writers THEN k ELSE 0)
<1> DEFINE n == Told
           m == Told'
<1>1. \A u \in Threads : n[u] \in Nat
  BY TypesOfAll DEF Told
<1>2. m[t] = n[t] + k /\ \A u \in Threads \ {t} : m[u] = n[u]
  BY DEF Told
<1> HIDE DEF n, m
<1>3. ASSUME NEW S, S \subseteq Threads, IsFiniteSet(S)
      PROVE  /\ Cardinality(Units(n, S)) \in Nat
             /\ Cardinality(Units(m, S)) = Cardinality(Units(n, S)) + (IF t \in S THEN k ELSE 0)
  <2>1. Cardinality(Units(n, S)) \in Nat
    BY <1>1, <1>3, UnitsFinite
  <2>2. CASE t \in S
    <3>1. \A u \in S : n[u] \in Nat
      BY <1>1, <1>3
    <3>2. \A u \in S \ {t} : m[u] = n[u]
      BY <1>2, <1>3
    <3>3. Cardinality(Units(m, S)) = Cardinality(Units(n, S)) + k
      <4>1. m[t] = n[t] + k
        BY <1>2
      <4>2. IsFiniteSet(S)
        BY <1>3
      <4>3. QED
        BY <2>2, <3>1, <3>2, <4>1, <4>2, UnitsAdd
    <3>4. QED
      BY <2>1, <2>2, <3>3
  <2>3. CASE t \notin S
    <3>1. \A u \in S : m[u] = n[u]
      BY <1>2, <1>3, <2>3
    <3>2. Units(m, S) = Units(n, S)
      BY <3>1, UnitsSame
    <3>3. QED
      BY <2>1, <2>3, <3>2
  <2>4. QED
    BY <2>1, <2>2, <2>3
<1>4. Readers \subseteq Threads /\ Writers \subseteq Threads
  BY DEF Threads
<1>5. /\ Cardinality(Units(n, Writers)) \in Nat
      /\ Cardinality(Units(n, Readers)) \in Nat
      /\ Cardinality(Units(m, Readers)) =
            Cardinality(Units(n, Readers)) + (IF t \in Readers THEN k ELSE 0)
      /\ Cardinality(Units(m, Writers)) =
            Cardinality(Units(n, Writers)) + (IF t \in Writers THEN k ELSE 0)
  BY <1>3, <1>4, EndsAssumption
<1>6. Units(Told, Readers)' = Units(m, Readers) /\ Units(Told, Writers)' = Units(m, Writers)
  BY DEF Units, m
<1>7. QED
  BY <1>5, <1>6 DEF n

\* A writer that is told of k units less takes them off the writers' units.
LEMMA ToldLess ==
    ASSUME TypeOK, NEW t \in Writers, t \notin Readers, NEW k \in Nat,
           moved' \in [Threads -> Nat], done' \in [Threads -> Nat],
           moved[t] + done[t] = moved'[t] + done'[t] + k,
           \A u \in Threads \ {t} : moved'[u] + done'[u] = moved[u] + done[u]
    PROVE  /\ Cardinality(Units(Told, Readers)) \in Nat
           /\ Cardinality(Units(Told, Writers))' \in Nat
           /\ Cardinality(Units(Told, Readers))' = Cardinality(Units(Told, Readers))
           /\ Cardinality(Units(Told, Writers)) = Cardinality(Units(Told, Writers))' + k
<1> DEFINE n == Told
           m == Told'
<1>1. /\ \A u \in Threads : n[u] \in Nat /\ m[u] \in Nat
      /\ Readers \subseteq Threads /\ Writers \subseteq Threads
  BY TypesOfAll DEF Told, Threads
<1>2. n[t] = m[t] + k /\ \A u \in Threads \ {t} : n[u] = m[u]
  <2>1. t \in Threads
    BY DEF Threads
  <2>2. QED
    BY <2>1 DEF Told
<1> HIDE DEF n, m
<1>3. Cardinality(Units(m, Writers)) \in Nat /\ Cardinality(Units(n, Readers)) \in Nat
  BY <1>1, UnitsFinite, EndsAssumption
<1>4. Cardinality(Units(n, Writers)) = Cardinality(Units(m, Writers)) + k
  <2>1. /\ \A u \in Writers : m[u] \in Nat
        /\ \A u \in Writers \ {t} : n[u] = m[u]
        /\ IsFiniteSet(Writers)
    BY <1>1, <1>2, EndsAssumption
  <2>2. n[t] = m[t] + k
    BY <1>2
  <2>3. QED
    BY <2>1, <2>2, UnitsAdd
<1>5. Units(m, Readers) = Units(n, Readers)
  BY <1>1, <1>2, UnitsSame
<1>6. Units(Told, Readers)' = Units(m, Readers) /\ Units(Told, Writers)' = Units(m, Writers)
  BY DEF Units, m
<1>7. QED
  BY <1>3, <1>4, <1>5, <1>6 DEF n

LEMMA ReadDataInv ==
    ASSUME IInv, NEW t \in Threads, ReadData(t)
    PROVE  IInv'
<1> DEFINE min == Min({rem[t], nbytes})
<1> USE DEF IInv
<1>1. /\ t \in Readers /\ pc[t] = "loop" /\ nbytes > 0
      /\ nbytes' = nbytes - min /\ state' = StateAfterRead(nbytes - min)
      /\ Return(t, min, "EOK") /\ SignalOne(t, "idle")
      /\ UNCHANGED <<nreaders, nwriters, pipesz, freed, nonblock, loaded, ghostVars>>
  BY DEF ReadData
<1>2. nbytes \in Nat /\ rem[t] \in Nat /\ rem[t] > 0 /\ done[t] = 0 /\ moved[t] \in Nat
      /\ state \in 0..2 /\ pipesz \in Nat /\ pipesz > 0
  BY <1>1, SizesAssumption DEF TypeOK, Progress, Within
<1>3. min \in Nat /\ min > 0 /\ min <= nbytes
  BY <1>1, <1>2, MinOfTwo
<1> HIDE DEF min
<1>4. /\ moved' \in [Threads -> Nat] /\ done' \in [Threads -> Nat]
      /\ rem' \in [Threads -> Nat] /\ holder' = NoThread /\ eintr' = eintr
      /\ done'[t] = 0 /\ moved'[t] = moved[t] + min
      /\ \A u \in Threads \ {t} :
            done'[u] = done[u] /\ moved'[u] = moved[u] /\ rem'[u] = rem[u]
  BY <1>1, <1>3, ReturnEffect
<1>5. /\ queue' \in Seq(Threads) /\ pc' \in [Threads -> Locations] /\ Queued'
      /\ pc'[t] = "idle"
      /\ \A u \in Threads \ {t} : pc'[u] = pc[u] \/ (pc[u] = "wait" /\ pc'[u] = "woken")
  BY <1>1, SignalEffect DEF Locations
<1>h. HostOpen
  BY <1>1 DEF HostOpen
<1>6. nbytes' \in Nat /\ state' \in 0..2 /\ (state' > 0 <=> nbytes' > 0) /\ state' < 2
      /\ nbytes' < nbytes
  BY <1>1, <1>2, <1>3, <1>h DEF StateAfterRead, PollExact
<1>7. TypeOK'
  BY <1>1, <1>4, <1>5, <1>6 DEF TypeOK, ghostVars, failVars
<1>8. Progress'
  BY <1>4, <1>5 DEF Progress, Within
<1>9. Capacity' /\ PollExact'
  BY <1>1, <1>2, <1>6 DEF Capacity, PollExact, ghostVars, failVars
<1>10. Conservation'
  <2>1. t \notin Writers
    BY <1>1, EndsAssumption
  <2>2. /\ Cardinality(Units(Told, Writers)) \in Nat
        /\ Cardinality(Units(Told, Readers)) \in Nat
        /\ Cardinality(Units(Told, Readers))' = Cardinality(Units(Told, Readers)) + min
        /\ Cardinality(Units(Told, Writers))' = Cardinality(Units(Told, Writers)) + 0
    BY <1>1, <1>2, <1>3, <1>4, <2>1, ToldMore
  <2>3. QED
    BY <1>1, <1>2, <1>3, <1>h, <2>2 DEF Conservation, ghostVars, failVars, TypeOK
<1>11. Handles'
  BY <1>1, SignalHandles DEF Shut, Locations, ghostVars, failVars
<1>12. QED
  BY <1>5, <1>7, <1>8, <1>9, <1>10, <1>11

\* What an iteration appends is something, and fits if the buffer is within its size.
LEMMA AppendedSize ==
    ASSUME NEW t, rem[t] \in Nat, rem[t] > 0, nbytes \in Nat, pipesz \in Nat, nbytes # pipesz
    PROVE  /\ Appended(t) \in Nat /\ Appended(t) > 0 /\ Appended(t) <= rem[t]
           /\ nbytes <= pipesz => nbytes + Appended(t) <= pipesz
<1>1. CASE nbytes > pipesz
  BY <1>1 DEF Appended
<1>2. CASE nbytes < pipesz
  BY <1>2, MinOfTwo DEF Appended
<1>3. QED
  BY <1>1, <1>2

LEMMA WriteDataInv ==
    ASSUME IInv, NEW t \in Threads, WriteData(t)
    PROVE  IInv'
<1> DEFINE min == Appended(t)
<1> USE DEF IInv
<1>1. /\ t \in Writers /\ pc[t] = "loop" /\ nbytes # pipesz
      /\ nbytes' = nbytes + min /\ state' = StateAfterWrite(nbytes + min)
      /\ UNCHANGED <<nreaders, nwriters, pipesz, freed, nonblock, loaded, ghostVars>>
      /\ \/ min = rem[t] /\ Return(t, done[t] + min, "EOK") /\ SignalOne(t, "idle")
         \/ /\ min # rem[t]
            /\ rem' = [rem EXCEPT ![t] = @ - min] /\ done' = [done EXCEPT ![t] = @ + min]
            /\ SignalOne(t, "loop")
            /\ UNCHANGED <<holder, eintr, moved>>
  BY DEF WriteData
<1>2. nbytes \in Nat /\ rem[t] \in Nat /\ rem[t] > 0 /\ done[t] \in Nat /\ moved[t] \in Nat
      /\ state \in 0..2 /\ pipesz \in Nat /\ pipesz > 0
  BY <1>1, SizesAssumption DEF TypeOK, Progress, Within
<1>3. min \in Nat /\ min > 0 /\ min <= rem[t] /\ (nbytes <= pipesz => nbytes + min <= pipesz)
  BY <1>1, <1>2, AppendedSize
<1> HIDE DEF min
<1>4. PICK next \in {"idle", "loop"} :
         /\ SignalOne(t, next)
         /\ holder' \in Threads \cup {NoThread} /\ eintr' = eintr
         /\ moved' \in [Threads -> Nat] /\ done' \in [Threads -> Nat]
         /\ rem' \in [Threads -> Nat]
         /\ next = "idle" => done'[t] = 0
         /\ next = "loop" => rem'[t] > 0
         /\ moved'[t] + done'[t] = moved[t] + done[t] + min
         /\ \A u \in Threads \ {t} :
               done'[u] = done[u] /\ moved'[u] = moved[u] /\ rem'[u] = rem[u]
  <2>1. CASE min = rem[t] /\ Return(t, done[t] + min, "EOK") /\ SignalOne(t, "idle")
    <3>1. done[t] + min \in Nat
      BY <1>2, <1>3
    <3>2. /\ moved' \in [Threads -> Nat] /\ done' \in [Threads -> Nat]
          /\ rem' \in [Threads -> Nat] /\ holder' = NoThread /\ eintr' = eintr
          /\ done'[t] = 0 /\ moved'[t] = moved[t] + (done[t] + min)
          /\ \A u \in Threads \ {t} :
                done'[u] = done[u] /\ moved'[u] = moved[u] /\ rem'[u] = rem[u]
      BY <2>1, <3>1, ReturnEffect
    <3>3. moved'[t] + done'[t] = moved[t] + done[t] + min
      BY <1>2, <1>3, <3>2
    <3>4. QED
      BY <2>1, <3>2, <3>3
  <2>2. CASE /\ min # rem[t]
             /\ rem' = [rem EXCEPT ![t] = @ - min] /\ done' = [done EXCEPT ![t] = @ + min]
             /\ SignalOne(t, "loop")
             /\ UNCHANGED <<holder, eintr, moved>>
    <3>1. /\ rem \in [Threads -> Nat] /\ done \in [Threads -> Nat] /\ moved \in [Threads -> Nat]
          /\ holder \in Threads \cup {NoThread}
      BY DEF TypeOK
    <3>2. rem[t] - min \in Nat /\ rem[t] - min > 0 /\ done[t] + min \in Nat
      BY <1>2, <1>3, <2>2
    <3>3. rem' \in [Threads -> Nat] /\ done' \in [Threads -> Nat]
          /\ rem'[t] = rem[t] - min /\ done'[t] = done[t] + min
          /\ \A u \in Threads \ {t} : done'[u] = done[u] /\ rem'[u] = rem[u]
      BY <2>2, <3>1, <3>2
    <3>4. moved'[t] + done'[t] = moved[t] + done[t] + min
      BY <1>2, <1>3, <2>2, <3>3
    <3>5. QED
      BY <2>2, <3>1, <3>2, <3>3, <3>4
  <2>3. QED
    BY <1>1, <2>1, <2>2
<1>5. /\ queue' \in Seq(Threads) /\ pc' \in [Threads -> Locations] /\ Queued'
      /\ pc'[t] = next
      /\ \A u \in Threads \ {t} : pc'[u] = pc[u] \/ (pc[u] = "wait" /\ pc'[u] = "woken")
  BY <1>1, <1>4, SignalEffect DEF Locations
<1>h. HostOpen' => HostOpen
  <2>1. t \notin Readers BY <1>1, EndsAssumption
  <2>2. QED BY <1>5, <2>1, HostSignal
<1>6. /\ nbytes' \in Nat /\ nbytes' > 0 /\ state' \in 0..2 /\ state' > 0
      /\ nbytes' # pipesz /\ state < 2 => state' < 2
      /\ nbytes' = pipesz => state' = 2
  BY <1>1, <1>2, <1>3 DEF StateAfterWrite
<1>7. TypeOK'
  BY <1>1, <1>4, <1>5, <1>6 DEF TypeOK, ghostVars, failVars
<1>8. Progress'
  <2>1. t \notin Readers
    BY <1>1, EndsAssumption
  <2>2. QED
    BY <1>4, <1>5, <2>1 DEF Progress, Within
<1>9. Capacity' /\ PollExact'
  BY <1>1, <1>2, <1>3, <1>6, <1>h DEF Capacity, PollExact, ghostVars, failVars
<1>10. Conservation'
  <2>1. t \notin Readers
    BY <1>1, EndsAssumption
  <2>2. /\ Cardinality(Units(Told, Writers)) \in Nat
        /\ Cardinality(Units(Told, Readers)) \in Nat
        /\ Cardinality(Units(Told, Readers))' = Cardinality(Units(Told, Readers)) + 0
        /\ Cardinality(Units(Told, Writers))' = Cardinality(Units(Told, Writers)) + min
    <3>1. \A u \in Threads \ {t} : moved'[u] + done'[u] = moved[u] + done[u]
      BY <1>4
    <3>2. QED
      BY <1>1, <1>3, <1>4, <2>1, <3>1, ToldMore
  <2>3. QED
    <3>1. orphans' = orphans /\ orphans \in Nat
      BY <1>1 DEF ghostVars, failVars, TypeOK
    <3>2. QED
      BY <1>1, <1>2, <1>3, <1>h, <2>2, <3>1 DEF Conservation
<1>11. Handles'
  BY <1>1, <1>4, SignalHandles DEF Shut, Locations, ghostVars, failVars
<1>12. QED
  BY <1>5, <1>7, <1>8, <1>9, <1>10, <1>11

\* A write that the host refuses leaves its data to nobody: no reader is there.
LEMMA WriteRefusedInv ==
    ASSUME IInv, NEW t \in Threads, WriteRefused(t)
    PROVE  IInv'
<1> DEFINE min == Appended(t)
<1> USE DEF IInv
<1>1. /\ t \in Writers /\ t \notin Readers /\ pc[t] = "loop" /\ nbytes # pipesz /\ ~HostOpen
      /\ nbytes' = nbytes + min /\ orphans' = orphans + done[t] + min
      /\ Return(t, 0, "EPIPE") /\ pc' = [pc EXCEPT ![t] = "idle"]
      /\ UNCHANGED <<nreaders, nwriters, pipesz, state, freed, queue, nonblock, loaded, raced,
                     resized, sigpipe>>
  BY EndsAssumption DEF WriteRefused, HostRefuses
<1>2. nbytes \in Nat /\ rem[t] \in Nat /\ rem[t] > 0 /\ done[t] \in Nat /\ moved[t] \in Nat
      /\ pipesz \in Nat /\ orphans \in Nat
  BY <1>1, SizesAssumption DEF TypeOK, Progress, Within
<1>3. min \in Nat /\ (nbytes <= pipesz => nbytes + min <= pipesz)
  BY <1>1, <1>2, AppendedSize
<1> HIDE DEF min
<1>h. ~HostOpen'
  BY <1>1, HostStep DEF Off
<1>4. /\ moved' \in [Threads -> Nat] /\ done' \in [Threads -> Nat]
      /\ rem' \in [Threads -> Nat] /\ holder' = NoThread /\ eintr' = eintr
      /\ done'[t] = 0 /\ moved'[t] = moved[t]
      /\ \A u \in Threads \ {t} :
            done'[u] = done[u] /\ moved'[u] = moved[u] /\ rem'[u] = rem[u]
  BY <1>1, <1>2, ReturnEffect
<1>5. queue' \in Seq(Threads) /\ pc' \in [Threads -> Locations] /\ Queued'
  BY <1>1, QueueKept DEF Locations
<1>6. nbytes' \in Nat /\ orphans' \in Nat
  BY <1>1, <1>2, <1>3
<1>7. TypeOK'
  BY <1>1, <1>4, <1>5, <1>6 DEF TypeOK
<1>8. Progress'
  BY <1>1, <1>4 DEF Progress, Within, TypeOK
<1>9. Capacity' /\ PollExact'
  BY <1>1, <1>2, <1>3, <1>h DEF Capacity, PollExact
<1>10. Conservation'
  <2>1. /\ Cardinality(Units(Told, Readers)) \in Nat
        /\ Cardinality(Units(Told, Writers))' \in Nat
        /\ Cardinality(Units(Told, Readers))' = Cardinality(Units(Told, Readers))
        /\ Cardinality(Units(Told, Writers)) = Cardinality(Units(Told, Writers))' + done[t]
    BY <1>1, <1>2, <1>4, ToldLess
  <2>2. QED
    BY <1>1, <1>2, <1>3, <1>h, <2>1 DEF Conservation
<1>11. Handles'
  BY <1>1, HandlesKept DEF Shut, TypeOK
<1>12. QED
  BY <1>5, <1>7, <1>8, <1>9, <1>10, <1>11

LEMMA EintrInv ==
    ASSUME IInv, NEW t \in Threads, Eintr(t)
    PROVE  IInv'
<1> USE DEF IInv
<1>1. /\ pc[t] = "wait" /\ pc' = [pc EXCEPT ![t] = "woken"]
      /\ eintr' = [eintr EXCEPT ![t] = TRUE]
      /\ UNCHANGED <<sharedVars, holder, rem, done, moved, nonblock, loaded, ghostVars>>
  BY DEF Eintr
<1>h. HostOpen' => HostOpen BY <1>1, HostStep DEF Off
<1>2. queue' \in Seq(Threads) /\ pc' \in [Threads -> Locations] /\ Queued'
  BY EintrEffect
<1>3. TypeOK'
  BY <1>1, <1>2 DEF TypeOK, sharedVars, ghostVars, failVars
<1>4. Progress'
  BY <1>1 DEF Progress, Within, TypeOK
<1>5. Conservation'
  BY <1>h, <1>1, ConservationKept DEF sharedVars, ghostVars, failVars
<1>6. Handles'
  BY <1>1, HandlesKept DEF sharedVars, ghostVars, failVars, Shut, TypeOK
<1>7. QED
  BY <1>h, <1>1, <1>2, <1>3, <1>4, <1>5, <1>6, BufferKept DEF sharedVars, ghostVars, failVars

LEMMA InterruptInv ==
    ASSUME IInv, Interrupt
    PROVE  IInv'
<1> USE DEF IInv
<1>1. /\ SignalOne(NoThread, "woken")
      /\ UNCHANGED <<sharedVars, holder, localVars, nonblock, loaded, ghostVars>>
  BY DEF Interrupt
<1>2. NoThread \notin Threads
  BY EndsAssumption DEF Threads
<1>3. /\ queue' \in Seq(Threads) /\ pc' \in [Threads -> Locations] /\ Queued'
      /\ \A u \in Threads \ {NoThread} :
            pc'[u] = pc[u] \/ (pc[u] = "wait" /\ pc'[u] = "woken")
  BY <1>1, <1>2, SignalEffect DEF Locations
<1>h. HostOpen' => HostOpen BY <1>2, <1>3, HostSignal DEF Threads
<1>4. TypeOK'
  BY <1>1, <1>3 DEF TypeOK, sharedVars, ghostVars, failVars, localVars
<1>5. Progress'
  BY <1>1, <1>2, <1>3 DEF Progress, Within, localVars
<1>6. Conservation'
  BY <1>h, <1>1, ConservationKept DEF sharedVars, localVars, ghostVars, failVars
<1>7. Handles'
  BY <1>1, <1>2, <1>3, HandlesKept DEF sharedVars, ghostVars, failVars, Shut
<1>8. QED
  BY <1>h, <1>1, <1>3, <1>4, <1>5, <1>6, <1>7, BufferKept DEF sharedVars, ghostVars, failVars

-----------------------------------------------------------------------------
(***************************************************************************)
(* The steps of dup and close, and the settings                            *)
(***************************************************************************)
LEMMA DupLoadInv ==
    ASSUME IInv, NEW t \in Threads, NEW u \in Threads, DupLoad(t, u)
    PROVE  IInv'
<1> USE DEF IInv
<1>1. /\ pc[t] \in {"idle", "lock", "loop", "wait", "woken"} /\ pc[u] = "none"
      /\ loaded' = [loaded EXCEPT ![u] = EndCount(t)]
      /\ nonblock' = [nonblock EXCEPT ![u] = nonblock[t]]
      /\ pc' = [pc EXCEPT ![u] = "dup"]
      /\ UNCHANGED <<sharedVars, holder, queue, localVars, ghostVars>>
  BY DEF DupLoad
<1>h. HostOpen' => HostOpen
  <2>1. t \in Readers <=> u \in Readers BY DEF DupLoad
  <2>2. t \in Readers => HostOpen BY <1>1 DEF HostOpen
  <2>3. u \notin Readers => (HostOpen' => HostOpen) BY <1>1, HostKept DEF TypeOK, Threads
  <2>4. QED BY <2>1, <2>2, <2>3
<1>2. queue' \in Seq(Threads) /\ pc' \in [Threads -> Locations] /\ Queued'
  BY <1>1, QueueKept DEF Locations
<1>3. EndCount(t) \in Int
  BY DEF EndCount, TypeOK
<1>4. TypeOK'
  BY <1>1, <1>2, <1>3, TypesOfAll DEF TypeOK, sharedVars, ghostVars, failVars, localVars
<1>5. Progress'
  BY <1>1 DEF Progress, Within, TypeOK, localVars
<1>6. Conservation'
  BY <1>h, <1>1, ConservationKept DEF sharedVars, localVars, ghostVars, failVars
<1>7. Handles'
  <2>1. SUFFICES ASSUME ~raced PROVE Handles'
    BY <1>1 DEF Handles, ghostVars, failVars
  <2>2. Open(Readers)' = Open(Readers) /\ Open(Writers)' = Open(Writers)
        /\ Open(Threads)' = Open(Threads)
    BY <1>1 DEF Open, Threads, TypeOK
  <2>3. EndCount(t) > 0
    <3>1. t \in Open(Readers) \/ (t \notin Readers /\ t \in Open(Writers))
      BY <1>1 DEF Open, Threads
    <3>2. QED
      BY <2>1, <3>1, OpenFinite DEF EndCount, Handles, Open
  <2>4. \A v \in Threads : pc'[v] = "dup" => loaded'[v] > 0
    BY <1>1, <2>1, <2>3 DEF Handles, TypeOK
  <2>5. QED
    BY <1>1, <2>1, <2>2, <2>4 DEF Handles, sharedVars, ghostVars, failVars
<1>8. QED
  BY <1>h, <1>1, <1>2, <1>4, <1>5, <1>6, <1>7, BufferKept DEF sharedVars, ghostVars, failVars

\* The increment of a count adds the new handle, unless another update came between.
LEMMA DupStoreInv ==
    ASSUME IInv, NEW u \in Threads, DupStore(u)
    PROVE  IInv'
<1> USE DEF IInv
<1>1. /\ pc[u] = "dup" /\ pc' = [pc EXCEPT ![u] = "idle"]
      /\ nreaders' = IF u \in Readers THEN loaded[u] + 1 ELSE nreaders
      /\ nwriters' = IF u \in Writers THEN loaded[u] + 1 ELSE nwriters
      /\ raced' = (raced \/ EndCount(u) # loaded[u])
      /\ UNCHANGED <<pipesz, nbytes, state, freed, holder, queue, localVars, nonblock,
                     loaded, resized, orphans, sigpipe>>
  BY DEF DupStore, SetEndCount, failVars
<1>h. HostOpen' => HostOpen BY <1>1, HostStep DEF Off
<1>2. queue' \in Seq(Threads) /\ pc' \in [Threads -> Locations] /\ Queued'
  BY <1>1, QueueKept DEF Locations
<1>3. loaded[u] \in Int
  BY TypesOfAll
<1>4. TypeOK'
  <2>1. nreaders' \in Int /\ nwriters' \in Int
    BY <1>1, <1>3 DEF TypeOK
  <2>2. raced' \in BOOLEAN
    BY <1>1
  <2>3. QED
    BY <1>1, <1>2, <2>1, <2>2 DEF TypeOK, localVars
<1>5. Progress'
  BY <1>1 DEF Progress, Within, TypeOK, localVars
<1>6. Conservation'
  BY <1>h, <1>1, ConservationKept DEF localVars, ghostVars, failVars
<1>7. Handles'
  <2>1. SUFFICES ASSUME ~raced, EndCount(u) = loaded[u] PROVE Handles'
    BY <1>1 DEF Handles
  <2>2. /\ nreaders = Cardinality(Open(Readers)) /\ nwriters = Cardinality(Open(Writers))
        /\ freed <=> Open(Threads) = {}
        /\ loaded[u] > 0
        /\ \A v \in Threads : pc[v] = "dup" => loaded[v] > 0
        /\ sigpipe => Open(Readers) = {}
    BY <1>1, <2>1 DEF Handles
  <2>3. \A v \in Threads : pc'[v] = "dup" => pc[v] = "dup"
    BY <1>1 DEF TypeOK
  <2>4. Open(Threads)' # {} /\ Open(Threads) # {}
    <3>1. u \in Open(Threads)'
      BY <1>1 DEF Open, TypeOK
    <3>2. QED
      BY <2>1, <2>2, <3>1, OpenFinite DEF EndCount
  <2>5. CASE u \in Readers
    <3>1. u \notin Writers
      BY <2>5, EndsAssumption
    <3>2. Open(Readers)' = Open(Readers) \cup {u} /\ u \notin Open(Readers)
      BY <1>1, <2>5 DEF Open, Threads, TypeOK
    <3>3. Open(Writers)' = Open(Writers)
      BY <1>1, <3>1 DEF Open, Threads, TypeOK
    <3>4. Cardinality(Open(Readers))' = Cardinality(Open(Readers)) + 1
      BY <3>2, OpenFinite, FS_AddElement
    <3>5. ~sigpipe
      BY <2>1, <2>2, <2>5, OpenFinite DEF EndCount
    <3>6. QED
      BY <1>1, <2>1, <2>2, <2>3, <2>4, <2>5, <3>1, <3>3, <3>4, <3>5 DEF Handles, EndCount
  <2>6. CASE u \in Writers
    <3>1. u \notin Readers
      BY <2>6, EndsAssumption
    <3>2. Open(Writers)' = Open(Writers) \cup {u} /\ u \notin Open(Writers)
      BY <1>1, <2>6 DEF Open, Threads, TypeOK
    <3>3. Open(Readers)' = Open(Readers)
      BY <1>1, <3>1 DEF Open, Threads, TypeOK
    <3>4. Cardinality(Open(Writers))' = Cardinality(Open(Writers)) + 1
      BY <3>2, OpenFinite, FS_AddElement
    <3>5. QED
      BY <1>1, <2>1, <2>2, <2>3, <2>4, <2>6, <3>1, <3>3, <3>4 DEF Handles, EndCount
  <2>7. QED
    BY <2>5, <2>6 DEF Threads
<1>8. QED
  BY <1>h, <1>1, <1>2, <1>4, <1>5, <1>6, <1>7, BufferKept
LEMMA CloseHostInv ==
    ASSUME IInv, NEW t \in Threads, CloseHost(t)
    PROVE  IInv'
<1> USE DEF IInv
<1>1. /\ pc[t] = "idle" /\ SignalOne(t, "close")
      /\ UNCHANGED <<sharedVars, holder, localVars, nonblock, loaded, ghostVars>>
  BY DEF CloseHost
<1>2. /\ queue' \in Seq(Threads) /\ pc' \in [Threads -> Locations] /\ Queued'
      /\ pc'[t] = "close"
      /\ \A u \in Threads \ {t} : pc'[u] = pc[u] \/ (pc[u] = "wait" /\ pc'[u] = "woken")
  BY <1>1, SignalEffect DEF Locations
<1>h. HostOpen' => HostOpen BY <1>1, <1>2, HostSignal DEF Off
<1>3. TypeOK'
  BY <1>1, <1>2 DEF TypeOK, sharedVars, ghostVars, failVars, localVars
<1>4. Progress'
  BY <1>1, <1>2 DEF Progress, Within, localVars
<1>5. Conservation'
  BY <1>h, <1>1, ConservationKept DEF sharedVars, localVars, ghostVars, failVars
<1>6. Handles'
  BY <1>1, SignalHandles DEF Shut, Locations, sharedVars, ghostVars, failVars
<1>7. QED
  BY <1>h, <1>1, <1>2, <1>3, <1>4, <1>5, <1>6, BufferKept DEF sharedVars, ghostVars, failVars

LEMMA CloseLoadInv ==
    ASSUME IInv, NEW t \in Threads, CloseLoad(t)
    PROVE  IInv'
<1> USE DEF IInv
<1>1. /\ pc[t] = "close" /\ pc' = [pc EXCEPT ![t] = "count"] /\ holder' = t
      /\ loaded' = [loaded EXCEPT ![t] = EndCount(t)]
      /\ UNCHANGED <<sharedVars, queue, localVars, nonblock, ghostVars>>
  BY DEF CloseLoad
<1>h. HostOpen' => HostOpen BY <1>1, HostKept DEF Off, TypeOK, Threads
<1>2. queue' \in Seq(Threads) /\ pc' \in [Threads -> Locations] /\ Queued'
  BY <1>1, QueueKept DEF Locations
<1>3. EndCount(t) \in Int
  BY DEF EndCount, TypeOK
<1>4. TypeOK'
  BY <1>1, <1>2, <1>3 DEF TypeOK, sharedVars, ghostVars, failVars, localVars
<1>5. Progress'
  BY <1>1 DEF Progress, Within, TypeOK, localVars
<1>6. Conservation'
  BY <1>h, <1>1, ConservationKept DEF sharedVars, localVars, ghostVars, failVars
<1>7. Handles'
  BY <1>1, HandlesKept DEF sharedVars, ghostVars, failVars, Shut, TypeOK
<1>8. QED
  BY <1>h, <1>1, <1>2, <1>4, <1>5, <1>6, <1>7, BufferKept DEF sharedVars, ghostVars, failVars

\* The decrement of a count takes the closed handle off, unless another update came
\* between; the last one frees the pipe.
LEMMA CloseStoreInv ==
    ASSUME IInv, NEW t \in Threads, CloseStore(t)
    PROVE  IInv'
<1> USE DEF IInv
<1>1. /\ pc[t] = "count"
      /\ nreaders' = IF t \in Readers THEN loaded[t] - 1 ELSE nreaders
      /\ nwriters' = IF t \in Writers THEN loaded[t] - 1 ELSE nwriters
      /\ raced' = (raced \/ EndCount(t) # loaded[t])
      /\ freed' = (nreaders' = 0 /\ nwriters' = 0)
      /\ holder' = NoThread
      /\ UNCHANGED <<pipesz, nbytes, state, localVars, nonblock, loaded, resized, orphans,
                     sigpipe>>
  BY DEF CloseStore, SetEndCount, failVars
<1>2. /\ queue' \in Seq(Threads) /\ pc' \in [Threads -> Locations] /\ Queued'
      /\ pc'[t] = "closed"
      /\ \A u \in Threads \ {t} : pc'[u] = pc[u] \/ (pc[u] = "wait" /\ pc'[u] = "woken")
  <2>1. CASE pc' = [pc EXCEPT ![t] = "closed"] /\ UNCHANGED queue
    <3>1. queue' \in Seq(Threads) /\ pc' \in [Threads -> Locations] /\ Queued'
      BY <1>1, <2>1, QueueKept DEF Locations
    <3>2. QED
      BY <2>1, <3>1 DEF TypeOK
  <2>2. CASE SignalOne(t, "closed")
    BY <1>1, <2>2, SignalEffect DEF Locations
  <2>3. QED
    BY <2>1, <2>2 DEF CloseStore
<1>h. HostOpen' => HostOpen BY <1>1, <1>2, HostSignal DEF Off
<1>3. loaded[t] \in Int
  BY TypesOfAll
<1>4. TypeOK'
  <2>1. nreaders' \in Int /\ nwriters' \in Int
    BY <1>1, <1>3 DEF TypeOK
  <2>2. raced' \in BOOLEAN /\ freed' \in BOOLEAN
    BY <1>1
  <2>3. QED
    BY <1>1, <1>2, <2>1, <2>2 DEF TypeOK, localVars
<1>5. Progress'
  BY <1>1, <1>2 DEF Progress, Within, localVars
<1>6. Conservation'
  BY <1>h, <1>1, ConservationKept DEF localVars, ghostVars, failVars
<1>7. Handles'
  <2>1. SUFFICES ASSUME ~raced, EndCount(t) = loaded[t] PROVE Handles'
    BY <1>1 DEF Handles
  <2>2. /\ nreaders = Cardinality(Open(Readers)) /\ nwriters = Cardinality(Open(Writers))
        /\ \A v \in Threads : pc[v] = "dup" => loaded[v] > 0
        /\ sigpipe => Open(Readers) = {}
    BY <2>1 DEF Handles
  <2>3. \A v \in Threads : pc'[v] = "dup" => pc[v] = "dup" /\ loaded'[v] = loaded[v]
    BY <1>1, <1>2
  <2>4. /\ nreaders' = Cardinality(Open(Readers))'
        /\ nwriters' = Cardinality(Open(Writers))'
    <3>1. CASE t \in Readers
      <4>1. t \notin Writers
        BY <3>1, EndsAssumption
      <4>2. Open(Readers)' = Open(Readers) \ {t} /\ t \in Open(Readers)
        BY <1>1, <1>2, <3>1 DEF Open, Threads
      <4>3. Open(Writers)' = Open(Writers)
        BY <1>1, <1>2, <4>1 DEF Open, Threads
      <4>4. Cardinality(Open(Readers))' = Cardinality(Open(Readers)) - 1
        BY <4>2, OpenFinite, FS_RemoveElement
      <4>5. QED
        BY <1>1, <2>1, <2>2, <3>1, <4>1, <4>3, <4>4 DEF EndCount
    <3>2. CASE t \in Writers
      <4>1. t \notin Readers
        BY <3>2, EndsAssumption
      <4>2. Open(Writers)' = Open(Writers) \ {t} /\ t \in Open(Writers)
        BY <1>1, <1>2, <3>2 DEF Open, Threads
      <4>3. Open(Readers)' = Open(Readers)
        BY <1>1, <1>2, <4>1 DEF Open, Threads
      <4>4. Cardinality(Open(Writers))' = Cardinality(Open(Writers)) - 1
        BY <4>2, OpenFinite, FS_RemoveElement
      <4>5. QED
        BY <1>1, <2>1, <2>2, <3>2, <4>1, <4>3, <4>4 DEF EndCount
    <3>3. QED
      BY <3>1, <3>2 DEF Threads
  <2>5. freed' <=> Open(Threads)' = {}
    <3>1. /\ Open(Threads)' = Open(Readers)' \cup Open(Writers)'
          /\ Open(Readers)' \subseteq Readers /\ Open(Writers)' \subseteq Writers
      BY DEF Open, Threads
    <3>2. IsFiniteSet(Open(Readers)') /\ IsFiniteSet(Open(Writers)')
      BY <3>1, FS_Subset, EndsAssumption
    <3>3. /\ Cardinality(Open(Readers)') = 0 <=> Open(Readers)' = {}
          /\ Cardinality(Open(Writers)') = 0 <=> Open(Writers)' = {}
      BY <3>2, FS_EmptySet
    <3>4. QED
      BY <1>1, <2>4, <3>1, <3>3
  <2>6. Open(Readers)' \subseteq Open(Readers)
    BY <1>1, <1>2 DEF Open, Threads
  <2>7. QED
    BY <1>1, <2>2, <2>3, <2>4, <2>5, <2>6 DEF Handles
<1>8. QED
  BY <1>h, <1>1, <1>2, <1>4, <1>5, <1>6, <1>7, BufferKept

LEMMA SettingsInv ==
    ASSUME IInv, (\E n \in Sizes : SetPipeSize(n)) \/ \E t \in Threads : SetNonblock(t)
    PROVE  IInv'
<1> USE DEF IInv
<1>1. ASSUME NEW n \in Sizes, SetPipeSize(n) PROVE IInv'
  <2>1. /\ pipesz' = n /\ resized' = TRUE
        /\ UNCHANGED <<nreaders, nwriters, nbytes, state, freed, holder, queue, pc,
                       localVars, nonblock, loaded, raced, failVars>>
    BY <1>1 DEF SetPipeSize
  <2>h. HostOpen' => HostOpen BY <2>1, HostKept
  <2>2. TypeOK'
    BY <2>1 DEF TypeOK, localVars, failVars
  <2>3. Queued' /\ Progress'
    BY <2>1 DEF Queued, Progress, localVars
  <2>4. Capacity' /\ PollExact'
    BY <2>1, <2>h DEF Capacity, PollExact
  <2>5. Conservation'
    BY <2>h, <2>1, ConservationKept DEF localVars, ghostVars, failVars
  <2>6. Handles'
    BY <2>1, HandlesKept DEF failVars
  <2>7. QED
    BY <2>2, <2>3, <2>4, <2>5, <2>6
<1>2. ASSUME NEW t \in Threads, SetNonblock(t) PROVE IInv'
  <2>1. /\ nonblock' = [nonblock EXCEPT ![t] = ~@]
        /\ UNCHANGED <<sharedVars, holder, queue, pc, localVars, loaded, ghostVars>>
    BY <1>2 DEF SetNonblock
  <2>h. HostOpen' => HostOpen BY <2>1, HostKept
  <2>2. TypeOK'
    BY <2>1 DEF TypeOK, sharedVars, localVars, ghostVars, failVars
  <2>3. Queued' /\ Progress'
    BY <2>1 DEF Queued, Progress, localVars
  <2>4. Conservation'
    BY <2>h, <2>1, ConservationKept DEF sharedVars, localVars, ghostVars, failVars
  <2>5. Handles'
    BY <2>1, HandlesKept DEF sharedVars, ghostVars, failVars
  <2>6. QED
    BY <2>h, <2>1, <2>2, <2>3, <2>4, <2>5, BufferKept DEF sharedVars, ghostVars, failVars
<1>3. QED
  BY <1>1, <1>2

LEMMA StutterInv ==
    ASSUME IInv, UNCHANGED vars
    PROVE  IInv'
<1> USE DEF IInv
<1>1. UNCHANGED <<nreaders, nwriters, pipesz, nbytes, state, freed, holder, queue, pc, rem,
                  done, eintr, moved, nonblock, loaded, raced, resized, orphans, sigpipe>>
  BY DEF vars, sharedVars, localVars, ghostVars, failVars
<1>h. HostOpen' => HostOpen BY <1>1, HostKept
<1>2. TypeOK'
  BY <1>1 DEF TypeOK
<1>3. Queued' /\ Progress'
  BY <1>1 DEF Queued, Progress
<1>4. Conservation'
  BY <1>h, <1>1, ConservationKept DEF ghostVars, failVars
<1>5. Handles'
  BY <1>1, HandlesKept
<1>6. QED
  BY <1>h, <1>1, <1>2, <1>3, <1>4, <1>5, BufferKept

-----------------------------------------------------------------------------
(***************************************************************************)
(* The theorems                                                            *)
(***************************************************************************)
\* Every step of any thread keeps the invariant.
LEMMA NextInv ==
    ASSUME IInv, [Next]_vars
    PROVE  IInv'
<1>1. ASSUME NEW t \in Threads, CallStep(t) PROVE IInv'
  BY <1>1, LockInv, InterruptedInv, ReadDataInv, ReadEmptyInv, WriteDataInv, WriteRefusedInv,
     WriteFullInv, DupStoreInv, CloseLoadInv, CloseStoreInv DEF CallStep
<1>2. ASSUME NEW t \in Threads,
             Eintr(t) \/ CloseHost(t) \/ (\E n \in Counts : Call(t, n))
                \/ \E u \in Threads : DupLoad(t, u)
      PROVE  IInv'
  BY <1>2, EintrInv, CloseHostInv, CallInv, DupLoadInv
<1>3. QED
  BY <1>1, <1>2, SettingsInv, InterruptInv, StutterInv DEF Next

\* The inductive invariant holds in every state of every pipe.
THEOREM Invariance == Spec => []IInv
<1>1. IInv /\ [Next]_vars => IInv'
  BY NextInv
<1>2. QED
  BY InitInv, <1>1, PTL DEF Spec

\* What the readers and the writers of a pipe were told is what went through it and
\* what is in the buffer, but for the units of writes that the host refused, and then
\* no reader is left to come for them; while one is, the host pipe that poll looks at is
\* readable exactly when there is data; and unless unlocked updates overlap the counts are the handles, so
\* that the last close and no other frees the pipe (_pd_read, _pd_write, _pd_close).
THEOREM PipeIsExact == Spec => []PipeExact
<1>1. IInv => PipeExact
  BY DEF IInv, PipeExact, Handles, CountsExact
<1>2. QED
  BY <1>1, Invariance, PTL
=============================================================================
