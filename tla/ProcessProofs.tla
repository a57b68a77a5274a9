--------------------------- MODULE ProcessProofs ---------------------------
(***************************************************************************)
(* Proofs about modules Process and MCProcess: the two lists always hold   *)
(* every process that has them to hold, and what wait4 and waitid answer   *)
(* is true; and around the processes, fork and exec, the system call and   *)
(* the boot are exact.                                                     *)
(***************************************************************************)
EXTENDS MCProcess, ListLemmas, FiniteSetTheorems

\* The two lists hold each process once, and together those not yet waited for.
Exact ==
    /\ IsInjective(list) /\ IsInjective(zombies)
    /\ ToSet(list) = {p \in Procs : at[p] \notin {"none", "zombie", "reaped"}}
    /\ ToSet(zombies) = {p \in Procs : at[p] \in {"listed", "zombie"}}
    /\ at[Root] \in {"live", "exiting", "waiting", "gone"}

\* A process is linked behind its parent, which has not begun to leave the list.
Ordered ==
    \A i \in 1..Len(list) : list[i] # Root =>
        /\ \E j \in 1..(i - 1) : list[j] = ppid[list[i]]
        /\ at[ppid[list[i]]] \in {"live", "exiting", "waiting"}

\* A wait call belongs to a live process and is owed only children that match;
\* once it has seen nobody behind it in the list, these are all zombies.
Waiting(w) ==
    /\ pc[w] # "idle" => at[w[1]] = "live"
    /\ pc[w] = "idle" => owed[w] = {}
    /\ \A q \in owed[w] : /\ Matches(args[w], w[1], q)
                          /\ ppid[q] = w[1] /\ q # Root
                          /\ at[q] \notin {"none", "reaped"}
    /\ pc[w] \in {"read2", "read3"} => \A q \in owed[w] : at[q] = "zombie"

\* A parent is told of an exit by the section that makes the child a zombie.
Told ==
    \A p \in Procs : \A q \in sigchld[p] :
        at[q] \in {"notified", "listed", "zombie", "reaped"}

IInv == /\ TypeOK
        /\ Exact
        /\ Ordered
        /\ \A w \in Callers : Waiting(w)
        /\ Told
        /\ StatusFaithful

-----------------------------------------------------------------------------
\* The process list as a sequence without repetition.
LEMMA ListFacts ==
    ASSUME TypeOK, Exact
    PROVE  /\ list \in Seq(Procs) /\ Len(list) \in Nat
           /\ \A i \in 1..Len(list) : list[i] \in Procs
           /\ \A e : e \in ToSet(list) <=> \E i \in 1..Len(list) : list[i] = e
           /\ \A i, j \in 1..Len(list) : list[i] = list[j] => i = j
           /\ at \in [Procs -> Stages] /\ ppid \in [Procs -> Procs]
<1>1. list \in Seq(Procs) /\ ppid \in [Procs -> Procs] /\ at \in [Procs -> Stages]
  BY Zenon DEF TypeOK
<1>2. IsInjective(list)
  BY DEF Exact
<1>3. \A i \in 1..Len(list) : list[i] \in Procs
  BY <1>1, ElementOfSeq
<1>4. /\ Len(list) \in Nat
      /\ \A e : e \in ToSet(list) <=> \E i \in 1..Len(list) : list[i] = e
      /\ IsInjective(list) <=> \A i, j \in 1..Len(list) : list[i] = list[j] => i = j
  BY <1>1, ListElements
<1>5. QED
  BY <1>1, <1>2, <1>3, <1>4

\* A process of the list is at its index.
LEMMA IndexOf ==
    ASSUME TypeOK, Exact, NEW p \in ToSet(list)
    PROVE  Index(p) \in 1..Len(list) /\ list[Index(p)] = p
<1>1. \E i \in 1..Len(list) : list[i] = p
  BY ListFacts
<1>2. QED
  BY <1>1 DEF Index

\* A child in the list stands right of its parent.
LEMMA ParentFirst ==
    ASSUME TypeOK, Exact, Ordered, NEW p \in ToSet(list) \ {Root}
    PROVE  ppid[p] \in ToSet(list) /\ Index(ppid[p]) < Index(p) /\ ppid[p] # p
<1> DEFINE i == Index(p)
<1>1. i \in 1..Len(list) /\ list[i] = p
  BY IndexOf
<1> HIDE DEF i
<1>2. PICK j \in 1..(i - 1) : list[j] = ppid[p]
  BY <1>1 DEF Ordered
<1>3. Len(list) \in Nat /\ j \in 1..Len(list) /\ j < i
  BY <1>1, <1>2, ListFacts
<1>4. ppid[p] \in ToSet(list)
  BY <1>2, <1>3, ListFacts
<1>5. Index(ppid[p]) \in 1..Len(list) /\ list[Index(ppid[p])] = ppid[p]
  BY <1>4, IndexOf
<1>6. Index(ppid[p]) = j
  BY <1>2, <1>3, <1>5, ListFacts
<1>7. QED
  BY <1>1, <1>2, <1>3, <1>4, <1>6, ListFacts DEF i

\* The inductive invariant gives the order of the list in the words of ListsExact.
LEMMA InvListsExact == IInv => ListsExact
BY ParentFirst DEF IInv, Exact, ListsExact

\* The order of the list survives the linking of a child behind its live parent.
LEMMA OrderedInsert ==
    ASSUME TypeOK, Exact, Ordered, NEW p \in Procs, NEW c \in Procs,
           at[p] = "live", at[c] = "none",
           list' = InsertAt(list, Index(p) + 1, c),
           at' = [at EXCEPT ![c] = "forking"],
           ppid' = [ppid EXCEPT ![c] = p]
    PROVE  /\ Ordered'
           /\ list' \in Seq(Procs) /\ IsInjective(list')
           /\ ToSet(list') = ToSet(list) \cup {c}
<1> DEFINE k == Index(p)
<1>0. list \in Seq(Procs) /\ Len(list) \in Nat
      /\ (\A i \in 1..Len(list) : list[i] \in Procs)
      /\ at \in [Procs -> Stages] /\ ppid \in [Procs -> Procs]
  BY ListFacts
<1>1. p \in ToSet(list) /\ c \notin ToSet(list) /\ IsInjective(list)
  BY DEF Exact
<1>2. k \in 1..Len(list) /\ list[k] = p
  BY <1>1, IndexOf
<1> HIDE DEF k
<1>3. /\ list' \in Seq(Procs) /\ IsInjective(list')
      /\ ToSet(list') = ToSet(list) \cup {c}
      /\ Len(list') = Len(list) + 1
      /\ \A j \in 1..(Len(list) + 1) :
            list'[j] = IF j <= k THEN list[j] ELSE IF j = k + 1 THEN c ELSE list[j - 1]
  BY <1>0, <1>1, <1>2, ListInsert DEF k
<1>4. \A i \in 1..Len(list) : list[i] # c
  BY <1>0, <1>1, ListFacts
<1>5. ASSUME NEW i \in 1..Len(list), list[i] # Root
      PROVE  /\ \E j \in 1..(i - 1) : list[j] = ppid[list[i]]
             /\ at[ppid[list[i]]] \in {"live", "exiting", "waiting"}
             /\ ppid'[list[i]] = ppid[list[i]]
             /\ at'[ppid[list[i]]] = at[ppid[list[i]]]
  <2>1. ppid[list[i]] \in Procs /\ list[i] \in Procs
    BY <1>0
  <2>2. /\ \E j \in 1..(i - 1) : list[j] = ppid[list[i]]
        /\ at[ppid[list[i]]] \in {"live", "exiting", "waiting"}
    BY <1>5 DEF Ordered
  <2>3. QED
    BY <1>0, <1>4, <2>1, <2>2
<1>6. ASSUME NEW i \in 1..(Len(list) + 1), list'[i] # Root
      PROVE  /\ \E j \in 1..(i - 1) : list'[j] = ppid'[list'[i]]
             /\ at'[ppid'[list'[i]]] \in {"live", "exiting", "waiting"}
  <2>1. CASE i <= k
    <3>1. list'[i] = list[i] /\ i \in 1..Len(list)
      BY <1>0, <1>2, <1>3, <2>1
    <3>2. PICK j \in 1..(i - 1) : list[j] = ppid[list[i]]
      BY <1>5, <1>6, <3>1
    <3>3. list'[j] = list[j]
      BY <1>0, <1>2, <1>3, <2>1
    <3>4. QED
      BY <1>5, <1>6, <3>1, <3>2, <3>3
  <2>2. CASE i = k + 1
    <3>1. k \in 1..(i - 1) /\ k \in 1..(Len(list) + 1) /\ k <= k /\ ~(i <= k)
      BY <1>0, <1>2, <2>2
    <3>3. list'[i] = c /\ list'[k] = p
      BY <1>2, <1>3, <2>2, <3>1
    <3>2. ppid'[c] = p /\ at'[p] = "live"
      BY <1>0
    <3>4. QED
      BY <3>1, <3>2, <3>3
  <2>3. CASE i > k + 1
    <3>1. list'[i] = list[i - 1] /\ i - 1 \in 1..Len(list)
      BY <1>0, <1>2, <1>3, <2>3
    <3>2. PICK j \in 1..((i - 1) - 1) : list[j] = ppid[list[i - 1]]
      BY <1>5, <1>6, <3>1
    <3>3. PICK m \in 1..(i - 1) : list'[m] = list[j]
      <4>1. CASE j <= k
        <5>1. j \in 1..(i - 1) /\ list'[j] = list[j]
          BY <1>0, <1>2, <1>3, <2>3, <4>1
        <5>2. QED
          BY <5>1
      <4>2. CASE j > k
        <5>1. j + 1 \in 1..(i - 1) /\ list'[j + 1] = list[j]
          BY <1>0, <1>2, <1>3, <2>3, <4>2
        <5>2. QED
          BY <5>1
      <4>3. QED
        BY <1>0, <1>2, <4>1, <4>2
    <3>4. QED
      BY <1>5, <1>6, <3>1, <3>2, <3>3
  <2>4. QED
    BY <1>0, <1>2, <2>1, <2>2, <2>3
<1>7. QED
  BY <1>3, <1>6 DEF Ordered

\* It survives the unlinking of a process that has no child in the list.
LEMMA OrderedRemove ==
    ASSUME TypeOK, Exact, Ordered, NEW c \in Procs, c # Root, NEW s \in Stages,
           at[c] \in {"forking", "listed"},
           list' = RemoveAt(list, Index(c)),
           at' = [at EXCEPT ![c] = s],
           ppid' = ppid
    PROVE  /\ Ordered'
           /\ list' \in Seq(Procs) /\ IsInjective(list')
           /\ ToSet(list') = ToSet(list) \ {c}
<1> DEFINE k == Index(c)
<1>0. list \in Seq(Procs) /\ Len(list) \in Nat
      /\ (\A i \in 1..Len(list) : list[i] \in Procs)
      /\ at \in [Procs -> Stages] /\ ppid \in [Procs -> Procs]
  BY ListFacts
<1>1. c \in ToSet(list) /\ IsInjective(list)
  BY DEF Exact
<1>2. k \in 1..Len(list) /\ list[k] = c
  BY <1>1, IndexOf
<1> HIDE DEF k
<1>3. /\ list' \in Seq(Procs) /\ IsInjective(list')
      /\ ToSet(list') = ToSet(list) \ {c}
      /\ Len(list') = Len(list) - 1
      /\ \A j \in 1..(Len(list) - 1) :
            list'[j] = IF j < k THEN list[j] ELSE list[j + 1]
  <2>1. /\ RemoveAt(list, k) \in Seq(Procs) /\ IsInjective(RemoveAt(list, k))
        /\ ToSet(RemoveAt(list, k)) = ToSet(list) \ {list[k]}
        /\ Len(RemoveAt(list, k)) = Len(list) - 1
        /\ \A j \in 1..(Len(list) - 1) :
              RemoveAt(list, k)[j] = IF j < k THEN list[j] ELSE list[j + 1]
    BY <1>0, <1>1, <1>2, ListRemove
  <2>2. list' = RemoveAt(list, k)
    BY DEF k
  <2>3. QED
    BY <1>2, <2>1, <2>2
<1>5. ASSUME NEW i \in 1..Len(list), list[i] # Root
      PROVE  /\ \E j \in 1..(i - 1) : list[j] = ppid[list[i]] /\ j # k
             /\ at'[ppid[list[i]]] \in {"live", "exiting", "waiting"}
  <2>1. ppid[list[i]] \in Procs /\ list[i] \in Procs
    BY <1>0
  <2>2. /\ \E j \in 1..(i - 1) : list[j] = ppid[list[i]]
        /\ at[ppid[list[i]]] \in {"live", "exiting", "waiting"}
    BY <1>5 DEF Ordered
  <2>3. ppid[list[i]] # c
    BY <2>2
  <2>4. QED
    BY <1>0, <1>2, <2>1, <2>2, <2>3
<1>6. ASSUME NEW i \in 1..(Len(list) - 1), list'[i] # Root
      PROVE  /\ \E j \in 1..(i - 1) : list'[j] = ppid'[list'[i]]
             /\ at'[ppid'[list'[i]]] \in {"live", "exiting", "waiting"}
  <2>1. CASE i < k
    <3>1. list'[i] = list[i] /\ i \in 1..Len(list)
      BY <1>0, <1>2, <1>3, <2>1
    <3>2. PICK j \in 1..(i - 1) : list[j] = ppid[list[i]]
      BY <1>5, <1>6, <3>1
    <3>3. list'[j] = list[j]
      BY <1>0, <1>2, <1>3, <2>1
    <3>4. QED
      BY <1>5, <1>6, <3>1, <3>2, <3>3
  <2>2. CASE i >= k
    <3>1. list'[i] = list[i + 1] /\ i + 1 \in 1..Len(list)
      BY <1>0, <1>2, <1>3, <2>2
    <3>2. PICK j \in 1..((i + 1) - 1) : list[j] = ppid[list[i + 1]] /\ j # k
      BY <1>5, <1>6, <3>1
    <3>3. PICK m \in 1..(i - 1) : list'[m] = list[j]
      <4>1. CASE j < k
        <5>1. j \in 1..(i - 1) /\ list'[j] = list[j]
          BY <1>0, <1>2, <1>3, <2>2, <4>1
        <5>2. QED
          BY <5>1
      <4>2. CASE j > k
        <5>1. j - 1 \in 1..(i - 1) /\ list'[j - 1] = list[j]
          BY <1>0, <1>2, <1>3, <2>2, <4>2
        <5>2. QED
          BY <5>1
      <4>3. QED
        BY <1>0, <1>2, <3>2, <4>1, <4>2
    <3>4. QED
      BY <1>5, <1>6, <3>1, <3>2, <3>3
  <2>3. QED
    BY <1>0, <1>2, <2>1, <2>2
<1>7. QED
  BY <1>3, <1>6 DEF Ordered

-----------------------------------------------------------------------------
\* 16 bits are enough for the high byte, and for the low one.
LEMMA SmallWords == \A n \in 0..(255 * 256) : n \in Words
BY DEF Words

\* A wait status has 16 bits and decodes to what it was made of.
LEMMA StatusWord ==
    ASSUME NEW c \in Causes
    PROVE  /\ WaitStatus(c) \in Words
           /\ IF WaitStatus(c) % 128 = 0
              THEN c[1] = "exit" /\ WaitStatus(c) \div 256 = c[2] % 256
              ELSE c[1] = "signal" /\ WaitStatus(c) % 128 = c[2] /\ WaitStatus(c) \div 256 = 0
<1>1. CASE c \in {"exit"} \X Int
  <2>1. c[1] = "exit" /\ c[2] \in Int
    BY <1>1
  <2>2. PICK e \in 0..255 : e = c[2] % 256
    BY <2>1
  <2>3. WaitStatus(c) = e * 256
    BY <2>1, <2>2 DEF WaitStatus, ExitWord
  <2>4. (e * 256) % 128 = 0 /\ (e * 256) \div 256 = e /\ e * 256 \in Words
    BY DEF Words
  <2>5. QED
    BY <2>1, <2>2, <2>3, <2>4
<1>2. CASE c \in {"signal"} \X (1..64)
  <2>1. c[1] = "signal" /\ c[2] \in 1..64
    BY <1>2
  <2>2. PICK n \in 1..64 : n = c[2]
    BY <2>1
  <2>3. n % 128 = n /\ (n + 128) % 128 = n /\ n \div 256 = 0 /\ (n + 128) \div 256 = 0
    OBVIOUS
  <2>4. WaitStatus(c) = n \/ WaitStatus(c) = n + 128
    <3>1. WaitStatus(c) = SignalWord(n)
      BY <2>1, <2>2 DEF WaitStatus
    <3>2. SignalWord(n) = n + IF n \in WithCore THEN 128 ELSE 0
      BY <2>3 DEF SignalWord
    <3>3. QED
      BY <3>1, <3>2
  <2>5. WaitStatus(c) % 128 = n /\ WaitStatus(c) \div 256 = 0 /\ WaitStatus(c) \in Words
    <3>1. n \in Words /\ n + 128 \in Words
      BY SmallWords
    <3>2. QED
      BY <2>3, <2>4, <3>1, Zenon
  <2>6. QED
    BY <2>1, <2>2, <2>5
<1>3. QED
  BY <1>1, <1>2, CausesAssumption

-----------------------------------------------------------------------------
\* The first process alone: the invariant holds to begin with.
LEMMA InitInv == Init => IInv
<1> SUFFICES ASSUME Init PROVE IInv
  OBVIOUS
<1>1. list \in Seq(Procs) /\ zombies \in Seq(Procs) /\ Len(list) = 1 /\ list[1] = Root
      /\ Len(zombies) = 0
  BY RootAssumption DEF Init
<1>2. TypeOK
  <2>1. \A w \in Callers : args[w] \in WaitArgs[w]
    BY CallersAssumption DEF Init, NoArgs
  <2>2. args \in [Callers -> UNION {WaitArgs[w] : w \in Callers}]
    BY <2>1 DEF Init
  <2>3. cause \in [Procs -> Causes]
    BY CausesAssumption DEF Init
  <2>4. at \in [Procs -> Stages]
    BY DEF Init, Stages
  <2>5. result.status \in Words
    BY SmallWords DEF Init, NoResult
  <2>6. /\ ppid \in [Procs -> Procs] /\ pgid \in [Procs -> Groups]
        /\ fatal \subseteq Procs /\ stopped \subseteq Procs
        /\ sigchld \in [Procs -> SUBSET Procs] /\ owed \in [Callers -> SUBSET Procs]
        /\ pc \in [Callers -> {"idle", "read1", "read2", "read3", "search", "sleep"}]
        /\ groups \in 0..MaxGroups /\ stops \in 0..MaxStops
    BY RootAssumption, BoundsAssumption DEF Init
  <2>7. QED
    BY <1>1, <2>1, <2>2, <2>3, <2>4, <2>5, <2>6 DEF TypeOK
<1>3. ToSet(list) = {Root} /\ ToSet(zombies) = {} /\ IsInjective(list) /\ IsInjective(zombies)
  <2>1. /\ \A e : e \in ToSet(list) <=> \E i \in 1..1 : list[i] = e
        /\ IsInjective(list) <=> \A i, j \in 1..1 : list[i] = list[j] => i = j
    BY <1>1, ListElements
  <2>2. ToSet(<<>>) = {} /\ IsInjective(<<>>)
    BY DEF ToSet, IsInjective
  <2>3. QED
    BY <1>1, <2>1, <2>2 DEF Init
<1>4. Exact
  BY <1>3, RootAssumption DEF Init, Exact
<1>5. Ordered
  BY <1>1 DEF Ordered
<1>6. \A w \in Callers : Waiting(w)
  BY DEF Init, Waiting
<1>7. Told
  BY DEF Init, Told
<1>8. StatusFaithful
  BY DEF Init, NoResult, StatusFaithful
<1>9. QED
  BY <1>2, <1>4, <1>5, <1>6, <1>7, <1>8 DEF IInv

\* A step that is not the return of a wait call leaves nothing to decode.
LEMMA Quiet == NoReturn => result'.status \in Words /\ StatusFaithful'
BY SmallWords DEF NoReturn, NoResult, StatusFaithful

\* A caller that is not concerned by a step stays in a correct state.
LEMMA WaitingKept ==
    ASSUME TypeOK, NEW w \in Callers, Waiting(w),
           pc'[w] = pc[w], args'[w] = args[w], owed'[w] \subseteq owed[w],
           \A q \in owed'[w] : /\ ppid'[q] = ppid[q] /\ pgid'[q] = pgid[q]
                               /\ at'[q] \notin {"none", "reaped"}
                               /\ at[q] = "zombie" => at'[q] = "zombie",
           pc[w] # "idle" => at'[w[1]] = "live" /\ pgid'[w[1]] = pgid[w[1]]
    PROVE  Waiting(w)'
<1>1. PICK o : o = args[w]
  OBVIOUS
<1>2. o.kind \in {"pid", "any", "group", "pgid"}
  BY <1>1, WaitArgsAssumption DEF TypeOK
<1>3. ASSUME NEW q \in owed'[w]
      PROVE  Matches(o, w[1], q)'
  <2>1. pc[w] # "idle" /\ Matches(o, w[1], q)
    BY <1>1 DEF Waiting
  <2>2. QED
    BY <1>2, <2>1 DEF Matches
<1>4. QED
  BY <1>1, <1>3 DEF Waiting

\* fork links the child behind its live parent.
LEMMA ForkLinkInv ==
    ASSUME IInv, NEW p \in Procs, NEW c \in Procs, ForkLink(p, c)
    PROVE  IInv'
<1> USE DEF IInv
<1>0. result'.status \in Words /\ StatusFaithful'
  BY Quiet DEF ForkLink
<1>1. Ordered' /\ list' \in Seq(Procs) /\ IsInjective(list') /\ ToSet(list') = ToSet(list) \cup {c}
  BY OrderedInsert DEF ForkLink, InsertBehind
<1>2. TypeOK'
  <2>1. at' \in [Procs -> Stages]
    BY DEF ForkLink, TypeOK, Stages
  <2>2. QED
    BY <1>0, <1>1, <2>1 DEF ForkLink, TypeOK, waitVars, sigVars
<1>3. Exact'
  BY <1>1 DEF ForkLink, Exact, TypeOK
<1>4. ASSUME NEW w \in Callers PROVE Waiting(w)'
  <2>1. w[1] \in Procs /\ Waiting(w)
    BY CallersAssumption
  <2>2. \A q \in owed[w] : q \in Procs /\ q # c
    BY DEF ForkLink, TypeOK, Waiting
  <2>3. pc'[w] = pc[w] /\ args'[w] = args[w] /\ owed'[w] = owed[w]
    BY DEF ForkLink, waitVars
  <2>4. ASSUME NEW q \in owed[w]
        PROVE  /\ ppid'[q] = ppid[q] /\ pgid'[q] = pgid[q]
               /\ at'[q] \notin {"none", "reaped"}
               /\ at[q] = "zombie" => at'[q] = "zombie"
    BY <2>2 DEF ForkLink, TypeOK, Waiting
  <2>5. pc[w] # "idle" => at'[w[1]] = "live" /\ pgid'[w[1]] = pgid[w[1]]
    BY <2>1 DEF ForkLink, TypeOK, Waiting
  <2>6. QED
    BY <2>1, <2>3, <2>4, <2>5, WaitingKept
<1>5. Told'
  BY DEF ForkLink, Told, TypeOK
<1>6. QED
  BY <1>0, <1>1, <1>2, <1>3, <1>4, <1>5

\* The order of the list survives a step of a process that has no child there, or
\* that stays one of those that may have.
LEMMA OrderedKept ==
    ASSUME TypeOK, Exact, Ordered, NEW p \in Procs, NEW s \in Stages,
           list' = list, ppid' = ppid, at' = [at EXCEPT ![p] = s],
           \/ s \in {"live", "exiting", "waiting"}
           \/ \A i \in 1..Len(list) : list[i] # Root => ppid[list[i]] # p
    PROVE  Ordered'
<1>1. ASSUME NEW i \in 1..Len(list), list[i] # Root
      PROVE  at'[ppid[list[i]]] \in {"live", "exiting", "waiting"}
  <2>1. at[ppid[list[i]]] \in {"live", "exiting", "waiting"}
    BY <1>1 DEF Ordered
  <2>2. ppid[list[i]] \in Procs /\ at \in [Procs -> Stages]
    BY ListFacts
  <2>3. QED
    BY <1>1, <2>1, <2>2
<1>2. QED
  BY <1>1 DEF Ordered

\* It survives what leaves the list, the parents and the stages as they are.
LEMMA OrderedSame ==
    ASSUME Ordered, list' = list, ppid' = ppid, at' = at
    PROVE  Ordered'
BY DEF Ordered

\* The child of a fork starts to run.
LEMMA ForkStartInv ==
    ASSUME IInv, NEW c \in Procs, ForkStart(c)
    PROVE  IInv'
<1> USE DEF IInv
<1>0. result'.status \in Words /\ StatusFaithful'
  BY Quiet DEF ForkStart
<1>1. "live" \in Stages
  BY DEF Stages
<1>2. TypeOK'
  BY <1>0, <1>1 DEF ForkStart, TypeOK, waitVars, sigVars
<1>3. Exact'
  BY DEF ForkStart, Exact, TypeOK
<1>4. Ordered'
  BY <1>1, OrderedKept DEF ForkStart
<1>5. ASSUME NEW w \in Callers PROVE Waiting(w)'
  <2>1. w[1] \in Procs /\ Waiting(w)
    BY CallersAssumption
  <2>2. pc'[w] = pc[w] /\ args'[w] = args[w] /\ owed'[w] = owed[w] /\ pgid' = pgid /\ ppid' = ppid
    BY DEF ForkStart, waitVars
  <2>3. ASSUME NEW q \in owed[w]
        PROVE  /\ at'[q] \notin {"none", "reaped"}
               /\ at[q] = "zombie" => at'[q] = "zombie"
    BY DEF ForkStart, TypeOK, Waiting
  <2>4. pc[w] # "idle" => at'[w[1]] = "live"
    BY <2>1 DEF ForkStart, TypeOK, Waiting
  <2>5. QED
    BY <2>1, <2>2, <2>3, <2>4, WaitingKept
<1>6. Told'
  BY DEF ForkStart, Told, TypeOK
<1>7. QED
  BY <1>0, <1>2, <1>3, <1>4, <1>5, <1>6

\* A fork that fails takes its child out of the list, and out of what waits are owed.
LEMMA ForkFailInv ==
    ASSUME IInv, NEW c \in Procs, ForkFail(c)
    PROVE  IInv'
<1> USE DEF IInv
<1>0. result'.status \in Words /\ StatusFaithful'
  BY Quiet DEF ForkFail
<1>1. c # Root /\ "none" \in Stages
  BY DEF ForkFail, Exact, Stages
<1>2. Ordered' /\ list' \in Seq(Procs) /\ IsInjective(list') /\ ToSet(list') = ToSet(list) \ {c}
  <2>1. /\ list' = RemoveAt(list, Index(c)) /\ ppid' = ppid
        /\ at' = [at EXCEPT ![c] = "none"] /\ at[c] \in {"forking", "listed"}
    BY DEF ForkFail
  <2>2. QED
    BY <1>1, <2>1, OrderedRemove
<1>3. TypeOK'
  <2>1. owed' \in [Callers -> SUBSET Procs] /\ at' \in [Procs -> Stages]
    BY <1>1 DEF ForkFail, TypeOK
  <2>2. fatal' \subseteq Procs /\ stopped' \subseteq Procs
    BY DEF ForkFail, TypeOK
  <2>3. QED
    BY <1>0, <1>2, <2>1, <2>2 DEF ForkFail, TypeOK
<1>4. Exact'
  BY <1>1, <1>2 DEF ForkFail, Exact, TypeOK
<1>5. ASSUME NEW w \in Callers PROVE Waiting(w)'
  <2>1. w[1] \in Procs /\ Waiting(w)
    BY CallersAssumption
  <2>2. pc'[w] = pc[w] /\ args'[w] = args[w] /\ owed'[w] = owed[w] \ {c}
        /\ pgid' = pgid /\ ppid' = ppid
    BY DEF ForkFail
  <2>3. ASSUME NEW q \in owed'[w]
        PROVE  /\ at'[q] \notin {"none", "reaped"}
               /\ at[q] = "zombie" => at'[q] = "zombie"
    BY <2>2 DEF ForkFail, TypeOK, Waiting
  <2>4. pc[w] # "idle" => at'[w[1]] = "live"
    BY <2>1 DEF ForkFail, TypeOK, Waiting
  <2>5. owed'[w] \subseteq owed[w]
    BY <2>2
  <2>6. QED
    BY <2>1, <2>2, <2>3, <2>4, <2>5, WaitingKept
<1>6. Told'
  BY DEF ForkFail, Told, TypeOK
<1>7. QED
  BY <1>0, <1>2, <1>3, <1>4, <1>5, <1>6

\* SIGSTOP and SIGCONT change neither list.
LEMMA StopContInv ==
    ASSUME IInv, NEW p \in Procs, Stop(p) \/ Cont(p)
    PROVE  IInv'
<1> USE DEF IInv
<1>0. result'.status \in Words /\ StatusFaithful'
  BY Quiet DEF Stop, Cont
<1>1. TypeOK'
  <2>1. stopped' \subseteq Procs /\ stops' \in 0..MaxStops
    BY BoundsAssumption DEF Stop, Cont, TypeOK
  <2>2. QED
    BY <1>0, <2>1 DEF Stop, Cont, TypeOK, treeVars, waitVars
<1>2. /\ list' = list /\ zombies' = zombies /\ at' = at /\ ppid' = ppid /\ pgid' = pgid
      /\ pc' = pc /\ args' = args /\ owed' = owed /\ sigchld' = sigchld
  BY DEF Stop, Cont, treeVars, waitVars
<1>3. Exact' /\ Told'
  BY <1>2 DEF Exact, Told
<1>4. Ordered'
  BY <1>2, OrderedSame
<1>5. ASSUME NEW w \in Callers PROVE Waiting(w)'
  <2>1. Waiting(w)
    OBVIOUS
  <2>2. \A q \in owed[w] : at[q] \notin {"none", "reaped"}
    BY <2>1 DEF Waiting
  <2>3. pc[w] # "idle" => at[w[1]] = "live"
    BY <2>1 DEF Waiting
  <2>4. QED
    BY <1>2, <2>1, <2>2, <2>3, WaitingKept
<1>6. QED
  BY <1>0, <1>1, <1>3, <1>4, <1>5

\* setpgid changes whom a wait call is for, and with it what the call is owed.
LEMMA SetPgidInv ==
    ASSUME IInv, NEW p \in Procs, NEW x \in Procs, NEW g \in Groups, SetPgid(p, x, g)
    PROVE  IInv'
<1> USE DEF IInv
<1>0. result'.status \in Words /\ StatusFaithful'
  BY Quiet DEF SetPgid
<1>1. /\ list' = list /\ zombies' = zombies /\ at' = at /\ ppid' = ppid
      /\ pc' = pc /\ args' = args /\ sigchld' = sigchld
      /\ \A w \in Callers : owed'[w] = {q \in owed[w] : Matches(args[w], w[1], q)'}
  BY DEF SetPgid, treeVars
<1>2. TypeOK'
  BY <1>0, BoundsAssumption DEF SetPgid, TypeOK, treeVars, sigVars
<1>3. Exact' /\ Told'
  BY <1>1 DEF Exact, Told
<1>4. Ordered'
  BY <1>1, OrderedSame
<1>5. ASSUME NEW w \in Callers PROVE Waiting(w)'
  BY <1>1 DEF Waiting
<1>6. QED
  BY <1>0, <1>2, <1>3, <1>4, <1>5

\* A process that exits ends its wait calls with it.
LEMMA ExitInv ==
    ASSUME IInv, NEW p \in Procs, Exit(p)
    PROVE  IInv'
<1> USE DEF IInv
<1>0. result'.status \in Words /\ StatusFaithful'
  BY Quiet DEF Exit
<1>1. "exiting" \in Stages
  BY DEF Stages
<1>2. TypeOK'
  <2>1. cause' \in [Procs -> Causes] /\ at' \in [Procs -> Stages]
    BY <1>1 DEF Exit, TypeOK
  <2>2. pc' \in [Callers -> {"idle", "read1", "read2", "read3", "search", "sleep"}]
    BY DEF Exit, TypeOK
  <2>3. owed' \in [Callers -> SUBSET Procs]
    BY DEF Exit, TypeOK
  <2>4. QED
    BY <1>0, <2>1, <2>2, <2>3 DEF Exit, TypeOK, sigVars
<1>3. Exact'
  BY DEF Exit, Exact, TypeOK
<1>4. Ordered'
  BY <1>1, OrderedKept DEF Exit
<1>5. ASSUME NEW w \in Callers PROVE Waiting(w)'
  <2>1. w[1] \in Procs /\ Waiting(w)
    BY CallersAssumption
  <2>2. CASE w[1] = p
    <3>1. pc'[w] = "idle" /\ owed'[w] = {}
      BY <2>2 DEF Exit
    <3>2. QED
      BY <3>1 DEF Waiting
  <2>3. CASE w[1] # p
    <3>1. pc'[w] = pc[w] /\ args'[w] = args[w] /\ owed'[w] = owed[w] /\ pgid' = pgid /\ ppid' = ppid
      BY <2>3 DEF Exit
    <3>2. ASSUME NEW q \in owed[w]
          PROVE  /\ at'[q] \notin {"none", "reaped"}
                 /\ at[q] = "zombie" => at'[q] = "zombie"
      BY DEF Exit, TypeOK, Waiting
    <3>3. pc[w] # "idle" => at'[w[1]] = "live"
      BY <2>1, <2>3 DEF Exit, TypeOK, Waiting
    <3>4. QED
      BY <2>1, <3>1, <3>2, <3>3, WaitingKept
  <2>4. QED
    BY <2>2, <2>3
<1>6. Told'
  BY DEF Exit, Told, TypeOK
<1>7. QED
  BY <1>0, <1>2, <1>3, <1>4, <1>5, <1>6

\* Those a process hangs up on are processes.
LEMMA HangUpInProcs ==
    ASSUME TypeOK, Exact, NEW p \in ToSet(list)
    PROVE  HangUp(p) \subseteq Procs
<1> DEFINE k == Index(p)
           a == SubSeq(list, 1, k - 1)
           b == SubSeq(list, k + 1, Len(list))
<1>1. list \in Seq(Procs) /\ Len(list) \in Nat /\ \A i \in 1..Len(list) : list[i] \in Procs
  BY ListFacts
<1>2. k \in 1..Len(list)
  BY IndexOf
<1> HIDE DEF k
<1>3. a \in Seq(Procs)
  <2>1. \A i \in 1..(k - 1) : list[i] \in Procs
    BY <1>1, <1>2
  <2>2. 1 \in Int /\ k - 1 \in Int
    BY <1>1, <1>2
  <2>3. QED
    BY <2>1, <2>2, SubSeqProperties
<1>4. b \in Seq(Procs)
  <2>1. \A i \in (k + 1)..Len(list) : list[i] \in Procs
    BY <1>1, <1>2
  <2>2. k + 1 \in Int /\ Len(list) \in Int
    BY <1>1, <1>2
  <2>3. QED
    BY <2>1, <2>2, SubSeqProperties
<1> HIDE DEF a, b
<1>5. ToSet(Reverse(a)) \subseteq Procs
  <2>1. Len(a) \in Nat /\ \A i \in 1..Len(a) : a[i] \in Procs
    BY <1>3, ListElements, ElementOfSeq
  <2>2. \A i \in 1..Len(a) : (Len(a) - i) + 1 \in 1..Len(a)
    BY <2>1
  <2>3. ToSet(Reverse(a)) = {a[(Len(a) - i) + 1] : i \in 1..Len(a)}
    BY DEF ToSet, Reverse
  <2>4. QED
    BY <2>1, <2>2, <2>3
<1>6. ToSet(b) \subseteq Procs
  BY <1>4, ListElements
<1>7. Left(p) = Reverse(a) /\ Right(p) = b
  BY DEF Left, Right, a, b, k
<1>8. QED
  BY <1>5, <1>6, <1>7 DEF HangUp, ChildrenIn

\* An exiting process hangs up on its children.
LEMMA SendSighupInv ==
    ASSUME IInv, NEW p \in Procs, SendSighup(p)
    PROVE  IInv'
<1> USE DEF IInv
<1>0. result'.status \in Words /\ StatusFaithful'
  BY Quiet DEF SendSighup
<1>1. "waiting" \in Stages
  BY DEF Stages
<1>2. TypeOK'
  <2>1. HangUp(p) \subseteq Procs
    BY HangUpInProcs DEF SendSighup, Exact
  <2>2. at' \in [Procs -> Stages] /\ fatal' \subseteq Procs
    BY <1>1, <2>1 DEF SendSighup, TypeOK
  <2>3. QED
    BY <1>0, <2>2 DEF SendSighup, TypeOK, waitVars
<1>3. Exact'
  BY DEF SendSighup, Exact, TypeOK
<1>4. Ordered'
  BY <1>1, OrderedKept DEF SendSighup
<1>5. ASSUME NEW w \in Callers PROVE Waiting(w)'
  <2>1. w[1] \in Procs /\ Waiting(w)
    BY CallersAssumption
  <2>2. pc'[w] = pc[w] /\ args'[w] = args[w] /\ owed'[w] = owed[w] /\ pgid' = pgid /\ ppid' = ppid
    BY DEF SendSighup, waitVars
  <2>3. ASSUME NEW q \in owed[w]
        PROVE  /\ at'[q] \notin {"none", "reaped"}
               /\ at[q] = "zombie" => at'[q] = "zombie"
    BY DEF SendSighup, TypeOK, Waiting
  <2>4. pc[w] # "idle" => at'[w[1]] = "live"
    BY <2>1 DEF SendSighup, TypeOK, Waiting
  <2>5. QED
    BY <2>1, <2>2, <2>3, <2>4, WaitingKept
<1>6. Told'
  BY DEF SendSighup, Told, TypeOK
<1>7. QED
  BY <1>0, <1>2, <1>3, <1>4, <1>5, <1>6

\* A process without children in the list tells its parent.
LEMMA SendSigchldInv ==
    ASSUME IInv, NEW p \in Procs, SendSigchld(p)
    PROVE  IInv'
<1> USE DEF IInv
<1>0. result'.status \in Words /\ StatusFaithful'
  BY Quiet DEF SendSigchld
<1>1. "notified" \in Stages
  BY DEF Stages
<1>2. TypeOK'
  <2>1. at' \in [Procs -> Stages] /\ sigchld' \in [Procs -> SUBSET Procs]
    BY <1>1 DEF SendSigchld, TypeOK
  <2>2. QED
    BY <1>0, <2>1 DEF SendSigchld, TypeOK, waitVars, sigVars
<1>3. Exact'
  BY DEF SendSigchld, Exact, TypeOK
<1>4. Ordered'
  <2>1. ASSUME NEW i \in 1..Len(list), list[i] # Root
        PROVE  ppid[list[i]] # p
    <3>1. list[i] \in ToSet(list) \ {Root}
      BY <2>1, ListFacts
    <3>2. ppid[list[i]] # list[i]
      BY <3>1, ParentFirst
    <3>3. QED
      BY <3>1, <3>2 DEF SendSigchld, ChildrenGone, ChildrenIn
  <2>2. list' = list /\ ppid' = ppid /\ at' = [at EXCEPT ![p] = "notified"]
    BY DEF SendSigchld
  <2>3. QED
    BY <1>1, <2>1, <2>2, OrderedKept
<1>5. ASSUME NEW w \in Callers PROVE Waiting(w)'
  <2>1. w[1] \in Procs /\ Waiting(w)
    BY CallersAssumption
  <2>2. pc'[w] = pc[w] /\ args'[w] = args[w] /\ owed'[w] = owed[w] /\ pgid' = pgid /\ ppid' = ppid
    BY DEF SendSigchld, waitVars
  <2>3. ASSUME NEW q \in owed[w]
        PROVE  /\ at'[q] \notin {"none", "reaped"}
               /\ at[q] = "zombie" => at'[q] = "zombie"
    BY DEF SendSigchld, TypeOK, Waiting
  <2>4. pc[w] # "idle" => at'[w[1]] = "live"
    BY <2>1 DEF SendSigchld, TypeOK, Waiting
  <2>5. QED
    BY <2>1, <2>2, <2>3, <2>4, WaitingKept
<1>6. Told'
  BY DEF SendSigchld, Told, TypeOK
<1>7. QED
  BY <1>0, <1>2, <1>3, <1>4, <1>5, <1>6

\* It enters the zombie list while still in the other one.
LEMMA PushZombieInv ==
    ASSUME IInv, NEW p \in Procs, PushZombie(p)
    PROVE  IInv'
<1> USE DEF IInv
<1>0. result'.status \in Words /\ StatusFaithful'
  BY Quiet DEF PushZombie
<1>1. "listed" \in Stages
  BY DEF Stages
<1>2. zombies' \in Seq(Procs) /\ IsInjective(zombies') /\ ToSet(zombies') = ToSet(zombies) \cup {p}
  <2>1. zombies \in Seq(Procs) /\ IsInjective(zombies) /\ p \notin ToSet(zombies)
    BY DEF TypeOK, Exact, PushZombie
  <2>2. QED
    BY <2>1, ListPush DEF PushZombie
<1>3. TypeOK'
  BY <1>0, <1>1, <1>2 DEF PushZombie, TypeOK, waitVars, sigVars
<1>4. Exact'
  BY <1>2 DEF PushZombie, Exact, TypeOK
<1>5. Ordered'
  <2>1. ASSUME NEW i \in 1..Len(list), list[i] # Root
        PROVE  ppid[list[i]] # p
    BY <2>1 DEF PushZombie, Ordered
  <2>2. list' = list /\ ppid' = ppid /\ at' = [at EXCEPT ![p] = "listed"]
    BY DEF PushZombie
  <2>3. QED
    BY <1>1, <2>1, <2>2, OrderedKept
<1>6. ASSUME NEW w \in Callers PROVE Waiting(w)'
  <2>1. w[1] \in Procs /\ Waiting(w)
    BY CallersAssumption
  <2>2. pc'[w] = pc[w] /\ args'[w] = args[w] /\ owed'[w] = owed[w] /\ pgid' = pgid /\ ppid' = ppid
    BY DEF PushZombie, waitVars
  <2>3. ASSUME NEW q \in owed[w]
        PROVE  /\ at'[q] \notin {"none", "reaped"}
               /\ at[q] = "zombie" => at'[q] = "zombie"
    BY DEF PushZombie, TypeOK, Waiting
  <2>4. pc[w] # "idle" => at'[w[1]] = "live"
    BY <2>1 DEF PushZombie, TypeOK, Waiting
  <2>5. QED
    BY <2>1, <2>2, <2>3, <2>4, WaitingKept
<1>7. Told'
  BY DEF PushZombie, Told, TypeOK
<1>8. QED
  BY <1>0, <1>3, <1>4, <1>5, <1>6, <1>7

\* It leaves the process list, where it has no child.
LEMMA UnlinkInv ==
    ASSUME IInv, NEW p \in Procs, Unlink(p)
    PROVE  IInv'
<1> USE DEF IInv
<1>0. result'.status \in Words /\ StatusFaithful'
  BY Quiet DEF Unlink
<1>1. p # Root /\ "zombie" \in Stages
  BY DEF Unlink, Exact, Stages
<1>2. Ordered' /\ list' \in Seq(Procs) /\ IsInjective(list') /\ ToSet(list') = ToSet(list) \ {p}
  <2>1. /\ list' = RemoveAt(list, Index(p)) /\ ppid' = ppid
        /\ at' = [at EXCEPT ![p] = "zombie"] /\ at[p] \in {"forking", "listed"}
    BY DEF Unlink
  <2>2. QED
    BY <1>1, <2>1, OrderedRemove
<1>3. TypeOK'
  <2>1. fatal' \subseteq Procs /\ at' \in [Procs -> Stages]
    BY <1>1 DEF Unlink, TypeOK
  <2>2. QED
    BY <1>0, <1>2, <2>1 DEF Unlink, TypeOK, waitVars
<1>4. Exact'
  BY <1>1, <1>2 DEF Unlink, Exact, TypeOK
<1>5. ASSUME NEW w \in Callers PROVE Waiting(w)'
  <2>1. w[1] \in Procs /\ Waiting(w)
    BY CallersAssumption
  <2>2. pc'[w] = pc[w] /\ args'[w] = args[w] /\ owed'[w] = owed[w] /\ pgid' = pgid /\ ppid' = ppid
    BY DEF Unlink, waitVars
  <2>3. ASSUME NEW q \in owed[w]
        PROVE  /\ at'[q] \notin {"none", "reaped"}
               /\ at[q] = "zombie" => at'[q] = "zombie"
    BY DEF Unlink, TypeOK, Waiting
  <2>4. pc[w] # "idle" => at'[w[1]] = "live"
    BY <2>1 DEF Unlink, TypeOK, Waiting
  <2>5. QED
    BY <2>1, <2>2, <2>3, <2>4, WaitingKept
<1>6. Told'
  BY DEF Unlink, Told, TypeOK
<1>7. QED
  BY <1>0, <1>2, <1>3, <1>4, <1>5, <1>6

\* The first process ends the kernel when it is alone.
LEMMA RootEndInv ==
    ASSUME IInv, RootEnd
    PROVE  IInv'
<1> USE DEF IInv
<1>0. result'.status \in Words /\ StatusFaithful'
  BY Quiet DEF RootEnd
<1>1. "gone" \in Stages /\ Root \in Procs
  BY RootAssumption DEF Stages
<1>2. TypeOK'
  BY <1>0, <1>1 DEF RootEnd, TypeOK, waitVars, sigVars
<1>3. Exact'
  BY <1>1 DEF RootEnd, Exact, TypeOK
<1>4. Ordered'
  <2>1. \A i \in 1..Len(list) : list[i] = Root
    BY DEF RootEnd
  <2>2. list' = list /\ ppid' = ppid /\ at' = [at EXCEPT ![Root] = "gone"]
    BY DEF RootEnd
  <2>3. QED
    BY <1>1, <2>1, <2>2, OrderedKept
<1>5. ASSUME NEW w \in Callers PROVE Waiting(w)'
  <2>1. w[1] \in Procs /\ Waiting(w)
    BY CallersAssumption
  <2>2. pc'[w] = pc[w] /\ args'[w] = args[w] /\ owed'[w] = owed[w] /\ pgid' = pgid /\ ppid' = ppid
    BY DEF RootEnd, waitVars
  <2>3. ASSUME NEW q \in owed[w]
        PROVE  /\ at'[q] \notin {"none", "reaped"}
               /\ at[q] = "zombie" => at'[q] = "zombie"
    BY <1>1 DEF RootEnd, TypeOK, Waiting
  <2>4. pc[w] # "idle" => at'[w[1]] = "live"
    BY <1>1, <2>1 DEF RootEnd, TypeOK, Waiting
  <2>5. QED
    BY <2>1, <2>2, <2>3, <2>4, WaitingKept
<1>6. Told'
  BY <1>1 DEF RootEnd, Told, TypeOK
<1>7. QED
  BY <1>0, <1>2, <1>3, <1>4, <1>5, <1>6

-----------------------------------------------------------------------------
\* Whom a wait call is for does not change while parents and groups do not.
LEMMA MatchesSame ==
    ASSUME NEW o, o.kind \in {"pid", "any", "group", "pgid"}, NEW p, NEW q,
           ppid' = ppid, pgid' = pgid
    PROVE  Matches(o, p, q) => Matches(o, p, q)'
BY DEF Matches

\* What the steps of the wait calls leave alone, but for the child they reap.
LEMMA WaitFrame ==
    ASSUME IInv, list' = list, ppid' = ppid, sigchld' = sigchld, cause' = cause,
           zombies' = zombies, at' = at
    PROVE  Exact' /\ Ordered' /\ Told'
<1>1. Ordered'
  BY OrderedSame DEF IInv
<1>2. QED
  BY <1>1 DEF IInv, Exact, Told

\* The callers a wait step is not about.
LEMMA OthersKept ==
    ASSUME IInv, NEW v \in Callers, pc'[v] = pc[v], args'[v] = args[v], owed'[v] = owed[v],
           ppid' = ppid, pgid' = pgid, at' = at
    PROVE  Waiting(v)'
<1>1. Waiting(v) /\ TypeOK
  BY DEF IInv
<1>2. \A q \in owed[v] : at[q] \notin {"none", "reaped"}
  BY <1>1 DEF Waiting
<1>3. pc[v] # "idle" => at[v[1]] = "live"
  BY <1>1 DEF Waiting
<1>4. QED
  BY <1>1, <1>2, <1>3, WaitingKept

\* A wait call starts, owed the matching children it has.
LEMMA WaitCallInv ==
    ASSUME IInv, NEW w \in Callers, WaitCall(w)
    PROVE  IInv'
<1> USE DEF IInv
<1>0. result'.status \in Words /\ StatusFaithful'
  BY Quiet DEF WaitCall
<1>1. /\ list' = list /\ zombies' = zombies /\ at' = at /\ ppid' = ppid /\ pgid' = pgid
      /\ sigchld' = sigchld /\ cause' = cause
  BY DEF WaitCall, treeVars
<1>2. PICK o \in WaitArgs[w] :
         /\ args' = [args EXCEPT ![w] = o]
         /\ owed' = [owed EXCEPT ![w] = {q \in Unreaped(w[1]) : Matches(o, w[1], q)}]
  BY DEF WaitCall
<1>3. Unreaped(w[1]) \subseteq Procs
  BY DEF Unreaped, Exact
<1>4. TypeOK'
  <2>1. owed' \in [Callers -> SUBSET Procs]
    BY <1>2, <1>3 DEF TypeOK
  <2>2. args' \in [Callers -> UNION {WaitArgs[v] : v \in Callers}]
    BY <1>2 DEF TypeOK
  <2>3. \A v \in Callers : args'[v] \in WaitArgs[v]
    BY <1>2 DEF TypeOK
  <2>4. pc' \in [Callers -> {"idle", "read1", "read2", "read3", "search", "sleep"}]
    BY DEF WaitCall, TypeOK
  <2>5. QED
    BY <1>0, <2>1, <2>2, <2>3, <2>4 DEF WaitCall, TypeOK, treeVars, sigVars
<1>5. Exact' /\ Ordered' /\ Told'
  BY <1>1, WaitFrame
<1>6. ASSUME NEW v \in Callers PROVE Waiting(v)'
  <2>1. CASE v # w
    <3>1. pc'[v] = pc[v] /\ args'[v] = args[v] /\ owed'[v] = owed[v]
      BY <1>2, <2>1 DEF WaitCall, TypeOK
    <3>2. QED
      BY <1>1, <3>1, OthersKept
  <2>2. CASE v = w
    <3>1. /\ pc'[w] = "read1" /\ args'[w] = o
          /\ owed'[w] = {q \in Unreaped(w[1]) : Matches(o, w[1], q)}
      BY <1>2 DEF WaitCall, TypeOK
    <3>2. o.kind \in {"pid", "any", "group", "pgid"}
      BY <1>2, WaitArgsAssumption
    <3>3. at'[w[1]] = "live"
      BY <1>1 DEF WaitCall
    <3>4. ASSUME NEW q \in owed'[w]
          PROVE  /\ Matches(o, w[1], q)'
                 /\ ppid'[q] = w[1] /\ q # Root /\ at'[q] \notin {"none", "reaped"}
      <4>1. q \in Unreaped(w[1]) /\ Matches(o, w[1], q)
        BY <3>1
      <4>2. Matches(o, w[1], q)'
        BY <1>1, <3>2, <4>1, MatchesSame
      <4>3. QED
        BY <1>1, <4>1, <4>2 DEF Unreaped, Exact
    <3>5. QED
      BY <2>2, <3>1, <3>3, <3>4 DEF Waiting
  <2>3. QED
    BY <2>1, <2>2
<1>7. QED
  BY <1>0, <1>4, <1>5, <1>6

\* Returning from a wait call leaves the caller idle, and the others as they are.
LEMMA ReturnInv ==
    ASSUME TypeOK, NEW w \in Callers, NEW r, NEW q, NEW s, Return(w, r, q, s)
    PROVE  /\ pc' \in [Callers -> {"idle", "read1", "read2", "read3", "search", "sleep"}]
           /\ args' \in [Callers -> UNION {WaitArgs[v] : v \in Callers}]
           /\ \A v \in Callers : args'[v] \in WaitArgs[v]
           /\ \A v \in Callers : v # w => pc'[v] = pc[v] /\ args'[v] = args[v]
           /\ pc'[w] = "idle"
           /\ result' = [ret |-> r, pid |-> q, status |-> s]
<1>1. NoArgs(w) \in WaitArgs[w]
  BY CallersAssumption DEF NoArgs
<1>2. QED
  BY <1>1 DEF Return, TypeOK

\* A wait call that returns without a change to the lists.
LEMMA ReturnKeeps ==
    ASSUME IInv, NEW w \in Callers, NEW r, NEW q, NEW s, Return(w, r, q, s),
           result'.status \in Words, StatusFaithful',
           owed' = [owed EXCEPT ![w] = {}], UNCHANGED <<zombies, at>>,
           UNCHANGED <<list, ppid, cause, sigchld, pgid, groups, sigVars>>
    PROVE  IInv'
<1> USE DEF IInv
<1>1. Exact' /\ Ordered' /\ Told'
  BY WaitFrame
<1>2. /\ pc' \in [Callers -> {"idle", "read1", "read2", "read3", "search", "sleep"}]
      /\ args' \in [Callers -> UNION {WaitArgs[v] : v \in Callers}]
      /\ \A v \in Callers : args'[v] \in WaitArgs[v]
      /\ \A v \in Callers : v # w => pc'[v] = pc[v] /\ args'[v] = args[v]
      /\ pc'[w] = "idle"
  BY ReturnInv
<1>3. TypeOK'
  <2>1. owed' \in [Callers -> SUBSET Procs]
    BY DEF TypeOK
  <2>2. QED
    BY <1>2, <2>1 DEF TypeOK, sigVars
<1>4. ASSUME NEW v \in Callers PROVE Waiting(v)'
  <2>1. CASE v # w
    <3>1. owed'[v] = owed[v]
      BY <2>1 DEF TypeOK
    <3>2. QED
      BY <1>2, <2>1, <3>1, OthersKept
  <2>2. CASE v = w
    <3>1. owed'[w] = {}
      BY DEF TypeOK
    <3>2. QED
      BY <1>2, <2>2, <3>1 DEF Waiting
  <2>3. QED
    BY <2>1, <2>2
<1>5. QED
  BY <1>1, <1>3, <1>4

\* A wait call that goes on: to the search, to sleep, or to the next read.
LEMMA MoveKeeps ==
    ASSUME IInv, NEW w \in Callers, pc[w] # "idle",
           NEW l \in {"read2", "read3", "search", "sleep"},
           pc' = [pc EXCEPT ![w] = l], NoReturn,
           l \in {"read2", "read3"} => \A q \in owed[w] : at[q] = "zombie",
           UNCHANGED <<args, owed>>, UNCHANGED <<zombies, at>>,
           UNCHANGED <<list, ppid, cause, sigchld, pgid, groups, sigVars>>
    PROVE  IInv'
<1> USE DEF IInv
<1>0. result'.status \in Words /\ StatusFaithful'
  BY Quiet
<1>1. Exact' /\ Ordered' /\ Told'
  BY WaitFrame
<1>2. TypeOK'
  BY <1>0 DEF TypeOK, sigVars
<1>3. ASSUME NEW v \in Callers PROVE Waiting(v)'
  <2>1. CASE v # w
    <3>1. pc'[v] = pc[v]
      BY <2>1 DEF TypeOK
    <3>2. QED
      BY <3>1, OthersKept
  <2>2. CASE v = w
    <3>1. pc'[w] = l
      BY DEF TypeOK
    <3>2. PICK o : o = args[w]
      OBVIOUS
    <3>3. o.kind \in {"pid", "any", "group", "pgid"}
      BY <3>2, WaitArgsAssumption DEF TypeOK
    <3>4. \A q \in owed'[w] : Matches(o, w[1], q)'
      BY <3>2, <3>3, MatchesSame DEF Waiting
    <3>5. /\ \A q \in owed'[w] : ppid'[q] = w[1] /\ q # Root /\ at'[q] \notin {"none", "reaped"}
          /\ pc'[w] \in {"read2", "read3"} => \A q \in owed'[w] : at'[q] = "zombie"
          /\ pc'[w] # "idle" /\ at'[w[1]] = "live" /\ args'[w] = o
      BY <3>1, <3>2 DEF Waiting
    <3>6. Waiting(w)'
      BY <3>4, <3>5 DEF Waiting
    <3>7. QED
      BY <2>2, <3>6
  <2>3. QED
    BY <2>1, <2>2
<1>4. QED
  BY <1>0, <1>1, <1>2, <1>3

\* A caller that sees nobody behind it in the list has no child there.
LEMMA LastHasNoChild ==
    ASSUME IInv, NEW w \in Callers, pc[w] # "idle", IsNull("next", w[1])
    PROVE  \A q \in owed[w] : at[q] = "zombie"
<1> USE DEF IInv
<1> SUFFICES ASSUME NEW q \in owed[w] PROVE at[q] = "zombie"
  OBVIOUS
<1>1. /\ ppid[q] = w[1] /\ q # Root /\ at[q] \notin {"none", "reaped"}
      /\ at[w[1]] = "live" /\ q \in Procs /\ w[1] \in Procs
  BY CallersAssumption DEF Waiting, TypeOK
<1>2. w[1] \in ToSet(list)
  BY <1>1 DEF Exact
<1>3. list[Len(list)] = w[1] /\ Len(list) \in 1..Len(list)
  BY <1>2, ListFacts DEF IsNull, Last
<1>4. q \notin ToSet(list)
  <2> SUFFICES ASSUME q \in ToSet(list) PROVE FALSE
    OBVIOUS
  <2>1. PICK i \in 1..Len(list) : list[i] = q
    BY ListFacts
  <2>2. PICK j \in 1..(i - 1) : list[j] = w[1]
    BY <1>1, <2>1 DEF Ordered
  <2>3. j \in 1..Len(list) /\ j # Len(list)
    BY <2>1, <2>2, ListFacts
  <2>4. QED
    BY <1>3, <2>2, <2>3, ListFacts
<1>5. QED
  BY <1>1, <1>4 DEF Exact

\* One of the three reads of the lists without the lock.
LEMMA WaitReadInv ==
    ASSUME IInv, NEW w \in Callers, WaitRead(w)
    PROVE  IInv'
<1>1. /\ UNCHANGED <<list, ppid, cause, sigchld, pgid, groups, sigVars>>
      /\ UNCHANGED <<zombies, at>>
  BY DEF WaitRead, treeVars
<1>2. pc[w] # "idle" /\ Waiting(w)
  BY DEF WaitRead, IInv
<1>3. PICK i \in 1..3 :
      /\ pc[w] = <<"read1", "read2", "read3">>[i]
      /\ IF ~IsNull(Reads[i], w[1])
         THEN pc' = [pc EXCEPT ![w] = "search"] /\ UNCHANGED <<args, owed>> /\ NoReturn
         ELSE IF i < 3
         THEN pc' = [pc EXCEPT ![w] = <<"read2", "read3">>[i]] /\ UNCHANGED <<args, owed>> /\ NoReturn
         ELSE /\ Return(w, "ECHILD", Root, 0)
              /\ owed' = [owed EXCEPT ![w] = {}]
  BY DEF WaitRead
<1>4. CASE ~IsNull(Reads[i], w[1])
  BY <1>1, <1>2, <1>3, <1>4, MoveKeeps
<1>5. CASE IsNull(Reads[i], w[1]) /\ i = 1
  <2>1. /\ Reads[1] = "next" /\ pc' = [pc EXCEPT ![w] = "read2"]
        /\ UNCHANGED <<args, owed>> /\ NoReturn
    BY <1>3, <1>5 DEF Reads
  <2>2. \A q \in owed[w] : at[q] = "zombie"
    BY <1>2, <1>5, <2>1, LastHasNoChild
  <2>3. QED
    BY <1>1, <1>2, <2>1, <2>2, MoveKeeps
<1>6. CASE IsNull(Reads[i], w[1]) /\ i = 2
  <2>1. /\ pc[w] = "read2" /\ pc' = [pc EXCEPT ![w] = "read3"]
        /\ UNCHANGED <<args, owed>> /\ NoReturn
    BY <1>3, <1>6
  <2>2. \A q \in owed[w] : at[q] = "zombie"
    BY <1>2, <2>1 DEF Waiting
  <2>3. QED
    BY <1>1, <1>2, <2>1, <2>2, MoveKeeps
<1>7. CASE IsNull(Reads[i], w[1]) /\ i = 3
  <2>1. Return(w, "ECHILD", Root, 0) /\ owed' = [owed EXCEPT ![w] = {}]
    BY <1>3, <1>7
  <2>2. result' = [ret |-> "ECHILD", pid |-> Root, status |-> 0]
    BY <2>1 DEF Return
  <2>3. result'.ret = "ECHILD" /\ result'.status = 0
    BY <2>2
  <2>4. result'.status \in Words
    BY <2>3, SmallWords
  <2>5. StatusFaithful'
    BY <2>3 DEF StatusFaithful
  <2>6. QED
    BY <1>1, <2>1, <2>4, <2>5, ReturnKeeps
<1>8. QED
  BY <1>4, <1>5, <1>6, <1>7

\* The status is about the zombie found first: it decodes to how that one ended.
LEMMA FoundStatus ==
    ASSUME IInv, NEW z \in Procs, cause' = cause,
           result' = [ret |-> "pid", pid |-> z, status |-> WaitStatus(cause[z])]
    PROVE  result'.status \in Words /\ StatusFaithful'
<1>1. cause[z] \in Causes
  BY DEF IInv, TypeOK
<1>2. PICK c \in Causes : c = cause[z]
  BY <1>1
<1>3. /\ WaitStatus(c) \in Words
      /\ IF WaitStatus(c) % 128 = 0
         THEN c[1] = "exit" /\ WaitStatus(c) \div 256 = c[2] % 256
         ELSE c[1] = "signal" /\ WaitStatus(c) % 128 = c[2] /\ WaitStatus(c) \div 256 = 0
  BY StatusWord
<1>4. result'.status = WaitStatus(c) /\ cause'[result'.pid] = c
  BY <1>2
<1>5. QED
  BY <1>3, <1>4 DEF StatusFaithful

\* A wait call that takes a zombie with it.
LEMMA ReapInv ==
    ASSUME IInv, NEW w \in Callers, NEW i \in 1..Len(zombies), ListUnlocked,
           Return(w, "pid", zombies[i], WaitStatus(cause[zombies[i]])),
           zombies' = RemoveAt(zombies, i),
           at' = [at EXCEPT ![zombies[i]] = "reaped"],
           owed' = [v \in Callers |-> IF v = w THEN {} ELSE owed[v] \ {zombies[i]}],
           UNCHANGED <<list, ppid, cause, sigchld, pgid, groups, sigVars>>
    PROVE  IInv'
<1> USE DEF IInv
<1> DEFINE z == zombies[i]
<1>0. zombies \in Seq(Procs) /\ IsInjective(zombies)
  BY DEF TypeOK, Exact
<1>1. z \in Procs /\ z \in ToSet(zombies)
  BY <1>0, ListElements, ElementOfSeq
<1>2. at[z] = "zombie" /\ z # Root
  BY <1>1 DEF Exact, ListUnlocked
<1>3. /\ zombies' \in Seq(Procs) /\ IsInjective(zombies')
      /\ ToSet(zombies') = ToSet(zombies) \ {z}
  BY <1>0, ListRemove
<1>4. /\ pc' \in [Callers -> {"idle", "read1", "read2", "read3", "search", "sleep"}]
      /\ args' \in [Callers -> UNION {WaitArgs[v] : v \in Callers}]
      /\ \A v \in Callers : args'[v] \in WaitArgs[v]
      /\ \A v \in Callers : v # w => pc'[v] = pc[v] /\ args'[v] = args[v]
      /\ pc'[w] = "idle"
      /\ result' = [ret |-> "pid", pid |-> z, status |-> WaitStatus(cause[z])]
  BY ReturnInv
<1>5. result'.status \in Words /\ StatusFaithful'
  BY <1>1, <1>4, FoundStatus
<1>6. "reaped" \in Stages /\ at' = [at EXCEPT ![z] = "reaped"]
      /\ \A v \in Callers : owed'[v] = IF v = w THEN {} ELSE owed[v] \ {z}
  BY DEF Stages
<1> HIDE DEF z
<1>7. TypeOK'
  <2>1. owed' \in [Callers -> SUBSET Procs]
    BY DEF TypeOK
  <2>2. at' \in [Procs -> Stages]
    BY <1>1, <1>6 DEF TypeOK
  <2>3. QED
    BY <1>3, <1>4, <1>5, <2>1, <2>2 DEF TypeOK, sigVars
<1>8. Exact'
  BY <1>1, <1>2, <1>3, <1>6 DEF Exact, TypeOK
<1>9. Ordered'
  <2>1. ASSUME NEW j \in 1..Len(list), list[j] # Root
        PROVE  ppid[list[j]] # z
    BY <1>2, <2>1 DEF Ordered
  <2>2. QED
    BY <1>1, <1>6, <2>1, OrderedKept
<1>10. ASSUME NEW v \in Callers PROVE Waiting(v)'
  <2>1. v[1] \in Procs /\ Waiting(v)
    BY CallersAssumption
  <2>2. CASE v = w
    <3>1. owed'[v] = {} /\ pc'[v] = "idle"
      BY <1>4, <1>6, <2>2
    <3>2. QED
      BY <3>1 DEF Waiting
  <2>3. CASE v # w
    <3>1. pc'[v] = pc[v] /\ args'[v] = args[v] /\ owed'[v] = owed[v] \ {z}
      BY <1>4, <1>6, <2>3
    <3>2. ASSUME NEW q \in owed'[v]
          PROVE  /\ at'[q] \notin {"none", "reaped"}
                 /\ at[q] = "zombie" => at'[q] = "zombie"
      BY <1>1, <1>6, <3>1 DEF Waiting, TypeOK
    <3>3. pc[v] # "idle" => at'[v[1]] = "live"
      BY <1>1, <1>2, <1>6, <2>1 DEF TypeOK, Waiting
    <3>4. owed'[v] \subseteq owed[v]
      BY <3>1
    <3>5. QED
      BY <2>1, <3>1, <3>2, <3>3, <3>4, WaitingKept
  <2>4. QED
    BY <2>2, <2>3
<1>11. Told'
  BY <1>1, <1>6 DEF Told, TypeOK
<1>12. QED
  BY <1>5, <1>7, <1>8, <1>9, <1>10, <1>11

\* One round of a wait call under the lock.
LEMMA WaitSearchInv ==
    ASSUME IInv, NEW w \in Callers, WaitSearch(w)
    PROVE  IInv'
<1>1. /\ pc[w] = "search" /\ ListUnlocked
      /\ UNCHANGED <<list, ppid, cause, sigchld, pgid, groups, sigVars>>
  BY DEF WaitSearch
<1>2. CASE \E i \in 1..Len(zombies) :
              /\ Return(w, "pid", zombies[i], WaitStatus(cause[zombies[i]]))
              /\ \/ /\ owed' = [owed EXCEPT ![w] = {}]
                    /\ UNCHANGED <<zombies, at>>
                 \/ /\ zombies' = RemoveAt(zombies, i)
                    /\ at' = [at EXCEPT ![zombies[i]] = "reaped"]
                    /\ owed' = [v \in Callers |-> IF v = w THEN {} ELSE owed[v] \ {zombies[i]}]
  <2>1. PICK i \in 1..Len(zombies) :
              /\ Return(w, "pid", zombies[i], WaitStatus(cause[zombies[i]]))
              /\ \/ /\ owed' = [owed EXCEPT ![w] = {}]
                    /\ UNCHANGED <<zombies, at>>
                 \/ /\ zombies' = RemoveAt(zombies, i)
                    /\ at' = [at EXCEPT ![zombies[i]] = "reaped"]
                    /\ owed' = [v \in Callers |-> IF v = w THEN {} ELSE owed[v] \ {zombies[i]}]
    BY <1>2
  <2>2. CASE owed' = [owed EXCEPT ![w] = {}] /\ UNCHANGED <<zombies, at>>
    <3>1. zombies[i] \in Procs
      BY ElementOfSeq DEF IInv, TypeOK
    <3>2. result' = [ret |-> "pid", pid |-> zombies[i], status |-> WaitStatus(cause[zombies[i]])]
      BY <2>1 DEF Return
    <3>3. result'.status \in Words /\ StatusFaithful'
      BY <1>1, <3>1, <3>2, FoundStatus
    <3>4. QED
      BY <1>1, <2>1, <2>2, <3>3, ReturnKeeps
  <2>3. CASE /\ zombies' = RemoveAt(zombies, i)
             /\ at' = [at EXCEPT ![zombies[i]] = "reaped"]
             /\ owed' = [v \in Callers |-> IF v = w THEN {} ELSE owed[v] \ {zombies[i]}]
    BY <1>1, <2>1, <2>3, ReapInv
  <2>4. QED
    BY <2>1, <2>2, <2>3
<1>3. CASE /\ UNCHANGED <<zombies, at>>
           /\ owed' = [owed EXCEPT ![w] = {}]
           /\ \E r \in {"stopped", "ECHILD", "zero"}, s \in {0, StoppedStatus} :
                 \E q : Return(w, r, q, s)
  <2>1. PICK r \in {"stopped", "ECHILD", "zero"}, s \in {0, StoppedStatus} :
           \E q : Return(w, r, q, s)
    BY <1>3
  <2>2. PICK q : Return(w, r, q, s)
    BY <2>1
  <2>3. result' = [ret |-> r, pid |-> q, status |-> s]
    BY <2>2 DEF Return
  <2>4. result'.ret # "pid" /\ result'.status = s
    BY <2>3
  <2>5. s \in Words
    BY SmallWords DEF StoppedStatus
  <2>6. StatusFaithful'
    BY <2>4 DEF StatusFaithful
  <2>7. QED
    BY <1>1, <1>3, <2>2, <2>4, <2>5, <2>6, ReturnKeeps
<1>4. CASE /\ UNCHANGED <<zombies, at>>
           /\ pc' = [pc EXCEPT ![w] = "sleep"]
           /\ NoReturn
           /\ UNCHANGED <<args, owed>>
  BY <1>1, <1>4, MoveKeeps
<1>5. QED
  BY <1>2, <1>3, <1>4 DEF WaitSearch

\* A sleeping wait call looks again.
LEMMA WaitPollInv ==
    ASSUME IInv, NEW w \in Callers, WaitPoll(w)
    PROVE  IInv'
<1>1. /\ pc[w] = "sleep" /\ pc' = [pc EXCEPT ![w] = "search"] /\ NoReturn
      /\ UNCHANGED <<list, ppid, cause, sigchld, pgid, groups, sigVars>>
      /\ UNCHANGED <<zombies, at>> /\ UNCHANGED <<args, owed>>
  BY DEF WaitPoll, treeVars
<1>2. QED
  BY <1>1, MoveKeeps

-----------------------------------------------------------------------------
\* The invariant is kept by every step.
LEMMA NextInv == IInv /\ [Next]_vars => IInv'
<1> SUFFICES ASSUME IInv, [Next]_vars PROVE IInv'
  OBVIOUS
<1>1. ASSUME NEW w \in Callers, WaitCall(w) \/ WaitStep(w) PROVE IInv'
  BY <1>1, WaitCallInv, WaitReadInv, WaitSearchInv, WaitPollInv DEF WaitStep
<1>2. ASSUME NEW p \in Procs, ExitStep(p) PROVE IInv'
  BY <1>2, ForkStartInv, SendSighupInv, SendSigchldInv, PushZombieInv, UnlinkInv DEF ExitStep
<1>3. ASSUME NEW p \in Procs, Exit(p) \/ ForkFail(p) \/ Stop(p) \/ Cont(p) PROVE IInv'
  BY <1>3, ExitInv, ForkFailInv, StopContInv
<1>4. ASSUME NEW p \in Procs, NEW c \in Procs, ForkLink(p, c) PROVE IInv'
  BY <1>4, ForkLinkInv
<1>5. ASSUME NEW p \in Procs, NEW c \in Procs, NEW g \in Groups, SetPgid(p, c, g) PROVE IInv'
  BY <1>5, SetPgidInv
<1>6. CASE RootEnd
  BY <1>6, RootEndInv
<1>7. CASE UNCHANGED vars
  <2>1. /\ list' = list /\ zombies' = zombies /\ at' = at /\ ppid' = ppid /\ pgid' = pgid
        /\ pc' = pc /\ args' = args /\ owed' = owed /\ sigchld' = sigchld /\ cause' = cause
        /\ result' = result /\ fatal' = fatal /\ stopped' = stopped
        /\ groups' = groups /\ stops' = stops
    BY <1>7 DEF vars, treeVars, waitVars, sigVars
  <2>2. TypeOK'
    BY <2>1 DEF IInv, TypeOK
  <2>3. Exact' /\ Ordered' /\ Told'
    BY <2>1, WaitFrame
  <2>4. \A w \in Callers : Waiting(w)'
    BY <2>1, OthersKept
  <2>5. StatusFaithful'
    BY <2>1 DEF IInv, StatusFaithful
  <2>6. QED
    BY <2>2, <2>3, <2>4, <2>5 DEF IInv
<1>8. QED
  BY <1>1, <1>2, <1>3, <1>4, <1>5, <1>6, <1>7 DEF Next

\* The inductive invariant holds in every reachable state.
THEOREM Invariance == Spec => []IInv
<1>1. QED
  BY InitInv, NextInv, PTL DEF Spec

\* Every variable keeps its type.
THEOREM TypeCorrect == Spec => []TypeOK
<1>1. IInv => TypeOK
  BY DEF IInv
<1>2. QED
  BY <1>1, Invariance, PTL

\* The process list and the zombie list are exact, children right of their parents.
THEOREM ListsAreExact == Spec => []ListsExact
<1>1. QED
  BY InvListsExact, Invariance, PTL

\* A status that wait returns decodes to how the child ended.
THEOREM StatusIsFaithful == Spec => []StatusFaithful
<1>1. IInv => StatusFaithful
  BY DEF IInv
<1>2. QED
  BY <1>1, Invariance, PTL

-----------------------------------------------------------------------------
\* What a wait call may be told, for a step of the caller itself.
LEMMA OwnAnswer ==
    ASSUME IInv, NEW w \in Callers, WaitRead(w) \/ WaitSearch(w), pc'[w] = "idle"
    PROVE  /\ result'.ret = "ECHILD" => owed[w] = {}
           /\ result'.ret = "zero" => owed[w] \cap sigchld[w[1]] = {}
<1>0. /\ pc \in [Callers -> {"idle", "read1", "read2", "read3", "search", "sleep"}]
      /\ owed[w] \subseteq Procs /\ w[1] \in Procs /\ Exact /\ Waiting(w) /\ Told
  BY CallersAssumption DEF IInv, TypeOK
<1>1. ASSUME WaitRead(w)
      PROVE  result'.ret = "ECHILD" /\ owed[w] = {}
  <2>1. pc[w] = "read3" /\ zombies = <<>> /\ Return(w, "ECHILD", Root, 0)
    <3>1. PICK i \in 1..3 :
          /\ pc[w] = <<"read1", "read2", "read3">>[i]
          /\ \/ pc' = [pc EXCEPT ![w] = "search"]
             \/ i < 3 /\ pc' = [pc EXCEPT ![w] = <<"read2", "read3">>[i]]
             \/ i = 3 /\ IsNull(Reads[i], w[1]) /\ Return(w, "ECHILD", Root, 0)
      BY <1>1 DEF WaitRead
    <3>2. i < 3 => <<"read2", "read3">>[i] # "idle"
      OBVIOUS
    <3>3. i = 3 /\ IsNull(Reads[i], w[1]) /\ Return(w, "ECHILD", Root, 0)
      BY <1>0, <3>1, <3>2
    <3>4. Reads[3] = "zombies"
      BY DEF Reads
    <3>5. QED
      BY <3>1, <3>3, <3>4 DEF IsNull
  <2>2. ToSet(zombies) = {}
    BY <2>1 DEF ToSet
  <2>3. owed[w] = {}
    BY <1>0, <2>1, <2>2 DEF Waiting, Exact
  <2>4. result' = [ret |-> "ECHILD", pid |-> Root, status |-> 0]
    BY <2>1 DEF Return
  <2>5. QED
    BY <2>3, <2>4
<1>2. ASSUME WaitSearch(w), result'.ret \in {"ECHILD", "zero"}
      PROVE  /\ pc[w] = "search" /\ ListUnlocked
             /\ \A q \in ToSet(zombies) : ~Matches(args[w], w[1], q)
             /\ result'.ret = "ECHILD" =>
                   ~ \E q \in ToSet(list) \ {w[1]} : Matches(args[w], w[1], q)
  <2>1. pc[w] = "search" /\ ListUnlocked
    BY <1>2 DEF WaitSearch
  <2>2. ASSUME NEW i \in 1..Len(zombies), NEW s, Return(w, "pid", zombies[i], s)
        PROVE  FALSE
    BY <1>2, <2>2 DEF Return
  <2>3. ASSUME NEW q, NEW s, Return(w, "stopped", q, s)
        PROVE  FALSE
    BY <1>2, <2>3 DEF Return
  <2>4. ASSUME Return(w, "zero", Root, 0)
        PROVE  result'.ret # "ECHILD"
    BY <2>4 DEF Return
  <2>5. ASSUME NoReturn
        PROVE  FALSE
    BY <1>2, <2>5 DEF NoReturn, NoResult
  <2>6. QED
    BY <1>2, <2>1, <2>2, <2>3, <2>4, <2>5 DEF WaitSearch
<1>3. ASSUME WaitSearch(w), result'.ret \in {"ECHILD", "zero"}, NEW q \in owed[w]
      PROVE  /\ at[q] \notin {"notified", "listed", "zombie", "reaped"}
             /\ result'.ret # "ECHILD"
  <2>1. /\ Matches(args[w], w[1], q) /\ ppid[q] = w[1] /\ q # Root
        /\ at[q] \notin {"none", "reaped"} /\ q \in Procs
    BY <1>0 DEF Waiting
  <2>2. q \notin ToSet(zombies)
    BY <1>2, <1>3, <2>1
  <2>3. at[q] \notin {"notified", "listed", "zombie", "reaped"}
    BY <1>2, <1>3, <2>1, <2>2 DEF Exact, IInv, ListUnlocked
  <2>4. q \in ToSet(list) \ {Root}
    BY <2>1, <2>3 DEF Exact, IInv
  <2>5. q # w[1]
    BY <2>1, <2>4, ParentFirst DEF IInv
  <2>6. QED
    BY <1>2, <1>3, <2>1, <2>3, <2>4, <2>5
<1>4. QED
  <2>1. CASE WaitRead(w)
    BY <1>1, <2>1
  <2>2. CASE WaitSearch(w)
    <3>1. result'.ret = "ECHILD" => owed[w] = {}
      BY <1>3, <2>2
    <3>2. result'.ret = "zero" => owed[w] \cap sigchld[w[1]] = {}
      BY <1>0, <1>3, <2>2 DEF Told
    <3>3. QED
      BY <3>1, <3>2
  <2>3. QED
    BY <2>1, <2>2

\* ECHILD and 0 are only ever returned where they are true, whatever moves between
\* the two lists while the caller reads them.
THEOREM WaitAnswersAreTrue == Spec => WaitAnswersTrue
<1> DEFINE A == \A w \in Callers :
                   pc[w] # "idle" /\ pc'[w] = "idle" =>
                      /\ result'.ret = "ECHILD" => owed[w] = {}
                      /\ result'.ret = "zero" => owed[w] \cap sigchld[w[1]] = {}
<1>1. ASSUME IInv, [Next]_vars PROVE A \/ UNCHANGED vars
  <2> SUFFICES ASSUME Next, NEW w \in Callers, pc[w] # "idle", pc'[w] = "idle"
               PROVE  /\ result'.ret = "ECHILD" => owed[w] = {}
                      /\ result'.ret = "zero" => owed[w] \cap sigchld[w[1]] = {}
    BY <1>1
  <2>1. CASE NoReturn
    <3>1. result'.ret = "none"
      BY <2>1 DEF NoReturn, NoResult
    <3>2. QED
      BY <3>1
  <2>2. ASSUME NEW v \in Callers, WaitRead(v) \/ WaitSearch(v), ~NoReturn
        PROVE  v = w
    <3>1. pc \in [Callers -> {"idle", "read1", "read2", "read3", "search", "sleep"}]
      BY <1>1 DEF IInv, TypeOK
    <3>2. pc' = [pc EXCEPT ![v] = "idle"]
      BY <2>2 DEF WaitRead, WaitSearch, Return
    <3>3. QED
      BY <3>1, <3>2
  <2>3. NoReturn \/ \E v \in Callers : WaitRead(v) \/ WaitSearch(v)
    BY DEF Next, WaitStep, ExitStep, WaitCall, WaitPoll, ForkLink, ForkStart, ForkFail,
           Stop, Cont, SetPgid, Exit, SendSighup, SendSigchld, PushZombie, Unlink, RootEnd
  <2>4. QED
    BY <1>1, <2>1, <2>2, <2>3, OwnAnswer
<1>2. IInv /\ [Next]_vars => [A]_vars
  BY <1>1
<1>3. Spec => [][A]_vars
  BY <1>2, Invariance, PTL DEF Spec
<1>4. QED
  BY <1>3 DEF WaitAnswersTrue

-----------------------------------------------------------------------------
(***************************************************************************)
(* Pseudo fork and exec                                                    *)
(***************************************************************************)
ForkPlaces == {"user", "map", "fix", "clone", "pid", "wait", "asleep", "drop", "abort",
               "dead"}
ChildPlaces == {"none", "start", "jump", "user", "wake", "image", "zombie", "gone"}
Borrowing == {"start", "jump", "user"}     \* a child that runs in its parent's memory

ForkTypes ==
    /\ f_main \in BOOLEAN /\ f_left \in {"not", "exit", "kill", "exec"}
    /\ f_mode \in {"none", "pseudo", "wait"} /\ f_word \in {0, 1} /\ f_wait \in BOOLEAN
    /\ f_pc \in ForkPlaces /\ f_cur \in Children \cup {"none"}
    /\ f_cpc \in [Children -> ChildPlaces]
    /\ f_args \in [Children -> [refs : Int, pid : BOOLEAN,
                                life : {"none", "live", "freed", "leaked"}]]
    /\ DOMAIN f_stack = Children
    /\ f_pseudo \subseteq Children /\ f_late \subseteq Children

\* The child of the call is new until the clone, and then it has been started.
Phases ==
    /\ f_pc = "user" => f_cur = "none"
    /\ f_cur = "none" => f_pc \in {"user", "dead"}
    /\ f_left # "not" => f_pc = "dead"
    /\ f_pc \in {"map", "fix", "clone", "abort"} => f_cpc[f_cur] = "none"
    /\ f_pc \in {"pid", "wait", "asleep", "drop"} => f_cpc[f_cur] # "none"
    /\ \A c \in f_late : f_cpc[c] # "none"
    /\ \A c \in Children : c \in f_pseudo <=> f_cpc[c] \in Borrowing \cup {"wake"}

\* The runtime counts at least the children that it will be told of, and none twice.
ThreadsCounted ==
    f_threads \in Cardinality({c \in Children : f_cpc[c] \in Borrowing})
                    ..Cardinality({c \in Children : f_cpc[c] # "none"})

\* The words of a stack before and after the frame pointers are moved.
Words0(f) == f \in [1..Depth -> (0..Depth) \cup {Far}]
StacksLinked ==
    /\ f_pc = "fix" => f_stack[f_cur].mapped /\ Words0(f_stack[f_cur].words)
    /\ f_pc = "clone" => f_stack[f_cur].mapped /\ F!LinkedWithin(f_stack[f_cur].words)
    /\ \A c \in Children : f_cpc[c] \in Borrowing /\ f_stack[c].mapped =>
                                F!LinkedWithin(f_stack[c].words)

\* A word that is not set means that the child has not reported; one that is set, or a
\* call that is about to return, that it has, or that there is an excuse.
Excused(c) == <<"signal", c>> \in f_excused \/ <<"other", c>> \in f_excused
Waited == Borrowing \cup {"wake", "zombie"}
Reported ==
    /\ f_pc \in {"pid", "wait"} /\ f_word = 0 => f_cpc[f_cur] \in Waited
    /\ f_pc = "asleep" => f_cpc[f_cur] \in Waited
    /\ (\/ f_pc \in {"pid", "wait"} /\ f_word = 1
        \/ f_pc = "drop") /\ f_wait /\ f_cpc[f_cur] \in Borrowing => Excused(f_cur)

ForkInv ==
    /\ ForkTypes /\ Phases /\ ThreadsCounted /\ StacksLinked /\ Reported
    /\ F!ArgumentsExact /\ F!StackHolds /\ F!WaitsForChild

\* The two sets of children that the thread count lies between.
Forks0 == {c \in Children : f_cpc[c] \in Borrowing}
Forks1 == {c \in Children : f_cpc[c] # "none"}

\* Cardinality is the same operator inside the instance.
LEMMA ForkCardinality == ASSUME NEW S PROVE F!Cardinality(S) = Cardinality(S)
BY DEF F!Cardinality, Cardinality

\* The bounds of the thread count, by name, are finite numbers.
LEMMA ForksCounted ==
    /\ ThreadsCounted <=> f_threads \in Cardinality(Forks0)..Cardinality(Forks1)
    /\ IsFiniteSet(Forks0) /\ Cardinality(Forks0) \in Nat
    /\ IsFiniteSet(Forks1) /\ Cardinality(Forks1) \in Nat
    /\ Cardinality(Forks1) <= Cardinality(Children) /\ Cardinality(Children) \in Nat
<1>1. IsFiniteSet(Children) BY ForkAssumption
<1>2. Forks0 \subseteq Children /\ Forks1 \subseteq Children BY DEF Forks0, Forks1
<1>3. IsFiniteSet(Forks0) /\ IsFiniteSet(Forks1) BY <1>1, <1>2, FS_Subset
<1>4. Cardinality(Forks1) <= Cardinality(Children) BY <1>1, <1>2, FS_Subset
<1>5. Cardinality(Forks0) \in Nat /\ Cardinality(Forks1) \in Nat /\ Cardinality(Children) \in Nat
  BY <1>1, <1>3, FS_CardinalityType
<1> QED BY <1>3, <1>4, <1>5 DEF ThreadsCounted, Forks0, Forks1

\* The initial states.
LEMMA ForkInit == F!Init => ForkInv
<1> SUFFICES ASSUME F!Init PROVE ForkInv OBVIOUS
<1>a. Children \cap {"none", "parent"} = {} BY ForkAssumption
<1>1. ForkTypes
  <2>1. F!Bare \in [refs : Int, pid : BOOLEAN, life : {"none", "live", "freed", "leaked"}]
    BY DEF F!Bare
  <2>2. f_args = [c \in Children |-> F!Bare] BY DEF F!Init
  <2> HIDE DEF F!Bare
  <2> QED BY <2>1, <2>2 DEF F!Init, ForkTypes, ForkPlaces, ChildPlaces, F!NoChild
<1>2. Phases BY <1>a DEF F!Init, Phases, Borrowing, F!NoChild
<1>3. ThreadsCounted
  <2>1. {c \in Children : f_cpc[c] \in Borrowing} = {} BY DEF F!Init, Borrowing
  <2>2. {c \in Children : f_cpc[c] # "none"} = {} BY DEF F!Init
  <2>3. Cardinality({}) = 0 BY FS_EmptySet
  <2>4. f_threads = 0 BY DEF F!Init
  <2> QED BY <2>1, <2>2, <2>3, <2>4 DEF ThreadsCounted
<1>4. StacksLinked BY DEF F!Init, StacksLinked, Borrowing
<1>5. Reported BY DEF F!Init, Reported, Borrowing
<1>6. F!ArgumentsExact BY <1>a DEF F!Init, F!ArgumentsExact, F!Bare, F!NoChild
<1>7. F!StackHolds BY DEF F!Init, F!StackHolds
<1>8. F!WaitsForChild BY DEF F!Init, F!WaitsForChild
<1> QED BY <1>1, <1>2, <1>3, <1>4, <1>5, <1>6, <1>7, <1>8 DEF ForkInv

\* What the properties of the fork ask follows.
LEMMA ForkInvExact == ForkInv => F!ForkExact
<1> SUFFICES ASSUME ForkInv PROVE F!ForkExact OBVIOUS
<1>1. F!TypeOK
  <2>1. f_threads \in 0..F!Cardinality(Children) BY ForksCounted, ForkCardinality DEF ForkInv
  <2> QED BY <2>1 DEF ForkInv, ForkTypes, F!TypeOK, F!NoChild
<1>2. F!FramesExact BY DEF ForkInv, StacksLinked, Borrowing, F!FramesExact
<1>3. F!NobodyForgotten BY DEF ForkInv, Reported, Waited, Borrowing, F!NobodyForgotten
<1> QED BY <1>1, <1>2, <1>3 DEF ForkInv, F!ForkExact

\* The walk links the child's stack within itself: what is reached from the base pointer
\* is what was walked and the frame the walk stopped at, whose pointer leaves both stacks.
LEMMA FixupLinks ==
    ASSUME NEW f, Words0(f), F!InParent(f[1])
    PROVE  F!LinkedWithin(F!Fixup(f))
<1> DEFINE S == {w \in 1..Depth : F!InParent(f[w])}
           W == F!Walked(f)
           T == W \cup {f[v] : v \in W}
           g == F!Fixup(f)
<1>0. Depth \in Nat \ {0} /\ Far \in Int /\ Far > 2 * Depth BY ForkAssumption
<1>1. S \subseteq 1..Depth OBVIOUS
<1>2. F!Followed(f, S) BY <1>0 DEF F!Followed, F!InParent
<1>3. \A w \in W : w \in 1..Depth /\ F!InParent(f[w]) BY <1>1, <1>2 DEF F!Walked
<1>4. 1 \in W BY <1>0 DEF F!Walked, F!Followed
<1>5. \A w \in W : F!InParent(f[f[w]]) => f[w] \in W
  <2> SUFFICES ASSUME NEW w \in W, F!InParent(f[f[w]]) PROVE f[w] \in W OBVIOUS
  <2>1. f[w] \in 1..Depth BY <1>3 DEF F!InParent
  <2>2. ASSUME NEW Q \in SUBSET (1..Depth), F!Followed(f, Q) PROVE f[w] \in Q
    <3>1. w \in Q BY <2>2 DEF F!Walked
    <3> QED BY <1>3, <2>2, <3>1 DEF F!Followed
  <2> QED BY <2>1, <2>2 DEF F!Walked
<1>6. \A w \in W : g[w] = f[w] + Depth BY <1>3 DEF F!Fixup
<1>7. \A w \in 1..Depth : w \notin W => g[w] = f[w] BY DEF F!Fixup
<1>8. T \subseteq 1..Depth BY <1>3 DEF F!InParent
<1>9. \A w \in T : w \notin W => ~F!InParent(f[w]) BY <1>5
<1>10. \A w \in 1..Depth : f[w] \in (0..Depth) \cup {Far} BY DEF Words0
<1> HIDE DEF g
<1>11. \A w \in W : F!ChildWord(g[w]) = f[w] /\ F!InChild(g[w]) /\ ~F!InParent(g[w])
  <2> SUFFICES ASSUME NEW w \in W
               PROVE  F!ChildWord(g[w]) = f[w] /\ F!InChild(g[w]) /\ ~F!InParent(g[w])
    OBVIOUS
  <2>1. f[w] \in 1..Depth BY <1>3 DEF F!InParent
  <2>2. g[w] = f[w] + Depth BY <1>6
  <2> QED BY <1>0, <2>1, <2>2 DEF F!ChildWord, F!InChild, F!InParent
<1>12. \A w \in T : w \notin W => ~F!InChild(g[w]) /\ ~F!InParent(g[w])
  <2> SUFFICES ASSUME NEW w \in T, w \notin W PROVE ~F!InChild(g[w]) /\ ~F!InParent(g[w])
    OBVIOUS
  <2>1. w \in 1..Depth BY <1>8
  <2>2. g[w] = f[w] /\ f[w] \in (0..Depth) \cup {Far} BY <1>7, <1>10, <2>1
  <2>3. ~F!InParent(f[w]) BY <1>9
  <2> QED BY <1>0, <2>2, <2>3 DEF F!ChildWord, F!InChild, F!InParent
<1>13. F!Chained(g, T)
  <2>1. \A w \in W : F!ChildWord(g[w]) \in T BY <1>11
  <2> HIDE DEF W, T
  <2>2. \A w \in T : F!InChild(g[w]) => F!ChildWord(g[w]) \in T BY <1>12, <2>1
  <2>3. 1 \in T BY <1>4 DEF T
  <2> QED BY <2>2, <2>3 DEF F!Chained
<1>14. \A w \in F!Reached(g) : w \in T BY <1>8, <1>13 DEF F!Reached
<1>15. F!InChild(g[1]) BY <1>4, <1>11
<1> HIDE DEF W, T
<1> QED BY <1>11, <1>12, <1>14, <1>15 DEF F!LinkedWithin, g

\* Dropping a reference leaves a record of the arguments' type.
LEMMA DroppedType ==
    ASSUME NEW a \in [refs : Int, pid : BOOLEAN, life : {"none", "live", "freed", "leaked"}]
    PROVE  F!Dropped(a) \in [refs : Int, pid : BOOLEAN, life : {"none", "live", "freed", "leaked"}]
<1>1. a.refs \in Int /\ a.refs - 1 \in Int /\ a.life \in {"none", "live", "freed", "leaked"}
  OBVIOUS
<1>2. CASE a.refs = 1 BY <1>1, <1>2 DEF F!Dropped
<1>3. CASE a.refs # 1 BY <1>1, <1>3 DEF F!Dropped
<1> QED BY <1>2, <1>3

\* The call takes a child that is new: nobody holds its arguments but the caller.
LEMMA Fork_Fork ==
    ASSUME ForkInv, NEW c \in Children, NEW v \in BOOLEAN, F!Fork(c, v)
    PROVE  ForkInv'
<1>a. Children \cap {"none", "parent"} = {} BY ForkAssumption
<1> USE DEF F!Fork
<1>1. ForkTypes' BY <1>a DEF ForkInv, ForkTypes, ForkPlaces, ChildPlaces, F!NoChild, Phases
<1>2. Phases' BY <1>a DEF ForkInv, Phases, ForkTypes, Borrowing, F!NoChild
<1>3. ThreadsCounted' BY <1>a DEF ForkInv, ThreadsCounted, ForkTypes, Borrowing
<1>4. StacksLinked' BY <1>a DEF ForkInv, StacksLinked, ForkTypes, Phases, Borrowing, F!NoStack, F!NoChild
<1>5. Reported' BY <1>a DEF ForkInv, Reported, Waited, ForkTypes, Phases, Borrowing, Excused, F!NoChild
<1>6. F!ArgumentsExact' BY <1>a DEF ForkInv, F!ArgumentsExact, ForkTypes, Phases, Borrowing, F!NoChild, F!Bare
<1>7. F!StackHolds' BY <1>a DEF ForkInv, F!StackHolds, F!InOrder, ForkTypes, StacksLinked, Phases, Borrowing, F!NoStack, F!NoChild, F!Parent, F!Alive
<1>8. F!WaitsForChild' BY <1>a DEF ForkInv, F!WaitsForChild, ForkTypes, Phases, Borrowing, Reported, Excused, F!NoChild
<1> QED BY <1>1, <1>2, <1>3, <1>4, <1>5, <1>6, <1>7, <1>8 DEF ForkInv

\* The stack is the parent's, word by word, before the pointers are moved.
LEMMA Fork_MapStack ==
    ASSUME ForkInv, NEW f \in Frames, F!MapStack(f)
    PROVE  ForkInv'
<1>a. Children \cap {"none", "parent"} = {} BY ForkAssumption
<1> USE DEF F!MapStack
<1>1. ForkTypes' BY <1>a DEF ForkInv, ForkTypes, ForkPlaces, ChildPlaces, F!NoChild, Phases
<1>2. Phases' BY <1>a DEF ForkInv, Phases, ForkTypes, Borrowing, F!NoChild
<1>3. ThreadsCounted' BY <1>a DEF ForkInv, ThreadsCounted, ForkTypes, Borrowing
<1>4. StacksLinked'
  <2>1. f_cur \in Children /\ f_cpc[f_cur] = "none" BY DEF ForkInv, ForkTypes, Phases
  <2>2. Words0(f) BY ForkAssumption DEF Words0
  <2>3. f_stack'[f_cur].words = f /\ f_stack'[f_cur].mapped BY <2>1 DEF ForkInv, ForkTypes
  <2>4. \A c \in Children : c # f_cur => f_stack'[c] = f_stack[c] BY DEF ForkInv, ForkTypes
  <2>5. f_pc' = "fix" /\ f_cur' = f_cur /\ f_cpc' = f_cpc OBVIOUS
  <2> QED BY <2>1, <2>2, <2>3, <2>4, <2>5 DEF ForkInv, StacksLinked, Borrowing
<1>5. Reported' BY <1>a DEF ForkInv, Reported, Waited, ForkTypes, Phases, Borrowing, Excused, F!NoChild
<1>6. F!ArgumentsExact' BY <1>a DEF ForkInv, F!ArgumentsExact, ForkTypes, Phases, Borrowing, F!NoChild, F!Bare
<1>7. F!StackHolds' BY <1>a DEF ForkInv, F!StackHolds, F!InOrder, ForkTypes, StacksLinked, Phases, Borrowing, F!NoStack, F!NoChild, F!Parent, F!Alive
<1>8. F!WaitsForChild' BY <1>a DEF ForkInv, F!WaitsForChild, ForkTypes, Phases, Borrowing, Reported, Excused, F!NoChild
<1> QED BY <1>1, <1>2, <1>3, <1>4, <1>5, <1>6, <1>7, <1>8 DEF ForkInv

\* A call that fails early leaks the arguments, and the child was never started.
LEMMA Fork_ForkFails ==
    ASSUME ForkInv, F!ForkFails
    PROVE  ForkInv'
<1>a. Children \cap {"none", "parent"} = {} BY ForkAssumption
<1> USE DEF F!ForkFails, F!Fail, F!Return
<1>1. ForkTypes' BY <1>a DEF ForkInv, ForkTypes, ForkPlaces, ChildPlaces, F!NoChild, Phases
<1>2. Phases' BY <1>a DEF ForkInv, Phases, ForkTypes, Borrowing, F!NoChild
<1>3. ThreadsCounted' BY <1>a DEF ForkInv, ThreadsCounted, ForkTypes, Borrowing
<1>4. StacksLinked' BY <1>a DEF ForkInv, StacksLinked, ForkTypes, Phases, Borrowing, F!NoStack, F!NoChild
<1>5. Reported' BY <1>a DEF ForkInv, Reported, Waited, ForkTypes, Phases, Borrowing, Excused, F!NoChild
<1>6. F!ArgumentsExact' BY <1>a DEF ForkInv, F!ArgumentsExact, ForkTypes, Phases, Borrowing, F!NoChild, F!Bare
<1>7. F!StackHolds' BY <1>a DEF ForkInv, F!StackHolds, F!InOrder, ForkTypes, StacksLinked, Phases, Borrowing, F!NoStack, F!NoChild, F!Parent, F!Alive
<1>8. F!WaitsForChild' BY <1>a DEF ForkInv, F!WaitsForChild, ForkTypes, Phases, Borrowing, Reported, Excused, F!NoChild
<1> QED BY <1>1, <1>2, <1>3, <1>4, <1>5, <1>6, <1>7, <1>8 DEF ForkInv

\* A walk that cannot begin aborts the process.
LEMMA Fork_FixFails ==
    ASSUME ForkInv, F!FixFails
    PROVE  ForkInv'
<1>a. Children \cap {"none", "parent"} = {} BY ForkAssumption
<1> USE DEF F!FixFails, F!Fail, F!childVars
<1>1. ForkTypes' BY <1>a DEF ForkInv, ForkTypes, ForkPlaces, ChildPlaces, F!NoChild, Phases
<1>2. Phases' BY <1>a DEF ForkInv, Phases, ForkTypes, Borrowing, F!NoChild
<1>3. ThreadsCounted' BY <1>a DEF ForkInv, ThreadsCounted, ForkTypes, Borrowing
<1>4. StacksLinked' BY <1>a DEF ForkInv, StacksLinked, ForkTypes, Phases, Borrowing, F!NoStack, F!NoChild
<1>5. Reported' BY <1>a DEF ForkInv, Reported, Waited, ForkTypes, Phases, Borrowing, Excused, F!NoChild
<1>6. F!ArgumentsExact' BY <1>a DEF ForkInv, F!ArgumentsExact, ForkTypes, Phases, Borrowing, F!NoChild, F!Bare
<1>7. F!StackHolds' BY <1>a DEF ForkInv, F!StackHolds, F!InOrder, ForkTypes, StacksLinked, Phases, Borrowing, F!NoStack, F!NoChild, F!Parent, F!Alive
<1>8. F!WaitsForChild' BY <1>a DEF ForkInv, F!WaitsForChild, ForkTypes, Phases, Borrowing, Reported, Excused, F!NoChild
<1> QED BY <1>1, <1>2, <1>3, <1>4, <1>5, <1>6, <1>7, <1>8 DEF ForkInv

\* The walk links the child's stack within itself (see the lemma on Fixup).
LEMMA Fork_FixStack ==
    ASSUME ForkInv, F!FixStack
    PROVE  ForkInv'
<1>a. Children \cap {"none", "parent"} = {} BY ForkAssumption
<1> USE DEF F!FixStack
<1>1. ForkTypes' BY <1>a DEF ForkInv, ForkTypes, ForkPlaces, ChildPlaces, F!NoChild, Phases
<1>2. Phases' BY <1>a DEF ForkInv, Phases, ForkTypes, Borrowing, F!NoChild
<1>3. ThreadsCounted' BY <1>a DEF ForkInv, ThreadsCounted, ForkTypes, Borrowing
<1>4. StacksLinked'
  <2>1. f_cur \in Children /\ Words0(f_stack[f_cur].words) /\ f_stack[f_cur].mapped
    BY DEF ForkInv, ForkTypes, Phases, StacksLinked
  <2>2. F!LinkedWithin(F!Fixup(f_stack[f_cur].words)) BY <2>1, FixupLinks
  <2>3. f_stack'[f_cur].words = F!Fixup(f_stack[f_cur].words) /\ f_stack'[f_cur].mapped
    BY <2>1 DEF ForkInv, ForkTypes
  <2>4. \A c \in Children : c # f_cur => f_stack'[c] = f_stack[c] BY DEF ForkInv, ForkTypes
  <2>5. f_cpc[f_cur] = "none" BY DEF ForkInv, Phases
  <2> HIDE DEF F!FixStack
  <2>6. f_pc' = "clone" /\ f_cur' = f_cur /\ f_cpc' = f_cpc BY DEF F!FixStack
  <2> QED BY <2>1, <2>2, <2>3, <2>4, <2>5, <2>6 DEF ForkInv, StacksLinked, Borrowing
<1>5. Reported' BY <1>a DEF ForkInv, Reported, Waited, ForkTypes, Phases, Borrowing, Excused, F!NoChild
<1>6. F!ArgumentsExact' BY <1>a DEF ForkInv, F!ArgumentsExact, ForkTypes, Phases, Borrowing, F!NoChild, F!Bare
<1>7. F!StackHolds' BY <1>a DEF ForkInv, F!StackHolds, F!InOrder, ForkTypes, StacksLinked, Phases, Borrowing, F!NoStack, F!NoChild, F!Parent, F!Alive
<1>8. F!WaitsForChild' BY <1>a DEF ForkInv, F!WaitsForChild, ForkTypes, Phases, Borrowing, Reported, Excused, F!NoChild
<1> QED BY <1>1, <1>2, <1>3, <1>4, <1>5, <1>6, <1>7, <1>8 DEF ForkInv

\* The child is on the runtime's count, and holds the second reference.
LEMMA Fork_Clone ==
    ASSUME ForkInv, F!Clone
    PROVE  ForkInv'
<1>a. Children \cap {"none", "parent"} = {} BY ForkAssumption
<1> USE DEF F!Clone, F!Launch
<1>1. ForkTypes' BY <1>a DEF ForkInv, ForkTypes, ForkPlaces, ChildPlaces, F!NoChild, Phases
<1>2. Phases' BY <1>a DEF ForkInv, Phases, ForkTypes, Borrowing, F!NoChild
<1>3. ThreadsCounted'
  <2>0. f_cur \in Children /\ f_cpc[f_cur] = "none"
    BY DEF ForkInv, ForkTypes, Phases
  <2>1. Forks1' = Forks1 \cup {f_cur} /\ f_cur \notin Forks1
    BY <2>0 DEF ForkInv, ForkTypes, Forks1
  <2>2. Forks0' = Forks0 \cup {f_cur} /\ f_cur \notin Forks0
    BY <2>0 DEF ForkInv, ForkTypes, Forks0, Borrowing
  <2>3. Cardinality(Forks0') = Cardinality(Forks0) + 1
    BY <2>2, ForksCounted, FS_AddElement
  <2>4. Cardinality(Forks1') = Cardinality(Forks1) + 1
    BY <2>1, ForksCounted, FS_AddElement
  <2>5. f_threads' = f_threads + 1 OBVIOUS
  <2> QED BY <2>3, <2>4, <2>5, ForksCounted DEF ForkInv, ThreadsCounted, Forks0, Forks1
<1>4. StacksLinked' BY <1>a DEF ForkInv, StacksLinked, ForkTypes, Phases, Borrowing, F!NoStack, F!NoChild
<1>5. Reported' BY <1>a DEF ForkInv, Reported, Waited, ForkTypes, Phases, Borrowing, Excused, F!NoChild
<1>6. F!ArgumentsExact' BY <1>a DEF ForkInv, F!ArgumentsExact, ForkTypes, Phases, Borrowing, F!NoChild, F!Bare
<1>7. F!StackHolds' BY <1>a DEF ForkInv, F!StackHolds, F!InOrder, ForkTypes, StacksLinked, Phases, Borrowing, F!NoStack, F!NoChild, F!Parent, F!Alive
<1>8. F!WaitsForChild' BY <1>a DEF ForkInv, F!WaitsForChild, ForkTypes, Phases, Borrowing, Reported, Excused, F!NoChild
<1> QED BY <1>1, <1>2, <1>3, <1>4, <1>5, <1>6, <1>7, <1>8 DEF ForkInv

\* A clone that is refused started nobody: stack and arguments go at once.
LEMMA Fork_CloneFails ==
    ASSUME ForkInv, NEW r \in BOOLEAN, F!CloneFails(r)
    PROVE  ForkInv'
<1>a. Children \cap {"none", "parent"} = {} BY ForkAssumption
<1> USE DEF F!CloneFails, F!Fail, F!Return
<1>1. ForkTypes' BY <1>a DEF ForkInv, ForkTypes, ForkPlaces, ChildPlaces, F!NoChild, Phases
<1>2. Phases' BY <1>a DEF ForkInv, Phases, ForkTypes, Borrowing, F!NoChild
<1>3. ThreadsCounted' BY <1>a DEF ForkInv, ThreadsCounted, ForkTypes, Borrowing
<1>4. StacksLinked' BY <1>a DEF ForkInv, StacksLinked, ForkTypes, Phases, Borrowing, F!NoStack, F!NoChild
<1>5. Reported' BY <1>a DEF ForkInv, Reported, Waited, ForkTypes, Phases, Borrowing, Excused, F!NoChild
<1>6. F!ArgumentsExact' BY <1>a DEF ForkInv, F!ArgumentsExact, ForkTypes, Phases, Borrowing, F!NoChild, F!Bare
<1>7. F!StackHolds' BY <1>a DEF ForkInv, F!StackHolds, F!InOrder, ForkTypes, StacksLinked, Phases, Borrowing, F!NoStack, F!NoChild, F!Parent, F!Alive
<1>8. F!WaitsForChild' BY <1>a DEF ForkInv, F!WaitsForChild, ForkTypes, Phases, Borrowing, Reported, Excused, F!NoChild
<1> QED BY <1>1, <1>2, <1>3, <1>4, <1>5, <1>6, <1>7, <1>8 DEF ForkInv

\* The parent sees the pid and goes to wait, or to drop its reference.
LEMMA Fork_SeePid ==
    ASSUME ForkInv, F!SeePid
    PROVE  ForkInv'
<1>a. Children \cap {"none", "parent"} = {} BY ForkAssumption
<1> USE DEF F!SeePid, F!childVars
<1>1. ForkTypes' BY <1>a DEF ForkInv, ForkTypes, ForkPlaces, ChildPlaces, F!NoChild, Phases
<1>2. Phases' BY <1>a DEF ForkInv, Phases, ForkTypes, Borrowing, F!NoChild
<1>3. ThreadsCounted' BY <1>a DEF ForkInv, ThreadsCounted, ForkTypes, Borrowing
<1>4. StacksLinked' BY <1>a DEF ForkInv, StacksLinked, ForkTypes, Phases, Borrowing, F!NoStack, F!NoChild
<1>5. Reported' BY <1>a DEF ForkInv, Reported, Waited, ForkTypes, Phases, Borrowing, Excused, F!NoChild
<1>6. F!ArgumentsExact' BY <1>a DEF ForkInv, F!ArgumentsExact, ForkTypes, Phases, Borrowing, F!NoChild, F!Bare
<1>7. F!StackHolds' BY <1>a DEF ForkInv, F!StackHolds, F!InOrder, ForkTypes, StacksLinked, Phases, Borrowing, F!NoStack, F!NoChild, F!Parent, F!Alive
<1>8. F!WaitsForChild' BY <1>a DEF ForkInv, F!WaitsForChild, ForkTypes, Phases, Borrowing, Reported, Excused, F!NoChild
<1> QED BY <1>1, <1>2, <1>3, <1>4, <1>5, <1>6, <1>7, <1>8 DEF ForkInv

\* The parent sleeps only where the word says that the child has not reported.
LEMMA Fork_WaitExec ==
    ASSUME ForkInv, F!WaitExec
    PROVE  ForkInv'
<1>a. Children \cap {"none", "parent"} = {} BY ForkAssumption
<1> USE DEF F!WaitExec, F!childVars
<1>1. ForkTypes' BY <1>a DEF ForkInv, ForkTypes, ForkPlaces, ChildPlaces, F!NoChild, Phases
<1>2. Phases' BY <1>a DEF ForkInv, Phases, ForkTypes, Borrowing, F!NoChild
<1>3. ThreadsCounted' BY <1>a DEF ForkInv, ThreadsCounted, ForkTypes, Borrowing
<1>4. StacksLinked' BY <1>a DEF ForkInv, StacksLinked, ForkTypes, Phases, Borrowing, F!NoStack, F!NoChild
<1>5. Reported' BY <1>a DEF ForkInv, Reported, Waited, ForkTypes, Phases, Borrowing, Excused, F!NoChild
<1>6. F!ArgumentsExact' BY <1>a DEF ForkInv, F!ArgumentsExact, ForkTypes, Phases, Borrowing, F!NoChild, F!Bare
<1>7. F!StackHolds' BY <1>a DEF ForkInv, F!StackHolds, F!InOrder, ForkTypes, StacksLinked, Phases, Borrowing, F!NoStack, F!NoChild, F!Parent, F!Alive
<1>8. F!WaitsForChild' BY <1>a DEF ForkInv, F!WaitsForChild, ForkTypes, Phases, Borrowing, Reported, Excused, F!NoChild
<1> QED BY <1>1, <1>2, <1>3, <1>4, <1>5, <1>6, <1>7, <1>8 DEF ForkInv

\* A signal ends the wait: the child is excused from having reported.
LEMMA Fork_WaitEintr ==
    ASSUME ForkInv, F!WaitEintr
    PROVE  ForkInv'
<1>a. Children \cap {"none", "parent"} = {} BY ForkAssumption
<1> USE DEF F!WaitEintr, F!childVars
<1>1. ForkTypes' BY <1>a DEF ForkInv, ForkTypes, ForkPlaces, ChildPlaces, F!NoChild, Phases
<1>2. Phases' BY <1>a DEF ForkInv, Phases, ForkTypes, Borrowing, F!NoChild
<1>3. ThreadsCounted' BY <1>a DEF ForkInv, ThreadsCounted, ForkTypes, Borrowing
<1>4. StacksLinked' BY <1>a DEF ForkInv, StacksLinked, ForkTypes, Phases, Borrowing, F!NoStack, F!NoChild
<1>5. Reported' BY <1>a DEF ForkInv, Reported, Waited, ForkTypes, Phases, Borrowing, Excused, F!NoChild
<1>6. F!ArgumentsExact' BY <1>a DEF ForkInv, F!ArgumentsExact, ForkTypes, Phases, Borrowing, F!NoChild, F!Bare
<1>7. F!StackHolds' BY <1>a DEF ForkInv, F!StackHolds, F!InOrder, ForkTypes, StacksLinked, Phases, Borrowing, F!NoStack, F!NoChild, F!Parent, F!Alive
<1>8. F!WaitsForChild' BY <1>a DEF ForkInv, F!WaitsForChild, ForkTypes, Phases, Borrowing, Reported, Excused, F!NoChild
<1> QED BY <1>1, <1>2, <1>3, <1>4, <1>5, <1>6, <1>7, <1>8 DEF ForkInv

\* The parent returns: from here on only the child may hold the arguments.
LEMMA Fork_ParentDrop ==
    ASSUME ForkInv, F!ParentDrop
    PROVE  ForkInv'
<1>a. Children \cap {"none", "parent"} = {} BY ForkAssumption
<1> USE DEF F!ParentDrop, F!Return, F!Dropped
<1>1. ForkTypes'
  <2> DEFINE A == [refs : Int, pid : BOOLEAN, life : {"none", "live", "freed", "leaked"}]
  <2>1. f_cur \in Children /\ f_args \in [Children -> A] BY DEF ForkInv, ForkTypes, Phases
  <2>2. F!Dropped(f_args[f_cur]) \in A BY <2>1, DroppedType
  <2>3. f_args' \in [Children -> A] BY <2>1, <2>2
  <2> QED BY <2>1, <2>3 DEF ForkInv, ForkTypes, ForkPlaces, ChildPlaces, Phases, F!NoChild
<1>2. Phases' BY <1>a DEF ForkInv, Phases, ForkTypes, Borrowing, F!NoChild
<1>3. ThreadsCounted' BY <1>a DEF ForkInv, ThreadsCounted, ForkTypes, Borrowing
<1>4. StacksLinked' BY <1>a DEF ForkInv, StacksLinked, ForkTypes, Phases, Borrowing, F!NoStack, F!NoChild
<1>5. Reported' BY <1>a DEF ForkInv, Reported, Waited, ForkTypes, Phases, Borrowing, Excused, F!NoChild
<1>6. F!ArgumentsExact' BY <1>a DEF ForkInv, F!ArgumentsExact, ForkTypes, Phases, Borrowing, F!NoChild, F!Bare
<1>7. F!StackHolds' BY <1>a DEF ForkInv, F!StackHolds, F!InOrder, ForkTypes, StacksLinked, Phases, Borrowing, F!NoStack, F!NoChild, F!Parent, F!Alive
<1>8. F!WaitsForChild' BY <1>a DEF ForkInv, F!WaitsForChild, ForkTypes, Phases, Borrowing, Reported, Excused, F!NoChild
<1> QED BY <1>1, <1>2, <1>3, <1>4, <1>5, <1>6, <1>7, <1>8 DEF ForkInv

\* A parent that exits in order has no child that borrows the stacks that go.
LEMMA Fork_ParentExit ==
    ASSUME ForkInv, NEW how \in {"exit", "kill"}, F!ParentExit(how)
    PROVE  ForkInv'
<1>a. Children \cap {"none", "parent"} = {} BY ForkAssumption
<1> USE DEF F!ParentExit, F!WaitsForForks
<1>1. ForkTypes' BY <1>a DEF ForkInv, ForkTypes, ForkPlaces, ChildPlaces, F!NoChild, Phases
<1>2. Phases' BY <1>a DEF ForkInv, Phases, ForkTypes, Borrowing, F!NoChild
<1>3. ThreadsCounted' BY <1>a DEF ForkInv, ThreadsCounted, ForkTypes, Borrowing
<1>4. StacksLinked' BY <1>a DEF ForkInv, StacksLinked, ForkTypes, Phases, Borrowing, F!NoStack, F!NoChild
<1>5. Reported' BY <1>a DEF ForkInv, Reported, Waited, ForkTypes, Phases, Borrowing, Excused, F!NoChild
<1>6. F!ArgumentsExact' BY <1>a DEF ForkInv, F!ArgumentsExact, ForkTypes, Phases, Borrowing, F!NoChild, F!Bare
<1>7. F!StackHolds' BY <1>a DEF ForkInv, F!StackHolds, F!InOrder, ForkTypes, StacksLinked, Phases, Borrowing, F!NoStack, F!NoChild, F!Parent, F!Alive
<1>8. F!WaitsForChild' BY <1>a DEF ForkInv, F!WaitsForChild, ForkTypes, Phases, Borrowing, Reported, Excused, F!NoChild
<1> QED BY <1>1, <1>2, <1>3, <1>4, <1>5, <1>6, <1>7, <1>8 DEF ForkInv

\* A parent's exec unmaps the stacks of living children.
LEMMA Fork_ParentExec ==
    ASSUME ForkInv, F!ParentExec
    PROVE  ForkInv'
<1>a. Children \cap {"none", "parent"} = {} BY ForkAssumption
<1> USE DEF F!ParentExec
<1>1. ForkTypes' BY <1>a DEF ForkInv, ForkTypes, ForkPlaces, ChildPlaces, F!NoChild, Phases
<1>2. Phases' BY <1>a DEF ForkInv, Phases, ForkTypes, Borrowing, F!NoChild
<1>3. ThreadsCounted' BY <1>a DEF ForkInv, ThreadsCounted, ForkTypes, Borrowing
<1>4. StacksLinked' BY <1>a DEF ForkInv, StacksLinked, ForkTypes, Phases, Borrowing, F!NoStack, F!NoChild
<1>5. Reported' BY <1>a DEF ForkInv, Reported, Waited, ForkTypes, Phases, Borrowing, Excused, F!NoChild
<1>6. F!ArgumentsExact' BY <1>a DEF ForkInv, F!ArgumentsExact, ForkTypes, Phases, Borrowing, F!NoChild, F!Bare
<1>7. F!StackHolds' BY <1>a DEF ForkInv, F!StackHolds, F!InOrder, ForkTypes, StacksLinked, Phases, Borrowing, F!NoStack, F!NoChild, F!Parent, F!Alive
<1>8. F!WaitsForChild' BY <1>a DEF ForkInv, F!WaitsForChild, ForkTypes, Phases, Borrowing, Reported, Excused, F!NoChild
<1> QED BY <1>1, <1>2, <1>3, <1>4, <1>5, <1>6, <1>7, <1>8 DEF ForkInv

\* The child publishes its pid and goes on to the jump.
LEMMA Fork_ChildStart ==
    ASSUME ForkInv, NEW c \in Children, F!ChildStart(c)
    PROVE  ForkInv'
<1>a. Children \cap {"none", "parent"} = {} BY ForkAssumption
<1> USE DEF F!ChildStart, F!parentVars
<1>1. ForkTypes' BY <1>a DEF ForkInv, ForkTypes, ForkPlaces, ChildPlaces, F!NoChild, Phases
<1>2. Phases' BY <1>a DEF ForkInv, Phases, ForkTypes, Borrowing, F!NoChild
<1>3. ThreadsCounted' BY <1>a DEF ForkInv, ThreadsCounted, ForkTypes, Borrowing
<1>4. StacksLinked' BY <1>a DEF ForkInv, StacksLinked, ForkTypes, Phases, Borrowing, F!NoStack, F!NoChild
<1>5. Reported' BY <1>a DEF ForkInv, Reported, Waited, ForkTypes, Phases, Borrowing, Excused, F!NoChild
<1>6. F!ArgumentsExact' BY <1>a DEF ForkInv, F!ArgumentsExact, ForkTypes, Phases, Borrowing, F!NoChild, F!Bare
<1>7. F!StackHolds' BY <1>a DEF ForkInv, F!StackHolds, F!InOrder, ForkTypes, StacksLinked, Phases, Borrowing, F!NoStack, F!NoChild, F!Parent, F!Alive
<1>8. F!WaitsForChild' BY <1>a DEF ForkInv, F!WaitsForChild, ForkTypes, Phases, Borrowing, Reported, Excused, F!NoChild
<1> QED BY <1>1, <1>2, <1>3, <1>4, <1>5, <1>6, <1>7, <1>8 DEF ForkInv

\* The child drops its reference as it jumps into the parent's code.
LEMMA Fork_ChildJump ==
    ASSUME ForkInv, NEW c \in Children, F!ChildJump(c)
    PROVE  ForkInv'
<1>a. Children \cap {"none", "parent"} = {} BY ForkAssumption
<1> USE DEF F!ChildJump, F!parentVars, F!Dropped
<1>1. ForkTypes'
  <2> DEFINE A == [refs : Int, pid : BOOLEAN, life : {"none", "live", "freed", "leaked"}]
  <2>1. c \in Children /\ f_args \in [Children -> A] BY DEF ForkInv, ForkTypes, Phases
  <2>2. F!Dropped(f_args[c]) \in A BY <2>1, DroppedType
  <2>3. f_args' \in [Children -> A] BY <2>1, <2>2
  <2> QED BY <2>1, <2>3 DEF ForkInv, ForkTypes, ForkPlaces, ChildPlaces, Phases, F!NoChild
<1>2. Phases' BY <1>a DEF ForkInv, Phases, ForkTypes, Borrowing, F!NoChild
<1>3. ThreadsCounted' BY <1>a DEF ForkInv, ThreadsCounted, ForkTypes, Borrowing
<1>4. StacksLinked' BY <1>a DEF ForkInv, StacksLinked, ForkTypes, Phases, Borrowing, F!NoStack, F!NoChild
<1>5. Reported' BY <1>a DEF ForkInv, Reported, Waited, ForkTypes, Phases, Borrowing, Excused, F!NoChild
<1>6. F!ArgumentsExact' BY <1>a DEF ForkInv, F!ArgumentsExact, ForkTypes, Phases, Borrowing, F!NoChild, F!Bare
<1>7. F!StackHolds' BY <1>a DEF ForkInv, F!StackHolds, F!InOrder, ForkTypes, StacksLinked, Phases, Borrowing, F!NoStack, F!NoChild, F!Parent, F!Alive
<1>8. F!WaitsForChild' BY <1>a DEF ForkInv, F!WaitsForChild, ForkTypes, Phases, Borrowing, Reported, Excused, F!NoChild
<1> QED BY <1>1, <1>2, <1>3, <1>4, <1>5, <1>6, <1>7, <1>8 DEF ForkInv

\* An exec that fails leaves the child where it was, in its parent's memory.
LEMMA Fork_ExecFails ==
    ASSUME ForkInv, NEW c \in Children, F!ExecFails(c)
    PROVE  ForkInv'
<1>a. Children \cap {"none", "parent"} = {} BY ForkAssumption
<1> USE DEF F!ExecFails, F!parentVars, F!childVars, F!Fail
<1>1. ForkTypes' BY <1>a DEF ForkInv, ForkTypes, ForkPlaces, ChildPlaces, F!NoChild, Phases
<1>2. Phases' BY <1>a DEF ForkInv, Phases, ForkTypes, Borrowing, F!NoChild
<1>3. ThreadsCounted' BY <1>a DEF ForkInv, ThreadsCounted, ForkTypes, Borrowing
<1>4. StacksLinked' BY <1>a DEF ForkInv, StacksLinked, ForkTypes, Phases, Borrowing, F!NoStack, F!NoChild
<1>5. Reported' BY <1>a DEF ForkInv, Reported, Waited, ForkTypes, Phases, Borrowing, Excused, F!NoChild
<1>6. F!ArgumentsExact' BY <1>a DEF ForkInv, F!ArgumentsExact, ForkTypes, Phases, Borrowing, F!NoChild, F!Bare
<1>7. F!StackHolds' BY <1>a DEF ForkInv, F!StackHolds, F!InOrder, ForkTypes, StacksLinked, Phases, Borrowing, F!NoStack, F!NoChild, F!Parent, F!Alive
<1>8. F!WaitsForChild' BY <1>a DEF ForkInv, F!WaitsForChild, ForkTypes, Phases, Borrowing, Reported, Excused, F!NoChild
<1> QED BY <1>1, <1>2, <1>3, <1>4, <1>5, <1>6, <1>7, <1>8 DEF ForkInv

\* The child leaves its parent's memory before it reports to the parent.
LEMMA Fork_ExecRelease ==
    ASSUME ForkInv, NEW c \in Children, F!ExecRelease(c)
    PROVE  ForkInv'
<1>a. Children \cap {"none", "parent"} = {} BY ForkAssumption
<1> USE DEF F!ExecRelease, F!parentVars
<1>1. ForkTypes' BY <1>a DEF ForkInv, ForkTypes, ForkPlaces, ChildPlaces, F!NoChild, Phases
<1>2. Phases' BY <1>a DEF ForkInv, Phases, ForkTypes, Borrowing, F!NoChild
<1>3. ThreadsCounted'
  <2>1. Forks1' = Forks1 BY DEF ForkInv, ForkTypes, Forks1
  <2>2. Forks0' = Forks0 \ {c} BY DEF ForkInv, ForkTypes, Forks0, Borrowing
  <2>3. c \in Forks0 BY DEF Forks0, Borrowing
  <2>4. Cardinality(Forks0') = Cardinality(Forks0) - 1
    BY <2>2, <2>3, ForksCounted, FS_RemoveElement
  <2> QED BY <2>1, <2>4, ForksCounted DEF ForkInv, ThreadsCounted, Forks0, Forks1
<1>4. StacksLinked' BY <1>a DEF ForkInv, StacksLinked, ForkTypes, Phases, Borrowing, F!NoStack, F!NoChild
<1>5. Reported' BY <1>a DEF ForkInv, Reported, Waited, ForkTypes, Phases, Borrowing, Excused, F!NoChild
<1>6. F!ArgumentsExact' BY <1>a DEF ForkInv, F!ArgumentsExact, ForkTypes, Phases, Borrowing, F!NoChild, F!Bare
<1>7. F!StackHolds' BY <1>a DEF ForkInv, F!StackHolds, F!InOrder, ForkTypes, StacksLinked, Phases, Borrowing, F!NoStack, F!NoChild, F!Parent, F!Alive
<1>8. F!WaitsForChild' BY <1>a DEF ForkInv, F!WaitsForChild, ForkTypes, Phases, Borrowing, Reported, Excused, F!NoChild
<1> QED BY <1>1, <1>2, <1>3, <1>4, <1>5, <1>6, <1>7, <1>8 DEF ForkInv

\* The report sets the word and wakes the parent; the child is no pseudo fork now.
LEMMA Fork_ExecEnter ==
    ASSUME ForkInv, NEW c \in Children, F!ExecEnter(c)
    PROVE  ForkInv'
<1>a. Children \cap {"none", "parent"} = {} BY ForkAssumption
<1> USE DEF F!ExecEnter, F!Wake, F!WokenFor
<1>1. ForkTypes' BY <1>a DEF ForkInv, ForkTypes, ForkPlaces, ChildPlaces, F!NoChild, Phases
<1>2. Phases' BY <1>a DEF ForkInv, Phases, ForkTypes, Borrowing, F!NoChild
<1>3. ThreadsCounted' BY <1>a DEF ForkInv, ThreadsCounted, ForkTypes, Borrowing
<1>4. StacksLinked' BY <1>a DEF ForkInv, StacksLinked, ForkTypes, Phases, Borrowing, F!NoStack, F!NoChild
<1>5. Reported' BY <1>a DEF ForkInv, Reported, Waited, ForkTypes, Phases, Borrowing, Excused, F!NoChild
<1>6. F!ArgumentsExact' BY <1>a DEF ForkInv, F!ArgumentsExact, ForkTypes, Phases, Borrowing, F!NoChild, F!Bare
<1>7. F!StackHolds' BY <1>a DEF ForkInv, F!StackHolds, F!InOrder, ForkTypes, StacksLinked, Phases, Borrowing, F!NoStack, F!NoChild, F!Parent, F!Alive
<1>8. F!WaitsForChild' BY <1>a DEF ForkInv, F!WaitsForChild, ForkTypes, Phases, Borrowing, Reported, Excused, F!NoChild
<1> QED BY <1>1, <1>2, <1>3, <1>4, <1>5, <1>6, <1>7, <1>8 DEF ForkInv

\* A child that exits leaves the runtime's count, or stays on it when killed.
LEMMA Fork_ChildExit ==
    ASSUME ForkInv, NEW c \in Children, NEW v \in BOOLEAN, F!ChildExit(c, v)
    PROVE  ForkInv'
<1>a. Children \cap {"none", "parent"} = {} BY ForkAssumption
<1> USE DEF F!ChildExit, F!parentVars
<1>1. ForkTypes' BY <1>a DEF ForkInv, ForkTypes, ForkPlaces, ChildPlaces, F!NoChild, Phases
<1>2. Phases' BY <1>a DEF ForkInv, Phases, ForkTypes, Borrowing, F!NoChild
<1>3. ThreadsCounted'
  <2>1. Forks1' = Forks1 BY DEF ForkInv, ForkTypes, Forks1
  <2>2. Forks0' = Forks0 \ {c} BY DEF ForkInv, ForkTypes, Forks0, Borrowing
  <2>3. CASE f_cpc[c] = "user"
    <3>1. c \in Forks0 BY <2>3 DEF Forks0, Borrowing
    <3>2. Cardinality(Forks0') = Cardinality(Forks0) - 1
      BY <2>2, <3>1, ForksCounted, FS_RemoveElement
    <3>3. f_threads' = f_threads \/ f_threads' = f_threads - 1 OBVIOUS
    <3>4. f_threads \in Cardinality(Forks0)..Cardinality(Forks1) BY ForksCounted DEF ForkInv
    <3>5. f_threads' \in Cardinality(Forks0')..Cardinality(Forks1')
      BY <2>1, <3>2, <3>3, <3>4, ForksCounted
    <3> QED BY <3>5 DEF ThreadsCounted, Forks0, Forks1
  <2>4. CASE f_cpc[c] = "image"
    <3>1. c \notin Forks0 /\ c \notin f_pseudo
      BY <2>4 DEF ForkInv, ForkTypes, Phases, Forks0, Borrowing
    <3>2. Forks0' = Forks0 BY <2>2, <3>1
    <3>3. f_threads' = f_threads BY <3>1
    <3> QED BY <2>1, <3>2, <3>3, ForksCounted DEF ForkInv, ThreadsCounted, Forks0, Forks1
  <2> QED BY <2>3, <2>4
<1>4. StacksLinked' BY <1>a DEF ForkInv, StacksLinked, ForkTypes, Phases, Borrowing, F!NoStack, F!NoChild
<1>5. Reported' BY <1>a DEF ForkInv, Reported, Waited, ForkTypes, Phases, Borrowing, Excused, F!NoChild
<1>6. F!ArgumentsExact' BY <1>a DEF ForkInv, F!ArgumentsExact, ForkTypes, Phases, Borrowing, F!NoChild, F!Bare
<1>7. F!StackHolds' BY <1>a DEF ForkInv, F!StackHolds, F!InOrder, ForkTypes, StacksLinked, Phases, Borrowing, F!NoStack, F!NoChild, F!Parent, F!Alive
<1>8. F!WaitsForChild' BY <1>a DEF ForkInv, F!WaitsForChild, ForkTypes, Phases, Borrowing, Reported, Excused, F!NoChild
<1> QED BY <1>1, <1>2, <1>3, <1>4, <1>5, <1>6, <1>7, <1>8 DEF ForkInv

\* The zombie sets the word and wakes the parent, which the exit owed it.
LEMMA Fork_ZombieWakes ==
    ASSUME ForkInv, NEW c \in Children, F!ZombieWakes(c)
    PROVE  ForkInv'
<1>a. Children \cap {"none", "parent"} = {} BY ForkAssumption
<1> USE DEF F!ZombieWakes, F!Wake, F!WokenFor
<1>1. ForkTypes' BY <1>a DEF ForkInv, ForkTypes, ForkPlaces, ChildPlaces, F!NoChild, Phases
<1>2. Phases' BY <1>a DEF ForkInv, Phases, ForkTypes, Borrowing, F!NoChild
<1>3. ThreadsCounted' BY <1>a DEF ForkInv, ThreadsCounted, ForkTypes, Borrowing
<1>4. StacksLinked' BY <1>a DEF ForkInv, StacksLinked, ForkTypes, Phases, Borrowing, F!NoStack, F!NoChild
<1>5. Reported' BY <1>a DEF ForkInv, Reported, Waited, ForkTypes, Phases, Borrowing, Excused, F!NoChild
<1>6. F!ArgumentsExact' BY <1>a DEF ForkInv, F!ArgumentsExact, ForkTypes, Phases, Borrowing, F!NoChild, F!Bare
<1>7. F!StackHolds' BY <1>a DEF ForkInv, F!StackHolds, F!InOrder, ForkTypes, StacksLinked, Phases, Borrowing, F!NoStack, F!NoChild, F!Parent, F!Alive
<1>8. F!WaitsForChild' BY <1>a DEF ForkInv, F!WaitsForChild, ForkTypes, Phases, Borrowing, Reported, Excused, F!NoChild
<1> QED BY <1>1, <1>2, <1>3, <1>4, <1>5, <1>6, <1>7, <1>8 DEF ForkInv
\* ForkInv is inductive: one lemma for each action.
LEMMA ForkNext == ASSUME ForkInv, F!Next PROVE ForkInv'
BY Fork_Fork, Fork_ChildExit, Fork_MapStack, Fork_ForkFails, Fork_FixStack, Fork_FixFails,
   Fork_Clone, Fork_CloneFails, Fork_SeePid, Fork_WaitExec, Fork_WaitEintr, Fork_ParentDrop,
   Fork_ParentExit, Fork_ParentExec, Fork_ChildStart, Fork_ChildJump, Fork_ExecFails,
   Fork_ExecRelease, Fork_ExecEnter, Fork_ZombieWakes
   DEF F!Next

-----------------------------------------------------------------------------
(***************************************************************************)
(* System calls                                                            *)
(***************************************************************************)
CallPhases == {"none", "user", "handler", "before", "run", "polling", "after", "panic", "jumped",
               "gone"}
Outside == {"none", "user", "jumped", "gone"}      \* of every call
Ended == {"none", "gone"}
Registers == {"target", "crt", "other"}
Frame == [k : Stacks, crt : Registers \cup {"none"}, from : {"user", "handler"},
          at : {"before", "after"}, mask : SUBSET {"usr"}]

SignalState == [pending : SUBSET {"usr", "kill"}, mask : SUBSET {"usr"},
                orig : SUBSET {"usr"}, lost : BOOLEAN]

CallTypes ==
    /\ d_ph \in [Threads -> CallPhases] /\ d_frames \in [Threads -> Seq(Frame)]
    /\ d_fs \in [Threads -> Registers] /\ d_own \in [Threads -> Registers]
    /\ d_crt \in [Threads -> {"none", "crt"}]
    /\ d_area \in BOOLEAN /\ d_handler \in BOOLEAN /\ d_left \in BOOLEAN
    /\ d_sig \in [Threads -> SignalState]
    /\ d_unmaps \in [Threads -> Nat] /\ d_odd \subseteq Threads

\* A thread is in a call or it is not; its outermost call comes from its own code, the
\* others from a handler, and each remembers the descriptor to go back to.
Nested(t) ==
    /\ d_frames[t] = <<>> <=> d_ph[t] \in Outside
    /\ \A i \in 1..Len(d_frames[t]) :
          /\ d_frames[t][i].from = "user" <=> i = Len(d_frames[t])
          /\ d_frames[t][i].from = "user" =>
                \/ d_frames[t][i].crt = d_own[t]
                \/ d_frames[t][i].crt = "none" /\ d_own[t] = "target"
          /\ d_frames[t][i].from = "handler" =>
                d_frames[t][i].crt = "crt" /\ d_crt[t] = "crt"
CallsNested == \A t \in Threads : Nested(t)

\* Descriptors of the C runtime are known to the kernel.
AreasKnown ==
    \A t \in Threads : /\ d_own[t] # "target" => d_crt[t] = "crt"
                       /\ d_crt[t] = "crt" => d_area
                       /\ d_ph[t] = "handler" => d_crt[t] = "crt"

\* A program whose C runtime is not set up has one thread and no handlers.
SoleThread ==
    \A t \in Threads : d_own[t] = "target" /\ d_ph[t] \notin Ended =>
        /\ \A u \in Threads \ {t} : d_ph[u] \in Ended
        /\ ~d_handler /\ d_ph[t] # "handler" /\ Len(d_frames[t]) <= 1

\* The mask of a thread that has not lost its own: the one it will go back to is empty,
\* and so is the one it has in its own code and in the calls made from there.
MaskOf(t) ==
    /\ d_ph[t] # "polling" => d_sig[t].orig = {}
    /\ d_ph[t] \in {"none", "user"} => d_sig[t].mask = {}
    /\ d_ph[t] \in {"before", "run", "after"} /\ Len(d_frames[t]) = 1 => d_sig[t].mask = {}
    /\ d_ph[t] = "polling" => d_frames[t][1].mask = {} /\ Len(d_frames[t]) = 1
MasksEmpty ==
    /\ \A t \in Threads \ d_odd : Len(d_frames[t]) <= 1
    /\ \A t \in Threads : ~d_sig[t].lost => MaskOf(t)

TimesOrdered ==
    /\ d_now \in Nat \ {0}
    /\ d_total \in [user : Int, system : Int]
    /\ d_times \in [Threads -> [start : Nat \ {0}, enter : Nat, leave : Nat]]
    /\ \A t \in Threads :
          /\ d_times[t].start <= d_times[t].enter /\ d_times[t].enter <= d_now
          /\ d_times[t].leave # 0 => d_times[t].start <= d_times[t].leave /\ d_times[t].leave <= d_now

\* The kernel stacks: each is held once.
Holds(t) == D!InUse(t) \cup ({d_exitK[t], d_execK[t]} \ {0})
StackTypes ==
    /\ d_free \in Seq(Stacks) /\ IsInjective(d_free) /\ d_made \in Nat
    /\ d_exitK \in [Threads -> Stacks \cup {0}] /\ d_execK \in [Threads -> Stacks \cup {0}]
Owned(t) ==
    /\ \A i, j \in 1..Len(d_frames[t]) : d_frames[t][i].k = d_frames[t][j].k => i = j
    /\ IsFiniteSet(D!InUse(t)) /\ Cardinality(D!InUse(t)) = Len(d_frames[t])
    /\ d_exitK[t] \notin D!InUse(t) /\ d_execK[t] \notin D!InUse(t)
    /\ d_exitK[t] # 0 => d_exitK[t] # d_execK[t] /\ d_ph[t] = "jumped"
StacksApart ==
    /\ \A t \in Threads : Holds(t) \cap ToSet(d_free) = {}
    /\ \A t, u \in Threads : t # u => Holds(t) \cap Holds(u) = {}
AllStacks == (UNION {Holds(t) : t \in Threads}) \cup ToSet(d_free)
StacksCounted ==
    /\ IsFiniteSet(AllStacks)
    /\ ~d_left => Cardinality(AllStacks) = d_made

StackInv ==
    /\ StackTypes /\ StacksApart /\ StacksCounted
    /\ \A t \in Threads : Owned(t)

DispInv ==
    /\ CallTypes /\ CallsNested /\ AreasKnown /\ SoleThread /\ MasksEmpty /\ D!FsExact
    /\ TimesOrdered /\ D!TimesExact /\ StackInv /\ D!DescriptorKept

\* Cardinality is the same operator inside the instance.
LEMMA DispCardinality == ASSUME NEW S PROVE D!Cardinality(S) = Cardinality(S)
BY DEF D!Cardinality, Cardinality

\* The calls of a thread as a stack.
LEMMA FramesPush ==
    ASSUME NEW S, NEW q \in Seq(S), NEW e \in S
    PROVE  /\ <<e>> \o q \in Seq(S) /\ <<e>> \o q # <<>>
           /\ Len(<<e>> \o q) = Len(q) + 1
           /\ (<<e>> \o q)[1] = e
           /\ \A i \in 1..Len(q) : (<<e>> \o q)[i + 1] = q[i]
<1>1. <<e>> \in Seq(S) /\ Len(<<e>>) = 1 /\ <<e>>[1] = e OBVIOUS
<1>2. Len(q) \in Nat BY LenProperties
<1>3. /\ <<e>> \o q \in Seq(S) /\ Len(<<e>> \o q) = Len(q) + 1
      /\ \A i \in 1..(Len(q) + 1) : (<<e>> \o q)[i] = IF i <= 1 THEN e ELSE q[i - 1]
  BY <1>1, <1>2, ConcatProperties
<1> DEFINE r == <<e>> \o q
<1> HIDE DEF r
<1>4. r \in Seq(S) /\ Len(r) = Len(q) + 1
      /\ \A i \in 1..(Len(q) + 1) : r[i] = IF i <= 1 THEN e ELSE q[i - 1]
  BY <1>3 DEF r
<1>5. r[1] = e BY <1>2, <1>4
<1>6. \A i \in 1..Len(q) : r[i + 1] = q[i] BY <1>2, <1>4
<1>7. r # <<>> BY <1>2, <1>4, EmptySeq
<1> QED BY <1>4, <1>5, <1>6, <1>7 DEF r

\* A call that ends uncovers the one below it.
LEMMA FramesPop ==
    ASSUME NEW S, NEW q \in Seq(S), q # <<>>
    PROVE  /\ Tail(q) \in Seq(S) /\ Len(Tail(q)) = Len(q) - 1 /\ Len(q) - 1 \in Nat
           /\ Tail(q) = <<>> <=> Len(q) = 1
           /\ \A i \in 1..(Len(q) - 1) : Tail(q)[i] = q[i + 1]
<1>1. Len(q) \in Nat /\ Len(q) # 0 BY LenProperties, EmptySeq
<1>2. Tail(q) \in Seq(S) /\ Len(Tail(q)) = Len(q) - 1
      /\ \A i \in 1..(Len(q) - 1) : Tail(q)[i] = q[i + 1]
  BY HeadTailProperties
<1>3. Tail(q) = <<>> <=> Len(Tail(q)) = 0 BY <1>2, EmptySeq
<1> QED BY <1>1, <1>2, <1>3

\* A change of the innermost call leaves the others.
LEMMA FramesSet ==
    ASSUME NEW S, NEW q \in Seq(S), q # <<>>, NEW e \in S
    PROVE  /\ [q EXCEPT ![1] = e] \in Seq(S) /\ Len([q EXCEPT ![1] = e]) = Len(q)
           /\ [q EXCEPT ![1] = e] # <<>>
           /\ [q EXCEPT ![1] = e][1] = e
           /\ \A i \in 2..Len(q) : [q EXCEPT ![1] = e][i] = q[i]
<1>1. Len(q) \in Nat /\ Len(q) # 0 BY LenProperties, EmptySeq
<1> DEFINE r == [q EXCEPT ![1] = e]
<1>2. r \in Seq(S) /\ Len(r) = Len(q) /\ \A i \in 1..Len(q) : r[i] = IF i = 1 THEN e ELSE q[i]
  BY <1>1, ExceptSeq
<1> HIDE DEF r
<1>3. r # <<>> BY <1>1, <1>2, EmptySeq
<1>4. r[1] = e /\ \A i \in 2..Len(q) : r[i] = q[i] BY <1>1, <1>2
<1> QED BY <1>2, <1>3, <1>4 DEF r

\* What the type invariant says of one thread's calls.
LEMMA FramesOf ==
    ASSUME CallTypes, NEW t \in Threads
    PROVE  /\ d_frames[t] \in Seq(Frame) /\ Len(d_frames[t]) \in Nat
           /\ \A i \in 1..Len(d_frames[t]) : d_frames[t][i] \in Frame
           /\ D!InUse(t) = {d_frames[t][i].k : i \in 1..Len(d_frames[t])}
           /\ D!InUse(t) \subseteq Stacks
           /\ d_frames[t] = <<>> <=> Len(d_frames[t]) = 0
           /\ d_frames[t] # <<>> => /\ D!Top(t) = d_frames[t][1] /\ D!Top(t) \in Frame
                                    /\ 1 \in 1..Len(d_frames[t])
                                    /\ Len(d_frames[t]) # 0
                                    /\ d_frames[t][1].at \in {"before", "after"}
                                    /\ d_frames[t][1].from \in {"user", "handler"}
                                    /\ d_frames[t][1].crt \in Registers \cup {"none"}
                                    /\ d_frames[t][1].mask \in SUBSET {"usr"}
                                    /\ d_frames[t][1].k \in Stacks
<1>1. d_frames[t] \in Seq(Frame) BY DEF CallTypes
<1> DEFINE q == d_frames[t]
<1>2. Len(q) \in Nat /\ DOMAIN q = 1..Len(q) /\ \A i \in 1..Len(q) : q[i] \in Frame
  BY <1>1, LenProperties, ElementOfSeq
<1>3. D!InUse(t) = {q[i].k : i \in 1..Len(q)} BY <1>2 DEF D!InUse
<1>4. q = <<>> <=> Len(q) = 0 BY <1>1, EmptySeq
<1>5. q # <<>> => Head(q) = q[1] BY <1>1, HeadTailProperties
<1>6. q # <<>> => D!Top(t) = q[1] BY <1>5 DEF D!Top
<1>7. q # <<>> => Len(q) # 0 /\ 1 \in 1..Len(q) BY <1>2, <1>4
<1>8. q # <<>> => D!Top(t) \in Frame BY <1>2, <1>6, <1>7
<1>9. D!InUse(t) \subseteq Stacks BY <1>2, <1>3 DEF Frame
<1>10. q # <<>> => /\ q[1].at \in {"before", "after"} /\ q[1].from \in {"user", "handler"}
                   /\ q[1].crt \in Registers \cup {"none"} /\ q[1].mask \in SUBSET {"usr"}
                   /\ q[1].k \in Stacks
  BY <1>2, <1>7 DEF Frame
<1> QED BY <1>1, <1>2, <1>3, <1>4, <1>6, <1>7, <1>8, <1>9, <1>10

-----------------------------------------------------------------------------
\* A step that changes the stacks of no call and no list.
LEMMA StacksKept ==
    ASSUME StackInv, CallTypes, CallTypes',
           UNCHANGED <<d_free, d_made, d_exitK, d_execK, d_left>>,
           \A u \in Threads : /\ Len(d_frames'[u]) = Len(d_frames[u])
                              /\ \A i \in 1..Len(d_frames[u]) : d_frames'[u][i].k = d_frames[u][i].k
                              /\ d_ph[u] = "jumped" => d_ph'[u] = "jumped"
    PROVE  StackInv'
<1>1. ASSUME NEW u \in Threads PROVE D!InUse(u)' = D!InUse(u)
  <2>1. D!InUse(u) = {d_frames[u][i].k : i \in 1..Len(d_frames[u])} BY FramesOf
  <2>2. d_frames'[u] \in Seq(Frame) BY DEF CallTypes
  <2>3. DOMAIN d_frames'[u] = 1..Len(d_frames'[u]) BY <2>2, LenProperties
  <2>4. D!InUse(u)' = {d_frames'[u][i].k : i \in 1..Len(d_frames[u])} BY <2>3 DEF D!InUse
  <2>5. \A i \in 1..Len(d_frames[u]) : d_frames'[u][i].k = d_frames[u][i].k OBVIOUS
  <2> QED BY <2>1, <2>4, <2>5
<1>2. \A u \in Threads : Holds(u)' = Holds(u) BY <1>1 DEF Holds
<1>3. StackTypes' BY DEF StackInv, StackTypes
<1>4. StacksApart' BY <1>2 DEF StackInv, StacksApart
<1>5. AllStacks' = AllStacks BY <1>2 DEF AllStacks
<1>6. StacksCounted' BY <1>5 DEF StackInv, StacksCounted
<1>7. ASSUME NEW u \in Threads PROVE Owned(u)'
  <2>1. Owned(u) BY DEF StackInv
  <2> QED BY <1>1, <2>1 DEF Owned
<1> QED BY <1>3, <1>4, <1>6, <1>7 DEF StackInv

\* A thread that keeps its calls and its stacks owns them as before.
LEMMA OwnedKept ==
    ASSUME NEW u \in Threads, Owned(u), d_frames'[u] = d_frames[u], d_exitK'[u] = d_exitK[u],
           d_execK'[u] = d_execK[u], d_ph'[u] = d_ph[u]
    PROVE  Owned(u)' /\ Holds(u)' = Holds(u)
<1>1. D!InUse(u)' = D!InUse(u) BY DEF D!InUse
<1> QED BY <1>1 DEF Owned, Holds

\* A step in which one thread's stacks go to it or to the list, and perhaps a new one
\* comes.
LEMMA StacksMoved ==
    ASSUME StackInv, StackTypes', NEW t \in Threads, Owned(t)',
           \A u \in Threads \ {t} :
              /\ d_frames'[u] = d_frames[u] /\ d_exitK'[u] = d_exitK[u]
              /\ d_execK'[u] = d_execK[u] /\ d_ph'[u] = d_ph[u],
           NEW N, N \cap AllStacks = {}, IsFiniteSet(N),
           Holds(t)' \cap ToSet(d_free)' = {},
           Holds(t)' \cup ToSet(d_free)' \subseteq Holds(t) \cup ToSet(d_free) \cup N,
           ~d_left' => /\ ~d_left /\ d_made' = d_made + Cardinality(N)
                       /\ Holds(t)' \cup ToSet(d_free)' = Holds(t) \cup ToSet(d_free) \cup N
    PROVE  StackInv'
<1>1. \A u \in Threads \ {t} : Owned(u)' /\ Holds(u)' = Holds(u) BY OwnedKept DEF StackInv
<1>2. \A u \in Threads : Holds(u) \subseteq AllStacks BY DEF AllStacks
<1>3. ToSet(d_free) \subseteq AllStacks BY Zenon DEF AllStacks
<1> DEFINE H == Holds(t) L == ToSet(d_free) H1 == Holds(t)' L1 == ToSet(d_free)'
<1>4. StacksApart'
  <2>1. ASSUME NEW u \in Threads \ {t}
        PROVE  Holds(u) \cap L1 = {} /\ Holds(u) \cap H1 = {}
    <3>1. Holds(u) \cap H = {} /\ Holds(u) \cap L = {} BY DEF StackInv, StacksApart
    <3>2. Holds(u) \cap N = {} BY <1>2
    <3> QED BY <3>1, <3>2
  <2>2. ASSUME NEW u \in Threads PROVE Holds(u)' \cap L1 = {}
    BY <1>1, <2>1
  <2>3. ASSUME NEW u \in Threads, NEW v \in Threads, u # v PROVE Holds(u)' \cap Holds(v)' = {}
    <3>1. CASE u = t BY <1>1, <2>1, <2>3, <3>1
    <3>2. CASE v = t BY <1>1, <2>1, <2>3, <3>2
    <3>3. CASE u # t /\ v # t
      <4>1. Holds(u)' = Holds(u) /\ Holds(v)' = Holds(v) BY <1>1, <3>3
      <4>2. Holds(u) \cap Holds(v) = {} BY <2>3 DEF StackInv, StacksApart
      <4> QED BY <4>1, <4>2
    <3> QED BY <3>1, <3>2, <3>3
  <2> QED BY <2>2, <2>3 DEF StacksApart
<1>5. StacksCounted'
  <2> DEFINE O == UNION {Holds(u) : u \in Threads \ {t}}
  <2>1. AllStacks = O \cup (H \cup L)
    <3>1. UNION {Holds(u) : u \in Threads} = O \cup H OBVIOUS
    <3> QED BY <3>1, Zenon DEF AllStacks
  <2>2. AllStacks' = O \cup (H1 \cup L1)
    <3>1. UNION {Holds(u)' : u \in Threads} = O \cup H1 BY <1>1
    <3> QED BY <3>1, Zenon DEF AllStacks
  <2>3. IsFiniteSet(AllStacks) BY DEF StackInv, StacksCounted
  <2>4. IsFiniteSet(AllStacks \cup N) BY <2>3, FS_Union
  <2>5. AllStacks' \subseteq AllStacks \cup N BY <2>1, <2>2
  <2>6. IsFiniteSet(AllStacks') BY <2>4, <2>5, FS_Subset
  <2>7. ASSUME ~d_left' PROVE Cardinality(AllStacks') = d_made'
    <3>1. AllStacks' = AllStacks \cup N BY <2>1, <2>2, <2>7
    <3>2. Cardinality(AllStacks \cup N) =
             Cardinality(AllStacks) + Cardinality(N) - Cardinality(AllStacks \cap N)
      BY <2>3, FS_Union
    <3>3. Cardinality(AllStacks \cap N) = 0 BY FS_EmptySet
    <3>4. Cardinality(AllStacks) = d_made BY <2>7 DEF StackInv, StacksCounted
    <3>5. Cardinality(N) \in Nat /\ d_made \in Nat
      BY FS_CardinalityType DEF StackInv, StackTypes
    <3> QED BY <2>7, <3>1, <3>2, <3>3, <3>4, <3>5
  <2> QED BY <2>6, <2>7 DEF StacksCounted
<1>6. \A u \in Threads : Owned(u)' BY <1>1
<1> QED BY <1>4, <1>5, <1>6 DEF StackInv

-----------------------------------------------------------------------------
\* The time that threads ran, in units.
RanOf(n) == UNION {{t} \X (1..n[t]) : t \in Threads}

\* Finitely many threads ran for finitely many units.
LEMMA RanFinite ==
    ASSUME NEW n, \A t \in Threads : n[t] \in Nat
    PROVE  IsFiniteSet(RanOf(n)) /\ Cardinality(RanOf(n)) \in Nat
<1> DEFINE T == {{t} \X (1..n[t]) : t \in Threads}
           h == [t \in Threads |-> {t} \X (1..n[t])]
<1>0. IsFiniteSet(Threads) BY DispatchAssumption
<1>1. h \in Surjection(Threads, T) BY DEF Surjection
<1>2. IsFiniteSet(T) BY <1>0, <1>1, FS_Surjection
<1>3. ASSUME NEW t \in Threads PROVE IsFiniteSet({t} \X (1..n[t]))
  <2>1. 1 \in Int /\ n[t] \in Int OBVIOUS
  <2>2. IsFiniteSet({t}) /\ IsFiniteSet(1..n[t]) BY <2>1, FS_Singleton, FS_Interval, Zenon
  <2> QED BY <2>2, FS_Product
<1>4. IsFiniteSet(UNION T) BY <1>2, <1>3, FS_UNION
<1> QED BY <1>4, FS_CardinalityType DEF RanOf

\* Another k units of one thread are k units more.
LEMMA RanAdd ==
    ASSUME NEW n, NEW m, \A t \in Threads : n[t] \in Nat,
           NEW u \in Threads, NEW k \in Nat, m[u] = n[u] + k,
           \A t \in Threads \ {u} : m[t] = n[t]
    PROVE  Cardinality(RanOf(m)) = Cardinality(RanOf(n)) + k
<1> DEFINE A == RanOf(n)
           I == (n[u] + 1)..(n[u] + k)
           B == {u} \X I
<1>0. n[u] \in Nat OBVIOUS
<1>1. IsFiniteSet(A) /\ Cardinality(A) \in Nat BY RanFinite
<1>2. IsFiniteSet(I) /\ Cardinality(I) = k
  <2>1. n[u] + 1 \in Int /\ n[u] + k \in Int BY <1>0
  <2>2. IsFiniteSet(I) /\ Cardinality(I) = IF n[u] + 1 > n[u] + k THEN 0
                                           ELSE (n[u] + k) - (n[u] + 1) + 1
    BY <2>1, FS_Interval
  <2> QED BY <1>0, <2>2
<1>3. A \cap B = {} BY <1>0 DEF RanOf
<1>4. RanOf(m) = A \cup B
  <2>1. 1..m[u] = (1..n[u]) \cup I BY <1>0
  <2>2. {u} \X (1..m[u]) = ({u} \X (1..n[u])) \cup B BY <2>1
  <2>3. \A t \in Threads \ {u} : {t} \X (1..m[t]) = {t} \X (1..n[t]) OBVIOUS
  <2> QED BY <2>2, <2>3 DEF RanOf
<1>5. IsFiniteSet({u}) /\ Cardinality({u}) = 1 BY FS_Singleton
<1> HIDE DEF I
<1>6. IsFiniteSet(B) /\ Cardinality(B) = 1 * k BY <1>2, <1>5, FS_Product
<1>7. Cardinality(A \cup B) = Cardinality(A) + Cardinality(B) - Cardinality(A \cap B)
  BY <1>1, <1>6, FS_Union
<1> HIDE DEF A, B
<1>8. Cardinality(A \cap B) = 0 BY <1>3, FS_EmptySet
<1> QED BY <1>1, <1>4, <1>6, <1>7, <1>8 DEF A

\* The time that a thread is accounted for is not negative.
LEMMA AccountedNat ==
    ASSUME TimesOrdered, NEW t \in Threads
    PROVE  D!Accounted(t) \in Nat
<1>1. /\ d_times[t].start \in Nat \ {0} /\ d_times[t].enter \in Nat /\ d_times[t].leave \in Nat
      /\ d_times[t].start <= d_times[t].enter
      /\ d_times[t].leave # 0 => d_times[t].start <= d_times[t].leave
  BY DEF TimesOrdered
<1>2. CASE d_ph[t] = "none" BY <1>2 DEF D!Accounted
<1>3. CASE d_ph[t] = "user" BY <1>1, <1>3 DEF D!Accounted
<1>4. CASE d_ph[t] \notin {"none", "user"} BY <1>1, <1>4 DEF D!Accounted
<1> QED BY <1>2, <1>3, <1>4

\* A step that accounts one thread's time, which may be none.
LEMMA TimesMoved ==
    ASSUME TimesOrdered, TimesOrdered', D!TimesExact, d_odd' = {} => d_odd = {},
           NEW t \in Threads, NEW k \in Nat,
           d_odd' = {} => /\ D!Accounted(t)' = D!Accounted(t) + k
                          /\ d_total'.user + d_total'.system = d_total.user + d_total.system + k
                          /\ \A u \in Threads \ {t} : D!Accounted(u)' = D!Accounted(u)
    PROVE  D!TimesExact'
<1> SUFFICES ASSUME d_odd' = {}
             PROVE  /\ \A u \in Threads : D!Accounted(u)' >= 0
                    /\ d_total'.user + d_total'.system = D!Cardinality(D!Ran)'
  BY DEF D!TimesExact
<1> DEFINE n == [u \in Threads |-> D!Accounted(u)]
           m == [u \in Threads |-> D!Accounted(u)']
<1>1. \A u \in Threads : n[u] \in Nat BY AccountedNat
<1>2. m[t] = n[t] + k /\ \A u \in Threads \ {t} : m[u] = n[u] OBVIOUS
<1>3. \A u \in Threads : m[u] \in Nat
  <2>1. m[t] \in Nat BY <1>1, <1>2
  <2> QED BY <1>1, <1>2, <2>1
<1>4. D!Ran = RanOf(n) /\ D!Ran' = RanOf(m) BY DEF D!Ran, RanOf
<1> HIDE DEF n, m
<1>5. Cardinality(RanOf(m)) = Cardinality(RanOf(n)) + k BY <1>1, <1>2, RanAdd
<1>6. d_total.user + d_total.system = Cardinality(RanOf(n))
  BY <1>4, DispCardinality DEF D!TimesExact
<1>7. D!Cardinality(D!Ran)' = Cardinality(RanOf(m)) BY <1>4, DispCardinality
<1>8. \A u \in Threads : D!Accounted(u)' >= 0 BY <1>3 DEF m
<1> QED BY <1>5, <1>6, <1>7, <1>8

\* The updates of a thread's signals keep their type.
LEMMA SignalSet ==
    ASSUME NEW s \in SignalState, NEW p \in SUBSET {"usr", "kill"}, NEW m \in SUBSET {"usr"},
           NEW o \in SUBSET {"usr"}, NEW l \in BOOLEAN
    PROVE  /\ s.pending \in SUBSET {"usr", "kill"} /\ s.mask \in SUBSET {"usr"}
           /\ s.orig \in SUBSET {"usr"} /\ s.lost \in BOOLEAN
           /\ [s EXCEPT !.pending = p] \in SignalState
           /\ [s EXCEPT !.mask = m] \in SignalState
           /\ [s EXCEPT !.mask = m, !.orig = o] \in SignalState
           /\ [s EXCEPT !.pending = p, !.mask = m] \in SignalState
           /\ [s EXCEPT !.lost = l] \in SignalState
           /\ [s EXCEPT !.mask = m, !.orig = o, !.lost = l] \in SignalState
BY DEF SignalState

\* The two facts of them that single fields need.
LEMMA SignalOrig == ASSUME NEW s \in SignalState PROVE s.orig \in SUBSET {"usr"}
BY DEF SignalState
LEMMA SignalMasked ==
    ASSUME NEW s \in SignalState, NEW m \in SUBSET {"usr"}
    PROVE  [s EXCEPT !.mask = m] \in SignalState
BY DEF SignalState

\* A step that accounts for no time keeps the sum.
LEMMA TimesKept ==
    ASSUME TimesOrdered, TimesOrdered', D!TimesExact, d_odd' = {} => d_odd = {},
           d_total' = d_total, \A u \in Threads : D!Accounted(u)' = D!Accounted(u)
    PROVE  D!TimesExact'
<1>1. 1 \in Threads BY DispatchAssumption
<1>2. D!Accounted(1) \in Nat BY <1>1, AccountedNat
<1>3. D!Accounted(1)' = D!Accounted(1) + 0 BY <1>1, <1>2
<1>4. d_total.user \in Int /\ d_total.system \in Int BY DEF TimesOrdered
<1>5. d_total'.user + d_total'.system = d_total.user + d_total.system + 0 BY <1>4
<1> QED BY <1>1, <1>3, <1>5, TimesMoved, Zenon

\* A step that leaves a thread's calls alone keeps them nested.
LEMMA NestedKept ==
    ASSUME NEW u \in Threads, Nested(u), d_frames'[u] = d_frames[u], d_own'[u] = d_own[u],
           d_crt'[u] = d_crt[u], d_ph'[u] \in Outside <=> d_ph[u] \in Outside
    PROVE  Nested(u)'
BY DEF Nested

\* The innermost call of a thread.
LEMMA TopFacts ==
    ASSUME DispInv, NEW t \in Threads, d_ph[t] \notin Outside
    PROVE  /\ D!Top(t) = d_frames[t][1] /\ d_frames[t] # <<>>
           /\ d_frames[t] \in Seq(Frame) /\ d_frames[t][1] \in Frame
           /\ 1 \in 1..Len(d_frames[t]) /\ Len(d_frames[t]) \in Nat /\ Len(d_frames[t]) # 0
           /\ d_frames[t][1].at \in {"before", "after"}
           /\ d_frames[t][1].from \in {"user", "handler"}
           /\ d_frames[t][1].crt \in Registers \cup {"none"}
           /\ d_frames[t][1].mask \in SUBSET {"usr"}
           /\ d_frames[t][1].k \in Stacks
           /\ d_frames[t][1].from = "user" <=> Len(d_frames[t]) = 1
           /\ d_frames[t][1].from = "user" =>
                 \/ d_frames[t][1].crt = d_own[t]
                 \/ d_frames[t][1].crt = "none" /\ d_own[t] = "target"
           /\ d_frames[t][1].from = "handler" => d_frames[t][1].crt = "crt" /\ d_crt[t] = "crt"
<1>1. Nested(t) /\ CallTypes BY DEF DispInv, CallsNested
<1>2. d_frames[t] # <<>> BY <1>1 DEF Nested
<1>3. 1 \in 1..Len(d_frames[t]) BY <1>1, <1>2, FramesOf
<1>4. /\ d_frames[t][1].from = "user" <=> 1 = Len(d_frames[t])
      /\ d_frames[t][1].from = "user" =>
            \/ d_frames[t][1].crt = d_own[t]
            \/ d_frames[t][1].crt = "none" /\ d_own[t] = "target"
      /\ d_frames[t][1].from = "handler" => d_frames[t][1].crt = "crt" /\ d_crt[t] = "crt"
  BY <1>1, <1>3 DEF Nested
<1> HIDE DEF Registers
<1>5. /\ D!Top(t) = d_frames[t][1] /\ d_frames[t] \in Seq(Frame) /\ d_frames[t][1] \in Frame
      /\ Len(d_frames[t]) \in Nat /\ Len(d_frames[t]) # 0
      /\ d_frames[t][1].at \in {"before", "after"}
      /\ d_frames[t][1].from \in {"user", "handler"}
      /\ d_frames[t][1].crt \in Registers \cup {"none"}
      /\ d_frames[t][1].mask \in SUBSET {"usr"}
      /\ d_frames[t][1].k \in Stacks
  BY <1>1, <1>2, FramesOf
<1> QED BY <1>2, <1>3, <1>4, <1>5

\* Time passes: nobody is accounted for it yet.
LEMMA Disp_Tick ==
    ASSUME DispInv, D!Tick
    PROVE  DispInv'
<1> USE DEF D!Tick
<1>0. 1 \in Threads BY DispatchAssumption
<1>1. CallTypes' BY DEF DispInv, CallTypes, CallPhases, Registers, Outside
<1>2. CallsNested'
  <2>1. ASSUME NEW u \in Threads PROVE Nested(u)'
    <3>1. Nested(u) BY DEF DispInv, CallsNested
    <3>2. d_frames[u] = <<>> <=> d_ph[u] \in Outside BY <3>1 DEF Nested
    <3> QED BY <3>1, <3>2, NestedKept DEF DispInv, CallTypes, Outside
  <2> QED BY <2>1 DEF CallsNested
<1>3. AreasKnown' BY DEF DispInv, CallTypes, AreasKnown
<1>4. SoleThread' BY DEF DispInv, CallTypes, AreasKnown, SoleThread, Ended
<1>5. MasksEmpty' BY DEF DispInv, CallTypes, MasksEmpty, MaskOf
<1>6. D!FsExact' BY DEF DispInv, CallTypes, D!FsExact, D!KernelPhases
<1>7. TimesOrdered' BY DEF DispInv, TimesOrdered
<1>8. D!TimesExact'
  <2>1. \A u \in Threads : D!Accounted(u)' = D!Accounted(u)
    BY DEF DispInv, CallTypes, D!Accounted
  <2> QED BY <1>7, <2>1, TimesKept DEF DispInv
<1>9. StackInv'
  <2>1. \A u \in Threads : d_ph[u] = "jumped" => d_ph'[u] = "jumped"
    BY DEF DispInv, CallTypes
  <2> QED BY <1>1, <2>1, StacksKept DEF DispInv
<1>10. D!DescriptorKept' BY DEF DispInv, CallTypes, D!DescriptorKept
<1> QED BY <1>1, <1>2, <1>3, <1>4, <1>5, <1>6, <1>7, <1>8, <1>9, <1>10 DEF DispInv

\* A signal from elsewhere touches what is pending and no mask.
LEMMA Disp_Signal ==
    ASSUME DispInv, NEW t \in Threads, NEW s \in {"usr", "kill"}, D!Signal(t, s)
    PROVE  DispInv'
<1> USE DEF D!Signal
<1>1. CallTypes'
  <2>1. d_sig[t] \in SignalState BY DEF DispInv, CallTypes
  <2>2. [d_sig[t] EXCEPT !.pending = @ \cup {s}] \in SignalState BY <2>1, SignalSet
  <2>3. d_sig' = [d_sig EXCEPT ![t] = [d_sig[t] EXCEPT !.pending = @ \cup {s}]] OBVIOUS
  <2>4. d_sig' \in [Threads -> SignalState] BY <2>2, <2>3 DEF DispInv, CallTypes
  <2> QED BY <2>4 DEF DispInv, CallTypes, CallPhases, Registers, Outside
<1>2. CallsNested'
  <2>1. ASSUME NEW u \in Threads PROVE Nested(u)'
    <3>1. Nested(u) BY DEF DispInv, CallsNested
    <3>2. d_frames[u] = <<>> <=> d_ph[u] \in Outside BY <3>1 DEF Nested
    <3> QED BY <3>1, <3>2, NestedKept DEF DispInv, CallTypes, Outside
  <2> QED BY <2>1 DEF CallsNested
<1>3. AreasKnown' BY DEF DispInv, CallTypes, AreasKnown
<1>4. SoleThread' BY DEF DispInv, CallTypes, AreasKnown, SoleThread, Ended
<1>5. MasksEmpty' BY DEF DispInv, CallTypes, MasksEmpty, MaskOf
<1>6. D!FsExact' BY DEF DispInv, CallTypes, D!FsExact, D!KernelPhases
<1>7. TimesOrdered' BY DEF DispInv, TimesOrdered
<1>8. D!TimesExact'
  <2>1. \A u \in Threads : D!Accounted(u)' = D!Accounted(u)
    BY DEF DispInv, CallTypes, D!Accounted
  <2> QED BY <1>7, <2>1, TimesKept DEF DispInv
<1>9. StackInv'
  <2>1. \A u \in Threads : d_ph[u] = "jumped" => d_ph'[u] = "jumped"
    BY DEF DispInv, CallTypes
  <2> QED BY <1>1, <2>1, StacksKept DEF DispInv
<1>10. D!DescriptorKept' BY DEF DispInv, CallTypes, D!DescriptorKept
<1> QED BY <1>1, <1>2, <1>3, <1>4, <1>5, <1>6, <1>7, <1>8, <1>9, <1>10 DEF DispInv

\* The call runs once no signal is left to handle.
LEMMA Disp_Proceed ==
    ASSUME DispInv, NEW t \in Threads, D!Proceed(t)
    PROVE  DispInv'
<1> USE DEF D!Proceed
<1>f. /\ D!Top(t) = d_frames[t][1] /\ 1 \in 1..Len(d_frames[t]) /\ Len(d_frames[t]) \in Nat
      /\ d_frames[t][1].at \in {"before", "after"} /\ d_frames[t][1].from \in {"user", "handler"}
      /\ d_frames[t][1].mask \in SUBSET {"usr"}
  BY TopFacts DEF Outside
<1>1. CallTypes' BY <1>f DEF DispInv, CallTypes, CallPhases, Registers, Outside
<1>2. CallsNested'
  <2>1. ASSUME NEW u \in Threads PROVE Nested(u)'
    <3>1. Nested(u) BY DEF DispInv, CallsNested
    <3>2. d_frames[u] = <<>> <=> d_ph[u] \in Outside BY <3>1 DEF Nested
    <3> QED BY <1>f, <3>1, <3>2, NestedKept DEF DispInv, CallTypes, Outside
  <2> QED BY <2>1 DEF CallsNested
<1>3. AreasKnown' BY <1>f DEF DispInv, CallTypes, AreasKnown
<1>4. SoleThread' BY <1>f DEF DispInv, CallTypes, AreasKnown, SoleThread, Ended
<1>5. MasksEmpty' BY <1>f DEF DispInv, CallTypes, MasksEmpty, MaskOf
<1>6. D!FsExact' BY <1>f DEF DispInv, CallTypes, D!FsExact, D!KernelPhases
<1>7. TimesOrdered' BY DEF DispInv, TimesOrdered
<1>8. D!TimesExact'
  <2>1. \A u \in Threads : D!Accounted(u)' = D!Accounted(u)
    BY <1>f DEF DispInv, CallTypes, D!Accounted
  <2> QED BY <1>7, <2>1, TimesKept DEF DispInv
<1>9. StackInv'
  <2>1. \A u \in Threads : d_ph[u] = "jumped" => d_ph'[u] = "jumped"
    BY DEF DispInv, CallTypes
  <2> QED BY <1>1, <2>1, StacksKept DEF DispInv
<1>10. D!DescriptorKept' BY <1>f DEF DispInv, CallTypes, D!DescriptorKept
<1> QED BY <1>1, <1>2, <1>3, <1>4, <1>5, <1>6, <1>7, <1>8, <1>9, <1>10 DEF DispInv

\* The handler's mask is undone, and the call goes on with the kernel's descriptor.
LEMMA Disp_HandlerReturns ==
    ASSUME DispInv, NEW t \in Threads, D!HandlerReturns(t)
    PROVE  DispInv'
<1> USE DEF D!HandlerReturns
<1>f. /\ D!Top(t) = d_frames[t][1] /\ 1 \in 1..Len(d_frames[t]) /\ Len(d_frames[t]) \in Nat
      /\ d_frames[t][1].at \in {"before", "after"} /\ d_frames[t][1].from \in {"user", "handler"}
      /\ d_frames[t][1].mask \in SUBSET {"usr"}
  BY TopFacts DEF Outside
<1>1. CallTypes'
  <2>1. d_sig[t] \in SignalState BY DEF DispInv, CallTypes
  <2>o. d_sig[t].orig \in SUBSET {"usr"} BY <2>1, SignalOrig
  <2>2. [d_sig[t] EXCEPT !.mask = d_sig[t].orig] \in SignalState BY <2>1, <2>o, SignalMasked
  <2>3. d_sig' = [d_sig EXCEPT ![t] = [d_sig[t] EXCEPT !.mask = d_sig[t].orig]] OBVIOUS
  <2>4. d_sig' \in [Threads -> SignalState] BY <2>2, <2>3 DEF DispInv, CallTypes
  <2> QED BY <1>f, <2>4 DEF DispInv, CallTypes, CallPhases, Registers, Outside
<1>2. CallsNested'
  <2>1. ASSUME NEW u \in Threads PROVE Nested(u)'
    <3>1. Nested(u) BY DEF DispInv, CallsNested
    <3>2. d_frames[u] = <<>> <=> d_ph[u] \in Outside BY <3>1 DEF Nested
    <3> QED BY <1>f, <3>1, <3>2, NestedKept DEF DispInv, CallTypes, Outside
  <2> QED BY <2>1 DEF CallsNested
<1>3. AreasKnown' BY <1>f DEF DispInv, CallTypes, AreasKnown
<1>4. SoleThread' BY <1>f DEF DispInv, CallTypes, AreasKnown, SoleThread, Ended
<1>5. MasksEmpty' BY <1>f DEF DispInv, CallTypes, MasksEmpty, MaskOf
<1>6. D!FsExact' BY <1>f DEF DispInv, CallTypes, D!FsExact, D!KernelPhases
<1>7. TimesOrdered' BY DEF DispInv, TimesOrdered
<1>8. D!TimesExact'
  <2>1. \A u \in Threads : D!Accounted(u)' = D!Accounted(u)
    BY <1>f DEF DispInv, CallTypes, D!Accounted
  <2> QED BY <1>7, <2>1, TimesKept DEF DispInv
<1>9. StackInv'
  <2>1. \A u \in Threads : d_ph[u] = "jumped" => d_ph'[u] = "jumped"
    BY DEF DispInv, CallTypes
  <2> QED BY <1>1, <2>1, StacksKept DEF DispInv
<1>10. D!DescriptorKept' BY <1>f DEF DispInv, CallTypes, D!DescriptorKept
<1> QED BY <1>1, <1>2, <1>3, <1>4, <1>5, <1>6, <1>7, <1>8, <1>9, <1>10 DEF DispInv

\* A call whose handler is another module's.
LEMMA Disp_Plain ==
    ASSUME DispInv, NEW t \in Threads, D!Plain(t)
    PROVE  DispInv'
<1> USE DEF D!Plain, D!After
<1>f. /\ D!Top(t) = d_frames[t][1] /\ 1 \in 1..Len(d_frames[t]) /\ Len(d_frames[t]) \in Nat
      /\ d_frames[t][1].at \in {"before", "after"} /\ d_frames[t][1].from \in {"user", "handler"}
      /\ d_frames[t][1].mask \in SUBSET {"usr"}
  BY TopFacts DEF Outside
<1>1. CallTypes' BY <1>f DEF DispInv, CallTypes, CallPhases, Registers, Outside
<1>2. CallsNested'
  <2>1. ASSUME NEW u \in Threads PROVE Nested(u)'
    <3>1. Nested(u) BY DEF DispInv, CallsNested
    <3>2. d_frames[u] = <<>> <=> d_ph[u] \in Outside BY <3>1 DEF Nested
    <3> QED BY <1>f, <3>1, <3>2, NestedKept DEF DispInv, CallTypes, Outside
  <2> QED BY <2>1 DEF CallsNested
<1>3. AreasKnown' BY <1>f DEF DispInv, CallTypes, AreasKnown
<1>4. SoleThread' BY <1>f DEF DispInv, CallTypes, AreasKnown, SoleThread, Ended
<1>5. MasksEmpty' BY <1>f DEF DispInv, CallTypes, MasksEmpty, MaskOf
<1>6. D!FsExact' BY <1>f DEF DispInv, CallTypes, D!FsExact, D!KernelPhases
<1>7. TimesOrdered' BY DEF DispInv, TimesOrdered
<1>8. D!TimesExact'
  <2>1. \A u \in Threads : D!Accounted(u)' = D!Accounted(u)
    BY <1>f DEF DispInv, CallTypes, D!Accounted
  <2> QED BY <1>7, <2>1, TimesKept DEF DispInv
<1>9. StackInv'
  <2>1. \A u \in Threads : d_ph[u] = "jumped" => d_ph'[u] = "jumped"
    BY DEF DispInv, CallTypes
  <2> QED BY <1>1, <2>1, StacksKept DEF DispInv
<1>10. D!DescriptorKept' BY <1>f DEF DispInv, CallTypes, D!DescriptorKept
<1> QED BY <1>1, <1>2, <1>3, <1>4, <1>5, <1>6, <1>7, <1>8, <1>9, <1>10 DEF DispInv

\* A send to a closed socket makes the signal that ends the thread pending.
LEMMA Disp_SendFails ==
    ASSUME DispInv, NEW t \in Threads, D!SendFails(t)
    PROVE  DispInv'
<1> USE DEF D!SendFails, D!After
<1>f. /\ D!Top(t) = d_frames[t][1] /\ 1 \in 1..Len(d_frames[t]) /\ Len(d_frames[t]) \in Nat
      /\ d_frames[t][1].at \in {"before", "after"} /\ d_frames[t][1].from \in {"user", "handler"}
      /\ d_frames[t][1].mask \in SUBSET {"usr"}
  BY TopFacts DEF Outside
<1>1. CallTypes'
  <2>1. d_sig[t] \in SignalState BY DEF DispInv, CallTypes
  <2>2. [d_sig[t] EXCEPT !.pending = @ \cup {"kill"}] \in SignalState BY <2>1 DEF SignalState
  <2>3. d_sig' = [d_sig EXCEPT ![t] = [d_sig[t] EXCEPT !.pending = @ \cup {"kill"}]] BY <1>f
  <2>4. d_sig' \in [Threads -> SignalState] BY <2>2, <2>3 DEF DispInv, CallTypes
  <2> QED BY <1>f, <2>4 DEF DispInv, CallTypes, CallPhases, Registers, Outside
<1>2. CallsNested'
  <2>1. ASSUME NEW u \in Threads PROVE Nested(u)'
    <3>1. Nested(u) BY DEF DispInv, CallsNested
    <3>2. d_frames[u] = <<>> <=> d_ph[u] \in Outside BY <3>1 DEF Nested
    <3> QED BY <1>f, <3>1, <3>2, NestedKept DEF DispInv, CallTypes, Outside
  <2> QED BY <2>1 DEF CallsNested
<1>3. AreasKnown' BY <1>f DEF DispInv, CallTypes, AreasKnown
<1>4. SoleThread' BY <1>f DEF DispInv, CallTypes, AreasKnown, SoleThread, Ended
<1>5. MasksEmpty' BY <1>f DEF DispInv, CallTypes, MasksEmpty, MaskOf
<1>6. D!FsExact' BY <1>f DEF DispInv, CallTypes, D!FsExact, D!KernelPhases
<1>7. TimesOrdered' BY DEF DispInv, TimesOrdered
<1>8. D!TimesExact'
  <2>1. \A u \in Threads : D!Accounted(u)' = D!Accounted(u)
    BY <1>f DEF DispInv, CallTypes, D!Accounted
  <2> QED BY <1>7, <2>1, TimesKept DEF DispInv
<1>9. StackInv'
  <2>1. \A u \in Threads : d_ph[u] = "jumped" => d_ph'[u] = "jumped"
    BY DEF DispInv, CallTypes
  <2> QED BY <1>1, <2>1, StacksKept DEF DispInv
<1>10. D!DescriptorKept' BY <1>f DEF DispInv, CallTypes, D!DescriptorKept
<1> QED BY <1>1, <1>2, <1>3, <1>4, <1>5, <1>6, <1>7, <1>8, <1>9, <1>10 DEF DispInv

\* A number that no table holds.
LEMMA Disp_NotHandled ==
    ASSUME DispInv, NEW t \in Threads, D!NotHandled(t)
    PROVE  DispInv'
<1> USE DEF D!NotHandled
<1>f. /\ D!Top(t) = d_frames[t][1] /\ 1 \in 1..Len(d_frames[t]) /\ Len(d_frames[t]) \in Nat
      /\ d_frames[t][1].at \in {"before", "after"} /\ d_frames[t][1].from \in {"user", "handler"}
      /\ d_frames[t][1].mask \in SUBSET {"usr"}
  BY TopFacts DEF Outside
<1>1. CallTypes' BY <1>f DEF DispInv, CallTypes, CallPhases, Registers, Outside
<1>2. CallsNested'
  <2>1. ASSUME NEW u \in Threads PROVE Nested(u)'
    <3>1. Nested(u) BY DEF DispInv, CallsNested
    <3>2. d_frames[u] = <<>> <=> d_ph[u] \in Outside BY <3>1 DEF Nested
    <3> QED BY <1>f, <3>1, <3>2, NestedKept DEF DispInv, CallTypes, Outside
  <2> QED BY <2>1 DEF CallsNested
<1>3. AreasKnown' BY <1>f DEF DispInv, CallTypes, AreasKnown
<1>4. SoleThread' BY <1>f DEF DispInv, CallTypes, AreasKnown, SoleThread, Ended
<1>5. MasksEmpty' BY <1>f DEF DispInv, CallTypes, MasksEmpty, MaskOf
<1>6. D!FsExact' BY <1>f DEF DispInv, CallTypes, D!FsExact, D!KernelPhases
<1>7. TimesOrdered' BY DEF DispInv, TimesOrdered
<1>8. D!TimesExact'
  <2>1. \A u \in Threads : D!Accounted(u)' = D!Accounted(u)
    BY <1>f DEF DispInv, CallTypes, D!Accounted
  <2> QED BY <1>7, <2>1, TimesKept DEF DispInv
<1>9. StackInv'
  <2>1. \A u \in Threads : d_ph[u] = "jumped" => d_ph'[u] = "jumped"
    BY DEF DispInv, CallTypes
  <2> QED BY <1>1, <2>1, StacksKept DEF DispInv
<1>10. D!DescriptorKept' BY <1>f DEF DispInv, CallTypes, D!DescriptorKept
<1> QED BY <1>1, <1>2, <1>3, <1>4, <1>5, <1>6, <1>7, <1>8, <1>9, <1>10 DEF DispInv

\* A handler is set only by a program whose C runtime is up.
LEMMA Disp_Sigaction ==
    ASSUME DispInv, NEW t \in Threads, D!Sigaction(t)
    PROVE  DispInv'
<1> USE DEF D!Sigaction, D!After
<1>f. /\ D!Top(t) = d_frames[t][1] /\ 1 \in 1..Len(d_frames[t]) /\ Len(d_frames[t]) \in Nat
      /\ d_frames[t][1].at \in {"before", "after"} /\ d_frames[t][1].from \in {"user", "handler"}
      /\ d_frames[t][1].mask \in SUBSET {"usr"}
  BY TopFacts DEF Outside
<1>1. CallTypes' BY <1>f DEF DispInv, CallTypes, CallPhases, Registers, Outside
<1>2. CallsNested'
  <2>1. ASSUME NEW u \in Threads PROVE Nested(u)'
    <3>1. Nested(u) BY DEF DispInv, CallsNested
    <3>2. d_frames[u] = <<>> <=> d_ph[u] \in Outside BY <3>1 DEF Nested
    <3> QED BY <1>f, <3>1, <3>2, NestedKept DEF DispInv, CallTypes, Outside
  <2> QED BY <2>1 DEF CallsNested
<1>3. AreasKnown' BY <1>f DEF DispInv, CallTypes, AreasKnown
<1>4. SoleThread' BY <1>f DEF DispInv, CallTypes, AreasKnown, SoleThread, Ended
<1>5. MasksEmpty' BY <1>f DEF DispInv, CallTypes, MasksEmpty, MaskOf
<1>6. D!FsExact' BY <1>f DEF DispInv, CallTypes, D!FsExact, D!KernelPhases
<1>7. TimesOrdered' BY DEF DispInv, TimesOrdered
<1>8. D!TimesExact'
  <2>1. \A u \in Threads : D!Accounted(u)' = D!Accounted(u)
    BY <1>f DEF DispInv, CallTypes, D!Accounted
  <2> QED BY <1>7, <2>1, TimesKept DEF DispInv
<1>9. StackInv'
  <2>1. \A u \in Threads : d_ph[u] = "jumped" => d_ph'[u] = "jumped"
    BY DEF DispInv, CallTypes
  <2> QED BY <1>1, <2>1, StacksKept DEF DispInv
<1>10. D!DescriptorKept' BY <1>f DEF DispInv, CallTypes, D!DescriptorKept
<1> QED BY <1>1, <1>2, <1>3, <1>4, <1>5, <1>6, <1>7, <1>8, <1>9, <1>10 DEF DispInv

\* The mask of before the call comes back from the frame.
LEMMA Disp_PpollEnds ==
    ASSUME DispInv, NEW t \in Threads, D!PpollEnds(t)
    PROVE  DispInv'
<1> USE DEF D!PpollEnds, D!PpollMask
<1>f. /\ D!Top(t) = d_frames[t][1] /\ 1 \in 1..Len(d_frames[t]) /\ Len(d_frames[t]) \in Nat
      /\ d_frames[t][1].at \in {"before", "after"} /\ d_frames[t][1].from \in {"user", "handler"}
      /\ d_frames[t][1].mask \in SUBSET {"usr"}
  BY TopFacts DEF Outside
<1>1. CallTypes'
  <2>1. d_sig[t] \in SignalState BY DEF DispInv, CallTypes
  <2>2. [d_sig[t] EXCEPT !.mask = d_frames[t][1].mask, !.orig = d_frames[t][1].mask]
          \in SignalState
    <3>1. d_frames[t][1].mask \in SUBSET {"usr"} BY <1>f
    <3> QED BY <2>1, <3>1 DEF SignalState
  <2>3. d_sig' = [d_sig EXCEPT ![t] = [d_sig[t] EXCEPT !.mask = d_frames[t][1].mask,
                                                       !.orig = d_frames[t][1].mask]]
    BY <1>f
  <2>4. d_sig' \in [Threads -> SignalState] BY <2>2, <2>3 DEF DispInv, CallTypes
  <2> QED BY <1>f, <2>4 DEF DispInv, CallTypes, CallPhases, Registers, Outside
<1>2. CallsNested'
  <2>1. ASSUME NEW u \in Threads PROVE Nested(u)'
    <3>1. Nested(u) BY DEF DispInv, CallsNested
    <3>2. d_frames[u] = <<>> <=> d_ph[u] \in Outside BY <3>1 DEF Nested
    <3> QED BY <1>f, <3>1, <3>2, NestedKept DEF DispInv, CallTypes, Outside
  <2> QED BY <2>1 DEF CallsNested
<1>3. AreasKnown' BY <1>f DEF DispInv, CallTypes, AreasKnown
<1>4. SoleThread' BY <1>f DEF DispInv, CallTypes, AreasKnown, SoleThread, Ended
<1>5. MasksEmpty' BY <1>f DEF DispInv, CallTypes, MasksEmpty, MaskOf
<1>6. D!FsExact' BY <1>f DEF DispInv, CallTypes, D!FsExact, D!KernelPhases
<1>7. TimesOrdered' BY DEF DispInv, TimesOrdered
<1>8. D!TimesExact'
  <2>1. \A u \in Threads : D!Accounted(u)' = D!Accounted(u)
    BY <1>f DEF DispInv, CallTypes, D!Accounted
  <2> QED BY <1>7, <2>1, TimesKept DEF DispInv
<1>9. StackInv'
  <2>1. \A u \in Threads : d_ph[u] = "jumped" => d_ph'[u] = "jumped"
    BY DEF DispInv, CallTypes
  <2> QED BY <1>1, <2>1, StacksKept DEF DispInv
<1>10. D!DescriptorKept' BY <1>f DEF DispInv, CallTypes, D!DescriptorKept
<1> QED BY <1>1, <1>2, <1>3, <1>4, <1>5, <1>6, <1>7, <1>8, <1>9, <1>10 DEF DispInv

\* The call that sets the descriptor from within the program.
LEMMA Disp_ArchPrctl ==
    ASSUME DispInv, NEW t \in Threads, D!ArchPrctl(t)
    PROVE  DispInv'
<1> USE DEF D!ArchPrctl
<1>1. CallTypes' BY DEF DispInv, CallTypes, CallPhases, Registers, Outside
<1>2. CallsNested'
  <2>1. ASSUME NEW u \in Threads PROVE Nested(u)'
    <3>1. Nested(u) BY DEF DispInv, CallsNested
    <3>2. CASE u = t
      <4>1. d_frames[t] = <<>> BY <3>1, <3>2 DEF Nested, Outside
      <4>2. d_frames'[t] = <<>> /\ d_ph'[t] \in Outside BY <4>1 DEF DispInv, CallTypes, Outside
      <4> QED BY <3>2, <4>2, EmptySeq DEF Nested
    <3>3. CASE u # t BY <3>1, <3>3, NestedKept DEF DispInv, CallTypes
    <3> QED BY <3>2, <3>3
  <2> QED BY <2>1 DEF CallsNested
<1>3. AreasKnown' BY DEF DispInv, CallTypes, AreasKnown
<1>4. SoleThread' BY DEF DispInv, CallTypes, AreasKnown, SoleThread, Ended
<1>5. MasksEmpty' BY DEF DispInv, CallTypes, MasksEmpty, MaskOf
<1>6. D!FsExact' BY DEF DispInv, CallTypes, D!FsExact, D!KernelPhases
<1>7. TimesOrdered' BY DEF DispInv, TimesOrdered
<1>8. D!TimesExact'
  <2>1. \A u \in Threads : D!Accounted(u)' = D!Accounted(u)
    BY DEF DispInv, CallTypes, D!Accounted
  <2> QED BY <1>7, <2>1, TimesKept DEF DispInv
<1>9. StackInv'
  <2>1. \A u \in Threads : d_ph[u] = "jumped" => d_ph'[u] = "jumped"
    BY DEF DispInv, CallTypes
  <2> QED BY <1>1, <2>1, StacksKept DEF DispInv
<1>10. D!DescriptorKept' BY DEF DispInv, CallTypes, D!DescriptorKept
<1> QED BY <1>1, <1>2, <1>3, <1>4, <1>5, <1>6, <1>7, <1>8, <1>9, <1>10 DEF DispInv

\* A region with the thread's descriptor is unmapped at the thread's end.
LEMMA Disp_Munmap ==
    ASSUME DispInv, NEW t \in Threads, D!Munmap(t)
    PROVE  DispInv'
<1> USE DEF D!Munmap, D!After, D!Deferred
<1>f. /\ D!Top(t) = d_frames[t][1] /\ 1 \in 1..Len(d_frames[t]) /\ Len(d_frames[t]) \in Nat
      /\ d_frames[t][1].at \in {"before", "after"} /\ d_frames[t][1].from \in {"user", "handler"}
      /\ d_frames[t][1].mask \in SUBSET {"usr"}
  BY TopFacts DEF Outside
<1>1. CallTypes'
  <2>1. d_unmaps' \in [Threads -> Nat]
    <3>1. d_unmaps \in [Threads -> Nat] BY DEF DispInv, CallTypes
    <3>2. (IF d_unmaps[t] < MaxUnmaps THEN d_unmaps[t] + 1 ELSE d_unmaps[t]) \in Nat BY <3>1
    <3> QED BY <3>1, <3>2
  <2>2. UNCHANGED <<d_frames, d_fs, d_own, d_crt, d_area, d_handler, d_left, d_sig, d_odd>> OBVIOUS
  <2>3. d_ph' \in [Threads -> CallPhases] BY DEF DispInv, CallTypes, CallPhases
  <2> QED BY <2>1, <2>2, <2>3 DEF DispInv, CallTypes
<1>2. CallsNested'
  <2>1. ASSUME NEW u \in Threads PROVE Nested(u)'
    <3>1. Nested(u) BY DEF DispInv, CallsNested
    <3>2. d_frames[u] = <<>> <=> d_ph[u] \in Outside BY <3>1 DEF Nested
    <3> QED BY <1>f, <3>1, <3>2, NestedKept DEF DispInv, CallTypes, Outside
  <2> QED BY <2>1 DEF CallsNested
<1>3. AreasKnown' BY <1>f DEF DispInv, CallTypes, AreasKnown
<1>4. SoleThread' BY <1>f DEF DispInv, CallTypes, AreasKnown, SoleThread, Ended
<1>5. MasksEmpty' BY <1>f DEF DispInv, CallTypes, MasksEmpty, MaskOf
<1>6. D!FsExact' BY <1>f DEF DispInv, CallTypes, D!FsExact, D!KernelPhases
<1>7. TimesOrdered' BY DEF DispInv, TimesOrdered
<1>8. D!TimesExact'
  <2>1. \A u \in Threads : D!Accounted(u)' = D!Accounted(u)
    BY <1>f DEF DispInv, CallTypes, D!Accounted
  <2> QED BY <1>7, <2>1, TimesKept DEF DispInv
<1>9. StackInv'
  <2>1. \A u \in Threads : d_ph[u] = "jumped" => d_ph'[u] = "jumped"
    BY DEF DispInv, CallTypes
  <2> QED BY <1>1, <2>1, StacksKept DEF DispInv
<1>10. D!DescriptorKept' BY <1>f DEF DispInv, CallTypes, D!DescriptorKept, CallPhases, Registers
<1> QED BY <1>1, <1>2, <1>3, <1>4, <1>5, <1>6, <1>7, <1>8, <1>9, <1>10 DEF DispInv

\* A thread starts on the descriptor of the C runtime.
LEMMA Disp_Start ==
    ASSUME DispInv, NEW t \in Threads, D!Start(t)
    PROVE  DispInv'
<1> USE DEF D!Start
<1>1. CallTypes' BY DEF DispInv, CallTypes, CallPhases, Registers, Outside
<1>2. CallsNested'
  <2>1. ASSUME NEW u \in Threads PROVE Nested(u)'
    <3>1. Nested(u) BY DEF DispInv, CallsNested
    <3>2. CASE u = t
      <4>1. d_frames[t] = <<>> BY <3>1, <3>2 DEF Nested, Outside
      <4>2. d_frames'[t] = <<>> /\ d_ph'[t] \in Outside BY <4>1 DEF DispInv, CallTypes, Outside
      <4> QED BY <3>2, <4>2, EmptySeq DEF Nested
    <3>3. CASE u # t BY <3>1, <3>3, NestedKept DEF DispInv, CallTypes
    <3> QED BY <3>2, <3>3
  <2> QED BY <2>1 DEF CallsNested
<1>3. AreasKnown' BY DEF DispInv, CallTypes, AreasKnown
<1>4. SoleThread' BY DEF DispInv, CallTypes, AreasKnown, SoleThread, Ended
<1>5. MasksEmpty' BY DEF DispInv, CallTypes, MasksEmpty, MaskOf
<1>6. D!FsExact' BY DEF DispInv, CallTypes, D!FsExact, D!KernelPhases
<1>7. TimesOrdered' BY DEF DispInv, TimesOrdered
<1>8. D!TimesExact'
  <2>1. \A u \in Threads : D!Accounted(u)' = D!Accounted(u)
    BY DEF DispInv, CallTypes, D!Accounted, TimesOrdered
  <2> QED BY <1>7, <2>1, TimesKept DEF DispInv
<1>9. StackInv'
  <2>1. \A u \in Threads : d_ph[u] = "jumped" => d_ph'[u] = "jumped"
    BY DEF DispInv, CallTypes
  <2> QED BY <1>1, <2>1, StacksKept DEF DispInv
<1>10. D!DescriptorKept' BY DEF DispInv, CallTypes, D!DescriptorKept
<1> QED BY <1>1, <1>2, <1>3, <1>4, <1>5, <1>6, <1>7, <1>8, <1>9, <1>10 DEF DispInv

\* The innermost call is changed, but not its stack and where it came from.
LEMMA HeadSet ==
    ASSUME DispInv, NEW t \in Threads, d_ph[t] \notin Outside, NEW e \in Frame,
           d_frames' = [d_frames EXCEPT ![t] = [d_frames[t] EXCEPT ![1] = e]]
    PROVE  /\ d_frames' \in [Threads -> Seq(Frame)]
           /\ d_frames'[t] # <<>> /\ Len(d_frames'[t]) = Len(d_frames[t])
           /\ d_frames'[t][1] = e
           /\ \A i \in 2..Len(d_frames[t]) : d_frames'[t][i] = d_frames[t][i]
           /\ \A u \in Threads \ {t} : d_frames'[u] = d_frames[u]
<1> DEFINE q == d_frames[t] r == [q EXCEPT ![1] = e]
<1>1. q \in Seq(Frame) /\ q # <<>> BY TopFacts
<1>2. d_frames \in [Threads -> Seq(Frame)] BY DEF DispInv, CallTypes
<1> HIDE DEF q
<1>3. /\ r \in Seq(Frame) /\ Len(r) = Len(q) /\ r # <<>> /\ r[1] = e
      /\ \A i \in 2..Len(q) : r[i] = q[i]
  BY <1>1, FramesSet
<1>4. d_frames' = [d_frames EXCEPT ![t] = r] BY DEF q
<1> HIDE DEF r
<1>5. d_frames'[t] = r /\ \A u \in Threads \ {t} : d_frames'[u] = d_frames[u] BY <1>2, <1>4
<1>6. d_frames' \in [Threads -> Seq(Frame)] BY <1>2, <1>3, <1>4
<1> QED BY <1>3, <1>5, <1>6 DEF q

\* A handler runs on the thread's descriptor, with its call still open below.
LEMMA Disp_Handle ==
    ASSUME DispInv, NEW t \in Threads, D!Handle(t)
    PROVE  DispInv'
<1> DEFINE e == [d_frames[t][1] EXCEPT !.at = d_ph[t]]
           s == [d_sig[t] EXCEPT !.pending = @ \ {"usr"}, !.mask = @ \cup {"usr"}]
<1>a. d_ph[t] \in {"before", "after"} /\ d_handler /\ d_crt[t] = "crt"
  BY DEF D!Handle, DispInv, CallTypes
<1>b. d_sig[t] \in SignalState /\ d_sig[t].mask \in SUBSET {"usr"}
  BY SignalSet DEF DispInv, CallTypes
<1>c. /\ d_frames[t][1] \in Frame /\ d_frames[t][1].from \in {"user", "handler"}
      /\ 1 \in 1..Len(d_frames[t]) /\ Len(d_frames[t]) \in Nat
  BY <1>a, TopFacts DEF Outside
<1>d. e \in Frame /\ e.k = d_frames[t][1].k /\ e.from = d_frames[t][1].from
      /\ e.crt = d_frames[t][1].crt
  BY <1>a, <1>b, <1>c DEF Frame
<1>e. d_frames' = [d_frames EXCEPT ![t] = [d_frames[t] EXCEPT ![1] = e]]
  BY <1>c DEF D!Handle, DispInv, CallTypes
<1>f. s \in SignalState BY <1>b, SignalSet
<1>g. d_sig' = [d_sig EXCEPT ![t] = s] BY DEF D!Handle, DispInv, CallTypes
<1>h. /\ d_fs' = [d_fs EXCEPT ![t] = d_crt[t]] /\ d_ph' = [d_ph EXCEPT ![t] = "handler"]
      /\ UNCHANGED <<d_made, d_crt, d_own, d_area, d_free, d_exitK, d_execK, d_times, d_total,
                     d_now, d_handler, d_unmaps, d_mapped, d_odd, d_left, d_bounds>>
  BY DEF D!Handle
<1> HIDE DEF e, s
<1>i. /\ d_frames' \in [Threads -> Seq(Frame)]
      /\ d_frames'[t] # <<>> /\ Len(d_frames'[t]) = Len(d_frames[t]) /\ d_frames'[t][1] = e
      /\ \A i \in 2..Len(d_frames[t]) : d_frames'[t][i] = d_frames[t][i]
      /\ \A u \in Threads \ {t} : d_frames'[u] = d_frames[u]
  BY <1>a, <1>d, <1>e, HeadSet DEF Outside
<1>1. CallTypes'
  <2>1. d_sig' \in [Threads -> SignalState] BY <1>f, <1>g DEF DispInv, CallTypes
  <2>2. d_fs' \in [Threads -> Registers] BY <1>a, <1>h DEF DispInv, CallTypes, Registers
  <2>3. d_ph' \in [Threads -> CallPhases] BY <1>h DEF DispInv, CallTypes, CallPhases
  <2> QED BY <1>h, <1>i, <2>1, <2>2, <2>3 DEF DispInv, CallTypes
<1>2. CallsNested'
  <2>1. ASSUME NEW u \in Threads, u # t PROVE Nested(u)'
    BY <1>h, <1>i, <2>1, NestedKept DEF DispInv, CallsNested, CallTypes
  <2>2. Nested(t) /\ d_ph'[t] = "handler" BY <1>h DEF DispInv, CallsNested, CallTypes
  <2>3. ASSUME NEW i \in 1..Len(d_frames[t])
        PROVE  /\ d_frames'[t][i].from = d_frames[t][i].from
               /\ d_frames'[t][i].crt = d_frames[t][i].crt
    BY <1>c, <1>d, <1>i
  <2>4. Nested(t)' BY <1>h, <1>i, <2>2, <2>3 DEF Nested, Outside
  <2> QED BY <2>1, <2>4 DEF CallsNested
<1>3. AreasKnown' BY <1>a, <1>h DEF DispInv, CallTypes, AreasKnown
<1>4. SoleThread' BY <1>a, <1>h, <1>i DEF DispInv, CallTypes, SoleThread, Ended
<1>5. MasksEmpty'
  <2>1. ASSUME NEW u \in Threads, u # t
        PROVE  d_sig'[u] = d_sig[u] /\ d_ph'[u] = d_ph[u] /\ d_frames'[u] = d_frames[u]
    BY <1>g, <1>h, <1>i, <2>1 DEF DispInv, CallTypes
  <2>2. d_sig'[t].lost = d_sig[t].lost /\ d_sig'[t].orig = d_sig[t].orig
    BY <1>b, <1>g DEF DispInv, CallTypes, SignalState, s
  <2>3. d_ph'[t] = "handler" BY <1>h DEF DispInv, CallTypes
  <2>4. ~d_sig[t].lost => d_sig[t].orig = {} BY <1>a DEF DispInv, MasksEmpty, MaskOf
  <2>5. \A u \in Threads : ~d_sig'[u].lost => MaskOf(u)'
    BY <2>1, <2>2, <2>3, <2>4 DEF DispInv, MasksEmpty, MaskOf
  <2>6. \A u \in Threads : Len(d_frames'[u]) = Len(d_frames[u]) BY <1>i
  <2> QED BY <1>h, <2>5, <2>6 DEF DispInv, MasksEmpty
<1>6. D!FsExact' BY <1>h DEF DispInv, CallTypes, D!FsExact, D!KernelPhases
<1>7. TimesOrdered' BY <1>h DEF DispInv, TimesOrdered
<1>8. D!TimesExact'
  <2>1. \A u \in Threads : D!Accounted(u)' = D!Accounted(u)
    BY <1>a, <1>h DEF DispInv, CallTypes, D!Accounted
  <2> QED BY <1>7, <1>h, <2>1, TimesKept DEF DispInv
<1>9. StackInv'
  <2>1. \A u \in Threads : d_ph[u] = "jumped" => d_ph'[u] = "jumped"
    BY <1>a, <1>h DEF DispInv, CallTypes
  <2>2. ASSUME NEW u \in Threads
        PROVE  /\ Len(d_frames'[u]) = Len(d_frames[u])
               /\ \A i \in 1..Len(d_frames[u]) : d_frames'[u][i].k = d_frames[u][i].k
    <3>1. CASE u # t BY <1>i, <3>1
    <3>2. ASSUME NEW i \in 1..Len(d_frames[t]) PROVE d_frames'[t][i].k = d_frames[t][i].k
      BY <1>c, <1>d, <1>i
    <3> QED BY <1>i, <3>1, <3>2
  <2> QED BY <1>1, <1>h, <2>1, <2>2, StacksKept DEF DispInv
<1>10. D!DescriptorKept' BY <1>a, <1>h DEF DispInv, CallTypes, D!DescriptorKept
<1> QED BY <1>1, <1>2, <1>3, <1>4, <1>5, <1>6, <1>7, <1>8, <1>9, <1>10 DEF DispInv

\* The frame keeps the mask that the call replaces.
LEMMA Disp_PpollBegins ==
    ASSUME DispInv, NEW t \in Threads, D!PpollBegins(t)
    PROVE  DispInv'
<1>a. d_ph[t] = "run" BY DEF D!PpollBegins
<1> DEFINE l == d_sig[t].lost \/ D!Top(t).from = "handler"
<1>m. PICK m \in SUBSET {"usr"}, o \in SUBSET {"usr"} :
        d_sig' = [d_sig EXCEPT ![t].mask = m, ![t].orig = o, ![t].lost = l]
  BY DEF D!PpollBegins
<1> DEFINE e == [d_frames[t][1] EXCEPT !.mask = d_sig[t].mask]
           s == [d_sig[t] EXCEPT !.mask = m, !.orig = o, !.lost = l]
<1>b. d_sig[t] \in SignalState /\ d_sig[t].mask \in SUBSET {"usr"}
  BY SignalSet DEF DispInv, CallTypes
<1>c. /\ d_frames[t][1] \in Frame /\ d_frames[t][1].from \in {"user", "handler"}
      /\ 1 \in 1..Len(d_frames[t]) /\ Len(d_frames[t]) \in Nat
  BY <1>a, TopFacts DEF Outside
<1>d. e \in Frame /\ e.k = d_frames[t][1].k /\ e.from = d_frames[t][1].from
      /\ e.crt = d_frames[t][1].crt /\ e.mask = d_sig[t].mask
  BY <1>b, <1>c DEF Frame
<1>e. d_frames' = [d_frames EXCEPT ![t] = [d_frames[t] EXCEPT ![1] = e]]
  BY <1>c DEF D!PpollBegins, DispInv, CallTypes
<1>k. l \in BOOLEAN OBVIOUS
<1>n. D!Top(t) = d_frames[t][1] /\ (d_frames[t][1].from = "user" <=> Len(d_frames[t]) = 1)
  BY <1>a, TopFacts DEF Outside
<1> HIDE DEF l
<1>f. s \in SignalState BY <1>b, <1>k, SignalSet
<1>g. d_sig' = [d_sig EXCEPT ![t] = s] BY <1>m DEF DispInv, CallTypes
<1>h. /\ d_ph' = [d_ph EXCEPT ![t] = "polling"]
      /\ UNCHANGED <<d_made, d_fs, d_crt, d_own, d_area, d_free, d_exitK, d_execK, d_times,
                     d_total, d_now, d_handler, d_unmaps, d_mapped, d_odd, d_left, d_bounds>>
  BY DEF D!PpollBegins
<1> HIDE DEF e, s
<1>i. /\ d_frames' \in [Threads -> Seq(Frame)]
      /\ d_frames'[t] # <<>> /\ Len(d_frames'[t]) = Len(d_frames[t]) /\ d_frames'[t][1] = e
      /\ \A i \in 2..Len(d_frames[t]) : d_frames'[t][i] = d_frames[t][i]
      /\ \A u \in Threads \ {t} : d_frames'[u] = d_frames[u]
  BY <1>a, <1>d, <1>e, HeadSet DEF Outside
<1>1. CallTypes'
  <2>1. d_sig' \in [Threads -> SignalState] BY <1>f, <1>g DEF DispInv, CallTypes
  <2>3. d_ph' \in [Threads -> CallPhases] BY <1>h DEF DispInv, CallTypes, CallPhases
  <2> QED BY <1>h, <1>i, <2>1, <2>3 DEF DispInv, CallTypes
<1>2. CallsNested'
  <2>1. ASSUME NEW u \in Threads, u # t PROVE Nested(u)'
    BY <1>h, <1>i, <2>1, NestedKept DEF DispInv, CallsNested, CallTypes
  <2>2. Nested(t) /\ d_ph'[t] = "polling" BY <1>h DEF DispInv, CallsNested, CallTypes
  <2>3. ASSUME NEW i \in 1..Len(d_frames[t])
        PROVE  /\ d_frames'[t][i].from = d_frames[t][i].from
               /\ d_frames'[t][i].crt = d_frames[t][i].crt
    BY <1>c, <1>d, <1>i
  <2>4. Nested(t)' BY <1>h, <1>i, <2>2, <2>3 DEF Nested, Outside
  <2> QED BY <2>1, <2>4 DEF CallsNested
<1>3. AreasKnown' BY <1>a, <1>h DEF DispInv, CallTypes, AreasKnown
<1>4. SoleThread' BY <1>a, <1>h, <1>i DEF DispInv, CallTypes, SoleThread, Ended
<1>5. MasksEmpty'
  <2>1. ASSUME NEW u \in Threads, u # t
        PROVE  d_sig'[u] = d_sig[u] /\ d_ph'[u] = d_ph[u] /\ d_frames'[u] = d_frames[u]
    BY <1>g, <1>h, <1>i, <2>1 DEF DispInv, CallTypes
  <2>2. d_sig'[t].lost = l BY <1>b, <1>g DEF DispInv, CallTypes, SignalState, s
  <2>3. d_ph'[t] = "polling" BY <1>h DEF DispInv, CallTypes
  <2>4. ~l => e.mask = {} /\ Len(d_frames[t]) = 1
    BY <1>a, <1>c, <1>d, <1>n DEF DispInv, MasksEmpty, MaskOf, l
  <2>5. MaskOf(t)' \/ l BY <1>i, <2>3, <2>4 DEF MaskOf
  <2>6. ASSUME NEW u \in Threads, u # t, ~d_sig'[u].lost PROVE MaskOf(u)'
    BY <2>1, <2>6 DEF DispInv, MasksEmpty, MaskOf
  <2>7. \A u \in Threads : Len(d_frames'[u]) = Len(d_frames[u]) BY <1>i
  <2> QED BY <1>h, <2>2, <2>5, <2>6, <2>7 DEF DispInv, MasksEmpty
<1>6. D!FsExact' BY <1>a, <1>h DEF DispInv, CallTypes, D!FsExact, D!KernelPhases
<1>7. TimesOrdered' BY <1>h DEF DispInv, TimesOrdered
<1>8. D!TimesExact'
  <2>1. \A u \in Threads : D!Accounted(u)' = D!Accounted(u)
    BY <1>a, <1>h DEF DispInv, CallTypes, D!Accounted
  <2> QED BY <1>7, <1>h, <2>1, TimesKept DEF DispInv
<1>9. StackInv'
  <2>1. \A u \in Threads : d_ph[u] = "jumped" => d_ph'[u] = "jumped"
    BY <1>a, <1>h DEF DispInv, CallTypes
  <2>2. ASSUME NEW u \in Threads
        PROVE  /\ Len(d_frames'[u]) = Len(d_frames[u])
               /\ \A i \in 1..Len(d_frames[u]) : d_frames'[u][i].k = d_frames[u][i].k
    <3>1. CASE u # t BY <1>i, <3>1
    <3>2. ASSUME NEW i \in 1..Len(d_frames[t]) PROVE d_frames'[t][i].k = d_frames[t][i].k
      BY <1>c, <1>d, <1>i
    <3> QED BY <1>i, <3>1, <3>2
  <2> QED BY <1>1, <1>h, <2>1, <2>2, StacksKept DEF DispInv
<1>10. D!DescriptorKept' BY <1>a, <1>h DEF DispInv, CallTypes, D!DescriptorKept
<1> QED BY <1>1, <1>2, <1>3, <1>4, <1>5, <1>6, <1>7, <1>8, <1>9, <1>10 DEF DispInv

\* The one thread of a program whose C runtime is not up gives it its descriptor.
LEMMA Disp_SetThreadArea ==
    ASSUME DispInv, NEW t \in Threads, D!SetThreadArea(t)
    PROVE  DispInv'
<1> DEFINE e == [d_frames[t][1] EXCEPT !.crt = "crt"]
<1>a. d_ph[t] = "run" /\ d_own[t] = "target" BY DEF D!SetThreadArea, D!After
<1>b. Len(d_frames[t]) <= 1 BY <1>a DEF DispInv, SoleThread, Ended
<1>c. /\ d_frames[t][1] \in Frame /\ d_frames[t][1].from \in {"user", "handler"}
      /\ 1 \in 1..Len(d_frames[t]) /\ Len(d_frames[t]) \in Nat
  BY <1>a, TopFacts DEF Outside
<1>d. e \in Frame /\ e.k = d_frames[t][1].k /\ e.from = d_frames[t][1].from
      /\ e.crt = "crt" /\ e.mask = d_frames[t][1].mask
  BY <1>c DEF Frame, Registers
<1>e. d_frames' = [d_frames EXCEPT ![t] = [d_frames[t] EXCEPT ![1] = e]]
  BY <1>c DEF D!SetThreadArea, DispInv, CallTypes
<1>h. /\ d_crt' = [d_crt EXCEPT ![t] = "crt"] /\ d_own' = [d_own EXCEPT ![t] = "crt"]
      /\ d_area' = TRUE /\ d_ph' = [d_ph EXCEPT ![t] = "after"]
      /\ UNCHANGED <<d_made, d_fs, d_free, d_exitK, d_execK, d_times, d_total, d_now, d_sig,
                     d_handler, d_unmaps, d_mapped, d_odd, d_left, d_bounds>>
  BY DEF D!SetThreadArea, D!After
<1> HIDE DEF e
<1>i. /\ d_frames' \in [Threads -> Seq(Frame)]
      /\ d_frames'[t] # <<>> /\ Len(d_frames'[t]) = Len(d_frames[t]) /\ d_frames'[t][1] = e
      /\ \A i \in 2..Len(d_frames[t]) : d_frames'[t][i] = d_frames[t][i]
      /\ \A u \in Threads \ {t} : d_frames'[u] = d_frames[u]
  BY <1>a, <1>d, <1>e, HeadSet DEF Outside
<1>1. CallTypes'
  <2>1. d_crt' \in [Threads -> {"none", "crt"}] BY <1>h DEF DispInv, CallTypes
  <2>2. d_own' \in [Threads -> Registers] BY <1>h DEF DispInv, CallTypes, Registers
  <2>3. d_ph' \in [Threads -> CallPhases] BY <1>h DEF DispInv, CallTypes, CallPhases
  <2> QED BY <1>h, <1>i, <2>1, <2>2, <2>3 DEF DispInv, CallTypes
<1>2. CallsNested'
  <2>1. ASSUME NEW u \in Threads, u # t PROVE Nested(u)'
    BY <1>h, <1>i, <2>1, NestedKept DEF DispInv, CallsNested, CallTypes
  <2>2. Len(d_frames[t]) = 1
    <3> HIDE DEF e
    <3> DEFINE n == Len(d_frames[t])
    <3>1. n \in Nat /\ 1 \in 1..n /\ n <= 1 BY <1>b, <1>c
    <3> HIDE DEF n
    <3>2. n = 1 BY <3>1
    <3> QED BY <3>2 DEF n
  <2>3. d_frames[t][1].from = "user" <=> Len(d_frames[t]) = 1 BY <1>a, TopFacts DEF Outside
  <2>4. d_ph'[t] = "after" /\ d_crt'[t] = "crt" /\ d_own'[t] = "crt" BY <1>h DEF DispInv, CallTypes
  <2>5. Nested(t)' BY <1>d, <1>i, <2>2, <2>3, <2>4 DEF Nested, Outside
  <2> QED BY <2>1, <2>5 DEF CallsNested
<1>3. AreasKnown' BY <1>a, <1>h DEF DispInv, CallTypes, AreasKnown
<1>4. SoleThread' BY <1>a, <1>h, <1>i DEF DispInv, CallTypes, SoleThread, Ended
<1>5. MasksEmpty'
  <2>1. /\ d_ph'[t] = "after" /\ \A u \in Threads \ {t} : d_ph'[u] = d_ph[u]
        /\ d_sig' = d_sig /\ d_odd' = d_odd
    BY <1>h DEF DispInv, CallTypes
  <2>2. \A u \in Threads \ d_odd' : Len(d_frames'[u]) <= 1
    BY <1>i, <2>1 DEF DispInv, MasksEmpty
  <2>3. \A u \in Threads \ {t} : ~d_sig'[u].lost => MaskOf(u)'
    BY <1>i, <2>1 DEF DispInv, MasksEmpty, MaskOf
  <2>4. ~d_sig[t].lost => /\ d_sig[t].orig = {}
                          /\ Len(d_frames[t]) = 1 => d_sig[t].mask = {}
    BY <1>a DEF DispInv, MasksEmpty, MaskOf
  <2>5. ~d_sig'[t].lost => MaskOf(t)' BY <1>i, <2>1, <2>4 DEF MaskOf
  <2> QED BY <2>2, <2>3, <2>5 DEF MasksEmpty
<1>6. D!FsExact' BY <1>a, <1>h DEF DispInv, CallTypes, D!FsExact, D!KernelPhases
<1>7. TimesOrdered' BY <1>h DEF DispInv, TimesOrdered
<1>8. D!TimesExact'
  <2>1. \A u \in Threads : D!Accounted(u)' = D!Accounted(u)
    BY <1>a, <1>h DEF DispInv, CallTypes, D!Accounted
  <2> QED BY <1>7, <1>h, <2>1, TimesKept DEF DispInv
<1>9. StackInv'
  <2>1. \A u \in Threads : d_ph[u] = "jumped" => d_ph'[u] = "jumped"
    BY <1>a, <1>h DEF DispInv, CallTypes
  <2>2. ASSUME NEW u \in Threads
        PROVE  /\ Len(d_frames'[u]) = Len(d_frames[u])
               /\ \A i \in 1..Len(d_frames[u]) : d_frames'[u][i].k = d_frames[u][i].k
    <3>1. CASE u # t BY <1>i, <3>1
    <3>2. ASSUME NEW i \in 1..Len(d_frames[t]) PROVE d_frames'[t][i].k = d_frames[t][i].k
      BY <1>c, <1>d, <1>i
    <3> QED BY <1>i, <3>1, <3>2
  <2> QED BY <1>1, <1>h, <2>1, <2>2, StacksKept DEF DispInv
<1>10. D!DescriptorKept' BY <1>a, <1>h DEF DispInv, CallTypes, D!DescriptorKept
<1> QED BY <1>1, <1>2, <1>3, <1>4, <1>5, <1>6, <1>7, <1>8, <1>9, <1>10 DEF DispInv

\* A call more, and a call less.
LEMMA CallPush ==
    ASSUME DispInv, NEW t \in Threads, NEW e \in Frame, e.k \notin D!InUse(t),
           d_frames' = [d_frames EXCEPT ![t] = <<e>> \o d_frames[t]]
    PROVE  /\ d_frames' \in [Threads -> Seq(Frame)]
           /\ d_frames'[t] # <<>> /\ Len(d_frames'[t]) = Len(d_frames[t]) + 1
           /\ d_frames'[t][1] = e
           /\ \A i \in 1..Len(d_frames[t]) : d_frames'[t][i + 1] = d_frames[t][i]
           /\ \A u \in Threads \ {t} : d_frames'[u] = d_frames[u]
           /\ D!InUse(t)' = D!InUse(t) \cup {e.k}
           /\ \A i, j \in 1..Len(d_frames'[t]) : d_frames'[t][i].k = d_frames'[t][j].k => i = j
           /\ IsFiniteSet(D!InUse(t))' /\ Cardinality(D!InUse(t))' = Len(d_frames'[t])
<1> DEFINE q == d_frames[t] r == <<e>> \o q
<1>1. d_frames \in [Threads -> Seq(Frame)] /\ q \in Seq(Frame) BY DEF DispInv, CallTypes
<1>2. /\ Len(q) \in Nat /\ D!InUse(t) = {q[i].k : i \in 1..Len(q)} BY FramesOf DEF DispInv
<1> HIDE DEF q
<1>3. /\ r \in Seq(Frame) /\ Len(r) = Len(q) + 1 /\ r # <<>> /\ r[1] = e
      /\ \A i \in 1..Len(q) : r[i + 1] = q[i]
  BY <1>1, FramesPush
<1>4. d_frames' = [d_frames EXCEPT ![t] = r] BY DEF q
<1> HIDE DEF r
<1>5. d_frames'[t] = r /\ \A u \in Threads \ {t} : d_frames'[u] = d_frames[u] BY <1>1, <1>4
<1>6. d_frames' \in [Threads -> Seq(Frame)] BY <1>1, <1>3, <1>4
<1>7. \A j \in 1..Len(r) : j = 1 \/ (j - 1 \in 1..Len(q) /\ r[j] = q[j - 1])
  BY <1>2, <1>3
<1>8. D!InUse(t)' = {r[i].k : i \in 1..Len(r)}
  <2>1. DOMAIN r = 1..Len(r) BY <1>3, LenProperties
  <2> QED BY <1>5, <2>1 DEF D!InUse
<1>9. {r[i].k : i \in 1..Len(r)} = {q[i].k : i \in 1..Len(q)} \cup {e.k}
  <2>1. \A j \in 1..Len(r) : r[j].k = e.k \/ \E i \in 1..Len(q) : r[j].k = q[i].k BY <1>3, <1>7
  <2>2. \A i \in 1..Len(q) : i + 1 \in 1..Len(r) /\ r[i + 1].k = q[i].k BY <1>2, <1>3
  <2>3. 1 \in 1..Len(r) /\ r[1].k = e.k BY <1>2, <1>3
  <2> DEFINE R == {r[i].k : i \in 1..Len(r)} Q == {q[i].k : i \in 1..Len(q)}
  <2>4. \A j \in 1..Len(r) : r[j].k \in Q \cup {e.k} BY <2>1
  <2>5. R \subseteq Q \cup {e.k} BY <2>4
  <2>6. e.k \in R BY <2>3
  <2>7. \A i \in 1..Len(q) : q[i].k \in R BY <2>2
  <2>8. Q \subseteq R BY <2>7
  <2> QED BY <2>5, <2>6, <2>8
<1>10. /\ \A i, j \in 1..Len(q) : q[i].k = q[j].k => i = j
       /\ IsFiniteSet(D!InUse(t)) /\ Cardinality(D!InUse(t)) = Len(q)
  BY DEF DispInv, StackInv, Owned, q
<1>11. \A i \in 1..Len(q) : q[i].k # e.k BY <1>2
<1>12. ASSUME NEW i \in 1..Len(r), NEW j \in 1..Len(r), r[i].k = r[j].k PROVE i = j
  <2>1. CASE i = 1 /\ j = 1 BY <2>1
  <2>2. CASE i = 1 /\ j # 1 BY <1>3, <1>7, <1>11, <1>12, <2>2
  <2>3. CASE i # 1 /\ j = 1 BY <1>3, <1>7, <1>11, <1>12, <2>3
  <2>4. CASE i # 1 /\ j # 1
    <3>1. i - 1 \in 1..Len(q) /\ j - 1 \in 1..Len(q) /\ q[i - 1].k = q[j - 1].k
      BY <1>7, <1>12, <2>4
    <3>2. i - 1 = j - 1 BY <1>10, <3>1
    <3> QED BY <1>2, <1>3, <3>2
  <2> QED BY <2>1, <2>2, <2>3, <2>4
<1>13. D!InUse(t)' = D!InUse(t) \cup {e.k} BY <1>2, <1>8, <1>9
<1>14. IsFiniteSet(D!InUse(t)') /\ Cardinality(D!InUse(t)') = Len(q) + 1
  BY <1>10, <1>13, FS_AddElement
<1> QED BY <1>3, <1>5, <1>6, <1>12, <1>13, <1>14 DEF q

\* The stack of the call that ends is no longer in use, the others are.
LEMMA CallPop ==
    ASSUME DispInv, NEW t \in Threads, d_ph[t] \notin Outside,
           d_frames' = [d_frames EXCEPT ![t] = Tail(d_frames[t])]
    PROVE  /\ d_frames' \in [Threads -> Seq(Frame)]
           /\ d_frames'[t] = <<>> <=> Len(d_frames[t]) = 1
           /\ Len(d_frames'[t]) = Len(d_frames[t]) - 1
           /\ \A i \in 1..(Len(d_frames[t]) - 1) :
                 /\ i + 1 \in 1..Len(d_frames[t]) /\ d_frames'[t][i] = d_frames[t][i + 1]
           /\ \A u \in Threads \ {t} : d_frames'[u] = d_frames[u]
           /\ d_frames[t][1].k \in D!InUse(t)
           /\ D!InUse(t)' = D!InUse(t) \ {d_frames[t][1].k}
           /\ \A i, j \in 1..Len(d_frames'[t]) : d_frames'[t][i].k = d_frames'[t][j].k => i = j
           /\ IsFiniteSet(D!InUse(t))' /\ Cardinality(D!InUse(t))' = Len(d_frames'[t])
<1> DEFINE q == d_frames[t] r == Tail(q) k == d_frames[t][1].k
<1>1. d_frames \in [Threads -> Seq(Frame)] /\ q \in Seq(Frame) BY DEF DispInv, CallTypes
<1>2. /\ Len(q) \in Nat /\ D!InUse(t) = {q[i].k : i \in 1..Len(q)} BY FramesOf DEF DispInv
<1>a. q # <<>> /\ 1 \in 1..Len(q) /\ k = q[1].k BY TopFacts
<1> HIDE DEF q, k
<1>3. /\ r \in Seq(Frame) /\ Len(r) = Len(q) - 1 /\ Len(q) - 1 \in Nat
      /\ r = <<>> <=> Len(q) = 1
      /\ \A i \in 1..(Len(q) - 1) : r[i] = q[i + 1]
  BY <1>1, <1>a, FramesPop
<1>4. d_frames' = [d_frames EXCEPT ![t] = r] BY DEF q
<1> HIDE DEF r
<1>5. d_frames'[t] = r /\ \A u \in Threads \ {t} : d_frames'[u] = d_frames[u] BY <1>1, <1>4
<1>6. d_frames' \in [Threads -> Seq(Frame)] BY <1>1, <1>3, <1>4
<1>7. \A i \in 1..Len(r) : i + 1 \in 1..Len(q) /\ i + 1 # 1 /\ r[i] = q[i + 1] BY <1>2, <1>3
<1>8. D!InUse(t)' = {r[i].k : i \in 1..Len(r)}
  <2>1. DOMAIN r = 1..Len(r) BY <1>3, LenProperties
  <2> QED BY <1>5, <2>1 DEF D!InUse
<1>10. /\ \A i, j \in 1..Len(q) : q[i].k = q[j].k => i = j
       /\ IsFiniteSet(D!InUse(t)) /\ Cardinality(D!InUse(t)) = Len(q)
  BY DEF DispInv, StackInv, Owned, q
<1>9. {r[i].k : i \in 1..Len(r)} = {q[i].k : i \in 1..Len(q)} \ {k}
  <2>1. ASSUME NEW i \in 1..Len(r)
        PROVE  r[i].k # k /\ \E j \in 1..Len(q) : r[i].k = q[j].k
    BY <1>7, <1>10, <1>a
  <2>2. ASSUME NEW j \in 1..Len(q), q[j].k # k PROVE \E i \in 1..Len(r) : r[i].k = q[j].k
    <3>1. j # 1 BY <1>a, <2>2
    <3>2. j - 1 \in 1..Len(r) /\ r[j - 1] = q[(j - 1) + 1] /\ (j - 1) + 1 = j BY <1>2, <1>3, <3>1
    <3>3. r[j - 1].k = q[j].k BY <3>2
    <3> QED BY <3>2, <3>3
  <2> QED BY <2>1, <2>2
<1>12. ASSUME NEW i \in 1..Len(r), NEW j \in 1..Len(r), r[i].k = r[j].k PROVE i = j
  <2>1. i + 1 \in 1..Len(q) /\ j + 1 \in 1..Len(q) /\ q[i + 1].k = q[j + 1].k BY <1>7, <1>12
  <2>2. i + 1 = j + 1 BY <1>10, <2>1
  <2> QED BY <1>2, <1>3, <2>2
<1>13. D!InUse(t)' = D!InUse(t) \ {k} BY <1>2, <1>8, <1>9
<1>14. k \in D!InUse(t) BY <1>2, <1>a
<1>15. IsFiniteSet(D!InUse(t)') /\ Cardinality(D!InUse(t)') = Len(q) - 1
  BY <1>10, <1>13, <1>14, FS_RemoveElement
<1>16. \A i \in 1..(Len(q) - 1) : i + 1 \in 1..Len(q) BY <1>2
<1> QED BY <1>3, <1>5, <1>6, <1>12, <1>13, <1>14, <1>15, <1>16 DEF q, k

\* A thread leaves all its calls.
LEMMA CallsDropped ==
    ASSUME DispInv, NEW t \in Threads, d_frames' = [d_frames EXCEPT ![t] = <<>>]
    PROVE  /\ d_frames' \in [Threads -> Seq(Frame)]
           /\ d_frames'[t] = <<>> /\ Len(d_frames'[t]) = 0
           /\ \A u \in Threads \ {t} : d_frames'[u] = d_frames[u]
           /\ D!InUse(t)' = {} /\ IsFiniteSet(D!InUse(t)') /\ Cardinality(D!InUse(t)') = 0
<1>1. d_frames \in [Threads -> Seq(Frame)] BY DEF DispInv, CallTypes
<1>2. <<>> \in Seq(Frame) /\ Len(<<>>) = 0 BY EmptySeq
<1>3. d_frames'[t] = <<>> /\ \A u \in Threads \ {t} : d_frames'[u] = d_frames[u] BY <1>1
<1>4. d_frames' \in [Threads -> Seq(Frame)] BY <1>1, <1>2
<1>5. D!InUse(t)' = {}
  <2>1. DOMAIN d_frames'[t] = {} BY <1>3
  <2> QED BY <2>1 DEF D!InUse
<1>6. IsFiniteSet({}) /\ Cardinality({}) = 0 BY FS_EmptySet
<1> QED BY <1>2, <1>3, <1>4, <1>5, <1>6

\* The stacks that somebody knows of are the ones that are held or free.
LEMMA KnownStacks ==
    ASSUME DispInv
    PROVE  D!Known \ {0} = AllStacks /\ AllStacks \subseteq Stacks
<1>1. 0 \notin Stacks BY DispatchAssumption
<1>2. \A t \in Threads : D!InUse(t) \subseteq Stacks BY FramesOf DEF DispInv
<1>3. d_free \in Seq(Stacks) BY DEF DispInv, StackInv, StackTypes
<1>4. ToSet(d_free) \subseteq Stacks BY <1>3, ListElements
<1>5. {d_free[i] : i \in DOMAIN d_free} = ToSet(d_free) BY DEF ToSet
<1>6. D!Known = (UNION {D!InUse(t) \cup {d_exitK[t], d_execK[t]} : t \in Threads}) \cup ToSet(d_free)
  BY <1>5, Zenon DEF D!Known
<1>7. \A t \in Threads : Holds(t) = (D!InUse(t) \cup {d_exitK[t], d_execK[t]}) \ {0}
  BY <1>1, <1>2 DEF Holds
<1>8. D!Known \ {0} = AllStacks BY <1>1, <1>4, <1>6, <1>7 DEF AllStacks
<1>9. \A t \in Threads : Holds(t) \subseteq Stacks
  BY <1>2 DEF Holds, DispInv, StackInv, StackTypes
<1> QED BY <1>4, <1>8, <1>9 DEF AllStacks

\* The call takes a stack from the free list or a new one, and saves the descriptor.
LEMMA Disp_Enter ==
    ASSUME DispInv, NEW t \in Threads, D!Enter(t)
    PROVE  DispInv'
<1>1. PICK k \in Stacks :
         /\ D!GetKstack(k)
         /\ d_frames' = [d_frames EXCEPT ![t] =
               <<[k |-> k, crt |-> IF d_area THEN d_fs[t] ELSE "none", from |-> d_ph[t],
                  at |-> "before", mask |-> {}]>> \o @]
  BY DEF D!Enter
<1> DEFINE e == [k |-> k, crt |-> IF d_area THEN d_fs[t] ELSE "none", from |-> d_ph[t],
                 at |-> "before", mask |-> {}]
           since == IF d_times[t].leave = 0 THEN d_times[t].start ELSE d_times[t].leave
<1>a. /\ d_ph[t] \in {"user", "handler"}
      /\ d_fs' = [d_fs EXCEPT ![t] = "target"] /\ d_ph' = [d_ph EXCEPT ![t] = "before"]
      /\ d_odd' = IF d_ph[t] = "handler" THEN d_odd \cup {t} ELSE d_odd
      /\ UNCHANGED <<d_crt, d_own, d_area, d_exitK, d_execK, d_now, d_sig, d_handler, d_unmaps,
                     d_mapped, d_left>>
      /\ D!TimesEnter(t)
  BY DEF D!Enter, D!UserPhases
<1>b. /\ e \in Frame /\ e.k = k /\ e.from = d_ph[t]
      /\ e.crt = IF d_area THEN d_fs[t] ELSE "none"
  <2>1. d_fs[t] \in Registers BY DEF DispInv, CallTypes
  <2>2. (IF d_area THEN d_fs[t] ELSE "none") \in Registers \cup {"none"} BY <2>1
  <2> QED BY <1>a, <2>2 DEF Frame
<1>c. d_frames' = [d_frames EXCEPT ![t] = <<e>> \o d_frames[t]] BY <1>1
<1> HIDE DEF e
<1>d. /\ StackInv /\ StackTypes /\ Owned(t) /\ StacksApart BY DEF DispInv, StackInv
<1>e. /\ d_exitK[t] = 0 /\ 0 \notin Stacks BY <1>a, <1>d, DispatchAssumption DEF Owned
<1>f. /\ d_free' \in Seq(Stacks) /\ IsInjective(d_free')
      /\ \/ /\ k \in ToSet(d_free) /\ ToSet(d_free') = ToSet(d_free) \ {k} /\ d_made' = d_made
         \/ /\ k \notin AllStacks /\ d_free' = d_free /\ d_made' = d_made + 1
  <2>1. CASE d_free = <<>>
    <3>1. k \in D!Fresh /\ d_free' = d_free /\ d_made' = d_made + 1
      BY <1>1, <2>1 DEF D!GetKstack
    <3>2. k \notin AllStacks BY <1>e, <3>1, KnownStacks DEF D!Fresh
    <3> QED BY <1>d, <3>1, <3>2 DEF StackTypes
  <2>2. CASE d_free # <<>>
    <3>1. k = Head(d_free) /\ d_free' = Tail(d_free) /\ d_made' = d_made
      BY <1>1, <2>2 DEF D!GetKstack
    <3>2. d_free \in Seq(Stacks) /\ IsInjective(d_free) BY <1>d DEF StackTypes
    <3>3. /\ Head(d_free) \in ToSet(d_free) /\ Tail(d_free) \in Seq(Stacks)
          /\ IsInjective(Tail(d_free)) /\ ToSet(Tail(d_free)) = ToSet(d_free) \ {Head(d_free)}
      BY <2>2, <3>2, ListTail
    <3>4. d_free' \in Seq(Stacks) /\ IsInjective(d_free') BY <3>1, <3>3, Zenon
    <3>5. k \in ToSet(d_free) /\ ToSet(d_free') = ToSet(d_free) \ {k} BY <3>1, <3>3
    <3> QED BY <3>1, <3>4, <3>5
  <2> QED BY <2>1, <2>2
<1>g. k \notin Holds(t) BY <1>d, <1>f DEF StacksApart, AllStacks
<1>h. /\ d_frames' \in [Threads -> Seq(Frame)]
      /\ d_frames'[t] # <<>> /\ Len(d_frames'[t]) = Len(d_frames[t]) + 1
      /\ d_frames'[t][1] = e
      /\ \A i \in 1..Len(d_frames[t]) : d_frames'[t][i + 1] = d_frames[t][i]
      /\ \A u \in Threads \ {t} : d_frames'[u] = d_frames[u]
      /\ D!InUse(t)' = D!InUse(t) \cup {k}
      /\ \A i, j \in 1..Len(d_frames'[t]) : d_frames'[t][i].k = d_frames'[t][j].k => i = j
      /\ IsFiniteSet(D!InUse(t))' /\ Cardinality(D!InUse(t))' = Len(d_frames'[t])
  BY <1>b, <1>c, <1>g, CallPush DEF Holds
<1>i. Len(d_frames[t]) \in Nat /\ (d_frames[t] = <<>> <=> Len(d_frames[t]) = 0)
  BY FramesOf DEF DispInv
<1>j. Nested(t) BY DEF DispInv, CallsNested
<1>k. d_ph[t] = "user" => Len(d_frames[t]) = 0 BY <1>i, <1>j DEF Nested, Outside
<1>l. d_ph[t] = "handler" => Len(d_frames[t]) # 0 BY <1>i, <1>j DEF Nested, Outside
<1>2. CallTypes'
  <2>1. d_ph' \in [Threads -> CallPhases] BY <1>a DEF DispInv, CallTypes, CallPhases
  <2>2. d_fs' \in [Threads -> Registers] BY <1>a DEF DispInv, CallTypes, Registers
  <2>3. d_odd' \subseteq Threads BY <1>a DEF DispInv, CallTypes
  <2> QED BY <1>a, <1>h, <2>1, <2>2, <2>3 DEF DispInv, CallTypes
<1>3. CallsNested'
  <2>1. ASSUME NEW u \in Threads, u # t PROVE Nested(u)'
    BY <1>a, <1>h, <2>1, NestedKept DEF DispInv, CallsNested, CallTypes
  <2>2. d_ph'[t] = "before" /\ d_own'[t] = d_own[t] /\ d_crt'[t] = d_crt[t]
    BY <1>a DEF DispInv, CallTypes
  <2>3. /\ e.from = "user" <=> 1 = Len(d_frames[t]) + 1
        /\ e.from = "user" => e.crt = d_own[t] \/ (e.crt = "none" /\ d_own[t] = "target")
        /\ e.from = "handler" => e.crt = "crt" /\ d_crt[t] = "crt"
    <3>1. e.from = "user" <=> 1 = Len(d_frames[t]) + 1 BY <1>a, <1>b, <1>i, <1>k, <1>l
    <3>2. d_ph[t] = "user" => d_fs[t] = d_own[t] BY DEF DispInv, D!FsExact
    <3>3. d_ph[t] = "handler" => d_fs[t] = "crt" /\ d_crt[t] = "crt" /\ d_area
      BY DEF DispInv, D!FsExact, AreasKnown
    <3>4. ~d_area => d_own[t] = "target" BY DEF DispInv, AreasKnown
    <3> QED BY <1>b, <3>1, <3>2, <3>3, <3>4
  <2>4. ASSUME NEW j \in 1..Len(d_frames'[t])
        PROVE  /\ d_frames'[t][j].from = "user" <=> j = Len(d_frames'[t])
               /\ d_frames'[t][j].from = "user" =>
                     \/ d_frames'[t][j].crt = d_own[t]
                     \/ d_frames'[t][j].crt = "none" /\ d_own[t] = "target"
               /\ d_frames'[t][j].from = "handler" =>
                     d_frames'[t][j].crt = "crt" /\ d_crt[t] = "crt"
    <3>1. CASE j = 1 BY <1>h, <2>3, <3>1
    <3>2. CASE j # 1
      <4>1. PICK i \in 1..Len(d_frames[t]) : j = i + 1
        <5>1. j - 1 \in 1..Len(d_frames[t]) /\ j = (j - 1) + 1 BY <1>h, <1>i, <3>2
        <5> QED BY <5>1
      <4>2. d_frames'[t][j] = d_frames[t][i] BY <1>h, <4>1
      <4>3. i = Len(d_frames[t]) <=> j = Len(d_frames'[t]) BY <1>h, <1>i, <4>1
      <4> QED BY <1>j, <4>2, <4>3 DEF Nested
    <3> QED BY <3>1, <3>2
  <2>5. Nested(t)' BY <1>h, <2>2, <2>4 DEF Nested, Outside
  <2> QED BY <2>1, <2>5 DEF CallsNested
<1>4. AreasKnown' BY <1>a DEF DispInv, CallTypes, AreasKnown
<1>5. SoleThread'
  <2>1. \A u \in Threads \ {t} : d_ph'[u] = d_ph[u] /\ d_frames'[u] = d_frames[u]
    BY <1>a, <1>h DEF DispInv, CallTypes
  <2>2. d_ph'[t] = "before" BY <1>a DEF DispInv, CallTypes
  <2>3. d_own[t] = "target" => Len(d_frames'[t]) <= 1
    BY <1>a, <1>h, <1>k DEF DispInv, SoleThread, Ended
  <2> QED BY <1>a, <2>1, <2>2, <2>3 DEF DispInv, SoleThread, Ended
<1>6. MasksEmpty'
  <2>1. \A u \in Threads \ {t} : d_ph'[u] = d_ph[u] /\ d_frames'[u] = d_frames[u]
    BY <1>a, <1>h DEF DispInv, CallTypes
  <2>2. d_ph'[t] = "before" BY <1>a DEF DispInv, CallTypes
  <2>3. t \notin d_odd' => Len(d_frames'[t]) <= 1 BY <1>a, <1>h, <1>k
  <2>4. \A u \in Threads \ d_odd' : u \in Threads \ d_odd BY <1>a
  <2>5. \A u \in Threads \ d_odd' : Len(d_frames'[u]) <= 1
    BY <2>1, <2>3, <2>4 DEF DispInv, MasksEmpty
  <2>6. \A u \in Threads \ {t} : ~d_sig'[u].lost => MaskOf(u)'
    BY <1>a, <2>1 DEF DispInv, MasksEmpty, MaskOf
  <2>7. ~d_sig[t].lost => /\ d_sig[t].orig = {}
                          /\ d_ph[t] = "user" => d_sig[t].mask = {}
    BY <1>a DEF DispInv, MasksEmpty, MaskOf
  <2>8. d_ph[t] = "handler" => Len(d_frames'[t]) # 1 BY <1>h, <1>i, <1>l
  <2>9. d_sig' = d_sig BY <1>a
  <2>10. ~d_sig'[t].lost => MaskOf(t)'
    BY <1>a, <2>2, <2>7, <2>8, <2>9, Zenon DEF MaskOf
  <2> QED BY <2>5, <2>6, <2>10 DEF MasksEmpty
<1>7. D!FsExact' BY <1>a DEF DispInv, CallTypes, D!FsExact, D!KernelPhases
<1>m. /\ d_times[t].start \in Nat \ {0} /\ d_times[t].enter \in Nat /\ d_times[t].leave \in Nat
      /\ d_times[t].start <= d_times[t].enter /\ d_times[t].enter <= d_now /\ d_now \in Nat
      /\ d_times[t].leave # 0 => d_times[t].start <= d_times[t].leave /\ d_times[t].leave <= d_now
      /\ d_total.user \in Int /\ d_total.system \in Int
  BY DEF DispInv, TimesOrdered
<1>n. since \in Nat \ {0} /\ d_times[t].start <= since /\ since <= d_now BY <1>m
<1>o. /\ d_times' = [d_times EXCEPT ![t].enter = d_now, ![t].leave = since]
      /\ d_total' = [d_total EXCEPT !.user = @ + d_now - since]
  BY <1>a DEF D!TimesEnter
<1> HIDE DEF since
<1>p. /\ d_times'[t].start = d_times[t].start /\ d_times'[t].enter = d_now
      /\ d_times'[t].leave = since /\ \A u \in Threads \ {t} : d_times'[u] = d_times[u]
  BY <1>o DEF DispInv, TimesOrdered
<1>q. d_total'.user = d_total.user + d_now - since /\ d_total'.system = d_total.system
  BY <1>o DEF DispInv, TimesOrdered
<1>8. TimesOrdered'
  <2>1. d_total' \in [user : Int, system : Int]
    BY <1>m, <1>n, <1>o DEF DispInv, TimesOrdered
  <2>2. [d_times[t] EXCEPT !.enter = d_now, !.leave = since]
           \in [start : Nat \ {0}, enter : Nat, leave : Nat]
    BY <1>m, <1>n DEF DispInv, TimesOrdered
  <2>3. d_times' = [d_times EXCEPT ![t] = [d_times[t] EXCEPT !.enter = d_now, !.leave = since]]
    BY <1>o DEF DispInv, TimesOrdered
  <2>4. d_times' \in [Threads -> [start : Nat \ {0}, enter : Nat, leave : Nat]]
    BY <2>2, <2>3 DEF DispInv, TimesOrdered
  <2> QED BY <1>a, <1>m, <1>n, <1>p, <2>1, <2>4 DEF DispInv, TimesOrdered
<1>9. D!TimesExact'
  <2> DEFINE n == d_now - since
  <2>1. n \in Nat BY <1>m, <1>n
  <2>2. d_total'.user + d_total'.system = d_total.user + d_total.system + n BY <1>m, <1>n, <1>q
  <2>3. \A u \in Threads \ {t} : D!Accounted(u)' = D!Accounted(u)
    BY <1>a, <1>p DEF DispInv, CallTypes, D!Accounted
  <2>4. ASSUME d_odd' = {} PROVE D!Accounted(t)' = D!Accounted(t) + n
    <3>1. d_ph[t] = "user" BY <1>a, <2>4
    <3>2. D!Accounted(t) = since - d_times[t].start BY <3>1 DEF D!Accounted, since
    <3>3. d_ph'[t] = "before" BY <1>a DEF DispInv, CallTypes
    <3>4. D!Accounted(t)' = d_now - d_times[t].start BY <1>p, <3>3 DEF D!Accounted
    <3> QED BY <1>m, <1>n, <3>2, <3>4
  <2>5. d_odd' = {} => d_odd = {} BY <1>a
  <2> HIDE DEF n
  <2> QED BY <1>8, <2>1, <2>2, <2>3, <2>4, <2>5, TimesMoved DEF DispInv
<1>10. StackInv'
  <2>1. StackTypes' BY <1>a, <1>d, <1>f DEF StackTypes
  <2>2. Holds(t)' = Holds(t) \cup {k} BY <1>a, <1>h DEF Holds
  <2>3. Owned(t)' BY <1>a, <1>d, <1>e, <1>g, <1>h DEF Owned, Holds
  <2>4. \A u \in Threads \ {t} :
           /\ d_frames'[u] = d_frames[u] /\ d_exitK'[u] = d_exitK[u]
           /\ d_execK'[u] = d_execK[u] /\ d_ph'[u] = d_ph[u]
    BY <1>a, <1>h DEF DispInv, CallTypes
  <2>5. Holds(t) \cap ToSet(d_free) = {} BY <1>d DEF StacksApart
  <2>6. CASE k \in ToSet(d_free) /\ ToSet(d_free') = ToSet(d_free) \ {k} /\ d_made' = d_made
    <3>1. Holds(t)' \cap ToSet(d_free)' = {} BY <2>2, <2>5, <2>6
    <3>2. Holds(t)' \cup ToSet(d_free)' = Holds(t) \cup ToSet(d_free) \cup {} BY <2>2, <2>6
    <3>3. IsFiniteSet({}) /\ Cardinality({}) = 0 /\ {} \cap AllStacks = {} BY FS_EmptySet
    <3>4. d_made' = d_made + Cardinality({}) BY <1>d, <2>6, <3>3 DEF StackTypes
    <3> QED BY <1>a, <1>d, <2>1, <2>3, <2>4, <3>1, <3>2, <3>3, <3>4, StacksMoved
  <2>7. CASE k \notin AllStacks /\ d_free' = d_free /\ d_made' = d_made + 1
    <3>1. k \notin ToSet(d_free) BY <2>7 DEF AllStacks
    <3>2. Holds(t)' \cap ToSet(d_free)' = {} BY <2>2, <2>5, <2>7, <3>1
    <3>3. Holds(t)' \cup ToSet(d_free)' = Holds(t) \cup ToSet(d_free) \cup {k} BY <2>2, <2>7
    <3>4. IsFiniteSet({k}) /\ Cardinality({k}) = 1 BY FS_Singleton
    <3>5. {k} \cap AllStacks = {} BY <2>7
    <3>6. d_made' = d_made + Cardinality({k}) BY <2>7, <3>4
    <3> QED BY <1>a, <1>d, <2>1, <2>3, <2>4, <3>2, <3>3, <3>4, <3>5, <3>6, StacksMoved
  <2> QED BY <1>f, <2>6, <2>7
<1>11. D!DescriptorKept' BY <1>a DEF DispInv, CallTypes, D!DescriptorKept
<1> QED BY <1>2, <1>3, <1>4, <1>5, <1>6, <1>7, <1>8, <1>9, <1>10, <1>11 DEF DispInv

\* A stack goes back to the list, unless there is none.
LEMMA PutStack ==
    ASSUME NEW q \in Seq(Stacks), IsInjective(q), NEW k \in Stacks \cup {0}, k \notin ToSet(q)
    PROVE  /\ D!PutKstack(k, q) \in Seq(Stacks) /\ IsInjective(D!PutKstack(k, q))
           /\ ToSet(D!PutKstack(k, q)) = ToSet(q) \cup ({k} \ {0})
<1>0. 0 \notin Stacks BY DispatchAssumption
<1>1. CASE k = 0
  <2>1. D!PutKstack(k, q) = q BY <1>1 DEF D!PutKstack
  <2>2. D!PutKstack(k, q) \in Seq(Stacks) /\ IsInjective(D!PutKstack(k, q)) BY <2>1, Zenon
  <2>3. ToSet(D!PutKstack(k, q)) = ToSet(q) BY <2>1, Zenon
  <2> QED BY <1>1, <2>2, <2>3
<1>2. CASE k # 0
  <2>1. D!PutKstack(k, q) = <<k>> \o q BY <1>2 DEF D!PutKstack
  <2>2. k \in Stacks BY <1>2
  <2>3. /\ <<k>> \o q \in Seq(Stacks) /\ IsInjective(<<k>> \o q)
        /\ ToSet(<<k>> \o q) = ToSet(q) \cup {k}
    BY <2>2, ListPush
  <2>4. D!PutKstack(k, q) \in Seq(Stacks) /\ IsInjective(D!PutKstack(k, q)) BY <2>1, <2>3, Zenon
  <2>5. ToSet(D!PutKstack(k, q)) = ToSet(q) \cup {k} BY <2>1, <2>3, Zenon
  <2> QED BY <1>2, <2>4, <2>5
<1> QED BY <1>1, <1>2

\* No new stack comes with a step.
LEMMA StacksPassed ==
    ASSUME StackInv, StackTypes', NEW t \in Threads, Owned(t)',
           \A u \in Threads \ {t} :
              /\ d_frames'[u] = d_frames[u] /\ d_exitK'[u] = d_exitK[u]
              /\ d_execK'[u] = d_execK[u] /\ d_ph'[u] = d_ph[u],
           Holds(t)' \cap ToSet(d_free)' = {},
           Holds(t)' \cup ToSet(d_free)' \subseteq Holds(t) \cup ToSet(d_free),
           ~d_left' => /\ ~d_left /\ d_made' = d_made
                       /\ Holds(t)' \cup ToSet(d_free)' = Holds(t) \cup ToSet(d_free)
    PROVE  StackInv'
<1>1. IsFiniteSet({}) /\ Cardinality({}) = 0 BY FS_EmptySet
<1>2. {} \cap AllStacks = {} OBVIOUS
<1>3. d_made \in Nat BY DEF StackInv, StackTypes
<1>4. d_made + Cardinality({}) = d_made BY <1>1, <1>3
<1>5. Holds(t) \cup ToSet(d_free) \cup {} = Holds(t) \cup ToSet(d_free) OBVIOUS
<1> QED BY <1>1, <1>2, <1>4, <1>5, StacksMoved

\* The only number that is neither 0 nor more than 1.
LEMMA OnlyOne == ASSUME NEW n \in Nat, n # 0, n <= 1 PROVE n = 1
OBVIOUS

\* The call gives its stack back and restores the descriptor.
LEMMA Disp_Leave ==
    ASSUME DispInv, NEW t \in Threads, D!Leave(t)
    PROVE  DispInv'
<1> DEFINE f == d_frames[t][1] k == d_frames[t][1].k
<1>a. d_ph[t] = "after" BY DEF D!Leave
<1>b. /\ D!Top(t) = f /\ f.from \in {"user", "handler"} /\ f.crt \in Registers \cup {"none"}
      /\ k \in Stacks /\ (f.from = "user" <=> Len(d_frames[t]) = 1)
      /\ f.from = "user" => f.crt = d_own[t] \/ (f.crt = "none" /\ d_own[t] = "target")
      /\ f.from = "handler" => f.crt = "crt" /\ d_crt[t] = "crt"
      /\ Len(d_frames[t]) \in Nat /\ Len(d_frames[t]) # 0
  BY <1>a, TopFacts DEF Outside
<1>l. Len(d_frames[t]) \in Nat /\ Len(d_frames[t]) # 0 BY <1>a, TopFacts DEF Outside
<1>c. /\ d_fs' = [d_fs EXCEPT ![t] = D!Restored(t)] /\ d_ph' = [d_ph EXCEPT ![t] = f.from]
      /\ d_free' = D!PutKstack(k, d_free)
      /\ d_frames' = [d_frames EXCEPT ![t] = Tail(d_frames[t])]
      /\ UNCHANGED <<d_made, d_crt, d_own, d_area, d_exitK, d_execK, d_now, d_sig, d_handler,
                     d_unmaps, d_mapped, d_odd, d_left>>
      /\ D!TimesLeave(t)
  BY <1>b DEF D!Leave
<1>d. /\ d_frames' \in [Threads -> Seq(Frame)]
      /\ d_frames'[t] = <<>> <=> Len(d_frames[t]) = 1
      /\ Len(d_frames'[t]) = Len(d_frames[t]) - 1
      /\ \A i \in 1..(Len(d_frames[t]) - 1) :
            /\ i + 1 \in 1..Len(d_frames[t]) /\ d_frames'[t][i] = d_frames[t][i + 1]
      /\ \A u \in Threads \ {t} : d_frames'[u] = d_frames[u]
      /\ k \in D!InUse(t)
      /\ D!InUse(t)' = D!InUse(t) \ {k}
      /\ \A i, j \in 1..Len(d_frames'[t]) : d_frames'[t][i].k = d_frames'[t][j].k => i = j
      /\ IsFiniteSet(D!InUse(t))' /\ Cardinality(D!InUse(t))' = Len(d_frames'[t])
  BY <1>a, <1>c, CallPop DEF Outside
<1> HIDE DEF f, k
<1>e. d_fs[t] = "target" BY <1>a DEF DispInv, D!FsExact, D!KernelPhases
<1>f. /\ D!Restored(t) \in Registers
      /\ f.from = "user" => D!Restored(t) = d_own[t]
      /\ f.from = "handler" => D!Restored(t) = "crt"
  <2>1. D!Restored(t) = IF f.crt = "none" THEN "target" ELSE f.crt BY <1>b, <1>e DEF D!Restored
  <2>2. d_own[t] \in Registers BY DEF DispInv, CallTypes
  <2>3. D!Restored(t) \in Registers
    <3>1. f.crt \in Registers \cup {"none"} BY <1>b, Zenon
    <3> QED BY <2>1, <3>1 DEF Registers
  <2>4. f.from = "user" => f.crt = d_own[t] \/ (f.crt = "none" /\ d_own[t] = "target")
    BY <1>b, Zenon
  <2>5. f.from = "handler" => f.crt = "crt" BY <1>b, Zenon
  <2>6. f.from = "user" => D!Restored(t) = d_own[t] BY <2>1, <2>2, <2>4 DEF Registers
  <2>7. f.from = "handler" => D!Restored(t) = "crt" BY <2>1, <2>5
  <2> QED BY <2>3, <2>6, <2>7
<1>g. d_ph'[t] = f.from /\ d_fs'[t] = D!Restored(t)
      /\ \A u \in Threads \ {t} : d_ph'[u] = d_ph[u] /\ d_fs'[u] = d_fs[u]
  BY <1>c DEF DispInv, CallTypes
<1>1. CallTypes'
  <2>1. d_ph' \in [Threads -> CallPhases] BY <1>b, <1>c DEF DispInv, CallTypes, CallPhases
  <2>2. d_fs' \in [Threads -> Registers] BY <1>c, <1>f DEF DispInv, CallTypes
  <2> QED BY <1>c, <1>d, <2>1, <2>2 DEF DispInv, CallTypes
<1>2. CallsNested'
  <2>1. ASSUME NEW u \in Threads, u # t PROVE Nested(u)'
    <3>1. Nested(u) BY DEF DispInv, CallsNested
    <3>2. /\ d_frames'[u] = d_frames[u] /\ d_own'[u] = d_own[u] /\ d_crt'[u] = d_crt[u]
          /\ d_ph'[u] = d_ph[u]
      BY <1>c, <1>d, <1>g, <2>1
    <3> QED BY <3>1, <3>2, NestedKept
  <2>2. Nested(t) BY DEF DispInv, CallsNested
  <2>3. ASSUME NEW i \in 1..Len(d_frames'[t])
        PROVE  /\ d_frames'[t][i].from = "user" <=> i = Len(d_frames'[t])
               /\ d_frames'[t][i].from = "user" =>
                     \/ d_frames'[t][i].crt = d_own[t]
                     \/ d_frames'[t][i].crt = "none" /\ d_own[t] = "target"
               /\ d_frames'[t][i].from = "handler" =>
                     d_frames'[t][i].crt = "crt" /\ d_crt[t] = "crt"
    <3>1. i + 1 \in 1..Len(d_frames[t]) /\ d_frames'[t][i] = d_frames[t][i + 1] BY <1>d
    <3>2. i + 1 = Len(d_frames[t]) <=> i = Len(d_frames'[t]) BY <1>b, <1>d
    <3> QED BY <2>2, <3>1, <3>2 DEF Nested
  <2>4. d_frames'[t] = <<>> <=> d_ph'[t] \in Outside BY <1>b, <1>d, <1>g DEF Outside
  <2>5. Nested(t)' BY <1>c, <2>3, <2>4 DEF Nested
  <2> QED BY <2>1, <2>5 DEF CallsNested
<1>3. AreasKnown' BY <1>b, <1>c, <1>g DEF DispInv, AreasKnown
<1>4. SoleThread'
  <2>0. d_own[t] = "target" => Len(d_frames[t]) <= 1 BY <1>a DEF DispInv, SoleThread, Ended
  <2>1. d_own[t] = "target" => Len(d_frames[t]) = 1 BY <1>l, <2>0, OnlyOne, Zenon
  <2>2. d_own[t] = "target" => d_ph'[t] = "user" /\ Len(d_frames'[t]) <= 1
    BY <1>b, <1>d, <1>g, <2>1
  <2> QED BY <1>a, <1>c, <1>d, <1>g, <2>2 DEF DispInv, SoleThread, Ended
<1>5. MasksEmpty'
  <2>0. t \notin d_odd => Len(d_frames[t]) <= 1 BY DEF DispInv, MasksEmpty
  <2>1. t \notin d_odd => Len(d_frames'[t]) <= 1 BY <1>d, <1>l, <2>0
  <2>2. \A u \in Threads \ d_odd' : Len(d_frames'[u]) <= 1
    BY <1>c, <1>d, <2>1 DEF DispInv, MasksEmpty
  <2>3. \A u \in Threads \ {t} : ~d_sig'[u].lost => MaskOf(u)'
    BY <1>c, <1>d, <1>g DEF DispInv, MasksEmpty, MaskOf
  <2>4. ~d_sig[t].lost => /\ d_sig[t].orig = {}
                          /\ Len(d_frames[t]) = 1 => d_sig[t].mask = {}
    BY <1>a DEF DispInv, MasksEmpty, MaskOf
  <2>5. /\ d_ph'[t] \in {"user", "handler"} /\ d_sig' = d_sig
        /\ d_ph'[t] = "user" => Len(d_frames[t]) = 1
    BY <1>b, <1>c, <1>g
  <2>6. ~d_sig'[t].lost => MaskOf(t)' BY <2>4, <2>5 DEF MaskOf
  <2> QED BY <2>2, <2>3, <2>6 DEF MasksEmpty
<1>6. D!FsExact' BY <1>b, <1>c, <1>f, <1>g DEF DispInv, D!FsExact, D!KernelPhases
<1>m. /\ d_times[t].start \in Nat \ {0} /\ d_times[t].enter \in Nat /\ d_times[t].leave \in Nat
      /\ d_times[t].start <= d_times[t].enter /\ d_times[t].enter <= d_now /\ d_now \in Nat \ {0}
      /\ d_total.user \in Int /\ d_total.system \in Int
  BY DEF DispInv, TimesOrdered
<1>o. /\ d_times' = [d_times EXCEPT ![t].leave = d_now]
      /\ d_total' = [d_total EXCEPT !.system = @ + d_now - d_times[t].enter]
  BY <1>c DEF D!TimesLeave
<1>p. /\ d_times'[t].start = d_times[t].start /\ d_times'[t].enter = d_times[t].enter
      /\ d_times'[t].leave = d_now /\ \A u \in Threads \ {t} : d_times'[u] = d_times[u]
  BY <1>o DEF DispInv, TimesOrdered
<1>q. /\ d_total'.system = d_total.system + d_now - d_times[t].enter
      /\ d_total'.user = d_total.user
  BY <1>o DEF DispInv, TimesOrdered
<1>7. TimesOrdered'
  <2>1. d_total' \in [user : Int, system : Int] BY <1>m, <1>o DEF DispInv, TimesOrdered
  <2>2. d_times' \in [Threads -> [start : Nat \ {0}, enter : Nat, leave : Nat]]
    BY <1>m, <1>o DEF DispInv, TimesOrdered
  <2>3. ASSUME NEW u \in Threads
        PROVE  /\ d_times'[u].start <= d_times'[u].enter /\ d_times'[u].enter <= d_now
               /\ d_times'[u].leave # 0 =>
                     d_times'[u].start <= d_times'[u].leave /\ d_times'[u].leave <= d_now
    <3>1. CASE u = t BY <1>m, <1>p, <3>1
    <3>2. CASE u # t BY <1>p, <3>2 DEF DispInv, TimesOrdered
    <3> QED BY <3>1, <3>2
  <2> QED BY <1>c, <1>m, <2>1, <2>2, <2>3 DEF TimesOrdered
<1>8. D!TimesExact'
  <2> DEFINE n == d_now - d_times[t].enter
  <2>1. n \in Nat BY <1>m
  <2>2. d_total'.user + d_total'.system = d_total.user + d_total.system + n BY <1>m, <1>q
  <2>3. \A u \in Threads \ {t} : D!Accounted(u)' = D!Accounted(u)
    BY <1>g, <1>p DEF D!Accounted
  <2>4. ASSUME d_odd' = {} PROVE D!Accounted(t)' = D!Accounted(t) + n
    <3>0. Len(d_frames[t]) <= 1 BY <1>c, <2>4 DEF DispInv, MasksEmpty, MaskOf
    <3>1. Len(d_frames[t]) = 1 BY <1>l, <3>0, OnlyOne, Zenon
    <3>2. d_ph'[t] = "user" BY <1>b, <1>g, <3>1
    <3>3. D!Accounted(t) = d_times[t].enter - d_times[t].start BY <1>a DEF D!Accounted
    <3>4. D!Accounted(t)' = d_now - d_times[t].start BY <1>m, <1>p, <3>2 DEF D!Accounted
    <3> QED BY <1>m, <3>3, <3>4
  <2>5. d_odd' = {} => d_odd = {} BY <1>c
  <2> HIDE DEF n
  <2> QED BY <1>7, <2>1, <2>2, <2>3, <2>4, <2>5, TimesMoved DEF DispInv
<1>9. StackInv'
  <2>1. /\ StackInv /\ StackTypes /\ Owned(t) /\ Holds(t) \cap ToSet(d_free) = {}
    BY DEF DispInv, StackInv, StacksApart
  <2>2. d_exitK[t] = 0 /\ 0 \notin Stacks BY <1>a, <2>1, DispatchAssumption DEF Owned
  <2>3. k \in Holds(t) /\ k # d_execK[t] BY <1>d, <2>1 DEF Holds, Owned
  <2>4. /\ d_free \in Seq(Stacks) /\ IsInjective(d_free) /\ k \in Stacks \cup {0}
        /\ k \notin ToSet(d_free)
    BY <1>b, <2>1, <2>3 DEF StackTypes
  <2>5. /\ d_free' \in Seq(Stacks) /\ IsInjective(d_free')
        /\ ToSet(d_free') = ToSet(d_free) \cup ({k} \ {0})
    BY <1>c, <2>4, PutStack, Zenon
  <2>6. StackTypes' BY <1>c, <2>1, <2>5 DEF StackTypes
  <2>7. Holds(t)' = Holds(t) \ {k} BY <1>c, <1>d, <2>2, <2>3 DEF Holds
  <2>8. Owned(t)' BY <1>c, <1>d, <2>1, <2>2 DEF Owned
  <2>9. \A u \in Threads \ {t} :
           /\ d_frames'[u] = d_frames[u] /\ d_exitK'[u] = d_exitK[u]
           /\ d_execK'[u] = d_execK[u] /\ d_ph'[u] = d_ph[u]
    BY <1>c, <1>d, <1>g
  <2>10. k # 0 BY <1>b, <2>2
  <2>11. Holds(t)' \cap ToSet(d_free)' = {} BY <2>1, <2>5, <2>7
  <2>12. Holds(t)' \cup ToSet(d_free)' = Holds(t) \cup ToSet(d_free)
    BY <2>3, <2>5, <2>7, <2>10
  <2> QED BY <1>c, <2>1, <2>6, <2>8, <2>9, <2>11, <2>12, StacksPassed
<1>10. D!DescriptorKept' BY <1>a, <1>c, <1>g DEF DispInv, D!DescriptorKept
<1> QED BY <1>1, <1>2, <1>3, <1>4, <1>5, <1>6, <1>7, <1>8, <1>9, <1>10 DEF DispInv

\* A thread that a signal kills leaves its calls, and their stacks, for good.
LEMMA Disp_Killed ==
    ASSUME DispInv, NEW t \in Threads, D!Killed(t)
    PROVE  DispInv'
<1>a. /\ d_ph[t] \in {"before", "after"} /\ d_ph' = [d_ph EXCEPT ![t] = "jumped"]
      /\ d_frames' = [d_frames EXCEPT ![t] = <<>>] /\ d_left' = TRUE
      /\ UNCHANGED <<d_made, d_fs, d_crt, d_own, d_area, d_free, d_exitK, d_execK, d_times,
                     d_total, d_now, d_sig, d_handler, d_unmaps, d_mapped, d_odd>>
  BY DEF D!Killed
<1>b. /\ d_frames' \in [Threads -> Seq(Frame)]
      /\ d_frames'[t] = <<>> /\ Len(d_frames'[t]) = 0
      /\ \A u \in Threads \ {t} : d_frames'[u] = d_frames[u]
      /\ D!InUse(t)' = {} /\ IsFiniteSet(D!InUse(t)') /\ Cardinality(D!InUse(t)') = 0
  BY <1>a, CallsDropped
<1>c. d_ph'[t] = "jumped" /\ \A u \in Threads \ {t} : d_ph'[u] = d_ph[u]
  BY <1>a DEF DispInv, CallTypes
<1>1. CallTypes'
  <2>1. d_ph' \in [Threads -> CallPhases] BY <1>a DEF DispInv, CallTypes, CallPhases
  <2> QED BY <1>a, <1>b, <2>1 DEF DispInv, CallTypes
<1>2. CallsNested'
  <2>1. ASSUME NEW u \in Threads, u # t PROVE Nested(u)'
    BY <1>a, <1>b, <1>c, <2>1, NestedKept DEF DispInv, CallsNested
  <2>2. Nested(t)' BY <1>b, <1>c DEF Nested, Outside
  <2> QED BY <2>1, <2>2 DEF CallsNested
<1>3. AreasKnown' BY <1>a, <1>c DEF DispInv, AreasKnown
<1>4. SoleThread' BY <1>a, <1>b, <1>c DEF DispInv, SoleThread, Ended
<1>5. MasksEmpty' BY <1>a, <1>b, <1>c DEF DispInv, MasksEmpty, MaskOf
<1>6. D!FsExact' BY <1>a, <1>c DEF DispInv, D!FsExact, D!KernelPhases
<1>7. TimesOrdered' BY <1>a DEF DispInv, TimesOrdered
<1>8. D!TimesExact'
  <2>1. \A u \in Threads : D!Accounted(u)' = D!Accounted(u) BY <1>a, <1>c DEF D!Accounted
  <2> QED BY <1>7, <1>a, <2>1, TimesKept DEF DispInv
<1>9. StackInv'
  <2>1. /\ StackInv /\ StackTypes /\ Owned(t) /\ Holds(t) \cap ToSet(d_free) = {}
    BY DEF DispInv, StackInv, StacksApart
  <2>2. d_exitK[t] = 0 BY <1>a, <2>1 DEF Owned
  <2>3. StackTypes' BY <1>a, <2>1 DEF StackTypes
  <2>4. Owned(t)' BY <1>a, <1>b, <2>2 DEF Owned
  <2>5. Holds(t)' \subseteq Holds(t) BY <1>a, <1>b DEF Holds
  <2>6. \A u \in Threads \ {t} :
           /\ d_frames'[u] = d_frames[u] /\ d_exitK'[u] = d_exitK[u]
           /\ d_execK'[u] = d_execK[u] /\ d_ph'[u] = d_ph[u]
    BY <1>a, <1>b, <1>c
  <2>7. ToSet(d_free)' = ToSet(d_free) BY <1>a
  <2>8. Holds(t)' \cap ToSet(d_free)' = {} BY <2>1, <2>5, <2>7
  <2>9. Holds(t)' \cup ToSet(d_free)' \subseteq Holds(t) \cup ToSet(d_free) BY <2>5, <2>7
  <2> QED BY <1>a, <2>1, <2>3, <2>4, <2>6, <2>8, <2>9, StacksPassed
<1>10. D!DescriptorKept' BY <1>a, <1>c DEF DispInv, D!DescriptorKept
<1> QED BY <1>1, <1>2, <1>3, <1>4, <1>5, <1>6, <1>7, <1>8, <1>9, <1>10 DEF DispInv

\* The stack of a call, and that it is the only one of a thread in one call.
LEMMA TopStack ==
    ASSUME DispInv, NEW t \in Threads, d_ph[t] \notin Outside
    PROVE  /\ D!Top(t).k \in D!InUse(t) /\ D!Top(t).k \in Stacks /\ D!Top(t).k # 0
           /\ Len(d_frames[t]) > 1 \/ D!InUse(t) = {D!Top(t).k}
<1>1. /\ D!Top(t) = d_frames[t][1] /\ 1 \in 1..Len(d_frames[t]) /\ d_frames[t][1].k \in Stacks
      /\ Len(d_frames[t]) \in Nat /\ Len(d_frames[t]) # 0
  BY TopFacts
<1>2. D!InUse(t) = {d_frames[t][i].k : i \in 1..Len(d_frames[t])} BY FramesOf DEF DispInv
<1>3. D!Top(t).k \in D!InUse(t) BY <1>1, <1>2
<1>4. D!Top(t).k \in Stacks /\ D!Top(t).k # 0 BY <1>1, DispatchAssumption
<1>5. ASSUME ~(Len(d_frames[t]) > 1) PROVE D!InUse(t) = {D!Top(t).k}
  <2> DEFINE n == Len(d_frames[t])
  <2>1. n \in Nat /\ n # 0 /\ ~(n > 1) BY <1>1, <1>5
  <2> HIDE DEF n
  <2>2. n = 1 BY <2>1
  <2>3. \A i \in 1..n : i = 1 BY <2>2
  <2>4. \A i \in 1..Len(d_frames[t]) : i = 1 BY <2>3 DEF n
  <2> QED BY <1>1, <1>2, <2>4
<1> QED BY <1>3, <1>4, <1>5

\* An exec keeps its call's stack, in the place of the one of the exec before.
LEMMA Disp_Exec ==
    ASSUME DispInv, NEW t \in Threads, D!Exec(t)
    PROVE  DispInv'
<1> DEFINE k == D!Top(t).k
<1>a. /\ d_ph[t] = "run" /\ \A u \in Threads \ {t} : d_ph[u] \in Ended
      /\ d_free' = D!PutKstack(d_execK[t], d_free) /\ d_execK' = [d_execK EXCEPT ![t] = k]
      /\ d_frames' = [d_frames EXCEPT ![t] = <<>>]
      /\ d_left' = (d_left \/ Len(d_frames[t]) > 1)
      /\ d_own' = [d_own EXCEPT ![t] = "target"] /\ d_handler' = FALSE
      /\ d_ph' = [d_ph EXCEPT ![t] = "user"] /\ d_odd' = d_odd \cup {t}
      /\ d_sig' = [d_sig EXCEPT ![t].lost = @ \/ Len(d_frames[t]) > 1]
      /\ UNCHANGED <<d_made, d_fs, d_crt, d_area, d_exitK, d_times, d_total, d_now,
                     d_unmaps, d_mapped>>
  BY DEF D!Exec, D!ExecKeeps, Ended
<1>b. /\ d_frames' \in [Threads -> Seq(Frame)]
      /\ d_frames'[t] = <<>> /\ Len(d_frames'[t]) = 0
      /\ \A u \in Threads \ {t} : d_frames'[u] = d_frames[u]
      /\ D!InUse(t)' = {} /\ IsFiniteSet(D!InUse(t)') /\ Cardinality(D!InUse(t)') = 0
  BY <1>a, CallsDropped
<1>c. /\ d_ph'[t] = "user" /\ d_own'[t] = "target"
      /\ \A u \in Threads \ {t} : d_ph'[u] = d_ph[u] /\ d_own'[u] = d_own[u]
  BY <1>a DEF DispInv, CallTypes
<1>d. /\ k \in D!InUse(t) /\ k \in Stacks /\ k # 0 /\ (Len(d_frames[t]) > 1 \/ D!InUse(t) = {k})
  BY <1>a, TopStack DEF Outside
<1> HIDE DEF k
<1>s. /\ d_sig' \in [Threads -> SignalState]
      /\ \A u \in Threads \ {t} : d_sig'[u] = d_sig[u]
      /\ d_sig'[t].mask = d_sig[t].mask /\ d_sig'[t].orig = d_sig[t].orig
      /\ d_sig'[t].lost = (d_sig[t].lost \/ Len(d_frames[t]) > 1)
  <2> DEFINE l == d_sig[t].lost \/ Len(d_frames[t]) > 1
             s == [d_sig[t] EXCEPT !.lost = l]
  <2>1. d_sig[t] \in SignalState /\ l \in BOOLEAN BY DEF DispInv, CallTypes, SignalState
  <2>2. d_sig' = [d_sig EXCEPT ![t] = s] BY <1>a
  <2> HIDE DEF l
  <2>3. s \in SignalState /\ s.mask = d_sig[t].mask /\ s.orig = d_sig[t].orig /\ s.lost = l
    BY <2>1 DEF SignalState
  <2> HIDE DEF s
  <2>4. d_sig' \in [Threads -> SignalState] /\ d_sig'[t] = s
        /\ \A u \in Threads \ {t} : d_sig'[u] = d_sig[u]
    BY <2>2, <2>3 DEF DispInv, CallTypes
  <2> QED BY <2>3, <2>4 DEF l
<1>1. CallTypes'
  <2>1. d_ph' \in [Threads -> CallPhases] BY <1>a DEF DispInv, CallTypes, CallPhases
  <2>2. d_own' \in [Threads -> Registers] BY <1>a DEF DispInv, CallTypes, Registers
  <2> QED BY <1>a, <1>b, <1>s, <2>1, <2>2 DEF DispInv, CallTypes
<1>2. CallsNested'
  <2>1. ASSUME NEW u \in Threads, u # t PROVE Nested(u)'
    BY <1>a, <1>b, <1>c, <2>1, NestedKept DEF DispInv, CallsNested
  <2>2. Nested(t)' BY <1>b, <1>c DEF Nested, Outside
  <2> QED BY <2>1, <2>2 DEF CallsNested
<1>3. AreasKnown' BY <1>a, <1>c DEF DispInv, AreasKnown
<1>4. SoleThread' BY <1>a, <1>b, <1>c DEF DispInv, SoleThread, Ended
<1>5. MasksEmpty'
  <2>1. \A u \in Threads \ d_odd' : Len(d_frames'[u]) <= 1
    BY <1>a, <1>b DEF DispInv, MasksEmpty
  <2>2. \A u \in Threads \ {t} : ~d_sig'[u].lost => MaskOf(u)'
    BY <1>b, <1>c, <1>s DEF DispInv, MasksEmpty, MaskOf
  <2>3. Len(d_frames[t]) \in Nat /\ Len(d_frames[t]) # 0 BY <1>a, TopFacts DEF Outside
  <2>4. ~d_sig'[t].lost => ~d_sig[t].lost /\ Len(d_frames[t]) = 1
    <3>1. ~d_sig'[t].lost => ~d_sig[t].lost /\ ~(Len(d_frames[t]) > 1) BY <1>s
    <3> DEFINE n == Len(d_frames[t])
    <3>2. n \in Nat /\ n # 0 BY <2>3
    <3> HIDE DEF n
    <3>3. ~(n > 1) => n = 1 BY <3>2
    <3> QED BY <3>1, <3>3 DEF n
  <2>5. ~d_sig'[t].lost => d_sig[t].orig = {} /\ d_sig[t].mask = {}
    BY <1>a, <2>4 DEF DispInv, MasksEmpty, MaskOf
  <2>6. ~d_sig'[t].lost => MaskOf(t)' BY <1>c, <1>s, <2>5 DEF MaskOf
  <2> QED BY <2>1, <2>2, <2>6 DEF MasksEmpty
<1>6. D!FsExact' BY <1>a, <1>c DEF DispInv, D!FsExact, D!KernelPhases
<1>7. TimesOrdered' BY <1>a DEF DispInv, TimesOrdered
<1>8. D!TimesExact'
  <2>1. d_odd' # {} BY <1>a
  <2> QED BY <2>1 DEF D!TimesExact
<1>9. StackInv'
  <2>1. /\ StackInv /\ StackTypes /\ Owned(t) /\ Holds(t) \cap ToSet(d_free) = {}
    BY DEF DispInv, StackInv, StacksApart
  <2>2. /\ d_exitK[t] = 0 /\ d_execK[t] \in Stacks \cup {0} /\ d_execK[t] # k
    BY <1>a, <1>d, <2>1 DEF Owned, StackTypes
  <2>3. 0 \notin Stacks /\ ToSet(d_free) \subseteq Stacks
    BY <2>1, DispatchAssumption, ListElements DEF StackTypes
  <2>4. d_execK[t] \notin ToSet(d_free) BY <2>1, <2>2, <2>3 DEF Holds
  <2>5. d_free \in Seq(Stacks) /\ IsInjective(d_free) BY <2>1 DEF StackTypes
  <2>6. /\ d_free' \in Seq(Stacks) /\ IsInjective(d_free')
        /\ ToSet(d_free') = ToSet(d_free) \cup ({d_execK[t]} \ {0})
    BY <1>a, <2>2, <2>4, <2>5, PutStack, Zenon
  <2>7. StackTypes' BY <1>a, <1>d, <2>1, <2>6 DEF StackTypes
  <2>8. d_execK'[t] = k /\ d_exitK'[t] = 0 /\ \A u \in Threads \ {t} : d_execK'[u] = d_execK[u]
    BY <1>a, <2>1, <2>2 DEF StackTypes
  <2>9. Owned(t)' BY <1>b, <2>8 DEF Owned
  <2>10. Holds(t)' = {k} BY <1>b, <1>d, <2>8 DEF Holds
  <2>11. Holds(t) = D!InUse(t) \cup ({d_execK[t]} \ {0}) BY <2>2 DEF Holds
  <2>12. \A u \in Threads \ {t} :
           /\ d_frames'[u] = d_frames[u] /\ d_exitK'[u] = d_exitK[u]
           /\ d_execK'[u] = d_execK[u] /\ d_ph'[u] = d_ph[u]
    BY <1>a, <1>b, <1>c, <2>8
  <2>13. Holds(t)' \cap ToSet(d_free)' = {} BY <1>d, <2>1, <2>2, <2>6, <2>10, <2>11
  <2>14. Holds(t)' \cup ToSet(d_free)' \subseteq Holds(t) \cup ToSet(d_free)
    BY <1>d, <2>6, <2>10, <2>11
  <2>15. ASSUME ~d_left'
         PROVE  ~d_left /\ Holds(t)' \cup ToSet(d_free)' = Holds(t) \cup ToSet(d_free)
    BY <1>a, <1>d, <2>6, <2>10, <2>11, <2>15
  <2> QED BY <1>a, <2>1, <2>7, <2>9, <2>12, <2>13, <2>14, <2>15, StacksPassed
<1>10. D!DescriptorKept' BY <1>a, <1>c DEF DispInv, D!DescriptorKept
<1> QED BY <1>1, <1>2, <1>3, <1>4, <1>5, <1>6, <1>7, <1>8, <1>9, <1>10 DEF DispInv

\* An exit jumps out of its call and keeps the stack until the thread has ended.
LEMMA Disp_Exit ==
    ASSUME DispInv, NEW t \in Threads, NEW all \in BOOLEAN, D!Exit(t, all)
    PROVE  DispInv'
<1> DEFINE k == D!Top(t).k
<1>a. /\ d_ph[t] = "run" /\ d_ph' = [d_ph EXCEPT ![t] = "jumped"]
      /\ d_exitK' = [d_exitK EXCEPT ![t] = k]
      /\ d_frames' = [d_frames EXCEPT ![t] = <<>>]
      /\ d_left' = (d_left \/ Len(d_frames[t]) > 1)
      /\ UNCHANGED <<d_made, d_fs, d_crt, d_own, d_area, d_free, d_execK, d_times, d_total, d_now,
                     d_handler, d_unmaps, d_mapped, d_odd>>
  BY DEF D!Exit
<1>b. /\ d_frames' \in [Threads -> Seq(Frame)]
      /\ d_frames'[t] = <<>> /\ Len(d_frames'[t]) = 0
      /\ \A u \in Threads \ {t} : d_frames'[u] = d_frames[u]
      /\ D!InUse(t)' = {} /\ IsFiniteSet(D!InUse(t)') /\ Cardinality(D!InUse(t)') = 0
  BY <1>a, CallsDropped
<1>c. /\ d_ph'[t] = "jumped" /\ \A u \in Threads \ {t} : d_ph'[u] = d_ph[u]
  BY <1>a DEF DispInv, CallTypes
<1>d. /\ k \in D!InUse(t) /\ k \in Stacks /\ k # 0 /\ (Len(d_frames[t]) > 1 \/ D!InUse(t) = {k})
  BY <1>a, TopStack DEF Outside
<1> HIDE DEF k
<1>e. /\ d_sig' \in [Threads -> SignalState]
      /\ \A u \in Threads : /\ d_sig'[u].mask = d_sig[u].mask
                              /\ d_sig'[u].orig = d_sig[u].orig
                              /\ d_sig'[u].lost = d_sig[u].lost
  <2>1. d_sig' = [u \in Threads |->
                 IF all /\ u # t /\ d_ph[u] \notin {"none", "jumped", "gone"}
                 THEN [d_sig[u] EXCEPT !.pending = @ \cup {"kill"}] ELSE d_sig[u]]
    BY DEF D!Exit
  <2>2. ASSUME NEW u \in Threads
        PROVE  /\ d_sig[u] \in SignalState
               /\ [d_sig[u] EXCEPT !.pending = @ \cup {"kill"}] \in SignalState
               /\ [d_sig[u] EXCEPT !.pending = @ \cup {"kill"}].mask = d_sig[u].mask
               /\ [d_sig[u] EXCEPT !.pending = @ \cup {"kill"}].orig = d_sig[u].orig
               /\ [d_sig[u] EXCEPT !.pending = @ \cup {"kill"}].lost = d_sig[u].lost
    <3>1. d_sig[u] \in SignalState BY DEF DispInv, CallTypes
    <3>2. [d_sig[u] EXCEPT !.pending = @ \cup {"kill"}] \in SignalState
      BY <3>1 DEF SignalState
    <3> QED BY <3>1, <3>2 DEF SignalState
  <2> QED BY <2>1, <2>2
<1>1. CallTypes'
  <2>1. d_ph' \in [Threads -> CallPhases] BY <1>a DEF DispInv, CallTypes, CallPhases
  <2> QED BY <1>a, <1>b, <1>e, <2>1 DEF DispInv, CallTypes
<1>2. CallsNested'
  <2>1. ASSUME NEW u \in Threads, u # t PROVE Nested(u)'
    BY <1>a, <1>b, <1>c, <2>1, NestedKept DEF DispInv, CallsNested
  <2>2. Nested(t)' BY <1>b, <1>c DEF Nested, Outside
  <2> QED BY <2>1, <2>2 DEF CallsNested
<1>3. AreasKnown' BY <1>a, <1>c DEF DispInv, AreasKnown
<1>4. SoleThread' BY <1>a, <1>b, <1>c DEF DispInv, SoleThread, Ended
<1>5. MasksEmpty'
  <2>1. \A u \in Threads \ d_odd' : Len(d_frames'[u]) <= 1
    BY <1>a, <1>b DEF DispInv, MasksEmpty
  <2>2. \A u \in Threads \ {t} : ~d_sig'[u].lost => MaskOf(u)'
    BY <1>b, <1>c, <1>e DEF DispInv, MasksEmpty, MaskOf
  <2>3. ~d_sig'[t].lost => d_sig'[t].orig = {} BY <1>a, <1>e DEF DispInv, MasksEmpty, MaskOf
  <2>4. ~d_sig'[t].lost => MaskOf(t)' BY <1>c, <2>3 DEF MaskOf
  <2> QED BY <2>1, <2>2, <2>4 DEF MasksEmpty
<1>6. D!FsExact' BY <1>a, <1>c DEF DispInv, D!FsExact, D!KernelPhases
<1>7. TimesOrdered' BY <1>a DEF DispInv, TimesOrdered
<1>8. D!TimesExact'
  <2>1. \A u \in Threads : D!Accounted(u)' = D!Accounted(u) BY <1>a, <1>c DEF D!Accounted
  <2> QED BY <1>7, <1>a, <2>1, TimesKept DEF DispInv
<1>9. StackInv'
  <2>1. /\ StackInv /\ StackTypes /\ Owned(t) /\ Holds(t) \cap ToSet(d_free) = {}
    BY DEF DispInv, StackInv, StacksApart
  <2>2. /\ d_exitK[t] = 0 /\ d_execK[t] # k BY <1>a, <1>d, <2>1 DEF Owned
  <2>3. StackTypes' BY <1>a, <1>d, <2>1 DEF StackTypes
  <2>4. d_exitK'[t] = k /\ \A u \in Threads \ {t} : d_exitK'[u] = d_exitK[u]
    BY <1>a, <2>1 DEF StackTypes
  <2>5. Owned(t)' BY <1>a, <1>b, <1>c, <2>2, <2>4 DEF Owned
  <2>6. Holds(t)' = {k} \cup ({d_execK[t]} \ {0}) BY <1>a, <1>b, <1>d, <2>4 DEF Holds
  <2>7. Holds(t) = D!InUse(t) \cup ({d_execK[t]} \ {0}) BY <2>2 DEF Holds
  <2>8. \A u \in Threads \ {t} :
           /\ d_frames'[u] = d_frames[u] /\ d_exitK'[u] = d_exitK[u]
           /\ d_execK'[u] = d_execK[u] /\ d_ph'[u] = d_ph[u]
    BY <1>a, <1>b, <1>c, <2>4
  <2>9. ToSet(d_free)' = ToSet(d_free) BY <1>a
  <2>10. Holds(t)' \cap ToSet(d_free)' = {} BY <1>d, <2>1, <2>6, <2>7, <2>9
  <2>11. Holds(t)' \cup ToSet(d_free)' \subseteq Holds(t) \cup ToSet(d_free)
    BY <1>d, <2>6, <2>7, <2>9
  <2>12. ASSUME ~d_left'
         PROVE  ~d_left /\ Holds(t)' \cup ToSet(d_free)' = Holds(t) \cup ToSet(d_free)
    BY <1>a, <1>d, <2>6, <2>7, <2>9, <2>12
  <2> QED BY <1>a, <2>1, <2>3, <2>5, <2>8, <2>10, <2>11, <2>12, StacksPassed
<1>10. D!DescriptorKept' BY <1>a, <1>c DEF DispInv, D!DescriptorKept
<1> QED BY <1>1, <1>2, <1>3, <1>4, <1>5, <1>6, <1>7, <1>8, <1>9, <1>10 DEF DispInv

\* An exec that fails returns as any call, the stack of the one before put back.
LEMMA Disp_ExecFails ==
    ASSUME DispInv, NEW t \in Threads, D!ExecFails(t)
    PROVE  DispInv'
<1>a. /\ d_ph[t] = "run" /\ d_ph' = [d_ph EXCEPT ![t] = "after"]
      /\ d_free' = D!PutKstack(d_execK[t], d_free) /\ d_execK' = [d_execK EXCEPT ![t] = 0]
      /\ UNCHANGED <<d_made, d_frames, d_fs, d_crt, d_own, d_area, d_exitK, d_times, d_total,
                     d_now, d_sig, d_handler, d_unmaps, d_mapped, d_odd, d_left>>
  BY DEF D!ExecFails, D!After, D!ExecKeeps, D!FailedExec
<1>b. d_ph'[t] = "after" /\ \A u \in Threads \ {t} : d_ph'[u] = d_ph[u]
  BY <1>a DEF DispInv, CallTypes
<1>1. CallTypes'
  <2>1. d_ph' \in [Threads -> CallPhases] BY <1>a DEF DispInv, CallTypes, CallPhases
  <2> QED BY <1>a, <2>1 DEF DispInv, CallTypes
<1>2. CallsNested'
  <2>1. ASSUME NEW u \in Threads PROVE Nested(u)'
    BY <1>a, <1>b, NestedKept DEF DispInv, CallsNested, Outside
  <2> QED BY <2>1 DEF CallsNested
<1>3. AreasKnown' BY <1>a, <1>b DEF DispInv, AreasKnown
<1>4. SoleThread' BY <1>a, <1>b DEF DispInv, SoleThread, Ended
<1>5. MasksEmpty' BY <1>a, <1>b DEF DispInv, MasksEmpty, MaskOf
<1>6. D!FsExact' BY <1>a, <1>b DEF DispInv, D!FsExact, D!KernelPhases
<1>7. TimesOrdered' BY <1>a DEF DispInv, TimesOrdered
<1>8. D!TimesExact'
  <2>1. \A u \in Threads : D!Accounted(u)' = D!Accounted(u) BY <1>a, <1>b DEF D!Accounted
  <2> QED BY <1>7, <1>a, <2>1, TimesKept DEF DispInv
<1>9. StackInv'
  <2>1. /\ StackInv /\ StackTypes /\ Owned(t) /\ Holds(t) \cap ToSet(d_free) = {}
    BY DEF DispInv, StackInv, StacksApart
  <2>2. /\ d_exitK[t] = 0 /\ d_execK[t] \in Stacks \cup {0} BY <1>a, <2>1 DEF Owned, StackTypes
  <2>3. 0 \notin Stacks /\ ToSet(d_free) \subseteq Stacks
    BY <2>1, DispatchAssumption, ListElements DEF StackTypes
  <2>4. d_execK[t] \notin ToSet(d_free) BY <2>1, <2>2, <2>3 DEF Holds
  <2>5. d_free \in Seq(Stacks) /\ IsInjective(d_free) BY <2>1 DEF StackTypes
  <2>6. /\ d_free' \in Seq(Stacks) /\ IsInjective(d_free')
        /\ ToSet(d_free') = ToSet(d_free) \cup ({d_execK[t]} \ {0})
    BY <1>a, <2>2, <2>4, <2>5, PutStack, Zenon
  <2>7. StackTypes' BY <1>a, <2>1, <2>6 DEF StackTypes
  <2>8. d_execK'[t] = 0 /\ \A u \in Threads \ {t} : d_execK'[u] = d_execK[u]
    BY <1>a, <2>1 DEF StackTypes
  <2>9. D!InUse(t)' = D!InUse(t) BY <1>a DEF D!InUse
  <2>10. 0 \notin D!InUse(t) BY <2>1, <2>2 DEF Owned
  <2>11. Owned(t)' BY <1>a, <2>1, <2>2, <2>8, <2>9, <2>10 DEF Owned
  <2>12. Holds(t)' = D!InUse(t) BY <1>a, <2>2, <2>8, <2>9, <2>10 DEF Holds
  <2>13. Holds(t) = D!InUse(t) \cup ({d_execK[t]} \ {0}) /\ d_execK[t] \notin D!InUse(t)
    BY <2>1, <2>2, <2>10 DEF Holds, Owned
  <2>14. \A u \in Threads \ {t} :
           /\ d_frames'[u] = d_frames[u] /\ d_exitK'[u] = d_exitK[u]
           /\ d_execK'[u] = d_execK[u] /\ d_ph'[u] = d_ph[u]
    BY <1>a, <1>b, <2>8
  <2>15. Holds(t)' \cap ToSet(d_free)' = {} BY <2>1, <2>6, <2>12, <2>13
  <2>16. Holds(t)' \cup ToSet(d_free)' = Holds(t) \cup ToSet(d_free) BY <2>6, <2>12, <2>13
  <2> QED BY <1>a, <2>1, <2>7, <2>11, <2>14, <2>15, <2>16, StacksPassed
<1>10. D!DescriptorKept' BY <1>a, <1>b DEF DispInv, D!DescriptorKept
<1> QED BY <1>1, <1>2, <1>3, <1>4, <1>5, <1>6, <1>7, <1>8, <1>9, <1>10 DEF DispInv

\* The thread has ended: what it kept goes back to the free list.
LEMMA Disp_Finish ==
    ASSUME DispInv, NEW t \in Threads, D!Finish(t)
    PROVE  DispInv'
<1>a. /\ d_ph[t] = "jumped" /\ d_ph' = [d_ph EXCEPT ![t] = "gone"]
      /\ d_fs' = [d_fs EXCEPT ![t] = "target"]
      /\ d_free' = IF t = 1 THEN D!PutKstack(d_exitK[t], d_free)
                   ELSE D!PutKstack(d_execK[t], D!PutKstack(d_exitK[t], d_free))
      /\ d_exitK' = [d_exitK EXCEPT ![t] = 0]
      /\ d_execK' = IF t = 1 THEN d_execK ELSE [d_execK EXCEPT ![t] = 0]
      /\ d_mapped' = IF d_unmaps[t] > 0 THEN d_mapped \ {t} ELSE d_mapped
      /\ d_unmaps' = [d_unmaps EXCEPT ![t] = 0]
      /\ UNCHANGED <<d_made, d_frames, d_crt, d_own, d_area, d_times, d_total, d_now, d_sig,
                     d_handler, d_odd, d_left>>
  BY DEF D!Finish, D!Main
<1>b. /\ d_ph'[t] = "gone" /\ d_fs'[t] = "target"
      /\ \A u \in Threads \ {t} : d_ph'[u] = d_ph[u] /\ d_fs'[u] = d_fs[u]
  BY <1>a DEF DispInv, CallTypes
<1>1. CallTypes'
  <2>1. d_ph' \in [Threads -> CallPhases] BY <1>a DEF DispInv, CallTypes, CallPhases
  <2>2. d_fs' \in [Threads -> Registers] BY <1>a DEF DispInv, CallTypes, Registers
  <2>3. d_unmaps' \in [Threads -> Nat] BY <1>a DEF DispInv, CallTypes
  <2> QED BY <1>a, <2>1, <2>2, <2>3 DEF DispInv, CallTypes
<1>2. CallsNested'
  <2>1. ASSUME NEW u \in Threads PROVE Nested(u)'
    BY <1>a, <1>b, NestedKept DEF DispInv, CallsNested, Outside
  <2> QED BY <2>1 DEF CallsNested
<1>3. AreasKnown' BY <1>a, <1>b DEF DispInv, AreasKnown
<1>4. SoleThread' BY <1>a, <1>b DEF DispInv, SoleThread, Ended
<1>5. MasksEmpty' BY <1>a, <1>b DEF DispInv, MasksEmpty, MaskOf
<1>6. D!FsExact' BY <1>a, <1>b DEF DispInv, D!FsExact, D!KernelPhases
<1>7. TimesOrdered' BY <1>a DEF DispInv, TimesOrdered
<1>8. D!TimesExact'
  <2>1. \A u \in Threads : D!Accounted(u)' = D!Accounted(u) BY <1>a, <1>b DEF D!Accounted
  <2> QED BY <1>7, <1>a, <2>1, TimesKept DEF DispInv
<1>9. StackInv'
  <2> DEFINE x == d_exitK[t] y == d_execK[t] r == D!PutKstack(x, d_free)
  <2>1. /\ StackInv /\ StackTypes /\ Owned(t) /\ Holds(t) \cap ToSet(d_free) = {}
    BY DEF DispInv, StackInv, StacksApart
  <2>2. D!InUse(t) = {}
    <3>1. Nested(t) BY DEF DispInv, CallsNested
    <3>2. d_frames[t] = <<>> BY <1>a, <3>1 DEF Nested, Outside
    <3>3. DOMAIN d_frames[t] = {} BY <3>2
    <3> QED BY <3>3 DEF D!InUse
  <2>3. D!InUse(t)' = {} BY <1>a, <2>2 DEF D!InUse
  <2>4. x \in Stacks \cup {0} /\ y \in Stacks \cup {0} /\ (x # 0 => x # y)
    BY <2>1 DEF Owned, StackTypes
  <2>5. 0 \notin Stacks /\ ToSet(d_free) \subseteq Stacks
    BY <2>1, DispatchAssumption, ListElements DEF StackTypes
  <2>6. Holds(t) = {x, y} \ {0} BY <2>2 DEF Holds
  <2>7. x \notin ToSet(d_free) /\ y \notin ToSet(d_free) BY <2>1, <2>5, <2>6
  <2>8. d_free \in Seq(Stacks) /\ IsInjective(d_free) BY <2>1 DEF StackTypes
  <2> HIDE DEF x, y
  <2>9. r \in Seq(Stacks) /\ IsInjective(r) /\ ToSet(r) = ToSet(d_free) \cup ({x} \ {0})
    BY <2>4, <2>7, <2>8, PutStack
  <2> HIDE DEF r
  <2>10. d_exitK'[t] = 0 /\ \A u \in Threads \ {t} : d_exitK'[u] = d_exitK[u]
    BY <1>a, <2>1 DEF StackTypes
  <2>11. CASE t = 1
    <3>1. d_free' = r /\ d_execK' = d_execK BY <1>a, <2>11 DEF r, x
    <3>2. StackTypes' BY <1>a, <2>1, <2>9, <3>1 DEF StackTypes
    <3>3. Owned(t)' BY <1>a, <2>1, <2>2, <2>3, <2>10, <3>1 DEF Owned
    <3>4. Holds(t)' = {y} \ {0} BY <2>3, <2>10, <3>1 DEF Holds, y
    <3>5. ToSet(d_free)' = ToSet(d_free) \cup ({x} \ {0}) BY <2>9, <3>1
    <3>6. \A u \in Threads \ {t} :
             /\ d_frames'[u] = d_frames[u] /\ d_exitK'[u] = d_exitK[u]
             /\ d_execK'[u] = d_execK[u] /\ d_ph'[u] = d_ph[u]
      BY <1>a, <1>b, <2>10, <3>1
    <3>7. Holds(t)' \cap ToSet(d_free)' = {} BY <2>4, <2>7, <3>4, <3>5
    <3>8. Holds(t)' \cup ToSet(d_free)' = Holds(t) \cup ToSet(d_free) BY <2>6, <3>4, <3>5
    <3> QED BY <1>a, <2>1, <3>2, <3>3, <3>6, <3>7, <3>8, StacksPassed
  <2>12. CASE t # 1
    <3>1. d_free' = D!PutKstack(y, r) /\ d_execK' = [d_execK EXCEPT ![t] = 0]
      BY <1>a, <2>12 DEF r, x, y
    <3>2. y \notin ToSet(r) BY <2>4, <2>7, <2>9
    <3>3. /\ d_free' \in Seq(Stacks) /\ IsInjective(d_free')
          /\ ToSet(d_free') = ToSet(r) \cup ({y} \ {0})
      BY <2>4, <2>9, <3>1, <3>2, PutStack, Zenon
    <3>4. StackTypes' BY <1>a, <2>1, <3>1, <3>3 DEF StackTypes
    <3>5. d_execK'[t] = 0 /\ \A u \in Threads \ {t} : d_execK'[u] = d_execK[u]
      BY <2>1, <3>1 DEF StackTypes
    <3>6. Owned(t)' BY <1>a, <2>1, <2>2, <2>3, <2>10, <3>5 DEF Owned
    <3>7. Holds(t)' = {} BY <2>3, <2>10, <3>5 DEF Holds
    <3>8. \A u \in Threads \ {t} :
             /\ d_frames'[u] = d_frames[u] /\ d_exitK'[u] = d_exitK[u]
             /\ d_execK'[u] = d_execK[u] /\ d_ph'[u] = d_ph[u]
      BY <1>a, <1>b, <2>10, <3>5
    <3>9. Holds(t)' \cap ToSet(d_free)' = {} BY <3>7
    <3>10. Holds(t)' \cup ToSet(d_free)' = Holds(t) \cup ToSet(d_free)
      BY <2>6, <2>9, <3>3, <3>7
    <3> QED BY <1>a, <2>1, <3>4, <3>6, <3>8, <3>9, <3>10, StacksPassed
  <2> QED BY <2>11, <2>12
<1>10. D!DescriptorKept' BY <1>a, <1>b DEF DispInv, D!DescriptorKept
<1> QED BY <1>1, <1>2, <1>3, <1>4, <1>5, <1>6, <1>7, <1>8, <1>9, <1>10 DEF DispInv

\* DispInv is inductive: one lemma for each action.
LEMMA DispNext == ASSUME DispInv, D!Next PROVE DispInv'
BY Disp_Tick, Disp_Signal, Disp_Enter, Disp_Proceed, Disp_Handle, Disp_HandlerReturns,
   Disp_Killed, Disp_Leave, Disp_Plain, Disp_SendFails, Disp_NotHandled, Disp_Sigaction,
   Disp_PpollBegins, Disp_PpollEnds, Disp_SetThreadArea, Disp_ArchPrctl, Disp_Start,
   Disp_Munmap, Disp_Exec, Disp_ExecFails, Disp_Exit, Disp_Finish
   DEF D!Next

\* One thread, which has made no call.
LEMMA DispInit == D!Init => DispInv
<1> SUFFICES ASSUME D!Init PROVE DispInv OBVIOUS
<1> USE DEF D!Init, D!Main
<1>0. 1 \in Threads BY DispatchAssumption
<1>a. <<>> \in Seq(Frame) /\ <<>> \in Seq(Stacks) /\ Len(<<>>) = 0 BY EmptySeq
<1>b. \A t \in Threads : d_frames[t] = <<>> /\ Len(d_frames[t]) = 0 BY <1>a
<1>1. CallTypes
  <2>1. [pending |-> {}, mask |-> {}, orig |-> {}, lost |-> FALSE] \in SignalState BY DEF SignalState
  <2>2. d_sig \in [Threads -> SignalState] BY <2>1
  <2>3. d_ph \in [Threads -> CallPhases] BY DEF CallPhases
  <2>4. d_frames \in [Threads -> Seq(Frame)] BY <1>a
  <2>5. d_fs \in [Threads -> Registers] /\ d_own \in [Threads -> Registers] BY DEF Registers
  <2> QED BY <2>2, <2>3, <2>4, <2>5 DEF CallTypes
<1>2. CallsNested BY <1>b DEF CallsNested, Nested, Outside
<1>3. AreasKnown BY DEF AreasKnown
<1>4. SoleThread BY <1>b DEF SoleThread, Ended
<1>5. MasksEmpty BY <1>b DEF MasksEmpty, MaskOf
<1>6. D!FsExact BY DEF D!FsExact, D!KernelPhases
<1>7. TimesOrdered BY DEF TimesOrdered
<1>8. D!TimesExact
  <2>1. \A t \in Threads : D!Accounted(t) = 0 BY DEF D!Accounted
  <2>2. \A t \in Threads : {t} \X (1..D!Accounted(t)) = {} BY <2>1
  <2>3. D!Ran = {} BY <2>2 DEF D!Ran
  <2>4. D!Cardinality(D!Ran) = 0 BY <2>3, DispCardinality, FS_EmptySet
  <2> QED BY <2>1, <2>4 DEF D!TimesExact
<1>9. StackInv
  <2>1. IsInjective(<<>>) BY DEF IsInjective
  <2>2. StackTypes BY <1>a, <2>1 DEF StackTypes
  <2>3. \A t \in Threads : D!InUse(t) = {}
    <3>1. ASSUME NEW t \in Threads PROVE DOMAIN d_frames[t] = {} BY <1>b
    <3> QED BY <3>1 DEF D!InUse
  <2>4. \A t \in Threads : Holds(t) = {} BY <2>3 DEF Holds
  <2>5. ToSet(d_free) = {} BY DEF ToSet
  <2>6. AllStacks = {} BY <2>4, <2>5 DEF AllStacks
  <2>7. IsFiniteSet({}) /\ Cardinality({}) = 0 BY FS_EmptySet
  <2>8. StacksCounted BY <2>6, <2>7 DEF StacksCounted
  <2>9. StacksApart BY <2>4, <2>5 DEF StacksApart
  <2>10. ASSUME NEW t \in Threads PROVE Owned(t)
    <3>1. d_exitK[t] = 0 /\ d_execK[t] = 0 OBVIOUS
    <3>2. Len(d_frames[t]) = 0 /\ D!InUse(t) = {} BY <1>b, <2>3
    <3> HIDE DEF D!Init
    <3>3. \A i, j \in 1..Len(d_frames[t]) :
             d_frames[t][i].k = d_frames[t][j].k => i = j
      <4>1. 1..Len(d_frames[t]) = {} BY <3>2
      <4> QED BY <4>1
    <3>4. IsFiniteSet(D!InUse(t)) /\ Cardinality(D!InUse(t)) = Len(d_frames[t])
      BY <3>2, <2>7
    <3> QED BY <3>1, <3>2, <3>3, <3>4 DEF Owned
  <2> QED BY <2>2, <2>8, <2>9, <2>10 DEF StackInv
<1>10. D!DescriptorKept BY DEF D!DescriptorKept
<1> QED BY <1>1, <1>2, <1>3, <1>4, <1>5, <1>6, <1>7, <1>8, <1>9, <1>10 DEF DispInv

\* What the properties of the system calls ask follows.
LEMMA DispInvExact == DispInv => D!DispatchExact
<1> SUFFICES ASSUME DispInv PROVE D!DispatchExact OBVIOUS
<1>1. D!StacksExact
  <2>1. StackTypes /\ StacksApart /\ StacksCounted /\ \A t \in Threads : Owned(t)
    BY DEF DispInv, StackInv
  <2>2. \A t \in Threads : D!Held[t] = Holds(t) BY DEF D!Held, Holds
  <2>3. {d_free[i] : i \in DOMAIN d_free} = ToSet(d_free) BY DEF ToSet
  <2>4. \A i, j \in DOMAIN d_free : i # j => d_free[i] # d_free[j]
    BY <2>1 DEF StackTypes, IsInjective
  <2>5. ASSUME NEW t \in Threads
        PROVE  /\ D!Cardinality(D!InUse(t)) = Len(d_frames[t])
               /\ D!InUse(t) \cap {d_exitK[t], d_execK[t]} = {}
               /\ d_exitK[t] # 0 => d_exitK[t] # d_execK[t]
               /\ D!Held[t] \cap {d_free[i] : i \in DOMAIN d_free} = {}
    BY <2>1, <2>2, <2>3, DispCardinality DEF Owned, StacksApart
  <2>6. ASSUME NEW t \in Threads, NEW u \in Threads, t # u
        PROVE  D!Held[t] \cap D!Held[u] = {}
    BY <2>1, <2>2, <2>6 DEF StacksApart
  <2>7. ~d_left => D!Cardinality(D!Known \ {0}) = d_made
    BY <2>1, KnownStacks, DispCardinality DEF StacksCounted
  <2> QED BY <2>4, <2>5, <2>6, <2>7 DEF D!StacksExact
<1>2. D!MaskKept BY DEF DispInv, MasksEmpty, MaskOf, D!MaskKept
<1> QED BY <1>1, <1>2 DEF DispInv, D!DispatchExact

-----------------------------------------------------------------------------
(***************************************************************************)
(* The kernel's life: what is there at each step of boot and shutdown      *)
(***************************************************************************)
Facilities == {"mman", "process", "cwd", "fdtable", "signals", "root", "mounted",
    "directories", "procfs", "proc", "files", "devfs", "dev", "proc root", "etc",
    "appenv", "mappings"}
ProcStates == {"none", "failed", "forked", "program", "leaving", "leaving fork", "gone"}

\* the steps of the boot, of the program's life and of the shutdown, in stretches at
\* whose borders something comes or goes
FirstSteps == {"mman", "arguments", "process"}
ThreadSteps == {"cwd", "fdtable", "signals", "limits", "fstype", "root"}
RootSteps == {"directories", "credentials", "proc", "hostname"}
FileSteps == {"dev", "proc root", "mounts"}
LastSteps == {"etc", "thread function", "appenv", "access"}
BootSteps == FirstSteps \cup ThreadSteps \cup {"mount"} \cup RootSteps \cup {"tty", "unpack"}
               \cup FileSteps \cup LastSteps
LifeSteps == {"run", "wait threads"}
ExitSteps == {"free signals", "release mappings", "free fdtable", "clean proc", "hup",
              "wait processes"}
EndSteps == {"free process", "free appenv", "teardown mounts"}
TearSteps == {"teardown proc", "teardown dev", "teardown root", "end"}
Steps == BootSteps \cup LifeSteps \cup ExitSteps \cup EndSteps \cup TearSteps
           \cup {"returned", "fault"}

\* A facility that somebody relies on is there from the step that sets it up to the one
\* that takes it down.
FromMounted == RootSteps \cup {"tty", "unpack"} \cup FileSteps \cup LastSteps \cup LifeSteps
                 \cup ExitSteps
FromRoot == {"mount"} \cup FromMounted
Present ==
    /\ k_at \in FromMounted => "mounted" \in k_up
    /\ k_at \in FromRoot => "root" \in k_up
    /\ k_at \in (ThreadSteps \cup FromRoot) => "process" \in k_up
    /\ k_at \in ((ThreadSteps \ {"cwd"}) \cup FromRoot) => "cwd" \in k_up
    /\ k_at \in ({"signals", "limits", "fstype", "root"} \cup FromRoot)
                  \ {"clean proc", "hup", "wait processes"} => "fdtable" \in k_up
    /\ k_at \in ({"limits", "fstype", "root"} \cup FromRoot)
                  \ (ExitSteps \ {"free signals"}) => "signals" \in k_up
    /\ k_at \in LifeSteps => "mappings" \in k_up
    /\ (k_at \in (FileSteps \cup LastSteps \cup LifeSteps) /\ k_fstype = "ramfs") =>
          "files" \in k_up
    /\ (k_at # "mman" /\ k_code # "error") => "mman" \in k_up

\* What the shutdown has taken down is gone.
Absent ==
    /\ k_at \in (ExitSteps \ {"free signals"}) \cup EndSteps \cup TearSteps => "signals" \notin k_up
    /\ k_at \in (ExitSteps \ {"free signals", "release mappings"}) \cup EndSteps \cup TearSteps =>
          "mappings" \notin k_up
    /\ k_at \in {"clean proc", "hup", "wait processes"} \cup EndSteps \cup TearSteps =>
          "fdtable" \notin k_up
    /\ k_at \in {"free appenv", "teardown mounts"} \cup TearSteps =>
          k_up \cap {"cwd", "process"} = {}
    /\ k_at \in {"teardown mounts"} \cup TearSteps => "appenv" \notin k_up
    /\ k_at \in TearSteps \ {"teardown proc"} => k_up \cap {"procfs", "proc", "proc root"} = {}
    /\ k_at \in {"teardown root", "end"} => k_up \cap {"devfs", "dev"} = {}
    /\ k_at = "end" => k_up = {"mman"}
    /\ k_code = "status" => k_up = {"mman"}

\* The configured mounts and the terminal's numbers, by the step.
Counted ==
    /\ k_at \in LastSteps \cup LifeSteps \cup ExitSteps \cup EndSteps => k_mounts = Mounts
    /\ k_at \in TearSteps \/ k_code = "status" => k_mounts = 0
    /\ k_at \in FirstSteps \cup ThreadSteps \cup {"mount"} \cup RootSteps => k_stdio = <<>>
    /\ k_at = "tty" => k_stdio \in {<<>>, <<0>>, <<0, 1>>}
    /\ k_at \in {"unpack"} \cup FileSteps \cup LastSteps \cup LifeSteps => k_stdio = <<0, 1, 2>>

\* The kernel returns an error from the boot and its program's status from the end.
Returned ==
    /\ k_code \in {"none", "error", "status"}
    /\ k_code = "none" <=> k_at # "returned"

\* Threads and processes live while the kernel does; a process whose parent is not the
\* main one has a parent that waits for it, and main's children are told to go.
Living ==
    /\ k_threads # 0 => k_at \in LifeSteps
    /\ \A p \in Others : K!Alive(p) =>
          /\ k_at \in LifeSteps \cup ExitSteps \cup {"fault"}
          /\ {"process", "cwd", "root", "mounted"} \subseteq k_up /\ k_mounts = Mounts
          /\ k_proc[p].parent # 0 => K!Alive(k_proc[p].parent)
          /\ k_at = "wait processes" /\ k_proc[p].parent = 0 => p \in k_hup
Listed ==
    /\ \A p \in k_entries : p = 0 \/ k_proc[p].st \in {"forked", "program", "failed"}
    /\ \A p \in Others : k_proc[p].st \in {"forked", "program"} => p \in k_entries

BootTypes ==
    /\ k_at \in Steps /\ k_up \subseteq Facilities
    /\ k_mounts \in Nat /\ k_threads \in Nat
    /\ k_proc \in [Others -> [st : ProcStates, parent : Others \cup {0}]]
    /\ k_entries \subseteq Others \cup {0} /\ k_hup \subseteq Others

BootInv == BootTypes /\ Present /\ Absent /\ Counted /\ Returned /\ Living /\ Listed

\* Nothing is there before the first step.
LEMMA BootInit == ASSUME K!Init PROVE BootInv
<1>1. BootTypes
  BY DEF K!Init, BootTypes, K!NoProc, ProcStates, Steps, BootSteps, FirstSteps
<1>2. Living /\ Listed
  BY DEF K!Init, Living, Listed, K!NoProc, K!Alive
<1>3. Present /\ Absent /\ Counted /\ Returned
  BY DEF K!Init, Present, Absent, Counted, Returned, FirstSteps, ThreadSteps, RootSteps,
         FileSteps, LastSteps, LifeSteps, ExitSteps, EndSteps, TearSteps, FromMounted, FromRoot
<1>4. QED
  BY <1>1, <1>2, <1>3 DEF BootInv

\* While the kernel boots there is nobody else.
LEMMA BootAlone ==
    ASSUME BootInv, k_at \in BootSteps,
           k_threads' = k_threads, k_proc' = k_proc, k_hup' = k_hup,
           k_entries' \in {k_entries, k_entries \cup {0}}
    PROVE  Living' /\ Listed' /\ k_threads' \in Nat
           /\ k_proc' \in [Others -> [st : ProcStates, parent : Others \cup {0}]]
           /\ k_entries' \subseteq Others \cup {0} /\ k_hup' \subseteq Others
<1>1. k_at \notin LifeSteps \cup ExitSteps \cup {"fault"}
  BY DEF BootSteps, FirstSteps, ThreadSteps, RootSteps, FileSteps, LastSteps, LifeSteps,
         ExitSteps
<1>2. k_threads = 0 /\ \A p \in Others : ~K!Alive(p)
  <2>1. k_threads # 0 => k_at \in LifeSteps
    BY DEF BootInv, Living
  <2>2. \A p \in Others : K!Alive(p) => k_at \in LifeSteps \cup ExitSteps \cup {"fault"}
    BY Zenon DEF BootInv, Living
  <2>3. QED
    BY <1>1, <2>1, <2>2 DEF BootInv, BootTypes, K!Alive
<1>3. \A p \in Others : ~K!Alive(p)'
  BY <1>2 DEF K!Alive
<1>4. Living'
  <2>1. k_threads' # 0 => k_at' \in LifeSteps
    BY <1>2
  <2>2. QED
    BY <1>3, <2>1, Zenon DEF Living
<1>5. Listed'
  BY BootAssumption DEF BootInv, Listed, BootTypes
<1>6. QED
  BY <1>4, <1>5 DEF BootInv, BootTypes

\* The steps of the boot that may bring something up: where, where next, and what.
BootTable ==
    {<<"mman", "arguments", {"mman"}>>, <<"arguments", "process", {}>>,
     <<"process", "cwd", {"process"}>>, <<"cwd", "fdtable", {"cwd"}>>,
     <<"fdtable", "signals", {"fdtable"}>>, <<"signals", "limits", {"signals"}>>,
     <<"limits", "fstype", {}>>, <<"fstype", "root", {}>>, <<"root", "mount", {"root"}>>,
     <<"mount", "directories", {"mounted"}>>, <<"directories", "credentials", {}>>,
     <<"directories", "credentials", {"directories"}>>, <<"credentials", "proc", {}>>,
     <<"proc", "hostname", {}>>, <<"proc", "hostname", {"procfs"}>>,
     <<"proc", "hostname", {"procfs", "proc"}>>, <<"hostname", "tty", {}>>,
     <<"unpack", "dev", {"files"}>>, <<"dev", "proc root", {}>>,
     <<"dev", "proc root", {"devfs"}>>, <<"dev", "proc root", {"devfs", "dev"}>>,
     <<"proc root", "mounts", {}>>, <<"proc root", "mounts", {"proc root"}>>,
     <<"etc", "thread function", {"etc"}>>, <<"thread function", "appenv", {}>>,
     <<"appenv", "access", {}>>, <<"appenv", "access", {"appenv"}>>,
     <<"access", "run", {"mappings"}>>}

\* A step of the boot from the table, or its failure.
LEMMA BootMoves ==
    ASSUME BootInv, NEW l, NEW m, NEW s,
           k_at = l, k_mounts' = k_mounts, k_stdio' = k_stdio, k_threads' = k_threads,
           k_proc' = k_proc, k_hup' = k_hup, k_entries' \in {k_entries, k_entries \cup {0}},
           k_fstype' = k_fstype \/ l = "fstype",
           \/ k_at' = "returned" /\ k_code' = "error" /\ k_up' = k_up
           \/ k_at' = m /\ k_code' = k_code /\ k_up' = k_up \cup s,
           \/ <<l, m, s>> \in BootTable
           \/ <<l, m, s>> = <<"unpack", "dev", {}>> /\ k_fstype # "ramfs"
    PROVE  BootInv'
<1>1. l \in BootSteps
  BY DEF BootTable, BootSteps, FirstSteps, ThreadSteps, RootSteps, FileSteps, LastSteps
<1>2. Living' /\ Listed' /\ k_threads' \in Nat
      /\ k_proc' \in [Others -> [st : ProcStates, parent : Others \cup {0}]]
      /\ k_entries' \subseteq Others \cup {0} /\ k_hup' \subseteq Others
  BY <1>1, BootAlone
<1>3. k_code = "none"
  BY <1>1 DEF BootInv, Returned, BootSteps, FirstSteps, ThreadSteps, RootSteps, FileSteps, LastSteps
<1>4. Present'
  BY <1>1, <1>3 DEF BootInv, Present, BootTable, FirstSteps,
     ThreadSteps, RootSteps, FileSteps, LastSteps, LifeSteps, ExitSteps, EndSteps, TearSteps,
     FromMounted, FromRoot
<1>5. Absent' /\ Counted' /\ Returned'
  BY <1>1, <1>3 DEF BootInv, Absent, Counted, Returned, BootTable, FirstSteps,
     ThreadSteps, RootSteps, FileSteps, LastSteps, LifeSteps, ExitSteps, EndSteps, TearSteps
<1>6. k_at' \in Steps /\ k_up' \subseteq Facilities /\ k_mounts' \in Nat
  BY <1>1 DEF BootInv, BootTypes, BootTable, Steps, Facilities, BootSteps, FirstSteps,
     ThreadSteps, RootSteps, FileSteps, LastSteps, LifeSteps, ExitSteps, EndSteps, TearSteps
<1>7. QED
  BY <1>2, <1>4, <1>5, <1>6 DEF BootInv, BootTypes

\* A step of the boot that brings what the table says, or fails.
LEMMA BootBrings ==
    ASSUME BootInv, NEW l, NEW m, NEW s, K!Brings(l, m, s), <<l, m, s>> \in BootTable
    PROVE  BootInv'
<1>1. /\ k_at = l
      /\ UNCHANGED <<k_fstype, k_mounts, k_stdio, k_threads, k_proc, k_entries, k_hup>>
      /\ \/ k_at' = "returned" /\ k_code' = "error" /\ k_up' = k_up
         \/ k_at' = m /\ k_code' = k_code /\ k_up' = k_up \cup s
  BY DEF K!Brings, K!Fails, K!Return, K!At, K!Ups, K!procVars
<1>2. QED
  BY <1>1, BootMoves

\* A step of the boot whose failure is ignored.
LEMMA BootBringsOrNot ==
    ASSUME BootInv, NEW l, NEW m, NEW s, K!BringsOrNot(l, m, s),
           <<l, m, s>> \in BootTable, <<l, m, {}>> \in BootTable
    PROVE  BootInv'
<1>1. PICK q \in {{}, s} : K!Ups(q)
  BY DEF K!BringsOrNot
<1>2. /\ k_at = l
      /\ UNCHANGED <<k_fstype, k_mounts, k_stdio, k_threads, k_proc, k_entries, k_hup>>
      /\ k_at' = m /\ k_code' = k_code /\ k_up' = k_up \cup q
  BY <1>1 DEF K!BringsOrNot, K!At, K!Ups, K!procVars
<1>3. <<l, m, q>> \in BootTable
  BY <1>1
<1>4. QED
  BY <1>2, <1>3, BootMoves

\* The steps up to the root file system.
LEMMA BootEarly ==
    ASSUME BootInv,
           \/ K!SetupMman \/ K!CheckArguments \/ K!InitMainThread \/ K!GetFstype
           \/ K!MountRootfs \/ K!Credentials
    PROVE  BootInv'
<1>1. CASE K!SetupMman
  BY <1>1, BootBrings DEF K!SetupMman, BootTable
<1>2. CASE K!CheckArguments
  BY <1>2, BootBrings DEF K!CheckArguments, BootTable
<1>3. CASE K!InitMainThread
  BY <1>3, BootBrings DEF K!InitMainThread, BootTable
<1>4. CASE K!GetFstype
  <2>1. /\ k_at = "fstype"
        /\ UNCHANGED <<k_mounts, k_stdio, k_threads, k_proc, k_entries, k_hup>>
        /\ \/ k_at' = "returned" /\ k_code' = "error" /\ k_up' = k_up
           \/ k_at' = "root" /\ k_code' = k_code /\ k_up' = k_up \cup {}
    BY <1>4 DEF K!GetFstype, K!Fails, K!Return, K!At, K!procVars
  <2>2. <<"fstype", "root", {}>> \in BootTable
    BY DEF BootTable
  <2>3. QED
    BY <2>1, <2>2, BootMoves
<1>5. CASE K!MountRootfs
  <2>1. \/ K!Brings("root", "mount", {"root"}) \/ K!Brings("mount", "directories", {"mounted"})
        \/ K!BringsOrNot("directories", "credentials", {"directories"})
    BY <1>5 DEF K!MountRootfs, K!SetupRamfs, K!SetupExt2, K!SetupHostfs, K!SetupRoot,
                K!StandardDirectories
  <2>2. QED
    BY <2>1, BootBrings, BootBringsOrNot DEF BootTable
<1>6. CASE K!Credentials
  BY <1>6, BootBrings DEF K!Credentials, BootTable
<1>7. QED
  BY <1>1, <1>2, <1>3, <1>4, <1>5, <1>6

\* The steps up to the files of the image.
LEMMA BootMiddle ==
    ASSUME BootInv,
           \/ K!SetupProcfs \/ K!SetHostname \/ K!Unpack \/ K!SetupDevfs
           \/ K!ProcRootEntries
    PROVE  BootInv'
<1>1. CASE K!SetupProcfs
  <2>1. PICK s \in {{}, {"procfs"}, {"procfs", "proc"}} : k_up' = k_up \cup s
    BY <1>1 DEF K!SetupProcfs, K!Ups
  <2>2. /\ k_at = "proc" /\ k_at' = "hostname" /\ k_code' = k_code
        /\ k_entries' \in {k_entries, k_entries \cup {0}}
        /\ UNCHANGED <<k_fstype, k_mounts, k_stdio, k_threads, k_proc, k_hup>>
    BY <1>1 DEF K!SetupProcfs, K!At, K!Main
  <2>3. <<"proc", "hostname", s>> \in BootTable
    BY <2>1 DEF BootTable
  <2>4. QED
    BY <2>1, <2>2, <2>3, BootMoves
<1>2. CASE K!SetHostname
  BY <1>2, BootBrings DEF K!SetHostname, BootTable
<1>3. CASE K!Unpack
  <2>1. CASE K!Brings("unpack", "dev", {"files"})
    BY <2>1, BootBrings DEF BootTable
  <2>2. CASE ~K!Brings("unpack", "dev", {"files"})
    <3>1. /\ k_fstype # "ramfs" /\ k_at = "unpack" /\ k_at' = "dev" /\ k_code' = k_code
          /\ k_up' = k_up \cup {}
          /\ UNCHANGED <<k_fstype, k_mounts, k_stdio, k_threads, k_proc, k_entries, k_hup>>
      BY <1>3, <2>2 DEF K!Unpack, K!At, K!procVars
    <3>2. QED
      BY <3>1, BootMoves
  <2>3. QED
    BY <2>1, <2>2
<1>4. CASE K!SetupDevfs
  BY <1>4, BootBringsOrNot DEF K!SetupDevfs, BootTable
<1>5. CASE K!ProcRootEntries
  BY <1>5, BootBringsOrNot DEF K!ProcRootEntries, BootTable
<1>6. QED
  BY <1>1, <1>2, <1>3, <1>4, <1>5

\* The steps up to the entry of the program.
LEMMA BootLate ==
    ASSUME BootInv, K!CopyEtcFiles \/ K!SetRunThread \/ K!CreateAppenv \/ K!Enter
    PROVE  BootInv'
<1>1. CASE K!CopyEtcFiles
  BY <1>1, BootBrings DEF K!CopyEtcFiles, BootTable
<1>2. CASE K!SetRunThread
  BY <1>2, BootBrings DEF K!SetRunThread, BootTable
<1>3. CASE K!CreateAppenv
  <2>1. CASE K!Fails("appenv")
    <3>1. K!Brings("appenv", "access", {})
      BY <2>1 DEF K!Brings
    <3>2. QED
      BY <3>1, BootBrings DEF BootTable
  <2>2. CASE K!BringsOrNot("appenv", "access", {"appenv"})
    BY <2>2, BootBringsOrNot DEF BootTable
  <2>3. QED
    BY <1>3, <2>1, <2>2 DEF K!CreateAppenv
<1>4. CASE K!Enter
  BY <1>4, BootBrings DEF K!Enter, BootTable
<1>5. QED
  BY <1>1, <1>2, <1>3, <1>4

\* The numbers of the terminal, one by one.
LEMMA TerminalNumbers ==
    /\ Len(<<0>>) = 1 /\ Append(<<0>>, 1) = <<0, 1>>
    /\ Len(<<0, 1>>) = 2 /\ Append(<<0, 1>>, 2) = <<0, 1, 2>> /\ Len(<<0, 1, 2>>) = 3
<1>1. Len(<<0>>) = 1 /\ Len(<<0, 1>>) = 2 /\ Len(<<0, 1, 2>>) = 3
  OBVIOUS
<1>2. ASSUME NEW s \in Seq(Int), Len(s) = 2, s[1] = 0, s[2] = 1
      PROVE  s = <<0, 1>>
  BY <1>2
<1>3. ASSUME NEW s \in Seq(Int), Len(s) = 3, s[1] = 0, s[2] = 1, s[3] = 2
      PROVE  s = <<0, 1, 2>>
  BY <1>3
<1>4. /\ Append(<<0>>, 1) \in Seq(Int) /\ Len(Append(<<0>>, 1)) = 2
      /\ Append(<<0>>, 1)[1] = 0 /\ Append(<<0>>, 1)[2] = 1
  OBVIOUS
<1>5. /\ Append(<<0, 1>>, 2) \in Seq(Int) /\ Len(Append(<<0, 1>>, 2)) = 3
      /\ Append(<<0, 1>>, 2)[1] = 0 /\ Append(<<0, 1>>, 2)[2] = 1 /\ Append(<<0, 1>>, 2)[3] = 2
  OBVIOUS
<1>6. Append(<<0>>, 1) = <<0, 1>>
  BY <1>2, <1>4
<1>7. Append(<<0, 1>>, 2) = <<0, 1, 2>>
  BY <1>3, <1>5
<1>8. QED
  BY <1>1, <1>6, <1>7

\* The steps that take several rounds: the terminal's numbers and the mounts.
LEMMA BootCounts ==
    ASSUME BootInv, K!SetupTty \/ K!ConfiguredMounts
    PROVE  BootInv'
<1>1. /\ k_at \in {"tty", "mounts"} /\ k_at' \in {"tty", "unpack", "mounts", "etc", "returned"}
      /\ UNCHANGED <<k_fstype, k_up, k_threads, k_proc, k_entries, k_hup>>
      /\ \/ k_at' = "returned" /\ k_code' = "error" /\ UNCHANGED <<k_mounts, k_stdio>>
         \/ k_code' = k_code /\ k_at' # "returned"
  BY DEF K!SetupTty, K!ConfiguredMounts, K!Fails, K!Return, K!At, K!procVars
<1>2. k_at \in BootSteps
  BY <1>1 DEF BootSteps, FileSteps
<1>3. Living' /\ Listed' /\ k_threads' \in Nat
      /\ k_proc' \in [Others -> [st : ProcStates, parent : Others \cup {0}]]
      /\ k_entries' \subseteq Others \cup {0} /\ k_hup' \subseteq Others
  BY <1>1, <1>2, BootAlone
<1>4. k_code = "none"
  BY <1>1 DEF BootInv, Returned
<1>5. \/ k_at' = "returned" /\ UNCHANGED <<k_mounts, k_stdio>>
      \/ /\ k_at = "tty" /\ k_mounts' = k_mounts
         /\ \/ k_at' = "tty" /\ k_stdio' \in {<<0>>, <<0, 1>>}
            \/ k_at' = "unpack" /\ k_stdio' = <<0, 1, 2>>
      \/ k_at = "mounts" /\ k_at' = "mounts" /\ k_stdio' = k_stdio /\ k_mounts' = k_mounts + 1
      \/ /\ k_at = "mounts" /\ k_at' = "etc" /\ k_mounts = Mounts
         /\ UNCHANGED <<k_mounts, k_stdio>>
  <2>1. CASE K!Fails("tty") \/ K!Fails("mounts")
    BY <2>1 DEF K!Fails, K!Return
  <2>2. CASE K!SetupTty /\ ~K!Fails("tty")
    <3>1. /\ k_at = "tty" /\ k_mounts' = k_mounts /\ k_stdio' = Append(k_stdio, Len(k_stdio))
          /\ k_at' = IF Len(k_stdio') = 3 THEN "unpack" ELSE k_at
      BY <2>2 DEF K!SetupTty, K!Lowest
    <3>2. k_stdio \in {<<>>, <<0>>, <<0, 1>>}
      BY <3>1 DEF BootInv, Counted
    <3>3. CASE k_stdio = <<>>
      BY <3>1, <3>3
    <3>4. CASE k_stdio = <<0>>
      BY <3>1, <3>4, TerminalNumbers
    <3>5. CASE k_stdio = <<0, 1>>
      BY <3>1, <3>5, TerminalNumbers
    <3>6. QED
      BY <3>2, <3>3, <3>4, <3>5
  <2>3. CASE K!ConfiguredMounts /\ ~K!Fails("mounts")
    BY <2>3 DEF K!ConfiguredMounts, K!At
  <2>4. QED
    BY <2>1, <2>2, <2>3
<1>6. Present'
  BY <1>1, <1>4, <1>5 DEF BootInv, Present, FirstSteps,
     ThreadSteps, RootSteps, FileSteps, LastSteps, LifeSteps, ExitSteps, EndSteps, TearSteps,
     FromMounted, FromRoot
<1>7. Absent' /\ Counted' /\ Returned'
  BY <1>1, <1>4, <1>5 DEF BootInv, Absent, Counted, Returned, FirstSteps,
     ThreadSteps, RootSteps, FileSteps, LastSteps, LifeSteps, ExitSteps, EndSteps, TearSteps
<1>8. k_at' \in Steps /\ k_up' \subseteq Facilities /\ k_mounts' \in Nat
  <2>1. k_mounts' \in {k_mounts, k_mounts + 1}
    BY <1>5
  <2>2. k_at' \in Steps
    BY <1>1 DEF Steps, BootSteps, FileSteps, LastSteps
  <2>3. QED
    BY <1>1, <2>1, <2>2 DEF BootInv, BootTypes
<1>9. QED
  BY <1>3, <1>6, <1>7, <1>8 DEF BootInv, BootTypes

\* What the program does leaves the kernel as it is.
LEMMA BootFrame ==
    ASSUME BootInv, K!Frame
    PROVE  /\ Present' /\ Absent' /\ Counted' /\ Returned'
           /\ k_at' = k_at /\ k_up' = k_up /\ k_mounts' = k_mounts
           /\ k_at' \in Steps /\ k_up' \subseteq Facilities /\ k_mounts' \in Nat
<1>1. UNCHANGED <<k_at, k_fstype, k_up, k_mounts, k_stdio, k_code>>
  BY DEF K!Frame
<1>2. Present'
  BY <1>1 DEF BootInv, Present
<1>3. Absent'
  BY <1>1 DEF BootInv, Absent
<1>4. Counted' /\ Returned'
  BY <1>1 DEF BootInv, Counted, Returned
<1>5. QED
  BY <1>1, <1>2, <1>3, <1>4 DEF BootInv, BootTypes

\* Threads come and go while the program runs.
LEMMA LifeThreads ==
    ASSUME BootInv, K!Clone \/ K!ThreadEnds
    PROVE  BootInv'
<1>0. K!Frame /\ UNCHANGED <<k_proc, k_entries, k_hup>>
  BY DEF K!Clone, K!ThreadEnds
<1>1. k_threads' \in Nat /\ (k_threads' # 0 => k_at \in LifeSteps)
  <2>1. k_threads \in Nat /\ (k_threads # 0 => k_at \in LifeSteps)
    BY DEF BootInv, BootTypes, Living
  <2>2. \/ (k_at = "run" \/ k_threads > 0) /\ k_threads' = k_threads + 1
        \/ k_threads > 0 /\ k_threads' = k_threads - 1
    BY DEF K!Clone, K!ThreadEnds, K!MainRuns
  <2>3. CASE (k_at = "run" \/ k_threads > 0) /\ k_threads' = k_threads + 1
    <3>1. k_threads > 0 => k_threads # 0
      BY <2>1, SMT
    <3>2. k_at \in LifeSteps
      BY <2>1, <2>3, <3>1, Zenon DEF LifeSteps
    <3>3. k_threads' \in Nat
      BY <2>1, <2>3
    <3>4. QED
      BY <3>2, <3>3
  <2>4. CASE k_threads > 0 /\ k_threads' = k_threads - 1
    BY <2>1, <2>4
  <2>5. QED
    BY <2>2, <2>3, <2>4
<1>2. Listed'
  BY <1>0 DEF BootInv, Listed
<1>3. Living'
  <2>1. \A p \in Others : K!Alive(p)' <=> K!Alive(p)
    BY <1>0 DEF K!Alive
  <2>2. k_threads' # 0 => k_at' \in LifeSteps
    BY <1>0, <1>1, BootFrame
  <2>3. ASSUME NEW p \in Others, K!Alive(p)'
        PROVE  /\ k_at' \in LifeSteps \cup ExitSteps \cup {"fault"}
               /\ {"process", "cwd", "root", "mounted"} \subseteq k_up' /\ k_mounts' = Mounts
               /\ k_proc'[p].parent # 0 => K!Alive(k_proc[p].parent)'
               /\ k_at' = "wait processes" /\ k_proc'[p].parent = 0 => p \in k_hup'
    BY <1>0, <2>1, <2>3, BootFrame DEF BootInv, BootTypes, Living, K!Alive
  <2>4. QED
    BY <2>2, <2>3 DEF Living
<1>4. QED
  BY <1>0, <1>1, <1>2, <1>3, BootFrame DEF BootInv, BootTypes

\* A process as it lives on the kernel.
LivesOn(p) ==
    /\ k_at \in LifeSteps \cup ExitSteps \cup {"fault"}
    /\ {"process", "cwd", "root", "mounted"} \subseteq k_up /\ k_mounts = Mounts
    /\ k_proc[p].parent # 0 => K!Alive(k_proc[p].parent)
    /\ k_at = "wait processes" /\ k_proc[p].parent = 0 => p \in k_hup

\* Living, by the processes that live on.
LEMMA LivingMeans ==
    Living <=> /\ k_threads # 0 => k_at \in LifeSteps
               /\ \A p \in Others : K!Alive(p) => LivesOn(p)
BY Zenon DEF Living, LivesOn

\* One process goes to another state that is as much alive; the rest stays.
LEMMA ProcessMoves ==
    ASSUME BootInv, K!Frame, k_threads' = k_threads, NEW p \in Others, NEW s \in ProcStates,
           K!Alive(p), s \notin {"none", "failed", "gone"},
           k_proc' = [k_proc EXCEPT ![p].st = s],
           k_hup \subseteq k_hup'
    PROVE  Living' /\ k_proc' \in [Others -> [st : ProcStates, parent : Others \cup {0}]]
<1>1. k_proc \in [Others -> [st : ProcStates, parent : Others \cup {0}]]
  BY DEF BootInv, BootTypes
<1>2. k_proc' \in [Others -> [st : ProcStates, parent : Others \cup {0}]]
  BY <1>1
<1>3. \A q \in Others : (K!Alive(q)' <=> K!Alive(q)) /\ k_proc'[q].parent = k_proc[q].parent
  BY <1>1 DEF K!Alive
<1>4. \A q \in Others : k_proc[q].parent \in Others \cup {0}
  BY <1>1
<1>5. ASSUME NEW q \in Others, K!Alive(q)' PROVE LivesOn(q)'
  <2>1. LivesOn(q) /\ k_proc'[q].parent = k_proc[q].parent
    BY <1>3, <1>5, LivingMeans DEF BootInv
  <2>2. k_proc'[q].parent # 0 => K!Alive(k_proc[q].parent)'
    BY <1>3, <1>4, <2>1 DEF LivesOn
  <2>3. QED
    BY <2>1, <2>2, BootFrame DEF LivesOn, K!Alive
<1>6. k_threads' # 0 => k_at' \in LifeSteps
  BY BootFrame DEF BootInv, Living
<1>7. Living'
  BY <1>5, <1>6, Zenon DEF Living, LivesOn
<1>8. QED
  BY <1>2, <1>7

\* A child executes a program.
LEMMA LifeExec ==
    ASSUME BootInv, NEW p \in Others, K!Exec(p)
    PROVE  BootInv'
<1>1. /\ K!Frame /\ k_threads' = k_threads /\ k_entries' = k_entries /\ k_hup' = k_hup
      /\ k_proc[p].st = "forked" /\ k_proc' = [k_proc EXCEPT ![p].st = "program"]
  BY DEF K!Exec
<1>2. K!Alive(p)
  BY <1>1 DEF K!Alive
<1>3. Living' /\ k_proc' \in [Others -> [st : ProcStates, parent : Others \cup {0}]]
  BY <1>1, <1>2, ProcessMoves DEF ProcStates
<1>4. k_proc \in [Others -> [st : ProcStates, parent : Others \cup {0}]]
      /\ k_entries \subseteq Others \cup {0}
  BY DEF BootInv, BootTypes
<1>5. Listed'
  BY <1>1, <1>4 DEF BootInv, Listed
<1>6. QED
  BY <1>1, <1>3, <1>5, BootFrame DEF BootInv, BootTypes

\* A process begins to leave, from a fork or from a program.
LEMMA LifeLeave ==
    ASSUME BootInv, NEW p \in Others, K!Leave(p)
    PROVE  BootInv'
<1>0. PICK s \in {"leaving fork", "leaving"} : k_proc' = [k_proc EXCEPT ![p].st = s]
  <2>1. k_proc' = [k_proc EXCEPT ![p].st = IF @ = "forked" THEN "leaving fork" ELSE "leaving"]
    BY DEF K!Leave
  <2>2. CASE k_proc[p].st = "forked"
    BY <2>1, <2>2
  <2>3. CASE k_proc[p].st # "forked"
    BY <2>1, <2>3
  <2>4. QED
    BY <2>2, <2>3
<1>1. /\ K!Frame /\ k_threads' = k_threads /\ k_entries' = k_entries \ {p}
      /\ k_hup' = k_hup \cup K!ChildrenOf(p)
      /\ k_proc[p].st \in {"forked", "program"}
  BY DEF K!Leave
<1>2. K!Alive(p)
  BY <1>1 DEF K!Alive
<1>3. Living' /\ k_proc' \in [Others -> [st : ProcStates, parent : Others \cup {0}]]
  BY <1>0, <1>1, <1>2, ProcessMoves DEF ProcStates
<1>4. k_proc \in [Others -> [st : ProcStates, parent : Others \cup {0}]]
      /\ k_entries \subseteq Others \cup {0} /\ k_hup \subseteq Others
      /\ K!ChildrenOf(p) \subseteq Others
  BY DEF BootInv, BootTypes, K!ChildrenOf
<1>5. Listed'
  BY <1>0, <1>1, <1>4 DEF BootInv, Listed
<1>6. QED
  BY <1>1, <1>3, <1>4, <1>5, BootFrame DEF BootInv, BootTypes

\* A process is gone once its children are.
LEMMA LifeGone ==
    ASSUME BootInv, NEW p \in Others, K!Gone(p)
    PROVE  BootInv'
<1>1. /\ K!Frame /\ k_threads' = k_threads /\ k_entries' = k_entries /\ k_hup' = k_hup
      /\ k_proc[p].st \in {"leaving", "leaving fork"}
      /\ k_proc' = [k_proc EXCEPT ![p].st = "gone"]
      /\ K!ChildrenOf(p) = {}
  BY DEF K!Gone, K!ChildrenGone
<1>2. k_proc \in [Others -> [st : ProcStates, parent : Others \cup {0}]]
      /\ k_entries \subseteq Others \cup {0}
  BY DEF BootInv, BootTypes
<1>3. k_proc' \in [Others -> [st : ProcStates, parent : Others \cup {0}]]
  BY <1>1, <1>2 DEF ProcStates
<1>4. \A q \in Others : /\ K!Alive(q)' <=> K!Alive(q) /\ q # p
                        /\ k_proc'[q].parent = k_proc[q].parent
  BY <1>1, <1>2 DEF K!Alive
<1>5. ASSUME NEW q \in Others, K!Alive(q)' PROVE LivesOn(q)'
  <2>1. LivesOn(q) /\ k_proc'[q].parent = k_proc[q].parent /\ K!Alive(q)
    BY <1>4, <1>5, LivingMeans DEF BootInv
  <2>2. k_proc[q].parent \in Others \cup {0} /\ k_proc[q].parent # p
    BY <1>1, <1>2, <2>1 DEF K!ChildrenOf
  <2>3. k_proc'[q].parent # 0 => K!Alive(k_proc[q].parent)'
    BY <1>4, <2>1, <2>2 DEF LivesOn
  <2>4. QED
    BY <1>1, <2>1, <2>3, BootFrame DEF LivesOn, K!Alive
<1>6. k_threads' # 0 => k_at' \in LifeSteps
  BY <1>1, BootFrame DEF BootInv, Living
<1>7. Living'
  BY <1>5, <1>6, Zenon DEF Living, LivesOn
<1>8. Listed'
  BY <1>1, <1>2 DEF BootInv, Listed
<1>9. QED
  BY <1>1, <1>3, <1>7, <1>8, BootFrame DEF BootInv, BootTypes

\* A fork, which succeeds or fails, by the main process or another.
LEMMA LifeFork ==
    ASSUME BootInv, NEW p \in Others, NEW q \in Others \cup {0}, K!Fork(p, q) \/ K!ForkFails(p, q)
    PROVE  BootInv'
<1>1. /\ K!Frame /\ k_threads' = k_threads /\ k_hup' = k_hup /\ k_proc[p].st = "none"
      /\ IF q = 0 THEN k_at = "run" \/ k_threads > 0 ELSE k_proc[q].st \in {"forked", "program"}
      /\ \/ /\ k_proc' = [k_proc EXCEPT ![p] = [st |-> "forked", parent |-> q]]
            /\ k_entries' = k_entries \cup {p}
         \/ /\ k_proc' = [k_proc EXCEPT ![p] = [st |-> "failed", parent |-> q]]
            /\ k_entries' \in {k_entries, k_entries \cup {p}}
  <2>1. CASE K!Fork(p, q)
    BY <2>1 DEF K!Fork, K!MayFork, K!MainRuns, K!Main
  <2>2. CASE K!ForkFails(p, q)
    <3>1. k_entries' \in {k_entries, k_entries \cup {p}}
      BY <2>2 DEF K!ForkFails
    <3>2. QED
      BY <2>2, <3>1 DEF K!ForkFails, K!MayFork, K!MainRuns, K!Main
  <2>3. QED
    BY <2>1, <2>2
<1>2. k_proc \in [Others -> [st : ProcStates, parent : Others \cup {0}]]
      /\ k_entries \subseteq Others \cup {0}
  BY DEF BootInv, BootTypes
<1>3. k_proc' \in [Others -> [st : ProcStates, parent : Others \cup {0}]]
  <2>1. PICK e \in [st : ProcStates, parent : Others \cup {0}] :
           k_proc' = [k_proc EXCEPT ![p] = e]
    BY <1>1 DEF ProcStates
  <2>2. QED
    BY <1>2, <2>1
<1>4. \A o \in Others : o # p => (K!Alive(o)' <=> K!Alive(o)) /\ k_proc'[o] = k_proc[o]
  BY <1>1, <1>2 DEF K!Alive
<1>5. ~K!Alive(p) /\ k_proc'[p].parent = q
  BY <1>1, <1>2 DEF K!Alive
<1>6. \A o \in Others : K!Alive(o) => k_proc[o].parent # p
  <2>1. \A o \in Others : K!Alive(o) /\ k_proc[o].parent # 0 => K!Alive(k_proc[o].parent)
    BY LivingMeans, Zenon DEF BootInv, LivesOn
  <2>2. p # 0
    BY BootAssumption
  <2>3. QED
    BY <1>5, <2>1, <2>2
<1>7. /\ k_at \in LifeSteps \cup ExitSteps \cup {"fault"}
      /\ {"process", "cwd", "root", "mounted"} \subseteq k_up /\ k_mounts = Mounts
      /\ q = 0 => k_at # "wait processes"
      /\ q # 0 => K!Alive(q) /\ q # p /\ q \in Others
  <2>1. CASE q = 0
    <3>1. k_at \in LifeSteps
      <4>1. k_at = "run" \/ k_threads > 0
        BY <1>1, <2>1, Zenon
      <4>2. k_threads \in Nat /\ (k_threads # 0 => k_at \in LifeSteps)
        BY DEF BootInv, BootTypes, Living
      <4>3. k_threads > 0 => k_threads # 0
        BY <4>2, SMT
      <4>4. QED
        BY <4>1, <4>2, <4>3, Zenon DEF LifeSteps
    <3>2. QED
      BY <2>1, <3>1 DEF BootInv, Present, Counted, LifeSteps, FromRoot, FromMounted
  <2>2. CASE q # 0
    <3>1. K!Alive(q) /\ q \in Others /\ q # p
      BY <1>1, <2>2 DEF K!Alive
    <3>2. LivesOn(q)
      BY <3>1, LivingMeans DEF BootInv
    <3>3. QED
      BY <2>2, <3>1, <3>2 DEF LivesOn
  <2>3. QED
    BY <2>1, <2>2
<1>8. ASSUME NEW o \in Others, K!Alive(o)' PROVE LivesOn(o)'
  <2>1. CASE o = p
    <3>1. k_proc'[o].parent # 0 => K!Alive(k_proc[o].parent)'
      <4>1. ASSUME q # 0 PROVE K!Alive(q)'
        BY <1>4, <1>7, <4>1
      <4>2. QED
        BY <1>5, <2>1, <4>1 DEF K!Alive
    <3>2. QED
      BY <1>1, <1>5, <1>7, <2>1, <3>1, BootFrame DEF LivesOn, K!Alive
  <2>2. CASE o # p
    <3>1. LivesOn(o) /\ k_proc'[o].parent = k_proc[o].parent /\ K!Alive(o)
      BY <1>4, <1>8, <2>2, LivingMeans DEF BootInv
    <3>2. k_proc[o].parent \in Others \cup {0} /\ k_proc[o].parent # p
      BY <1>2, <1>6, <3>1
    <3>3. k_proc'[o].parent # 0 => K!Alive(k_proc[o].parent)'
      BY <1>4, <3>1, <3>2 DEF LivesOn
    <3>4. QED
      BY <1>1, <3>1, <3>3, BootFrame DEF LivesOn, K!Alive
  <2>3. QED
    BY <2>1, <2>2
<1>9. k_threads' # 0 => k_at' \in LifeSteps
  BY <1>1, BootFrame DEF BootInv, Living
<1>10. Living'
  BY <1>8, <1>9, Zenon DEF Living, LivesOn
<1>11. Listed'
  BY <1>1, <1>2, BootAssumption DEF BootInv, Listed
<1>12. QED
  BY <1>1, <1>2, <1>3, <1>10, <1>11, BootFrame DEF BootInv, BootTypes

-----------------------------------------------------------------------------
\* The steps of the shutdown that take something down: where, where next, and what.
ExitTable ==
    {<<"run", "wait threads", {}>>, <<"wait threads", "free signals", {}>>,
     <<"free signals", "release mappings", {"signals"}>>,
     <<"release mappings", "free fdtable", {"mappings"}>>,
     <<"free fdtable", "clean proc", {"fdtable"}>>, <<"clean proc", "hup", {}>>,
     <<"clean proc", "fault", {}>>, <<"hup", "wait processes", {}>>,
     <<"wait processes", "free process", {}>>,
     <<"free process", "free appenv", {"cwd", "process"}>>,
     <<"free appenv", "teardown mounts", {"appenv"}>>,
     <<"teardown mounts", "teardown proc", {}>>,
     <<"teardown proc", "teardown dev", {"procfs", "proc", "proc root"}>>,
     <<"teardown dev", "teardown root", {"devfs", "dev"}>>,
     <<"teardown dev", "fault", {"devfs", "dev"}>>,
     <<"teardown root", "end", {"root", "mounted", "files", "directories", "etc"}>>,
     <<"end", "returned", {}>>}

\* A step of the shutdown from the table: nobody is left when the main process stops
\* waiting for them, and everybody was told when it begins to.
LEMMA ExitMoves ==
    ASSUME BootInv, NEW l, NEW m, NEW s,
           k_at = l, k_at' = m, k_up' = k_up \ s, <<l, m, s>> \in ExitTable,
           k_fstype' = k_fstype, k_stdio' = k_stdio, k_threads' = k_threads,
           k_proc' = k_proc, k_entries' \in {k_entries, k_entries \ {0}},
           k_mounts' = (IF l = "teardown mounts" THEN 0 ELSE k_mounts),
           k_code' = (IF m = "returned" THEN "status" ELSE k_code),
           l = "wait threads" => k_threads = 0,
           l = "wait processes" => \A p \in Others : ~K!Alive(p),
           k_hup' = (IF l = "hup" THEN k_hup \cup K!ChildrenOf(0) ELSE k_hup)
    PROVE  BootInv'
<1>1. l \in LifeSteps \cup ExitSteps \cup EndSteps \cup TearSteps
  BY DEF ExitTable, LifeSteps, ExitSteps, EndSteps, TearSteps
<1>2. k_code = "none"
  BY <1>1 DEF BootInv, Returned, LifeSteps, ExitSteps, EndSteps, TearSteps
<1>3. Present'
  BY <1>2 DEF BootInv, Present, ExitTable, FirstSteps,
     ThreadSteps, RootSteps, FileSteps, LastSteps, LifeSteps, ExitSteps, EndSteps, TearSteps,
     FromMounted, FromRoot
<1>4. Absent'
  <2>1. m = "end" => k_up' = {"mman"}
    BY <1>2 DEF BootInv, BootTypes, Present, Absent, ExitTable, EndSteps, TearSteps, ExitSteps, Facilities
  <2>2. QED
    BY <1>2, <2>1 DEF BootInv, Absent, ExitTable, LifeSteps, ExitSteps, EndSteps, TearSteps
<1>5. Counted' /\ Returned'
  BY <1>2 DEF BootInv, Counted, Returned, ExitTable, FirstSteps,
     ThreadSteps, RootSteps, FileSteps, LastSteps, LifeSteps, ExitSteps, EndSteps, TearSteps
<1>6. k_at' \in Steps /\ k_up' \subseteq Facilities /\ k_mounts' \in Nat
      /\ k_entries' \subseteq Others \cup {0} /\ k_hup' \subseteq Others
  <2>1. k_at' \in Steps
    BY DEF ExitTable, Steps, LifeSteps, ExitSteps, EndSteps, TearSteps
  <2>2. QED
    BY <2>1 DEF BootInv, BootTypes, K!ChildrenOf
<1>7. Listed'
  BY BootAssumption DEF BootInv, BootTypes, Listed
<1>8. k_threads' # 0 => k_at' \in LifeSteps
  <2>1. k_threads # 0 => k_at \in LifeSteps
    BY DEF BootInv, Living
  <2>2. k_threads \in Nat
    BY DEF BootInv, BootTypes
  <2>3. l \in LifeSteps => l = "wait threads" \/ m \in LifeSteps
    BY DEF ExitTable, LifeSteps
  <2>4. ASSUME k_threads' # 0 PROVE k_at' \in LifeSteps
    <3>1. k_threads # 0
      BY <2>2, <2>4
    <3>2. l \in LifeSteps
      BY <2>1, <2>4
    <3>3. QED
      BY <2>3, <3>1, <3>2
  <2>5. QED
    BY <2>4
<1>9. ASSUME NEW p \in Others, K!Alive(p)' PROVE LivesOn(p)'
  <2>1. K!Alive(p) /\ LivesOn(p)
    BY <1>9, LivingMeans DEF BootInv, K!Alive
  <2>2. l # "wait processes"
    BY <2>1
  <2>3. /\ k_at' \in LifeSteps \cup ExitSteps \cup {"fault"} /\ k_mounts' = Mounts
        /\ {"process", "cwd", "root", "mounted"} \subseteq k_up'
    BY <2>1, <2>2 DEF LivesOn, ExitTable, LifeSteps, ExitSteps
  <2>4. k_at' = "wait processes" /\ k_proc'[p].parent = 0 => p \in k_hup'
    <3>1. k_at' = "wait processes" => l = "hup"
      BY DEF ExitTable
    <3>2. QED
      BY <2>1, <3>1 DEF K!ChildrenOf
  <2>5. QED
    BY <2>1, <2>3, <2>4 DEF LivesOn, K!Alive
<1>10. Living'
  BY <1>8, <1>9, Zenon DEF Living, LivesOn
<1>11. QED
  BY <1>3, <1>4, <1>5, <1>6, <1>7, <1>10 DEF BootInv, BootTypes

\* A step of the shutdown that takes down what the table says.
LEMMA ExitTakes ==
    ASSUME BootInv, NEW l, NEW m, NEW s, K!Takes(l, m, s), <<l, m, s>> \in ExitTable,
           l # "teardown mounts", l # "hup", m # "returned",
           l = "wait threads" => k_threads = 0,
           l = "wait processes" => \A p \in Others : ~K!Alive(p)
    PROVE  BootInv'
<1>1. /\ k_at = l /\ k_at' = m /\ k_up' = k_up \ s /\ k_code' = k_code
      /\ UNCHANGED <<k_fstype, k_stdio, k_mounts, k_threads, k_proc, k_entries, k_hup>>
  BY DEF K!Takes, K!Goes, K!At, K!Downs
<1>2. QED
  BY <1>1, ExitMoves

\* The steps up to the end of the last process.
LEMMA ExitFirst ==
    ASSUME BootInv,
           \/ K!Exit \/ K!WaitThreads \/ K!FreeSignals \/ K!ReleaseMappings
           \/ K!FreeFdtable \/ K!CleanProc \/ K!SendSighup \/ K!WaitProcesses
    PROVE  BootInv'
<1>1. CASE K!Exit
  BY <1>1, ExitTakes DEF K!Exit, ExitTable
<1>2. CASE K!WaitThreads
  BY <1>2, ExitTakes DEF K!WaitThreads, K!NoThreads, ExitTable
<1>3. CASE K!FreeSignals
  BY <1>3, ExitTakes DEF K!FreeSignals, ExitTable
<1>4. CASE K!ReleaseMappings
  BY <1>4, ExitTakes DEF K!ReleaseMappings, ExitTable
<1>5. CASE K!FreeFdtable
  BY <1>5, ExitTakes DEF K!FreeFdtable, ExitTable
<1>6. CASE K!CleanProc
  <2>1. PICK m \in {"hup", "fault"} : K!Goes("clean proc", m)
    BY <1>6 DEF K!CleanProc
  <2>2. /\ k_at = "clean proc" /\ k_at' = m /\ k_up' = k_up \ {} /\ k_code' = k_code
        /\ UNCHANGED <<k_fstype, k_stdio, k_mounts, k_threads, k_proc, k_hup>>
        /\ k_entries' = k_entries \ {0}
    BY <1>6, <2>1 DEF K!CleanProc, K!Goes, K!At, K!Main
  <2>3. <<"clean proc", m, {}>> \in ExitTable /\ m # "returned"
    BY <2>1 DEF ExitTable
  <2>4. QED
    BY <2>2, <2>3, ExitMoves
<1>7. CASE K!SendSighup
  <2>1. /\ k_at = "hup" /\ k_at' = "wait processes" /\ k_up' = k_up \ {} /\ k_code' = k_code
        /\ UNCHANGED <<k_fstype, k_stdio, k_mounts, k_threads, k_proc, k_entries>>
        /\ k_hup' = k_hup \cup K!ChildrenOf(0)
    BY <1>7 DEF K!SendSighup, K!Goes, K!At, K!Main
  <2>2. <<"hup", "wait processes", {}>> \in ExitTable
    BY DEF ExitTable
  <2>3. QED
    BY <2>1, <2>2, ExitMoves
<1>8. CASE K!WaitProcesses
  <2>1. K!Takes("wait processes", "free process", {}) /\ \A p \in Others : ~K!Alive(p)
    BY <1>8 DEF K!WaitProcesses, K!NoProcesses
  <2>2. QED
    BY <2>1, ExitTakes DEF ExitTable
<1>9. QED
  BY <1>1, <1>2, <1>3, <1>4, <1>5, <1>6, <1>7, <1>8

\* The steps that take down what the kernel itself uses.
LEMMA ExitLast ==
    ASSUME BootInv,
           \/ K!FreeProcess \/ K!FreeAppenv \/ K!TeardownMounts \/ K!TeardownProcfs
           \/ K!TeardownDevfs \/ K!TeardownRoot \/ K!End
    PROVE  BootInv'
<1>1. CASE K!FreeProcess
  <2> DEFINE s == {"cwd", "process"}
  <2>1. K!Takes("free process", "free appenv", s)
    BY <1>1 DEF K!FreeProcess
  <2>2. <<"free process", "free appenv", s>> \in ExitTable
    BY DEF ExitTable
  <2> HIDE DEF s
  <2>3. QED
    BY <2>1, <2>2, ExitTakes
<1>2. CASE K!FreeAppenv
  BY <1>2, ExitTakes DEF K!FreeAppenv, ExitTable
<1>3. CASE K!TeardownMounts
  <2>1. /\ k_at = "teardown mounts" /\ k_at' = "teardown proc" /\ k_up' = k_up \ {}
        /\ k_code' = k_code /\ k_mounts' = 0
        /\ UNCHANGED <<k_fstype, k_stdio, k_threads, k_proc, k_entries, k_hup>>
    BY <1>3 DEF K!TeardownMounts, K!procVars
  <2>2. <<"teardown mounts", "teardown proc", {}>> \in ExitTable
    BY DEF ExitTable
  <2>3. QED
    BY <2>1, <2>2, ExitMoves
<1>4. CASE K!TeardownProcfs
  <2> DEFINE s == {"procfs", "proc", "proc root"}
  <2>1. K!Takes("teardown proc", "teardown dev", s)
    BY <1>4 DEF K!TeardownProcfs
  <2>2. <<"teardown proc", "teardown dev", s>> \in ExitTable
    BY DEF ExitTable
  <2> HIDE DEF s
  <2>3. QED
    BY <2>1, <2>2, ExitTakes
<1>5. CASE K!TeardownDevfs
  <2> DEFINE s == {"devfs", "dev"}
  <2>1. PICK m \in {"teardown root", "fault"} : K!Goes("teardown dev", m)
    BY <1>5 DEF K!TeardownDevfs
  <2>2. /\ k_at = "teardown dev" /\ k_at' = m /\ k_up' = k_up \ s
        /\ k_code' = k_code
        /\ UNCHANGED <<k_fstype, k_stdio, k_mounts, k_threads, k_proc, k_entries, k_hup>>
    BY <1>5, <2>1 DEF K!TeardownDevfs, K!Goes, K!At, K!Downs
  <2>3. <<"teardown dev", m, s>> \in ExitTable /\ m # "returned"
    BY <2>1 DEF ExitTable
  <2> HIDE DEF s
  <2>4. QED
    BY <2>2, <2>3, ExitMoves
<1>6. CASE K!TeardownRoot
  <2> DEFINE s == {"root", "mounted", "files", "directories", "etc"}
  <2>1. K!Takes("teardown root", "end", s)
    BY <1>6 DEF K!TeardownRoot
  <2>2. <<"teardown root", "end", s>> \in ExitTable
    BY DEF ExitTable
  <2> HIDE DEF s
  <2>3. QED
    BY <2>1, <2>2, ExitTakes
<1>7. CASE K!End
  <2>1. /\ k_at = "end" /\ k_at' = "returned" /\ k_up' = k_up \ {} /\ k_code' = "status"
        /\ UNCHANGED <<k_fstype, k_stdio, k_mounts, k_threads, k_proc, k_entries, k_hup>>
    BY <1>7 DEF K!End, K!procVars
  <2>2. <<"end", "returned", {}>> \in ExitTable
    BY DEF ExitTable
  <2>3. QED
    BY <2>1, <2>2, ExitMoves
<1>8. QED
  BY <1>1, <1>2, <1>3, <1>4, <1>5, <1>6, <1>7

\* Every step of the kernel's life keeps the invariant.
LEMMA BootNext ==
    ASSUME BootInv, K!Next
    PROVE  BootInv'
<1>1. CASE \/ K!SetupMman \/ K!CheckArguments \/ K!InitMainThread \/ K!GetFstype
           \/ K!MountRootfs \/ K!Credentials
  BY <1>1, BootEarly
<1>2. CASE \/ K!SetupProcfs \/ K!SetHostname \/ K!Unpack \/ K!SetupDevfs \/ K!ProcRootEntries
  BY <1>2, BootMiddle
<1>3. CASE K!CopyEtcFiles \/ K!SetRunThread \/ K!CreateAppenv \/ K!Enter
  BY <1>3, BootLate
<1>4. CASE K!SetupTty \/ K!ConfiguredMounts
  BY <1>4, BootCounts
<1>5. CASE K!Clone \/ K!ThreadEnds
  BY <1>5, LifeThreads
<1>6. CASE \E p \in Others, q \in Others \cup {0} : K!Fork(p, q) \/ K!ForkFails(p, q)
  BY <1>6, LifeFork
<1>7. CASE \E p \in Others : K!Exec(p) \/ K!Leave(p) \/ K!Gone(p)
  BY <1>7, LifeExec, LifeLeave, LifeGone
<1>8. CASE \/ K!Exit \/ K!WaitThreads \/ K!FreeSignals \/ K!ReleaseMappings
           \/ K!FreeFdtable \/ K!CleanProc \/ K!SendSighup \/ K!WaitProcesses
  BY <1>8, ExitFirst
<1>9. CASE \/ K!FreeProcess \/ K!FreeAppenv \/ K!TeardownMounts \/ K!TeardownProcfs
           \/ K!TeardownDevfs \/ K!TeardownRoot \/ K!End
  BY <1>9, ExitLast
<1>10. QED
  BY <1>1, <1>2, <1>3, <1>4, <1>5, <1>6, <1>7, <1>8, <1>9, Zenon DEF K!Next, K!Main

\* Boot's cardinality is that of FiniteSets.
LEMMA BootCardinality == ASSUME NEW S PROVE K!Cardinality(S) = Cardinality(S)
BY DEF K!Cardinality, Cardinality

\* The invariant has what nobody may miss.
LEMMA BootInvExact ==
    ASSUME BootInv
    PROVE  K!BootExact
<1>1. K!Running > 0 => \E p \in Others : K!Alive(p)
  <2>1. ASSUME \A p \in Others : ~K!Alive(p) PROVE ~(K!Running > 0)
    <3>1. {p \in Others : K!Alive(p)} = {}
      BY <2>1, Zenon
    <3>2. K!Running = Cardinality({})
      BY <3>1, BootCardinality, Zenon DEF K!Running
    <3>3. QED
      BY <3>2, FS_EmptySet
  <2>2. QED
    BY <2>1, Zenon
<1>2. K!UsersHaveFacilities
  <2>1. k_threads > 0 => {"signals", "mappings", "fdtable", "process", "root"} \subseteq k_up
    <3>1. k_threads > 0 => k_threads # 0
      BY DEF BootInv, BootTypes
    <3>2. k_threads # 0 => k_at \in LifeSteps
      BY DEF BootInv, Living
    <3>3. k_at \in LifeSteps =>
             {"signals", "mappings", "fdtable", "process", "root"} \subseteq k_up
      BY DEF BootInv, Present, FromRoot, FromMounted, LifeSteps, ExitSteps
    <3>4. QED
      BY <3>1, <3>2, <3>3
  <2>2. (\E p \in Others : K!Alive(p)) =>
           {"process", "cwd", "root", "mounted"} \subseteq k_up /\ k_mounts = Mounts
    BY LivingMeans, Zenon DEF BootInv, LivesOn
  <2>3. QED
    BY <1>1, <2>1, <2>2 DEF K!UsersHaveFacilities
<1>3. K!ParentMemory
  <2>1. ASSUME NEW p \in Others, k_proc[p].st \in {"forked", "leaving fork"},
               k_proc[p].parent # 0
        PROVE  k_proc[k_proc[p].parent].st # "gone"
    <3>1. K!Alive(p)
      BY <2>1 DEF K!Alive
    <3>2. K!Alive(k_proc[p].parent)
      BY <2>1, <3>1, LivingMeans DEF BootInv, LivesOn
    <3>3. QED
      BY <3>2 DEF K!Alive
  <2>2. "mappings" \in k_up \/ k_at \notin {"run", "wait threads"}
    BY DEF BootInv, Present, LifeSteps
  <2>3. QED
    BY <2>1, <2>2 DEF K!ParentMemory, K!Main
<1>4. K!Balanced
  <2>1. k_code = "status" => k_up = {"mman"} /\ k_mounts = 0 /\ K!Running = 0 /\ k_threads = 0
    <3>1. SUFFICES ASSUME k_code = "status"
                   PROVE  k_up = {"mman"} /\ k_mounts = 0 /\ K!Running = 0 /\ k_threads = 0
      OBVIOUS
    <3>2. k_at = "returned" /\ k_up = {"mman"} /\ k_mounts = 0
      BY <3>1 DEF BootInv, Returned, Absent, Counted
    <3>3. \A p \in Others : ~K!Alive(p)
      <4>1. \A p \in Others : K!Alive(p) => k_at \in LifeSteps \cup ExitSteps \cup {"fault"}
        BY LivingMeans, Zenon DEF BootInv, LivesOn
      <4>2. QED
        BY <3>2, <4>1 DEF LifeSteps, ExitSteps, K!Alive
    <3>4. K!Running = 0
      <4>1. {p \in Others : K!Alive(p)} = {}
        BY <3>3, Zenon
      <4>2. K!Running = Cardinality({})
        BY <4>1, BootCardinality, Zenon DEF K!Running
      <4>3. QED
        BY <4>2, FS_EmptySet
    <3>5. k_threads = 0
      BY <3>2 DEF BootInv, BootTypes, Living, LifeSteps
    <3>6. QED
      BY <3>2, <3>4, <3>5
  <2>2. k_at = "run" => /\ k_stdio = <<0, 1, 2>> /\ k_mounts = Mounts
                        /\ k_fstype = "ramfs" => "files" \in k_up
    BY DEF BootInv, Counted, Present, LifeSteps
  <2>3. QED
    BY <2>1, <2>2 DEF K!Balanced, BootInv, Listed, K!Main
<1>5. K!EverybodyTold
  <2>1. SUFFICES ASSUME k_at = "wait processes", NEW p \in Others, K!Alive(p), p \notin k_hup
                 PROVE  k_proc[p].parent # 0 /\ K!Alive(k_proc[p].parent)
    BY Zenon DEF K!EverybodyTold, K!Main
  <2>2. LivesOn(p)
    BY <2>1, LivingMeans DEF BootInv
  <2>3. QED
    BY <2>1, <2>2 DEF LivesOn
<1>6. QED
  BY <1>2, <1>3, <1>4, <1>5 DEF K!BootExact

-----------------------------------------------------------------------------
(***************************************************************************)
(* The three together: a behaviour is one of one component, whose steps    *)
(* keep its own invariant and whose variables no other component changes.  *)
(***************************************************************************)
KernelInv ==
    /\ running = "fork" => ForkInv
    /\ running = "dispatch" => DispInv
    /\ running = "boot" => BootInv

\* A step that leaves the variables of a component alone keeps its invariant.
LEMMA ForkStays == ASSUME ForkInv, UNCHANGED fvars PROVE ForkInv'
<1> USE DEF fvars
<1>1. ForkTypes' BY DEF ForkInv, ForkTypes
<1>2. Phases' BY DEF ForkInv, Phases
<1>3. ThreadsCounted' BY DEF ForkInv, ThreadsCounted
<1>4. StacksLinked' BY DEF ForkInv, StacksLinked
<1>5. Reported' BY DEF ForkInv, Reported, Excused
<1>6. F!ArgumentsExact' BY DEF ForkInv, F!ArgumentsExact
<1>7. F!StackHolds' BY DEF ForkInv, F!StackHolds, F!InOrder
<1>8. F!WaitsForChild' BY DEF ForkInv, F!WaitsForChild
<1> QED BY <1>1, <1>2, <1>3, <1>4, <1>5, <1>6, <1>7, <1>8 DEF ForkInv

\* The same for the system calls.
LEMMA DispStays == ASSUME DispInv, UNCHANGED dvars PROVE DispInv'
<1> USE DEF dvars
<1>1. CallTypes' BY DEF DispInv, CallTypes
<1>2. CallsNested' BY DEF DispInv, CallsNested, Nested
<1>3. AreasKnown' BY DEF DispInv, AreasKnown
<1>4. SoleThread' BY DEF DispInv, SoleThread
<1>5. MasksEmpty' BY DEF DispInv, MasksEmpty, MaskOf
<1>6. D!FsExact' BY DEF DispInv, D!FsExact
<1>7. TimesOrdered' BY DEF DispInv, TimesOrdered
<1>8. D!TimesExact' BY DEF DispInv, D!TimesExact, D!Ran, D!Accounted
<1>9. StackInv'
  <2>1. \A t \in Threads : D!InUse(t)' = D!InUse(t) BY DEF D!InUse
  <2>2. \A t \in Threads : Holds(t)' = Holds(t) BY <2>1 DEF Holds
  <2>3. StackTypes' BY DEF DispInv, StackInv, StackTypes
  <2>4. StacksApart' BY <2>2 DEF DispInv, StackInv, StacksApart
  <2>5. AllStacks' = AllStacks BY <2>2 DEF AllStacks
  <2>6. StacksCounted' BY <2>5 DEF DispInv, StackInv, StacksCounted
  <2>7. \A t \in Threads : Owned(t)' BY <2>1 DEF DispInv, StackInv, Owned
  <2> QED BY <2>3, <2>4, <2>6, <2>7 DEF StackInv
<1>10. D!DescriptorKept' BY DEF DispInv, D!DescriptorKept
<1> QED BY <1>1, <1>2, <1>3, <1>4, <1>5, <1>6, <1>7, <1>8, <1>9, <1>10 DEF DispInv

\* The same for boot and shutdown.
LEMMA BootStays == ASSUME BootInv, UNCHANGED kvars PROVE BootInv'
<1> USE DEF kvars
<1>1. BootTypes' BY DEF BootInv, BootTypes
<1>2. Present' BY DEF BootInv, Present
<1>3. Absent' BY DEF BootInv, Absent
<1>4. Counted' BY DEF BootInv, Counted
<1>5. Returned' BY DEF BootInv, Returned
<1>6. Living' BY DEF BootInv, Living, K!Alive
<1>7. Listed' BY DEF BootInv, Listed
<1> QED BY <1>1, <1>2, <1>3, <1>4, <1>5, <1>6, <1>7 DEF BootInv

\* KernelInv is an invariant of the composition.
LEMMA KernelInvariance == MCSpec => []KernelInv
<1> DEFINE all == <<running, vars, fvars, dvars, kvars>>
<1>1. MCInit => KernelInv
  BY ForkInit, DispInit, BootInit DEF MCInit, KernelInv
<1>2. ASSUME KernelInv, [MCNext]_all PROVE KernelInv'
  <2>1. CASE MCNext
    BY <1>2, <2>1, ForkNext, DispNext, BootNext DEF MCNext, KernelInv
  <2>2. CASE UNCHANGED all
    <3>1. running' = running /\ UNCHANGED fvars /\ UNCHANGED dvars /\ UNCHANGED kvars
      BY <2>2
    <3> QED BY <1>2, <3>1, ForkStays, DispStays, BootStays DEF KernelInv
  <2> QED BY <1>2, <2>1, <2>2
<1> QED BY <1>1, <1>2, PTL DEF MCSpec

\* The kernel around the life of a process is exact, whatever the number of children,
\* threads, kernel stacks, processes and mounts and however long the stack that is
\* copied: the properties that the components state hold in every reachable state.
THEOREM KernelIsExact == MCSpec => []KernelExact
<1>1. KernelInv => KernelExact
  BY ForkInvExact, DispInvExact, BootInvExact DEF KernelInv, KernelExact
<1> QED BY <1>1, KernelInvariance, PTL
=============================================================================
