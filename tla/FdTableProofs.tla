--------------------------- MODULE FdTableProofs ---------------------------
(***************************************************************************)
(* Proofs about module FdTable: for any number of processes, threads and   *)
(* descriptors, entries point to live objects of their own, no object is   *)
(* lost or used after its close, /proc/[pid]/fd shows what is open, and    *)
(* close-on-exec reaches across fork.                                      *)
(***************************************************************************)
EXTENDS FdTable, FiniteSetTheorems, FunctionTheorems, TLAPS

\* The step of a call goes with its operation and with the objects it has.
Formed ==
    \A t \in Threads :
        \/ call[t] = Idle
        \/ /\ call[t].op = "open" /\ call[t].step \in {"assign", "link"}
           /\ call[t].obj # NoObj /\ call[t].obj2 = NoObj
        \/ /\ call[t].op = "pipe" /\ call[t].step \in {"assign", "second"}
           /\ call[t].obj # NoObj /\ call[t].obj2 # NoObj
        \/ /\ call[t].op = "use" /\ call[t].step = "use"
           /\ call[t].obj # NoObj /\ call[t].obj2 = NoObj
        \/ /\ call[t].op = "close" /\ call[t].step \in {"unlink", "remove", "object"}
           /\ call[t].obj # NoObj /\ call[t].obj2 = NoObj

\* What somebody points to has been made.
Made ==
    /\ \A p \in Procs, f \in Fds : table[p][f] # NoObj => life[table[p][f]] # "none"
    /\ \A t \in Threads : /\ call[t].obj # NoObj => life[call[t].obj] # "none"
                          /\ call[t].obj2 # NoObj => life[call[t].obj2] # "none"
    /\ \A o \in broken : life[o] = "closed"
    /\ \A o \in lost : life[o] # "none"

\* The descriptor flag of an object is what its callers made of it.
Marked ==
    \A o \in Objects : /\ cloexec[o] <=> o \in inherit
                       /\ life[o] = "none" => ~cloexec[o]

\* A process that does not exist yet has no descriptors, and no thread in a call.
Dormant ==
    /\ alive[First] # "none"
    /\ \A p \in Procs : alive[p] = "none" =>
          /\ \A f \in Fds : table[p][f] = NoObj
          /\ \A t \in Threads : ProcOf[t] = p => call[t] = Idle

\* the call of t is about the entry of its descriptor
Owns(t) == call[t].step \in {"link", "second", "use", "unlink", "remove"}

\* the call of t has object o in its hands, and no table has it
Holds(t, o) ==
    \/ call[t].step = "assign" /\ o \in {call[t].obj, call[t].obj2}
    \/ call[t].step = "second" /\ o = call[t].obj2
    \/ call[t].step = "object" /\ o = call[t].obj

\* The entry a call is about keeps its object.
Placed == \A t \in Threads : Owns(t) => table[ProcOf[t]][call[t].fd] = call[t].obj

\* Only uses share an entry.
Exclusive ==
    \A t, u \in Threads :
        (t # u /\ Owns(t) /\ Owns(u) /\ ProcOf[t] = ProcOf[u] /\ call[t].fd = call[u].fd)
            => call[t].step = "use" /\ call[u].step = "use"

\* An object in the hands of a call is in nobody else's and in no table.
InHand ==
    \A t \in Threads, o \in Objects : Holds(t, o) =>
        /\ \A u \in Threads : Holds(u, o) => u = t
        /\ \A p \in Procs, f \in Fds : table[p][f] # o
        /\ life[o] = "live" \/ (call[t].step = "object" /\ o \in broken)

\* The two ends of a pipe are two objects.
TwoEnds == \A t \in Threads : call[t].op = "pipe" => call[t].obj # call[t].obj2

EntriesLive ==
    \A p \in Procs, f \in Fds :
        table[p][f] # NoObj => table[p][f] \in broken \/ life[table[p][f]] = "live"

EntriesOwn ==
    \A p, q \in Procs, f, g \in Fds :
        (table[p][f] # NoObj /\ table[p][f] = table[q][g]) => p = q /\ f = g

NoLeak ==
    \A o \in Objects : life[o] = "live" =>
        \/ o \in lost
        \/ \E t \in Threads : Holds(t, o)
        \/ \E p \in Procs, f \in Fds : table[p][f] = o

File(p, f) == table[p][f] # NoObj /\ kind[table[p][f]] = "file"

LinksAreFiles == \A p \in Procs : \A f \in links[p] : File(p, f)

\* An open or a pipe2 finds no link of its descriptor, and a close leaves none.
NoStaleLink ==
    \A t \in Threads : call[t].step \in {"link", "second", "remove"} =>
        call[t].fd \notin links[ProcOf[t]]

\* Open makes files, and pipe2 makes none.
OpensFile ==
    \A t \in Threads :
        /\ call[t].op = "open" => kind[call[t].obj] = "file"
        /\ call[t].op = "pipe" => kind[call[t].obj] # "file" /\ kind[call[t].obj2] # "file"

FilesAreLinked ==
    First \notin unlinked => \A f \in Fds : File(First, f) =>
        \/ f \in links[First] \/ table[First][f] \in broken
        \/ \E t \in Threads : /\ ProcOf[t] = First /\ call[t].op \in {"open", "close"}
                              /\ Owns(t) /\ call[t].fd = f

\* what always holds
Basic == TypeOK /\ Formed /\ Made /\ Marked /\ Dormant

\* what holds as long as the program does not close what it is using
Sane == /\ Placed /\ Exclusive /\ InHand /\ TwoEnds
        /\ EntriesLive /\ EntriesOwn /\ NoLeak
        /\ LinksAreFiles /\ NoStaleLink /\ OpensFile /\ FilesAreLinked

IInv == Basic /\ (~raced => Sane)
-----------------------------------------------------------------------------
(***************************************************************************)
(* Least numbers, new objects and copies                                   *)
(***************************************************************************)
\* A set of naturals that is not empty has a least element.
LEMMA LeastNumber ==
    ASSUME NEW S \in SUBSET Nat, S # {}
    PROVE  Min(S) \in S
<1>1. PICK x \in S : \A y \in S : ~(<<y, x>> \in OpToRel(<, Nat))
  BY NatLessThanWellFounded, WFMin, Zenon
<1>2. \A y \in S : ~(y < x)
  BY <1>1 DEF OpToRel
<1>3. \A y \in S : x =< y
  BY <1>2
<1>4. QED
  BY <1>3 DEF Min

\* The next object is one that has not been made.
LEMMA FreshIsNew ==
    ASSUME NEW S, S \subseteq Unused, S # {}
    PROVE  Min(S) \in S /\ Min(S) \in Objects /\ life[Min(S)] = "none" /\ Min(S) # NoObj
<1>1. S \in SUBSET Nat
  BY FdAssumption DEF Unused
<1>2. QED
  BY <1>1, LeastNumber, FdAssumption DEF Unused

\* The first free entry is free.
LEMMA FirstFree ==
    ASSUME NEW p \in Procs, NEW S, S \subseteq Free(p), S # {}
    PROVE  Min(S) \in S /\ Min(S) \in Fds /\ table[p][Min(S)] = NoObj
<1>1. S \in SUBSET Nat
  BY FdAssumption DEF Free, Fds
<1>2. QED
  BY <1>1, LeastNumber DEF Free

\* When there is room, fork makes a new object for every entry.
LEMMA CopiesAreNew ==
    ASSUME NEW p \in Procs, Cardinality(Unused) >= Cardinality(Used(p))
    PROVE  /\ \A f \in Used(p) : Copies(p)[f] \in Unused
           /\ \A f, g \in Used(p) : Copies(p)[f] = Copies(p)[g] => f = g
<1> DEFINE A == Used(p)
           B == Unused
           n == Cardinality(A)
           m == Cardinality(B)
<1>1. IsFiniteSet(B)
  BY FS_Subset, FdAssumption DEF Unused
<1>2. IsFiniteSet(A)
  <2>1. IsFiniteSet(0..(Size - 1))
    <3>1. 0 \in Int /\ Size - 1 \in Int
      BY FdAssumption
    <3>2. QED
      BY <3>1, FS_Interval
  <2>2. A \in SUBSET Fds
    BY DEF Used
  <2>3. QED
    BY <2>1, <2>2, FS_Subset DEF Fds
<1>3. n \in Nat /\ m \in Nat /\ ExistsBijection(1..n, A) /\ ExistsBijection(1..m, B)
  BY <1>1, <1>2, FS_CardinalityType
<1>4. PICK a \in Bijection(1..n, A) : TRUE
  BY <1>3 DEF ExistsBijection
<1>5. PICK b \in Bijection(1..m, B) : TRUE
  BY <1>3 DEF ExistsBijection
<1> HIDE DEF A, B, n, m
<1>6. /\ a \in [1..n -> A] /\ \A x \in A : \E i \in 1..n : a[i] = x
      /\ b \in [1..m -> B] /\ \A i, j \in 1..m : b[i] = b[j] => i = j
  BY <1>4, <1>5 DEF Bijection, Injection, Surjection, IsInjective
<1>7. m >= n
  BY DEF A, B, n, m
<1> DEFINE place == [x \in A |-> CHOOSE i \in 1..n : a[i] = x]
           c == [x \in A |-> b[place[x]]]
<1>8. \A x \in A : place[x] \in 1..n /\ a[place[x]] = x
  BY <1>6
<1>9. \A x \in A : place[x] \in 1..m
  BY <1>3, <1>7, <1>8
<1> HIDE DEF place
<1>10. c \in [A -> B]
  BY <1>6, <1>9
<1>11. \A f, g \in A : c[f] = c[g] => f = g
  <2>1. ASSUME NEW f \in A, NEW g \in A, c[f] = c[g] PROVE f = g
    <3>1. b[place[f]] = b[place[g]]
      BY <2>1
    <3>2. place[f] = place[g]
      BY <1>6, <1>9, <3>1
    <3>3. QED
      BY <1>8, <3>2
  <2>2. QED
    BY <2>1
<1> HIDE DEF c
<1>12. \E d \in [Used(p) -> Unused] : \A f, g \in Used(p) : d[f] = d[g] => f = g
  BY <1>10, <1>11 DEF A, B
<1>13. /\ Copies(p) \in [Used(p) -> Unused]
       /\ \A f, g \in Used(p) : Copies(p)[f] = Copies(p)[g] => f = g
  BY <1>12 DEF Copies
<1>14. QED
  BY <1>13
-----------------------------------------------------------------------------
(***************************************************************************)
(* The initial state                                                       *)
(***************************************************************************)
LEMMA IdleFacts ==
    /\ Idle.op = "none" /\ Idle.step = "none" /\ Idle.fd = 0 /\ Idle.obj = NoObj
    /\ Idle.obj2 = NoObj /\ Idle \in Calls /\ 0 \in Fds
<1>1. 0 \in Fds
  BY FdAssumption DEF Fds
<1>2. QED
  BY <1>1 DEF Idle, Doing, Calls

\* Nothing is open.
LEMMA InitInv == Init => IInv
<1> SUFFICES ASSUME Init PROVE IInv
  OBVIOUS
<1> USE DEF Init
<1>1. TypeOK
  <2>1. alive \in [Procs -> {"none", "run", "gone", "hung"}]
    OBVIOUS
  <2>2. call \in [Threads -> Calls]
    BY IdleFacts
  <2>3. QED
    BY <2>1, <2>2 DEF TypeOK
<1>2. Formed /\ Made /\ Marked
  BY IdleFacts DEF Formed, Made, Marked
<1>3. Dormant
  BY FdAssumption DEF Dormant
<1>4. \A t \in Threads : ~Owns(t) /\ \A o : ~Holds(t, o)
  BY IdleFacts DEF Owns, Holds
<1>5. Placed /\ Exclusive /\ InHand /\ TwoEnds /\ EntriesLive /\ EntriesOwn /\ NoLeak
  BY <1>4, FdAssumption, IdleFacts
     DEF Placed, Exclusive, InHand, TwoEnds, EntriesLive, EntriesOwn, NoLeak
<1>6. LinksAreFiles /\ NoStaleLink /\ OpensFile /\ FilesAreLinked
  BY FdAssumption, IdleFacts DEF LinksAreFiles, NoStaleLink, OpensFile, FilesAreLinked, File
<1>7. QED
  BY <1>1, <1>2, <1>3, <1>5, <1>6 DEF IInv, Basic, Sane

-----------------------------------------------------------------------------
(***************************************************************************)
(* open and pipe2                                                          *)
(***************************************************************************)
\* the types, point by point
LEMMA Types ==
    ASSUME TypeOK
    PROVE  /\ \A p \in Procs, f \in Fds : table[p][f] \in Objects \cup {NoObj}
           /\ \A o \in Objects : /\ kind[o] \in {"none", "file", "pipe"}
                                 /\ cloexec[o] \in BOOLEAN
                                 /\ life[o] \in {"none", "live", "closed"}
           /\ \A p \in Procs : links[p] \subseteq Fds
           /\ \A t \in Threads : /\ call[t] \in Calls /\ call[t].fd \in Fds
                                 /\ call[t].obj \in Objects \cup {NoObj}
                                 /\ call[t].obj2 \in Objects \cup {NoObj}
                                 /\ ProcOf[t] \in Procs
           /\ broken \subseteq Objects /\ lost \subseteq Objects /\ inherit \subseteq Objects
BY FdAssumption DEF TypeOK, Calls

\* nobody knows of object o
NewObject(o) ==
    /\ \A p \in Procs, f \in Fds : table[p][f] # o
    /\ \A t \in Threads : ~Holds(t, o) /\ call[t].obj # o /\ call[t].obj2 # o
    /\ o \notin broken /\ o \notin lost /\ o \notin inherit

LEMMA NewObjects ==
    ASSUME Basic, NEW o \in Objects, life[o] = "none"
    PROVE  NewObject(o)
<1> USE DEF Basic
<1>1. o # NoObj
  BY FdAssumption
<1>2. \A t \in Threads : call[t].obj # o /\ call[t].obj2 # o
  BY <1>1 DEF Made
<1>3. \A t \in Threads : ~Holds(t, o)
  BY <1>2 DEF Holds
<1>4. \A p \in Procs, f \in Fds : table[p][f] # o
  BY <1>1 DEF Made
<1>5. o \notin broken /\ o \notin lost /\ o \notin inherit
  BY DEF Made, Marked
<1>6. QED
  BY <1>2, <1>3, <1>4, <1>5 DEF NewObject

LEMMA OpenInv ==
    ASSUME IInv, NEW t \in Threads, alive[ProcOf[t]] = "run", NEW cx \in BOOLEAN, Open(t, cx)
    PROVE  IInv'
<1> DEFINE o == Fresh
           rec == Doing("open", "assign", 0, o, NoObj)
<1> USE DEF IInv, Basic
<1>1. o \in Objects /\ life[o] = "none" /\ o # NoObj
  BY FreshIsNew DEF Open, Fresh
<1>2. /\ call[t] = Idle /\ UNCHANGED <<table, links, alive, ghostVars>>
      /\ life' = [life EXCEPT ![o] = "live"] /\ kind' = [kind EXCEPT ![o] = "file"]
      /\ cloexec' = [cloexec EXCEPT ![o] = cx]
      /\ inherit' = IF cx THEN inherit \cup {o} ELSE inherit
      /\ call' = [call EXCEPT ![t] = rec]
  BY DEF Open, MayCall
<1> HIDE DEF o
<1>3. rec \in Calls
  BY <1>1, IdleFacts DEF Calls, Using, Making, Doing
<1>4. TypeOK'
  <2>1. /\ life' \in [Objects -> {"none", "live", "closed"}]
        /\ kind' \in [Objects -> {"none", "file", "pipe"}]
        /\ cloexec' \in [Objects -> BOOLEAN]
    BY <1>1, <1>2 DEF TypeOK
  <2>2. call' \in [Threads -> Calls]
    BY <1>2, <1>3 DEF TypeOK
  <2>3. inherit' \subseteq Objects
    BY <1>1, <1>2 DEF TypeOK
  <2>4. QED
    BY <1>2, <2>1, <2>2, <2>3 DEF TypeOK, ghostVars
<1>5. /\ \A u \in Threads \ {t} : call'[u] = call[u]
      /\ call'[t].op = "open" /\ call'[t].step = "assign" /\ call'[t].fd = 0
      /\ call'[t].obj = o /\ call'[t].obj2 = NoObj
      /\ \A x \in Objects \ {o} : life'[x] = life[x] /\ kind'[x] = kind[x] /\ cloexec'[x] = cloexec[x]
      /\ life'[o] = "live" /\ kind'[o] = "file" /\ cloexec'[o] = cx
  BY <1>1, <1>2 DEF TypeOK, Doing
<1>0. NewObject(o)
  BY <1>1, NewObjects
<1>6. Formed'
  BY <1>1, <1>5 DEF Formed
<1>7. Made'
  BY <1>1, <1>2, <1>5, Types DEF Made, ghostVars, TypeOK
<1>8. Marked'
  BY <1>1, <1>2, <1>5 DEF Marked
<1>9. Dormant'
  BY <1>2, <1>5 DEF Dormant
<1>10. ASSUME ~raced' PROVE Sane'
  <2> USE DEF Sane
  <2>1. ~raced
    BY <1>2, <1>10 DEF ghostVars
  <2>2. /\ \A u \in Threads : Owns(u)' <=> Owns(u)
        /\ \A u \in Threads, x \in Objects : Holds(u, x)' <=> (Holds(u, x) \/ (u = t /\ x = o))
        /\ ~Owns(t) /\ \A x \in Objects : ~Holds(t, x)
    BY <1>2, <1>5, IdleFacts, FdAssumption DEF Owns, Holds
  <2>3. Placed' /\ Exclusive'
    BY <1>2, <1>5, <2>1, <2>2 DEF Placed, Exclusive, Owns
  <2>4. InHand'
    BY <1>0, <1>1, <1>2, <1>5, <2>1, <2>2 DEF InHand, NewObject, ghostVars
  <2>5. TwoEnds'
    BY <1>5, <2>1 DEF TwoEnds
  <2>6. EntriesLive' /\ EntriesOwn'
    BY <1>0, <1>1, <1>2, <1>5, <2>1, Types DEF EntriesLive, EntriesOwn, NewObject, ghostVars
  <2>7. NoLeak'
    BY <1>1, <1>2, <1>5, <2>1, <2>2 DEF NoLeak, ghostVars
  <2>8. \A p \in Procs, f \in Fds : File(p, f)' <=> File(p, f)
    BY <1>0, <1>2, <1>5, Types DEF File, NewObject
  <2>9. LinksAreFiles' /\ FilesAreLinked'
    BY <1>2, <1>5, <2>1, <2>2, <2>8, Types, FdAssumption DEF LinksAreFiles, FilesAreLinked, ghostVars
  <2>10. NoStaleLink' /\ OpensFile'
    BY <1>0, <1>1, <1>2, <1>5, <2>1, Types DEF NoStaleLink, OpensFile, NewObject, Formed
  <2>11. QED
    BY <2>3, <2>4, <2>5, <2>6, <2>7, <2>9, <2>10
<1>11. QED
  BY <1>4, <1>6, <1>7, <1>8, <1>9, <1>10

LEMMA Pipe2Inv ==
    ASSUME IInv, NEW t \in Threads, alive[ProcOf[t]] = "run", Pipe2(t)
    PROVE  IInv'
<1> DEFINE r == Fresh
           w == Min(Unused \ {r})
           rec == Doing("pipe", "assign", 0, r, w)
<1> USE DEF IInv, Basic
<1>1. r \in Objects /\ life[r] = "none" /\ r # NoObj /\ w \in Objects /\ life[w] = "none"
      /\ w # NoObj /\ w # r
  <2>1. IsFiniteSet(Unused)
    BY FS_Subset, FdAssumption DEF Unused
  <2>2. Unused # {} /\ Unused \ {r} # {}
    <3>1. Cardinality(Unused) >= 2
      BY DEF Pipe2
    <3>2. Cardinality(Unused) \in Nat /\ IsFiniteSet(Unused \ {r})
          /\ Cardinality(Unused \ {r}) >= Cardinality(Unused) - 1
      <4> HIDE DEF r
      <4>1. Cardinality(Unused) \in Nat
        BY <2>1, FS_CardinalityType
      <4>2. IsFiniteSet(Unused \ {r}) /\ Cardinality(Unused \ {r}) =
               IF r \in Unused THEN Cardinality(Unused) - 1 ELSE Cardinality(Unused)
        BY <2>1, FS_RemoveElement, Zenon
      <4>3. QED
        BY <4>1, <4>2
    <3>3. QED
      BY <3>1, <3>2, FS_EmptySet
  <2>3. r \in Unused /\ r \in Objects /\ life[r] = "none" /\ r # NoObj
    BY <2>2, FreshIsNew DEF Fresh
  <2>4. w \in Unused \ {r} /\ w \in Objects /\ life[w] = "none" /\ w # NoObj
    <3> HIDE DEF r
    <3>1. QED
      BY <2>2, FreshIsNew
  <2>5. QED
    BY <2>3, <2>4
<1>2. /\ call[t] = Idle /\ UNCHANGED <<table, cloexec, links, alive, inherit, ghostVars>>
  BY DEF Pipe2, MayCall
<1>3. /\ life' = [life EXCEPT ![r] = "live", ![w] = "live"]
      /\ kind' = [kind EXCEPT ![r] = "pipe", ![w] = "pipe"]
      /\ call' = [call EXCEPT ![t] = rec]
  BY DEF Pipe2, MayCall
<1> HIDE DEF r, w
<1>4. TypeOK'
  <2>1. /\ life' \in [Objects -> {"none", "live", "closed"}]
        /\ kind' \in [Objects -> {"none", "file", "pipe"}]
    BY <1>1, <1>3 DEF TypeOK
  <2>2. call' \in [Threads -> Calls]
    <3>1. rec \in Calls
      BY <1>1, IdleFacts DEF Calls, Using, Making, Doing
    <3>2. QED
      BY <1>3, <3>1 DEF TypeOK
  <2>3. QED
    BY <1>2, <2>1, <2>2 DEF TypeOK, ghostVars
<1>5. /\ \A u \in Threads \ {t} : call'[u] = call[u]
      /\ call'[t].op = "pipe" /\ call'[t].step = "assign" /\ call'[t].fd = 0
      /\ call'[t].obj = r /\ call'[t].obj2 = w
      /\ \A x \in Objects \ {r, w} : life'[x] = life[x] /\ kind'[x] = kind[x]
      /\ life'[r] = "live" /\ life'[w] = "live" /\ kind'[r] = "pipe" /\ kind'[w] = "pipe"
  BY <1>1, <1>3 DEF TypeOK, Doing
<1>6. NewObject(r) /\ NewObject(w)
  BY <1>1, NewObjects
<1>7. Formed'
  BY <1>1, <1>5 DEF Formed
<1>8. Made'
  BY <1>1, <1>2, <1>5, <1>6, Types DEF Made, ghostVars, NewObject
<1>9. Marked'
  BY <1>1, <1>2, <1>5 DEF Marked
<1>10. Dormant'
  BY <1>2, <1>5 DEF Dormant
<1>11. ASSUME ~raced' PROVE Sane'
  <2> USE DEF Sane
  <2>1. ~raced
    BY <1>2, <1>11 DEF ghostVars
  <2>2. /\ \A u \in Threads : Owns(u)' <=> Owns(u)
        /\ \A u \in Threads, x \in Objects :
              Holds(u, x)' <=> (Holds(u, x) \/ (u = t /\ x \in {r, w}))
        /\ ~Owns(t) /\ \A x \in Objects : ~Holds(t, x)
    BY <1>2, <1>5, IdleFacts, FdAssumption DEF Owns, Holds
  <2>3. Placed' /\ Exclusive'
    BY <1>2, <1>5, <2>1, <2>2 DEF Placed, Exclusive, Owns
  <2>4. InHand'
    BY <1>6, <1>1, <1>2, <1>5, <2>1, <2>2 DEF InHand, NewObject, ghostVars
  <2>5. TwoEnds'
    BY <1>1, <1>5, <2>1 DEF TwoEnds
  <2>6. EntriesLive' /\ EntriesOwn'
    BY <1>6, <1>1, <1>2, <1>5, <2>1, Types DEF EntriesLive, EntriesOwn, NewObject, ghostVars
  <2>7. NoLeak'
    BY <1>1, <1>2, <1>5, <2>1, <2>2 DEF NoLeak, ghostVars
  <2>8. \A p \in Procs, f \in Fds : File(p, f)' <=> File(p, f)
    BY <1>6, <1>2, <1>5, Types DEF File, NewObject
  <2>9. LinksAreFiles' /\ FilesAreLinked'
    BY <1>2, <1>5, <2>1, <2>2, <2>8, Types, FdAssumption DEF LinksAreFiles, FilesAreLinked, ghostVars
  <2>10. NoStaleLink'
    BY <1>2, <1>5, <2>1 DEF NoStaleLink
  <2>11. OpensFile'
    BY <1>5, <1>6, <2>1, Types, IdleFacts DEF OpensFile, NewObject, Formed
  <2>12. QED
    BY <2>3, <2>4, <2>5, <2>6, <2>7, <2>9, <2>10, <2>11
<1>12. QED
  BY <1>4, <1>7, <1>8, <1>9, <1>10, <1>11

\* What a change of the step of a call leaves, and what the end of a call does.
LEMMA StepEffect ==
    ASSUME TypeOK, NEW t \in Threads, NEW next \in {"remove", "object"}, Step(t, next)
    PROVE  /\ call' \in [Threads -> Calls]
           /\ \A u \in Threads \ {t} : call'[u] = call[u]
           /\ call'[t].op = call[t].op /\ call'[t].step = next /\ call'[t].fd = call[t].fd
           /\ call'[t].obj = call[t].obj /\ call'[t].obj2 = call[t].obj2
<1>1. call \in [Threads -> Calls]
  BY DEF TypeOK
<1>2. call' = [call EXCEPT ![t] = [call[t] EXCEPT !.step = next]]
  BY DEF Step
<1>3. [call[t] EXCEPT !.step = next] \in Calls
  BY <1>1 DEF Calls
<1>4. QED
  BY <1>1, <1>2, <1>3 DEF Calls

LEMMA PlaceEffect ==
    ASSUME TypeOK, NEW t \in Threads, NEW next \in {"link", "second"}, NEW f \in Fds,
           call' = [call EXCEPT ![t].step = next, ![t].fd = f]
    PROVE  /\ call' \in [Threads -> Calls]
           /\ \A u \in Threads \ {t} : call'[u] = call[u]
           /\ call'[t].op = call[t].op /\ call'[t].step = next /\ call'[t].fd = f
           /\ call'[t].obj = call[t].obj /\ call'[t].obj2 = call[t].obj2
<1>1. call \in [Threads -> Calls]
  BY DEF TypeOK
<1>2. call' = [call EXCEPT ![t] = [call[t] EXCEPT !.step = next, !.fd = f]]
  BY <1>1
<1>3. [call[t] EXCEPT !.step = next, !.fd = f] \in Calls
  BY <1>1 DEF Calls
<1>4. QED
  BY <1>1, <1>2, <1>3 DEF Calls

LEMMA FinishEffect ==
    ASSUME TypeOK, NEW t \in Threads, Finish(t)
    PROVE  /\ call' \in [Threads -> Calls]
           /\ \A u \in Threads \ {t} : call'[u] = call[u]
           /\ call'[t] = Idle
BY IdleFacts DEF Finish, TypeOK

\* A change of one entry of a table, point by point.
LEMMA EntryEffect ==
    ASSUME TypeOK, NEW p \in Procs, NEW f \in Fds, NEW o \in Objects \cup {NoObj},
           table' = [table EXCEPT ![p][f] = o]
    PROVE  /\ table' \in [Procs -> [Fds -> Objects \cup {NoObj}]]
           /\ \A q \in Procs, g \in Fds :
                 table'[q][g] = IF q = p /\ g = f THEN o ELSE table[q][g]
BY DEF TypeOK

\* The close of an object, point by point.
LEMMA DeadEffect ==
    ASSUME TypeOK, NEW o \in Objects, life' = Dead(o)
    PROVE  /\ life' \in [Objects -> {"none", "live", "closed"}]
           /\ \A x \in Objects : life'[x] = IF x = o THEN "closed" ELSE life[x]
BY DEF TypeOK, Dead

\* The calls that have opened an object, by their step.
LEMMA CallFacts ==
    ASSUME TypeOK, Formed, NEW t \in Threads, call[t].op # "none"
    PROVE  /\ call[t].obj \in Objects /\ call[t].obj # NoObj
           /\ call[t].op = "pipe" => call[t].obj2 \in Objects /\ call[t].obj2 # NoObj
           /\ call[t].op # "pipe" => call[t].obj2 = NoObj
           /\ ProcOf[t] \in Procs /\ call[t].fd \in Fds
BY Types, IdleFacts DEF Formed

\* A call that gives up before it has an entry, or after it has removed it, closes
\* what it has in its hands.
LEMMA DropInv ==
    ASSUME IInv, NEW t \in Threads, call[t].step \in {"assign", "object"}, Finish(t),
           life' \in [Objects -> {"none", "live", "closed"}],
           \A x \in Objects :
              life'[x] = IF x \in {call[t].obj, call[t].obj2} THEN "closed" ELSE life[x],
           UNCHANGED <<table, kind, cloexec, links, alive, inherit, raced, broken, lost, unlinked>>
    PROVE  IInv'
<1> DEFINE O == {call[t].obj, call[t].obj2}
<1> USE DEF IInv, Basic
<1>1. /\ call' \in [Threads -> Calls] /\ call'[t] = Idle
      /\ \A u \in Threads \ {t} : call'[u] = call[u]
  BY FinishEffect
<1>2. \A x \in Objects : x \in O => life[x] # "none"
  BY FdAssumption DEF Made
<1>3. \A x \in Objects : life'[x] = IF x \in O THEN "closed" ELSE life[x]
  OBVIOUS
<1>4. \A x \in Objects : Holds(t, x) <=> x \in O
  BY FdAssumption, IdleFacts DEF Holds, Formed
<1> HIDE DEF O
<1>5. TypeOK'
  BY <1>1 DEF TypeOK
<1>6. Formed'
  BY <1>1 DEF Formed
<1>7. Made'
  BY <1>1, <1>2, <1>3, Types, IdleFacts DEF Made
<1>8. Marked' /\ Dormant'
  BY <1>1, <1>2, <1>3 DEF Marked, Dormant
<1>9. ASSUME ~raced PROVE Sane'
  <2> USE DEF Sane
  <2>1. /\ \A u \in Threads : Owns(u)' <=> Owns(u) /\ u # t
        /\ \A u \in Threads, x \in Objects : Holds(u, x)' <=> Holds(u, x) /\ u # t
        /\ ~Owns(t)
    BY <1>1, IdleFacts, FdAssumption DEF Owns, Holds
  <2>2. Placed' /\ Exclusive'
    BY <1>1, <1>9, <2>1 DEF Placed, Exclusive
  <2>3. InHand'
    BY <1>1, <1>3, <1>4, <1>9, <2>1 DEF InHand
  <2>4. TwoEnds' /\ OpensFile'
    BY <1>1, <1>9, IdleFacts DEF TwoEnds, OpensFile
  <2>5. EntriesLive' /\ EntriesOwn'
    BY <1>3, <1>4, <1>9, Types DEF EntriesLive, EntriesOwn, InHand
  <2>6. NoLeak'
    BY <1>3, <1>4, <1>9, <2>1 DEF NoLeak
  <2>7. LinksAreFiles' /\ NoStaleLink'
    BY <1>1, <1>9, IdleFacts DEF LinksAreFiles, NoStaleLink, File
  <2>8. FilesAreLinked'
    BY <1>1, <1>9, <2>1, IdleFacts DEF FilesAreLinked, File
  <2>9. QED
    BY <2>2, <2>3, <2>4, <2>5, <2>6, <2>7, <2>8
<1>10. QED
  BY <1>5, <1>6, <1>7, <1>8, <1>9

LEMMA OpenAssignInv ==
    ASSUME IInv, NEW t \in Threads, alive[ProcOf[t]] = "run", OpenAssign(t)
    PROVE  IInv'
<1> DEFINE p == ProcOf[t]
           o == call[t].obj
           f == Min(Free(p))
<1> USE DEF IInv, Basic
<1>1. /\ call[t].op = "open" /\ call[t].step = "assign"
      /\ UNCHANGED <<kind, cloexec, links, alive, inherit, raced, broken, lost, unlinked>>
      /\ \/ Free(p) = {} /\ life' = Dead(o) /\ Finish(t) /\ UNCHANGED table
         \/ /\ Free(p) # {} /\ table' = [table EXCEPT ![p][f] = o]
            /\ call' = [call EXCEPT ![t].step = "link", ![t].fd = f]
            /\ UNCHANGED life
  BY DEF OpenAssign, ghostVars
<1>2. o \in Objects /\ o # NoObj /\ call[t].obj2 = NoObj /\ p \in Procs /\ life[o] # "none"
      /\ Holds(t, o)
  BY <1>1, CallFacts DEF Made, Holds
<1>3. CASE Free(p) = {} /\ life' = Dead(o) /\ Finish(t) /\ UNCHANGED table
  <2>1. /\ life' \in [Objects -> {"none", "live", "closed"}]
        /\ \A x \in Objects : life'[x] = IF x \in {o, call[t].obj2} THEN "closed" ELSE life[x]
    BY <1>2, <1>3, DeadEffect, FdAssumption
  <2>2. QED
    BY <1>1, <1>3, <2>1, DropInv
<1>4. CASE /\ Free(p) # {} /\ table' = [table EXCEPT ![p][f] = o]
           /\ call' = [call EXCEPT ![t].step = "link", ![t].fd = f]
           /\ UNCHANGED life
  <2>1. f \in Fds /\ table[p][f] = NoObj
    BY <1>2, <1>4, FirstFree
  <2> HIDE DEF f
  <2>2. /\ call' \in [Threads -> Calls]
        /\ \A u \in Threads \ {t} : call'[u] = call[u]
        /\ call'[t].op = "open" /\ call'[t].step = "link" /\ call'[t].fd = f
        /\ call'[t].obj = o /\ call'[t].obj2 = NoObj
    BY <1>1, <1>2, <1>4, <2>1, PlaceEffect
  <2>3. /\ table' \in [Procs -> [Fds -> Objects \cup {NoObj}]]
        /\ \A q \in Procs, g \in Fds :
              table'[q][g] = IF q = p /\ g = f THEN o ELSE table[q][g]
    BY <1>2, <1>4, <2>1, EntryEffect
  <2> DEFINE same == UNCHANGED life
  <2>0. same
    BY <1>4
  <2> HIDE DEF o
  <2>4. TypeOK'
    BY <1>1, <2>0, <2>2, <2>3 DEF TypeOK
  <2>5. Formed'
    BY <1>2, <2>2 DEF Formed
  <2>6. Made'
    BY <1>1, <1>2, <2>0, <2>2, <2>3, Types DEF Made
  <2>7. Marked' /\ Dormant'
    BY <1>1, <1>2, <2>0, <2>2, <2>3 DEF Marked, Dormant
  <2>8. ASSUME ~raced' PROVE Sane'
    <3> USE DEF Sane
    <3>1. ~raced
      BY <1>1, <2>8
    <3>2. /\ \A u \in Threads : Owns(u)' <=> Owns(u) \/ u = t
          /\ \A u \in Threads, x \in Objects : Holds(u, x)' <=> Holds(u, x) /\ u # t
          /\ ~Owns(t) /\ \A x \in Objects : Holds(t, x) <=> x = o
      BY <1>1, <1>2, <2>2, IdleFacts, FdAssumption DEF Owns, Holds, o
    <3>3. \A u \in Threads : Owns(u) /\ ProcOf[u] = p => call[u].fd # f
      <4>1. \A u \in Threads : Owns(u) => call[u].obj # NoObj
        BY IdleFacts DEF Formed, Owns
      <4>2. QED
        BY <2>1, <3>1, <4>1 DEF Placed
    <3>4. Placed' /\ Exclusive'
      <4>1. \A u \in Threads \ {t} : Owns(u) =>
               table'[ProcOf[u]][call[u].fd] = table[ProcOf[u]][call[u].fd]
        BY <2>3, <3>3, Types
      <4>2. Placed'
        BY <1>2, <2>1, <2>2, <2>3, <3>1, <3>2, <4>1 DEF Placed
      <4>3. Exclusive'
        BY <2>2, <3>1, <3>2, <3>3 DEF Exclusive
      <4>4. QED
        BY <4>2, <4>3
    <3>5. InHand'
      BY <1>1, <1>2, <2>0, <2>2, <2>3, <3>1, <3>2 DEF InHand
    <3>6. TwoEnds' /\ OpensFile'
      BY <1>1, <2>2, <3>1 DEF TwoEnds, OpensFile, o
    <3>7. EntriesLive' /\ EntriesOwn'
      BY <1>1, <1>2, <2>0, <2>3, <3>1 DEF EntriesLive, EntriesOwn, InHand
    <3>8. NoLeak'
      BY <1>1, <1>2, <2>0, <2>1, <2>3, <3>1, <3>2, FdAssumption DEF NoLeak
    <3>9. \A q \in Procs, g \in Fds : ~(q = p /\ g = f) => (File(q, g)' <=> File(q, g))
      BY <1>1, <2>3 DEF File
    <3>10. f \notin links[p]
      BY <1>2, <2>1, <3>1 DEF LinksAreFiles, File
    <3>11. LinksAreFiles' /\ NoStaleLink'
      BY <1>1, <1>2, <2>2, <3>1, <3>9, <3>10, Types DEF LinksAreFiles, NoStaleLink
    <3>12. FilesAreLinked'
      <4>1. SUFFICES ASSUME First \notin unlinked, NEW g \in Fds, File(First, g)'
                     PROVE  \/ g \in links[First] \/ table'[First][g] \in broken
                            \/ \E u \in Threads : /\ ProcOf[u] = First
                                                  /\ call'[u].op \in {"open", "close"}
                                                  /\ Owns(u)' /\ call'[u].fd = g
        BY <1>1 DEF FilesAreLinked
      <4>2. CASE First = p /\ g = f
        BY <2>2, <3>2, <4>2
      <4>3. CASE ~(First = p /\ g = f)
        BY <2>2, <2>3, <3>1, <3>2, <3>9, <4>1, <4>3, FdAssumption DEF FilesAreLinked
      <4>4. QED
        BY <4>2, <4>3
    <3>13. QED
      BY <3>4, <3>5, <3>6, <3>7, <3>8, <3>11, <3>12
  <2>9. QED
    BY <2>4, <2>5, <2>6, <2>7, <2>8
<1>5. QED
  BY <1>1, <1>3, <1>4

\* A call that gives up once it has an entry empties it and closes its objects.
LEMMA UndoInv ==
    ASSUME IInv, NEW t \in Threads, call[t].step \in {"link", "second"}, Finish(t),
           table' = [table EXCEPT ![ProcOf[t]][call[t].fd] = NoObj],
           life' \in [Objects -> {"none", "live", "closed"}],
           \A x \in Objects :
              life'[x] = IF x \in {call[t].obj, call[t].obj2} THEN "closed" ELSE life[x],
           UNCHANGED <<kind, cloexec, links, alive, inherit, raced, broken, lost, unlinked>>
    PROVE  IInv'
<1> DEFINE O == {call[t].obj, call[t].obj2}
           p == ProcOf[t]
           f == call[t].fd
<1> USE DEF IInv, Basic
<1>1. /\ call' \in [Threads -> Calls] /\ call'[t] = Idle
      /\ \A u \in Threads \ {t} : call'[u] = call[u]
  BY FinishEffect
<1>2. \A x \in Objects : x \in O => life[x] # "none"
  BY FdAssumption DEF Made
<1>3. \A x \in Objects : life'[x] = IF x \in O THEN "closed" ELSE life[x]
  OBVIOUS
<1>4. p \in Procs /\ f \in Fds
  BY Types
<1>5. /\ table' \in [Procs -> [Fds -> Objects \cup {NoObj}]]
      /\ \A q \in Procs, g \in Fds :
            table'[q][g] = IF q = p /\ g = f THEN NoObj ELSE table[q][g]
  BY <1>4, EntryEffect
<1>6. Owns(t) /\ \A x \in Objects : Holds(t, x) => x \in O
  BY DEF Owns, Holds
<1>7. ASSUME ~raced
      PROVE  /\ table[p][f] = call[t].obj /\ f \notin links[p]
             /\ \A u \in Threads \ {t} : Owns(u) => ~(ProcOf[u] = p /\ call[u].fd = f)
             /\ \A u \in Threads \ {t}, x \in Objects : Holds(u, x) => x \notin O
             /\ \A q \in Procs, g \in Fds :
                   (~(q = p /\ g = f) /\ table[q][g] # NoObj) => table[q][g] \notin O
  <2> USE DEF Sane
  <2>1. call[t].obj \in Objects /\ call[t].obj # NoObj
    BY CallFacts, IdleFacts DEF Formed
  <2>2. table[p][f] = call[t].obj /\ f \notin links[p]
    BY <1>6, <1>7 DEF Placed, NoStaleLink
  <2>3. \A u \in Threads \ {t} : Owns(u) => ~(ProcOf[u] = p /\ call[u].fd = f)
    BY <1>6, <1>7 DEF Exclusive
  <2>4. call[t].obj2 = NoObj \/ (call[t].obj2 \in Objects /\ Holds(t, call[t].obj2))
    BY Types, IdleFacts DEF Formed, Holds
  <2>5. \A u \in Threads \ {t}, x \in Objects : Holds(u, x) => x \notin O
    BY <1>4, <1>7, <2>1, <2>2, <2>4, FdAssumption DEF InHand
  <2>6. \A q \in Procs, g \in Fds :
           (~(q = p /\ g = f) /\ table[q][g] # NoObj) => table[q][g] \notin O
    BY <1>4, <1>7, <2>1, <2>2, <2>4, Types DEF InHand, EntriesOwn
  <2>7. QED
    BY <2>2, <2>3, <2>5, <2>6
<1> HIDE DEF O, p, f
<1>8. TypeOK'
  BY <1>1, <1>5 DEF TypeOK
<1>9. Formed'
  BY <1>1 DEF Formed
<1>10. Made'
  BY <1>1, <1>2, <1>3, <1>5, Types, IdleFacts DEF Made
<1>11. Marked' /\ Dormant'
  BY <1>1, <1>2, <1>3, <1>5 DEF Marked, Dormant
<1>12. ASSUME ~raced PROVE Sane'
  <2> USE DEF Sane
  <2>1. /\ \A u \in Threads : Owns(u)' <=> Owns(u) /\ u # t
        /\ \A u \in Threads, x \in Objects : Holds(u, x)' <=> Holds(u, x) /\ u # t
    BY <1>1, IdleFacts, FdAssumption DEF Owns, Holds
  <2>2. Placed' /\ Exclusive'
    BY <1>1, <1>5, <1>7, <1>12, <2>1, Types DEF Placed, Exclusive
  <2>3. InHand'
    <3>1. SUFFICES ASSUME NEW u \in Threads, NEW x \in Objects, Holds(u, x), u # t
                   PROVE  /\ \A v \in Threads : Holds(v, x)' => v = u
                          /\ \A q \in Procs, g \in Fds : table'[q][g] # x
                          /\ life'[x] = "live" \/ (call'[u].step = "object" /\ x \in broken')
      BY <2>1 DEF InHand
    <3>2. /\ \A v \in Threads : Holds(v, x) => v = u
          /\ \A q \in Procs, g \in Fds : table[q][g] # x
          /\ life[x] = "live" \/ (call[u].step = "object" /\ x \in broken)
      BY <1>12, <3>1 DEF InHand
    <3>3. x # NoObj /\ x \notin O
      BY <1>7, <1>12, <3>1, FdAssumption
    <3>4. QED
      BY <1>1, <1>3, <1>5, <2>1, <3>1, <3>2, <3>3
  <2>4. TwoEnds' /\ OpensFile'
    BY <1>1, <1>12, IdleFacts DEF TwoEnds, OpensFile
  <2>5. EntriesLive' /\ EntriesOwn'
    BY <1>3, <1>5, <1>7, <1>12, Types DEF EntriesLive, EntriesOwn
  <2>6. NoLeak'
    <3>1. table[p][f] \in O
      BY <1>7, <1>12 DEF O
    <3>2. QED
      BY <1>3, <1>5, <1>6, <1>12, <2>1, <3>1 DEF NoLeak
  <2>7. \A q \in Procs, g \in Fds : File(q, g)' <=> File(q, g) /\ ~(q = p /\ g = f)
    BY <1>5 DEF File
  <2>8. LinksAreFiles' /\ NoStaleLink'
    BY <1>1, <1>7, <1>12, <2>7, Types, IdleFacts DEF LinksAreFiles, NoStaleLink
  <2>9. FilesAreLinked'
    BY <1>1, <1>5, <1>12, <2>1, <2>7, FdAssumption DEF FilesAreLinked, p, f
  <2>10. QED
    BY <2>2, <2>3, <2>4, <2>5, <2>6, <2>8, <2>9
<1>13. QED
  BY <1>8, <1>9, <1>10, <1>11, <1>12

LEMMA OpenLinkInv ==
    ASSUME IInv, NEW t \in Threads, alive[ProcOf[t]] = "run", OpenLink(t)
    PROVE  IInv'
<1> DEFINE p == ProcOf[t]
           f == call[t].fd
<1> USE DEF IInv, Basic
<1>1. /\ call[t].op = "open" /\ call[t].step = "link" /\ Finish(t)
      /\ UNCHANGED <<kind, cloexec, alive, inherit, raced, broken, lost, unlinked>>
      /\ \/ links' = [links EXCEPT ![p] = @ \cup {f}] /\ UNCHANGED <<table, life>>
         \/ /\ table' = [table EXCEPT ![p][f] = NoObj] /\ life' = Dead(call[t].obj)
            /\ UNCHANGED links
  BY DEF OpenLink, ghostVars
<1>2. /\ call[t].obj \in Objects /\ call[t].obj # NoObj /\ call[t].obj2 = NoObj
      /\ p \in Procs /\ f \in Fds
  BY <1>1, CallFacts
<1>3. CASE links' = [links EXCEPT ![p] = @ \cup {f}] /\ UNCHANGED <<table, life>>
  <2>1. /\ call' \in [Threads -> Calls] /\ call'[t] = Idle
        /\ \A u \in Threads \ {t} : call'[u] = call[u]
    BY <1>1, FinishEffect
  <2>2. /\ links' \in [Procs -> SUBSET Fds]
        /\ \A q \in Procs : links'[q] = IF q = p THEN links[p] \cup {f} ELSE links[q]
    BY <1>2, <1>3 DEF TypeOK
  <2> DEFINE same == UNCHANGED <<table, life>>
  <2>3. same
    BY <1>3
  <2> HIDE DEF p, f
  <2>4. TypeOK'
    BY <1>1, <2>1, <2>2, <2>3 DEF TypeOK
  <2>5. Formed'
    BY <2>1 DEF Formed
  <2>6. Made' /\ Marked' /\ Dormant'
    BY <1>1, <2>1, <2>3, IdleFacts DEF Made, Marked, Dormant
  <2>7. ASSUME ~raced PROVE Sane'
    <3> USE DEF Sane
    <3>1. /\ \A u \in Threads : Owns(u)' <=> Owns(u) /\ u # t
          /\ \A u \in Threads, x \in Objects : Holds(u, x)' <=> Holds(u, x)
          /\ Owns(t)
      BY <1>1, <2>1, IdleFacts, FdAssumption DEF Owns, Holds
    <3>2. /\ table[p][f] = call[t].obj
          /\ \A u \in Threads \ {t} : Owns(u) => ~(ProcOf[u] = p /\ call[u].fd = f)
      BY <1>1, <2>7, <3>1 DEF Placed, Exclusive, p, f
    <3>3. File(p, f)
      BY <1>1, <1>2, <2>7, <3>2 DEF File, OpensFile
    <3>4. Placed' /\ Exclusive'
      BY <2>1, <2>3, <2>7, <3>1 DEF Placed, Exclusive
    <3>5. InHand' /\ NoLeak'
      BY <1>1, <2>1, <2>3, <2>7, <3>1 DEF InHand, NoLeak, Holds
    <3>6. TwoEnds' /\ OpensFile'
      BY <1>1, <2>1, <2>7, IdleFacts DEF TwoEnds, OpensFile
    <3>7. EntriesLive' /\ EntriesOwn'
      BY <1>1, <2>3, <2>7 DEF EntriesLive, EntriesOwn
    <3>8. \A q \in Procs, g \in Fds : File(q, g)' <=> File(q, g)
      BY <1>1, <2>3 DEF File
    <3>9. LinksAreFiles'
      BY <2>2, <2>7, <3>3, <3>8, <1>2, Types DEF LinksAreFiles
    <3>10. NoStaleLink'
      BY <2>1, <2>2, <2>7, <3>1, <3>2, IdleFacts, Types DEF NoStaleLink, Owns
    <3>11. FilesAreLinked'
      BY <1>1, <2>1, <2>2, <2>3, <2>7, <3>1, <3>8, FdAssumption DEF FilesAreLinked, p, f
    <3>12. QED
      BY <3>4, <3>5, <3>6, <3>7, <3>9, <3>10, <3>11
  <2>8. QED
    BY <1>1, <2>4, <2>5, <2>6, <2>7
<1>4. CASE /\ table' = [table EXCEPT ![p][f] = NoObj] /\ life' = Dead(call[t].obj)
           /\ UNCHANGED links
  <2>1. /\ life' \in [Objects -> {"none", "live", "closed"}]
        /\ \A x \in Objects :
              life'[x] = IF x \in {call[t].obj, call[t].obj2} THEN "closed" ELSE life[x]
    BY <1>2, <1>4, DeadEffect, FdAssumption
  <2>2. QED
    BY <1>1, <1>4, <2>1, UndoInv
<1>5. QED
  BY <1>1, <1>3, <1>4

\* The close of both ends, point by point.
LEMMA BothDead ==
    ASSUME TypeOK, NEW a \in Objects, NEW b \in Objects,
           life' = [life EXCEPT ![a] = "closed", ![b] = "closed"]
    PROVE  /\ life' \in [Objects -> {"none", "live", "closed"}]
           /\ \A x \in Objects : life'[x] = IF x \in {a, b} THEN "closed" ELSE life[x]
BY DEF TypeOK

LEMMA PipeAssignReadInv ==
    ASSUME IInv, NEW t \in Threads, alive[ProcOf[t]] = "run", PipeAssignRead(t)
    PROVE  IInv'
<1> DEFINE p == ProcOf[t]
           o == call[t].obj
           w == call[t].obj2
           f == Min(Free(p))
<1> USE DEF IInv, Basic
<1>1. /\ call[t].op = "pipe" /\ call[t].step = "assign"
      /\ UNCHANGED <<kind, cloexec, links, alive, inherit, raced, broken, lost, unlinked>>
      /\ \/ /\ Free(p) = {} /\ life' = [life EXCEPT ![o] = "closed", ![w] = "closed"]
            /\ Finish(t) /\ UNCHANGED table
         \/ /\ Free(p) # {} /\ table' = [table EXCEPT ![p][f] = o]
            /\ call' = [call EXCEPT ![t].step = "second", ![t].fd = f]
            /\ UNCHANGED life
  BY DEF PipeAssignRead, ghostVars
<1>2. o \in Objects /\ o # NoObj /\ w \in Objects /\ w # NoObj /\ p \in Procs
      /\ life[o] # "none" /\ life[w] # "none" /\ Holds(t, o) /\ Holds(t, w)
  BY <1>1, CallFacts DEF Made, Holds
<1>3. CASE /\ Free(p) = {} /\ life' = [life EXCEPT ![o] = "closed", ![w] = "closed"]
           /\ Finish(t) /\ UNCHANGED table
  <2>1. /\ life' \in [Objects -> {"none", "live", "closed"}]
        /\ \A x \in Objects : life'[x] = IF x \in {o, w} THEN "closed" ELSE life[x]
    BY <1>2, <1>3, BothDead
  <2>2. QED
    BY <1>1, <1>3, <2>1, DropInv
<1>4. CASE /\ Free(p) # {} /\ table' = [table EXCEPT ![p][f] = o]
           /\ call' = [call EXCEPT ![t].step = "second", ![t].fd = f]
           /\ UNCHANGED life
  <2>1. f \in Fds /\ table[p][f] = NoObj
    BY <1>2, <1>4, FirstFree
  <2> HIDE DEF f
  <2>2. /\ call' \in [Threads -> Calls]
        /\ \A u \in Threads \ {t} : call'[u] = call[u]
        /\ call'[t].op = "pipe" /\ call'[t].step = "second" /\ call'[t].fd = f
        /\ call'[t].obj = o /\ call'[t].obj2 = w
    BY <1>1, <1>2, <1>4, <2>1, PlaceEffect
  <2>3. /\ table' \in [Procs -> [Fds -> Objects \cup {NoObj}]]
        /\ \A q \in Procs, g \in Fds :
              table'[q][g] = IF q = p /\ g = f THEN o ELSE table[q][g]
    BY <1>2, <1>4, <2>1, EntryEffect
  <2> DEFINE same == UNCHANGED life
  <2>0. same
    BY <1>4
  <2> HIDE DEF o, w
  <2>4. TypeOK'
    BY <1>1, <2>0, <2>2, <2>3 DEF TypeOK
  <2>5. Formed'
    BY <1>2, <2>2 DEF Formed
  <2>6. Made'
    BY <1>1, <1>2, <2>0, <2>2, <2>3, Types DEF Made
  <2>7. Marked' /\ Dormant'
    BY <1>1, <1>2, <2>0, <2>2, <2>3 DEF Marked, Dormant
  <2>8. ASSUME ~raced PROVE Sane'
    <3> USE DEF Sane
    <3>1. o # w
      BY <1>1, <2>8 DEF TwoEnds, o, w
    <3>2. /\ \A u \in Threads : Owns(u)' <=> Owns(u) \/ u = t
          /\ \A u \in Threads, x \in Objects : Holds(u, x)' <=> Holds(u, x) /\ ~(u = t /\ x = o)
          /\ ~Owns(t) /\ \A x \in Objects : Holds(t, x) <=> x \in {o, w}
      BY <1>1, <1>2, <2>2, <3>1, IdleFacts, FdAssumption DEF Owns, Holds, o, w
    <3>3. \A u \in Threads : Owns(u) /\ ProcOf[u] = p => call[u].fd # f
      <4>1. \A u \in Threads : Owns(u) => call[u].obj # NoObj
        BY IdleFacts DEF Formed, Owns
      <4>2. QED
        BY <2>1, <2>8, <4>1 DEF Placed
    <3>4. Placed' /\ Exclusive'
      <4>1. \A u \in Threads \ {t} : Owns(u) =>
               table'[ProcOf[u]][call[u].fd] = table[ProcOf[u]][call[u].fd]
        BY <2>3, <3>3, Types
      <4>2. Placed'
        BY <1>2, <2>1, <2>2, <2>3, <2>8, <3>2, <4>1 DEF Placed
      <4>3. Exclusive'
        BY <2>2, <2>8, <3>2, <3>3 DEF Exclusive
      <4>4. QED
        BY <4>2, <4>3
    <3>5. InHand'
      <4>1. SUFFICES ASSUME NEW u \in Threads, NEW x \in Objects, Holds(u, x), ~(u = t /\ x = o)
                     PROVE  /\ \A v \in Threads : Holds(v, x)' => v = u
                            /\ \A q \in Procs, g \in Fds : table'[q][g] # x
                            /\ life'[x] = "live" \/ (call'[u].step = "object" /\ x \in broken')
        BY <3>2 DEF InHand
      <4>2. /\ \A v \in Threads : Holds(v, x) => v = u
            /\ \A q \in Procs, g \in Fds : table[q][g] # x
            /\ life[x] = "live" \/ (call[u].step = "object" /\ x \in broken)
        BY <2>8, <4>1 DEF InHand
      <4>3. x # o
        BY <1>2, <4>1, <4>2
      <4>4. QED
        BY <1>1, <2>0, <2>2, <2>3, <3>2, <4>2, <4>3
    <3>6. TwoEnds' /\ OpensFile'
      BY <1>1, <2>2, <2>8 DEF TwoEnds, OpensFile, o, w
    <3>7. EntriesLive' /\ EntriesOwn'
      BY <1>1, <1>2, <2>0, <2>3, <2>8 DEF EntriesLive, EntriesOwn, InHand
    <3>8. NoLeak'
      BY <1>1, <1>2, <2>0, <2>1, <2>3, <2>8, <3>2, FdAssumption DEF NoLeak
    <3>9. /\ \A q \in Procs, g \in Fds : ~(q = p /\ g = f) => (File(q, g)' <=> File(q, g))
          /\ \A g \in Fds : g = f => ~File(p, g)'
      <4>1. kind[o] # "file"
        BY <1>1, <2>8 DEF OpensFile, o
      <4>2. table'[p][f] = o /\ kind' = kind
        BY <1>1, <1>2, <2>1, <2>3
      <4>3. QED
        BY <2>3, <4>1, <4>2 DEF File
    <3>10. f \notin links[p]
      BY <1>2, <2>1, <2>8 DEF LinksAreFiles, File
    <3>11. LinksAreFiles' /\ NoStaleLink'
      BY <1>1, <1>2, <2>2, <2>8, <3>9, <3>10, Types DEF LinksAreFiles, NoStaleLink
    <3>12. FilesAreLinked'
      <4>1. SUFFICES ASSUME First \notin unlinked, NEW g \in Fds, File(First, g)'
                     PROVE  \/ g \in links[First] \/ table'[First][g] \in broken
                            \/ \E u \in Threads : /\ ProcOf[u] = First
                                                  /\ call'[u].op \in {"open", "close"}
                                                  /\ Owns(u)' /\ call'[u].fd = g
        BY <1>1 DEF FilesAreLinked
      <4>2. ~(First = p /\ g = f)
        BY <3>9, <4>1
      <4>3. /\ call[t].op = "pipe" /\ table'[First][g] = table[First][g] /\ File(First, g)
            /\ \A u \in Threads \ {t} : call'[u] = call[u] /\ (Owns(u)' <=> Owns(u))
        BY <1>1, <2>2, <2>3, <3>2, <3>9, <4>1, <4>2, FdAssumption
      <4>4. QED
        BY <2>8, <4>1, <4>3 DEF FilesAreLinked
    <3>13. QED
      BY <3>4, <3>5, <3>6, <3>7, <3>8, <3>11, <3>12
  <2>9. QED
    BY <1>1, <2>4, <2>5, <2>6, <2>7, <2>8
<1>5. QED
  BY <1>1, <1>3, <1>4

LEMMA PipeAssignWriteInv ==
    ASSUME IInv, NEW t \in Threads, alive[ProcOf[t]] = "run", PipeAssignWrite(t)
    PROVE  IInv'
<1> DEFINE p == ProcOf[t]
           o == call[t].obj
           w == call[t].obj2
           f == Min(Free(p))
<1> USE DEF IInv, Basic
<1>1. /\ call[t].op = "pipe" /\ call[t].step = "second" /\ Finish(t)
      /\ UNCHANGED <<kind, cloexec, links, alive, inherit, raced, broken, lost, unlinked>>
      /\ \/ /\ table' = [table EXCEPT ![p][call[t].fd] = NoObj]
            /\ life' = [life EXCEPT ![o] = "closed", ![w] = "closed"]
         \/ Free(p) # {} /\ table' = [table EXCEPT ![p][f] = w] /\ UNCHANGED life
  BY DEF PipeAssignWrite, ghostVars
<1>2. o \in Objects /\ w \in Objects /\ w # NoObj /\ p \in Procs
      /\ life[o] # "none" /\ life[w] # "none" /\ Holds(t, w)
  BY <1>1, CallFacts DEF Made, Holds
<1>3. CASE /\ table' = [table EXCEPT ![p][call[t].fd] = NoObj]
           /\ life' = [life EXCEPT ![o] = "closed", ![w] = "closed"]
  <2>1. /\ life' \in [Objects -> {"none", "live", "closed"}]
        /\ \A x \in Objects : life'[x] = IF x \in {o, w} THEN "closed" ELSE life[x]
    BY <1>2, <1>3, BothDead
  <2>2. QED
    BY <1>1, <1>3, <2>1, UndoInv
<1>4. CASE Free(p) # {} /\ table' = [table EXCEPT ![p][f] = w] /\ UNCHANGED life
  <2>1. f \in Fds /\ table[p][f] = NoObj
    BY <1>2, <1>4, FirstFree
  <2> HIDE DEF f
  <2>2. /\ call' \in [Threads -> Calls] /\ call'[t] = Idle
        /\ \A u \in Threads \ {t} : call'[u] = call[u]
    BY <1>1, FinishEffect
  <2>3. /\ table' \in [Procs -> [Fds -> Objects \cup {NoObj}]]
        /\ \A q \in Procs, g \in Fds :
              table'[q][g] = IF q = p /\ g = f THEN w ELSE table[q][g]
    <3>1. table' = [table EXCEPT ![p][f] = w]
      BY <1>4
    <3> HIDE DEF p, w
    <3>2. QED
      BY <1>2, <2>1, <3>1, EntryEffect
  <2> DEFINE same == UNCHANGED life
  <2>0. same
    BY <1>4
  <2> HIDE DEF o, w
  <2>4. TypeOK'
    BY <1>1, <2>0, <2>2, <2>3 DEF TypeOK
  <2>5. Formed'
    BY <2>2 DEF Formed
  <2>6. Made'
    BY <1>1, <1>2, <2>0, <2>2, <2>3, Types, IdleFacts DEF Made
  <2>7. Marked' /\ Dormant'
    BY <1>1, <1>2, <2>0, <2>2, <2>3 DEF Marked, Dormant
  <2>8. ASSUME ~raced PROVE Sane'
    <3> USE DEF Sane
    <3>1. /\ \A u \in Threads : Owns(u)' <=> Owns(u) /\ u # t
          /\ \A u \in Threads, x \in Objects : Holds(u, x)' <=> Holds(u, x) /\ u # t
          /\ \A x \in Objects : Holds(t, x) <=> x = w
      BY <1>1, <1>2, <2>2, IdleFacts, FdAssumption DEF Owns, Holds, w
    <3>2. \A u \in Threads : Owns(u) /\ ProcOf[u] = p => call[u].fd # f
      <4>1. \A u \in Threads : Owns(u) => call[u].obj # NoObj
        BY IdleFacts DEF Formed, Owns
      <4>2. QED
        BY <2>1, <2>8, <4>1 DEF Placed
    <3>3. Placed' /\ Exclusive'
      <4>1. \A u \in Threads \ {t} : Owns(u) =>
               table'[ProcOf[u]][call[u].fd] = table[ProcOf[u]][call[u].fd]
        BY <2>3, <3>2, Types
      <4>2. QED
        BY <2>2, <2>8, <3>1, <4>1 DEF Placed, Exclusive
    <3>4. InHand'
      BY <1>1, <1>2, <2>0, <2>2, <2>3, <2>8, <3>1 DEF InHand
    <3>5. TwoEnds' /\ OpensFile'
      BY <1>1, <2>2, <2>8, IdleFacts DEF TwoEnds, OpensFile
    <3>6. EntriesLive' /\ EntriesOwn'
      BY <1>1, <1>2, <2>0, <2>3, <2>8 DEF EntriesLive, EntriesOwn, InHand
    <3>7. NoLeak'
      BY <1>1, <1>2, <2>0, <2>1, <2>3, <2>8, <3>1, FdAssumption DEF NoLeak
    <3>8. /\ \A q \in Procs, g \in Fds : ~(q = p /\ g = f) => (File(q, g)' <=> File(q, g))
          /\ \A g \in Fds : g = f => ~File(p, g)'
      <4>1. kind[w] # "file"
        BY <1>1, <2>8 DEF OpensFile, w
      <4>2. table'[p][f] = w /\ kind' = kind
        BY <1>1, <1>2, <2>1, <2>3
      <4>3. QED
        BY <2>3, <4>1, <4>2 DEF File
    <3>9. f \notin links[p]
      BY <1>2, <2>1, <2>8 DEF LinksAreFiles, File
    <3>10. LinksAreFiles' /\ NoStaleLink'
      BY <1>1, <1>2, <2>2, <2>8, <3>8, <3>9, Types, IdleFacts DEF LinksAreFiles, NoStaleLink
    <3>11. FilesAreLinked'
      <4>1. SUFFICES ASSUME First \notin unlinked, NEW g \in Fds, File(First, g)'
                     PROVE  \/ g \in links[First] \/ table'[First][g] \in broken
                            \/ \E u \in Threads : /\ ProcOf[u] = First
                                                  /\ call'[u].op \in {"open", "close"}
                                                  /\ Owns(u)' /\ call'[u].fd = g
        BY <1>1 DEF FilesAreLinked
      <4>2. ~(First = p /\ g = f)
        BY <3>8, <4>1
      <4>3. /\ call[t].op = "pipe" /\ table'[First][g] = table[First][g] /\ File(First, g)
            /\ \A u \in Threads \ {t} : call'[u] = call[u] /\ (Owns(u)' <=> Owns(u))
        BY <1>1, <2>2, <2>3, <3>1, <3>8, <4>1, <4>2, FdAssumption
      <4>4. QED
        BY <2>8, <4>1, <4>3 DEF FilesAreLinked
    <3>12. QED
      BY <3>3, <3>4, <3>5, <3>6, <3>7, <3>10, <3>11
  <2>9. QED
    BY <1>1, <2>4, <2>5, <2>6, <2>7, <2>8
<1>5. QED
  BY <1>1, <1>3, <1>4
-----------------------------------------------------------------------------
(***************************************************************************)
(* The calls that use a descriptor, and close                              *)
(***************************************************************************)
\* What the ghost raced says of a descriptor that nobody else is about to change.
LEMMA NotBusy ==
    ASSUME TypeOK, Formed, NEW t \in Threads, NEW f \in Fds, NEW u \in Threads \ {t},
           Owns(u), ProcOf[u] = ProcOf[t], call[u].fd = f
    PROVE  /\ Busy(t, f, Using)
           /\ ~Busy(t, f, Making) => call[u].step = "use"
BY IdleFacts DEF Busy, Owns, Formed, Using, Making

LEMMA UseGetInv ==
    ASSUME IInv, NEW t \in Threads, alive[ProcOf[t]] = "run", NEW f \in Fds, UseGet(t, f)
    PROVE  IInv'
<1> DEFINE p == ProcOf[t]
           o == table[p][f]
           rec == Doing("use", "use", f, o, NoObj)
<1> USE DEF IInv, Basic
<1>1. /\ call[t] = Idle /\ o # NoObj /\ call' = [call EXCEPT ![t] = rec]
      /\ raced' = (raced \/ Busy(t, f, Making))
      /\ UNCHANGED <<table, kind, cloexec, life, links, alive, inherit, broken, lost, unlinked>>
  BY DEF UseGet, MayCall, Used, Free
<1>2. o \in Objects /\ p \in Procs /\ life[o] # "none"
  BY <1>1, Types DEF Made
<1>3. rec \in Calls
  BY <1>2 DEF Calls, Using, Making, Doing
<1>4. /\ call' \in [Threads -> Calls] /\ \A u \in Threads \ {t} : call'[u] = call[u]
      /\ call'[t].op = "use" /\ call'[t].step = "use" /\ call'[t].fd = f
      /\ call'[t].obj = o /\ call'[t].obj2 = NoObj
  BY <1>1, <1>3 DEF TypeOK, Doing
<1>5. TypeOK'
  BY <1>1, <1>4 DEF TypeOK
<1>6. Formed'
  BY <1>1, <1>4 DEF Formed
<1>7. Made' /\ Marked' /\ Dormant'
  BY <1>1, <1>2, <1>4 DEF Made, Marked, Dormant
<1>8. ASSUME ~raced' PROVE Sane'
  <2> USE DEF Sane
  <2>1. ~raced /\ ~Busy(t, f, Making)
    BY <1>1, <1>8
  <2>2. /\ \A u \in Threads : Owns(u)' <=> Owns(u) \/ u = t
        /\ \A u \in Threads, x \in Objects : Holds(u, x)' <=> Holds(u, x)
        /\ ~Owns(t) /\ \A x \in Objects : ~Holds(t, x)
    BY <1>1, <1>4, IdleFacts, FdAssumption DEF Owns, Holds
  <2>3. \A u \in Threads \ {t} :
           (Owns(u) /\ ProcOf[u] = p /\ call[u].fd = f) => call[u].step = "use"
    BY <2>1, NotBusy
  <2> DEFINE same == UNCHANGED <<table, kind, life, links, broken, lost, unlinked>>
  <2>4. same
    BY <1>1
  <2>5. Placed' /\ Exclusive'
    BY <1>4, <2>1, <2>2, <2>3, <2>4 DEF Placed, Exclusive
  <2> HIDE DEF o, p
  <2>6. InHand' /\ NoLeak'
    BY <1>4, <2>1, <2>2, <2>4 DEF InHand, NoLeak
  <2>7. TwoEnds' /\ OpensFile' /\ NoStaleLink'
    BY <1>4, <2>1, <2>4 DEF TwoEnds, OpensFile, NoStaleLink
  <2>8. EntriesLive' /\ EntriesOwn' /\ LinksAreFiles'
    BY <2>1, <2>4 DEF EntriesLive, EntriesOwn, LinksAreFiles, File
  <2>9. FilesAreLinked'
    BY <1>4, <2>1, <2>2, <2>4 DEF FilesAreLinked, File
  <2>10. QED
    BY <2>5, <2>6, <2>7, <2>8, <2>9
<1>9. QED
  BY <1>5, <1>6, <1>7, <1>8

LEMMA UseInv ==
    ASSUME IInv, NEW t \in Threads, alive[ProcOf[t]] = "run", Use(t)
    PROVE  IInv'
<1> DEFINE o == call[t].obj
<1> USE DEF IInv, Basic
<1>1. /\ call[t].op = "use" /\ Finish(t)
      /\ UNCHANGED <<table, kind, life, links, alive, raced, broken, lost, unlinked>>
      /\ \/ UNCHANGED <<cloexec, inherit>>
         \/ \E cx \in BOOLEAN : /\ cloexec' = [cloexec EXCEPT ![o] = cx]
                                /\ inherit' = IF cx THEN inherit \cup {o} ELSE inherit \ {o}
  BY DEF Use, ghostVars
<1>2. o \in Objects /\ life[o] # "none" /\ call[t].step = "use"
  BY <1>1, CallFacts, IdleFacts DEF Made, Formed
<1>3. /\ call' \in [Threads -> Calls] /\ call'[t] = Idle
      /\ \A u \in Threads \ {t} : call'[u] = call[u]
  BY <1>1, FinishEffect
<1> HIDE DEF o
<1>4. cloexec' \in [Objects -> BOOLEAN] /\ inherit' \subseteq Objects /\ Marked'
  <2>1. CASE UNCHANGED <<cloexec, inherit>>
    BY <1>1, <2>1 DEF TypeOK, Marked
  <2>2. ASSUME NEW cx \in BOOLEAN, cloexec' = [cloexec EXCEPT ![o] = cx],
               inherit' = IF cx THEN inherit \cup {o} ELSE inherit \ {o}
        PROVE  cloexec' \in [Objects -> BOOLEAN] /\ inherit' \subseteq Objects /\ Marked'
    <3>1. cloexec' \in [Objects -> BOOLEAN] /\ inherit' \subseteq Objects
      BY <1>2, <2>2 DEF TypeOK
    <3>2. \A x \in Objects : cloexec'[x] = IF x = o THEN cx ELSE cloexec[x]
      BY <2>2 DEF TypeOK
    <3>3. Marked'
      BY <1>1, <1>2, <2>2, <3>2 DEF Marked
    <3>4. QED
      BY <3>1, <3>3
  <2>3. QED
    BY <1>1, <2>1, <2>2
<1> DEFINE same == UNCHANGED <<table, kind, life, links, alive, raced, broken, lost, unlinked>>
<1>5. same /\ call[t].op = "use"
  BY <1>1
<1>6. TypeOK'
  BY <1>3, <1>4, <1>5 DEF TypeOK
<1>7. Formed'
  BY <1>3 DEF Formed
<1>8. Made' /\ Dormant'
  BY <1>3, <1>5, IdleFacts DEF Made, Dormant
<1>9. ASSUME ~raced PROVE Sane'
  <2> USE DEF Sane
  <2>1. /\ \A u \in Threads : Owns(u)' <=> Owns(u) /\ u # t
        /\ \A u \in Threads, x \in Objects : Holds(u, x)' <=> Holds(u, x)
    BY <1>2, <1>3, IdleFacts, FdAssumption DEF Owns, Holds
  <2>2. Placed' /\ Exclusive'
    BY <1>3, <1>5, <1>9, <2>1 DEF Placed, Exclusive
  <2>3. InHand' /\ NoLeak'
    BY <1>2, <1>3, <1>5, <1>9, <2>1 DEF InHand, NoLeak
  <2>4. TwoEnds' /\ OpensFile' /\ NoStaleLink'
    BY <1>3, <1>5, <1>9, IdleFacts DEF TwoEnds, OpensFile, NoStaleLink
  <2>5. EntriesLive' /\ EntriesOwn' /\ LinksAreFiles'
    BY <1>5, <1>9 DEF EntriesLive, EntriesOwn, LinksAreFiles, File
  <2>6. FilesAreLinked'
    BY <1>3, <1>5, <1>9, <2>1 DEF FilesAreLinked, File
  <2>7. QED
    BY <2>2, <2>3, <2>4, <2>5, <2>6
<1>10. QED
  BY <1>4, <1>5, <1>6, <1>7, <1>8, <1>9

LEMMA CloseGetInv ==
    ASSUME IInv, NEW t \in Threads, alive[ProcOf[t]] = "run", NEW f \in Fds, CloseGet(t, f)
    PROVE  IInv'
<1> DEFINE p == ProcOf[t]
           o == table[p][f]
           s == IF kind[o] = "file" THEN "unlink" ELSE "remove"
           rec == Doing("close", s, f, o, NoObj)
<1> USE DEF IInv, Basic
<1>1. /\ call[t] = Idle /\ o # NoObj /\ call' = [call EXCEPT ![t] = rec]
      /\ raced' = (raced \/ Busy(t, f, Using))
      /\ UNCHANGED <<table, kind, cloexec, life, links, alive, inherit, broken, lost, unlinked>>
  BY DEF CloseGet, MayCall, Used, Free
<1>2. o \in Objects /\ p \in Procs /\ life[o] # "none"
  BY <1>1, Types DEF Made
<1>3. s \in {"unlink", "remove"} /\ (s = "remove" => kind[o] # "file")
  OBVIOUS
<1> HIDE DEF s
<1>4. rec \in Calls
  BY <1>2, <1>3 DEF Calls, Using, Making, Doing
<1>5. /\ call' \in [Threads -> Calls] /\ \A u \in Threads \ {t} : call'[u] = call[u]
      /\ call'[t].op = "close" /\ call'[t].step = s /\ call'[t].fd = f
      /\ call'[t].obj = o /\ call'[t].obj2 = NoObj
  BY <1>1, <1>4 DEF TypeOK, Doing
<1>6. TypeOK'
  BY <1>1, <1>5 DEF TypeOK
<1>7. Formed'
  BY <1>1, <1>3, <1>5 DEF Formed
<1>8. Made' /\ Marked' /\ Dormant'
  BY <1>1, <1>2, <1>5 DEF Made, Marked, Dormant
<1>9. ASSUME ~raced' PROVE Sane'
  <2> USE DEF Sane
  <2>1. ~raced /\ ~Busy(t, f, Using)
    BY <1>1, <1>9
  <2>2. /\ \A u \in Threads : Owns(u)' <=> Owns(u) \/ u = t
        /\ \A u \in Threads, x \in Objects : Holds(u, x)' <=> Holds(u, x)
        /\ ~Owns(t) /\ \A x \in Objects : ~Holds(t, x)
    BY <1>1, <1>3, <1>5, IdleFacts, FdAssumption DEF Owns, Holds
  <2>3. \A u \in Threads \ {t} : ~(Owns(u) /\ ProcOf[u] = p /\ call[u].fd = f)
    BY <2>1, NotBusy
  <2> DEFINE same == UNCHANGED <<table, kind, life, links, broken, lost, unlinked>>
  <2>4. same
    BY <1>1
  <2>5. Placed' /\ Exclusive'
    BY <1>5, <2>1, <2>2, <2>3, <2>4 DEF Placed, Exclusive
  <2>6. s = "remove" => f \notin links[p]
    BY <1>2, <1>3, <2>1 DEF LinksAreFiles, File
  <2> HIDE DEF o, p
  <2>7. InHand' /\ NoLeak'
    BY <1>3, <1>5, <2>1, <2>2, <2>4 DEF InHand, NoLeak
  <2>8. TwoEnds' /\ OpensFile'
    BY <1>5, <2>1, <2>4 DEF TwoEnds, OpensFile
  <2>9. NoStaleLink'
    BY <1>3, <1>5, <2>1, <2>4, <2>6 DEF NoStaleLink, p
  <2>10. EntriesLive' /\ EntriesOwn' /\ LinksAreFiles'
    BY <2>1, <2>4 DEF EntriesLive, EntriesOwn, LinksAreFiles, File
  <2>11. FilesAreLinked'
    BY <1>5, <2>1, <2>2, <2>4 DEF FilesAreLinked, File
  <2>12. QED
    BY <2>5, <2>7, <2>8, <2>9, <2>10, <2>11
<1>10. QED
  BY <1>6, <1>7, <1>8, <1>9

LEMMA CloseUnlinkInv ==
    ASSUME IInv, NEW t \in Threads, alive[ProcOf[t]] = "run", CloseUnlink(t)
    PROVE  IInv'
<1> DEFINE p == ProcOf[t]
           f == call[t].fd
<1> USE DEF IInv, Basic
<1>1. /\ call[t].op = "close" /\ call[t].step = "unlink" /\ Step(t, "remove")
      /\ links' = [links EXCEPT ![p] = @ \ {f}]
      /\ UNCHANGED <<table, kind, cloexec, life, alive, inherit, raced, broken, lost, unlinked>>
  BY DEF CloseUnlink, ghostVars
<1>2. /\ call' \in [Threads -> Calls] /\ \A u \in Threads \ {t} : call'[u] = call[u]
      /\ call'[t].op = "close" /\ call'[t].step = "remove" /\ call'[t].fd = f
      /\ call'[t].obj = call[t].obj /\ call'[t].obj2 = call[t].obj2
  BY <1>1, StepEffect
<1>3. /\ links' \in [Procs -> SUBSET Fds] /\ p \in Procs
      /\ \A q \in Procs : links'[q] = IF q = p THEN links[p] \ {f} ELSE links[q]
  BY <1>1, Types DEF TypeOK
<1> DEFINE same == UNCHANGED <<table, kind, cloexec, life, alive, inherit, raced, broken, lost,
                               unlinked>>
<1>4. same
  BY <1>1
<1>5. TypeOK'
  BY <1>2, <1>3, <1>4 DEF TypeOK
<1>6. Formed'
  BY <1>1, <1>2, IdleFacts DEF Formed
<1>7. Made' /\ Marked'
  BY <1>2, <1>4 DEF Made, Marked
<1>8. Dormant'
  BY <1>1, <1>2, <1>4 DEF Dormant
<1>9. ASSUME ~raced PROVE Sane'
  <2> USE DEF Sane
  <2>1. /\ \A u \in Threads : Owns(u)' <=> Owns(u)
        /\ \A u \in Threads, x \in Objects : Holds(u, x)' <=> Holds(u, x)
        /\ Owns(t) /\ \A x \in Objects : ~Holds(t, x)
    BY <1>1, <1>2, FdAssumption DEF Owns, Holds
  <2>2. Placed' /\ Exclusive'
    BY <1>1, <1>2, <1>4, <1>9, <2>1 DEF Placed, Exclusive
  <2> HIDE DEF p, f
  <2>3. InHand' /\ NoLeak'
    BY <1>2, <1>4, <1>9, <2>1 DEF InHand, NoLeak
  <2>4. TwoEnds' /\ OpensFile'
    BY <1>2, <1>4, <1>9 DEF TwoEnds, OpensFile
  <2>5. EntriesLive' /\ EntriesOwn'
    BY <1>4, <1>9 DEF EntriesLive, EntriesOwn
  <2>6. LinksAreFiles'
    BY <1>3, <1>4, <1>9 DEF LinksAreFiles, File
  <2>7. NoStaleLink'
    BY <1>2, <1>3, <1>9, Types DEF NoStaleLink, p
  <2>8. FilesAreLinked'
    BY <1>2, <1>3, <1>4, <1>9, <2>1, FdAssumption DEF FilesAreLinked, File, p, f
  <2>9. QED
    BY <2>2, <2>3, <2>4, <2>5, <2>6, <2>7, <2>8
<1>10. QED
  BY <1>4, <1>5, <1>6, <1>7, <1>8, <1>9

LEMMA CloseRemoveInv ==
    ASSUME IInv, NEW t \in Threads, alive[ProcOf[t]] = "run", CloseRemove(t)
    PROVE  IInv'
<1> DEFINE p == ProcOf[t]
           f == call[t].fd
           o == call[t].obj
<1> USE DEF IInv, Basic
<1>1. /\ call[t].op = "close" /\ call[t].step = "remove" /\ Step(t, "object")
      /\ table' = [table EXCEPT ![p][f] = NoObj]
      /\ UNCHANGED <<kind, cloexec, life, links, alive, inherit, raced, broken, lost, unlinked>>
  BY DEF CloseRemove, ghostVars
<1>2. p \in Procs /\ f \in Fds /\ o \in Objects /\ o # NoObj /\ call[t].obj2 = NoObj
  BY <1>1, CallFacts
<1>3. /\ call' \in [Threads -> Calls] /\ \A u \in Threads \ {t} : call'[u] = call[u]
      /\ call'[t].op = "close" /\ call'[t].step = "object" /\ call'[t].fd = f
      /\ call'[t].obj = o /\ call'[t].obj2 = NoObj
  BY <1>1, <1>2, StepEffect
<1>4. /\ table' \in [Procs -> [Fds -> Objects \cup {NoObj}]]
      /\ \A q \in Procs, g \in Fds :
            table'[q][g] = IF q = p /\ g = f THEN NoObj ELSE table[q][g]
  BY <1>1, <1>2, EntryEffect
<1> DEFINE same == UNCHANGED <<kind, cloexec, life, links, alive, inherit, raced, broken, lost,
                               unlinked>>
<1>5. same
  BY <1>1
<1>6. TypeOK'
  BY <1>3, <1>4, <1>5 DEF TypeOK
<1>7. Formed'
  BY <1>2, <1>3 DEF Formed
<1>8. Made'
  BY <1>2, <1>3, <1>4, <1>5 DEF Made
<1>9. Marked' /\ Dormant'
  BY <1>3, <1>4, <1>5 DEF Marked, Dormant
<1>10. ASSUME ~raced PROVE Sane'
  <2> USE DEF Sane
  <2>1. /\ \A u \in Threads : Owns(u)' <=> Owns(u) /\ u # t
        /\ \A u \in Threads, x \in Objects : Holds(u, x)' <=> Holds(u, x) \/ (u = t /\ x = o)
        /\ Owns(t) /\ \A x \in Objects : ~Holds(t, x)
    BY <1>1, <1>3, FdAssumption DEF Owns, Holds
  <2>2. /\ table[p][f] = o /\ f \notin links[p]
        /\ \A u \in Threads \ {t} : Owns(u) => ~(ProcOf[u] = p /\ call[u].fd = f)
    BY <1>1, <1>10, <2>1 DEF Placed, Exclusive, NoStaleLink
  <2>3. /\ \A u \in Threads : ~Holds(u, o)
        /\ life[o] = "live" \/ o \in broken
        /\ \A q \in Procs, g \in Fds : ~(q = p /\ g = f) => table[q][g] # o
    BY <1>2, <1>10, <2>2 DEF InHand, EntriesLive, EntriesOwn
  <2> HIDE DEF p, f, o
  <2>4. Placed' /\ Exclusive'
    BY <1>3, <1>4, <1>10, <2>1, <2>2, Types DEF Placed, Exclusive
  <2>5. InHand'
    <3>1. SUFFICES ASSUME NEW u \in Threads, NEW x \in Objects, Holds(u, x) \/ (u = t /\ x = o)
                   PROVE  /\ \A v \in Threads : Holds(v, x)' => v = u
                          /\ \A q \in Procs, g \in Fds : table'[q][g] # x
                          /\ life'[x] = "live" \/ (call'[u].step = "object" /\ x \in broken')
      BY <2>1 DEF InHand
    <3>2. x # NoObj
      BY FdAssumption
    <3>3. CASE Holds(u, x)
      <4>1. /\ \A v \in Threads : Holds(v, x) => v = u
            /\ \A q \in Procs, g \in Fds : table[q][g] # x
            /\ life[x] = "live" \/ (call[u].step = "object" /\ x \in broken)
        BY <1>10, <3>3 DEF InHand
      <4>2. x # o /\ u # t
        BY <2>1, <2>3, <3>3
      <4>3. QED
        BY <1>3, <1>4, <1>5, <2>1, <3>2, <4>1, <4>2
    <3>4. CASE u = t /\ x = o
      BY <1>3, <1>4, <1>5, <2>1, <2>3, <3>2, <3>4
    <3>5. QED
      BY <3>1, <3>3, <3>4
  <2>6. NoLeak'
    BY <1>2, <1>4, <1>5, <1>10, <2>1, <2>2 DEF NoLeak
  <2>7. TwoEnds' /\ OpensFile'
    BY <1>3, <1>5, <1>10 DEF TwoEnds, OpensFile
  <2>8. EntriesLive' /\ EntriesOwn'
    BY <1>4, <1>5, <1>10 DEF EntriesLive, EntriesOwn
  <2>9. \A q \in Procs, g \in Fds : File(q, g)' <=> File(q, g) /\ ~(q = p /\ g = f)
    BY <1>4, <1>5 DEF File
  <2>10. LinksAreFiles' /\ NoStaleLink'
    BY <1>3, <1>5, <1>10, <2>2, <2>9, Types DEF LinksAreFiles, NoStaleLink
  <2>11. FilesAreLinked'
    <3>1. SUFFICES ASSUME First \notin unlinked, NEW g \in Fds, File(First, g)'
                   PROVE  \/ g \in links[First] \/ table'[First][g] \in broken
                          \/ \E u \in Threads : /\ ProcOf[u] = First
                                                /\ call'[u].op \in {"open", "close"}
                                                /\ Owns(u)' /\ call'[u].fd = g
      BY <1>5 DEF FilesAreLinked
    <3>2. File(First, g) /\ ~(First = p /\ g = f) /\ table'[First][g] = table[First][g]
      BY <1>4, <2>9, <3>1, FdAssumption
    <3>3. \A u \in Threads : (ProcOf[u] = First /\ call[u].fd = g /\ Owns(u)) =>
             Owns(u)' /\ call'[u] = call[u]
      BY <1>3, <2>1, <3>2 DEF p, f
    <3>4. QED
      BY <1>10, <3>1, <3>2, <3>3 DEF FilesAreLinked
  <2>12. QED
    BY <2>4, <2>5, <2>6, <2>7, <2>8, <2>10, <2>11
<1>11. QED
  BY <1>5, <1>6, <1>7, <1>8, <1>9, <1>10

LEMMA CloseObjectInv ==
    ASSUME IInv, NEW t \in Threads, alive[ProcOf[t]] = "run", CloseObject(t)
    PROVE  IInv'
<1> USE DEF IInv, Basic
<1>1. /\ call[t].op = "close" /\ call[t].step = "object" /\ Finish(t)
      /\ life' = Dead(call[t].obj)
      /\ UNCHANGED <<table, kind, cloexec, links, alive, inherit, raced, broken, lost, unlinked>>
  BY DEF CloseObject, ghostVars
<1>2. /\ life' \in [Objects -> {"none", "live", "closed"}]
      /\ \A x \in Objects :
            life'[x] = IF x \in {call[t].obj, call[t].obj2} THEN "closed" ELSE life[x]
  <2>1. call[t].obj \in Objects /\ call[t].obj2 = NoObj
    BY <1>1, CallFacts
  <2>2. /\ life' \in [Objects -> {"none", "live", "closed"}]
        /\ \A x \in Objects : life'[x] = IF x = call[t].obj THEN "closed" ELSE life[x]
    BY <1>1, <2>1, DeadEffect
  <2>3. QED
    BY <2>1, <2>2, FdAssumption
<1>3. QED
  BY <1>1, <1>2, DropInv
-----------------------------------------------------------------------------
(***************************************************************************)
(* dup                                                                     *)
(***************************************************************************)
\* The entry of the duplicate is the one asked for, or a free one.
LEMMA TargetFacts ==
    ASSUME NEW p \in Procs, NEW type \in DupTypes, NEW new \in Fds,
           NEW f \in DupTargets(p, type, new)
    PROVE  f \in Fds
<1>1. CASE type \in {"dup2", "dup3"}
  BY <1>1 DEF DupTargets
<1>2. CASE type \notin {"dup2", "dup3"}
  <2>1. NextFree(p, type, new) # {} /\ f = Min(NextFree(p, type, new))
    BY <1>2 DEF DupTargets
  <2>2. QED
    BY <2>1, FirstFree DEF NextFree
<1>3. QED
  BY <1>1, <1>2

LEMMA DupHangsInv ==
    ASSUME IInv, NEW t \in Threads, alive[ProcOf[t]] = "run", NEW type \in DupTypes,
           NEW old \in Fds, NEW new \in Fds, DupHangs(t, type, old, new)
    PROVE  IInv'
<1> USE DEF IInv, Basic
<1>1. /\ alive' = [alive EXCEPT ![ProcOf[t]] = "hung"]
      /\ UNCHANGED <<table, kind, cloexec, life, links, call, inherit, raced, broken, lost,
                     unlinked>>
  BY DEF DupHangs, ghostVars
<1>2. TypeOK'
  BY <1>1 DEF TypeOK
<1>3. Formed' /\ Made' /\ Marked'
  BY <1>1 DEF Formed, Made, Marked
<1>4. Dormant'
  BY <1>1, FdAssumption DEF Dormant, TypeOK
<1>5. ASSUME ~raced PROVE Sane'
  <2> USE DEF Sane
  <2>1. Placed' /\ Exclusive' /\ InHand' /\ TwoEnds'
    BY <1>1, <1>5 DEF Placed, Exclusive, InHand, TwoEnds, Owns, Holds
  <2>2. EntriesLive' /\ EntriesOwn' /\ NoLeak'
    BY <1>1, <1>5 DEF EntriesLive, EntriesOwn, NoLeak, Holds
  <2>3. LinksAreFiles' /\ NoStaleLink' /\ OpensFile' /\ FilesAreLinked'
    BY <1>1, <1>5 DEF LinksAreFiles, NoStaleLink, OpensFile, FilesAreLinked, File, Owns
  <2>4. QED
    BY <2>1, <2>2, <2>3
<1>6. QED
  BY <1>1, <1>2, <1>3, <1>4, <1>5

LEMMA DupInv ==
    ASSUME IInv, NEW t \in Threads, alive[ProcOf[t]] = "run", NEW type \in DupTypes,
           NEW old \in Fds, NEW new \in Fds, Dup(t, type, old, new)
    PROVE  IInv'
<1> DEFINE p == ProcOf[t]
           o == table[p][old]
           n == Fresh
           cx == type \in {"dup3", "dupfd_cloexec"}
<1> USE DEF IInv, Basic
<1>1. call[t] = Idle /\ o # NoObj /\ Unused # {} /\ UNCHANGED <<alive, call, broken, lost, unlinked>>
  BY DEF Dup, MayCall, Used, Free
<1>2. PICK f \in DupTargets(p, type, new) :
         /\ raced' = (raced \/ Busy(t, f, Using))
         /\ life' = [y \in Objects |-> IF y = n THEN "live"
                         ELSE IF y = table[p][f] THEN "closed" ELSE life[y]]
         /\ kind' = [kind EXCEPT ![n] = kind[o]]
         /\ cloexec' = [cloexec EXCEPT ![n] = cx]
         /\ inherit' = IF cx THEN inherit \cup {n} ELSE inherit
         /\ table' = [table EXCEPT ![p][f] = n]
         /\ links' = [links EXCEPT ![p] = IF kind[o] = "file" THEN @ \cup {f} ELSE @ \ {f}]
  BY DEF Dup
<1> DEFINE x == table[p][f]
<1>3. p \in Procs /\ f \in Fds /\ o \in Objects
  <2>1. p \in Procs
    BY Types
  <2>2. QED
    BY <1>1, <2>1, TargetFacts, Types
<1>4. n \in Objects /\ life[n] = "none" /\ n # NoObj /\ NewObject(n)
  BY <1>1, FreshIsNew, NewObjects DEF Fresh
<1>5. cx \in BOOLEAN
  OBVIOUS
<1>6. x \in Objects \cup {NoObj} /\ x # n
  BY <1>3, <1>4, Types DEF NewObject
<1> HIDE DEF n, cx
<1>7. /\ table' \in [Procs -> [Fds -> Objects \cup {NoObj}]]
      /\ \A q \in Procs, g \in Fds :
            table'[q][g] = IF q = p /\ g = f THEN n ELSE table[q][g]
  BY <1>2, <1>3, <1>4, EntryEffect
<1>8. /\ life' \in [Objects -> {"none", "live", "closed"}]
      /\ \A y \in Objects : life'[y] = IF y = n THEN "live"
                                       ELSE IF y = x THEN "closed" ELSE life[y]
  BY <1>2 DEF TypeOK
<1>9. /\ kind' \in [Objects -> {"none", "file", "pipe"}]
      /\ \A y \in Objects : kind'[y] = IF y = n THEN kind[o] ELSE kind[y]
  BY <1>2, <1>3 DEF TypeOK
<1>10. /\ cloexec' \in [Objects -> BOOLEAN] /\ inherit' \subseteq Objects
       /\ \A y \in Objects : cloexec'[y] = IF y = n THEN cx ELSE cloexec[y]
       /\ \A y \in Objects : y \in inherit' <=> (y \in inherit \/ (y = n /\ cx))
  BY <1>2, <1>4, <1>5 DEF TypeOK
<1>11. /\ links' \in [Procs -> SUBSET Fds]
       /\ \A q \in Procs : links'[q] = IF q # p THEN links[q]
             ELSE IF kind[o] = "file" THEN links[p] \cup {f} ELSE links[p] \ {f}
  BY <1>2, <1>3 DEF TypeOK
<1>12. raced' = (raced \/ Busy(t, f, Using)) /\ raced' \in BOOLEAN
  BY <1>2 DEF TypeOK, Busy
<1> DEFINE same == UNCHANGED <<alive, call, broken, lost, unlinked>>
<1>13. same
  BY <1>1
<1>14. \A q \in Procs, g \in Fds : table[q][g] \in Objects \cup {NoObj} /\ table[q][g] # n
  BY <1>4, Types DEF NewObject
<1> HIDE DEF o, x
<1>15. TypeOK'
  BY <1>7, <1>8, <1>9, <1>10, <1>11, <1>12, <1>13 DEF TypeOK
<1>16. Formed'
  BY <1>13 DEF Formed
<1>17. Made'
  <2>1. \A y \in Objects : life[y] # "none" => life'[y] # "none"
    BY <1>4, <1>8
  <2>2. \A q \in Procs, g \in Fds : table'[q][g] # NoObj => life'[table'[q][g]] # "none"
    BY <1>4, <1>7, <1>8, <1>14, <2>1 DEF Made
  <2>3. \A y \in broken : life'[y] = "closed"
    BY <1>4, <1>8, Types DEF Made, NewObject
  <2>4. QED
    BY <1>13, <2>1, <2>2, <2>3, Types DEF Made
<1>18. Marked'
  BY <1>4, <1>8, <1>10 DEF Marked, NewObject
<1>19. Dormant'
  BY <1>7, <1>13 DEF Dormant
<1>20. ASSUME ~raced' PROVE Sane'
  <2> USE DEF Sane
  <2>1. ~raced /\ ~Busy(t, f, Using)
    BY <1>12, <1>20
  <2>2. \A u \in Threads : ~(Owns(u) /\ ProcOf[u] = p /\ call[u].fd = f)
    <3>1. ~Owns(t)
      BY <1>1, IdleFacts DEF Owns
    <3>2. QED
      BY <1>3, <2>1, <3>1, NotBusy
  <2>3. /\ \A u \in Threads : Owns(u)' <=> Owns(u)
        /\ \A u \in Threads, y \in Objects : Holds(u, y)' <=> Holds(u, y)
    BY <1>13 DEF Owns, Holds
  <2>4. \A u \in Threads, y \in Objects : Holds(u, y) => y # x /\ y # n
    BY <1>3, <1>4, <2>1 DEF InHand, NewObject, x
  <2>5. \A q \in Procs, g \in Fds :
           (~(q = p /\ g = f) /\ table[q][g] # NoObj) => table[q][g] # x
    BY <1>3, <2>1 DEF EntriesOwn, x
  <2> HIDE DEF p
  <2>6. Placed' /\ Exclusive'
    BY <1>7, <1>13, <2>1, <2>2, <2>3, Types DEF Placed, Exclusive
  <2>7. InHand'
    BY <1>7, <1>8, <1>13, <2>1, <2>3, <2>4 DEF InHand
  <2>8. TwoEnds'
    BY <1>13, <2>1 DEF TwoEnds
  <2>9. OpensFile'
    BY <1>4, <1>9, <1>13, <2>1, Types, CallFacts DEF OpensFile, NewObject
  <2>10. EntriesLive' /\ EntriesOwn'
    BY <1>4, <1>7, <1>8, <1>13, <1>14, <2>1, <2>5 DEF EntriesLive, EntriesOwn
  <2>11. NoLeak'
    <3>1. SUFFICES ASSUME NEW y \in Objects, life'[y] = "live"
                   PROVE  \/ y \in lost
                          \/ \E u \in Threads : Holds(u, y)'
                          \/ \E q \in Procs, g \in Fds : table'[q][g] = y
      BY <1>13 DEF NoLeak
    <3>2. CASE y = n
      BY <1>3, <1>7, <3>2
    <3>3. CASE y # n
      <4>1. y # x /\ life[y] = "live"
        BY <1>8, <3>1, <3>3
      <4>2. QED
        BY <1>3, <1>7, <2>1, <2>3, <4>1 DEF NoLeak, x
    <3>4. QED
      BY <3>2, <3>3
  <2>12. /\ \A q \in Procs, g \in Fds : ~(q = p /\ g = f) => (File(q, g)' <=> File(q, g))
         /\ \A g \in Fds : g = f => (File(p, g)' <=> kind[o] = "file")
    BY <1>3, <1>4, <1>7, <1>9, <1>14 DEF File, p
  <2>13. LinksAreFiles'
    <3>1. SUFFICES ASSUME NEW q \in Procs, NEW g \in links'[q] PROVE File(q, g)'
      BY DEF LinksAreFiles
    <3>2. g \in Fds
      BY <1>11
    <3>3. CASE q = p /\ g = f
      BY <1>11, <2>12, <3>1, <3>2, <3>3 DEF File
    <3>4. CASE ~(q = p /\ g = f)
      BY <1>11, <2>1, <2>12, <3>1, <3>2, <3>4 DEF LinksAreFiles
    <3>5. QED
      BY <3>3, <3>4
  <2>14. NoStaleLink'
    BY <1>11, <1>13, <2>1, <2>2, Types DEF NoStaleLink, Owns
  <2>15. FilesAreLinked'
    <3>1. SUFFICES ASSUME First \notin unlinked, NEW g \in Fds, File(First, g)'
                   PROVE  \/ g \in links'[First] \/ table'[First][g] \in broken
                          \/ \E u \in Threads : /\ ProcOf[u] = First
                                                /\ call[u].op \in {"open", "close"}
                                                /\ Owns(u) /\ call[u].fd = g
      BY <1>13, <2>3 DEF FilesAreLinked
    <3>2. CASE First = p /\ g = f
      BY <1>3, <1>11, <2>12, <3>1, <3>2 DEF File
    <3>3. CASE ~(First = p /\ g = f)
      BY <1>7, <1>11, <2>1, <2>12, <3>1, <3>3, FdAssumption DEF FilesAreLinked
    <3>4. QED
      BY <3>2, <3>3
  <2>16. QED
    BY <2>6, <2>7, <2>8, <2>9, <2>10, <2>11, <2>13, <2>14, <2>15
<1>21. QED
  BY <1>15, <1>16, <1>17, <1>18, <1>19, <1>20

LEMMA DupFailsInv ==
    ASSUME IInv, NEW t \in Threads, alive[ProcOf[t]] = "run", NEW type \in DupTypes,
           NEW old \in Fds, NEW new \in Fds, DupFails(t, type, old, new)
    PROVE  IInv'
<1> DEFINE p == ProcOf[t]
<1> USE DEF IInv, Basic
<1>1. call[t] = Idle /\ UNCHANGED <<table, kind, cloexec, alive, call, inherit, lost, unlinked>>
  BY DEF DupFails, MayCall
<1>2. PICK f \in DupTargets(p, type, new) :
         /\ raced' = (raced \/ Busy(t, f, Using))
         /\ life' = [y \in Objects |-> IF y = table[p][f] THEN "closed" ELSE life[y]]
         /\ links' = [links EXCEPT ![p] = @ \ {f}]
         /\ broken' = broken \cup ({table[p][f]} \ {NoObj})
  BY DEF DupFails
<1> DEFINE x == table[p][f]
<1>3. p \in Procs /\ f \in Fds
  <2>1. p \in Procs
    BY Types
  <2>2. QED
    BY <2>1, TargetFacts
<1>4. x \in Objects \cup {NoObj} /\ (x # NoObj => life[x] # "none")
  BY <1>3, Types DEF Made
<1>5. /\ life' \in [Objects -> {"none", "live", "closed"}]
      /\ \A y \in Objects : life'[y] = IF y = x THEN "closed" ELSE life[y]
  BY <1>2 DEF TypeOK
<1>6. /\ broken' \subseteq Objects
      /\ \A y \in Objects : y \in broken' <=> (y \in broken \/ y = x)
  BY <1>2, <1>4, FdAssumption DEF TypeOK
<1>7. /\ links' \in [Procs -> SUBSET Fds]
      /\ \A q \in Procs : links'[q] = IF q = p THEN links[p] \ {f} ELSE links[q]
  BY <1>2, <1>3 DEF TypeOK
<1>8. raced' = (raced \/ Busy(t, f, Using)) /\ raced' \in BOOLEAN
  BY <1>2 DEF TypeOK, Busy
<1> DEFINE same == UNCHANGED <<table, kind, cloexec, alive, call, inherit, lost, unlinked>>
<1>9. same
  BY <1>1
<1> HIDE DEF x
<1>10. TypeOK'
  BY <1>5, <1>6, <1>7, <1>8, <1>9 DEF TypeOK
<1>11. Formed' /\ Dormant'
  BY <1>9 DEF Formed, Dormant
<1>12. Made'
  BY <1>5, <1>6, <1>9, Types DEF Made
<1>13. Marked'
  BY <1>4, <1>5, <1>9 DEF Marked
<1>14. ASSUME ~raced' PROVE Sane'
  <2> USE DEF Sane
  <2>1. ~raced /\ ~Busy(t, f, Using)
    BY <1>8, <1>14
  <2>2. /\ \A u \in Threads : Owns(u)' <=> Owns(u)
        /\ \A u \in Threads, y \in Objects : Holds(u, y)' <=> Holds(u, y)
    BY <1>9 DEF Owns, Holds
  <2>3. \A u \in Threads, y \in Objects : Holds(u, y) => y # x
    BY <1>3, <2>1 DEF InHand, x
  <2>4. Placed' /\ Exclusive' /\ TwoEnds' /\ OpensFile' /\ EntriesOwn'
    BY <1>9, <2>1, <2>2 DEF Placed, Exclusive, TwoEnds, OpensFile, EntriesOwn
  <2>5. InHand'
    BY <1>5, <1>6, <1>9, <2>1, <2>2, <2>3 DEF InHand
  <2>6. EntriesLive'
    BY <1>5, <1>6, <1>9, <2>1, Types DEF EntriesLive
  <2>7. NoLeak'
    BY <1>5, <1>9, <2>1, <2>2 DEF NoLeak
  <2> HIDE DEF p
  <2>8. LinksAreFiles' /\ NoStaleLink'
    BY <1>7, <1>9, <2>1, Types DEF LinksAreFiles, NoStaleLink, File
  <2>9. FilesAreLinked'
    <3>1. SUFFICES ASSUME First \notin unlinked, NEW g \in Fds, File(First, g)
                   PROVE  \/ g \in links'[First] \/ table[First][g] \in broken'
                          \/ \E u \in Threads : /\ ProcOf[u] = First
                                                /\ call[u].op \in {"open", "close"}
                                                /\ Owns(u) /\ call[u].fd = g
      BY <1>9, <2>2 DEF FilesAreLinked, File
    <3>2. table[First][g] \in Objects
      BY <3>1, Types, FdAssumption DEF File
    <3>3. CASE First = p /\ g = f
      BY <1>6, <3>2, <3>3 DEF x
    <3>4. CASE ~(First = p /\ g = f)
      BY <1>6, <1>7, <2>1, <3>1, <3>2, <3>4, FdAssumption DEF FilesAreLinked
    <3>5. QED
      BY <3>3, <3>4
  <2>10. QED
    BY <2>4, <2>5, <2>6, <2>7, <2>8, <2>9
<1>15. QED
  BY <1>10, <1>11, <1>12, <1>13, <1>14
-----------------------------------------------------------------------------
(***************************************************************************)
(* exec and exit                                                           *)
(***************************************************************************)
LEMMA CloseEntriesBasic ==
    ASSUME Basic, NEW p \in Procs, NEW F, F \subseteq Fds, CloseEntries(p, F),
           UNCHANGED <<kind, cloexec, call, inherit, broken, lost>>
    PROVE  /\ life' \in [Objects -> {"none", "live", "closed"}]
           /\ table' \in [Procs -> [Fds -> Objects \cup {NoObj}]]
           /\ \A o \in Objects :
                 life'[o] = IF \E f \in F : o = table[p][f] THEN "closed" ELSE life[o]
           /\ \A q \in Procs, g \in Fds :
                 table'[q][g] = IF q = p /\ g \in F THEN NoObj ELSE table[q][g]
           /\ Formed' /\ Made' /\ Marked'
<1> USE DEF Basic
<1>1. /\ life' \in [Objects -> {"none", "live", "closed"}]
      /\ \A o \in Objects :
            life'[o] = IF \E f \in F : o = table[p][f] THEN "closed" ELSE life[o]
  BY DEF CloseEntries, TypeOK
<1>2. /\ table' \in [Procs -> [Fds -> Objects \cup {NoObj}]]
      /\ \A q \in Procs, g \in Fds :
            table'[q][g] = IF q = p /\ g \in F THEN NoObj ELSE table[q][g]
  BY DEF CloseEntries, TypeOK
<1>3. \A o \in Objects : life'[o] = "none" => life[o] = "none"
  BY <1>1
<1>4. Formed'
  BY DEF Formed
<1>5. Made'
  <2>1. \A q \in Procs, g \in Fds : table'[q][g] # NoObj => life'[table'[q][g]] # "none"
    BY <1>2, <1>3, Types DEF Made
  <2>2. \A o \in broken : life'[o] = "closed"
    BY <1>1, Types DEF Made
  <2>3. QED
    BY <1>3, <2>1, <2>2, Types DEF Made
<1>6. Marked'
  BY <1>3 DEF Marked
<1>7. QED
  BY <1>1, <1>2, <1>4, <1>5, <1>6

\* Entries that no call is about can be closed together, with their links.
LEMMA CloseEntriesSane ==
    ASSUME Basic, Sane, NEW p \in Procs, NEW F, F \subseteq Fds, CloseEntries(p, F),
           \A u \in Threads : ~(Owns(u) /\ ProcOf[u] = p /\ call[u].fd \in F),
           \A q \in Procs : links'[q] = IF q = p THEN links[p] \ F ELSE links[q],
           UNCHANGED <<kind, cloexec, call, inherit, broken, lost, unlinked>>
    PROVE  Sane'
<1> USE DEF Basic, Sane
<1>1. /\ \A o \in Objects :
            life'[o] = IF \E f \in F : o = table[p][f] THEN "closed" ELSE life[o]
      /\ \A q \in Procs, g \in Fds :
            table'[q][g] = IF q = p /\ g \in F THEN NoObj ELSE table[q][g]
  BY CloseEntriesBasic
<1>2. /\ \A u \in Threads : Owns(u)' <=> Owns(u)
      /\ \A u \in Threads, y \in Objects : Holds(u, y)' <=> Holds(u, y)
  BY DEF Owns, Holds
<1>3. \A u \in Threads, y \in Objects, f \in Fds : Holds(u, y) => y # table[p][f]
  BY DEF InHand
<1>4. \A q \in Procs, g \in Fds, f \in F :
         (table[q][g] # NoObj /\ table[q][g] = table[p][f]) => q = p /\ g \in F
  BY DEF EntriesOwn
<1>5. Placed' /\ Exclusive'
  BY <1>1, <1>2, Types DEF Placed, Exclusive
<1>6. TwoEnds' /\ OpensFile'
  BY DEF TwoEnds, OpensFile
<1>7. InHand'
  BY <1>1, <1>2, <1>3, FdAssumption DEF InHand
<1>8. EntriesOwn'
  BY <1>1 DEF EntriesOwn
<1>9. EntriesLive'
  BY <1>1, <1>4, Types DEF EntriesLive
<1>10. NoLeak'
  <2>1. SUFFICES ASSUME NEW y \in Objects, life'[y] = "live"
                 PROVE  \/ y \in lost
                        \/ \E u \in Threads : Holds(u, y)'
                        \/ \E q \in Procs, g \in Fds : table'[q][g] = y
    BY DEF NoLeak
  <2>2. life[y] = "live" /\ ~(\E f \in F : y = table[p][f])
    BY <1>1, <2>1
  <2>3. QED
    BY <1>1, <1>2, <2>2 DEF NoLeak
<1>11. \A q \in Procs, g \in Fds : File(q, g)' <=> File(q, g) /\ ~(q = p /\ g \in F)
  BY <1>1 DEF File
<1>12. LinksAreFiles' /\ NoStaleLink'
  BY <1>11, Types DEF LinksAreFiles, NoStaleLink
<1>13. FilesAreLinked'
  BY <1>1, <1>2, <1>11, FdAssumption DEF FilesAreLinked
<1>14. QED
  BY <1>5, <1>6, <1>7, <1>8, <1>9, <1>10, <1>12, <1>13

\* An exec that closes some of the marked entries.
LEMMA CloseMarkedInv ==
    ASSUME IInv, NEW t \in Threads, alive[ProcOf[t]] = "run", NEW F,
           F \subseteq Used(ProcOf[t]), CloseMarked(t, F)
    PROVE  IInv'
<1> DEFINE p == ProcOf[t]
<1> USE DEF IInv, Basic
<1>1. /\ call[t] = Idle /\ CloseEntries(p, F)
      /\ raced' = (raced \/ \E f \in F : Busy(t, f, Using))
      /\ links' = [links EXCEPT ![p] = @ \ {f \in F : kind[table[p][f]] = "file"}]
      /\ UNCHANGED <<kind, cloexec, alive, call, inherit, broken, lost, unlinked>>
  BY DEF CloseMarked, MayCall
<1>2. p \in Procs /\ F \subseteq Fds
  BY Types DEF Used
<1>3. /\ life' \in [Objects -> {"none", "live", "closed"}]
      /\ table' \in [Procs -> [Fds -> Objects \cup {NoObj}]]
      /\ \A q \in Procs, g \in Fds :
            table'[q][g] = IF q = p /\ g \in F THEN NoObj ELSE table[q][g]
      /\ Formed' /\ Made' /\ Marked'
  BY <1>1, <1>2, CloseEntriesBasic
<1>4. /\ links' \in [Procs -> SUBSET Fds]
      /\ \A q \in Procs : links'[q] = IF q = p
            THEN links[p] \ {f \in F : kind[table[p][f]] = "file"} ELSE links[q]
  BY <1>1, <1>2 DEF TypeOK
<1>5. raced' \in BOOLEAN
  BY <1>1
<1>6. TypeOK'
  BY <1>1, <1>3, <1>4, <1>5 DEF TypeOK
<1>7. Dormant'
  BY <1>1, <1>2, <1>3 DEF Dormant
<1>8. ASSUME ~raced' PROVE Sane'
  <2>1. ~raced /\ \A f \in F : ~Busy(t, f, Using)
    BY <1>1, <1>8
  <2>2. \A u \in Threads : ~(Owns(u) /\ ProcOf[u] = p /\ call[u].fd \in F)
    <3>1. ~Owns(t)
      BY <1>1, IdleFacts DEF Owns
    <3>2. QED
      BY <1>2, <2>1, <3>1, NotBusy
  <2>3. \A q \in Procs : links'[q] = IF q = p THEN links[p] \ F ELSE links[q]
    <3>1. \A f \in links[p] : kind[table[p][f]] = "file"
      BY <1>2, <2>1 DEF Sane, LinksAreFiles, File
    <3>2. QED
      BY <1>4, <3>1
  <2>4. QED
    BY <1>1, <1>2, <2>1, <2>2, <2>3, CloseEntriesSane
<1>9. QED
  BY <1>3, <1>6, <1>7, <1>8

\* An exec closes all of them, or those before an entry whose device fails.
LEMMA ExecInv ==
    ASSUME IInv, NEW t \in Threads, alive[ProcOf[t]] = "run",
           Exec(t) \/ \E g \in Fds : ExecStops(t, g)
    PROVE  IInv'
<1>1. PICK F : F \subseteq MarkedEntries(ProcOf[t]) /\ CloseMarked(t, F)
  <2>1. CASE Exec(t)
    <3>1. CloseMarked(t, MarkedEntries(ProcOf[t])) BY <2>1 DEF Exec
    <3>2. QED BY <3>1
  <2>2. CASE \E g \in Fds : ExecStops(t, g)
    <3>1. PICK g \in Fds : CloseMarked(t, {f \in MarkedEntries(ProcOf[t]) : f < g})
      BY <2>2 DEF ExecStops
    <3>2. {f \in MarkedEntries(ProcOf[t]) : f < g} \subseteq MarkedEntries(ProcOf[t])
      OBVIOUS
    <3>3. QED BY <3>1, <3>2
  <2>3. QED BY <2>1, <2>2
<1>2. F \subseteq Used(ProcOf[t]) BY <1>1 DEF MarkedEntries
<1>3. QED BY <1>1, <1>2, CloseMarkedInv

LEMMA ExitInv ==
    ASSUME IInv, NEW p \in Procs, Exit(p)
    PROVE  IInv'
<1> DEFINE F == Used(p)
<1> USE DEF IInv, Basic
<1>1. /\ alive[p] = "run" /\ \A t \in Threads : ProcOf[t] = p => call[t] = Idle
      /\ CloseEntries(p, F)
      /\ links' = [links EXCEPT ![p] = {}] /\ alive' = [alive EXCEPT ![p] = "gone"]
      /\ UNCHANGED <<kind, cloexec, call, inherit, raced, broken, lost, unlinked>>
  BY DEF Exit, ghostVars
<1>2. F \subseteq Fds /\ \A f \in Fds : table[p][f] # NoObj => f \in F
  BY DEF Used, Free
<1> HIDE DEF F
<1>3. /\ life' \in [Objects -> {"none", "live", "closed"}]
      /\ table' \in [Procs -> [Fds -> Objects \cup {NoObj}]]
      /\ \A q \in Procs, g \in Fds :
            table'[q][g] = IF q = p /\ g \in F THEN NoObj ELSE table[q][g]
      /\ Formed' /\ Made' /\ Marked'
  BY <1>1, <1>2, CloseEntriesBasic
<1>4. /\ links' \in [Procs -> SUBSET Fds]
      /\ \A q \in Procs : links'[q] = IF q = p THEN {} ELSE links[q]
  BY <1>1 DEF TypeOK
<1>5. /\ alive' \in [Procs -> {"none", "run", "gone", "hung"}]
      /\ \A q \in Procs : alive'[q] = IF q = p THEN "gone" ELSE alive[q]
  BY <1>1 DEF TypeOK
<1>6. TypeOK'
  BY <1>1, <1>3, <1>4, <1>5 DEF TypeOK
<1>7. Dormant'
  BY <1>1, <1>3, <1>5, FdAssumption DEF Dormant
<1>8. ASSUME ~raced PROVE Sane'
  <2>1. \A u \in Threads : ~(Owns(u) /\ ProcOf[u] = p /\ call[u].fd \in F)
    BY <1>1, IdleFacts DEF Owns
  <2>2. \A q \in Procs : links'[q] = IF q = p THEN links[p] \ F ELSE links[q]
    <3>1. \A f \in links[p] : f \in F
      BY <1>2, <1>8, Types DEF Sane, LinksAreFiles, File
    <3>2. QED
      BY <1>4, <3>1
  <2>3. QED
    BY <1>1, <1>2, <1>8, <2>1, <2>2, CloseEntriesSane
<1>9. QED
  BY <1>1, <1>3, <1>6, <1>7, <1>8
-----------------------------------------------------------------------------
(***************************************************************************)
(* fork                                                                    *)
(***************************************************************************)
\* The copies of some entries are new objects with the flags of the originals.
LEMMA ClonedEffect ==
    ASSUME Basic, NEW p \in Procs, NEW F, F \subseteq Used(p),
           Cardinality(Unused) >= Cardinality(Used(p)), Cloned(p, F)
    PROVE  /\ life' \in [Objects -> {"none", "live", "closed"}]
           /\ kind' \in [Objects -> {"none", "file", "pipe"}]
           /\ cloexec' \in [Objects -> BOOLEAN] /\ inherit' \subseteq Objects
           /\ \A f \in Used(p) : Copies(p)[f] \in Objects /\ life[Copies(p)[f]] = "none"
           /\ \A o \in Objects : life'[o] = IF \E f \in F : o = Copies(p)[f] THEN "live"
                                            ELSE life[o]
           /\ \A o \in Objects : life[o] # "none" => kind'[o] = kind[o]
           /\ Marked'
<1> USE DEF Basic
<1> DEFINE c == Copies(p)
           made == {c[f] : f \in F}
           From(o) == table[p][CHOOSE f \in F : c[f] = o]
<1>1. /\ life' = [o \in Objects |-> IF o \in made THEN "live" ELSE life[o]]
      /\ kind' = [o \in Objects |-> IF o \in made THEN kind[From(o)] ELSE kind[o]]
      /\ cloexec' = [o \in Objects |-> IF o \in made THEN cloexec[From(o)] ELSE cloexec[o]]
      /\ inherit' = inherit \cup {o \in made : From(o) \in inherit}
  BY DEF Cloned
<1>2. \A f \in Used(p) : c[f] \in Objects /\ life[c[f]] = "none"
  BY CopiesAreNew DEF Unused
<1>3. \A f \in Used(p) : table[p][f] \in Objects
  BY Types DEF Used, Free
<1>4. \A o \in made : From(o) \in Objects
  BY <1>3
<1>5. \A o \in made : o \in Objects /\ life[o] = "none"
  BY <1>2
<1>6. \A o : o \in made <=> \E f \in F : o = c[f]
  OBVIOUS
<1> HIDE DEF c, made, From
<1>7. /\ life' \in [Objects -> {"none", "live", "closed"}]
      /\ kind' \in [Objects -> {"none", "file", "pipe"}]
      /\ cloexec' \in [Objects -> BOOLEAN]
  BY <1>1, <1>4 DEF TypeOK
<1>8. inherit' \subseteq Objects
  BY <1>1, <1>5 DEF TypeOK
<1>9. \A o \in Objects : life'[o] = IF \E f \in F : o = c[f] THEN "live" ELSE life[o]
  BY <1>1, <1>6
<1>10. \A o \in Objects : life[o] # "none" => kind'[o] = kind[o]
  BY <1>1, <1>5
<1>11. Marked'
  <2>1. SUFFICES ASSUME NEW o \in Objects
                 PROVE  (cloexec'[o] <=> o \in inherit') /\ (life'[o] = "none" => ~cloexec'[o])
    BY DEF Marked
  <2>2. CASE o \in made
    <3>1. life'[o] = "live" /\ cloexec'[o] = cloexec[From(o)] /\ o \notin inherit
      BY <1>1, <1>5, <2>2 DEF Marked
    <3>2. o \in inherit' <=> From(o) \in inherit
      BY <1>1, <2>2, <3>1
    <3>3. cloexec[From(o)] <=> From(o) \in inherit
      BY <1>4, <2>2 DEF Marked
    <3>4. QED
      BY <3>1, <3>2, <3>3
  <2>3. CASE o \notin made
    <3>1. life'[o] = life[o] /\ cloexec'[o] = cloexec[o] /\ (o \in inherit' <=> o \in inherit)
      BY <1>1, <2>3
    <3>2. QED
      BY <3>1 DEF Marked
  <2>4. QED
    BY <2>2, <2>3
<1>12. QED
  BY <1>2, <1>7, <1>8, <1>9, <1>10, <1>11 DEF c

\* A change that only gives life to new objects, or kills them at once, keeps what
\* was known of the others.
LEMMA OthersKept ==
    ASSUME Basic, Sane, UNCHANGED <<call, broken>>,
           \A o \in Objects : life[o] # "none" => life'[o] = life[o] /\ kind'[o] = kind[o]
    PROVE  /\ \A u \in Threads : Owns(u)' <=> Owns(u)
           /\ \A u \in Threads, y \in Objects : Holds(u, y)' <=> Holds(u, y)
           /\ Exclusive' /\ TwoEnds' /\ OpensFile'
           /\ \A u \in Threads, y \in Objects : Holds(u, y) =>
                 /\ life[y] # "none" /\ life'[y] = life[y]
                 /\ \A v \in Threads : Holds(v, y) => v = u
<1> USE DEF Basic, Sane
<1>1. /\ \A u \in Threads : Owns(u)' <=> Owns(u)
      /\ \A u \in Threads, y \in Objects : Holds(u, y)' <=> Holds(u, y)
  BY DEF Owns, Holds
<1>2. Exclusive' /\ TwoEnds'
  BY <1>1 DEF Exclusive, TwoEnds
<1>3. OpensFile'
  <2>1. SUFFICES ASSUME NEW u \in Threads, call[u].op \in {"open", "pipe"}
                 PROVE  /\ call[u].op = "open" => kind'[call[u].obj] = "file"
                        /\ call[u].op = "pipe" => /\ kind'[call[u].obj] # "file"
                                                  /\ kind'[call[u].obj2] # "file"
    BY DEF OpensFile
  <2>2. /\ call[u].obj \in Objects /\ life[call[u].obj] # "none"
        /\ call[u].op = "pipe" => call[u].obj2 \in Objects /\ life[call[u].obj2] # "none"
    BY <2>1, CallFacts DEF Made
  <2>3. QED
    BY <2>1, <2>2 DEF OpensFile
<1>4. \A u \in Threads, y \in Objects : Holds(u, y) => life[y] # "none"
  BY NewObjects DEF NewObject
<1>5. QED
  BY <1>1, <1>2, <1>3, <1>4 DEF InHand

LEMMA ForkInv ==
    ASSUME IInv, NEW t \in Threads, alive[ProcOf[t]] = "run", NEW c \in Procs, Fork(t, c)
    PROVE  IInv'
<1> DEFINE p == ProcOf[t]
           U == Used(p)
           new == Copies(p)
<1> USE DEF IInv, Basic
<1>1. /\ alive[c] = "none" /\ Cardinality(Unused) >= Cardinality(U) /\ Cloned(p, U)
      /\ table' = [table EXCEPT ![c] = [f \in Fds |-> IF f \in U THEN new[f] ELSE NoObj]]
      /\ alive' = [alive EXCEPT ![c] = "run"]
      /\ UNCHANGED <<links, call, raced, broken, lost, unlinked>>
  BY DEF Fork, MayFork, ghostVars
<1>2. p \in Procs /\ p # c /\ First # c
  BY <1>1, Types DEF Dormant
<1>3. U \subseteq Fds
  BY DEF Used
<1>4. /\ life' \in [Objects -> {"none", "live", "closed"}]
      /\ kind' \in [Objects -> {"none", "file", "pipe"}]
      /\ cloexec' \in [Objects -> BOOLEAN] /\ inherit' \subseteq Objects
      /\ \A f \in U : new[f] \in Objects /\ life[new[f]] = "none"
      /\ \A o \in Objects : life'[o] = IF \E f \in U : o = new[f] THEN "live" ELSE life[o]
      /\ \A o \in Objects : life[o] # "none" => kind'[o] = kind[o]
      /\ Marked'
  BY <1>1, <1>2, ClonedEffect
<1>5. \A f, g \in U : new[f] = new[g] => f = g
  BY <1>1, <1>2, CopiesAreNew
<1> HIDE DEF U, new
<1>6. /\ table' \in [Procs -> [Fds -> Objects \cup {NoObj}]]
      /\ \A q \in Procs, g \in Fds :
            table'[q][g] = IF q # c THEN table[q][g] ELSE IF g \in U THEN new[g] ELSE NoObj
  BY <1>1, <1>4 DEF TypeOK
<1>7. /\ alive' \in [Procs -> {"none", "run", "gone", "hung"}]
      /\ \A q \in Procs : alive'[q] = IF q = c THEN "run" ELSE alive[q]
  BY <1>1 DEF TypeOK
<1> DEFINE same == UNCHANGED <<links, call, raced, broken, lost, unlinked>>
<1>8. same
  BY <1>1
<1>9. \A o \in Objects : life[o] # "none" => life'[o] = life[o] /\ kind'[o] = kind[o]
  BY <1>4
<1>10. TypeOK'
  BY <1>4, <1>6, <1>7, <1>8 DEF TypeOK
<1>11. Formed'
  BY <1>8 DEF Formed
<1>12. Made'
  <2>1. \A q \in Procs, g \in Fds : table'[q][g] # NoObj => life'[table'[q][g]] # "none"
    BY <1>4, <1>6, <1>9, Types DEF Made
  <2>2. QED
    BY <1>8, <1>9, <2>1, Types DEF Made
<1>13. Dormant'
  <2>1. alive'[First] # "none"
    BY <1>2, <1>7, FdAssumption DEF Dormant
  <2>2. \A q \in Procs : alive'[q] = "none" => /\ alive[q] = "none"
                                                /\ \A f \in Fds : table'[q][f] = table[q][f]
    BY <1>6, <1>7
  <2>3. QED
    BY <1>8, <2>1, <2>2 DEF Dormant
<1>14. ASSUME ~raced PROVE Sane'
  <2>1. Sane
    BY <1>14
  <2>2. /\ \A u \in Threads : Owns(u)' <=> Owns(u)
        /\ \A u \in Threads, y \in Objects : Holds(u, y)' <=> Holds(u, y)
        /\ Exclusive' /\ TwoEnds' /\ OpensFile'
        /\ \A u \in Threads, y \in Objects : Holds(u, y) =>
              /\ life[y] # "none" /\ life'[y] = life[y]
              /\ \A v \in Threads : Holds(v, y) => v = u
    BY <1>8, <1>9, <2>1, OthersKept
  <2> USE DEF Sane
  <2>3. \A u \in Threads : Owns(u) => ProcOf[u] # c
    BY <1>1, IdleFacts DEF Dormant, Owns
  <2>4. \A q \in Procs, g \in Fds : table[q][g] # NoObj =>
           table[q][g] \in Objects /\ life[table[q][g]] # "none"
    BY Types DEF Made
  <2> HIDE DEF p
  <2>5. Placed'
    BY <1>6, <1>8, <2>1, <2>2, <2>3, Types DEF Placed
  <2>6. InHand'
    <3>1. SUFFICES ASSUME NEW u \in Threads, NEW x \in Objects, Holds(u, x)
                   PROVE  /\ \A v \in Threads : Holds(v, x)' => v = u
                          /\ \A q \in Procs, g \in Fds : table'[q][g] # x
                          /\ life'[x] = "live" \/ (call'[u].step = "object" /\ x \in broken')
      BY <2>2 DEF InHand
    <3>2. x # NoObj
      BY FdAssumption
    <3>3. /\ life[x] # "none" /\ life'[x] = life[x]
          /\ \A v \in Threads : Holds(v, x)' => v = u
      BY <2>2, <3>1
    <3>4. /\ \A q \in Procs, g \in Fds : table[q][g] # x
          /\ life[x] = "live" \/ (call[u].step = "object" /\ x \in broken)
      BY <2>1, <3>1 DEF InHand
    <3>5. \A f \in U : new[f] # x
      BY <1>4, <3>3
    <3>6. QED
      BY <1>6, <1>8, <3>2, <3>3, <3>4, <3>5
  <2>7. EntriesLive'
    <3>1. SUFFICES ASSUME NEW q \in Procs, NEW g \in Fds, table'[q][g] # NoObj
                   PROVE  table'[q][g] \in broken \/ life'[table'[q][g]] = "live"
      BY <1>8 DEF EntriesLive
    <3>2. CASE q = c
      BY <1>4, <1>6, <3>1, <3>2
    <3>3. CASE q # c
      BY <1>6, <1>9, <2>1, <2>4, <3>1, <3>3 DEF EntriesLive
    <3>4. QED
      BY <3>2, <3>3
  <2>8. EntriesOwn'
    BY <1>4, <1>5, <1>6, <2>1, <2>4 DEF EntriesOwn
  <2>9. NoLeak'
    <3>1. SUFFICES ASSUME NEW y \in Objects, life'[y] = "live"
                   PROVE  \/ y \in lost
                          \/ \E u \in Threads : Holds(u, y)'
                          \/ \E q \in Procs, g \in Fds : table'[q][g] = y
      BY <1>8 DEF NoLeak
    <3>2. CASE \E f \in U : y = new[f]
      BY <1>3, <1>6, <3>2
    <3>3. CASE ~(\E f \in U : y = new[f])
      <4>1. life[y] = "live" /\ y # NoObj
        BY <1>4, <3>1, <3>3, FdAssumption
      <4>2. \A g \in Fds : table[c][g] = NoObj
        BY <1>1 DEF Dormant
      <4>3. QED
        BY <1>6, <2>1, <2>2, <4>1, <4>2 DEF NoLeak
    <3>4. QED
      BY <3>2, <3>3
  <2>10. \A q \in Procs, g \in Fds : q # c => (File(q, g)' <=> File(q, g))
    BY <1>6, <1>9, <2>4 DEF File
  <2>11. LinksAreFiles'
    <3>1. links[c] = {}
      BY <1>1, <2>1, Types DEF LinksAreFiles, File, Dormant
    <3>2. QED
      BY <1>8, <2>1, <2>10, <3>1, Types DEF LinksAreFiles
  <2>12. NoStaleLink'
    BY <1>8, <2>1 DEF NoStaleLink
  <2>13. FilesAreLinked'
    BY <1>2, <1>6, <1>8, <2>1, <2>2, <2>10, FdAssumption DEF FilesAreLinked
  <2>14. QED
    BY <2>2, <2>5, <2>6, <2>7, <2>8, <2>9, <2>11, <2>12, <2>13
<1>15. QED
  BY <1>4, <1>8, <1>10, <1>11, <1>12, <1>13, <1>14

LEMMA CloneFailsInv ==
    ASSUME IInv, NEW t \in Threads, alive[ProcOf[t]] = "run", NEW c \in Procs, NEW f \in Fds,
           CloneFails(t, c, f)
    PROVE  IInv'
<1> DEFINE p == ProcOf[t]
           F == {g \in Used(p) : g < f}
           new == Copies(p)
<1> USE DEF IInv, Basic
<1>1. /\ Cardinality(Unused) >= Cardinality(Used(p)) /\ Cloned(p, F)
      /\ lost' = lost \cup {new[g] : g \in F}
      /\ UNCHANGED <<table, links, alive, call, raced, broken, unlinked>>
  BY DEF CloneFails, MayFork
<1>2. p \in Procs /\ F \subseteq Used(p)
  BY Types
<1> HIDE DEF F
<1>3. /\ life' \in [Objects -> {"none", "live", "closed"}]
      /\ kind' \in [Objects -> {"none", "file", "pipe"}]
      /\ cloexec' \in [Objects -> BOOLEAN] /\ inherit' \subseteq Objects
      /\ \A g \in Used(p) : new[g] \in Objects /\ life[new[g]] = "none"
      /\ \A o \in Objects : life'[o] = IF \E g \in F : o = new[g] THEN "live" ELSE life[o]
      /\ \A o \in Objects : life[o] # "none" => kind'[o] = kind[o]
      /\ Marked'
  BY <1>1, <1>2, ClonedEffect
<1>4. /\ \A g \in F : new[g] \in Objects /\ life[new[g]] = "none"
      /\ lost' \subseteq Objects
  BY <1>1, <1>2, <1>3 DEF TypeOK
<1> HIDE DEF new
<1>5. \A o : o \in lost' <=> o \in lost \/ \E g \in F : o = new[g]
  BY <1>1
<1> DEFINE same == UNCHANGED <<table, links, alive, call, raced, broken, unlinked>>
<1>6. same
  BY <1>1
<1>7. \A o \in Objects : life[o] # "none" => life'[o] = life[o] /\ kind'[o] = kind[o]
  BY <1>3, <1>4
<1>8. TypeOK'
  BY <1>3, <1>4, <1>6 DEF TypeOK
<1>9. Formed' /\ Dormant'
  BY <1>6 DEF Formed, Dormant
<1>10. Made'
  <2>1. \A o \in lost' : life'[o] # "none"
    BY <1>3, <1>4, <1>5, <1>7, Types DEF Made
  <2>2. QED
    BY <1>6, <1>7, <2>1, Types DEF Made
<1>11. ASSUME ~raced PROVE Sane'
  <2>1. Sane
    BY <1>11
  <2>2. /\ \A u \in Threads : Owns(u)' <=> Owns(u)
        /\ \A u \in Threads, y \in Objects : Holds(u, y)' <=> Holds(u, y)
        /\ Exclusive' /\ TwoEnds' /\ OpensFile'
        /\ \A u \in Threads, y \in Objects : Holds(u, y) =>
              /\ life[y] # "none" /\ life'[y] = life[y]
              /\ \A v \in Threads : Holds(v, y) => v = u
    BY <1>6, <1>7, <2>1, OthersKept
  <2> USE DEF Sane
  <2>3. \A q \in Procs, g \in Fds : table[q][g] # NoObj =>
           table[q][g] \in Objects /\ life[table[q][g]] # "none"
    BY Types DEF Made
  <2>4. Placed' /\ EntriesOwn' /\ NoStaleLink'
    BY <1>6, <2>1, <2>2 DEF Placed, EntriesOwn, NoStaleLink
  <2>5. InHand'
    BY <1>6, <2>1, <2>2 DEF InHand
  <2>6. EntriesLive'
    BY <1>6, <1>7, <2>1, <2>3 DEF EntriesLive
  <2>7. NoLeak'
    BY <1>3, <1>5, <1>6, <2>1, <2>2 DEF NoLeak
  <2>8. \A q \in Procs, g \in Fds : File(q, g)' <=> File(q, g)
    BY <1>6, <1>7, <2>3 DEF File
  <2>9. LinksAreFiles' /\ FilesAreLinked'
    BY <1>6, <2>1, <2>2, <2>8, Types, FdAssumption DEF LinksAreFiles, FilesAreLinked
  <2>10. QED
    BY <2>2, <2>4, <2>5, <2>6, <2>7, <2>9
<1>12. QED
  BY <1>3, <1>6, <1>8, <1>9, <1>10, <1>11

LEMMA ForkFailsInv ==
    ASSUME IInv, NEW t \in Threads, alive[ProcOf[t]] = "run", NEW c \in Procs, ForkFails(t, c)
    PROVE  IInv'
<1> DEFINE p == ProcOf[t]
           new == Copies(p)
           U == Used(p)
<1> USE DEF IInv, Basic
<1>1. /\ Cardinality(Unused) >= Cardinality(U)
      /\ life' = [o \in Objects |-> IF \E f \in U : o = new[f] THEN "closed" ELSE life[o]]
      /\ links' = [links EXCEPT ![p] = {f \in @ : ~(f \in U /\ kind[table[p][f]] = "file")}]
      /\ unlinked' = unlinked \cup {p}
      /\ UNCHANGED <<table, kind, cloexec, alive, call, inherit, raced, broken, lost>>
  BY DEF ForkFails, MayFork
<1>2. p \in Procs
  BY Types
<1>3. \A f \in U : new[f] \in Objects /\ life[new[f]] = "none"
  BY <1>1, <1>2, CopiesAreNew DEF Unused
<1> HIDE DEF new
<1>4. /\ life' \in [Objects -> {"none", "live", "closed"}]
      /\ \A o \in Objects : life'[o] = IF \E f \in U : o = new[f] THEN "closed" ELSE life[o]
  BY <1>1 DEF TypeOK
<1>5. /\ links' \in [Procs -> SUBSET Fds]
      /\ \A q \in Procs : links'[q] \subseteq links[q] /\ (q # p => links'[q] = links[q])
  BY <1>1, <1>2 DEF TypeOK
<1>6. unlinked' \subseteq Procs /\ p \in unlinked' /\ unlinked \subseteq unlinked'
  BY <1>1, <1>2 DEF TypeOK
<1> DEFINE same == UNCHANGED <<table, kind, cloexec, alive, call, inherit, raced, broken, lost>>
<1>7. same
  BY <1>1
<1>8. \A o \in Objects : life[o] # "none" => life'[o] = life[o] /\ kind'[o] = kind[o]
  BY <1>3, <1>4, <1>7
<1>9. TypeOK'
  BY <1>4, <1>5, <1>6, <1>7 DEF TypeOK
<1>10. Formed' /\ Dormant'
  BY <1>7 DEF Formed, Dormant
<1>11. Made'
  BY <1>7, <1>8, Types DEF Made
<1>12. Marked'
  BY <1>4, <1>7 DEF Marked
<1>13. ASSUME ~raced PROVE Sane'
  <2>1. Sane
    BY <1>13
  <2>2. /\ \A u \in Threads : Owns(u)' <=> Owns(u)
        /\ \A u \in Threads, y \in Objects : Holds(u, y)' <=> Holds(u, y)
        /\ Exclusive' /\ TwoEnds' /\ OpensFile'
        /\ \A u \in Threads, y \in Objects : Holds(u, y) =>
              /\ life[y] # "none" /\ life'[y] = life[y]
              /\ \A v \in Threads : Holds(v, y) => v = u
    BY <1>7, <1>8, <2>1, OthersKept
  <2> USE DEF Sane
  <2>3. \A q \in Procs, g \in Fds : table[q][g] # NoObj =>
           table[q][g] \in Objects /\ life[table[q][g]] # "none"
    BY Types DEF Made
  <2> HIDE DEF p
  <2>4. Placed' /\ EntriesOwn'
    BY <1>7, <2>1, <2>2 DEF Placed, EntriesOwn
  <2>5. InHand'
    BY <1>7, <2>1, <2>2 DEF InHand
  <2>6. EntriesLive'
    BY <1>7, <1>8, <2>1, <2>3 DEF EntriesLive
  <2>7. NoLeak'
    BY <1>4, <1>7, <2>1, <2>2 DEF NoLeak
  <2>8. LinksAreFiles' /\ NoStaleLink'
    BY <1>5, <1>7, <2>1, Types DEF LinksAreFiles, NoStaleLink, File
  <2>9. FilesAreLinked'
    <3>1. CASE First = p
      BY <1>6, <3>1 DEF FilesAreLinked
    <3>2. CASE First # p
      BY <1>5, <1>6, <1>7, <2>1, <2>2, <3>2, FdAssumption DEF FilesAreLinked, File
    <3>3. QED
      BY <3>1, <3>2
  <2>10. QED
    BY <2>2, <2>4, <2>5, <2>6, <2>7, <2>8, <2>9
<1>14. QED
  BY <1>7, <1>9, <1>10, <1>11, <1>12, <1>13
-----------------------------------------------------------------------------
(***************************************************************************)
(* The theorems                                                            *)
(***************************************************************************)
LEMMA NextInv == IInv /\ [Next]_vars => IInv'
<1> SUFFICES ASSUME IInv, [Next]_vars PROVE IInv'
  OBVIOUS
<1>1. ASSUME NEW t \in Threads, alive[ProcOf[t]] = "run",
             \/ \E cx \in BOOLEAN : Open(t, cx)
             \/ OpenAssign(t) \/ OpenLink(t)
             \/ Pipe2(t) \/ PipeAssignRead(t) \/ PipeAssignWrite(t)
      PROVE  IInv'
  BY <1>1, OpenInv, OpenAssignInv, OpenLinkInv, Pipe2Inv, PipeAssignReadInv, PipeAssignWriteInv
<1>2. ASSUME NEW t \in Threads, alive[ProcOf[t]] = "run",
             \/ Use(t) \/ CloseUnlink(t) \/ CloseRemove(t) \/ CloseObject(t)
             \/ Exec(t) \/ \E g \in Fds : ExecStops(t, g)
             \/ \E f \in Fds : UseGet(t, f) \/ CloseGet(t, f)
      PROVE  IInv'
  BY <1>2, UseInv, CloseUnlinkInv, CloseRemoveInv, CloseObjectInv, ExecInv, UseGetInv, CloseGetInv
<1>3. ASSUME NEW t \in Threads, alive[ProcOf[t]] = "run",
             \E type \in DupTypes, old, new \in Fds :
                \/ Dup(t, type, old, new) \/ DupFails(t, type, old, new)
                \/ DupHangs(t, type, old, new)
      PROVE  IInv'
  BY <1>3, DupInv, DupFailsInv, DupHangsInv
<1>4. ASSUME NEW t \in Threads, alive[ProcOf[t]] = "run",
             \/ \E c \in Procs : Fork(t, c) \/ ForkFails(t, c)
             \/ \E c \in Procs, f \in Fds : CloneFails(t, c, f)
      PROVE  IInv'
  BY <1>4, ForkInv, ForkFailsInv, CloneFailsInv
<1>5. CASE UNCHANGED vars
  <2> USE <1>5 DEF vars
  <2>1. Basic'
    BY DEF IInv, Basic, TypeOK, Formed, Made, Marked, Dormant
  <2>2. ASSUME ~raced PROVE Sane'
    <3> USE DEF IInv, Sane
    <3>1. Placed' /\ Exclusive' /\ InHand' /\ TwoEnds'
      BY <2>2 DEF Placed, Exclusive, InHand, TwoEnds, Owns, Holds
    <3>2. EntriesLive' /\ EntriesOwn' /\ NoLeak'
      BY <2>2 DEF EntriesLive, EntriesOwn, NoLeak, Holds
    <3>3. LinksAreFiles' /\ NoStaleLink' /\ OpensFile' /\ FilesAreLinked'
      BY <2>2 DEF LinksAreFiles, NoStaleLink, OpensFile, FilesAreLinked, File, Owns
    <3>4. QED
      BY <3>1, <3>2, <3>3
  <2>3. QED
    BY <2>1, <2>2 DEF IInv
<1>6. QED
  BY <1>1, <1>2, <1>3, <1>4, <1>5, ExitInv DEF Next

\* IInv is inductive: what is known of the entries, of the objects in the hands of
\* the calls and of the links survives every step of the system calls.
THEOREM Invariance == Spec => []IInv
<1>1. Init => IInv
  BY InitInv
<1>2. IInv /\ [Next]_vars => IInv'
  BY NextInv
<1>3. QED
  BY <1>1, <1>2, PTL DEF Spec

\* IInv says at least what the run checks.
LEMMA IInvSuffices == IInv => DescriptorsExact
<1> SUFFICES ASSUME IInv PROVE DescriptorsExact
  OBVIOUS
<1> USE DEF IInv, Basic
<1>1. ASSUME ~raced
      PROVE  /\ \A e \in Entries : table[e[1]][e[2]] \in broken \/ life[table[e[1]][e[2]]] = "live"
             /\ \A e, g \in Entries : table[e[1]][e[2]] = table[g[1]][g[2]] => e = g
             /\ \A o \in Objects : life[o] = "live" =>
                   o \in lost \cup InCall \cup {table[e[1]][e[2]] : e \in Entries}
  <2> USE DEF Sane
  <2>1. \A e \in Entries : e[1] \in Procs /\ e[2] \in Fds /\ e = <<e[1], e[2]>>
                           /\ table[e[1]][e[2]] # NoObj
    BY DEF Entries
  <2>2. \A e \in Entries : table[e[1]][e[2]] \in broken \/ life[table[e[1]][e[2]]] = "live"
    BY <1>1, <2>1 DEF EntriesLive
  <2>3. \A e, g \in Entries : table[e[1]][e[2]] = table[g[1]][g[2]] => e = g
    <3>1. SUFFICES ASSUME NEW e \in Entries, NEW g \in Entries,
                          table[e[1]][e[2]] = table[g[1]][g[2]]
                   PROVE  e = g
      OBVIOUS
    <3>2. e[1] = g[1] /\ e[2] = g[2]
      BY <1>1, <2>1, <3>1 DEF EntriesOwn
    <3>3. QED
      BY <2>1, <3>2
  <2>4. ASSUME NEW o \in Objects, life[o] = "live"
        PROVE  o \in lost \cup InCall \cup {table[e[1]][e[2]] : e \in Entries}
    <3>1. o # NoObj
      BY FdAssumption
    <3>2. ASSUME NEW t \in Threads, Holds(t, o) PROVE o \in InCall
      BY <3>2 DEF Holds, InCall
    <3>3. ASSUME NEW p \in Procs, NEW f \in Fds, table[p][f] = o
          PROVE  o \in {table[e[1]][e[2]] : e \in Entries}
      <4>1. <<p, f>> \in Entries /\ table[<<p, f>>[1]][<<p, f>>[2]] = o
        BY <3>1, <3>3 DEF Entries
      <4>2. QED
        BY <4>1
    <3>4. QED
      BY <1>1, <2>4, <3>2, <3>3 DEF NoLeak
  <2>5. QED
    BY <2>2, <2>3, <2>4
<1>2. ASSUME ~raced
      PROVE  \A t \in Threads : call[t].obj \in Objects \ broken => life[call[t].obj] = "live"
  <2> USE DEF Sane
  <2>1. SUFFICES ASSUME NEW t \in Threads, call[t].obj \in Objects \ broken
                 PROVE  life[call[t].obj] = "live"
    OBVIOUS
  <2>2. Owns(t) \/ Holds(t, call[t].obj)
    BY <2>1, IdleFacts, FdAssumption DEF Formed, Owns, Holds
  <2>3. CASE Owns(t)
    BY <1>2, <2>1, <2>3, Types, FdAssumption DEF Placed, EntriesLive
  <2>4. CASE Holds(t, call[t].obj)
    BY <1>2, <2>1, <2>4 DEF InHand
  <2>5. QED
    BY <2>2, <2>3, <2>4
<1>3. ASSUME ~raced, NEW p \in Procs
      PROVE  LET inopen == {call[t].fd : t \in {u \in Threads :
                                ProcOf[u] = p /\ call[u].op \in {"open", "close"}}}
                 files == {f \in Used(p) : kind[table[p][f]] = "file"}
             IN  /\ links[p] \subseteq files
                 /\ (p = First /\ p \notin unlinked) =>
                       files \subseteq links[p] \cup inopen \cup {f \in Fds : table[p][f] \in broken}
  <2> USE DEF Sane
  <2>1. \A f \in Fds : f \in Used(p) <=> table[p][f] # NoObj
    BY DEF Used, Free
  <2>2. links[p] \subseteq {f \in Used(p) : kind[table[p][f]] = "file"}
    BY <1>3, <2>1, Types DEF LinksAreFiles, File
  <2>3. ASSUME p = First, p \notin unlinked, NEW f \in Used(p), kind[table[p][f]] = "file"
        PROVE  \/ f \in links[p] \/ (f \in Fds /\ table[p][f] \in broken)
               \/ f \in {call[t].fd : t \in {u \in Threads :
                                ProcOf[u] = p /\ call[u].op \in {"open", "close"}}}
    <3>1. f \in Fds /\ File(First, f)
      BY <2>1, <2>3 DEF File, Used
    <3>2. QED
      BY <1>3, <2>3, <3>1 DEF FilesAreLinked
  <2>4. QED
    BY <2>2, <2>3
<1>4. QED
  BY <1>1, <1>2, <1>3 DEF DescriptorsExact, ObjectsExact, NoUseAfterClose, LinksExact

\* However many processes, threads and descriptors there are and however their
\* calls interleave, an entry points to a live object of its own, no live object is
\* lost, no call uses or closes an object that is closed, and /proc/[pid]/fd shows
\* the files that are open (myst_fdtable_assign, _remove, _dup, _clone, _cloexec and
\* _free, with the steps of open, pipe2 and close around them), but for the
\* exceptions that DescriptorsExact names.
THEOREM DescriptorsAreExact == Spec => []DescriptorsExact
<1>1. QED
  BY Invariance, IInvSuffices, PTL

\* exec closes exactly the descriptors that were marked or forked from marked ones
\* (myst_fdtable_clone keeps the flags of what it copies, myst_fdtable_dup clears
\* them, and myst_fdtable_cloexec goes by the flag of the object).
THEOREM ExecIsExact == Spec => ExecClosesMarked
<1>1. ASSUME IInv, NEW t \in Threads, Exec(t), NEW f \in Used(ProcOf[t])
      PROVE  table'[ProcOf[t]][f] = NoObj <=> table[ProcOf[t]][f] \in inherit
  <2> DEFINE p == ProcOf[t]
             F == {g \in Used(p) : cloexec[table[p][g]]}
  <2> USE DEF IInv, Basic
  <2>1. p \in Procs /\ f \in Fds /\ table[p][f] # NoObj /\ table[p][f] \in Objects
    BY <1>1, Types DEF Used, Free
  <2>2. f \in F <=> table[p][f] \in inherit
    BY <1>1, <2>1 DEF Marked
  <2>3. F \subseteq Fds /\ CloseEntries(p, F)
        /\ UNCHANGED <<kind, cloexec, call, inherit, broken, lost>>
    BY <1>1 DEF Exec, CloseMarked, MarkedEntries, Used
  <2> HIDE DEF F
  <2>4. table'[p][f] = IF f \in F THEN NoObj ELSE table[p][f]
    BY <1>1, <2>1, <2>3, CloseEntriesBasic
  <2>5. QED
    BY <2>1, <2>2, <2>4
<1>2. IInv /\ [Next]_vars =>
         [\A t \in Threads : Exec(t) =>
             \A f \in Used(ProcOf[t]) :
                 table'[ProcOf[t]][f] = NoObj <=> table[ProcOf[t]][f] \in inherit]_vars
  BY <1>1
<1>3. QED
  BY Invariance, <1>2, PTL DEF Spec, ExecClosesMarked
=============================================================================
