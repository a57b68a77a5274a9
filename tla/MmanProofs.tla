---------------------------- MODULE MmanProofs -----------------------------
(***************************************************************************)
(* Proofs about module Mman: for any number of pages and processes, the    *)
(* list of areas is sane and covers exactly what is mapped, a process can  *)
(* release all it owns, and every page has the protection, the content and *)
(* the recorded owner it should have.                                      *)
(***************************************************************************)
EXTENDS Mman, FiniteSetTheorems, TLAPS

\* the lists of areas
Lists == SUBSET (Pages \X (1..NumPages))

\* Areas are not empty, and there is a page between any two.
Apart(V) ==
    /\ \A v \in V : v[1] < v[2]
    /\ \A v, w \in V : v = w \/ v[2] < w[1] \/ w[2] < v[1]

\* Free pages above the break value are inaccessible.
FreeIsClosed ==
    \A g \in Pages : owner[g] = Nobody /\ brk <= g => prot[g] = "none"

\* the pages whose record the call of p is about to erase
Erasing(p) == IF call[p].op \in {"disown", "move"} THEN call[p].old ELSE {}

\* A call records pages that its process has mapped, and it erases the record of no
\* other page of its process.
CallsExact ==
    \A p \in Procs :
        /\ call[p].op \in {"none", "exited"} => call[p].old = {} /\ call[p].new = {}
        /\ call[p].op = "disown" => call[p].new = {}
        /\ \A g \in call[p].new : owner[g] = p
        /\ \A g \in Erasing(p) : owner[g] = p => g \in call[p].new

\* A page is recorded for the process that has it, or for one that has just given
\* it up and is about to erase the record.
Recorded ==
    \A g \in Pages, p \in Procs : pid[g] = p => owner[g] = p \/ g \in Erasing(p)

\* Apart from pages that a call is about to record or to erase, the record is right.
Settled ==
    \A g \in Pages :
        (\A p \in Procs : g \notin Erasing(p) \cup call[p].new) =>
            pid[g] = owner[g] \/ g \in erased

IInv == /\ TypeOK
        /\ Sane
        /\ VadsExact
        /\ ProtExact
        /\ FreeIsClosed
        /\ ContentKept
        /\ CallsExact
        /\ Recorded
        /\ Settled

-----------------------------------------------------------------------------
(***************************************************************************)
(* Numbers and lists of areas                                              *)
(***************************************************************************)
\* A set of naturals that is not empty has a least element.
LEMMA LeastNumber ==
    ASSUME NEW S \in SUBSET Nat, S # {}
    PROVE  Min(S) \in S /\ \A y \in S : Min(S) <= y
<1>1. PICK x \in S : \A y \in S : ~(<<y, x>> \in OpToRel(<, Nat))
  BY NatLessThanWellFounded, WFMin, Zenon
<1>2. \A y \in S : ~(y < x)
  BY <1>1 DEF OpToRel
<1>3. \A y \in S : x =< y
  BY <1>2
<1>4. QED
  BY <1>3 DEF Min

\* What an area is.
LEMMA AreaFacts ==
    ASSUME NEW V \in Lists, NEW v \in V
    PROVE  /\ v[1] \in Nat /\ v[2] \in Nat /\ v[1] < NumPages /\ v[2] <= NumPages
           /\ v[1] \in Pages /\ v[2] \in 1..NumPages
           /\ v = <<v[1], v[2]>>
  BY MmanAssumption DEF Lists, Pages

\* A page is covered if it lies in an area.
LEMMA CoveredFacts ==
    ASSUME NEW V \in Lists
    PROVE  /\ Covered(V) \subseteq Pages
           /\ \A g \in Int : g \in Covered(V) <=> \E v \in V : v[1] <= g /\ g < v[2]
<1>1. \A g : g \in Covered(V) <=> \E v \in V : g \in v[1]..(v[2] - 1)
  BY DEF Covered
<1>2. \A v \in V : v[1] \in Nat /\ v[2] \in Nat /\ v[1] < NumPages /\ v[2] <= NumPages
  BY AreaFacts
<1>3. \A g : g \in Covered(V) => g \in Pages
  BY <1>1, <1>2, MmanAssumption DEF Pages
<1>4. QED
  BY <1>1, <1>2, <1>3

\* Pages that follow each other and are covered are covered by one area.
LEMMA OneArea ==
    ASSUME NEW V \in Lists, Apart(V), NEW a \in Int, NEW e \in Int, a < e,
           \A g \in a..(e - 1) : g \in Covered(V)
    PROVE  \E v \in V : v[1] <= a /\ e <= v[2]
<1>1. PICK v \in V : v[1] <= a /\ a < v[2]
  BY CoveredFacts
<1>2. v[1] \in Nat /\ v[2] \in Nat
  BY AreaFacts
<1>3. ASSUME v[2] < e PROVE FALSE
  <2>1. v[2] \in Covered(V)
    BY <1>1, <1>2, <1>3
  <2>2. PICK w \in V : w[1] <= v[2] /\ v[2] < w[2]
    BY <2>1, <1>2, CoveredFacts
  <2>3. w[1] \in Nat /\ w[2] \in Nat
    BY AreaFacts
  <2>4. v = w \/ v[2] < w[1] \/ w[2] < v[1]
    BY DEF Apart
  <2>5. QED
    BY <1>1, <1>2, <2>2, <2>3, <2>4
<1>4. QED
  BY <1>1, <1>2, <1>3

\* the neighbours that a new area is merged with, and where the merged area begins
\* and ends
Touching(V, a, e) == {v \in V : v[2] = a \/ v[1] = e}
Start(V, a, e) == Min({v[1] : v \in {<<a, e>>} \cup Touching(V, a, e)})
End(V, a, e) == Max({v[2] : v \in {<<a, e>>} \cup Touching(V, a, e)})

\* Where the new area begins after the merge with its left neighbour.
LEMMA MergedStart ==
    ASSUME NEW V \in Lists, Apart(V), NEW a \in Nat, NEW e \in Nat, a < e
    PROVE  \/ Start(V, a, e) = a /\ \A v \in V : v[2] # a
           \/ \E l \in V : l[2] = a /\ Start(V, a, e) = l[1]
<1> DEFINE ends == {<<a, e>>} \cup Touching(V, a, e)
           S == {v[1] : v \in ends}
<1>0. \A v : v \in ends <=> v = <<a, e>> \/ (v \in V /\ (v[2] = a \/ v[1] = e))
  BY DEF Touching
<1> HIDE DEF ends
<1>1. \A v \in V : v[1] \in Nat /\ v[2] \in Nat /\ v[1] < v[2]
  BY AreaFacts DEF Apart
<1>2. S \in SUBSET Nat /\ a \in S
  <2>1. \A v \in ends : v[1] \in Nat
    BY <1>0, <1>1
  <2>2. <<a, e>> \in ends /\ <<a, e>>[1] = a
    BY <1>0
  <2>3. QED
    BY <2>1, <2>2
<1> HIDE DEF S
<1>3. Min(S) \in S /\ Min(S) <= a /\ \A y \in S : Min(S) <= y
  BY <1>2, LeastNumber
<1>4. PICK v \in ends : Min(S) = v[1]
  BY <1>3 DEF S
<1>5. CASE \E l \in V : l[2] = a
  <2>1. PICK l \in V : l[2] = a
    BY <1>5
  <2>2. l \in ends /\ l[1] < a
    BY <2>1, <1>0, <1>1
  <2>3. Min(S) <= l[1]
    BY <2>2, <1>3 DEF S
  <2>4. v # <<a, e>> /\ v[1] # e
    BY <2>2, <2>3, <1>0, <1>1, <1>4
  <2>5. v \in V /\ v[2] = a
    BY <2>4, <1>0, <1>4
  <2>6. QED
    BY <2>5, <1>4 DEF S, ends, Start
<1>6. CASE \A l \in V : l[2] # a
  <2>1. v = <<a, e>> \/ v[1] = e
    BY <1>0, <1>6
  <2>2. Min(S) = a
    BY <2>1, <1>3, <1>4
  <2>3. QED
    BY <2>2, <1>6 DEF S, ends, Start
<1>7. QED
  BY <1>5, <1>6

\* Where it ends after the merge with its right neighbour.
LEMMA MergedEnd ==
    ASSUME NEW V \in Lists, Apart(V), NEW a \in Nat, NEW e \in Nat, a < e
    PROVE  \/ End(V, a, e) = e /\ \A v \in V : v[1] # e
           \/ \E r \in V : r[1] = e /\ End(V, a, e) = r[2]
<1> DEFINE ends == {<<a, e>>} \cup Touching(V, a, e)
           S == {v[2] : v \in ends}
<1>0. \A v : v \in ends <=> v = <<a, e>> \/ (v \in V /\ (v[2] = a \/ v[1] = e))
  BY DEF Touching
<1> HIDE DEF ends
<1>1. \A v \in V : v[1] \in Nat /\ v[2] \in Nat /\ v[1] < v[2]
  BY AreaFacts DEF Apart
<1>2. \A y \in S : y \in Nat
  BY <1>0, <1>1
<1>3. ASSUME NEW x \in S, \A y \in S : y <= x PROVE Max(S) = x
  <2> HIDE DEF S
  <2>1. Max(S) \in S /\ \A y \in S : Max(S) >= y
    BY <1>2, <1>3 DEF Max
  <2>2. QED
    BY <2>1, <1>2, <1>3
<1>4. CASE \E r \in V : r[1] = e
  <2>1. PICK r \in V : r[1] = e
    BY <1>4
  <2>2. \A w \in V : w[1] = e => w = r
    BY <2>1, <1>1 DEF Apart
  <2>3. r[2] \in S /\ e < r[2]
    BY <2>1, <1>0, <1>1
  <2>4. \A v \in ends : v[2] <= r[2]
    BY <2>1, <2>2, <2>3, <1>0, <1>1
  <2>5. Max(S) = r[2]
    <3> HIDE DEF S
    <3>1. \A y \in S : y <= r[2]
      BY <2>4 DEF S
    <3>2. QED
      BY <3>1, <2>3, <1>3
  <2>6. QED
    BY <2>1, <2>5 DEF ends, End
<1>5. CASE \A r \in V : r[1] # e
  <2>1. \A v \in ends : v[2] <= e
    BY <1>0, <1>1, <1>5
  <2>2. e \in S
    <3>1. <<a, e>> \in ends /\ <<a, e>>[2] = e
      BY <1>0
    <3>2. QED
      BY <3>1
  <2>3. Max(S) = e
    <3> HIDE DEF S
    <3>1. \A y \in S : y <= e
      BY <2>1 DEF S
    <3>2. QED
      BY <3>1, <2>2, <1>3
  <2>4. QED
    BY <2>3, <1>5 DEF ends, End
<1>6. QED
  BY <1>4, <1>5

\* Inserting a free area: it is merged with what it touches, and the list covers
\* it and what it covered before.
LEMMA InsertFacts ==
    ASSUME NEW V \in Lists, Apart(V), NEW a \in Nat, NEW e \in Nat, a < e, e <= NumPages,
           \A g \in a..(e - 1) : g \notin Covered(V)
    PROVE  /\ Insert(V, a, e) \in Lists
           /\ Apart(Insert(V, a, e))
           /\ Covered(Insert(V, a, e)) = Covered(V) \cup a..(e - 1)
<1> DEFINE touching == {v \in V : v[2] = a \/ v[1] = e}
           lo == Start(V, a, e)
           hi == End(V, a, e)
           N == (V \ touching) \cup {<<lo, hi>>}
<1>1. Insert(V, a, e) = N
  BY DEF Insert, Touching, Start, End
<1>2. \A v \in V : /\ v[1] \in Nat /\ v[2] \in Nat /\ v[1] < v[2]
                   /\ v[2] <= NumPages /\ v = <<v[1], v[2]>>
  BY AreaFacts DEF Apart
<1>3. \/ lo = a /\ \A v \in V : v[2] # a
      \/ \E l \in V : l[2] = a /\ lo = l[1]
  BY MergedStart
<1>4. \/ hi = e /\ \A v \in V : v[1] # e
      \/ \E r \in V : r[1] = e /\ hi = r[2]
  BY MergedEnd
<1> HIDE DEF lo, hi
<1>5. lo \in Nat /\ hi \in Nat /\ lo <= a /\ e <= hi /\ hi <= NumPages
  BY <1>2, <1>3, <1>4
<1>6. \A v \in V : v[2] <= a \/ e <= v[1]
  <2> SUFFICES ASSUME NEW v \in V, a < v[2], v[1] < e PROVE FALSE
    BY <1>2
  <2>1. CASE v[1] <= a
    <3>1. a \in Covered(V)
      BY <1>2, <2>1, CoveredFacts
    <3>2. QED
      BY <3>1
  <2>2. CASE a < v[1]
    <3>1. v[1] \in Covered(V) /\ v[1] \in a..(e - 1)
      BY <1>2, <2>2, CoveredFacts
    <3>2. QED
      BY <3>1
  <2>3. QED
    BY <1>2, <2>1, <2>2
<1>7. \A v \in V \ touching : v[2] < lo \/ hi < v[1]
  <2> SUFFICES ASSUME NEW v \in V, v[2] # a, v[1] # e PROVE v[2] < lo \/ hi < v[1]
    OBVIOUS
  <2>1. \A w \in V : v = w \/ v[2] < w[1] \/ w[2] < v[1]
    BY DEF Apart
  <2>2. v[2] < a \/ e < v[1]
    BY <1>2, <1>6
  <2>3. CASE v[2] < a
    BY <1>2, <1>3, <2>1, <2>3
  <2>4. CASE e < v[1]
    BY <1>2, <1>4, <2>1, <2>4
  <2>5. QED
    BY <2>2, <2>3, <2>4
<1>8. N \in Lists
  <2>1. lo \in Pages /\ hi \in 1..NumPages
    BY <1>5, MmanAssumption DEF Pages
  <2>2. QED
    BY <2>1 DEF Lists
<1>9. <<lo, hi>>[1] = lo /\ <<lo, hi>>[2] = hi
  OBVIOUS
<1>10. Apart(N)
  <2>1. \A v \in N : v[1] < v[2]
    BY <1>2, <1>5, <1>9
  <2>2. \A v \in N : v \in V \ touching \/ v = <<lo, hi>>
    OBVIOUS
  <2>3. ASSUME NEW v \in N, NEW w \in N PROVE v = w \/ v[2] < w[1] \/ w[2] < v[1]
    <3>1. CASE v \in V \ touching /\ w \in V \ touching
      BY <3>1 DEF Apart
    <3>2. CASE v = <<lo, hi>> \/ w = <<lo, hi>>
      BY <3>2, <1>7, <1>9, <2>2
    <3>3. QED
      BY <3>1, <3>2, <2>2
  <2>4. QED
    BY <2>1, <2>3 DEF Apart
<1>11. ASSUME NEW g \in Int
       PROVE  g \in Covered(N) <=> g \in Covered(V) \/ g \in a..(e - 1)
  <2>1. g \in Covered(N) <=> \E v \in N : v[1] <= g /\ g < v[2]
    BY <1>8, CoveredFacts
  <2>2. g \in Covered(V) <=> \E v \in V : v[1] <= g /\ g < v[2]
    BY CoveredFacts
  <2>3. ASSUME NEW v \in touching, v[1] <= g, g < v[2] PROVE lo <= g /\ g < hi
    <3>1. CASE v[2] = a
      BY <2>3, <3>1, <1>2, <1>3, <1>5 DEF Apart
    <3>2. CASE v[1] = e
      BY <2>3, <3>2, <1>2, <1>4, <1>5 DEF Apart
    <3>3. QED
      BY <3>1, <3>2
  <2>4. ASSUME lo <= g, g < hi PROVE g \in a..(e - 1) \/ \E v \in V : v[1] <= g /\ g < v[2]
    BY <2>4, <1>2, <1>3, <1>4, <1>5
  <2>5. <<lo, hi>> \in N
    OBVIOUS
  <2>6. ASSUME g \in Covered(N) PROVE g \in Covered(V) \/ g \in a..(e - 1)
    BY <2>6, <2>1, <2>2, <2>4, <1>9
  <2>7. ASSUME g \in a..(e - 1) PROVE g \in Covered(N)
    <3>1. lo <= g /\ g < hi
      BY <2>7, <1>5
    <3>2. QED
      BY <3>1, <2>1, <2>5, <1>9
  <2>8. ASSUME g \in Covered(V) PROVE g \in Covered(N)
    <3>1. PICK v \in V : v[1] <= g /\ g < v[2]
      BY <2>8, <2>2
    <3>2. CASE v \in touching
      BY <3>1, <3>2, <2>1, <2>3, <2>5, <1>9
    <3>3. CASE v \notin touching
      <4>1. v \in N
        BY <3>3
      <4>2. QED
        BY <4>1, <3>1, <2>1
    <3>4. QED
      BY <3>2, <3>3
  <2>9. QED
    BY <2>6, <2>7, <2>8
<1>12. Covered(N) \subseteq Int /\ Covered(V) \subseteq Int /\ a..(e - 1) \subseteq Int
  <2> HIDE DEF N
  <2>1. Covered(N) \subseteq Pages /\ Covered(V) \subseteq Pages
    BY <1>8, CoveredFacts
  <2>2. Pages \subseteq Int
    BY MmanAssumption DEF Pages
  <2>3. a..(e - 1) \subseteq Int
    OBVIOUS
  <2>4. QED
    BY <2>1, <2>2, <2>3
<1>13. Covered(N) = Covered(V) \cup a..(e - 1)
  <2> HIDE DEF N
  <2>1. QED
    BY <1>11, <1>12
<1>14. QED
  BY <1>1, <1>8, <1>10, <1>13

\* Cutting a part out of an area leaves what is on its two sides.
LEMMA CutFacts ==
    ASSUME NEW V \in Lists, Apart(V), NEW v \in V, NEW a \in Nat, NEW e \in Nat,
           v[1] <= a, a < e, e <= v[2]
    PROVE  /\ Cut(V, v, a, e) \in Lists
           /\ Apart(Cut(V, v, a, e))
           /\ Covered(Cut(V, v, a, e)) = Covered(V) \ a..(e - 1)
<1> DEFINE N == Cut(V, v, a, e)
           l == <<v[1], a>>
           r == <<e, v[2]>>
<1>1. \A w \in V : /\ w[1] \in Nat /\ w[2] \in Nat /\ w[1] < w[2]
                   /\ w[2] <= NumPages
  BY AreaFacts DEF Apart
<1>2. l[1] = v[1] /\ l[2] = a /\ r[1] = e /\ r[2] = v[2]
  OBVIOUS
<1>3. \A w : w \in N <=> \/ w \in V /\ w # v
                         \/ w = l /\ v[1] < a
                         \/ w = r /\ e < v[2]
  BY <1>2 DEF Cut
<1> HIDE DEF N, l, r
<1>4. l \in Pages \X (1..NumPages) \/ ~(v[1] < a)
  BY <1>1, MmanAssumption DEF Pages, l
<1>5. r \in Pages \X (1..NumPages) \/ ~(e < v[2])
  BY <1>1, MmanAssumption DEF Pages, r
<1>6. N \in Lists
  BY <1>3, <1>4, <1>5 DEF Lists
<1>7. \A w \in V : w # v => w[2] < v[1] \/ v[2] < w[1]
  BY DEF Apart
<1>8. Apart(N)
  <2>1. \A w \in N : w[1] < w[2]
    BY <1>1, <1>2, <1>3
  <2>2. ASSUME NEW w \in N, NEW u \in N PROVE w = u \/ w[2] < u[1] \/ u[2] < w[1]
    <3>1. CASE w \in V /\ w # v /\ u \in V /\ u # v
      BY <3>1 DEF Apart
    <3>2. CASE w \in {l, r} /\ u \in {l, r}
      BY <3>2, <1>2
    <3>3. CASE w \in {l, r} /\ u \in V /\ u # v
      BY <3>3, <1>1, <1>2, <1>7
    <3>4. CASE u \in {l, r} /\ w \in V /\ w # v
      BY <3>4, <1>1, <1>2, <1>7
    <3>5. QED
      BY <3>1, <3>2, <3>3, <3>4, <1>3
  <2>3. QED
    BY <2>1, <2>2 DEF Apart
<1>9. ASSUME NEW g \in Int
      PROVE  g \in Covered(N) <=> g \in Covered(V) /\ g \notin a..(e - 1)
  <2>1. g \in Covered(N) <=> \E w \in N : w[1] <= g /\ g < w[2]
    BY <1>6, CoveredFacts
  <2>2. g \in Covered(V) <=> \E w \in V : w[1] <= g /\ g < w[2]
    BY CoveredFacts
  <2>3. ASSUME NEW w \in N, w[1] <= g, g < w[2] PROVE g \in Covered(V) /\ g \notin a..(e - 1)
    <3>1. CASE w \in V /\ w # v
      BY <3>1, <2>2, <2>3, <1>1, <1>7
    <3>2. CASE w \in {l, r}
      BY <3>2, <2>2, <2>3, <1>1, <1>2
    <3>3. QED
      BY <3>1, <3>2, <1>3
  <2>4. ASSUME NEW w \in V, w[1] <= g, g < w[2], g \notin a..(e - 1) PROVE g \in Covered(N)
    <3>1. CASE w # v
      BY <3>1, <2>1, <2>4, <1>3
    <3>2. CASE w = v
      <4>1. g < a \/ e <= g
        BY <2>4
      <4>2. CASE g < a
        BY <4>2, <3>2, <2>1, <2>4, <1>1, <1>2, <1>3
      <4>3. CASE e <= g
        BY <4>3, <3>2, <2>1, <2>4, <1>1, <1>2, <1>3
      <4>4. QED
        BY <4>1, <4>2, <4>3
    <3>3. QED
      BY <3>1, <3>2
  <2>5. QED
    BY <2>1, <2>2, <2>3, <2>4
<1>10. Covered(N) \subseteq Int /\ Covered(V) \subseteq Int
  BY <1>6, CoveredFacts, MmanAssumption DEF Pages
<1>11. Covered(N) = Covered(V) \ a..(e - 1)
  BY <1>9, <1>10
<1>12. QED
  BY <1>6, <1>8, <1>11 DEF N

\* The start of the list is not above any of its areas.
LEMMA TopFacts ==
    ASSUME NEW V \in Lists, Apart(V)
    PROVE  /\ Top(V) \in 0..NumPages
           /\ \A g \in Covered(V) : Top(V) <= g
           /\ \A b \in Int : b <= NumPages /\ (\A g \in Covered(V) : b <= g) => b <= Top(V)
<1>1. CASE V = {}
  <2>1. Covered(V) = {}
    BY <1>1, CoveredFacts DEF Covered
  <2>2. QED
    BY <1>1, <2>1, MmanAssumption DEF Top
<1>2. CASE V # {}
  <2> DEFINE S == {v[1] : v \in V}
  <2>1. \A v \in V : v[1] \in Nat /\ v[2] \in Nat /\ v[1] < NumPages /\ v[1] < v[2]
    BY AreaFacts DEF Apart
  <2>2. S \in SUBSET Nat /\ S # {}
    BY <1>2, <2>1
  <2>3. Top(V) = Min(S)
    BY <1>2 DEF Top
  <2> HIDE DEF S
  <2>4. Top(V) \in S /\ \A y \in S : Top(V) <= y
    BY <2>2, <2>3, LeastNumber
  <2>5. PICK v \in V : Top(V) = v[1]
    BY <2>4 DEF S
  <2>6. Top(V) \in 0..NumPages
    BY <2>1, <2>5, MmanAssumption
  <2>7. Top(V) \in Covered(V)
    BY <2>1, <2>5, CoveredFacts
  <2>8. ASSUME NEW g \in Covered(V) PROVE Top(V) <= g
    <3>1. g \in Int
      BY CoveredFacts, MmanAssumption DEF Pages
    <3>2. PICK w \in V : w[1] <= g
      BY <3>1, CoveredFacts
    <3>3. Top(V) <= w[1] /\ w[1] \in Nat
      BY <2>1, <2>4 DEF S
    <3>4. QED
      BY <3>1, <3>2, <3>3, <2>6
  <2>9. QED
    BY <2>6, <2>7, <2>8
<1>3. QED
  BY <1>1, <1>2

\* _get_right_gap: the pages of the gap are below the next area.
LEMMA RoomFacts ==
    ASSUME vads \in Lists, Apart(vads), NEW v \in vads, NEW n \in Nat, RightGap(v) >= n
    PROVE  /\ v[2] + n <= NumPages
           /\ \A w \in vads : w[2] <= v[2] \/ v[2] + n <= w[1]
<1>1. \A w \in vads : /\ w[1] \in Nat /\ w[2] \in Nat /\ w[1] < w[2]
                      /\ w[1] < NumPages /\ w[2] <= NumPages
  BY AreaFacts DEF Apart
<1> DEFINE after == {w[1] : w \in {x \in vads : x[1] >= v[2]}}
<1>2. RightGap(v) = (IF after = {} THEN NumPages ELSE Min(after)) - v[2]
  BY DEF RightGap
<1>3. \A w \in vads : w = v \/ v[2] < w[1] \/ w[2] < v[1]
  BY DEF Apart
<1>4. \A w \in vads : w[1] >= v[2] => w[1] \in after
  OBVIOUS
<1>5. after \in SUBSET Nat
  BY <1>1
<1>6. \A x \in after : x < NumPages
  BY <1>1
<1> HIDE DEF after
<1>7. v[2] + n <= NumPages /\ \A x \in after : v[2] + n <= x
  <2>1. CASE after = {}
    BY <2>1, <1>1, <1>2, MmanAssumption
  <2>2. CASE after # {}
    <3>1. Min(after) \in after /\ \A x \in after : Min(after) <= x
      BY <2>2, <1>5, LeastNumber
    <3>2. Min(after) \in Nat /\ Min(after) < NumPages
      BY <3>1, <1>5, <1>6
    <3>3. v[2] + n <= Min(after)
      BY <2>2, <3>2, <1>1, <1>2
    <3>4. \A x \in after : x \in Nat
      BY <1>5
    <3>5. v[2] \in Nat
      BY <1>1
    <3>6. QED
      BY <3>1, <3>2, <3>3, <3>4, <3>5, MmanAssumption
  <2>3. QED
    BY <2>1, <2>2
<1>8. QED
  BY <1>1, <1>3, <1>4, <1>7

\* What _mman_find_gap finds is free and lies above the break value.
LEMMA GapFacts ==
    ASSUME vads \in Lists, Apart(vads), brk \in Nat, brk <= map, map = Top(vads),
           NEW n \in Nat, n >= 1, NEW b \in FindGap(n)
    PROVE  /\ b \in Nat /\ brk <= b /\ b + n <= NumPages
           /\ \A g \in b..(b + n - 1) : g \notin Covered(vads)
<1>1. \A v \in vads : /\ v[1] \in Nat /\ v[2] \in Nat /\ v[1] < v[2]
                      /\ v[1] < NumPages /\ v[2] <= NumPages
  BY AreaFacts DEF Apart
<1>2. map \in 0..NumPages /\ \A g \in Covered(vads) : map <= g
  BY TopFacts
<1>3. \A v \in vads : v[1] \in Covered(vads)
  BY <1>1, CoveredFacts
<1>4. \A v \in vads : map <= v[1]
  BY <1>2, <1>3
<1>5. ASSUME b \in Nat, \A w \in vads : w[2] <= b \/ b + n <= w[1]
      PROVE  \A g \in b..(b + n - 1) : g \notin Covered(vads)
  <2> SUFFICES ASSUME NEW g \in b..(b + n - 1), g \in Covered(vads) PROVE FALSE
    OBVIOUS
  <2>1. g \in Int
    BY <1>5
  <2>2. PICK w \in vads : w[1] <= g /\ g < w[2]
    BY <2>1, CoveredFacts
  <2>3. QED
    BY <2>1, <2>2, <1>1, <1>5
<1> DEFINE starts == {v[2] : v \in {w \in vads : RightGap(w) >= n}}
<1>6. CASE starts # {}
  <2>1. b = Min(starts)
    BY <1>6 DEF FindGap
  <2>2. starts \in SUBSET Nat
    BY <1>1
  <2>3. b \in starts
    <3> HIDE DEF starts
    <3>1. QED
      BY <1>6, <2>1, <2>2, LeastNumber
  <2>4. PICK v \in vads : b = v[2] /\ RightGap(v) >= n
    BY <2>3
  <2>5. b + n <= NumPages /\ \A w \in vads : w[2] <= b \/ b + n <= w[1]
    BY <2>4, RoomFacts
  <2>6. b \in Nat /\ brk <= b
    BY <1>1, <1>2, <1>4, <2>4
  <2>7. QED
    BY <1>5, <2>5, <2>6
<1>7. CASE starts = {}
  <2>1. b = map - n /\ map - n >= brk
    BY <1>7 DEF FindGap
  <2>2. b \in Nat /\ brk <= b /\ b + n = map
    BY <2>1, <1>2
  <2>3. \A w \in vads : b + n <= w[1]
    BY <2>2, <1>4
  <2>4. QED
    BY <1>2, <1>5, <2>2, <2>3, MmanAssumption
<1>8. QED
  BY <1>6, <1>7

\* Every element of a set of pages lies in one of its runs.
LEMMA RunsCover ==
    ASSUME NEW S \in SUBSET Pages, NEW g \in S
    PROVE  \E r \in Runs(S) : r[1] <= g /\ g < r[2]
<1>1. g \in Nat /\ g < NumPages /\ \A x \in S : x \in Nat /\ x < NumPages
  BY MmanAssumption DEF Pages
<1> DEFINE up == {x \in Nat : g < x /\ x \notin S}
           down == {k \in Nat : g - k \notin S}
           e == Min(up)
           d == Min(down)
           r == <<g - d + 1, e>>
<1>2. e \in up /\ \A x \in up : e <= x
  <2>1. NumPages \in up
    BY <1>1, MmanAssumption
  <2> HIDE DEF up
  <2>2. up \in SUBSET Nat
    BY DEF up
  <2>3. QED
    BY <2>1, <2>2, LeastNumber
<1>3. d \in down /\ \A k \in down : d <= k
  <2>1. g + 1 \in down
    BY <1>1
  <2> HIDE DEF down
  <2>2. down \in SUBSET Nat
    BY DEF down
  <2>3. QED
    BY <2>1, <2>2, LeastNumber
<1>4. e \in Nat /\ g < e /\ e \notin S /\ \A x \in Nat : g < x /\ x < e => x \in S
  <2> HIDE DEF e
  <2>1. QED
    BY <1>1, <1>2
<1>5. d \in Nat /\ g - d \notin S /\ \A k \in Nat : k < d => g - k \in S
  <2> HIDE DEF d
  <2>1. QED
    BY <1>1, <1>3
<1> HIDE DEF d, e
<1>6. d >= 1 /\ d <= g + 1
  <2>1. d # 0
    BY <1>1, <1>5
  <2>2. ~(g + 1 < d)
    BY <1>1, <1>5
  <2>3. QED
    BY <1>1, <1>5, <2>1, <2>2
<1>7. e <= NumPages
  BY <1>1, <1>4, MmanAssumption
<1>8. r[1] = g - d + 1 /\ r[2] = e
  OBVIOUS
<1>9. r \in Pages \X (1..NumPages)
  BY <1>1, <1>4, <1>5, <1>6, <1>7, MmanAssumption DEF Pages
<1>10. ASSUME NEW x \in (g - d + 1)..(e - 1) PROVE x \in S
  <2>1. x \in Int
    BY <1>1, <1>4, <1>5
  <2>2. CASE g < x
    BY <2>1, <2>2, <1>1, <1>4
  <2>3. CASE x <= g
    <3>1. g - x \in Nat /\ g - x < d /\ g - (g - x) = x
      BY <2>1, <2>3, <1>1, <1>4, <1>5
    <3>2. QED
      BY <3>1, <1>5
  <2>4. QED
    BY <2>1, <2>2, <2>3, <1>1
<1>11. r \in Runs(S)
  BY <1>1, <1>4, <1>5, <1>6, <1>8, <1>9, <1>10 DEF Runs
<1>12. QED
  BY <1>11, <1>8, <1>1, <1>4, <1>5, <1>6

\* Unmapping a set of pages leaves the runs of what is left of each area.
LEMMA RunsFacts ==
    ASSUME NEW V \in Lists, Apart(V), NEW S \in SUBSET Pages,
           NEW N, N = UNION {Runs((v[1]..(v[2] - 1)) \ S) : v \in V}
    PROVE  N \in Lists /\ Apart(N) /\ Covered(N) = Covered(V) \ S
<1>1. \A v \in V : /\ v[1] \in Nat /\ v[2] \in Nat /\ v[1] < v[2]
                   /\ v[1] < NumPages /\ v[2] <= NumPages
  BY AreaFacts DEF Apart
<1>2. \A r : r \in N <=> \E v \in V : r \in Runs((v[1]..(v[2] - 1)) \ S)
  OBVIOUS
<1>3. \A r \in N : r \in Pages \X (1..NumPages) /\ r[1] < r[2]
  BY <1>2 DEF Runs
<1>4. N \in Lists
  BY <1>3 DEF Lists
<1>5. \A r \in N : r[1] \in Nat /\ r[2] \in Nat /\ r[1] < r[2]
  BY <1>3, MmanAssumption DEF Pages
<1>6. \A r \in N : \E v \in V :
          /\ \A x \in r[1]..(r[2] - 1) : v[1] <= x /\ x < v[2] /\ x \notin S
          /\ \A x \in {r[1] - 1, r[2]} : ~(v[1] <= x /\ x < v[2] /\ x \notin S)
  <2> SUFFICES ASSUME NEW r \in N, NEW v \in V, r \in Runs((v[1]..(v[2] - 1)) \ S)
               PROVE  /\ \A x \in r[1]..(r[2] - 1) : v[1] <= x /\ x < v[2] /\ x \notin S
                      /\ \A x \in {r[1] - 1, r[2]} : ~(v[1] <= x /\ x < v[2] /\ x \notin S)
    BY <1>2
  <2>1. /\ r[1]..(r[2] - 1) \subseteq (v[1]..(v[2] - 1)) \ S
        /\ r[1] - 1 \notin (v[1]..(v[2] - 1)) \ S /\ r[2] \notin (v[1]..(v[2] - 1)) \ S
    BY DEF Runs
  <2>2. QED
    BY <2>1, <1>1, <1>5
<1>7. ASSUME NEW r \in N, NEW q \in N PROVE r = q \/ r[2] < q[1] \/ q[2] < r[1]
  <2>1. PICK v \in V :
          /\ \A x \in r[1]..(r[2] - 1) : v[1] <= x /\ x < v[2] /\ x \notin S
          /\ \A x \in {r[1] - 1, r[2]} : ~(v[1] <= x /\ x < v[2] /\ x \notin S)
    BY <1>6
  <2>2. PICK w \in V :
          /\ \A x \in q[1]..(q[2] - 1) : w[1] <= x /\ x < w[2] /\ x \notin S
          /\ \A x \in {q[1] - 1, q[2]} : ~(w[1] <= x /\ x < w[2] /\ x \notin S)
    BY <1>6
  <2>3. /\ v[1] <= r[1] /\ r[2] <= v[2] /\ w[1] <= q[1] /\ q[2] <= w[2]
    <3>1. r[1] \in r[1]..(r[2] - 1) /\ r[2] - 1 \in r[1]..(r[2] - 1)
      BY <1>5
    <3>2. q[1] \in q[1]..(q[2] - 1) /\ q[2] - 1 \in q[1]..(q[2] - 1)
      BY <1>5
    <3>3. QED
      BY <3>1, <3>2, <2>1, <2>2, <1>1, <1>5
  <2>4. CASE v # w
    <3>1. v[2] < w[1] \/ w[2] < v[1]
      BY <2>4 DEF Apart
    <3>2. r[1] \in Nat /\ r[2] \in Nat /\ q[1] \in Nat /\ q[2] \in Nat
      BY <1>5
    <3>3. v[1] \in Nat /\ v[2] \in Nat /\ w[1] \in Nat /\ w[2] \in Nat
      BY <1>1
    <3>4. QED
      BY <3>1, <3>2, <3>3, <2>3
  <2>5. CASE v = w
    <3>1. CASE r[1] < q[1]
      <4>1. ~(q[1] - 1 \in r[1]..(r[2] - 1))
        BY <2>1, <2>2, <2>5
      <4>2. QED
        BY <3>1, <4>1, <1>5
    <3>2. CASE q[1] < r[1]
      <4>1. ~(r[1] - 1 \in q[1]..(q[2] - 1))
        BY <2>1, <2>2, <2>5
      <4>2. QED
        BY <3>2, <4>1, <1>5
    <3>3. CASE q[1] = r[1]
      <4>1. ~(r[2] \in q[1]..(q[2] - 1)) /\ ~(q[2] \in r[1]..(r[2] - 1))
        BY <2>1, <2>2, <2>5
      <4>2. r[2] = q[2]
        BY <3>3, <4>1, <1>5
      <4>3. r = <<r[1], r[2]>> /\ q = <<q[1], q[2]>>
        BY <1>4, AreaFacts
      <4>4. QED
        BY <3>3, <4>2, <4>3
    <3>4. QED
      BY <3>1, <3>2, <3>3, <1>5
  <2>6. QED
    BY <2>4, <2>5
<1>8. Apart(N)
  BY <1>5, <1>7 DEF Apart
<1>9. ASSUME NEW g \in Int PROVE g \in Covered(N) <=> g \in Covered(V) /\ g \notin S
  <2>1. g \in Covered(N) <=> \E r \in N : r[1] <= g /\ g < r[2]
    BY <1>4, CoveredFacts
  <2>2. g \in Covered(V) <=> \E v \in V : v[1] <= g /\ g < v[2]
    BY CoveredFacts
  <2>3. ASSUME NEW r \in N, r[1] <= g, g < r[2] PROVE g \in Covered(V) /\ g \notin S
    <3>1. g \in r[1]..(r[2] - 1)
      BY <2>3, <1>5
    <3>2. QED
      BY <3>1, <1>6, <2>2
  <2>4. ASSUME NEW v \in V, v[1] <= g, g < v[2], g \notin S PROVE g \in Covered(N)
    <3> DEFINE T == (v[1]..(v[2] - 1)) \ S
    <3>1. g \in T /\ T \in SUBSET Pages
      BY <2>4, <1>1, MmanAssumption DEF Pages
    <3>2. \E r \in Runs(T) : r[1] <= g /\ g < r[2]
      <4> HIDE DEF T
      <4>1. QED
        BY <3>1, RunsCover
    <3>3. QED
      BY <3>2, <1>2, <2>1
  <2>5. QED
    BY <2>1, <2>2, <2>3, <2>4
<1>10. Covered(N) \subseteq Int /\ Covered(V) \subseteq Int
  <2>1. Covered(N) \subseteq Pages /\ Covered(V) \subseteq Pages
    BY <1>4, CoveredFacts
  <2>2. Pages \subseteq Int
    BY MmanAssumption DEF Pages
  <2>3. QED
    BY <2>1, <2>2
<1>11. Covered(N) = Covered(V) \ S
  BY <1>9, <1>10
<1>12. QED
  BY <1>4, <1>8, <1>11
-----------------------------------------------------------------------------
(***************************************************************************)
(* What the steps share                                                    *)
(***************************************************************************)
\* The list as the lemmas above want it; no mapped page is part of the heap.
LEMMA InvFacts ==
    ASSUME IInv
    PROVE  /\ vads \in Lists /\ Apart(vads)
           /\ brk \in Nat /\ brk <= map /\ brk <= NumPages /\ map = Top(vads)
           /\ Covered(vads) = {g \in Pages : owner[g] # Nobody}
           /\ \A g \in Pages : owner[g] # Nobody => brk <= g
<1>1. vads \in Lists /\ Apart(vads)
  BY DEF IInv, TypeOK, Sane, Lists, Apart
<1>2. brk \in Nat /\ map \in Nat /\ brk <= map /\ brk <= NumPages /\ map = Top(vads)
  BY MmanAssumption DEF IInv, TypeOK, Sane
<1>3. Covered(vads) = {g \in Pages : owner[g] # Nobody}
  BY DEF IInv, VadsExact
<1>4. \A g \in Covered(vads) : map <= g
  BY <1>1, <1>2, TopFacts
<1>5. \A g \in Pages : g \in Nat
  BY MmanAssumption DEF Pages
<1>6. \A g \in Pages : owner[g] # Nobody => map <= g
  BY <1>3, <1>4
<1>7. QED
  BY <1>1, <1>2, <1>3, <1>5, <1>6

\* A new list that covers what is mapped now is as it should be.
LEMMA AreasNew ==
    ASSUME IInv, vads' \in Lists, Apart(vads'), map' = Top(vads'), brk' = brk,
           Covered(vads') = {g \in Pages : owner'[g] # Nobody},
           \A g \in Pages : owner'[g] # Nobody => brk <= g
    PROVE  Sane' /\ VadsExact' /\ map' \in 0..NumPages /\ brk' \in 0..NumPages
<1>1. brk \in Nat /\ brk <= NumPages
  BY InvFacts
<1>2. /\ Top(vads') \in 0..NumPages
      /\ (\A g \in Covered(vads') : brk <= g) => brk <= Top(vads')
  BY <1>1, TopFacts
<1>3. brk' <= map'
  BY <1>2
<1>4. \A v \in vads' : v[1] < v[2] /\ v[2] <= NumPages
  BY AreaFacts DEF Apart
<1>5. Sane'
  BY <1>3, <1>4 DEF Sane, Apart
<1>6. QED
  BY <1>1, <1>2, <1>5, MmanAssumption DEF VadsExact

\* The start of a call: it will record what it maps, and erase the record of what
\* it has unmapped.
LEMMA CallStart ==
    ASSUME IInv, NEW p \in Procs, call[p] = Idle, pid' = pid,
           \A q \in Procs : q # p => call'[q] = call[q],
           call'[p].op \in {"own", "disown", "move"},
           call'[p].op = "own" => call'[p].old = {},
           call'[p].op = "disown" => call'[p].new = {},
           \A g \in Pages :
               \/ owner'[g] = owner[g]
               \/ owner[g] = p /\ owner'[g] = Nobody /\ g \in call'[p].old
               \/ owner[g] = Nobody /\ owner'[g] = p /\ g \in call'[p].new,
           \A g \in call'[p].new : owner'[g] = p,
           \A g \in call'[p].old : owner'[g] = p => g \in call'[p].new,
           \A g \in erased : g \in erased' \/ g \in call'[p].new
    PROVE  CallsExact' /\ Recorded' /\ Settled'
<1>1. p # Nobody /\ Nobody \notin Procs
  BY MmanAssumption
<1>2. \A q \in Procs : q # p => call'[q] = call[q]
  OBVIOUS
<1>3. /\ Erasing(p)' = call'[p].old
      /\ \A q \in Procs : q # p => Erasing(q)' = Erasing(q)
  BY <1>2 DEF Erasing
<1>4. Erasing(p) = {} /\ call[p].new = {}
  BY DEF Erasing, Idle
<1>5. \A q \in Procs : Erasing(q) \subseteq Pages /\ call[q].new \subseteq Pages
  BY DEF Erasing, IInv, TypeOK
<1>6. CallsExact'
  <2> SUFFICES ASSUME NEW q \in Procs
               PROVE  /\ call'[q].op \in {"none", "exited"} =>
                            call'[q].old = {} /\ call'[q].new = {}
                      /\ call'[q].op = "disown" => call'[q].new = {}
                      /\ \A g \in call'[q].new : owner'[g] = q
                      /\ \A g \in Erasing(q)' : owner'[g] = q => g \in call'[q].new
    BY DEF CallsExact, Erasing
  <2>1. CASE q = p
    BY <2>1, <1>2, <1>3
  <2>2. CASE q # p
    <3>1. /\ call[q].op \in {"none", "exited"} => call[q].old = {} /\ call[q].new = {}
          /\ call[q].op = "disown" => call[q].new = {}
          /\ \A g \in call[q].new : owner[g] = q
          /\ \A g \in Erasing(q) : owner[g] = q => g \in call[q].new
      BY DEF IInv, CallsExact
    <3>2. \A g \in Pages : owner'[g] = q <=> owner[g] = q
      BY <1>1, <2>2
    <3>3. QED
      BY <3>1, <3>2, <2>2, <1>2, <1>3, <1>5
  <2>3. QED
    BY <2>1, <2>2
<1>7. Recorded'
  <2> SUFFICES ASSUME NEW g \in Pages, NEW q \in Procs, pid[g] = q
               PROVE  owner'[g] = q \/ g \in Erasing(q)'
    BY DEF Recorded, Erasing
  <2>1. owner[g] = q \/ g \in Erasing(q)
    BY DEF IInv, Recorded
  <2>2. CASE q = p
    BY <2>1, <2>2, <1>1, <1>3, <1>4
  <2>3. CASE q # p
    BY <2>1, <2>3, <1>1, <1>3
  <2>4. QED
    BY <2>2, <2>3
<1>8. Settled'
  <2> SUFFICES ASSUME NEW g \in Pages, \A q \in Procs : g \notin Erasing(q)' \cup call'[q].new
               PROVE  pid[g] = owner'[g] \/ g \in erased'
    BY DEF Settled, Erasing
  <2>1. \A q \in Procs : g \notin Erasing(q) \cup call[q].new
    BY <1>2, <1>3, <1>4
  <2>2. pid[g] = owner[g] \/ g \in erased
    BY <2>1 DEF IInv, Settled
  <2>3. g \notin call'[p].old /\ g \notin call'[p].new
    BY <1>2, <1>3
  <2>4. QED
    BY <2>2, <2>3
<1>9. QED
  BY <1>6, <1>7, <1>8

\* Steps inside no call leave the records alone.
LEMMA RecordsKept ==
    ASSUME IInv, UNCHANGED <<pid, call, owner, erased>>
    PROVE  CallsExact' /\ Recorded' /\ Settled'
<1>1. \A p : Erasing(p)' = Erasing(p)
  BY DEF Erasing
<1>2. CallsExact'
  BY <1>1 DEF IInv, CallsExact
<1>3. Recorded'
  BY <1>1 DEF IInv, Recorded
<1>4. Settled'
  BY <1>1 DEF IInv, Settled
<1>5. QED
  BY <1>2, <1>3, <1>4

\* The pages of S hold zeros or wait for them, all others are as before.
Filled(S) ==
    /\ prot' \in [Pages -> Prots] /\ host' = prot'
    /\ mem' \in [Pages -> Procs \cup {Nobody, Zero}]
    /\ pending' \in SUBSET Pages
    /\ \A g \in pending' : prot'[g] = "none" /\ (g \in S \/ g \in pending)
    /\ \A g \in S : g \in pending' \/ mem'[g] = Zero
    /\ \A g \in Pages \ S : /\ prot'[g] = prot[g] /\ mem'[g] = mem[g]
                            /\ g \in pending' <=> g \in pending

\* What the end of _mmap does.
LEMMA FillFacts ==
    ASSUME IInv, NEW S \in SUBSET Pages, NEW pr \in Prots, FillNew(S, pr)
    PROVE  Filled(S)
<1> USE DEF Filled
<1>1. /\ prot \in [Pages -> Prots] /\ host = prot /\ pending \subseteq Pages
      /\ mem \in [Pages -> Procs \cup {Nobody, Zero}]
      /\ \A g \in pending : prot[g] = "none"
  BY DEF IInv, TypeOK, ProtExact
<1>2. prot' = Set(prot, S, pr) /\ host' = Set(host, S, pr)
  BY DEF FillNew
<1>3. /\ prot' \in [Pages -> Prots] /\ host' = prot'
      /\ \A g \in Pages : prot'[g] = IF g \in S THEN pr ELSE prot[g]
  BY <1>1, <1>2 DEF Set
<1>4. CASE pr = "none"
  <2>1. pending' = pending \cup S /\ mem' = mem
    BY <1>4 DEF FillNew
  <2>2. QED
    BY <1>1, <1>3, <1>4, <2>1
<1>5. CASE pr # "none"
  <2>1. pending' = pending \ S /\ mem' = Set(mem, S, Zero)
    BY <1>5 DEF FillNew
  <2>2. /\ mem' \in [Pages -> Procs \cup {Nobody, Zero}]
        /\ \A g \in Pages : mem'[g] = IF g \in S THEN Zero ELSE mem[g]
    BY <1>1, <2>1 DEF Set
  <2>3. QED
    BY <1>1, <1>3, <2>1, <2>2
<1>6. QED
  BY <1>4, <1>5

\* Everything starts free and inaccessible.
LEMMA InitInv == Init => IInv
<1> SUFFICES ASSUME Init PROVE IInv
  OBVIOUS
<1> USE DEF Init
<1>1. TypeOK
  BY MmanAssumption DEF TypeOK, Prots, Idle
<1>2. Sane
  BY MmanAssumption DEF Sane, Top
<1>3. VadsExact
  BY DEF VadsExact, Covered
<1>4. ProtExact /\ FreeIsClosed /\ ContentKept
  BY DEF ProtExact, FreeIsClosed, ContentKept
<1>5. CallsExact
  BY DEF CallsExact, Erasing, Idle
<1>6. Recorded /\ Settled
  BY MmanAssumption DEF Recorded, Settled
<1>7. QED
  BY <1>1, <1>2, <1>3, <1>4, <1>5, <1>6 DEF IInv
-----------------------------------------------------------------------------
(***************************************************************************)
(* The actions                                                             *)
(***************************************************************************)
\* a request of at least one page
LEMMA LengthFacts ==
    ASSUME NEW n \in Lengths
    PROVE  n \in Nat /\ n >= 1
  BY MmanAssumption DEF Lengths

\* Pages are mapped: free ones above the break value, which hold zeros or wait for
\* them.
LEMMA Mapped ==
    ASSUME IInv, NEW p \in Procs, NEW S \in SUBSET Pages,
           \A g \in S : owner[g] = Nobody /\ brk <= g,
           owner' = Set(owner, S, p), want' = Set(want, S, Zero),
           lostcopy' = lostcopy \ S, erased' = erased \ S, brk' = brk, pid' = pid,
           vads' \in Lists, Apart(vads'), Covered(vads') = Covered(vads) \cup S,
           map' = Top(vads'),
           Filled(S),
           call' \in [Procs -> [op : {"none", "own", "disown", "move", "exited"},
                                old : SUBSET Pages, new : SUBSET Pages]]
    PROVE  TypeOK' /\ Sane' /\ VadsExact' /\ ProtExact' /\ FreeIsClosed' /\ ContentKept'
<1>1. /\ owner \in [Pages -> Procs \cup {Nobody}] /\ want \in [Pages -> Procs \cup {Zero}]
      /\ lostcopy \subseteq Pages /\ erased \subseteq Pages /\ p # Nobody
  BY MmanAssumption DEF IInv, TypeOK
<1>2. /\ owner' \in [Pages -> Procs \cup {Nobody}]
      /\ \A g \in Pages : owner'[g] = IF g \in S THEN p ELSE owner[g]
  BY <1>1 DEF Set
<1>3. /\ want' \in [Pages -> Procs \cup {Zero}]
      /\ \A g \in Pages : want'[g] = IF g \in S THEN Zero ELSE want[g]
  BY <1>1 DEF Set
<1>4. Sane' /\ VadsExact' /\ map' \in 0..NumPages /\ brk' \in 0..NumPages
  <2>1. Covered(vads') = {g \in Pages : owner'[g] # Nobody}
    BY <1>1, <1>2, InvFacts
  <2>2. \A g \in Pages : owner'[g] # Nobody => brk <= g
    BY <1>2, InvFacts
  <2>3. QED
    BY <2>1, <2>2, AreasNew
<1>5. TypeOK'
  <2>1. pid' \in [Pages -> Procs \cup {Nobody}]
    BY DEF IInv, TypeOK
  <2>2. lostcopy' \subseteq Pages /\ erased' \subseteq Pages
    BY <1>1
  <2>3. QED
    BY <2>1, <2>2, <1>2, <1>3, <1>4 DEF TypeOK, Lists, Filled
<1>6. ProtExact'
  <2>1. \A g \in pending : owner[g] # Nobody
    BY DEF IInv, ProtExact
  <2>2. QED
    BY <2>1, <1>1, <1>2 DEF ProtExact, Filled
<1>7. FreeIsClosed'
  <2>1. \A g \in Pages : owner[g] = Nobody /\ brk <= g => prot[g] = "none"
    BY DEF IInv, FreeIsClosed
  <2>2. QED
    BY <2>1, <1>1, <1>2 DEF FreeIsClosed, Filled
<1>8. ContentKept'
  <2> SUFFICES ASSUME NEW g \in Pages, owner'[g] # Nobody, g \notin lostcopy'
               PROVE  Content(g)' = want'[g]
    BY DEF ContentKept
  <2>1. CASE g \in S
    BY <2>1, <1>3 DEF Content, Filled
  <2>2. CASE g \notin S
    <3>1. Content(g) = want[g]
      BY <2>2, <1>2 DEF IInv, ContentKept
    <3>2. QED
      BY <3>1, <2>2, <1>3 DEF Content, Filled
  <2>3. QED
    BY <2>1, <2>2
<1>9. QED
  BY <1>4, <1>5, <1>6, <1>7, <1>8

\* mmap takes a gap, which is free, and fills it.
LEMMA MmapInv ==
    ASSUME IInv, NEW p \in Procs, NEW n \in Lengths, NEW pr \in Prots, Mmap(p, n, pr)
    PROVE  IInv'
<1>1. PICK a \in FindGap(n) :
          /\ vads' = Insert(vads, a, a + n)
          /\ map' = Top(vads')
          /\ FillNew(Area(a, n), pr)
          /\ call' = [call EXCEPT ![p] = [op |-> "own", old |-> {}, new |-> Area(a, n)]]
          /\ owner' = Set(owner, Area(a, n), p)
          /\ want' = Set(want, Area(a, n), Zero)
          /\ lostcopy' = lostcopy \ Area(a, n)
          /\ erased' = erased \ Area(a, n)
  BY DEF Mmap
<1>2. call[p] = Idle /\ brk' = brk /\ pid' = pid
  BY DEF Mmap, MayCall
<1> DEFINE S == Area(a, n)
<1>3. n \in Nat /\ n >= 1
  BY LengthFacts
<1>4. /\ a \in Nat /\ brk <= a /\ a + n <= NumPages
      /\ \A g \in a..(a + n - 1) : g \notin Covered(vads)
  BY <1>3, InvFacts, GapFacts
<1>5. S = a..(a + n - 1) /\ S \in SUBSET Pages /\ \A g \in S : brk <= g
  BY <1>3, <1>4, InvFacts, MmanAssumption DEF Area, Pages
<1>6. \A g \in S : owner[g] = Nobody
  BY <1>4, <1>5, InvFacts
<1>7. /\ vads' \in Lists /\ Apart(vads')
      /\ Covered(vads') = Covered(vads) \cup S
  BY <1>1, <1>3, <1>4, <1>5, InvFacts, InsertFacts
<1>8. /\ FillNew(S, pr) /\ lostcopy' = lostcopy \ S /\ erased' = erased \ S
      /\ owner' = Set(owner, S, p) /\ want' = Set(want, S, Zero) /\ map' = Top(vads')
      /\ call' = [call EXCEPT ![p] = [op |-> "own", old |-> {}, new |-> S]]
  BY <1>1
<1> HIDE DEF S
<1>9. Filled(S)
  BY <1>5, <1>8, FillFacts
<1>10. /\ call'[p] = [op |-> "own", old |-> {}, new |-> S]
       /\ \A q \in Procs : q # p => call'[q] = call[q]
       /\ call' \in [Procs -> [op : {"none", "own", "disown", "move", "exited"},
                               old : SUBSET Pages, new : SUBSET Pages]]
  BY <1>5, <1>8 DEF IInv, TypeOK
<1>11. TypeOK' /\ Sane' /\ VadsExact' /\ ProtExact' /\ FreeIsClosed' /\ ContentKept'
  BY <1>2, <1>5, <1>6, <1>7, <1>8, <1>9, <1>10, Mapped
<1>12. CallsExact' /\ Recorded' /\ Settled'
  <2>0. \A g \in Pages : owner'[g] = IF g \in S THEN p ELSE owner[g]
    BY <1>8 DEF Set, IInv, TypeOK
  <2>1. \A g \in erased : g \in erased' \/ g \in S
    BY <1>8
  <2>2. \A g \in Pages : owner'[g] = owner[g] \/ (owner[g] = Nobody /\ owner'[g] = p /\ g \in S)
    BY <2>0, <1>6
  <2>3. \A g \in S : owner'[g] = p
    BY <2>0, <1>5
  <2>4. QED
    BY <2>1, <2>2, <2>3, <1>2, <1>10, CallStart
<1>13. QED
  BY <1>11, <1>12 DEF IInv

\* mmap with MAP_FIXED fills pages of the process anew and leaves the list alone.
LEMMA MmapFixedInv ==
    ASSUME IInv, NEW p \in Procs, NEW a \in Pages, NEW n \in Lengths, NEW pr \in Prots,
           MmapFixed(p, a, n, pr)
    PROVE  IInv'
<1> DEFINE S == Area(a, n)
<1>1. /\ FillNew(S, pr)
      /\ want' = Set(want, S, Zero)
      /\ lostcopy' = lostcopy \ S
      /\ call' = [call EXCEPT ![p] = [op |-> "own", old |-> {}, new |-> S]]
      /\ UNCHANGED <<brk, map, vads, pid, owner, erased>>
  BY DEF MmapFixed
<1>2. call[p] = Idle /\ S \in SUBSET Pages /\ \A g \in S : owner[g] = p
  BY DEF MmapFixed, MayCall, Owns
<1> HIDE DEF S
<1>3. want \in [Pages -> Procs \cup {Zero}] /\ lostcopy \subseteq Pages
  BY DEF IInv, TypeOK
<1>4. /\ want' \in [Pages -> Procs \cup {Zero}]
      /\ \A g \in Pages : want'[g] = IF g \in S THEN Zero ELSE want[g]
  BY <1>1, <1>3 DEF Set
<1>5. /\ prot' \in [Pages -> Prots] /\ host' = prot'
      /\ mem' \in [Pages -> Procs \cup {Nobody, Zero}]
      /\ pending' \in SUBSET Pages
      /\ \A g \in pending' : prot'[g] = "none" /\ (g \in S \/ g \in pending)
      /\ \A g \in S : g \in pending' \/ mem'[g] = Zero
      /\ \A g \in Pages \ S : /\ prot'[g] = prot[g] /\ mem'[g] = mem[g]
                              /\ g \in pending' <=> g \in pending
  BY <1>1, <1>2, FillFacts DEF Filled
<1>6. TypeOK'
  <2>1. call' \in [Procs -> [op : {"none", "own", "disown", "move", "exited"},
                             old : SUBSET Pages, new : SUBSET Pages]]
    BY <1>1, <1>2 DEF IInv, TypeOK
  <2>2. QED
    BY <2>1, <1>1, <1>3, <1>4, <1>5 DEF IInv, TypeOK
<1>7. Sane' /\ VadsExact'
  BY <1>1 DEF IInv, Sane, VadsExact
<1>8. p # Nobody
  BY MmanAssumption
<1>9. ProtExact' /\ FreeIsClosed'
  <2>1. ProtExact'
    BY <1>1, <1>2, <1>5, <1>8 DEF IInv, ProtExact
  <2>2. FreeIsClosed'
    BY <1>1, <1>2, <1>5, <1>8 DEF IInv, FreeIsClosed
  <2>3. QED
    BY <2>1, <2>2
<1>10. ContentKept'
  <2> SUFFICES ASSUME NEW g \in Pages, owner[g] # Nobody, g \notin lostcopy'
               PROVE  Content(g)' = want'[g]
    BY <1>1 DEF ContentKept
  <2>1. CASE g \in S
    BY <2>1, <1>4, <1>5 DEF Content
  <2>2. CASE g \notin S
    <3>1. Content(g) = want[g]
      BY <2>2, <1>1 DEF IInv, ContentKept
    <3>2. QED
      BY <3>1, <2>2, <1>4, <1>5 DEF Content
  <2>3. QED
    BY <2>1, <2>2
<1>11. CallsExact' /\ Recorded' /\ Settled'
  <2>1. /\ call'[p] = [op |-> "own", old |-> {}, new |-> S]
        /\ \A q \in Procs : q # p => call'[q] = call[q]
    BY <1>1 DEF IInv, TypeOK
  <2>2. owner' = owner /\ pid' = pid /\ erased' = erased
    BY <1>1
  <2>3. QED
    BY <2>1, <2>2, <1>2, CallStart
<1>12. QED
  BY <1>6, <1>7, <1>9, <1>10, <1>11 DEF IInv

\* Pages are unmapped: they become inaccessible and nobody's.
LEMMA Unmapped ==
    ASSUME IInv, NEW S \in SUBSET Pages,
           prot' = Set(prot, S, "none"), host' = Set(host, S, "none"),
           pending' = pending \ S, owner' = Set(owner, S, Nobody),
           lostcopy' = lostcopy \ S, UNCHANGED <<brk, mem, want>>,
           vads' \in Lists, Apart(vads'), Covered(vads') = Covered(vads) \ S,
           map' = Top(vads'),
           pid' \in [Pages -> Procs \cup {Nobody}], erased' \subseteq Pages,
           call' \in [Procs -> [op : {"none", "own", "disown", "move", "exited"},
                                old : SUBSET Pages, new : SUBSET Pages]]
    PROVE  /\ TypeOK' /\ Sane' /\ VadsExact' /\ ProtExact' /\ FreeIsClosed' /\ ContentKept'
           /\ owner' \in [Pages -> Procs \cup {Nobody}]
           /\ \A g \in Pages : owner'[g] = IF g \in S THEN Nobody ELSE owner[g]
<1>1. /\ prot \in [Pages -> Prots] /\ host = prot /\ pending \subseteq Pages
      /\ owner \in [Pages -> Procs \cup {Nobody}]
      /\ mem \in [Pages -> Procs \cup {Nobody, Zero}] /\ want \in [Pages -> Procs \cup {Zero}]
      /\ lostcopy \subseteq Pages
  BY DEF IInv, TypeOK, ProtExact
<1>2. "none" \in Prots
  BY DEF Prots
<1>3. /\ prot' \in [Pages -> Prots] /\ host' = prot'
      /\ \A g \in Pages : prot'[g] = IF g \in S THEN "none" ELSE prot[g]
  BY <1>1, <1>2 DEF Set
<1>4. /\ owner' \in [Pages -> Procs \cup {Nobody}]
      /\ \A g \in Pages : owner'[g] = IF g \in S THEN Nobody ELSE owner[g]
  BY <1>1 DEF Set
<1>5. Sane' /\ VadsExact' /\ map' \in 0..NumPages /\ brk' \in 0..NumPages
  <2>1. Covered(vads') = {g \in Pages : owner'[g] # Nobody}
    BY <1>4, InvFacts
  <2>2. \A g \in Pages : owner'[g] # Nobody => brk <= g
    BY <1>4, InvFacts
  <2>3. QED
    BY <2>1, <2>2, AreasNew
<1>6. TypeOK'
  BY <1>1, <1>3, <1>4, <1>5 DEF TypeOK, Lists
<1>7. ProtExact'
  BY <1>1, <1>3, <1>4 DEF IInv, ProtExact
<1>8. FreeIsClosed'
  BY <1>3, <1>4 DEF IInv, FreeIsClosed
<1>9. ContentKept'
  BY <1>4 DEF IInv, ContentKept, Content
<1>10. QED
  BY <1>4, <1>5, <1>6, <1>7, <1>8, <1>9

\* munmap cuts the area out of the VAD it lies in.
LEMMA MunmapInv ==
    ASSUME IInv, NEW p \in Procs, NEW a \in Pages, NEW n \in Lengths, Munmap(p, a, n)
    PROVE  IInv'
<1> DEFINE S == Area(a, n)
<1>1. PICK v \in VadOf(a) : a + n <= v[2] /\ vads' = Cut(vads, v, a, a + n)
  BY DEF Munmap
<1>2. /\ prot' = Set(prot, S, "none") /\ host' = Set(host, S, "none")
      /\ pending' = pending \ S /\ owner' = Set(owner, S, Nobody)
      /\ lostcopy' = lostcopy \ S /\ map' = Top(vads')
      /\ call' = [call EXCEPT ![p] = [op |-> "disown", old |-> S, new |-> {}]]
      /\ UNCHANGED <<brk, mem, pid, want, erased>>
  BY DEF Munmap
<1>3. call[p] = Idle /\ S \in SUBSET Pages /\ \A g \in S : owner[g] = p
  BY DEF Munmap, MayCall, Owns
<1>4. a \in Nat /\ n \in Nat /\ n >= 1
  BY LengthFacts, MmanAssumption DEF Pages
<1>5. /\ vads' \in Lists /\ Apart(vads')
      /\ Covered(vads') = Covered(vads) \ S
  BY <1>1, <1>4, InvFacts, CutFacts DEF VadOf, Area
<1> HIDE DEF S
<1>6. call' \in [Procs -> [op : {"none", "own", "disown", "move", "exited"},
                           old : SUBSET Pages, new : SUBSET Pages]]
  BY <1>2, <1>3 DEF IInv, TypeOK
<1>7. pid' \in [Pages -> Procs \cup {Nobody}] /\ erased' \subseteq Pages
  BY <1>2 DEF IInv, TypeOK
<1>8. /\ TypeOK' /\ Sane' /\ VadsExact' /\ ProtExact' /\ FreeIsClosed' /\ ContentKept'
      /\ \A g \in Pages : owner'[g] = IF g \in S THEN Nobody ELSE owner[g]
  BY <1>2, <1>3, <1>5, <1>6, <1>7, Unmapped
<1>9. CallsExact' /\ Recorded' /\ Settled'
  <2>1. /\ call'[p] = [op |-> "disown", old |-> S, new |-> {}]
        /\ \A q \in Procs : q # p => call'[q] = call[q]
    BY <1>2 DEF IInv, TypeOK
  <2>2. p # Nobody
    BY MmanAssumption
  <2>3. \A g \in S : owner'[g] # p
    BY <2>2, <1>3, <1>8
  <2>4. QED
    BY <2>1, <2>3, <1>2, <1>3, <1>8, CallStart
<1>10. QED
  BY <1>8, <1>9 DEF IInv

\* mremap to a smaller size unmaps the end of the area.
LEMMA MremapShrinkInv ==
    ASSUME IInv, NEW p \in Procs, NEW a \in Pages, NEW n \in Lengths, NEW m \in Lengths,
           NEW v \in VadOf(a), MremapShrink(p, a, n, m, v)
    PROVE  IInv'
<1> DEFINE S == Area(a + m, n - m)
<1>1. /\ vads' = Cut(vads, v, a + m, a + n)
      /\ prot' = Set(prot, S, "none") /\ host' = Set(host, S, "none")
      /\ pending' = pending \ S /\ owner' = Set(owner, S, Nobody)
      /\ lostcopy' = lostcopy \ S /\ map' = Top(vads')
      /\ call' = [call EXCEPT ![p] = [op |-> "move", old |-> Area(a, n), new |-> Area(a, m)]]
      /\ UNCHANGED <<brk, mem, pid, want, erased>>
  BY DEF MremapShrink, Reown
<1>2. /\ call[p] = Idle /\ Area(a, n) \in SUBSET Pages /\ \A g \in Area(a, n) : owner[g] = p
      /\ m < n /\ a + n <= v[2]
  BY DEF MremapShrink, MayRemap, MayCall, Owns
<1>3. a \in Nat /\ n \in Nat /\ m \in Nat /\ m >= 1
  BY LengthFacts, MmanAssumption DEF Pages
<1>4. /\ S = (a + m)..(a + n - 1) /\ S \subseteq Area(a, n) /\ Area(a, m) \subseteq Area(a, n)
      /\ \A g \in Area(a, n) : g \in S <=> g \notin Area(a, m)
  BY <1>2, <1>3 DEF Area
<1> HIDE DEF S
<1>5. /\ vads' \in Lists /\ Apart(vads')
      /\ Covered(vads') = Covered(vads) \ S
  <2>1. v \in vads /\ v[1] <= a /\ v[1] \in Nat
    BY InvFacts, AreaFacts DEF VadOf
  <2>2. v[1] <= a + m /\ a + m < a + n /\ a + m \in Nat /\ a + n \in Nat
    BY <2>1, <1>2, <1>3
  <2> DEFINE c == a + m
             e == a + n
  <2>3. vads \in Lists /\ Apart(vads)
    BY InvFacts
  <2>4. v[1] <= c /\ c < e /\ e <= v[2] /\ c \in Nat /\ e \in Nat
    BY <2>2, <1>2
  <2>5. vads' = Cut(vads, v, c, e)
    BY <1>1
  <2>6. S = c..(e - 1)
    BY <1>3, <1>4
  <2> HIDE DEF c, e
  <2>7. QED
    BY <2>1, <2>3, <2>4, <2>5, <2>6, CutFacts
<1>6. call' \in [Procs -> [op : {"none", "own", "disown", "move", "exited"},
                           old : SUBSET Pages, new : SUBSET Pages]]
  BY <1>1, <1>2, <1>4 DEF IInv, TypeOK
<1>7. pid' \in [Pages -> Procs \cup {Nobody}] /\ erased' \subseteq Pages
  BY <1>1 DEF IInv, TypeOK
<1>8. /\ TypeOK' /\ Sane' /\ VadsExact' /\ ProtExact' /\ FreeIsClosed' /\ ContentKept'
      /\ \A g \in Pages : owner'[g] = IF g \in S THEN Nobody ELSE owner[g]
  <2>1. S \in SUBSET Pages
    BY <1>2, <1>4
  <2>2. QED
    BY <2>1, <1>1, <1>5, <1>6, <1>7, Unmapped
<1>9. CallsExact' /\ Recorded' /\ Settled'
  <2>1. /\ call'[p] = [op |-> "move", old |-> Area(a, n), new |-> Area(a, m)]
        /\ \A q \in Procs : q # p => call'[q] = call[q]
    BY <1>1 DEF IInv, TypeOK
  <2>2. p # Nobody
    BY MmanAssumption
  <2>3. \A g \in Area(a, n) : owner'[g] = IF g \in Area(a, m) THEN p ELSE Nobody
    BY <1>2, <1>4, <1>8
  <2>4. \A g \in Pages : \/ owner'[g] = owner[g]
                         \/ owner[g] = p /\ owner'[g] = Nobody /\ g \in Area(a, n)
    BY <1>2, <1>4, <1>8
  <2>5. \A g \in Area(a, m) : owner'[g] = p
    BY <2>3, <1>4
  <2>6. \A g \in Area(a, n) : owner'[g] = p => g \in Area(a, m)
    BY <2>2, <2>3
  <2>7. QED
    BY <2>1, <2>4, <2>5, <2>6, <1>1, <1>2, CallStart
<1>10. QED
  BY <1>8, <1>9 DEF IInv

\* myst_release_process_mappings unmaps what is recorded for the process, which is
\* its own.
LEMMA ReleaseInv ==
    ASSUME IInv, NEW p \in Procs, Release(p)
    PROVE  IInv'
<1> DEFINE S == {g \in Pages : pid[g] = p}
<1>1. /\ vads' = UNION {Runs((v[1]..(v[2] - 1)) \ S) : v \in vads}
      /\ prot' = Set(prot, S, "none") /\ host' = Set(host, S, "none")
      /\ pending' = pending \ S /\ owner' = Set(owner, S, Nobody)
      /\ pid' = Set(pid, S, Nobody)
      /\ lostcopy' = lostcopy \ S /\ map' = Top(vads')
      /\ call' = [call EXCEPT ![p] = [Idle EXCEPT !.op = "exited"]]
      /\ call[p] = Idle
      /\ UNCHANGED <<brk, mem, want, erased>>
  BY DEF Release
<1>2. S \in SUBSET Pages /\ \A g \in Pages : g \in S <=> pid[g] = p
  OBVIOUS
<1> HIDE DEF S
<1>3. vads' \in Lists /\ Apart(vads') /\ Covered(vads') = Covered(vads) \ S
  BY <1>1, <1>2, InvFacts, RunsFacts
<1>4. /\ call'[p].op = "exited" /\ call'[p].old = {} /\ call'[p].new = {}
      /\ \A q \in Procs : q # p => call'[q] = call[q]
      /\ call' \in [Procs -> [op : {"none", "own", "disown", "move", "exited"},
                              old : SUBSET Pages, new : SUBSET Pages]]
  BY <1>1 DEF IInv, TypeOK, Idle
<1>5. pid \in [Pages -> Procs \cup {Nobody}] /\ erased' \subseteq Pages
  BY <1>1 DEF IInv, TypeOK
<1>6. /\ pid' \in [Pages -> Procs \cup {Nobody}]
      /\ \A g \in Pages : pid'[g] = IF g \in S THEN Nobody ELSE pid[g]
  BY <1>1, <1>5 DEF Set
<1>7. /\ TypeOK' /\ Sane' /\ VadsExact' /\ ProtExact' /\ FreeIsClosed' /\ ContentKept'
      /\ \A g \in Pages : owner'[g] = IF g \in S THEN Nobody ELSE owner[g]
  BY <1>1, <1>2, <1>3, <1>4, <1>5, <1>6, Unmapped
<1>8. p # Nobody /\ Erasing(p) = {} /\ call[p].new = {}
  BY <1>1, MmanAssumption DEF Erasing, Idle
<1>9. \A g \in S : owner[g] = p
  BY <1>2, <1>8 DEF IInv, Recorded
<1>10. Erasing(p)' = {} /\ \A q \in Procs : q # p => Erasing(q)' = Erasing(q)
  BY <1>4 DEF Erasing
<1>11. \A q \in Procs : Erasing(q) \subseteq Pages /\ call[q].new \subseteq Pages
  BY DEF Erasing, IInv, TypeOK
<1>12. CallsExact'
  <2> SUFFICES ASSUME NEW q \in Procs
               PROVE  /\ call'[q].op \in {"none", "exited"} =>
                            call'[q].old = {} /\ call'[q].new = {}
                      /\ call'[q].op = "disown" => call'[q].new = {}
                      /\ \A g \in call'[q].new : owner'[g] = q
                      /\ \A g \in Erasing(q)' : owner'[g] = q => g \in call'[q].new
    BY DEF CallsExact, Erasing
  <2>1. CASE q = p
    BY <2>1, <1>4, <1>10
  <2>2. CASE q # p
    <3>1. /\ call[q].op \in {"none", "exited"} => call[q].old = {} /\ call[q].new = {}
          /\ call[q].op = "disown" => call[q].new = {}
          /\ \A g \in call[q].new : owner[g] = q
          /\ \A g \in Erasing(q) : owner[g] = q => g \in call[q].new
      BY DEF IInv, CallsExact
    <3>2. q # Nobody
      BY MmanAssumption
    <3>3. \A g \in Pages : owner'[g] = q <=> owner[g] = q
      BY <3>2, <2>2, <1>7, <1>9
    <3>4. QED
      BY <3>1, <3>3, <2>2, <1>4, <1>10, <1>11
  <2>3. QED
    BY <2>1, <2>2
<1>13. Recorded'
  <2> SUFFICES ASSUME NEW g \in Pages, NEW q \in Procs, pid'[g] = q
               PROVE  owner'[g] = q \/ g \in Erasing(q)'
    BY DEF Recorded, Erasing
  <2>1. g \notin S /\ pid[g] = q /\ q # p
    BY <1>2, <1>6, MmanAssumption
  <2>2. owner[g] = q \/ g \in Erasing(q)
    BY <2>1 DEF IInv, Recorded
  <2>3. QED
    BY <2>1, <2>2, <1>7, <1>10
<1>14. Settled'
  <2> SUFFICES ASSUME NEW g \in Pages, \A q \in Procs : g \notin Erasing(q)' \cup call'[q].new
               PROVE  pid'[g] = owner'[g] \/ g \in erased'
    BY DEF Settled, Erasing
  <2>1. \A q \in Procs : g \notin Erasing(q) \cup call[q].new
    BY <1>4, <1>8, <1>10
  <2>2. pid[g] = owner[g] \/ g \in erased
    BY <2>1 DEF IInv, Settled
  <2>3. QED
    BY <2>2, <1>1, <1>6, <1>7
<1>15. QED
  BY <1>7, <1>12, <1>13, <1>14 DEF IInv

\* Recording the owner ends a call.
LEMMA OwnInv ==
    ASSUME IInv, NEW p \in Procs, Own(p)
    PROVE  IInv'
<1>1. /\ call[p].op = "own" /\ pid' = Set(pid, call[p].new, p)
      /\ call' = [call EXCEPT ![p] = Idle] /\ erased' = erased \ call[p].new
      /\ UNCHANGED <<brk, map, vads, prot, pending, host, mem, owner, want, lostcopy>>
  BY DEF Own, memVars
<1>2. /\ pid \in [Pages -> Procs \cup {Nobody}] /\ erased \subseteq Pages
      /\ call[p].new \subseteq Pages
      /\ call \in [Procs -> [op : {"none", "own", "disown", "move", "exited"},
                             old : SUBSET Pages, new : SUBSET Pages]]
  BY DEF IInv, TypeOK
<1>3. /\ pid' \in [Pages -> Procs \cup {Nobody}]
      /\ \A g \in Pages : pid'[g] = IF g \in call[p].new THEN p ELSE pid[g]
  BY <1>1, <1>2 DEF Set
<1>4. /\ call'[p] = Idle /\ \A q \in Procs : q # p => call'[q] = call[q]
      /\ call' \in [Procs -> [op : {"none", "own", "disown", "move", "exited"},
                              old : SUBSET Pages, new : SUBSET Pages]]
  BY <1>1, <1>2 DEF Idle
<1>5. /\ Erasing(p) = {} /\ Erasing(p)' = {}
      /\ \A q \in Procs : q # p => Erasing(q)' = Erasing(q)
  BY <1>1, <1>4 DEF Erasing, Idle
<1>6. TypeOK'
  BY <1>1, <1>2, <1>3, <1>4 DEF IInv, TypeOK
<1>7. Sane' /\ VadsExact' /\ ProtExact' /\ FreeIsClosed' /\ ContentKept'
  BY <1>1 DEF IInv, Sane, VadsExact, ProtExact, FreeIsClosed, ContentKept, Content
<1>8. CallsExact'
  <2> SUFFICES ASSUME NEW q \in Procs
               PROVE  /\ call'[q].op \in {"none", "exited"} =>
                            call'[q].old = {} /\ call'[q].new = {}
                      /\ call'[q].op = "disown" => call'[q].new = {}
                      /\ \A g \in call'[q].new : owner[g] = q
                      /\ \A g \in Erasing(q)' : owner[g] = q => g \in call'[q].new
    BY <1>1 DEF CallsExact, Erasing
  <2>1. CASE q = p
    BY <2>1, <1>4, <1>5 DEF Idle
  <2>2. CASE q # p
    BY <2>2, <1>4, <1>5 DEF IInv, CallsExact
  <2>3. QED
    BY <2>1, <2>2
<1>9. \A g \in call[p].new : owner[g] = p
  BY DEF IInv, CallsExact
<1>10. Recorded'
  <2> SUFFICES ASSUME NEW g \in Pages, NEW q \in Procs, pid'[g] = q
               PROVE  owner[g] = q \/ g \in Erasing(q)'
    BY <1>1 DEF Recorded, Erasing
  <2>1. CASE g \in call[p].new
    BY <2>1, <1>3, <1>9
  <2>2. CASE g \notin call[p].new
    <3>1. pid[g] = q
      BY <2>2, <1>3
    <3>2. owner[g] = q \/ g \in Erasing(q)
      BY <3>1 DEF IInv, Recorded
    <3>3. QED
      BY <3>2, <1>5
  <2>3. QED
    BY <2>1, <2>2
<1>11. Settled'
  <2> SUFFICES ASSUME NEW g \in Pages, \A q \in Procs : g \notin Erasing(q)' \cup call'[q].new
               PROVE  pid'[g] = owner[g] \/ g \in erased'
    BY <1>1 DEF Settled, Erasing
  <2>1. CASE g \in call[p].new
    BY <2>1, <1>3, <1>9
  <2>2. CASE g \notin call[p].new
    <3>1. \A q \in Procs : g \notin Erasing(q) \cup call[q].new
      BY <2>2, <1>4, <1>5
    <3>2. pid[g] = owner[g] \/ g \in erased
      BY <3>1 DEF IInv, Settled
    <3>3. QED
      BY <3>2, <2>2, <1>1, <1>3
  <2>3. QED
    BY <2>1, <2>2
<1>12. QED
  BY <1>6, <1>7, <1>8, <1>10, <1>11 DEF IInv

\* Erasing the record of pages that were given up; another process may have mapped
\* them in the meantime.
LEMMA DisownInv ==
    ASSUME IInv, NEW p \in Procs, Disown(p)
    PROVE  IInv'
<1>1. /\ call[p].op \in {"disown", "move"} /\ pid' = Set(pid, call[p].old, Nobody)
      /\ erased' = erased \cup {g \in call[p].old : owner[g] \notin {p, Nobody}}
      /\ call' = [call EXCEPT ![p] = IF call[p].op = "move"
                                     THEN [call[p] EXCEPT !.op = "own"] ELSE Idle]
      /\ UNCHANGED <<brk, map, vads, prot, pending, host, mem, owner, want, lostcopy>>
  BY DEF Disown, memVars
<1>2. /\ pid \in [Pages -> Procs \cup {Nobody}] /\ erased \subseteq Pages
      /\ call[p].old \subseteq Pages
      /\ call \in [Procs -> [op : {"none", "own", "disown", "move", "exited"},
                             old : SUBSET Pages, new : SUBSET Pages]]
  BY DEF IInv, TypeOK
<1>3. /\ pid' \in [Pages -> Procs \cup {Nobody}]
      /\ \A g \in Pages : pid'[g] = IF g \in call[p].old THEN Nobody ELSE pid[g]
  BY <1>1, <1>2 DEF Set
<1>4. \A q \in Procs : q # p => call'[q] = call[q]
  BY <1>1, <1>2
<1>5. /\ call'[p].op \in {"own", "none"}
      /\ call'[p].op = "none" => call'[p].old = {} /\ call'[p].new = {}
      /\ \A g \in call'[p].new : g \in call[p].new
      /\ call[p].op = "move" => call'[p].new = call[p].new
  BY <1>1, <1>2 DEF Idle
<1>6. call' \in [Procs -> [op : {"none", "own", "disown", "move", "exited"},
                           old : SUBSET Pages, new : SUBSET Pages]]
  BY <1>1, <1>2 DEF Idle
<1>7. /\ Erasing(p) = call[p].old /\ Erasing(p)' = {}
      /\ \A q \in Procs : q # p => Erasing(q)' = Erasing(q)
  BY <1>1, <1>4, <1>5 DEF Erasing
<1>8. TypeOK'
  BY <1>1, <1>2, <1>3, <1>6 DEF IInv, TypeOK
<1>9. Sane' /\ VadsExact' /\ ProtExact' /\ FreeIsClosed' /\ ContentKept'
  BY <1>1 DEF IInv, Sane, VadsExact, ProtExact, FreeIsClosed, ContentKept, Content
<1>10. /\ \A g \in call[p].new : owner[g] = p
       /\ \A g \in call[p].old : owner[g] = p => g \in call[p].new
  BY <1>7 DEF IInv, CallsExact
<1>11. CallsExact'
  <2> SUFFICES ASSUME NEW q \in Procs
               PROVE  /\ call'[q].op \in {"none", "exited"} =>
                            call'[q].old = {} /\ call'[q].new = {}
                      /\ call'[q].op = "disown" => call'[q].new = {}
                      /\ \A g \in call'[q].new : owner[g] = q
                      /\ \A g \in Erasing(q)' : owner[g] = q => g \in call'[q].new
    BY <1>1 DEF CallsExact, Erasing
  <2>1. CASE q = p
    BY <2>1, <1>5, <1>7, <1>10
  <2>2. CASE q # p
    BY <2>2, <1>4, <1>7 DEF IInv, CallsExact
  <2>3. QED
    BY <2>1, <2>2
<1>12. Recorded'
  <2> SUFFICES ASSUME NEW g \in Pages, NEW q \in Procs, pid'[g] = q
               PROVE  owner[g] = q \/ g \in Erasing(q)'
    BY <1>1 DEF Recorded, Erasing
  <2>1. g \notin call[p].old /\ pid[g] = q
    BY <1>3, MmanAssumption
  <2>2. owner[g] = q \/ g \in Erasing(q)
    BY <2>1 DEF IInv, Recorded
  <2>3. QED
    BY <2>1, <2>2, <1>7
<1>13. Settled'
  <2> SUFFICES ASSUME NEW g \in Pages, \A q \in Procs : g \notin Erasing(q)' \cup call'[q].new
               PROVE  pid'[g] = owner[g] \/ g \in erased'
    BY <1>1 DEF Settled, Erasing
  <2>1. g \notin call'[p].new
    OBVIOUS
  <2>2. g \notin call[p].new
    <3>1. CASE call[p].op = "move"
      BY <2>1, <3>1, <1>5
    <3>2. CASE call[p].op = "disown"
      BY <3>2 DEF IInv, CallsExact
    <3>3. QED
      BY <3>1, <3>2, <1>1
  <2>3. CASE g \in call[p].old
    <3>1. owner[g] # p
      BY <2>2, <2>3, <1>10
    <3>2. QED
      BY <3>1, <2>3, <1>1, <1>3
  <2>4. CASE g \notin call[p].old
    <3>1. \A q \in Procs : g \notin Erasing(q) \cup call[q].new
      BY <2>2, <2>4, <1>4, <1>7
    <3>2. pid[g] = owner[g] \/ g \in erased
      BY <3>1 DEF IInv, Settled
    <3>3. QED
      BY <3>2, <2>4, <1>1, <1>3
  <2>5. QED
    BY <2>3, <2>4
<1>14. QED
  BY <1>8, <1>9, <1>11, <1>12, <1>13 DEF IInv

\* mprotect fills pages with zeros that waited for them and become accessible.
LEMMA MprotectInv ==
    ASSUME IInv, NEW p \in Procs, NEW a \in Pages, NEW n \in Lengths, NEW pr \in Prots,
           Mprotect(p, a, n, pr)
    PROVE  IInv'
<1> DEFINE S == Area(a, n)
<1>1. /\ prot' = Set(prot, S, pr) /\ host' = Set(host, S, pr)
      /\ IF pr = "none" THEN UNCHANGED <<mem, pending>>
         ELSE mem' = Set(mem, S \cap pending, Zero) /\ pending' = pending \ S
      /\ UNCHANGED <<brk, map, vads, pid, call, owner, want, lostcopy, erased>>
  BY DEF Mprotect
<1>2. S \in SUBSET Pages /\ \A g \in S : owner[g] = p
  BY DEF Mprotect, Owns
<1> HIDE DEF S
<1>3. /\ prot \in [Pages -> Prots] /\ host = prot /\ pending \subseteq Pages
      /\ mem \in [Pages -> Procs \cup {Nobody, Zero}]
      /\ \A g \in pending : prot[g] = "none" /\ owner[g] # Nobody
  BY DEF IInv, TypeOK, ProtExact
<1>4. /\ prot' \in [Pages -> Prots] /\ host' = prot'
      /\ \A g \in Pages : prot'[g] = IF g \in S THEN pr ELSE prot[g]
  BY <1>1, <1>3 DEF Set
<1>5. /\ mem' \in [Pages -> Procs \cup {Nobody, Zero}]
      /\ pending' \subseteq pending /\ \A g \in pending' : prot'[g] = "none"
      /\ \A g \in Pages : Content(g)' = Content(g)
  <2>1. CASE pr = "none"
    BY <2>1, <1>1, <1>3, <1>4 DEF Content
  <2>2. CASE pr # "none"
    <3>1. /\ mem' \in [Pages -> Procs \cup {Nobody, Zero}]
          /\ \A g \in Pages : mem'[g] = IF g \in S \cap pending THEN Zero ELSE mem[g]
      BY <2>2, <1>1, <1>3 DEF Set
    <3>2. pending' = pending \ S
      BY <2>2, <1>1
    <3>3. QED
      BY <3>1, <3>2, <1>3, <1>4 DEF Content
  <2>3. QED
    BY <2>1, <2>2
<1>6. TypeOK'
  BY <1>1, <1>3, <1>4, <1>5 DEF IInv, TypeOK
<1>7. Sane' /\ VadsExact'
  BY <1>1 DEF IInv, Sane, VadsExact
<1>8. p # Nobody
  BY MmanAssumption
<1>9. ProtExact'
  BY <1>1, <1>3, <1>4, <1>5 DEF ProtExact
<1>10. FreeIsClosed'
  BY <1>1, <1>2, <1>4, <1>8 DEF IInv, FreeIsClosed
<1>11. ContentKept'
  BY <1>1, <1>5 DEF IInv, ContentKept
<1>12. CallsExact' /\ Recorded' /\ Settled'
  BY <1>1, RecordsKept
<1>13. QED
  BY <1>6, <1>7, <1>9, <1>10, <1>11, <1>12 DEF IInv

\* brk moves within the pages below all mappings.
LEMMA BrkInv ==
    ASSUME IInv, NEW p \in Procs, NEW b \in 0..NumPages, Brk(p, b)
    PROVE  IInv'
<1>1. /\ b <= map /\ brk' = b
      /\ prot' = Set(Set(prot, brk..(b - 1), "rw"), b..(brk - 1), "none")
      /\ host' = Set(Set(host, brk..(b - 1), "rw"), b..(brk - 1), "none")
      /\ pending' = pending \ (brk..(b - 1))
      /\ UNCHANGED <<map, vads, mem, pid, call, owner, want, lostcopy, erased>>
  BY DEF Brk
<1>2. /\ prot \in [Pages -> Prots] /\ host = prot /\ pending \subseteq Pages
      /\ \A g \in pending : prot[g] = "none" /\ owner[g] # Nobody
      /\ {"rw", "none"} \subseteq Prots
  BY DEF IInv, TypeOK, ProtExact, Prots
<1>3. b \in Nat /\ brk \in Nat /\ map \in Nat /\ brk <= map /\ \A g \in Pages : g \in Nat
  BY MmanAssumption DEF IInv, TypeOK, Sane, Pages
<1>4. /\ prot' \in [Pages -> Prots] /\ host' = prot'
      /\ \A g \in Pages : prot'[g] = IF g \in b..(brk - 1) THEN "none"
                                     ELSE IF g \in brk..(b - 1) THEN "rw" ELSE prot[g]
  BY <1>1, <1>2 DEF Set
<1>5. \A g \in Pages : owner[g] # Nobody => map <= g
  <2>1. \A g \in Covered(vads) : map <= g
    BY InvFacts, TopFacts
  <2>2. QED
    BY <2>1, InvFacts
<1>6. \A g \in Pages : owner[g] # Nobody => prot'[g] = prot[g] /\ g \notin brk..(b - 1)
  BY <1>1, <1>3, <1>4, <1>5
<1>7. pending' = pending
  BY <1>1, <1>2, <1>6
<1>8. TypeOK'
  BY <1>1, <1>2, <1>4, <1>7 DEF IInv, TypeOK
<1>9. Sane' /\ VadsExact'
  BY <1>1 DEF IInv, Sane, VadsExact
<1>10. ProtExact'
  BY <1>1, <1>2, <1>4, <1>6, <1>7 DEF ProtExact
<1>11. FreeIsClosed'
  <2> SUFFICES ASSUME NEW g \in Pages, owner[g] = Nobody, b <= g PROVE prot'[g] = "none"
    BY <1>1 DEF FreeIsClosed
  <2>1. CASE g < brk
    BY <2>1, <1>3, <1>4
  <2>2. CASE brk <= g
    <3>1. prot[g] = "none"
      BY <2>2 DEF IInv, FreeIsClosed
    <3>2. QED
      BY <3>1, <1>3, <1>4
  <2>3. QED
    BY <2>1, <2>2, <1>3
<1>12. ContentKept'
  BY <1>1, <1>7 DEF IInv, ContentKept, Content
<1>13. CallsExact' /\ Recorded' /\ Settled'
  BY <1>1, RecordsKept
<1>14. QED
  BY <1>8, <1>9, <1>10, <1>11, <1>12, <1>13 DEF IInv

\* A program stores into its own pages or into the heap, which nobody has mapped.
LEMMA StoreInv ==
    ASSUME IInv, NEW p \in Procs, NEW h \in Pages, Store(p, h)
    PROVE  IInv'
<1>1. /\ host[h] = "rw" /\ (owner[h] = p \/ h < brk)
      /\ mem' = [mem EXCEPT ![h] = p]
      /\ want' = [want EXCEPT ![h] = IF owner[h] = p THEN p ELSE want[h]]
      /\ UNCHANGED <<brk, map, vads, prot, pending, host, pid, call, owner, lostcopy, erased>>
  BY DEF Store
<1>2. TypeOK'
  BY <1>1 DEF IInv, TypeOK
<1>3. Sane' /\ VadsExact' /\ ProtExact' /\ FreeIsClosed'
  BY <1>1 DEF IInv, Sane, VadsExact, ProtExact, FreeIsClosed
<1>4. ContentKept'
  <2> SUFFICES ASSUME NEW g \in Pages, owner[g] # Nobody, g \notin lostcopy
               PROVE  Content(g)' = want'[g]
    BY <1>1 DEF ContentKept
  <2>1. Content(g) = want[g]
    BY DEF IInv, ContentKept
  <2>2. mem \in [Pages -> Procs \cup {Nobody, Zero}] /\ want \in [Pages -> Procs \cup {Zero}]
    BY DEF IInv, TypeOK
  <2>3. CASE g # h
    BY <2>1, <2>2, <2>3, <1>1 DEF Content
  <2>4. CASE g = h
    <3>1. h \notin pending
      BY <1>1 DEF IInv, ProtExact
    <3>2. h \in Nat /\ brk \in Nat /\ brk <= h
      BY <2>4, InvFacts, MmanAssumption DEF Pages
    <3>3. owner[h] = p
      BY <3>2, <1>1
    <3>4. QED
      BY <3>1, <3>3, <2>2, <2>4, <1>1 DEF Content
  <2>5. QED
    BY <2>3, <2>4
<1>5. CallsExact' /\ Recorded' /\ Settled'
  BY <1>1, RecordsKept
<1>6. QED
  BY <1>2, <1>3, <1>4, <1>5 DEF IInv

\* mremap to a larger size in place takes the gap to the right of the area; the new
\* pages get the protection of its first page, and its flag if all pages agree.
LEMMA MremapGrowInv ==
    ASSUME IInv, NEW p \in Procs, NEW a \in Pages, NEW n \in Lengths, NEW m \in Lengths,
           NEW v \in VadOf(a), MremapGrow(p, a, n, m, v)
    PROVE  IInv'
<1> DEFINE S == Area(a + n, m - n)
<1>1. /\ vads' = Insert(vads, a + n, a + m) /\ map' = Top(vads')
      /\ prot' = Set(prot, S, prot[a])
      /\ IF GrowFlag(a, n)
         THEN pending' = pending \cup S /\ UNCHANGED <<mem, host>>
         ELSE /\ pending' = pending \ S
              /\ mem' = Set(mem, S, Zero) /\ host' = Set(host, S, prot[a])
      /\ owner' = Set(owner, S, p) /\ want' = Set(want, S, Zero)
      /\ lostcopy' = lostcopy \ S /\ erased' = erased \ S
      /\ call' = [call EXCEPT ![p] = [op |-> "move", old |-> Area(a, n), new |-> Area(a, m)]]
      /\ brk' = brk /\ pid' = pid
  BY DEF MremapGrow, Reown
<1>2. /\ call[p] = Idle /\ Area(a, n) \in SUBSET Pages /\ \A g \in Area(a, n) : owner[g] = p
      /\ m > n /\ a + n = v[2] /\ RightGap(v) >= m - n
  BY DEF MremapGrow, MayRemap, MayCall, Owns, HasRoom
<1>3. a \in Nat /\ n \in Nat /\ n >= 1 /\ m \in Nat /\ p # Nobody
  BY LengthFacts, MmanAssumption DEF Pages
<1>4. v \in vads /\ vads \in Lists /\ Apart(vads) /\ a \in Area(a, n)
  BY <1>3, InvFacts DEF VadOf, Area
<1>5. a + m <= NumPages /\ \A w \in vads : w[2] <= a + n \/ a + m <= w[1]
  <2> DEFINE k == m - n
  <2>1. k \in Nat /\ RightGap(v) >= k /\ v[2] + k = a + m
    BY <1>2, <1>3
  <2> HIDE DEF k
  <2>2. QED
    BY <2>1, <1>2, <1>4, RoomFacts
<1>6. /\ S = (a + n)..(a + m - 1) /\ S \in SUBSET Pages /\ \A g \in S : a <= g
      /\ Area(a, m) = Area(a, n) \cup S
  BY <1>2, <1>3, <1>5, MmanAssumption DEF Area, Pages
<1> HIDE DEF S
<1>7. \A g \in S : g \notin Covered(vads)
  <2> SUFFICES ASSUME NEW g \in S, g \in Covered(vads) PROVE FALSE
    OBVIOUS
  <2>1. g \in Int /\ a + n <= g /\ g < a + m
    BY <1>3, <1>6
  <2>2. PICK w \in vads : w[1] <= g /\ g < w[2]
    BY <2>1, <1>4, CoveredFacts
  <2>3. w[1] \in Nat /\ w[2] \in Nat
    BY <1>4, AreaFacts
  <2>4. QED
    BY <2>1, <2>2, <2>3, <1>3, <1>5
<1>8. \A g \in S : owner[g] = Nobody /\ brk <= g
  <2>1. brk \in Nat /\ brk <= a
    BY <1>2, <1>3, <1>4, InvFacts
  <2>2. \A g \in S : g \in Nat
    BY <1>6, MmanAssumption DEF Pages
  <2>3. QED
    BY <2>1, <2>2, <1>3, <1>6, <1>7, InvFacts
<1>9. vads' \in Lists /\ Apart(vads') /\ Covered(vads') = Covered(vads) \cup S
  <2> DEFINE c == a + n
             e == a + m
  <2>1. c \in Nat /\ e \in Nat /\ c < e /\ e <= NumPages
    BY <1>2, <1>3, <1>5
  <2>2. vads' = Insert(vads, c, e)
    BY <1>1
  <2>3. S = c..(e - 1)
    BY <1>3, <1>6
  <2> HIDE DEF c, e
  <2>4. QED
    BY <2>1, <2>2, <2>3, <1>4, <1>7, InsertFacts
<1>10. /\ prot \in [Pages -> Prots] /\ host = prot /\ pending \subseteq Pages
       /\ mem \in [Pages -> Procs \cup {Nobody, Zero}]
       /\ \A g \in pending : prot[g] = "none"
  BY DEF IInv, TypeOK, ProtExact
<1>11. /\ prot' \in [Pages -> Prots]
       /\ \A g \in Pages : prot'[g] = IF g \in S THEN prot[a] ELSE prot[g]
  BY <1>1, <1>10 DEF Set
<1>12. Filled(S)
  <2>1. CASE GrowFlag(a, n)
    <3>1. prot[a] = "none"
      BY <2>1, <1>10 DEF GrowFlag
    <3>2. \A g \in S : prot[g] = "none"
      BY <1>6, <1>8 DEF IInv, FreeIsClosed
    <3>3. pending' = pending \cup S /\ mem' = mem /\ host' = host
      BY <2>1, <1>1
    <3>4. \A g \in Pages : prot'[g] = prot[g]
      BY <3>1, <3>2, <1>11
    <3>5. prot' = prot
      BY <3>4, <1>10, <1>11
    <3>6. QED
      BY <3>2, <3>3, <3>5, <1>6, <1>10 DEF Filled
  <2>2. CASE ~GrowFlag(a, n)
    <3>1. pending' = pending \ S /\ mem' = Set(mem, S, Zero) /\ host' = prot'
      BY <2>2, <1>1, <1>10
    <3>2. /\ mem' \in [Pages -> Procs \cup {Nobody, Zero}]
          /\ \A g \in Pages : mem'[g] = IF g \in S THEN Zero ELSE mem[g]
      BY <3>1, <1>10 DEF Set
    <3>3. QED
      BY <3>1, <3>2, <1>6, <1>10, <1>11 DEF Filled
  <2>3. QED
    BY <2>1, <2>2
<1>13. /\ call'[p] = [op |-> "move", old |-> Area(a, n), new |-> Area(a, m)]
       /\ \A q \in Procs : q # p => call'[q] = call[q]
       /\ call' \in [Procs -> [op : {"none", "own", "disown", "move", "exited"},
                               old : SUBSET Pages, new : SUBSET Pages]]
  BY <1>1, <1>2, <1>6 DEF IInv, TypeOK
<1>14. TypeOK' /\ Sane' /\ VadsExact' /\ ProtExact' /\ FreeIsClosed' /\ ContentKept'
  BY <1>1, <1>6, <1>8, <1>9, <1>12, <1>13, Mapped
<1>15. CallsExact' /\ Recorded' /\ Settled'
  <2>0. \A g \in Pages : owner'[g] = IF g \in S THEN p ELSE owner[g]
    BY <1>1 DEF Set, IInv, TypeOK
  <2>1. \A g \in erased : g \in erased' \/ g \in Area(a, m)
    BY <1>1, <1>6
  <2>2. \A g \in Pages : \/ owner'[g] = owner[g]
                         \/ owner[g] = Nobody /\ owner'[g] = p /\ g \in Area(a, m)
    BY <2>0, <1>6, <1>8
  <2>3. \A g \in Area(a, m) : owner'[g] = p
    BY <2>0, <1>2, <1>6
  <2>4. \A g \in Area(a, n) : g \in Area(a, m)
    BY <1>6
  <2>5. QED
    BY <2>1, <2>2, <2>3, <2>4, <1>1, <1>2, <1>13, CallStart
<1>16. QED
  BY <1>14, <1>15 DEF IInv

\* _mman_get_prot succeeds only if all pages have the protection of the first.
LEMMA ConsistencyFacts ==
    ASSUME NEW a \in Pages, NEW n \in Lengths, Consistency(a, n) # -1
    PROVE  /\ \A g \in Area(a, n) : prot[g] = prot[a]
           /\ Consistency(a, n) \in {0, 1}
<1> DEFINE rest == Area(a + 1, n - 1)
<1>1. a \in Nat /\ n \in Nat
  BY LengthFacts, MmanAssumption DEF Pages
<1>2. \A g \in Area(a, n) : g = a \/ g \in rest
  BY <1>1 DEF Area
<1>3. Consistency(a, n) =
          CASE \E g \in rest : prot[g] # prot[a] -> -1
            [] /\ \A g \in rest : prot[g] = prot[a]
               /\ rest \subseteq pending \/ rest \cap pending = {} -> 0
            [] OTHER -> 1
  BY DEF Consistency
<1> HIDE DEF rest
<1>4. ~ \E g \in rest : prot[g] # prot[a]
  BY <1>3
<1>5. \A g \in Area(a, n) : prot[g] = prot[a]
  BY <1>2, <1>4
<1>6. Consistency(a, n) \in {0, 1}
  BY <1>3, <1>4
<1>7. QED
  BY <1>5, <1>6

\* A move of the n pages at a to the m pages at b: every page of the new area holds,
\* or waits for, what the page it comes from held; unless the copy is lost.
Moved(a, b, n, m) ==
    LET O == Area(a, n)
        B == Area(b, m)
    IN  /\ pending' \subseteq Pages /\ mem' \in [Pages -> Procs \cup {Nobody, Zero}]
        /\ \A g \in pending' : /\ g \notin O /\ (g \in B => prot[a] = "none")
                               /\ g \notin B => g \in pending
        /\ \A g \in Pages : g \notin O /\ g \notin B =>
               (g \in pending' <=> g \in pending) /\ mem'[g] = mem[g]
        /\ \A g \in Area(b + n, m - n) : g \in pending' \/ mem'[g] = Zero
        /\ \A g \in Area(b, n) :
               \/ g \notin pending' /\ mem'[g] = Content(a + (g - b))
               \/ g \in pending' /\ Content(a + (g - b)) = Zero
               \/ Consistency(a, n) = 0 /\ prot[a] = "none" /\ \E h \in O : h \notin pending

\* What mremap copies and which flags it sets make such a move.
LEMMA MovedContent ==
    ASSUME IInv, NEW a \in Pages, NEW n \in Lengths, NEW m \in Lengths,
           NEW b \in Nat, m > n, Consistency(a, n) # -1,
           Area(a, n) \in SUBSET Pages, Area(b, m) \in SUBSET Pages,
           \A g \in Area(b, m) : g \notin Area(a, n),
           pending' = PendingAfterMove(a, b, n, m), mem' = MemAfterMove(a, b, n, m)
    PROVE  Moved(a, b, n, m)
<1> DEFINE O == Area(a, n)
           B == Area(b, m)
           c == Consistency(a, n)
           D == Area(b, n)
           R == Area(b + n, m - n)
           old(g) == IF c = 1 /\ g \in pending THEN Zero ELSE mem[g]
           clear == c = 1 \/ prot[a] # "none"
<1>1. a \in Nat /\ n \in Nat /\ n >= 1 /\ m \in Nat
  BY LengthFacts, MmanAssumption DEF Pages
<1>2. c \in {0, 1} /\ \A g \in O : prot[g] = prot[a]
  BY ConsistencyFacts
<1>3. /\ O \in SUBSET Pages /\ B \in SUBSET Pages /\ \A g \in B : g \notin O
      /\ B = D \cup R /\ D \cap R = {} /\ a \in O
      /\ \A g \in D : a + (g - b) \in O
  BY <1>1 DEF Area
<1>4. /\ pending \subseteq Pages /\ mem \in [Pages -> Procs \cup {Nobody, Zero}]
      /\ \A g \in pending : prot[g] = "none"
  BY DEF IInv, TypeOK, ProtExact
<1>5. pending' = IF clear THEN pending \ (O \cup B) ELSE (pending \ O) \cup B
  BY DEF PendingAfterMove
<1>6. mem' = [g \in Pages |->
              CASE GrowFlag(a, n) -> mem[g]
                [] ~GrowFlag(a, n) /\ g \in D -> old(a + (g - b))
                [] ~GrowFlag(a, n) /\ g \in R -> IF clear THEN Zero ELSE mem[g]
                [] ~GrowFlag(a, n) /\ g \in O -> old(g)
                [] OTHER -> mem[g]]
  BY DEF MemAfterMove
<1>7. GrowFlag(a, n) <=> a \in pending /\ c # 1
  BY DEF GrowFlag
<1>8. clear => ~GrowFlag(a, n)
  BY <1>4, <1>7
<1>9. D \in SUBSET Pages /\ R \in SUBSET Pages
  BY <1>3
<1> HIDE DEF O, B, D, R, c
<1>10. mem' \in [Pages -> Procs \cup {Nobody, Zero}]
  BY <1>3, <1>4, <1>6
<1>11. pending' \subseteq Pages
  BY <1>3, <1>4, <1>5
<1>12. \A g \in pending' : /\ g \notin O /\ (g \in B => prot[a] = "none")
                           /\ (g \notin B => g \in pending)
  BY <1>3, <1>5
<1>13. \A g \in Pages : g \notin O /\ g \notin B =>
           (g \in pending' <=> g \in pending) /\ mem'[g] = mem[g]
  BY <1>3, <1>5, <1>6
<1>14. \A g \in R : g \in pending' \/ mem'[g] = Zero
  BY <1>3, <1>5, <1>6, <1>8, <1>9
<1>15. \A g \in D : \/ g \notin pending' /\ mem'[g] = Content(a + (g - b))
                    \/ g \in pending' /\ Content(a + (g - b)) = Zero
                    \/ c = 0 /\ prot[a] = "none" /\ \E h \in O : h \notin pending
  <2> SUFFICES ASSUME NEW g \in D, ~(c = 0 /\ prot[a] = "none" /\ \E h \in O : h \notin pending)
               PROVE  \/ g \notin pending' /\ mem'[g] = Content(a + (g - b))
                      \/ g \in pending' /\ Content(a + (g - b)) = Zero
    OBVIOUS
  <2> DEFINE h == a + (g - b)
  <2>1. h \in O
    BY <1>3
  <2>2. CASE clear
    <3>1. mem'[g] = old(h) /\ g \notin pending'
      BY <2>2, <1>3, <1>5, <1>6, <1>8, <1>9
    <3>2. old(h) = Content(h)
      BY <2>1, <2>2, <1>2, <1>4 DEF Content
    <3>3. QED
      BY <3>1, <3>2
  <2>3. CASE ~clear
    <3>1. g \in pending'
      BY <2>3, <1>3, <1>5
    <3>2. h \in pending
      BY <2>1, <2>3, <1>2
    <3>3. QED
      BY <3>1, <3>2 DEF Content
  <2>4. QED
    BY <2>2, <2>3
<1>16. QED
  BY <1>10, <1>11, <1>12, <1>13, <1>14, <1>15 DEF Moved, O, B, D, R, c

\* mremap that moves the area: mmap, copy and munmap in one step.
LEMMA MremapMoveInv ==
    ASSUME IInv, NEW p \in Procs, NEW a \in Pages, NEW n \in Lengths, NEW m \in Lengths,
           NEW v \in VadOf(a), MremapMove(p, a, n, m, v)
    PROVE  IInv'
<1> DEFINE O == Area(a, n)
           lost == /\ Consistency(a, n) = 0 /\ prot[a] = "none"
                   /\ \E g \in O : g \notin pending
<1>1. PICK b \in FindGap(m) :
          /\ vads' = LET added == Insert(vads, b, b + m)
                       u == CHOOSE w \in added : w[1] <= a /\ a < w[2]
                   IN  Cut(added, u, a, a + n)
          /\ map' = Top(vads')
          /\ prot' = Set(Set(prot, Area(b, m), prot[a]), O, "none")
          /\ host' = Set(Set(host, Area(b, m), prot[a]), O, "none")
          /\ pending' = PendingAfterMove(a, b, n, m)
          /\ mem' = MemAfterMove(a, b, n, m)
          /\ owner' = Set(Set(owner, Area(b, m), p), O, Nobody)
          /\ want' = [g \in Pages |-> CASE g \in Area(b, n) -> want[a + (g - b)]
                                        [] g \in Area(b + n, m - n) -> Zero
                                        [] OTHER -> want[g]]
          /\ lostcopy' = ((lostcopy \cup IF lost THEN Area(b, m) ELSE {}) \cup
                             {g \in Area(b, n) : a + (g - b) \in lostcopy}) \ O
          /\ erased' = erased \ Area(b, m)
          /\ call' = [call EXCEPT ![p] = [op |-> "move", old |-> O, new |-> Area(b, m)]]
  BY DEF MremapMove, Reown
<1>2. /\ call[p] = Idle /\ O \in SUBSET Pages /\ \A g \in O : owner[g] = p
      /\ m > n /\ Consistency(a, n) # -1 /\ brk' = brk /\ pid' = pid
  BY DEF MremapMove, MayRemap, MayCall, Owns
<1> DEFINE B == Area(b, m)
           D == Area(b, n)
           R == Area(b + n, m - n)
           N == Insert(vads, b, b + m)
           u == CHOOSE w \in N : w[1] <= a /\ a < w[2]
<1>3. a \in Nat /\ n \in Nat /\ n >= 1 /\ m \in Nat /\ m >= 1 /\ p # Nobody
  BY LengthFacts, MmanAssumption DEF Pages
<1>4. /\ b \in Nat /\ brk <= b /\ b + m <= NumPages
      /\ \A g \in b..(b + m - 1) : g \notin Covered(vads)
  BY <1>3, InvFacts, GapFacts
<1>5. /\ B = b..(b + m - 1) /\ B \in SUBSET Pages /\ O = a..(a + n - 1)
      /\ \A g \in B : brk <= g
      /\ B = D \cup R /\ D \cap R = {} /\ \A g \in D : a + (g - b) \in O
  BY <1>2, <1>3, <1>4, InvFacts, MmanAssumption DEF Area, Pages
<1>6. /\ \A g \in B : g \notin Covered(vads) /\ owner[g] = Nobody /\ g \notin O
      /\ \A g \in O : g \in Covered(vads)
  <2>1. \A g \in B : g \notin Covered(vads)
    BY <1>4, <1>5
  <2>2. \A g \in B : owner[g] = Nobody
    BY <2>1, <1>5, InvFacts
  <2>3. QED
    BY <2>1, <2>2, <1>2, <1>3, InvFacts
<1>7. vads' \in Lists /\ Apart(vads') /\ Covered(vads') = (Covered(vads) \cup B) \ O
  <2> DEFINE e == a + n
             f == b + m
  <2>1. e \in Nat /\ f \in Nat /\ a < e /\ b < f /\ f <= NumPages
    BY <1>3, <1>4
  <2>2. B = b..(f - 1) /\ O = a..(e - 1)
    BY <1>3, <1>4, <1>5
  <2>3. vads' = Cut(N, u, a, e) /\ N = Insert(vads, b, f)
    BY <1>1
  <2>4. (\E w \in N : w[1] <= a /\ a < w[2]) => u \in N /\ u[1] <= a /\ a < u[2]
    <3> HIDE DEF N
    <3>1. QED
      OBVIOUS
  <2> HIDE DEF e, f, N, u, B, O
  <2>5. N \in Lists /\ Apart(N) /\ Covered(N) = Covered(vads) \cup B
    BY <2>1, <2>2, <2>3, <1>4, <1>6, InvFacts, InsertFacts
  <2>6. PICK w \in N : w[1] <= a /\ e <= w[2]
    <3>1. \A g \in a..(e - 1) : g \in Covered(N)
      BY <2>2, <2>5, <1>6
    <3>2. QED
      BY <3>1, <2>1, <2>5, <1>3, OneArea
  <2>7. u = w
    <3>1. \A x \in N : x[1] \in Nat /\ x[2] \in Nat
      BY <2>5, AreaFacts
    <3>2. a < w[2]
      BY <3>1, <2>1, <2>6, <1>3
    <3>3. QED
      BY <3>1, <3>2, <2>4, <2>5, <2>6, <1>3 DEF Apart
  <2>8. QED
    BY <2>1, <2>2, <2>3, <2>5, <2>6, <2>7, <1>3, CutFacts
<1>8. /\ pending' \subseteq Pages /\ mem' \in [Pages -> Procs \cup {Nobody, Zero}]
      /\ \A g \in pending' : /\ g \notin O /\ (g \in B => prot[a] = "none")
                             /\ g \notin B => g \in pending
      /\ \A g \in Pages : g \notin O /\ g \notin B =>
             (g \in pending' <=> g \in pending) /\ mem'[g] = mem[g]
      /\ \A g \in R : g \in pending' \/ mem'[g] = Zero
      /\ \A g \in D : \/ g \notin pending' /\ mem'[g] = Content(a + (g - b))
                      \/ g \in pending' /\ Content(a + (g - b)) = Zero
                      \/ lost
  <2>1. Moved(a, b, n, m)
    BY <1>1, <1>2, <1>4, <1>5, <1>6, MovedContent
  <2>2. QED
    BY <2>1 DEF Moved
<1>9. /\ call'[p] = [op |-> "move", old |-> O, new |-> B]
      /\ \A q \in Procs : q # p => call'[q] = call[q]
      /\ call' \in [Procs -> [op : {"none", "own", "disown", "move", "exited"},
                              old : SUBSET Pages, new : SUBSET Pages]]
  BY <1>1, <1>2, <1>5 DEF IInv, TypeOK
<1>10. /\ prot' = Set(Set(prot, B, prot[a]), O, "none")
       /\ host' = Set(Set(host, B, prot[a]), O, "none")
       /\ owner' = Set(Set(owner, B, p), O, Nobody)
       /\ want' = [g \in Pages |-> CASE g \in D -> want[a + (g - b)]
                                     [] g \in R -> Zero [] OTHER -> want[g]]
       /\ lostcopy' = ((lostcopy \cup IF lost THEN B ELSE {}) \cup
                          {g \in D : a + (g - b) \in lostcopy}) \ O
       /\ erased' = erased \ B /\ map' = Top(vads')
  BY <1>1
<1> HIDE DEF O, B, D, R, lost
<1>11. /\ prot \in [Pages -> Prots] /\ host = prot /\ pending \subseteq Pages
       /\ owner \in [Pages -> Procs \cup {Nobody}] /\ want \in [Pages -> Procs \cup {Zero}]
       /\ lostcopy \subseteq Pages /\ erased \subseteq Pages
       /\ \A g \in pending : prot[g] = "none" /\ owner[g] # Nobody
       /\ "none" \in Prots
  BY DEF IInv, TypeOK, ProtExact, Prots
<1>12. /\ prot' \in [Pages -> Prots] /\ host' = prot'
       /\ \A g \in Pages : prot'[g] = IF g \in O THEN "none"
                                      ELSE IF g \in B THEN prot[a] ELSE prot[g]
  BY <1>10, <1>11 DEF Set
<1>13. /\ owner' \in [Pages -> Procs \cup {Nobody}]
       /\ \A g \in Pages : owner'[g] = IF g \in O THEN Nobody ELSE IF g \in B THEN p ELSE owner[g]
  BY <1>10, <1>11 DEF Set
<1>14. want' \in [Pages -> Procs \cup {Zero}]
  BY <1>2, <1>5, <1>10, <1>11
<1>15. Sane' /\ VadsExact' /\ map' \in 0..NumPages /\ brk' \in 0..NumPages
  <2>1. Covered(vads') = {g \in Pages : owner'[g] # Nobody}
    BY <1>3, <1>5, <1>7, <1>13, InvFacts
  <2>2. \A g \in Pages : owner'[g] # Nobody => brk <= g
    BY <1>5, <1>13, InvFacts
  <2>3. QED
    BY <2>1, <2>2, <1>2, <1>7, <1>10, AreasNew
<1>16. TypeOK'
  <2>1. lostcopy' \subseteq Pages /\ erased' \subseteq Pages
    BY <1>5, <1>10, <1>11
  <2>2. pid' \in [Pages -> Procs \cup {Nobody}]
    BY <1>2 DEF IInv, TypeOK
  <2>3. QED
    BY <2>1, <2>2, <1>7, <1>8, <1>9, <1>12, <1>13, <1>14, <1>15 DEF TypeOK, Lists
<1>17. ProtExact'
  BY <1>3, <1>8, <1>11, <1>12, <1>13 DEF ProtExact
<1>18. FreeIsClosed'
  <2>1. \A g \in Pages : owner[g] = Nobody /\ brk <= g => prot[g] = "none"
    BY DEF IInv, FreeIsClosed
  <2>2. QED
    BY <2>1, <1>2, <1>3, <1>12, <1>13 DEF FreeIsClosed
<1>19. ContentKept'
  <2> SUFFICES ASSUME NEW g \in Pages, owner'[g] # Nobody, g \notin lostcopy'
               PROVE  Content(g)' = want'[g]
    BY DEF ContentKept
  <2>1. g \notin O /\ g \notin lostcopy /\ (g \in B => ~lost)
    BY <1>10, <1>13
  <2>2. CASE g \notin B
    <3>1. Content(g) = want[g]
      BY <2>1, <2>2, <1>13 DEF IInv, ContentKept
    <3>2. want'[g] = want[g]
      BY <2>2, <1>5, <1>10
    <3>3. QED
      BY <3>1, <3>2, <2>1, <2>2, <1>8 DEF Content
  <2>3. CASE g \in D
    <3> DEFINE h == a + (g - b)
    <3>1. h \in O /\ h \notin lostcopy
      BY <2>1, <2>3, <1>5, <1>10
    <3>2. Content(h) = want[h]
      BY <3>1, <1>2, <1>3 DEF IInv, ContentKept
    <3>3. want'[g] = want[h]
      BY <2>3, <1>5, <1>10
    <3>4. \/ g \notin pending' /\ mem'[g] = Content(h)
          \/ g \in pending' /\ Content(h) = Zero
      BY <2>1, <2>3, <1>5, <1>8
    <3>5. QED
      BY <3>2, <3>3, <3>4 DEF Content
  <2>4. CASE g \in R
    <3>1. want'[g] = Zero
      BY <2>4, <1>5, <1>10
    <3>2. QED
      BY <3>1, <2>4, <1>8 DEF Content
  <2>5. QED
    BY <2>2, <2>3, <2>4, <1>5
<1>20. CallsExact' /\ Recorded' /\ Settled'
  <2>1. \A g \in erased : g \in erased' \/ g \in B
    BY <1>10
  <2>2. \A g \in Pages : \/ owner'[g] = owner[g]
                         \/ owner[g] = p /\ owner'[g] = Nobody /\ g \in O
                         \/ owner[g] = Nobody /\ owner'[g] = p /\ g \in B
    BY <1>2, <1>6, <1>13
  <2>3. \A g \in B : owner'[g] = p
    BY <1>5, <1>6, <1>13
  <2>4. \A g \in O : owner'[g] # p
    BY <1>2, <1>3, <1>13
  <2>5. QED
    BY <2>1, <2>2, <2>3, <2>4, <1>2, <1>9, CallStart
<1>21. QED
  BY <1>15, <1>16, <1>17, <1>18, <1>19, <1>20 DEF IInv

-----------------------------------------------------------------------------
(***************************************************************************)
(* The theorems                                                            *)
(***************************************************************************)
\* Every step preserves the invariant.
LEMMA NextInv == IInv /\ [Next]_vars => IInv'
<1> SUFFICES ASSUME IInv, [Next]_vars PROVE IInv'
  OBVIOUS
<1>1. CASE UNCHANGED vars
  BY <1>1, RecordsKept DEF vars, memVars, IInv, TypeOK, Sane, VadsExact, ProtExact, FreeIsClosed,
                           ContentKept, Content
<1>2. CASE Next
  <2>1. PICK p \in Procs :
            \/ Own(p) \/ Disown(p) \/ Release(p)
            \/ \E n \in Lengths, pr \in Prots : Mmap(p, n, pr)
            \/ \E a \in Pages, n \in Lengths : Munmap(p, a, n)
            \/ \E a \in Pages, n \in Lengths, pr \in Prots :
                  MmapFixed(p, a, n, pr) \/ Mprotect(p, a, n, pr)
            \/ \E a \in Pages, n, m \in Lengths : \E v \in VadOf(a) :
                  \/ MremapShrink(p, a, n, m, v) \/ MremapGrow(p, a, n, m, v)
                  \/ MremapMove(p, a, n, m, v)
            \/ \E b \in 0..NumPages : Brk(p, b)
            \/ \E g \in Pages : Store(p, g)
    BY <1>2 DEF Next
  <2>2. CASE Own(p) \/ Disown(p) \/ Release(p)
    BY <2>2, OwnInv, DisownInv, ReleaseInv
  <2>3. CASE \E n \in Lengths, pr \in Prots : Mmap(p, n, pr)
    BY <2>3, MmapInv
  <2>4. CASE \E a \in Pages, n \in Lengths : Munmap(p, a, n)
    BY <2>4, MunmapInv
  <2>5. CASE \E a \in Pages, n \in Lengths, pr \in Prots :
                MmapFixed(p, a, n, pr) \/ Mprotect(p, a, n, pr)
    BY <2>5, MmapFixedInv, MprotectInv
  <2>6. CASE \E a \in Pages, n, m \in Lengths : \E v \in VadOf(a) :
                \/ MremapShrink(p, a, n, m, v) \/ MremapGrow(p, a, n, m, v)
                \/ MremapMove(p, a, n, m, v)
    BY <2>6, MremapShrinkInv, MremapGrowInv, MremapMoveInv
  <2>7. CASE \E b \in 0..NumPages : Brk(p, b)
    BY <2>7, BrkInv
  <2>8. CASE \E g \in Pages : Store(p, g)
    BY <2>8, StoreInv
  <2>9. QED
    BY <2>1, <2>2, <2>3, <2>4, <2>5, <2>6, <2>7, <2>8
<1>3. QED
  BY <1>1, <1>2

\* The invariant of the memory manager holds in every reachable state.
THEOREM Invariance == Spec => []IInv
  BY InitInv, NextInv, PTL DEF Spec

\* A run of pages that is recorded for a process between calls is mapped by it, so
\* that it lies in one area.
LEMMA ReleasePossible == IInv => ReleaseSucceeds
<1> SUFFICES ASSUME IInv, NEW p \in Procs, call[p] = Idle, NEW r \in OwnedRuns(p)
             PROVE  \E v \in vads : v[1] <= r[1] /\ r[2] <= v[2]
  BY DEF ReleaseSucceeds
<1>1. /\ r[1] \in Nat /\ r[2] \in Nat /\ r[1] < r[2]
      /\ \A g \in r[1]..(r[2] - 1) : g \in Pages /\ pid[g] = p
  BY MmanAssumption DEF OwnedRuns, Runs, Pages
<1>2. Erasing(p) = {} /\ p # Nobody
  BY MmanAssumption DEF Erasing, Idle
<1>3. \A g \in r[1]..(r[2] - 1) : owner[g] = p
  BY <1>1, <1>2 DEF IInv, Recorded
<1>4. \A g \in r[1]..(r[2] - 1) : g \in Covered(vads)
  BY <1>1, <1>2, <1>3, InvFacts
<1>5. QED
  BY <1>1, <1>4, InvFacts, OneArea

\* The list of areas kept by mman.c is sane and covers exactly the mapped pages, and
\* a process that exits can unmap each run of its pages in one piece.
THEOREM AreasAreExact == Spec => []AreasExact
<1>1. IInv => AreasExact
  BY ReleasePossible DEF IInv, AreasExact
<1>2. QED
  BY <1>1, Invariance, PTL

\* Pages have the protection the host gives them, hold what their process stored or
\* zeros, and between calls are recorded for the process that mapped them.
THEOREM PagesAreExact == Spec => []PagesExact
<1>1. IInv => PagesExact
  <2> SUFFICES ASSUME IInv PROVE PagesExact
    OBVIOUS
  <2>1. \A p \in Procs : Erasing(p) \subseteq call[p].old
    BY DEF Erasing
  <2>2. OwnerExact
    BY <2>1 DEF IInv, Settled, OwnerExact
  <2>3. QED
    BY <2>2 DEF IInv, PagesExact
<1>2. QED
  BY <1>1, Invariance, PTL
=============================================================================
