---------------------------- MODULE ListLemmas -----------------------------
(***************************************************************************)
(* Facts about the doubly linked lists of the kernel, which the modules    *)
(* keep as sequences without repetition: linking an element behind another *)
(* one, linking it in front of all, and unlinking it.                      *)
(***************************************************************************)
EXTENDS Integers, SequencesExt, SequenceTheorems, TLAPS

\* The elements of a sequence are its values at 1, 2, ... up to its length.
LEMMA ListElements ==
    ASSUME NEW S, NEW q \in Seq(S)
    PROVE  /\ Len(q) \in Nat
           /\ DOMAIN q = 1..Len(q)
           /\ ToSet(q) \subseteq S
           /\ \A e : e \in ToSet(q) <=> \E i \in 1..Len(q) : q[i] = e
           /\ IsInjective(q) <=> \A i, j \in 1..Len(q) : q[i] = q[j] => i = j
<1>1. Len(q) \in Nat /\ DOMAIN q = 1..Len(q) /\ \A i \in 1..Len(q) : q[i] \in S
  BY LenProperties, ElementOfSeq
<1>2. ToSet(q) = {q[i] : i \in 1..Len(q)}
  BY <1>1 DEF ToSet
<1>3. QED
  BY <1>1, <1>2 DEF IsInjective

\* Linking a new element behind the k-th one keeps the others in their order.
LEMMA ListInsert ==
    ASSUME NEW S, NEW q \in Seq(S), NEW k \in 1..Len(q), NEW e \in S,
           IsInjective(q), e \notin ToSet(q)
    PROVE  /\ InsertAt(q, k + 1, e) \in Seq(S)
           /\ Len(InsertAt(q, k + 1, e)) = Len(q) + 1
           /\ \A j \in 1..(Len(q) + 1) :
                 InsertAt(q, k + 1, e)[j] = IF j <= k THEN q[j]
                                            ELSE IF j = k + 1 THEN e ELSE q[j - 1]
           /\ IsInjective(InsertAt(q, k + 1, e))
           /\ ToSet(InsertAt(q, k + 1, e)) = ToSet(q) \cup {e}
<1> DEFINE a == SubSeq(q, 1, k)
           b == SubSeq(q, k + 1, Len(q))
           r == InsertAt(q, k + 1, e)
<1>0. Len(q) \in Nat /\ k \in Int /\ 1 <= k /\ k <= Len(q) /\ \A i \in 1..Len(q) : q[i] \in S
  BY ListElements, ElementOfSeq
<1>1. a \in Seq(S) /\ Len(a) = k /\ \A i \in 1..k : a[i] = q[i]
  <2>1. \A i \in 1..k : q[i] \in S
    BY <1>0
  <2>2. QED
    BY <1>0, <2>1, SubSeqProperties
<1>2. b \in Seq(S) /\ Len(b) = Len(q) - k /\ \A i \in 1..(Len(q) - k) : b[i] = q[k + i]
  <2>1. \A i \in (k + 1)..Len(q) : q[i] \in S
    BY <1>0
  <2>2. b \in Seq(S) /\ Len(b) = (IF k + 1 <= Len(q) THEN Len(q) - (k + 1) + 1 ELSE 0)
        /\ \A i \in 1..(Len(q) - (k + 1) + 1) : b[i] = q[(k + 1) + i - 1]
    <3> HIDE DEF b
    <3> k + 1 \in Int /\ Len(q) \in Int
      BY <1>0
    <3>1. QED
      BY <2>1, SubSeqProperties DEF b
  <2> HIDE DEF b
  <2>3. QED
    BY <1>0, <2>2
<1>3. <<e>> \in Seq(S) /\ Len(<<e>>) = 1 /\ <<e>>[1] = e
  OBVIOUS
<1> DEFINE c == a \o <<e>>
<1>4. r = c \o b
  <2>1. (k + 1) - 1 = k
    BY <1>0
  <2>2. r = SubSeq(q, 1, (k + 1) - 1) \o <<e>> \o SubSeq(q, k + 1, Len(q))
    BY DEF InsertAt
  <2>3. QED
    BY <2>1, <2>2
<1> HIDE DEF a, b, r
<1>5. c \in Seq(S) /\ Len(c) = k + 1
      /\ \A i \in 1..(k + 1) : c[i] = IF i <= k THEN q[i] ELSE e
  BY <1>0, <1>1, <1>3, ConcatProperties
<1> HIDE DEF c
<1>6. r \in Seq(S) /\ Len(r) = Len(q) + 1
      /\ \A i \in 1..(Len(q) + 1) : r[i] = IF i <= k + 1 THEN c[i] ELSE b[i - (k + 1)]
  <2>1. r \in Seq(S) /\ Len(r) = (k + 1) + (Len(q) - k)
        /\ \A i \in 1..((k + 1) + (Len(q) - k)) :
              r[i] = IF i <= k + 1 THEN c[i] ELSE b[i - (k + 1)]
    <3>1. k + 1 \in Int /\ Len(q) - k \in Int
      BY <1>0
    <3>2. b \in Seq(S) /\ Len(b) = Len(q) - k /\ c \in Seq(S) /\ Len(c) = k + 1
      BY <1>2, <1>5
    <3>3. c \o b \in Seq(S) /\ Len(c \o b) = Len(c) + Len(b)
          /\ \A i \in 1..(Len(c) + Len(b)) :
                (c \o b)[i] = IF i <= Len(c) THEN c[i] ELSE b[i - Len(c)]
      BY <3>2, ConcatProperties
    <3>4. QED
      BY <1>4, <3>2, <3>3, Zenon
  <2>2. (k + 1) + (Len(q) - k) = Len(q) + 1
    BY <1>0
  <2>3. QED
    BY <2>1, <2>2
<1>7. \A j \in 1..(Len(q) + 1) :
         r[j] = IF j <= k THEN q[j] ELSE IF j = k + 1 THEN e ELSE q[j - 1]
  <2> TAKE j \in 1..(Len(q) + 1)
  <2>1. CASE j <= k + 1
    BY <1>0, <1>5, <1>6, <2>1
  <2>2. CASE j > k + 1
    <3>1. r[j] = b[j - (k + 1)]
      BY <1>0, <1>6, <2>2
    <3>2. j - (k + 1) \in 1..(Len(q) - k) /\ k + (j - (k + 1)) = j - 1
      BY <1>0, <2>2
    <3>3. QED
      BY <1>0, <1>2, <2>2, <3>1, <3>2
  <2>3. QED
    BY <1>0, <2>1, <2>2
<1>8. /\ \A i, j \in 1..Len(q) : q[i] = q[j] => i = j
      /\ \A i \in 1..Len(q) : q[i] # e
  BY ListElements
<1>9. IsInjective(r)
  <2>1. ASSUME NEW i \in 1..(Len(q) + 1), NEW j \in 1..(Len(q) + 1), r[i] = r[j]
        PROVE  i = j
    BY <1>0, <1>7, <1>8, <2>1
  <2>2. QED
    BY <1>6, <2>1, ListElements
<1>10. ToSet(r) = ToSet(q) \cup {e}
  <2>1. ASSUME NEW x \in ToSet(r) PROVE x \in ToSet(q) \cup {e}
    <3>1. PICK i \in 1..(Len(q) + 1) : r[i] = x
      BY <1>6, ListElements
    <3>2. QED
      BY <1>0, <1>7, <3>1, ListElements
  <2>2. r[k + 1] = e /\ k + 1 \in 1..(Len(q) + 1)
    BY <1>0, <1>7
  <2>3. ASSUME NEW i \in 1..Len(q) PROVE \E j \in 1..(Len(q) + 1) : r[j] = q[i]
    <3>1. CASE i <= k
      BY <1>0, <1>7, <3>1
    <3>2. CASE i > k
      <4>1. i + 1 \in 1..(Len(q) + 1) /\ r[i + 1] = q[i]
        BY <1>0, <1>7, <3>2
      <4>2. QED
        BY <4>1
    <3>3. QED
      BY <1>0, <3>1, <3>2
  <2>4. \A x : x \in ToSet(r) <=> \E i \in 1..(Len(q) + 1) : r[i] = x
    BY <1>6, ListElements
  <2>5. \A x : x \in ToSet(q) <=> \E i \in 1..Len(q) : q[i] = x
    BY ListElements
  <2>6. QED
    BY <2>1, <2>2, <2>3, <2>4, <2>5
<1>11. QED
  BY <1>6, <1>7, <1>9, <1>10 DEF r

\* Unlinking the k-th element keeps the others in their order.
LEMMA ListRemove ==
    ASSUME NEW S, NEW q \in Seq(S), NEW k \in 1..Len(q), IsInjective(q)
    PROVE  /\ RemoveAt(q, k) \in Seq(S)
           /\ Len(RemoveAt(q, k)) = Len(q) - 1
           /\ \A j \in 1..(Len(q) - 1) :
                 RemoveAt(q, k)[j] = IF j < k THEN q[j] ELSE q[j + 1]
           /\ IsInjective(RemoveAt(q, k))
           /\ ToSet(RemoveAt(q, k)) = ToSet(q) \ {q[k]}
<1> DEFINE a == SubSeq(q, 1, k - 1)
           b == SubSeq(q, k + 1, Len(q))
           r == RemoveAt(q, k)
<1>0. Len(q) \in Nat /\ k \in Int /\ 1 <= k /\ k <= Len(q) /\ \A i \in 1..Len(q) : q[i] \in S
  BY ListElements, ElementOfSeq
<1>1. a \in Seq(S) /\ Len(a) = k - 1 /\ \A i \in 1..(k - 1) : a[i] = q[i]
  <2>1. \A i \in 1..(k - 1) : q[i] \in S
    BY <1>0
  <2>2. a \in Seq(S) /\ Len(a) = (IF 1 <= k - 1 THEN (k - 1) - 1 + 1 ELSE 0)
        /\ \A i \in 1..((k - 1) - 1 + 1) : a[i] = q[1 + i - 1]
    <3> HIDE DEF a
    <3> k - 1 \in Int
      BY <1>0
    <3>1. QED
      BY <2>1, SubSeqProperties DEF a
  <2> HIDE DEF a
  <2>3. QED
    BY <1>0, <2>2
<1>2. b \in Seq(S) /\ Len(b) = Len(q) - k /\ \A i \in 1..(Len(q) - k) : b[i] = q[k + i]
  <2>1. \A i \in (k + 1)..Len(q) : q[i] \in S
    BY <1>0
  <2>2. b \in Seq(S) /\ Len(b) = (IF k + 1 <= Len(q) THEN Len(q) - (k + 1) + 1 ELSE 0)
        /\ \A i \in 1..(Len(q) - (k + 1) + 1) : b[i] = q[(k + 1) + i - 1]
    <3> HIDE DEF b
    <3> k + 1 \in Int /\ Len(q) \in Int
      BY <1>0
    <3>1. QED
      BY <2>1, SubSeqProperties DEF b
  <2> HIDE DEF b
  <2>3. QED
    BY <1>0, <2>2
<1>3. r = a \o b
  BY DEF RemoveAt
<1> HIDE DEF a, b, r
<1>4. r \in Seq(S) /\ Len(r) = Len(q) - 1
      /\ \A i \in 1..(Len(q) - 1) : r[i] = IF i <= k - 1 THEN a[i] ELSE b[i - (k - 1)]
  <2>1. k - 1 \in Int /\ Len(q) - k \in Int /\ (k - 1) + (Len(q) - k) = Len(q) - 1
    BY <1>0
  <2>2. r \in Seq(S) /\ Len(r) = (k - 1) + (Len(q) - k)
        /\ \A i \in 1..((k - 1) + (Len(q) - k)) :
              r[i] = IF i <= k - 1 THEN a[i] ELSE b[i - (k - 1)]
    <3>1. b \in Seq(S) /\ Len(b) = Len(q) - k /\ a \in Seq(S) /\ Len(a) = k - 1
      BY <1>1, <1>2
    <3>2. a \o b \in Seq(S) /\ Len(a \o b) = Len(a) + Len(b)
          /\ \A i \in 1..(Len(a) + Len(b)) :
                (a \o b)[i] = IF i <= Len(a) THEN a[i] ELSE b[i - Len(a)]
      BY <3>1, ConcatProperties
    <3>3. QED
      BY <1>3, <3>1, <3>2, Zenon
  <2>3. QED
    BY <2>1, <2>2
<1>5. \A j \in 1..(Len(q) - 1) : r[j] = IF j < k THEN q[j] ELSE q[j + 1]
  <2> TAKE j \in 1..(Len(q) - 1)
  <2>1. CASE j < k
    BY <1>0, <1>1, <1>4, <2>1
  <2>2. CASE j >= k
    BY <1>0, <1>2, <1>4, <2>2
  <2>3. QED
    BY <1>0, <2>1, <2>2
<1>6. \A i, j \in 1..Len(q) : q[i] = q[j] => i = j
  BY ListElements
<1>7. IsInjective(r)
  <2>1. ASSUME NEW i \in 1..(Len(q) - 1), NEW j \in 1..(Len(q) - 1), r[i] = r[j]
        PROVE  i = j
    BY <1>0, <1>5, <1>6, <2>1
  <2>2. QED
    BY <1>4, <2>1, ListElements
<1>8. ToSet(r) = ToSet(q) \ {q[k]}
  <2>1. ASSUME NEW x \in ToSet(r) PROVE x \in ToSet(q) \ {q[k]}
    <3>1. PICK i \in 1..(Len(q) - 1) : r[i] = x
      BY <1>4, ListElements
    <3>2. PICK j \in 1..Len(q) : q[j] = x /\ j # k
      BY <1>0, <1>5, <3>1
    <3>3. QED
      BY <1>6, <3>2, ListElements
  <2>2. ASSUME NEW x \in ToSet(q) \ {q[k]} PROVE x \in ToSet(r)
    <3>1. PICK i \in 1..Len(q) : q[i] = x /\ i # k
      BY ListElements
    <3>2. CASE i < k
      BY <1>0, <1>4, <1>5, <3>1, <3>2, ListElements
    <3>3. CASE i > k
      <4>1. i - 1 \in 1..(Len(q) - 1) /\ r[i - 1] = x
        BY <1>0, <1>5, <3>1, <3>3
      <4>2. QED
        BY <1>4, <4>1, ListElements
    <3>4. QED
      BY <3>1, <3>2, <3>3
  <2>3. QED
    BY <2>1, <2>2
<1>9. QED
  BY <1>4, <1>5, <1>7, <1>8 DEF r

\* Linking a new element in front of all.
LEMMA ListPush ==
    ASSUME NEW S, NEW q \in Seq(S), NEW e \in S, IsInjective(q), e \notin ToSet(q)
    PROVE  /\ <<e>> \o q \in Seq(S)
           /\ IsInjective(<<e>> \o q)
           /\ ToSet(<<e>> \o q) = ToSet(q) \cup {e}
<1> DEFINE r == <<e>> \o q
<1>1. <<e>> \in Seq(S) /\ Len(<<e>>) = 1 /\ <<e>>[1] = e
  OBVIOUS
<1>2. r \in Seq(S) /\ Len(r) = Len(q) + 1 /\ Len(q) \in Nat
      /\ \A i \in 1..(Len(q) + 1) : r[i] = IF i <= 1 THEN e ELSE q[i - 1]
  BY <1>1, ListElements, ConcatProperties
<1> HIDE DEF r
<1>3. /\ \A i, j \in 1..Len(q) : q[i] = q[j] => i = j
      /\ \A i \in 1..Len(q) : q[i] # e
  BY ListElements
<1>4. IsInjective(r)
  <2>1. ASSUME NEW i \in 1..(Len(q) + 1), NEW j \in 1..(Len(q) + 1), r[i] = r[j]
        PROVE  i = j
    BY <1>2, <1>3, <2>1
  <2>2. QED
    BY <1>2, <2>1, ListElements
<1>5. ToSet(r) = ToSet(q) \cup {e}
  <2>1. ASSUME NEW i \in 1..(Len(q) + 1) PROVE r[i] \in ToSet(q) \cup {e}
    BY <1>2, <2>1, ListElements
  <2>2. r[1] = e /\ 1 \in 1..(Len(q) + 1)
    BY <1>2
  <2>3. ASSUME NEW i \in 1..Len(q) PROVE i + 1 \in 1..(Len(q) + 1) /\ r[i + 1] = q[i]
    BY <1>2
  <2>4. \A x : x \in ToSet(r) <=> \E i \in 1..(Len(q) + 1) : r[i] = x
    BY <1>2, ListElements
  <2>5. \A x : x \in ToSet(q) <=> \E i \in 1..Len(q) : q[i] = x
    BY ListElements
  <2>6. QED
    BY <2>1, <2>2, <2>3, <2>4, <2>5
<1>6. QED
  BY <1>2, <1>4, <1>5 DEF r
\* Linking a new element behind all.
LEMMA ListAppend ==
    ASSUME NEW S, NEW q \in Seq(S), NEW e \in S, IsInjective(q), e \notin ToSet(q)
    PROVE  /\ Append(q, e) \in Seq(S)
           /\ IsInjective(Append(q, e))
           /\ ToSet(Append(q, e)) = ToSet(q) \cup {e}
<1> DEFINE r == Append(q, e)
<1>1. r \in Seq(S) /\ Len(r) = Len(q) + 1 /\ Len(q) \in Nat
      /\ (\A i \in 1..Len(q) : r[i] = q[i]) /\ r[Len(q) + 1] = e
  BY ListElements, AppendProperties
<1> HIDE DEF r
<1>2. /\ \A i, j \in 1..Len(q) : q[i] = q[j] => i = j
      /\ \A i \in 1..Len(q) : q[i] # e
  BY ListElements
<1>3. \A i \in 1..(Len(q) + 1) : i \in 1..Len(q) \/ i = Len(q) + 1
  BY <1>1
<1>4. IsInjective(r)
  <2>1. ASSUME NEW i \in 1..(Len(q) + 1), NEW j \in 1..(Len(q) + 1), r[i] = r[j]
        PROVE  i = j
    BY <1>1, <1>2, <1>3, <2>1
  <2>2. QED
    BY <1>1, <2>1, ListElements
<1>5. ToSet(r) = ToSet(q) \cup {e}
  <2>1. \A x : x \in ToSet(r) <=> \E i \in 1..(Len(q) + 1) : r[i] = x
    BY <1>1, ListElements
  <2>2. \A x : x \in ToSet(q) <=> \E i \in 1..Len(q) : q[i] = x
    BY ListElements
  <2>3. \A i \in 1..Len(q) : i \in 1..(Len(q) + 1)
    BY <1>1
  <2>4. Len(q) + 1 \in 1..(Len(q) + 1)
    BY <1>1
  <2>5. QED
    BY <1>1, <1>3, <2>1, <2>2, <2>3, <2>4
<1>6. QED
  BY <1>1, <1>4, <1>5 DEF r

\* Linking the elements of a list behind those of another one.
LEMMA ListConcat ==
    ASSUME NEW S, NEW q \in Seq(S), NEW m \in Seq(S), IsInjective(q), IsInjective(m),
           ToSet(q) \cap ToSet(m) = {}
    PROVE  /\ q \o m \in Seq(S)
           /\ IsInjective(q \o m)
           /\ ToSet(q \o m) = ToSet(q) \cup ToSet(m)
<1> DEFINE r == q \o m
<1>1. r \in Seq(S) /\ Len(r) = Len(q) + Len(m) /\ Len(q) \in Nat /\ Len(m) \in Nat
      /\ \A i \in 1..(Len(q) + Len(m)) : r[i] = IF i <= Len(q) THEN q[i] ELSE m[i - Len(q)]
  BY ListElements, ConcatProperties
<1> HIDE DEF r
<1>2. /\ \A i, j \in 1..Len(q) : q[i] = q[j] => i = j
      /\ \A i, j \in 1..Len(m) : m[i] = m[j] => i = j
      /\ \A i \in 1..Len(q), j \in 1..Len(m) : q[i] # m[j]
  BY ListElements
<1>3. \A i \in 1..(Len(q) + Len(m)) :
         \/ i \in 1..Len(q) /\ r[i] = q[i]
         \/ i - Len(q) \in 1..Len(m) /\ r[i] = m[i - Len(q)]
  BY <1>1
<1>4. IsInjective(r)
  <2>1. ASSUME NEW i \in 1..(Len(q) + Len(m)), NEW j \in 1..(Len(q) + Len(m)), r[i] = r[j]
        PROVE  i = j
    <3>1. CASE i \in 1..Len(q) /\ j \in 1..Len(q) /\ q[i] = q[j]
      BY <1>2, <3>1
    <3>2. CASE i - Len(q) \in 1..Len(m) /\ j - Len(q) \in 1..Len(m) /\ m[i - Len(q)] = m[j - Len(q)]
      <4>1. i - Len(q) = j - Len(q)
        BY <1>2, <3>2
      <4>2. QED
        BY <1>1, <4>1
    <3>3. QED
      BY <1>2, <1>3, <2>1, <3>1, <3>2
  <2>2. QED
    BY <1>1, <2>1, ListElements
<1>5. ToSet(r) = ToSet(q) \cup ToSet(m)
  <2>1. \A x : x \in ToSet(r) <=> \E i \in 1..(Len(q) + Len(m)) : r[i] = x
    BY <1>1, ListElements
  <2>2. \A x : /\ x \in ToSet(q) <=> \E i \in 1..Len(q) : q[i] = x
               /\ x \in ToSet(m) <=> \E i \in 1..Len(m) : m[i] = x
    BY ListElements
  <2>3. ASSUME NEW i \in 1..Len(q) PROVE i \in 1..(Len(q) + Len(m)) /\ r[i] = q[i]
    BY <1>1
  <2>4. ASSUME NEW i \in 1..Len(m)
        PROVE  Len(q) + i \in 1..(Len(q) + Len(m)) /\ r[Len(q) + i] = m[i]
    <3>1. Len(q) + i \in 1..(Len(q) + Len(m)) /\ ~(Len(q) + i <= Len(q))
          /\ (Len(q) + i) - Len(q) = i
      BY <1>1
    <3>2. QED
      BY <1>1, <3>1
  <2>5. ASSUME NEW x \in ToSet(r) PROVE x \in ToSet(q) \cup ToSet(m)
    BY <1>3, <2>1, <2>2
  <2>6. ASSUME NEW x \in ToSet(m) PROVE x \in ToSet(r)
    BY <2>1, <2>2, <2>4
  <2>7. ASSUME NEW x \in ToSet(q) PROVE x \in ToSet(r)
    BY <2>1, <2>2, <2>3
  <2>8. QED
    BY <2>5, <2>6, <2>7
<1>6. QED
  BY <1>1, <1>4, <1>5 DEF r

\* Taking the first element off.
LEMMA ListTail ==
    ASSUME NEW S, NEW q \in Seq(S), IsInjective(q), q # <<>>
    PROVE  /\ Head(q) \in ToSet(q)
           /\ Tail(q) \in Seq(S)
           /\ IsInjective(Tail(q))
           /\ ToSet(Tail(q)) = ToSet(q) \ {Head(q)}
<1> DEFINE r == Tail(q)
<1>1. Len(q) \in Nat /\ Len(q) >= 1
  BY ListElements, EmptySeq
<1>2. Head(q) = q[1]
  BY DEF Head
<1>3. r \in Seq(S) /\ Len(r) = Len(q) - 1 /\ \A i \in 1..(Len(q) - 1) : r[i] = q[i + 1]
  BY HeadTailProperties
<1> HIDE DEF r
<1>4. \A i, j \in 1..Len(q) : q[i] = q[j] => i = j
  BY ListElements
<1>5. IsInjective(r)
  <2>1. ASSUME NEW i \in 1..(Len(q) - 1), NEW j \in 1..(Len(q) - 1), r[i] = r[j]
        PROVE  i = j
    BY <1>1, <1>3, <1>4, <2>1
  <2>2. QED
    BY <1>3, <2>1, ListElements
<1>6. \A x : x \in ToSet(r) <=> \E i \in 1..(Len(q) - 1) : r[i] = x
  BY <1>3, ListElements
<1>7. \A x : x \in ToSet(q) <=> \E i \in 1..Len(q) : q[i] = x
  BY ListElements
<1>8. ToSet(r) = ToSet(q) \ {q[1]}
  <2>1. ASSUME NEW x \in ToSet(r) PROVE x \in ToSet(q) /\ x # q[1]
    <3>1. PICK i \in 1..(Len(q) - 1) : r[i] = x
      BY <1>6
    <3>2. i + 1 \in 1..Len(q) /\ i + 1 # 1 /\ q[i + 1] = x /\ 1 \in 1..Len(q)
      BY <1>1, <1>3, <3>1
    <3>3. QED
      BY <1>4, <1>7, <3>2
  <2>2. ASSUME NEW x \in ToSet(q), x # q[1] PROVE x \in ToSet(r)
    <3>1. PICK i \in 1..Len(q) : q[i] = x
      BY <1>7
    <3>2. i - 1 \in 1..(Len(q) - 1) /\ r[i - 1] = x
      BY <1>1, <1>3, <2>2, <3>1
    <3>3. QED
      BY <1>6, <3>2
  <2>3. QED
    BY <2>1, <2>2
<1>9. q[1] \in ToSet(q)
  BY <1>1, <1>7
<1>10. QED
  BY <1>2, <1>3, <1>5, <1>8, <1>9 DEF r
=============================================================================
