---------------------------- MODULE SignalProofs ----------------------------
(***************************************************************************)
(* Proofs about the signals of a thread, for every set of signals, every   *)
(* choice of masks and every bound on what is sent and nested.             *)
(***************************************************************************)
EXTENDS Signal, SequenceTheorems, FiniteSetTheorems, WellFoundedInduction, TLAPS

FrameLocations == {"stop", "wait", "blocked", "scan", "handler"}
Frames == [at : FrameLocations, active : SUBSET Sigs, sig : Nat]

\* the types that the proofs need
SignalTypes ==
    /\ pending \in SUBSET Sigs
    /\ infos \in [Sigs -> Seq(Nat)]
    /\ handled \in [Sigs -> Seq(Nat)]
    /\ sent \in [Sigs -> Nat]
    /\ frames \in Seq(Frames)

-----------------------------------------------------------------------------
(* Facts about numbers and sequences *)

\* The lowest of some signals is one of them and not above any other
\* (__builtin_ctzl of the active signals).
LEMMA MinProperties ==
    ASSUME NEW S, S \subseteq Nat, S # {}
    PROVE  Min(S) \in S /\ \A y \in S : Min(S) <= y
<1>1. PICK x \in S : \A y \in S : <<y, x>> \notin OpToRel(<, Nat)
  BY NatLessThanWellFounded, WFMin
<1>2. ASSUME NEW y \in S, y < x PROVE FALSE
  <2>1. <<y, x>> \in {ss \in Nat \X Nat : ss[1] < ss[2]}
    BY <1>2
  <2>2. <<y, x>> \in OpToRel(<, Nat)
    BY <2>1 DEF OpToRel
  <2>3. QED
    BY <2>2, <1>1
<1>3. x \in S /\ \A y \in S : x <= y
  BY <1>2
<1>4. QED
  BY <1>3 DEF Min

\* Handing the first siginfo of a list to the handler keeps the two lists
\* together as they were.
LEMMA MoveFirst ==
    ASSUME NEW h \in Seq(Nat), NEW q \in Seq(Nat), q # <<>>
    PROVE  Append(h, Head(q)) \o Tail(q) = h \o q
<1>1. /\ Head(q) \in Nat /\ Tail(q) \in Seq(Nat) /\ Len(Tail(q)) = Len(q) - 1
      /\ \A i \in 1..Len(Tail(q)) : Tail(q)[i] = q[i + 1]
  BY HeadTailProperties
<1>2. Len(h) \in Nat /\ Len(q) \in Nat \ {0} /\ Head(q) = q[1]
  BY LenProperties, EmptySeq
<1>3. /\ Append(h, Head(q)) \in Seq(Nat)
      /\ Len(Append(h, Head(q))) = Len(h) + 1
      /\ \A i \in 1..Len(h) : Append(h, Head(q))[i] = h[i]
      /\ Append(h, Head(q))[Len(h) + 1] = Head(q)
  BY <1>1, AppendProperties
<1>4. /\ Append(h, Head(q)) \o Tail(q) \in Seq(Nat)
      /\ Len(Append(h, Head(q)) \o Tail(q)) = Len(h) + 1 + (Len(q) - 1)
      /\ \A i \in 1..(Len(h) + 1 + (Len(q) - 1)) :
            (Append(h, Head(q)) \o Tail(q))[i] =
                IF i <= Len(h) + 1 THEN Append(h, Head(q))[i]
                ELSE Tail(q)[i - (Len(h) + 1)]
  BY <1>1, <1>3, ConcatProperties
<1>5. /\ h \o q \in Seq(Nat) /\ Len(h \o q) = Len(h) + Len(q)
      /\ \A i \in 1..(Len(h) + Len(q)) :
            (h \o q)[i] = IF i <= Len(h) THEN h[i] ELSE q[i - Len(h)]
  BY ConcatProperties
<1>6. ASSUME NEW i \in 1..(Len(h) + Len(q))
      PROVE  (Append(h, Head(q)) \o Tail(q))[i] = (h \o q)[i]
  <2>1. CASE i <= Len(h)
    BY <2>1, <1>2, <1>3, <1>4, <1>5
  <2>2. CASE i = Len(h) + 1
    BY <2>2, <1>2, <1>3, <1>4, <1>5
  <2>3. CASE i > Len(h) + 1
    <3>1. i - (Len(h) + 1) \in 1..Len(Tail(q))
      BY <2>3, <1>1, <1>2
    <3>2. Tail(q)[i - (Len(h) + 1)] = q[i - Len(h)]
      BY <3>1, <1>1, <1>2
    <3>3. QED
      BY <2>3, <3>2, <1>2, <1>4, <1>5
  <2>4. QED
    BY <2>1, <2>2, <2>3, <1>2
<1>7. QED
  BY <1>2, <1>4, <1>5, <1>6, SeqEqual

\* the siginfos of the first n deliveries
Upto(n) == [i \in 1..n |-> i]

\* A siginfo that is appended to a list is the last one of all.
LEMMA AppendLast ==
    ASSUME NEW h \in Seq(Nat), NEW q \in Seq(Nat), NEW n \in Nat,
           h \o q = Upto(n)
    PROVE  h \o Append(q, n + 1) = Upto(n + 1)
<1>1. Len(h) \in Nat /\ Len(q) \in Nat
  BY LenProperties
<1>2. /\ h \o q \in Seq(Nat) /\ Len(h \o q) = Len(h) + Len(q)
      /\ \A i \in 1..(Len(h) + Len(q)) :
            (h \o q)[i] = IF i <= Len(h) THEN h[i] ELSE q[i - Len(h)]
  BY ConcatProperties
<1>3. Len(h) + Len(q) = n
  <2>1. DOMAIN (h \o q) = 1..n
    BY DEF Upto
  <2>2. DOMAIN (h \o q) = 1..(Len(h) + Len(q))
    BY <1>2, LenProperties
  <2>3. ASSUME NEW k \in Nat, NEW m \in Nat, 1..k = 1..m PROVE k = m
    <3>1. k \in 1..k \/ k = 0
      OBVIOUS
    <3>2. m \in 1..m \/ m = 0
      OBVIOUS
    <3>3. QED
      BY <2>3, <3>1, <3>2
  <2>4. Len(h) + Len(q) \in Nat
    BY <1>1
  <2>5. QED
    BY <2>1, <2>2, <2>3, <2>4
<1>4. /\ Append(q, n + 1) \in Seq(Nat)
      /\ Len(Append(q, n + 1)) = Len(q) + 1
      /\ \A i \in 1..Len(q) : Append(q, n + 1)[i] = q[i]
      /\ Append(q, n + 1)[Len(q) + 1] = n + 1
  BY AppendProperties
<1>5. /\ h \o Append(q, n + 1) \in Seq(Nat)
      /\ Len(h \o Append(q, n + 1)) = Len(h) + (Len(q) + 1)
      /\ \A i \in 1..(Len(h) + (Len(q) + 1)) :
            (h \o Append(q, n + 1))[i] =
                IF i <= Len(h) THEN h[i] ELSE Append(q, n + 1)[i - Len(h)]
  BY <1>4, ConcatProperties
<1>6. ASSUME NEW i \in 1..(n + 1)
      PROVE  (h \o Append(q, n + 1))[i] = i
  <2>1. CASE i <= Len(h)
    <3>1. i \in 1..n /\ (h \o q)[i] = h[i]
      BY <2>1, <1>1, <1>2, <1>3
    <3>2. (h \o Append(q, n + 1))[i] = h[i]
      BY <2>1, <1>1, <1>3, <1>5
    <3>3. QED
      BY <3>1, <3>2 DEF Upto
  <2>2. CASE i > Len(h) /\ i <= n
    <3>1. i - Len(h) \in 1..Len(q)
      BY <2>2, <1>1, <1>3
    <3>2. Append(q, n + 1)[i - Len(h)] = (h \o q)[i]
      BY <3>1, <2>2, <1>1, <1>2, <1>3, <1>4
    <3>3. QED
      BY <3>2, <2>2, <1>1, <1>3, <1>5 DEF Upto
  <2>3. CASE i = n + 1
    <3>1. i - Len(h) = Len(q) + 1 /\ i > Len(h)
      BY <2>3, <1>1, <1>3
    <3>2. QED
      BY <2>3, <3>1, <1>1, <1>3, <1>4, <1>5
  <2>4. i <= Len(h) \/ (i > Len(h) /\ i <= n) \/ i = n + 1
    BY <1>1
  <2>5. QED
    BY <2>1, <2>2, <2>3, <2>4
<1>7. h \o Append(q, n + 1) \in [1..(n + 1) -> Nat]
  <2>1. Len(h) + (Len(q) + 1) = n + 1
    BY <1>1, <1>3
  <2>2. QED
    BY <2>1, <1>5, LenProperties
<1>8. QED
  BY <1>6, <1>7 DEF Upto

\* Replacing the latest call of myst_signal_process, or returning from it,
\* leaves the calls below it alone.
LEMMA FrontAndTop ==
    ASSUME NEW q \in Seq(Frames), q # <<>>, NEW f \in Frames
    PROVE  /\ Len(q) \in Nat \ {0} /\ Last(q) = q[Len(q)] /\ Last(q) \in Frames
           /\ Front(q) \in Seq(Frames) /\ Len(Front(q)) = Len(q) - 1
           /\ \A i \in 1..(Len(q) - 1) : Front(q)[i] = q[i]
           /\ Append(Front(q), f) \in Seq(Frames)
           /\ Len(Append(Front(q), f)) = Len(q)
           /\ Append(Front(q), f)[Len(q)] = f
           /\ \A i \in 1..(Len(q) - 1) : Append(Front(q), f)[i] = q[i]
<1>1. Len(q) \in Nat \ {0}
  BY EmptySeq
<1>2. \A i \in 1..Len(q) : q[i] \in Frames
  BY ElementOfSeq
<1>3. /\ Front(q) \in Seq(Frames)
      /\ Len(Front(q)) = IF 1 <= Len(q) - 1 THEN Len(q) - 1 - 1 + 1 ELSE 0
      /\ \A i \in 1..(Len(q) - 1 - 1 + 1) : Front(q)[i] = q[1 + i - 1]
  <2>1. \A i \in 1..(Len(q) - 1) : q[i] \in Frames
    BY <1>1, <1>2
  <2>2. Len(q) - 1 \in Int
    BY <1>1
  <2>3. QED
    BY <2>1, <2>2, SubSeqProperties DEF Front
<1>4. Len(Front(q)) = Len(q) - 1 /\ \A i \in 1..(Len(q) - 1) : Front(q)[i] = q[i]
  <2>1. /\ Len(q) - 1 - 1 + 1 = Len(q) - 1
        /\ (IF 1 <= Len(q) - 1 THEN Len(q) - 1 - 1 + 1 ELSE 0) = Len(q) - 1
    <3>1. \A n \in Nat \ {0} : /\ n - 1 - 1 + 1 = n - 1
                              /\ (IF 1 <= n - 1 THEN n - 1 - 1 + 1 ELSE 0) = n - 1
      OBVIOUS
    <3>2. QED
      BY <1>1, <3>1
  <2>2. Len(Front(q)) = Len(q) - 1
    BY <1>3, <2>1
  <2>3. ASSUME NEW i \in 1..(Len(q) - 1) PROVE Front(q)[i] = q[i]
    <3>1. 1 + i - 1 = i /\ i \in 1..(Len(q) - 1 - 1 + 1)
      BY <1>1
    <3>2. QED
      BY <1>3, <3>1
  <2>4. QED
    BY <2>2, <2>3
<1>5. /\ Append(Front(q), f) \in Seq(Frames)
      /\ Len(Append(Front(q), f)) = Len(Front(q)) + 1
      /\ \A i \in 1..Len(Front(q)) : Append(Front(q), f)[i] = Front(q)[i]
      /\ Append(Front(q), f)[Len(Front(q)) + 1] = f
  BY <1>3, AppendProperties
<1>6. Last(q) = q[Len(q)] /\ Last(q) \in Frames
  BY <1>1, <1>2 DEF Last
<1>7. Len(Front(q)) + 1 = Len(q)
  BY <1>1, <1>4
<1>8. QED
  BY <1>1, <1>3, <1>4, <1>5, <1>6, <1>7

\* The fields of a call in progress.
LEMMA FrameType ==
    ASSUME NEW l \in FrameLocations, NEW a \in SUBSET Sigs, NEW s \in Sigs \cup {NoSig}
    PROVE  Frame(l, a, s) \in Frames /\ Frame(l, a, s).at = l
           /\ Frame(l, a, s).active = a /\ Frame(l, a, s).sig = s
  BY SigsAssumption DEF Frame, Frames, NoSig

-----------------------------------------------------------------------------
(* Types *)

\* the calls in progress after a step that replaces the latest one, leaves it,
\* or starts another one
FrameStep ==
    \/ frames' = frames
    \/ \E f \in Frames : frames' = Append(frames, f)
    \/ frames # <<>> /\ frames' = Front(frames)
    \/ frames # <<>> /\ \E f \in Frames : frames' = Top(f)
    \/ frames # <<>> /\ \E f, g \in Frames : frames' = Append(Top(f), g)

\* Such a step keeps the type of the calls in progress.
LEMMA FrameStepType ==
    ASSUME frames \in Seq(Frames), FrameStep
    PROVE  frames' \in Seq(Frames)
<1>1. CASE \E f \in Frames : frames' = Append(frames, f)
  BY <1>1, AppendProperties
<1>2. CASE frames # <<>> /\ frames' = Front(frames)
  <2>1. PICK f \in Frames : f = frames[1]
    BY <1>2, EmptySeq, ElementOfSeq
  <2>2. QED
    BY <1>2, <2>1, FrontAndTop
<1>3. CASE frames # <<>> /\ \E f \in Frames : frames' = Top(f)
  BY <1>3, FrontAndTop DEF Top
<1>4. CASE frames # <<>> /\ \E f, g \in Frames : frames' = Append(Top(f), g)
  <2>1. PICK f \in Frames, g \in Frames : frames' = Append(Top(f), g)
    BY <1>4
  <2>2. Top(f) \in Seq(Frames)
    BY <1>4, FrontAndTop DEF Top
  <2>3. QED
    BY <2>1, <2>2, AppendProperties
<1>5. QED
  BY <1>1, <1>2, <1>3, <1>4 DEF FrameStep

\* Every step of the senders and of the thread keeps the types.
LEMMA TypesInductive == SignalTypes /\ [Next]_vars => SignalTypes'
<1> SUFFICES ASSUME SignalTypes, [Next]_vars PROVE SignalTypes'
  OBVIOUS
<1>1. /\ pending \in SUBSET Sigs /\ infos \in [Sigs -> Seq(Nat)]
      /\ handled \in [Sigs -> Seq(Nat)] /\ sent \in [Sigs -> Nat]
      /\ frames \in Seq(Frames)
  BY DEF SignalTypes
<1>2. ASSUME NEW s \in Sigs, Deliver(s) PROVE SignalTypes'
  <2>1. Append(infos[s], sent[s] + 1) \in Seq(Nat)
    BY <1>1, AppendProperties
  <2>2. infos' \in [Sigs -> Seq(Nat)] /\ sent' \in [Sigs -> Nat]
    BY <1>1, <1>2, <2>1 DEF Deliver, Enqueue
  <2>3. QED
    BY <1>1, <1>2, <2>2 DEF Deliver, SignalTypes
<1>3. ASSUME FrameStep, pending' \in SUBSET Sigs, UNCHANGED <<infos, sent, handled>>
      PROVE  SignalTypes'
  BY <1>1, <1>3, FrameStepType DEF SignalTypes
<1>4. CASE DeliverStop \/ DeliverCont \/ ContWake \/ SigProcMask
  BY <1>1, <1>3, <1>4 DEF DeliverStop, DeliverCont, ContWake, SigProcMask,
     queueVars, FrameStep
<1>5. CASE ProcessCall
  <2>1. Frame("stop", {}, NoSig) \in Frames
    BY FrameType DEF FrameLocations
  <2>2. QED
    BY <1>1, <1>3, <1>5, <2>1 DEF ProcessCall, queueVars, FrameStep
<1>6. CASE StopCheck
  <2>1. Frame("scan", Active, NoSig) \in Frames
    BY <1>1, FrameType DEF FrameLocations, Active
  <2>2. QED
    BY <1>1, <1>3, <1>6, <2>1 DEF StopCheck, At, queueVars, FrameStep
<1>7. CASE StopWait
  <2>1. Frame("wait", {}, NoSig) \in Frames /\ Frame("stop", {}, NoSig) \in Frames
    BY FrameType DEF FrameLocations
  <2>2. QED
    BY <1>1, <1>3, <1>7, <2>1 DEF StopWait, At, queueVars, FrameStep
<1>8. CASE StopBlock
  <2>1. Frame("blocked", {}, NoSig) \in Frames
    BY FrameType DEF FrameLocations
  <2>2. QED
    BY <1>1, <1>3, <1>8, <2>1 DEF StopBlock, At, queueVars, FrameStep
<1>9. CASE StopResume
  <2>1. Frame("stop", {}, NoSig) \in Frames /\ Frame("scan", Active, NoSig) \in Frames
    BY <1>1, FrameType DEF FrameLocations, Active
  <2>2. QED
    BY <1>1, <1>3, <1>9, <2>1 DEF StopResume, At, queueVars, FrameStep
<1>10. CASE Scan
  <2>1. PICK active \in SUBSET Sigs :
          /\ active = Last(frames).active /\ frames # <<>>
    <3>1. frames # <<>>
      BY <1>10 DEF Scan, At
    <3>2. Last(frames) \in Frames
      BY <3>1, <1>1, EmptySeq, ElementOfSeq DEF Last
    <3>3. QED
      BY <3>1, <3>2 DEF Frames
  <2>2. PICK s \in Sigs :
          /\ infos[s] # <<>>
          /\ infos' = [infos EXCEPT ![s] = Tail(@)]
          /\ handled' = [handled EXCEPT ![s] = Append(@, Head(infos[s]))]
          /\ \E done \in SUBSET Sigs :
                /\ pending' = pending \ done
                /\ frames' = Top(Frame("handler", active \ done, s))
    <3> DEFINE ready == {u \in active : infos[u] # <<>>}
    <3>1. ready # {} /\ ready \subseteq Sigs /\ ready \subseteq Nat
      BY <1>10, <2>1, SigsAssumption DEF Scan
    <3>2. Min(ready) \in ready
      BY <3>1, MinProperties
    <3>3. {u \in active : u < Min(ready)} \in SUBSET Sigs
      OBVIOUS
    <3>4. QED
      BY <1>10, <2>1, <3>1, <3>2, <3>3 DEF Scan, ClearDone
  <2>3. Tail(infos[s]) \in Seq(Nat) /\ Append(handled[s], Head(infos[s])) \in Seq(Nat)
    BY <1>1, <2>2, HeadTailProperties, AppendProperties
  <2>4. infos' \in [Sigs -> Seq(Nat)] /\ handled' \in [Sigs -> Seq(Nat)]
    BY <1>1, <2>2, <2>3
  <2>5. pending' \in SUBSET Sigs /\ frames' \in Seq(Frames)
    <3>1. PICK done \in SUBSET Sigs :
             /\ pending' = pending \ done
             /\ frames' = Top(Frame("handler", active \ done, s))
      BY <2>2
    <3>2. Frame("handler", active \ done, s) \in Frames
      BY <2>1, FrameType DEF FrameLocations
    <3>3. QED
      BY <1>1, <2>1, <3>1, <3>2, FrontAndTop DEF Top
  <2>6. QED
    BY <1>1, <1>10, <2>4, <2>5 DEF Scan, SignalTypes
<1>11. CASE ScanEnd
  BY <1>1, <1>3, <1>11 DEF ScanEnd, At, FrameStep
<1>12. CASE HandlerReturn
  <2>1. frames # <<>> /\ Last(frames) \in Frames
    BY <1>1, <1>12, EmptySeq, ElementOfSeq DEF HandlerReturn, At, Last
  <2>2. Frame("scan", Last(frames).active, NoSig) \in Frames
    BY <2>1, FrameType DEF Frames, FrameLocations
  <2>3. QED
    BY <1>1, <1>3, <1>12, <2>1, <2>2 DEF HandlerReturn, queueVars, FrameStep
<1>13. CASE UNCHANGED vars
  BY <1>1, <1>13 DEF vars, queueVars, SignalTypes
<1>14. QED
  BY <1>2, <1>4, <1>5, <1>6, <1>7, <1>8, <1>9, <1>10, <1>11, <1>12, <1>13
     DEF Next, ThreadStep

\* The types hold when the thread starts.
LEMMA TypesInitial == Init => SignalTypes
  BY DEF Init, SignalTypes

-----------------------------------------------------------------------------
(* Every siginfo is handled once and in order *)

\* only a delivery and the start of a handler touch the lists
LEMMA ListsUntouched ==
    ASSUME \/ DeliverStop \/ DeliverCont \/ ContWake \/ ProcessCall \/ SigProcMask
           \/ StopCheck \/ StopWait \/ StopBlock \/ StopResume
           \/ ScanEnd \/ HandlerReturn \/ UNCHANGED vars
    PROVE  UNCHANGED <<infos, sent, handled>>
  BY DEF DeliverStop, DeliverCont, ContWake, ProcessCall, SigProcMask, StopCheck,
     StopWait, StopBlock, StopResume, ScanEnd, HandlerReturn, vars, queueVars

\* what the start of a handler does to the lists and to the calls in progress
LEMMA ScanEffect ==
    ASSUME SignalTypes, Scan
    PROVE  /\ frames # <<>> /\ Last(frames) \in Frames
           /\ \E s \in Last(frames).active, done \in SUBSET Sigs :
                /\ s \in Sigs /\ infos[s] # <<>> /\ s \notin done
                /\ \A u \in done : infos[u] = <<>>
                /\ infos' = [infos EXCEPT ![s] = Tail(@)]
                /\ handled' = [handled EXCEPT ![s] = Append(@, Head(infos[s]))]
                /\ pending' = pending \ done
                /\ frames' = Top(Frame("handler", Last(frames).active \ done, s))
                /\ UNCHANGED sent
<1> DEFINE active == Last(frames).active
           ready == {u \in active : infos[u] # <<>>}
           done == {u \in active : u < Min(ready)}
<1>1. frames # <<>> /\ Last(frames) \in Frames
  BY EmptySeq, ElementOfSeq DEF SignalTypes, Scan, At, Last
<1>2. active \in SUBSET Sigs
  BY <1>1 DEF Frames
<1>3. ready # {} /\ ready \subseteq Nat
  BY <1>2, SigsAssumption DEF Scan
<1>4. Min(ready) \in ready /\ \A y \in ready : Min(ready) <= y
  BY <1>3, MinProperties
<1>5. Min(ready) \in active /\ Min(ready) \in Sigs /\ infos[Min(ready)] # <<>>
      /\ Min(ready) \in Nat
  BY <1>2, <1>3, <1>4
<1>6. done \in SUBSET Sigs /\ Min(ready) \notin done
  BY <1>2, <1>5
<1>7. ASSUME NEW u \in done PROVE infos[u] = <<>>
  <2>1. u \in active /\ u < Min(ready) /\ u \in Nat
    BY <1>2, SigsAssumption
  <2>2. u \notin ready
    <3>1. \A m, n \in Nat : n < m => ~(m <= n)
      OBVIOUS
    <3>2. QED
      BY <2>1, <1>4, <1>5, <3>1, Zenon
  <2>3. QED
    BY <2>1, <2>2
<1>8. /\ infos' = [infos EXCEPT ![Min(ready)] = Tail(@)]
      /\ handled' = [handled EXCEPT ![Min(ready)] = Append(@, Head(infos[Min(ready)]))]
      /\ pending' = pending \ done
      /\ frames' = Top(Frame("handler", Last(frames).active \ done, Min(ready)))
      /\ UNCHANGED sent
  BY DEF Scan, ClearDone
<1>9. QED
  BY <1>1, <1>5, <1>6, <1>7, <1>8

\* Every siginfo reaches the handler exactly once and in the order in which it
\* was delivered (myst_signal_deliver, myst_signal_process), however the calls
\* of the thread are nested and whatever is delivered meanwhile.
THEOREM SignalOrder == Spec => []InOrderOnce
<1> DEFINE Inv == SignalTypes /\ InOrderOnce
<1>1. Init => Inv
  <2>1. ASSUME Init, NEW s \in Sigs
        PROVE  handled[s] \o infos[s] = [i \in 1..sent[s] |-> i]
    <3>1. handled[s] = <<>> /\ infos[s] = <<>> /\ sent[s] = 0
      BY <2>1 DEF Init
    <3>2. <<>> \o <<>> = <<>> /\ <<>> = [i \in 1..0 |-> i]
      OBVIOUS
    <3>3. QED
      BY <3>1, <3>2
  <2>2. QED
    BY <2>1, TypesInitial DEF InOrderOnce
<1>2. Inv /\ [Next]_vars => Inv'
  <2> SUFFICES ASSUME Inv, [Next]_vars PROVE InOrderOnce'
    BY TypesInductive
  <2>1. /\ infos \in [Sigs -> Seq(Nat)] /\ handled \in [Sigs -> Seq(Nat)]
        /\ sent \in [Sigs -> Nat]
        /\ \A s \in Sigs : handled[s] \o infos[s] = [i \in 1..sent[s] |-> i]
    BY DEF SignalTypes, InOrderOnce
  <2>2. ASSUME NEW s \in Sigs, Deliver(s) PROVE InOrderOnce'
    <3>1. handled[s] \o Append(infos[s], sent[s] + 1) = [i \in 1..(sent[s] + 1) |-> i]
      <4>1. handled[s] \in Seq(Nat) /\ infos[s] \in Seq(Nat) /\ sent[s] \in Nat
        BY <2>1
      <4>2. handled[s] \o infos[s] = Upto(sent[s])
        BY <2>1 DEF Upto
      <4>3. handled[s] \o Append(infos[s], sent[s] + 1) = Upto(sent[s] + 1)
        BY <4>1, <4>2, AppendLast
      <4>4. QED
        BY <4>3 DEF Upto
    <3>2. /\ infos' = [infos EXCEPT ![s] = Append(@, sent[s] + 1)]
          /\ sent' = [sent EXCEPT ![s] = @ + 1] /\ handled' = handled
      BY <2>2 DEF Deliver, Enqueue
    <3>3. ASSUME NEW u \in Sigs
          PROVE  handled'[u] \o infos'[u] = [i \in 1..sent'[u] |-> i]
      <4>1. CASE u = s
        <5>1. /\ handled'[u] = handled[s] /\ infos'[u] = Append(infos[s], sent[s] + 1)
              /\ sent'[u] = sent[s] + 1
          BY <4>1, <3>2, <2>1
        <5>2. QED
          BY <5>1, <3>1
      <4>2. CASE u # s
        <5>1. handled'[u] = handled[u] /\ infos'[u] = infos[u] /\ sent'[u] = sent[u]
          BY <4>2, <3>2, <2>1
        <5>2. QED
          BY <5>1, <2>1
      <4>3. QED
        BY <4>1, <4>2
    <3>4. QED
      BY <3>3 DEF InOrderOnce
  <2>3. CASE Scan
    <3>1. PICK s \in Sigs :
             /\ infos[s] # <<>>
             /\ infos' = [infos EXCEPT ![s] = Tail(@)]
             /\ handled' = [handled EXCEPT ![s] = Append(@, Head(infos[s]))]
             /\ sent' = sent
      BY <2>3, ScanEffect
    <3>2. Append(handled[s], Head(infos[s])) \o Tail(infos[s]) = handled[s] \o infos[s]
      BY <2>1, <3>1, MoveFirst
    <3>3. ASSUME NEW u \in Sigs
          PROVE  handled'[u] \o infos'[u] = [i \in 1..sent'[u] |-> i]
      <4>1. CASE u = s
        <5>1. /\ handled'[u] = Append(handled[s], Head(infos[s]))
              /\ infos'[u] = Tail(infos[s]) /\ sent'[u] = sent[s]
          BY <4>1, <3>1, <2>1
        <5>2. QED
          BY <5>1, <3>2, <2>1
      <4>2. CASE u # s
        <5>1. handled'[u] = handled[u] /\ infos'[u] = infos[u] /\ sent'[u] = sent[u]
          BY <4>2, <3>1, <2>1
        <5>2. QED
          BY <5>1, <2>1
      <4>3. QED
        BY <4>1, <4>2
    <3>4. QED
      BY <3>3 DEF InOrderOnce
  <2>4. CASE UNCHANGED <<infos, sent, handled>>
    BY <2>1, <2>4 DEF InOrderOnce
  <2>5. QED
    BY <2>2, <2>3, <2>4, ListsUntouched DEF Next, ThreadStep
<1>3. QED
  BY <1>1, <1>2, PTL DEF Spec

-----------------------------------------------------------------------------
(* Pending bits *)

\* some call in progress is busy with the signal
Held(s) == \E i \in 1..Len(frames) : s \in frames[i].active

\* a call that is stopped has chosen no signals yet
FrameShape ==
    \A i \in 1..Len(frames) :
        frames[i].at \in {"stop", "wait", "blocked"} => frames[i].active = {}

\* the pending bits after a step that delivers nothing and starts no handler: a
\* bit stays or its list is empty, and if it stays its call does too
LEMMA PendingKept ==
    ASSUME PendingExact, infos' = infos, pending' \in SUBSET pending,
           \A s \in pending \ pending' : infos[s] = <<>>,
           \A s \in pending' : Held(s) => Held(s)'
    PROVE  PendingExact'
  BY DEF PendingExact, Held

\* another call leaves the ones below it alone
LEMMA PushFrame ==
    ASSUME frames \in Seq(Frames), FrameShape, NEW f \in Frames,
           f.active = {}, frames' = Append(frames, f)
    PROVE  FrameShape' /\ \A s : Held(s) => Held(s)'
<1>1. /\ Len(frames) \in Nat /\ Len(frames') = Len(frames) + 1
      /\ \A i \in 1..Len(frames) : frames'[i] = frames[i]
      /\ frames'[Len(frames) + 1] = f
  BY AppendProperties, LenProperties
<1>2. \A i \in 1..Len(frames') : i \in 1..Len(frames) \/ i = Len(frames) + 1
  BY <1>1
<1>3. \A i \in 1..Len(frames) : i \in 1..Len(frames')
  BY <1>1
<1>4. FrameShape'
  BY <1>1, <1>2 DEF FrameShape
<1>5. QED
  BY <1>1, <1>3, <1>4 DEF Held

\* the latest call goes on
LEMMA ReplaceFrame ==
    ASSUME frames \in Seq(Frames), FrameShape, frames # <<>>, NEW f \in Frames,
           f.at \in {"stop", "wait", "blocked"} => f.active = {},
           frames' = Top(f)
    PROVE  /\ FrameShape'
           /\ \A s : (Held(s) /\ (s \in Last(frames).active => s \in f.active)) => Held(s)'
<1>1. /\ Len(frames) \in Nat \ {0} /\ Last(frames) = frames[Len(frames)]
      /\ Len(frames') = Len(frames) /\ frames'[Len(frames)] = f
      /\ \A i \in 1..(Len(frames) - 1) : frames'[i] = frames[i]
  BY FrontAndTop DEF Top
<1>2. \A i \in 1..Len(frames) : i \in 1..(Len(frames) - 1) \/ i = Len(frames)
  BY <1>1
<1>3. FrameShape'
  <2>1. ASSUME NEW i \in 1..Len(frames'), frames'[i].at \in {"stop", "wait", "blocked"}
        PROVE  frames'[i].active = {}
    <3>1. i \in 1..Len(frames)
      BY <1>1
    <3>2. CASE i \in 1..(Len(frames) - 1)
      BY <1>1, <2>1, <3>1, <3>2 DEF FrameShape
    <3>3. CASE i = Len(frames)
      BY <1>1, <2>1, <3>3
    <3>4. QED
      BY <1>2, <3>1, <3>2, <3>3
  <2>2. QED
    BY <2>1 DEF FrameShape
<1>4. ASSUME NEW s, Held(s), s \in Last(frames).active => s \in f.active
      PROVE  Held(s)'
  <2>1. PICK i \in 1..Len(frames) : s \in frames[i].active
    BY <1>4 DEF Held
  <2>2. s \in frames'[i].active
    BY <1>1, <1>2, <1>4, <2>1
  <2>3. QED
    BY <1>1, <2>1, <2>2 DEF Held
<1>5. QED
  BY <1>3, <1>4

\* the latest call returns
LEMMA PopFrame ==
    ASSUME frames \in Seq(Frames), FrameShape, frames # <<>>, frames' = Front(frames)
    PROVE  /\ FrameShape'
           /\ \A s : Held(s) /\ s \notin Last(frames).active => Held(s)'
<1>1. /\ Len(frames) \in Nat \ {0} /\ Last(frames) = frames[Len(frames)]
      /\ Len(frames') = Len(frames) - 1
      /\ \A i \in 1..(Len(frames) - 1) : frames'[i] = frames[i]
  <2>1. PICK f \in Frames : f = frames[1]
    BY EmptySeq, ElementOfSeq
  <2>2. QED
    BY <2>1, FrontAndTop
<1>2. \A i \in 1..Len(frames) : i \in 1..(Len(frames) - 1) \/ i = Len(frames)
  BY <1>1
<1>3. \A i \in 1..(Len(frames) - 1) : i \in 1..Len(frames)
  BY <1>1
<1>4. FrameShape'
  BY <1>1, <1>3 DEF FrameShape
<1>5. ASSUME NEW s, Held(s), s \notin Last(frames).active PROVE Held(s)'
  <2>1. PICK i \in 1..Len(frames) : s \in frames[i].active
    BY <1>5 DEF Held
  <2>2. i \in 1..(Len(frames) - 1)
    BY <1>1, <1>2, <1>5, <2>1
  <2>3. QED
    BY <1>1, <2>1, <2>2 DEF Held
<1>6. QED
  BY <1>4, <1>5

\* the latest call, when it is at one of the places where it has chosen nothing
LEMMA TopShape ==
    ASSUME frames \in Seq(Frames), FrameShape, NEW l \in {"stop", "wait", "blocked"}, At(l)
    PROVE  frames # <<>> /\ Last(frames).active = {}
<1>1. frames # <<>> /\ Last(frames).at = l
  BY DEF At
<1>2. Len(frames) \in 1..Len(frames) /\ Last(frames) = frames[Len(frames)]
  BY <1>1, EmptySeq DEF Last
<1>3. QED
  BY <1>1, <1>2 DEF FrameShape

\* A siginfo is never in a list without its pending bit, and a bit without a
\* siginfo belongs to a call of myst_signal_process that will clear it.
THEOREM SignalPending == Spec => []PendingExact
<1> DEFINE Inv == SignalTypes /\ FrameShape /\ PendingExact
<1>1. Init => Inv
  <2>1. Init => FrameShape /\ PendingExact
    BY DEF Init, FrameShape, PendingExact
  <2>2. QED
    BY <2>1, TypesInitial
<1>2. Inv /\ [Next]_vars => Inv'
  <2> SUFFICES ASSUME Inv, [Next]_vars PROVE FrameShape' /\ PendingExact'
    BY TypesInductive
  <2>1. /\ pending \in SUBSET Sigs /\ infos \in [Sigs -> Seq(Nat)]
        /\ frames \in Seq(Frames) /\ FrameShape /\ PendingExact
    BY DEF SignalTypes
  <2>2. ASSUME infos' = infos, pending' = pending, FrameShape', \A s : Held(s) => Held(s)'
        PROVE  FrameShape' /\ PendingExact'
    BY <2>1, <2>2, PendingKept
  <2>3. ASSUME infos' = infos, pending' = pending, frames' = frames
        PROVE  FrameShape' /\ PendingExact'
    BY <2>1, <2>3 DEF FrameShape, PendingExact
  <2>4. ASSUME NEW s \in Sigs, Deliver(s) PROVE FrameShape' /\ PendingExact'
    <3>1. /\ infos' = [infos EXCEPT ![s] = Append(@, sent[s] + 1)]
          /\ pending' = pending \cup {s} /\ frames' = frames
      BY <2>4 DEF Deliver, Enqueue
    <3>2. Append(infos[s], sent[s] + 1) # <<>>
      <4>1. infos[s] \in Seq(Nat) /\ sent[s] + 1 \in Nat
        BY DEF SignalTypes
      <4>2. QED
        BY <4>1, AppendProperties
    <3>3. ASSUME NEW u \in Sigs
          PROVE  /\ infos'[u] # <<>> => u \in pending'
                 /\ u \in pending' /\ infos'[u] = <<>> =>
                       \E i \in 1..Len(frames') : u \in frames'[i].active
      <4>1. CASE u = s
        BY <4>1, <2>1, <3>1, <3>2
      <4>2. CASE u # s
        BY <4>2, <2>1, <3>1 DEF PendingExact
      <4>3. QED
        BY <4>1, <4>2
    <3>4. QED
      BY <2>1, <3>1, <3>3 DEF FrameShape, PendingExact
  <2>5. CASE DeliverStop \/ DeliverCont \/ ContWake \/ SigProcMask \/ UNCHANGED vars
    BY <2>3, <2>5 DEF DeliverStop, DeliverCont, ContWake, SigProcMask, vars, queueVars
  <2>6. CASE ProcessCall
    <3>1. Frame("stop", {}, NoSig) \in Frames /\ Frame("stop", {}, NoSig).active = {}
      BY FrameType DEF FrameLocations
    <3>2. QED
      BY <2>1, <2>2, <2>6, <3>1, PushFrame DEF ProcessCall, queueVars
  <2>7. ASSUME NEW l \in {"stop", "wait", "blocked"}, At(l), NEW f \in Frames,
               f.at \in {"stop", "wait", "blocked"} => f.active = {},
               frames' = Top(f), infos' = infos, pending' = pending
        PROVE  FrameShape' /\ PendingExact'
    <3>1. frames # <<>> /\ Last(frames).active = {}
      BY <2>1, <2>7, TopShape
    <3>2. QED
      BY <2>1, <2>2, <2>7, <3>1, ReplaceFrame
  <2>8. /\ Frame("scan", Active, NoSig) \in Frames /\ Frame("scan", Active, NoSig).at = "scan"
        /\ \A l \in {"stop", "wait", "blocked"} :
              /\ Frame(l, {}, NoSig) \in Frames
              /\ Frame(l, {}, NoSig).at = l /\ Frame(l, {}, NoSig).active = {}
    BY <2>1, FrameType DEF FrameLocations, Active
  <2>9. CASE StopCheck
    BY <2>7, <2>8, <2>9 DEF StopCheck, queueVars
  <2>10. CASE StopWait
    <3> DEFINE f == Frame("wait", {}, NoSig)
               g == Frame("stop", {}, NoSig)
    <3>1. frames # <<>> /\ Last(frames).active = {}
      BY <2>1, <2>10, TopShape DEF StopWait
    <3>2. f \in Frames /\ g \in Frames /\ f.active = {} /\ g.active = {}
      BY <2>8
    <3>3. /\ Top(f) \in Seq(Frames) /\ Len(Top(f)) = Len(frames)
          /\ Len(frames) \in Nat \ {0} /\ Last(frames) = frames[Len(frames)]
          /\ Top(f)[Len(frames)] = f
          /\ \A i \in 1..(Len(frames) - 1) : Top(f)[i] = frames[i]
      BY <2>1, <3>1, <3>2, FrontAndTop DEF Top
    <3>4. /\ Len(frames') = Len(frames) + 1 /\ frames'[Len(frames) + 1] = g
          /\ \A i \in 1..Len(frames) : frames'[i] = Top(f)[i]
      BY <2>10, <3>2, <3>3, AppendProperties DEF StopWait
    <3>5. /\ frames'[Len(frames)] = f
          /\ \A i \in 1..(Len(frames) - 1) : frames'[i] = frames[i] /\ i \in 1..Len(frames')
      BY <3>3, <3>4
    <3>6. \A i \in 1..Len(frames') :
             i \in 1..(Len(frames) - 1) \/ i = Len(frames) \/ i = Len(frames) + 1
      BY <3>3, <3>4
    <3>7. \A i \in 1..(Len(frames) - 1) : i \in 1..Len(frames)
      BY <3>3
    <3>8. FrameShape'
      BY <2>1, <3>2, <3>4, <3>5, <3>6, <3>7 DEF FrameShape
    <3>9. ASSUME NEW s, Held(s) PROVE Held(s)'
      <4>1. PICK i \in 1..Len(frames) : s \in frames[i].active
        BY <3>9 DEF Held
      <4>2. i \in 1..(Len(frames) - 1)
        BY <3>1, <3>3, <4>1
      <4>3. QED
        BY <3>5, <4>1, <4>2 DEF Held
    <3>10. QED
      BY <2>2, <2>10, <3>8, <3>9 DEF StopWait, queueVars
  <2>11. CASE StopBlock
    BY <2>7, <2>8, <2>11 DEF StopBlock, queueVars
  <2>12. CASE StopResume
    <3>1. CASE event = "cont"
      BY <2>7, <2>8, <2>12, <3>1 DEF StopResume, queueVars
    <3>2. CASE event # "cont"
      BY <2>7, <2>8, <2>12, <3>2 DEF StopResume, queueVars
    <3>3. QED
      BY <3>1, <3>2
  <2>13. CASE Scan
    <3>1. frames # <<>> /\ Last(frames) \in Frames
      BY <2>13, ScanEffect
    <3>2. PICK s \in Last(frames).active, done \in SUBSET Sigs :
             /\ s \in Sigs /\ infos[s] # <<>> /\ s \notin done
             /\ \A u \in done : infos[u] = <<>>
             /\ infos' = [infos EXCEPT ![s] = Tail(@)]
             /\ pending' = pending \ done
             /\ frames' = Top(Frame("handler", Last(frames).active \ done, s))
      BY <2>13, ScanEffect
    <3> DEFINE f == Frame("handler", Last(frames).active \ done, s)
    <3>3. f \in Frames /\ f.at = "handler" /\ f.active = Last(frames).active \ done
      <4>1. Last(frames).active \ done \in SUBSET Sigs /\ s \in Sigs \cup {NoSig}
        BY <3>1, <3>2 DEF Frames
      <4>2. QED
        BY <4>1, FrameType DEF FrameLocations
    <3>4. /\ FrameShape'
          /\ \A u : (Held(u) /\ (u \in Last(frames).active => u \in f.active)) => Held(u)'
      BY <2>1, <3>1, <3>2, <3>3, ReplaceFrame
    <3>5. \A u : u \notin done /\ Held(u) => Held(u)'
      BY <3>3, <3>4
    <3>6. Held(s)
      <4>1. Len(frames) \in 1..Len(frames) /\ Last(frames) = frames[Len(frames)]
        BY <2>1, <3>1, EmptySeq DEF Last
      <4>2. QED
        BY <3>2, <4>1 DEF Held
    <3>7. ASSUME NEW u \in Sigs
          PROVE  /\ infos'[u] # <<>> => u \in pending'
                 /\ u \in pending' /\ infos'[u] = <<>> => Held(u)'
      <4>1. CASE u = s
        <5>1. s \in pending'
          BY <2>1, <3>2 DEF PendingExact
        <5>2. Held(s)'
          BY <3>2, <3>5, <3>6
        <5>3. QED
          BY <4>1, <5>1, <5>2
      <4>2. CASE u # s
        <5>1. infos'[u] = infos[u]
          BY <2>1, <3>2, <4>2
        <5>2. infos[u] # <<>> => u \in pending /\ u \notin done
          BY <2>1, <3>2 DEF PendingExact
        <5>3. u \in pending' /\ infos[u] = <<>> => Held(u) /\ u \notin done
          BY <2>1, <3>2 DEF PendingExact, Held
        <5>4. QED
          BY <3>2, <3>5, <5>1, <5>2, <5>3
      <4>3. QED
        BY <4>1, <4>2
    <3>8. QED
      BY <3>4, <3>7 DEF PendingExact, Held
  <2>14. CASE ScanEnd
    <3>1. /\ frames # <<>> /\ frames' = Front(frames) /\ infos' = infos
          /\ pending' = pending \ Last(frames).active
          /\ \A s \in Last(frames).active : infos[s] = <<>>
      BY <2>14 DEF ScanEnd, At
    <3>2. FrameShape' /\ \A s : Held(s) /\ s \notin Last(frames).active => Held(s)'
      BY <2>1, <3>1, PopFrame
    <3>3. \A s \in pending' : Held(s) => Held(s)'
      BY <3>1, <3>2
    <3>4. pending' \in SUBSET pending /\ \A s \in pending \ pending' : infos[s] = <<>>
      BY <3>1
    <3>5. PendingExact'
      BY <2>1, <3>1, <3>3, <3>4, PendingKept
    <3>6. QED
      BY <3>2, <3>5
  <2>15. CASE HandlerReturn
    <3> DEFINE f == Frame("scan", Last(frames).active, NoSig)
    <3>1. frames # <<>> /\ Last(frames) \in Frames
      BY <2>1, <2>15, EmptySeq, ElementOfSeq DEF HandlerReturn, At, Last
    <3>2. f \in Frames /\ f.at = "scan" /\ f.active = Last(frames).active
      BY <3>1, FrameType DEF Frames, FrameLocations
    <3>3. frames' = Top(f) /\ infos' = infos /\ pending' = pending
      BY <2>15 DEF HandlerReturn, queueVars
    <3>4. FrameShape' /\ \A s : Held(s) => Held(s)'
      BY <2>1, <3>1, <3>2, <3>3, ReplaceFrame
    <3>5. QED
      BY <2>2, <3>3, <3>4
  <2>16. QED
    BY <2>4, <2>5, <2>6, <2>9, <2>10, <2>11, <2>12, <2>13, <2>14, <2>15
       DEF Next, ThreadStep
<1>3. QED
  BY <1>1, <1>2, PTL DEF Spec

-----------------------------------------------------------------------------
(* The mask *)

\* with no handler running, the mask is the thread's own
MaskOwn ==
    (\A i \in 1..Len(frames) : frames[i].at # "handler") => mask = original

\* a step by the calls that leaves the masks and the running handlers alone
LEMMA MaskKept ==
    ASSUME MaskOwn, UNCHANGED <<mask, original>>,
           \A i \in 1..Len(frames) :
              frames[i].at = "handler" => i \in 1..Len(frames') /\ frames'[i] = frames[i]
    PROVE  MaskOwn'
  BY DEF MaskOwn

\* In user code outside all handlers the mask is the one that sigprocmask set:
\* myst_signal_restore_mask undoes what nested handlers did.
THEOREM SignalMask == Spec => []MaskRestored
<1> DEFINE Inv == SignalTypes /\ MaskOwn
<1>1. Init => Inv
  BY TypesInitial DEF Init, MaskOwn
<1>2. Inv /\ [Next]_vars => Inv'
  <2> SUFFICES ASSUME Inv, [Next]_vars PROVE MaskOwn'
    BY TypesInductive
  <2>1. frames \in Seq(Frames) /\ MaskOwn
    BY DEF SignalTypes
  <2>2. ASSUME frames' = frames, UNCHANGED <<mask, original>> PROVE MaskOwn'
    BY <2>1, <2>2 DEF MaskOwn
  <2>3. CASE (\E s \in Sigs : Deliver(s)) \/ DeliverStop \/ DeliverCont \/ ContWake
             \/ UNCHANGED vars
    BY <2>2, <2>3 DEF Deliver, DeliverStop, DeliverCont, ContWake, vars, maskVars
  <2>4. CASE SigProcMask \/ HandlerReturn
    BY <2>4 DEF SigProcMask, HandlerReturn, RestoredMask, MaskOwn
  <2>5. CASE Scan
    <3>1. frames # <<>>
      BY <2>5, ScanEffect
    <3>2. PICK s \in Sigs, a \in SUBSET Sigs : frames' = Top(Frame("handler", a, s))
      <4>1. Last(frames) \in Frames
        BY <2>5, ScanEffect
      <4>2. Last(frames).active \in SUBSET Sigs
        BY <4>1 DEF Frames
      <4>3. \E s \in Sigs, done \in SUBSET Sigs :
               frames' = Top(Frame("handler", Last(frames).active \ done, s))
        BY <2>5, ScanEffect
      <4>4. QED
        BY <4>2, <4>3
    <3>3. Frame("handler", a, s) \in Frames /\ Frame("handler", a, s).at = "handler"
      BY FrameType DEF FrameLocations
    <3>4. /\ Len(frames) \in Nat \ {0} /\ Len(frames') = Len(frames)
          /\ frames'[Len(frames)] = Frame("handler", a, s)
      BY <2>1, <3>1, <3>2, <3>3, FrontAndTop DEF Top
    <3>5. Len(frames') \in 1..Len(frames') /\ frames'[Len(frames')].at = "handler"
      BY <3>3, <3>4
    <3>6. QED
      BY <3>5 DEF MaskOwn
  <2>6. CASE ProcessCall
    <3>1. Frame("stop", {}, NoSig) \in Frames
      BY FrameType DEF FrameLocations
    <3>2. /\ frames' = Append(frames, Frame("stop", {}, NoSig))
          /\ UNCHANGED <<mask, original>>
      BY <2>6 DEF ProcessCall, maskVars
    <3>3. /\ Len(frames) \in Nat /\ Len(frames') = Len(frames) + 1
          /\ \A i \in 1..Len(frames) : frames'[i] = frames[i]
      BY <2>1, <3>1, <3>2, AppendProperties, LenProperties
    <3>4. \A i \in 1..Len(frames) : i \in 1..Len(frames')
      BY <3>3
    <3>5. QED
      BY <2>1, <3>2, <3>3, <3>4, MaskKept
  <2>7. ASSUME frames # <<>>, Last(frames).at # "handler", UNCHANGED <<mask, original>>,
               Len(frames') >= Len(frames) - 1, Len(frames') \in Nat,
               \A i \in 1..(Len(frames) - 1) : frames'[i] = frames[i]
        PROVE  MaskOwn'
    <3>1. Len(frames) \in Nat \ {0} /\ Last(frames) = frames[Len(frames)]
      BY <2>1, <2>7, EmptySeq DEF Last
    <3>2. \A i \in 1..Len(frames) : i = Len(frames) \/ i \in 1..(Len(frames) - 1)
      BY <3>1
    <3>3. \A i \in 1..(Len(frames) - 1) : i \in 1..Len(frames')
      BY <2>7, <3>1
    <3>4. QED
      BY <2>1, <2>7, <3>1, <3>2, <3>3, MaskKept
  <2>8. ASSUME frames # <<>>, Last(frames).at # "handler", UNCHANGED <<mask, original>>,
               NEW f \in Frames, frames' = Top(f)
        PROVE  MaskOwn'
    <3>1. /\ Len(frames) \in Nat \ {0} /\ Len(frames') = Len(frames)
          /\ \A i \in 1..(Len(frames) - 1) : frames'[i] = frames[i]
      BY <2>1, <2>8, FrontAndTop DEF Top
    <3>2. Len(frames') >= Len(frames) - 1 /\ Len(frames') \in Nat
      BY <3>1
    <3>3. QED
      BY <2>7, <2>8, <3>1, <3>2
  <2>9. /\ Frame("scan", Active, NoSig) \in Frames /\ Frame("stop", {}, NoSig) \in Frames
        /\ Frame("wait", {}, NoSig) \in Frames /\ Frame("blocked", {}, NoSig) \in Frames
    BY FrameType DEF FrameLocations, Active, SignalTypes
  <2>10. CASE StopCheck
    BY <2>8, <2>9, <2>10 DEF StopCheck, At, maskVars
  <2>11. CASE StopBlock
    BY <2>8, <2>9, <2>11 DEF StopBlock, At, maskVars
  <2>12. CASE StopResume
    <3>1. CASE event = "cont"
      BY <2>8, <2>9, <2>12, <3>1 DEF StopResume, At, maskVars
    <3>2. CASE event # "cont"
      BY <2>8, <2>9, <2>12, <3>2 DEF StopResume, At, maskVars
    <3>3. QED
      BY <3>1, <3>2
  <2>13. CASE StopWait
    <3> DEFINE f == Frame("wait", {}, NoSig)
    <3>1. /\ frames # <<>> /\ Last(frames).at # "handler" /\ UNCHANGED <<mask, original>>
          /\ frames' = Append(Top(f), Frame("stop", {}, NoSig))
      BY <2>13 DEF StopWait, At, maskVars
    <3>2. /\ Top(f) \in Seq(Frames) /\ Len(Top(f)) = Len(frames)
          /\ Len(frames) \in Nat \ {0}
          /\ \A i \in 1..(Len(frames) - 1) : Top(f)[i] = frames[i]
      BY <2>1, <2>9, <3>1, FrontAndTop DEF Top
    <3>3. /\ Len(frames') = Len(frames) + 1
          /\ \A i \in 1..Len(frames) : frames'[i] = Top(f)[i]
      BY <2>9, <3>1, <3>2, AppendProperties
    <3>4. /\ Len(frames') >= Len(frames) - 1 /\ Len(frames') \in Nat
          /\ \A i \in 1..(Len(frames) - 1) : i \in 1..Len(frames)
      BY <3>2, <3>3
    <3>5. QED
      BY <2>7, <3>1, <3>2, <3>3, <3>4
  <2>14. CASE ScanEnd
    <3>1. /\ frames # <<>> /\ Last(frames).at # "handler" /\ UNCHANGED <<mask, original>>
          /\ frames' = Front(frames)
      BY <2>14 DEF ScanEnd, At, maskVars
    <3>2. /\ Len(frames) \in Nat \ {0} /\ Len(frames') = Len(frames) - 1
          /\ \A i \in 1..(Len(frames) - 1) : frames'[i] = frames[i]
      BY <2>1, <2>9, <3>1, FrontAndTop
    <3>3. Len(frames') >= Len(frames) - 1 /\ Len(frames') \in Nat
      BY <3>2
    <3>4. QED
      BY <2>7, <3>1, <3>2, <3>3
  <2>15. QED
    BY <2>3, <2>4, <2>5, <2>6, <2>10, <2>11, <2>12, <2>13, <2>14 DEF Next, ThreadStep
<1>3. Inv => MaskRestored
  BY EmptySeq DEF SignalTypes, MaskOwn, MaskRestored
<1>4. QED
  BY <1>1, <1>2, <1>3, PTL DEF Spec

-----------------------------------------------------------------------------
(* The types of the other variables, and the mutex of the stop word *)

\* the calls that wait for SIGCONT and hold the mutex, and those with a signal
WaitsOf(q) == {i \in 1..Len(q) : q[i].at = "wait"}
SigsOf(q) == \A i \in 1..Len(q) : q[i].sig \in Sigs \cup {NoSig}

\* The mutex is held once for every call that waits, and every SIGCONT that has still to
\* wake the thread answers a SIGSTOP of its own.
StopsExact ==
    /\ SigsOf(frames) /\ Len(frames) <= MaxDepth
    /\ refs = Cardinality(WaitsOf(frames))
    /\ stops \in Nat /\ stops <= MaxStops
    /\ continuing \in Nat /\ continuing + (IF stopped THEN 1 ELSE 0) <= stops
    /\ mask \subseteq Sigs /\ original \subseteq Sigs
    /\ stopped \in BOOLEAN /\ event \in {"none", "cont", "signal"}

\* The calls that wait are finitely many.
LEMMA WaitsFinite ==
    ASSUME NEW q \in Seq(Frames)
    PROVE  /\ IsFiniteSet(WaitsOf(q)) /\ Cardinality(WaitsOf(q)) \in Nat
           /\ Cardinality(WaitsOf(q)) <= Len(q)
<1>1. Len(q) \in Nat BY LenProperties
<1>2. 1 \in Int /\ Len(q) \in Int BY <1>1
<1>3. IsFiniteSet(1..Len(q))
      /\ Cardinality(1..Len(q)) = IF 1 > Len(q) THEN 0 ELSE Len(q) - 1 + 1
  BY <1>2, FS_Interval
<1>4. Cardinality(1..Len(q)) = Len(q) BY <1>1, <1>3
<1>5. WaitsOf(q) \subseteq 1..Len(q) BY DEF WaitsOf
<1>6. IsFiniteSet(WaitsOf(q)) /\ Cardinality(WaitsOf(q)) <= Cardinality(1..Len(q))
  BY <1>3, <1>5, FS_Subset
<1>7. Cardinality(WaitsOf(q)) \in Nat BY <1>6, FS_CardinalityType
<1> QED BY <1>4, <1>6, <1>7

\* A new call does not wait yet.
LEMMA WaitsPush ==
    ASSUME NEW q \in Seq(Frames), NEW f \in Frames, f.at # "wait", f.sig \in Sigs \cup {NoSig},
           SigsOf(q)
    PROVE  /\ Append(q, f) \in Seq(Frames) /\ Len(Append(q, f)) = Len(q) + 1
           /\ WaitsOf(Append(q, f)) = WaitsOf(q) /\ SigsOf(Append(q, f))
<1> DEFINE r == Append(q, f)
<1>1. /\ r \in Seq(Frames) /\ Len(r) = Len(q) + 1 /\ Len(q) \in Nat
      /\ \A i \in 1..Len(q) : r[i] = q[i]
      /\ r[Len(q) + 1] = f
  BY AppendProperties, LenProperties
<1> HIDE DEF r
<1>2. \A i \in 1..Len(r) : i \in 1..Len(q) \/ i = Len(q) + 1 BY <1>1
<1>3. \A i \in 1..Len(q) : i \in 1..Len(r) BY <1>1
<1>4. WaitsOf(r) = WaitsOf(q) BY <1>1, <1>2, <1>3 DEF WaitsOf
<1>5. SigsOf(r) BY <1>1, <1>2 DEF SigsOf
<1> QED BY <1>1, <1>4, <1>5 DEF r

\* A call that returns does not wait any more.
LEMMA WaitsPop ==
    ASSUME NEW q \in Seq(Frames), q # <<>>, Last(q).at # "wait", SigsOf(q)
    PROVE  /\ Len(Front(q)) = Len(q) - 1 /\ Len(q) \in Nat
           /\ WaitsOf(Front(q)) = WaitsOf(q) /\ SigsOf(Front(q))
<1> DEFINE r == Front(q)
<1>0. PICK f \in Frames : f = q[1] BY EmptySeq, ElementOfSeq
<1>1. /\ Len(q) \in Nat \ {0} /\ Last(q) = q[Len(q)] /\ Len(r) = Len(q) - 1
      /\ \A i \in 1..(Len(q) - 1) : r[i] = q[i]
  BY FrontAndTop
<1> HIDE DEF r
<1>2. \A i \in 1..Len(q) : i \in 1..Len(r) \/ i = Len(q) BY <1>1
<1>3. \A i \in 1..Len(r) : i \in 1..Len(q) /\ i \in 1..(Len(q) - 1) BY <1>1
<1>4. WaitsOf(r) = WaitsOf(q) BY <1>1, <1>2, <1>3 DEF WaitsOf
<1>5. SigsOf(r) BY <1>1, <1>3 DEF SigsOf
<1> QED BY <1>1, <1>4, <1>5 DEF r

\* The latest call goes to another place, where it waits or not.
LEMMA WaitsTop ==
    ASSUME NEW q \in Seq(Frames), q # <<>>, NEW f \in Frames, f.sig \in Sigs \cup {NoSig},
           SigsOf(q)
    PROVE  LET r == Append(Front(q), f) IN
           /\ r \in Seq(Frames) /\ Len(r) = Len(q) /\ SigsOf(r)
           /\ f.at # "wait" /\ Last(q).at # "wait" => WaitsOf(r) = WaitsOf(q)
           /\ f.at = "wait" /\ Last(q).at # "wait" =>
                 Cardinality(WaitsOf(r)) = Cardinality(WaitsOf(q)) + 1
           /\ f.at # "wait" /\ Last(q).at = "wait" =>
                 Cardinality(WaitsOf(r)) = Cardinality(WaitsOf(q)) - 1
<1> DEFINE r == Append(Front(q), f) n == Len(q)
<1>1. /\ n \in Nat \ {0} /\ Last(q) = q[n] /\ r \in Seq(Frames) /\ Len(r) = n
      /\ r[n] = f /\ \A i \in 1..(n - 1) : r[i] = q[i]
  BY FrontAndTop
<1>a. WaitsOf(q) = {i \in 1..n : q[i].at = "wait"} BY DEF WaitsOf
<1>b. SigsOf(r) <=> \A i \in 1..Len(r) : r[i].sig \in Sigs \cup {NoSig} BY DEF SigsOf
<1>c. \A i \in 1..n : q[i].sig \in Sigs \cup {NoSig} BY DEF SigsOf
<1>d. WaitsOf(r) = {i \in 1..Len(r) : r[i].at = "wait"} BY DEF WaitsOf
<1>e. IsFiniteSet(WaitsOf(q)) /\ Cardinality(WaitsOf(q)) \in Nat BY WaitsFinite
<1> HIDE DEF r, n
<1>2. \A i \in 1..n : i = n \/ i \in 1..(n - 1) BY <1>1
<1>3. \A i \in 1..(n - 1) : i \in 1..n /\ i # n BY <1>1
<1>4. n \in 1..n BY <1>1
<1>5. SigsOf(r) BY <1>1, <1>2, <1>b, <1>c
<1>6. WaitsOf(r) \ {n} = WaitsOf(q) \ {n} BY <1>1, <1>2, <1>a, <1>d
<1>7. (n \in WaitsOf(r) <=> f.at = "wait") /\ (n \in WaitsOf(q) <=> Last(q).at = "wait")
  BY <1>1, <1>4, <1>a, <1>d
<1>8. ASSUME f.at # "wait", Last(q).at # "wait" PROVE WaitsOf(r) = WaitsOf(q)
  <2>1. n \notin WaitsOf(r) /\ n \notin WaitsOf(q) BY <1>7, <1>8
  <2>2. WaitsOf(r) = WaitsOf(r) \ {n} /\ WaitsOf(q) = WaitsOf(q) \ {n} BY <2>1, Zenon
  <2> QED BY <1>6, <2>2
<1>9. ASSUME f.at = "wait", Last(q).at # "wait"
      PROVE  Cardinality(WaitsOf(r)) = Cardinality(WaitsOf(q)) + 1
  <2>1. WaitsOf(r) = WaitsOf(q) \cup {n} /\ n \notin WaitsOf(q) BY <1>6, <1>7, <1>9
  <2> QED BY <2>1, <1>e, FS_AddElement
<1>10. ASSUME f.at # "wait", Last(q).at = "wait"
       PROVE  Cardinality(WaitsOf(r)) = Cardinality(WaitsOf(q)) - 1
  <2>1. WaitsOf(r) = WaitsOf(q) \ {n} /\ n \in WaitsOf(q) BY <1>6, <1>7, <1>10
  <2> QED BY <2>1, <1>e, FS_RemoveElement
<1>11. n = Len(q) /\ r = Append(Front(q), f) BY DEF n, r
<1> QED BY <1>1, <1>5, <1>8, <1>9, <1>10, <1>11

\* Steps that leave the calls and the mutex alone.
LEMMA StopsSame ==
    ASSUME StopsExact, frames' = frames, refs' = refs,
           stops' \in Nat, stops' <= MaxStops, stopped' \in BOOLEAN,
           continuing' \in Nat, continuing' + (IF stopped' THEN 1 ELSE 0) <= stops',
           mask' \subseteq Sigs, original' \subseteq Sigs, event' \in {"none", "cont", "signal"}
    PROVE  StopsExact'
<1>1. SigsOf(frames)' /\ Len(frames') <= MaxDepth /\ refs' = Cardinality(WaitsOf(frames))'
  BY DEF StopsExact
<1> QED BY <1>1 DEF StopsExact

\* Steps that change the calls, with the mutex as it then has to be.
LEMMA StopsMoved ==
    ASSUME StopsExact, UNCHANGED <<stopped, continuing, stops>>,
           mask' \subseteq Sigs, original' \subseteq Sigs, event' \in {"none", "cont", "signal"},
           SigsOf(frames'), Len(frames') <= MaxDepth, refs' = Cardinality(WaitsOf(frames'))
    PROVE  StopsExact'
<1>1. SigsOf(frames)' /\ WaitsOf(frames)' = WaitsOf(frames') BY DEF SigsOf, WaitsOf
<1> QED BY <1>1 DEF StopsExact

\* Every step keeps the types, the mutex and the SIGCONTs.
LEMMA StopsInductive ==
    ASSUME SignalTypes, StopsExact, [Next]_vars PROVE StopsExact'
<1>1. frames \in Seq(Frames) /\ Len(frames) \in Nat /\ pending \subseteq Sigs
  BY LenProperties DEF SignalTypes
<1>2. /\ SigsOf(frames) /\ Len(frames) <= MaxDepth
      /\ refs = Cardinality(WaitsOf(frames)) /\ refs \in Nat
      /\ mask \subseteq Sigs /\ original \subseteq Sigs /\ event \in {"none", "cont", "signal"}
  BY <1>1, WaitsFinite DEF StopsExact
<1>3. /\ stops \in Nat /\ stops <= MaxStops /\ continuing \in Nat /\ stopped \in BOOLEAN
      /\ continuing + (IF stopped THEN 1 ELSE 0) <= stops
  BY DEF StopsExact
<1>4. MaxStops \in Nat /\ MaxDepth \in Nat BY BoundsAssumption
<1>5. \A l \in FrameLocations, a \in SUBSET Sigs, s \in Sigs \cup {NoSig} :
         /\ Frame(l, a, s) \in Frames /\ Frame(l, a, s).at = l /\ Frame(l, a, s).sig = s
  BY FrameType
<1>6. NoSig \in Sigs \cup {NoSig} /\ {} \in SUBSET Sigs /\ Active \in SUBSET Sigs
  BY <1>1 DEF Active
<1>7. CASE UNCHANGED vars
  BY <1>2, <1>3, <1>7, StopsSame DEF vars, stopVars, maskVars
<1>8. ASSUME NEW s \in Sigs, Deliver(s) PROVE StopsExact'
  BY <1>2, <1>3, <1>8, StopsSame DEF Deliver, maskVars
<1>9. CASE DeliverStop
  <2>1. stops' = stops + 1 /\ stops < MaxStops /\ stopped' = TRUE /\ continuing' = continuing
    BY <1>9 DEF DeliverStop
  <2>2. /\ stops' \in Nat /\ stops' <= MaxStops
        /\ continuing' + (IF stopped' THEN 1 ELSE 0) <= stops'
    BY <1>3, <1>4, <2>1
  <2> QED BY <1>2, <1>3, <1>9, <2>1, <2>2, StopsSame DEF DeliverStop, maskVars
<1>10. CASE DeliverCont
  <2>1. stops' = stops /\ stopped = TRUE /\ stopped' = FALSE /\ continuing' = continuing + 1
    BY <1>3, <1>10 DEF DeliverCont
  <2>2. continuing' \in Nat /\ continuing' + (IF stopped' THEN 1 ELSE 0) <= stops'
    BY <1>3, <2>1
  <2> QED BY <1>2, <1>3, <1>10, <2>1, <2>2, StopsSame DEF DeliverCont, maskVars
<1>11. CASE ContWake
  <2>1. stops' = stops /\ stopped' = stopped /\ continuing > 0 /\ continuing' = continuing - 1
    BY <1>11 DEF ContWake
  <2>2. continuing' \in Nat /\ continuing' + (IF stopped' THEN 1 ELSE 0) <= stops'
    BY <1>3, <2>1
  <2> QED BY <1>2, <1>3, <1>11, <2>1, <2>2, StopsSame DEF ContWake, maskVars
<1>12. CASE SigProcMask
  <2>1. mask' \subseteq Sigs /\ original' \subseteq Sigs
    <3>1. PICK m \in Masks : mask' = m \/ mask' = mask \cup m \/ mask' = mask \ m
      BY <1>12 DEF SigProcMask
    <3>2. m \subseteq Sigs BY SigsAssumption
    <3>4. mask \subseteq Sigs BY <1>2
    <3>3. original' = mask' BY <1>12 DEF SigProcMask
    <3> QED BY <3>1, <3>2, <3>3, <3>4
  <2> QED BY <1>2, <1>3, <1>12, <2>1, StopsSame DEF SigProcMask, stopVars
<1>13. CASE ProcessCall
  <2> DEFINE f == Frame("stop", {}, NoSig)
  <2>1. f \in Frames /\ f.at = "stop" /\ f.sig = NoSig BY <1>5, <1>6 DEF FrameLocations
  <2>2. frames' = Append(frames, f) /\ Len(frames) < MaxDepth /\ refs' = refs
    BY <1>13 DEF ProcessCall, stopVars
  <2> HIDE DEF f
  <2>3. /\ Len(frames') = Len(frames) + 1
        /\ WaitsOf(frames') = WaitsOf(frames) /\ SigsOf(frames')
    BY <1>1, <1>2, <1>6, <2>1, <2>2, WaitsPush
  <2>4. Len(frames') <= MaxDepth BY <1>1, <1>4, <2>2, <2>3
  <2> QED BY <1>2, <1>13, <2>2, <2>3, <2>4, StopsMoved DEF ProcessCall, stopVars, maskVars
<1>14. ASSUME NEW f \in Frames, f.at # "wait", f.sig \in Sigs \cup {NoSig}, frames # <<>>,
              Last(frames).at # "wait", frames' = Top(f), refs' = refs,
              UNCHANGED <<stopped, continuing, stops>>,
              mask' \subseteq Sigs, original' = original, event' \in {"none", "cont", "signal"}
       PROVE  StopsExact'
  <2>1. /\ Len(frames') = Len(frames) /\ WaitsOf(frames') = WaitsOf(frames)
        /\ SigsOf(frames')
    BY <1>1, <1>2, <1>14, WaitsTop DEF Top
  <2> QED BY <1>2, <1>14, <2>1, StopsMoved
<1>15. CASE StopCheck
  <2>1. Frame("scan", Active, NoSig) \in Frames /\ Frame("scan", Active, NoSig).at = "scan"
        /\ Frame("scan", Active, NoSig).sig = NoSig
    BY <1>5, <1>6 DEF FrameLocations
  <2> QED BY <1>2, <1>6, <1>14, <1>15, <2>1 DEF StopCheck, At, stopVars, maskVars
<1>16. CASE StopResume
  <2>1. PICK f \in Frames : f.at # "wait" /\ f.sig = NoSig /\ frames' = Top(f)
    <3>1. /\ Frame("scan", Active, NoSig) \in Frames /\ Frame("scan", Active, NoSig).at = "scan"
          /\ Frame("scan", Active, NoSig).sig = NoSig
          /\ Frame("stop", {}, NoSig) \in Frames /\ Frame("stop", {}, NoSig).at = "stop"
          /\ Frame("stop", {}, NoSig).sig = NoSig
      BY <1>5, <1>6 DEF FrameLocations
    <3>2. frames' = Top(Frame("stop", {}, NoSig)) \/ frames' = Top(Frame("scan", Active, NoSig))
      BY <1>16 DEF StopResume
    <3> QED BY <3>1, <3>2
  <2>2. refs' = refs BY <1>2, <1>16 DEF StopResume, RelockedUnlocked
  <2>3. frames # <<>> /\ Last(frames).at = "blocked" BY <1>16 DEF StopResume, At
  <2>4. /\ UNCHANGED <<stopped, continuing, stops>> /\ mask' \subseteq Sigs
        /\ original' = original /\ event' \in {"none", "cont", "signal"}
    BY <1>2, <1>16 DEF StopResume, maskVars
  <2> QED BY <1>6, <1>14, <2>1, <2>2, <2>3, <2>4
<1>17. CASE StopBlock
  <2> DEFINE f == Frame("blocked", {}, NoSig)
  <2>1. f \in Frames /\ f.at = "blocked" /\ f.sig = NoSig BY <1>5, <1>6 DEF FrameLocations
  <2>2. /\ frames # <<>> /\ Last(frames).at = "wait" /\ frames' = Top(f) /\ refs' = refs - 1
        /\ UNCHANGED <<stopped, continuing, stops, mask, original>> /\ event' = "none"
    BY <1>17 DEF StopBlock, At, maskVars
  <2> HIDE DEF f
  <2>3. /\ Len(frames') = Len(frames) /\ SigsOf(frames')
        /\ Cardinality(WaitsOf(frames')) = Cardinality(WaitsOf(frames)) - 1
    BY <1>1, <1>2, <1>6, <2>1, <2>2, WaitsTop DEF Top
  <2> QED BY <1>2, <2>2, <2>3, StopsMoved
<1>18. CASE StopWait
  <2> DEFINE f == Frame("wait", {}, NoSig) h == Frame("stop", {}, NoSig)
  <2>1. /\ f \in Frames /\ f.at = "wait" /\ f.sig = NoSig
        /\ h \in Frames /\ h.at = "stop" /\ h.sig = NoSig
    BY <1>5, <1>6 DEF FrameLocations
  <2>2. /\ frames # <<>> /\ Last(frames).at = "stop" /\ frames' = Append(Top(f), h)
        /\ Len(frames) < MaxDepth /\ refs' = refs + 1
        /\ UNCHANGED <<stopped, continuing, stops, mask, original, event>>
    BY <1>18 DEF StopWait, At, maskVars
  <2> HIDE DEF f, h
  <2>3. /\ Top(f) \in Seq(Frames) /\ Len(Top(f)) = Len(frames) /\ SigsOf(Top(f))
        /\ Cardinality(WaitsOf(Top(f))) = Cardinality(WaitsOf(frames)) + 1
    BY <1>1, <1>2, <1>6, <2>1, <2>2, WaitsTop DEF Top
  <2>4. /\ Len(frames') = Len(frames) + 1 /\ SigsOf(frames')
        /\ WaitsOf(frames') = WaitsOf(Top(f))
    BY <1>6, <2>1, <2>2, <2>3, WaitsPush
  <2>5. Len(frames') <= MaxDepth BY <1>1, <1>4, <2>2, <2>4
  <2> QED BY <1>2, <2>2, <2>3, <2>4, <2>5, StopsMoved
<1>19. CASE Scan
  <2>1. frames # <<>> /\ Last(frames) \in Frames BY <1>19, ScanEffect
  <2>2. PICK s \in Sigs, a \in SUBSET Sigs : frames' = Top(Frame("handler", a, s))
    <3>1. Last(frames).active \in SUBSET Sigs BY <2>1 DEF Frames
    <3>2. \E s \in Sigs, done \in SUBSET Sigs :
             frames' = Top(Frame("handler", Last(frames).active \ done, s))
      BY <1>19, ScanEffect
    <3> QED BY <3>1, <3>2
  <2>3. PICK u \in Sigs : mask' = HandlerMask(u)
    <3> DEFINE ready == {v \in Last(frames).active : infos[v] # <<>>}
    <3>1. Last(frames).active \in SUBSET Sigs BY <2>1 DEF Frames
    <3>2. ready # {} /\ ready \subseteq Sigs /\ ready \subseteq Nat
      BY <1>19, <3>1, SigsAssumption DEF Scan
    <3>3. Min(ready) \in ready BY <3>2, MinProperties
    <3>4. mask' = HandlerMask(Min(ready)) BY <1>19 DEF Scan
    <3> QED BY <3>2, <3>3, <3>4
  <2>4. mask' \subseteq Sigs BY <1>2, <2>3, SigsAssumption DEF HandlerMask
  <2>5. /\ Frame("handler", a, s) \in Frames /\ Frame("handler", a, s).at = "handler"
        /\ Frame("handler", a, s).sig = s
    BY <1>5 DEF FrameLocations
  <2>6. /\ Last(frames).at = "scan" /\ refs' = refs /\ UNCHANGED <<stopped, continuing, stops>>
        /\ original' = original /\ event' = event
    BY <1>19 DEF Scan, At, stopVars
  <2> QED BY <1>2, <1>14, <2>1, <2>2, <2>4, <2>5, <2>6
<1>20. CASE ScanEnd
  <2>1. /\ frames # <<>> /\ Last(frames).at = "scan" /\ frames' = Front(frames) /\ refs' = refs
        /\ UNCHANGED <<stopped, continuing, stops, mask, original, event>>
    BY <1>20 DEF ScanEnd, At, stopVars, maskVars
  <2>2. /\ Len(frames') = Len(frames) - 1 /\ SigsOf(frames') /\ WaitsOf(frames') = WaitsOf(frames)
    BY <1>1, <1>2, <2>1, WaitsPop
  <2>3. Len(frames') <= MaxDepth BY <1>1, <1>2, <1>4, <2>2
  <2> QED BY <1>2, <2>1, <2>2, <2>3, StopsMoved
<1>21. CASE HandlerReturn
  <2>1. frames # <<>> /\ Last(frames) \in Frames /\ Last(frames).at = "handler"
    BY <1>1, <1>21, EmptySeq, ElementOfSeq DEF HandlerReturn, At, Last
  <2>2. Last(frames).active \in SUBSET Sigs BY <2>1 DEF Frames
  <2>3. /\ Frame("scan", Last(frames).active, NoSig) \in Frames
        /\ Frame("scan", Last(frames).active, NoSig).at = "scan"
        /\ Frame("scan", Last(frames).active, NoSig).sig = NoSig
    BY <1>5, <1>6, <2>2 DEF FrameLocations
  <2>4. /\ frames' = Top(Frame("scan", Last(frames).active, NoSig)) /\ refs' = refs
        /\ UNCHANGED <<stopped, continuing, stops>> /\ mask' = original
        /\ original' = original /\ event' = event
    BY <1>21 DEF HandlerReturn, RestoredMask, stopVars
  <2> QED BY <1>2, <1>6, <1>14, <2>1, <2>3, <2>4
<1> QED
  BY <1>7, <1>8, <1>9, <1>10, <1>11, <1>12, <1>13, <1>15, <1>16, <1>17, <1>18, <1>19, <1>20, <1>21
     DEF Next, ThreadStep

\* The types of all variables; of those, that the thread never holds the mutex of the stop
\* word a negative number of times or more often than it has calls in progress
\* (myst_futex_wait in _myst_sigstop_wait), and that no more SIGCONTs have to wake it than
\* SIGSTOPs were sent, takes several steps to violate.
THEOREM SignalTypesCorrect == Spec => []TypeOK
<1> DEFINE Inv == SignalTypes /\ StopsExact
<1>1. Init => Inv
  <2> SUFFICES ASSUME Init PROVE StopsExact BY TypesInitial
  <2>0. MaxStops \in Nat /\ MaxDepth \in Nat BY BoundsAssumption
  <2>1. Len(<<>>) = 0 /\ WaitsOf(<<>>) = {} /\ SigsOf(<<>>) BY DEF WaitsOf, SigsOf
  <2>2. Cardinality({}) = 0 BY FS_EmptySet
  <2>3. frames = <<>> /\ refs = 0 /\ stops = 0 /\ continuing = 0 /\ stopped = FALSE
        /\ mask = {} /\ original = {} /\ event = "none"
    BY DEF Init
  <2>4. SigsOf(frames) /\ Len(frames) <= MaxDepth /\ refs = Cardinality(WaitsOf(frames))
    <3>1. SigsOf(frames) /\ Len(frames) = 0 /\ refs = Cardinality(WaitsOf(frames))
      BY <2>1, <2>2, <2>3, Zenon
    <3> QED BY <2>0, <3>1
  <2>5. 0 <= MaxStops /\ 0 \in Nat BY <2>0
  <2>6. continuing + (IF stopped THEN 1 ELSE 0) <= stops BY <2>3
  <2>7. stops \in Nat /\ stops <= MaxStops /\ continuing \in Nat /\ stopped \in BOOLEAN
        /\ mask \subseteq Sigs /\ original \subseteq Sigs /\ event \in {"none", "cont", "signal"}
    BY <2>3, <2>5, Zenon
  <2> QED BY <2>4, <2>6, <2>7, Zenon DEF StopsExact
<1>2. Inv /\ [Next]_vars => Inv'
  BY TypesInductive, StopsInductive
<1>3. Inv => TypeOK
  <2> SUFFICES ASSUME SignalTypes, StopsExact PROVE TypeOK OBVIOUS
  <2>1. frames \in Seq(Frames) /\ Len(frames) \in Nat BY LenProperties DEF SignalTypes
  <2>2. \A i \in 1..Len(frames) :
           frames[i].at \in FrameLocations /\ frames[i].active \subseteq Sigs
    <3>1. \A i \in 1..Len(frames) : frames[i] \in Frames BY <2>1, ElementOfSeq
    <3> QED BY <3>1 DEF Frames
  <2>3. refs \in Nat /\ refs <= Len(frames) BY <2>1, WaitsFinite DEF StopsExact
  <2>4. refs \in 0..MaxDepth BY <2>1, <2>3, BoundsAssumption DEF StopsExact
  <2>5. continuing \in 0..MaxStops BY BoundsAssumption DEF StopsExact
  <2> QED BY <2>2, <2>4, <2>5 DEF TypeOK, SignalTypes, StopsExact, SigsOf, FrameLocations
<1> QED BY <1>1, <1>2, <1>3, PTL DEF Spec

=============================================================================
