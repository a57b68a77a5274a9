-------------------------------- MODULE Lock --------------------------------
(***************************************************************************)
(* What the kernel mutex (kernel/mutex.c) promises its callers, without    *)
(* owners, event words or signals: a recursive lock that is handed over in *)
(* the order in which the threads that had to wait came to it.             *)
(*                                                                         *)
(* Mutex implements it with depth for the calls a thread still has to undo *)
(* and line for the threads that wait.                                     *)
(***************************************************************************)
EXTENDS Naturals, Sequences

CONSTANT Threads

VARIABLES depth,   \* how often each thread holds the lock
          line     \* the threads that wait for it, first come first

vars == <<depth, line>>

Init == depth = [t \in Threads |-> 0] /\ line = <<>>

InLine(t) == \E i \in 1..Len(line) : line[i] = t

FreeFor(t) == \A u \in Threads \ {t} : depth[u] = 0

\* a thread that holds the lock takes it again, or the first in line takes it
Grant(t) ==
    /\ FreeFor(t)
    /\ depth' = [depth EXCEPT ![t] = @ + 1]
    /\ \/ depth[t] > 0 /\ UNCHANGED line
       \/ line = <<>> /\ UNCHANGED line
       \/ depth[t] = 0 /\ line # <<>> /\ Head(line) = t /\ line' = Tail(line)

\* a thread that cannot have the lock now queues up
Join(t) ==
    /\ depth[t] = 0
    /\ ~InLine(t)
    /\ line # <<>> \/ ~FreeFor(t)
    /\ line' = Append(line, t)
    /\ UNCHANGED depth

\* a waiting thread gives up: the others keep their order
Leave(t) ==
    /\ \E k \in 1..Len(line) :
          /\ line[k] = t
          /\ line' = [i \in 1..(Len(line) - 1) |-> IF i < k THEN line[i] ELSE line[i + 1]]
    /\ UNCHANGED depth

Release(t) ==
    /\ depth[t] > 0
    /\ depth' = [depth EXCEPT ![t] = @ - 1]
    /\ UNCHANGED line

Next == \E t \in Threads : Grant(t) \/ Join(t) \/ Leave(t) \/ Release(t)

\* whoever is first in line while the lock is free gets it or gives up
ServeFirst ==
    \E t \in Threads : line # <<>> /\ Head(line) = t /\ (Grant(t) \/ Leave(t))

Spec == Init /\ [][Next]_vars
Fairness == WF_vars(ServeFirst)
=============================================================================
