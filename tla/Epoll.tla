------------------------------- MODULE Epoll -------------------------------
(***************************************************************************)
(* Event counters and epoll (kernel/eventfddev.c, kernel/epolldev.c and    *)
(* their calls in kernel/syscall.c).  Both are host objects behind         *)
(* descriptors of the kernel: every duplicate of a descriptor has a host   *)
(* descriptor of its own.  An epoll descriptor also counts the             *)
(* descriptors it watches, so that epoll_wait asks the host for no more    *)
(* events than there can be.                                               *)
(*                                                                         *)
(* The host keeps the set of what is watched (external): a pair of a host  *)
(* descriptor and the object it was for, dropped when the last descriptor  *)
(* of the object is closed.                                                *)
(***************************************************************************)
EXTENDS Integers, FiniteSets

CONSTANTS
    Threads,
    Fds,           \* host descriptors of event counters
    Objects,       \* event counters of the host
    Handles,       \* epoll descriptors, all of one epoll object
    First,         \* the epoll descriptor that epoll_create1 returned
    Nothing,
    LocalSize,     \* elements of local_events
    IntMax,        \* INT_MAX, here a small number
    Maxevents,     \* values callers pass
    MaxCount, MaxCalls

VARIABLES
    obj,           \* the counter behind each descriptor, or Nothing
    count,         \* value of each counter
    open,          \* the open epoll descriptors
    num,           \* num_fds of each
    watched,       \* host: what the epoll object watches
    pc, op,        \* the epoll call of each thread
    got,           \* what its last epoll_wait returned, and into which buffer
    calls,
    drift          \* ghost: why num_fds may differ from what is watched

hostVars == <<obj, count, watched>>
vars == <<hostVars, open, num, pc, op, got, calls, drift>>

NoOp == [h |-> First, ctl |-> "none", fd |-> Nothing, seen |-> 0, max |-> 0,
         room |-> 0, own |-> FALSE, gone |-> FALSE]
NoEvents == [n |-> 0, own |-> TRUE, bare |-> FALSE]

\* _ed_epoll_create1; no counter yet
Init ==
    /\ obj = [f \in Fds |-> Nothing]
    /\ count = [o \in Objects |-> 0]
    /\ open = {First}
    /\ num = [h \in Handles |-> 0]
    /\ watched = {}
    /\ pc = [t \in Threads |-> "idle"]
    /\ op = [t \in Threads |-> NoOp]
    /\ got = [t \in Threads |-> NoEvents]
    /\ calls = 0
    /\ drift = {}

Goto(t, l) == pc' = [pc EXCEPT ![t] = l]
Begin == calls < MaxCalls /\ calls' = calls + 1
Pairs(f) == IF obj[f] = Nothing THEN {} ELSE {<<f, obj[f]>>}

-----------------------------------------------------------------------------
\* _eventfd_eventfd and myst_syscall_eventfd
Eventfd(f, o) ==
    /\ Begin /\ obj[f] = Nothing /\ \A g \in Fds : obj[g] # o
    /\ obj' = [obj EXCEPT ![f] = o]
    /\ count' = [count EXCEPT ![o] = 0]
    /\ UNCHANGED <<watched, open, num, pc, op, got, drift>>

\* _eventfd_dup
EventfdDup(f, g) ==
    /\ Begin /\ obj[f] # Nothing /\ obj[g] = Nothing
    /\ obj' = [obj EXCEPT ![g] = obj[f]]
    /\ UNCHANGED <<count, watched, open, num, pc, op, got, drift>>

\* _eventfd_close; the host forgets a pair when the counter has no descriptor left
EventfdClose(f) ==
    /\ obj[f] # Nothing
    /\ obj' = [obj EXCEPT ![f] = Nothing]
    /\ watched' = {w \in watched : \E g \in Fds : obj'[g] = w[2]}
    /\ drift' = IF watched' # watched THEN drift \cup {"close"} ELSE drift
    /\ UNCHANGED <<count, open, num, pc, op, got, calls>>

\* _eventfd_read and _eventfd_write of a counter that need not wait
EventfdRead(f) ==
    /\ obj[f] # Nothing /\ count[obj[f]] > 0
    /\ count' = [count EXCEPT ![obj[f]] = 0]
    /\ UNCHANGED <<obj, watched, open, num, pc, op, got, calls, drift>>

EventfdWrite(f) ==
    /\ obj[f] # Nothing /\ count[obj[f]] < MaxCount
    /\ count' = [count EXCEPT ![obj[f]] = @ + 1]
    /\ UNCHANGED <<obj, watched, open, num, pc, op, got, calls, drift>>

-----------------------------------------------------------------------------
\* _ed_dup: the count is copied with the structure, and then each goes its own way
EpollDup(h, k) ==
    /\ Begin /\ h \in open /\ k \notin open
    /\ open' = open \cup {k}
    /\ num' = [num EXCEPT ![k] = num[h]]
    /\ drift' = drift \cup {"dup"}
    /\ UNCHANGED <<hostVars, pc, op, got>>

\* _ed_close clears and frees the structure also while calls of other threads work on it
\* (gone); the host drops what is watched with the last descriptor, or when a call that
\* waits in the host is over
EpollClose(h) ==
    /\ h \in open
    /\ open' = open \ {h}
    /\ watched' = IF open' = {} /\ \A t \in Threads : pc[t] # "wait" THEN {} ELSE watched
    /\ op' = [t \in Threads |-> IF pc[t] # "idle" /\ op[t].h = h
                                THEN [op[t] EXCEPT !.gone = TRUE] ELSE op[t]]
    /\ UNCHANGED <<obj, count, num, pc, got, calls, drift>>

\* _ed_epoll_ctl up to the host call: the host descriptor is looked up; a count at its
\* limit refuses another
CtlStart(t, h, c, f) ==
    /\ Begin /\ pc[t] = "idle" /\ h \in open /\ obj[f] # Nothing
    /\ c = "add" => num[h] < IntMax
    /\ op' = [op EXCEPT ![t] = [NoOp EXCEPT !.h = h, !.ctl = c, !.fd = f]]
    /\ Goto(t, "ctl")
    /\ UNCHANGED <<hostVars, open, num, got, drift>>

\* epoll_ctl of the host: what it watches afterwards, unchanged if it fails
CtlFails(c, f) ==
    \/ obj[f] = Nothing
    \/ c = "add" /\ Pairs(f) \subseteq watched
    \/ c # "add" /\ ~(Pairs(f) \subseteq watched)

HostCtl(c, f) ==
    CASE CtlFails(c, f) \/ c = "mod" -> watched
      [] ~CtlFails(c, f) /\ c = "add" -> watched \cup Pairs(f)
      [] OTHER -> watched \ Pairs(f)

\* mutant: a failed EPOLL_CTL_ADD counts too
CtlCountsFailed(t) ==
    /\ pc[t] = "ctl"
    /\ watched' = HostCtl(op[t].ctl, op[t].fd)
    /\ Goto(t, "load")
    /\ UNCHANGED <<obj, count, open, num, op, got, calls, drift>>

\* the count changes only after the host has agreed; a structure that is gone has no
\* epoll descriptor for the host
CtlHost(t) ==
    /\ pc[t] = "ctl"
    /\ watched' = IF op[t].gone THEN watched ELSE HostCtl(op[t].ctl, op[t].fd)
    /\ IF op[t].gone \/ CtlFails(op[t].ctl, op[t].fd) \/ op[t].ctl = "mod"
       THEN Goto(t, "idle") /\ op' = [op EXCEPT ![t] = NoOp]
       ELSE Goto(t, "load") /\ UNCHANGED op
    /\ UNCHANGED <<obj, count, open, num, got, calls, drift>>

\* num_fds++ and num_fds--, a load and a store without a lock
CtlLoad(t) ==
    /\ pc[t] = "load"
    /\ op' = [op EXCEPT ![t].seen = num[op[t].h]]
    /\ drift' = IF \E u \in Threads \ {t} : pc[u] = "store" THEN drift \cup {"race"} ELSE drift
    /\ Goto(t, "store")
    /\ UNCHANGED <<hostVars, open, num, got, calls>>

\* the count of a structure that is gone is in free memory, or in one allocated since
CtlStore(t) ==
    /\ pc[t] = "store"
    /\ \/ num' = [num EXCEPT ![op[t].h] = IF op[t].ctl = "add" THEN op[t].seen + 1
                                          ELSE op[t].seen - 1]
       \/ op[t].gone /\ UNCHANGED num
    /\ drift' = IF op[t].gone THEN drift \cup {"freed"} ELSE drift
    /\ Goto(t, "idle")
    /\ op' = [op EXCEPT ![t] = NoOp]
    /\ UNCHANGED <<hostVars, open, got, calls>>

-----------------------------------------------------------------------------
\* mutant: the caller's buffer is used whatever its size
LimitTrusting(m, n) ==
    [max |-> IF n = 0 THEN LocalSize ELSE IF m < n THEN m ELSE n, room |-> m, own |-> TRUE]

\* how many events epoll_wait asks for with num_fds = n, and the buffer for them
Limit(m, n) ==
    LET least == IF m > n THEN n ELSE m
    IN  CASE least # 0 -> [max |-> least, room |-> m, own |-> TRUE]
          [] least = 0 /\ m >= LocalSize -> [max |-> LocalSize, room |-> m, own |-> TRUE]
          [] OTHER -> [max |-> LocalSize, room |-> LocalSize, own |-> FALSE]

\* _ed_epoll_wait up to the host call
WaitStart(t, h, m) ==
    /\ Begin /\ pc[t] = "idle" /\ h \in open
    /\ \E l \in {Limit(m, num[h])} :
          op' = [op EXCEPT ![t] = [NoOp EXCEPT !.h = h, !.ctl = "wait", !.seen = num[h],
                                               !.max = l.max, !.room = l.room, !.own = l.own]]
    /\ Goto(t, "wait")
    /\ UNCHANGED <<hostVars, open, num, got, drift>>

Ready == {w \in watched : count[w[2]] > 0}
Return(t, n) ==
    /\ got' = [got EXCEPT ![t] = [n |-> n, own |-> op[t].own, bare |-> op[t].seen <= 0]]
    /\ Goto(t, "idle")
    /\ op' = [op EXCEPT ![t] = NoOp]
    /\ UNCHANGED <<hostVars, open, num, calls, drift>>

\* epoll_wait of the host returns events, or none when the time is over; a negative
\* maxevents is EINVAL
WaitEvents(t) ==
    /\ pc[t] = "wait" /\ op[t].max > 0 /\ Ready # {}
    /\ Return(t, IF Cardinality(Ready) < op[t].max THEN Cardinality(Ready) ELSE op[t].max)
WaitNothing(t) == pc[t] = "wait" /\ Return(t, 0)

Next ==
    \/ \E f \in Fds : EventfdClose(f) \/ EventfdRead(f) \/ EventfdWrite(f)
    \/ \E f \in Fds, o \in Objects : Eventfd(f, o)
    \/ \E f, g \in Fds : EventfdDup(f, g)
    \/ \E h, k \in Handles : EpollDup(h, k)
    \/ \E h \in Handles : EpollClose(h)
    \/ \E t \in Threads :
          \/ CtlHost(t) \/ CtlLoad(t) \/ CtlStore(t) \/ WaitEvents(t) \/ WaitNothing(t)
          \/ \E h \in Handles, c \in {"add", "mod", "del"}, f \in Fds : CtlStart(t, h, c, f)
          \/ \E h \in Handles, m \in Maxevents : WaitStart(t, h, m)

Spec == Init /\ [][Next]_vars

-----------------------------------------------------------------------------
(***************************************************************************)
(* Properties                                                              *)
(***************************************************************************)
\* The types of the variables.
TypeOK ==
    /\ obj \in [Fds -> Objects \cup {Nothing}] /\ count \in [Objects -> 0..MaxCount]
    /\ open \subseteq Handles /\ num \in [Handles -> Int]
    /\ \A w \in watched : w[1] \in Fds /\ w[2] \in Objects

\* num_fds is the number of descriptors the host watches when no epoll_ctl is under
\* way, as long as the epoll descriptor was never duplicated, no two calls count at
\* once, none counts in a structure that was closed, and what is watched is removed before
\* its last close.  The code does not keep the count right in these cases.
CountExact ==
    (drift = {} /\ open # {} /\ \A t \in Threads : pc[t] \notin {"load", "store"}) =>
        num[First] = Cardinality(watched)

\* The host is never asked for more events than the buffer holds, whatever num_fds
\* has become.
WithinBuffer == \A t \in Threads : pc[t] = "wait" => op[t].max <= op[t].room

\* epoll_wait returns events in the caller's buffer; it may return a number of
\* events that the caller never gets only if num_fds was not positive at its start.
EventsArrive == \A t \in Threads : got[t].n > 0 => got[t].own \/ got[t].bare

\* All of the above.
EpollExact == TypeOK /\ CountExact /\ WithinBuffer /\ EventsArrive
=============================================================================
