-------------------------------- MODULE Uds --------------------------------
(***************************************************************************)
(* A connected pair of Unix domain sockets (kernel/udsdev.c).  Each end    *)
(* has a buffer of what was sent to it, a recursive mutex, a condition     *)
(* variable that its receivers and the senders of the other end share, and *)
(* a host socket pair whose readiness follows the buffers, because poll    *)
(* and epoll look at the host only.  A sender works under the mutex of the *)
(* peer, a receiver under its own; both run _do_state_transition for both  *)
(* ends, which locks the mutex of the other end of the one it updates.     *)
(*                                                                         *)
(* Data are counted.  A thread owns one handle (descriptor) of one end;    *)
(* dup gives one to a thread that has none.  A handle is not closed while  *)
(* a call of another thread uses it.                                       *)
(***************************************************************************)
EXTENDS Integers, Sequences, FiniteSets, SequencesExt, FiniteSetsExt

CONSTANTS Socks,       \* the two ends
          Threads,
          End,         \* the end of each thread's handle
          Calls,       \* "send" and "recv" calls each thread makes
          First,       \* the threads that have a handle from the start, one per end
          NoThread,
          BufSize,
          Counts,      \* sizes of the callers' buffers
          MaxCalls, MaxDups, MaxSignals, MaxSets, MaxFailures

ASSUME UdsAssumption ==
    /\ Cardinality(Socks) = 2
    /\ End \in [Threads -> Socks] /\ First \subseteq Threads
    /\ BufSize > 0

VARIABLES
    buf,       \* bytes in the buffer of each end
    closed,    \* the flag that the other end has closed
    state,     \* readiness that the host socket is known to show
    host,      \* readiness of host_socketpair[0], and whether it is open
    nonblock,
    dups,      \* dup_count
    refs,      \* ref_count
    freed,     \* the ends whose struct shared is freed
    mutex,     \* the thread that holds each end's mutex
    queue,     \* the threads that wait on each end's condition variable
    pc,
    op,        \* the call of each thread
    moved,     \* what each thread was told it sent or received
    untold,    \* what each thread moved in calls that then failed
    bounds     \* calls, dups, signals, fcntls and failures of the host so far

ioVars == <<buf, closed, state, host, mutex, queue, pc, op, moved, untold>>
lifeVars == <<nonblock, dups, refs, freed>>
vars == <<ioVars, lifeVars, bounds>>

Peer(s) == CHOOSE r \in Socks : r # s
NoOp == [call |-> "none", rem |-> 0, done |-> 0, eintr |-> FALSE]

\* _udsdev_socketpair and _new_sock: two ends that refer to each other
Init ==
    /\ buf = [s \in Socks |-> 0]
    /\ closed = [s \in Socks |-> FALSE]
    /\ state = [s \in Socks |-> [r |-> FALSE, w |-> TRUE]]
    /\ host = [s \in Socks |-> [r |-> FALSE, w |-> TRUE, open |-> TRUE]]
    /\ nonblock = [s \in Socks |-> FALSE]
    /\ dups = [s \in Socks |-> 1]
    /\ refs = [s \in Socks |-> 2]
    /\ freed = {}
    /\ mutex = [s \in Socks |-> NoThread]
    /\ queue = [s \in Socks |-> <<>>]
    /\ pc = [t \in Threads |-> IF t \in First THEN "idle" ELSE "none"]
    /\ op = [t \in Threads |-> NoOp]
    /\ moved = [t \in Threads |-> 0] /\ untold = [t \in Threads |-> 0]
    /\ bounds = [calls |-> 0, dups |-> 0, signals |-> 0, sets |-> 0, failures |-> 0]

Bump(what) == bounds' = [bounds EXCEPT ![what] = @ + 1]
Goto(t, l) == pc' = [pc EXCEPT ![t] = l]

\* the end whose buffer, mutex and condition variable a call works with
Side(t) == IF op[t].call = "send" THEN Peer(End[t]) ELSE End[t]

MayTake(t, s) == mutex[s] \in {NoThread, t}

-----------------------------------------------------------------------------
\* _send and _recv up to the lock
Call(t, c, n) ==
    /\ pc[t] = "idle" /\ bounds.calls < MaxCalls /\ c \in Calls[t]
    /\ op' = [op EXCEPT ![t] = [NoOp EXCEPT !.call = c, !.rem = n]]
    /\ Goto(t, "lock")
    /\ Bump("calls")
    /\ UNCHANGED <<buf, closed, state, host, mutex, queue, moved, untold, lifeVars>>

\* the lock at the start, and the one that a wait takes again
Lock(t) ==
    /\ pc[t] \in {"lock", "woken"}
    /\ mutex[Side(t)] = NoThread
    /\ mutex' = [mutex EXCEPT ![Side(t)] = t]
    /\ Goto(t, "loop")
    /\ UNCHANGED <<buf, closed, state, host, queue, op, moved, untold, lifeVars, bounds>>

\* the end of a call: n bytes are reported
Return(t, n) ==
    /\ mutex' = [mutex EXCEPT ![Side(t)] = NoThread]
    /\ moved' = [moved EXCEPT ![t] = @ + n]
    /\ op' = [op EXCEPT ![t] = NoOp]

\* mutant: an interrupted send reports nothing
InterruptedForgets(t) ==
    /\ pc[t] = "loop" /\ op[t].eintr
    /\ Return(t, 0)
    /\ Goto(t, "idle")
    /\ UNCHANGED <<buf, closed, state, host, queue, untold, lifeVars, bounds>>

\* a wait that a signal ended: -EINTR, or what was sent before
Interrupted(t) ==
    /\ pc[t] = "loop" /\ op[t].eintr
    /\ Return(t, op[t].done)
    /\ Goto(t, "idle")
    /\ UNCHANGED <<buf, closed, state, host, queue, untold, lifeVars, bounds>>

\* the buffer has space, or data: they are moved and the states follow
Transfer(t, b, n) ==
    /\ pc[t] = "loop" /\ ~op[t].eintr /\ n > 0
    /\ buf' = [buf EXCEPT ![Side(t)] = b]
    /\ op' = [op EXCEPT ![t].rem = @ - n, ![t].done = @ + n]
    /\ Goto(t, "own")
    /\ UNCHANGED <<closed, state, host, mutex, queue, moved, untold, lifeVars, bounds>>

SendData(t) ==
    LET n == Min({op[t].rem, BufSize - buf[Side(t)]})
    IN  op[t].call = "send" /\ Transfer(t, buf[Side(t)] + n, n)

RecvData(t) ==
    LET n == Min({op[t].rem, buf[Side(t)]})
    IN  op[t].call = "recv" /\ Transfer(t, buf[Side(t)] - n, n)

\* no space, or no data
Blocked(t) ==
    /\ pc[t] = "loop" /\ ~op[t].eintr
    /\ buf[Side(t)] = IF op[t].call = "send" THEN BufSize ELSE 0

\* -EAGAIN, after the states were updated, or a part
WouldBlock(t) ==
    /\ Blocked(t) /\ nonblock[End[t]]
    /\ op[t].call = "recv" => ~closed[End[t]]
    /\ IF op[t].done = 0 THEN Goto(t, "own") /\ UNCHANGED <<mutex, moved, op>>
       ELSE Goto(t, "idle") /\ Return(t, op[t].done)
    /\ UNCHANGED <<buf, closed, state, host, queue, untold, lifeVars, bounds>>

\* a receiver finds that the peer has closed; a sender looks at the peer's flag,
\* which its own close sets
SeesClosed(t) ==
    /\ Blocked(t) /\ closed[Side(t)]
    /\ op[t].call = "send" => ~nonblock[End[t]]
    /\ Return(t, op[t].done)
    /\ Goto(t, "idle")
    /\ UNCHANGED <<buf, closed, state, host, queue, untold, lifeVars, bounds>>

\* myst_cond_wait_no_signal_processing in two steps: the flag was read, and a close
\* of the other end does not hold this mutex
DecideWait(t) ==
    /\ Blocked(t) /\ ~closed[Side(t)] /\ ~nonblock[End[t]]
    /\ Goto(t, "sleep")
    /\ UNCHANGED <<buf, closed, state, host, mutex, queue, op, moved, untold, lifeVars, bounds>>

Wait(t) ==
    /\ pc[t] = "sleep"
    /\ queue' = [queue EXCEPT ![Side(t)] = Append(@, t)]
    /\ mutex' = [mutex EXCEPT ![Side(t)] = NoThread]
    /\ Goto(t, "wait")
    /\ UNCHANGED <<buf, closed, state, host, op, moved, untold, lifeVars, bounds>>

\* a signal for a thread that waits
Eintr(t) ==
    /\ pc[t] = "wait" /\ bounds.signals < MaxSignals
    /\ queue' = [queue EXCEPT ![Side(t)] = SelectSeq(@, LAMBDA u : u # t)]
    /\ op' = [op EXCEPT ![t].eintr = TRUE]
    /\ Goto(t, "woken")
    /\ Bump("signals")
    /\ UNCHANGED <<buf, closed, state, host, mutex, moved, untold, lifeVars>>

-----------------------------------------------------------------------------
\* _set_state: the readiness of end s
Ready(s) == [r |-> buf[s] > 0, w |-> buf[Peer(s)] # BufSize]

\* mutant: only what becomes ready is shown
Shown(h, old, new) ==
    [h EXCEPT !.r = IF new.r /\ ~old.r THEN TRUE ELSE @,
              !.w = IF new.w /\ ~old.w THEN TRUE ELSE @]

\* _fill_host_sock and _empty_host_sock of the one or the other host socket, as the
\* four cases of _do_state_transition choose them
Follow(h, old, new) ==
    [h EXCEPT !.r = IF new.r # old.r THEN new.r ELSE @,
              !.w = IF new.w # old.w THEN new.w ELSE @]

\* _do_state_transition of end s
Transition(t, s) ==
    /\ MayTake(t, Peer(s))
    /\ state' = [state EXCEPT ![s] = Ready(s)]
    /\ host' = [host EXCEPT ![s] = Follow(@, state[s], Ready(s))]
    /\ UNCHANGED <<buf, closed, untold, lifeVars, bounds>>

\* a host socket that must be filled or emptied refuses, or there is no memory for it.
\* Those of an end that was closed are freed: what is found in their place is no socket
\* (or, if the memory is used again, another one, which the transition takes for it).
\* The call ends with the error, though it has moved the data
TransitionFails(t, s) ==
    /\ MayTake(t, Peer(s)) /\ Ready(s) # state[s]
    /\ IF host[s].open THEN bounds.failures < MaxFailures /\ Bump("failures")
       ELSE UNCHANGED bounds
    /\ mutex' = [mutex EXCEPT ![Side(t)] = NoThread]
    /\ untold' = [untold EXCEPT ![t] = @ + op[t].done]
    /\ op' = [op EXCEPT ![t] = NoOp]
    /\ Goto(t, "idle")
    /\ UNCHANGED <<buf, closed, state, host, queue, moved, lifeVars>>

\* the transition of the own end
Own(t) ==
    /\ pc[t] = "own"
    /\ \/ /\ Transition(t, End[t])
          /\ Goto(t, "peer")
          /\ UNCHANGED <<mutex, queue, moved, op>>
       \/ TransitionFails(t, End[t])

\* myst_cond_signal: the front of the queue wakes up
SignalFront(t, s, next) ==
    IF queue[s] = <<>> THEN Goto(t, next) /\ UNCHANGED queue
    ELSE /\ pc' = [pc EXCEPT ![t] = next, ![Head(queue[s])] = "woken"]
         /\ queue' = [queue EXCEPT ![s] = Tail(@)]

\* the transition of the other end; data that were moved are signalled, otherwise
\* the call ends with -EAGAIN
OtherEnd(t) ==
    /\ pc[t] = "peer"
    /\ \/ /\ Transition(t, Peer(End[t]))
          /\ CASE op[t].done = 0 ->
                    Return(t, 0) /\ Goto(t, "idle") /\ UNCHANGED queue
               [] op[t].done > 0 /\ (op[t].call = "recv" \/ op[t].rem = 0) ->
                    Return(t, op[t].done) /\ SignalFront(t, Side(t), "idle")
               [] OTHER ->
                    SignalFront(t, Side(t), "loop") /\ UNCHANGED <<mutex, moved, op>>
       \/ TransitionFails(t, Peer(End[t]))

-----------------------------------------------------------------------------
\* _udsdev_dup
Dup(t, u) ==
    /\ pc[t] = "none" /\ pc[u] = "idle" /\ End[t] = End[u]
    /\ bounds.dups < MaxDups /\ mutex[End[t]] = NoThread
    /\ dups' = [dups EXCEPT ![End[t]] = @ + 1]
    /\ Goto(t, "idle")
    /\ Bump("dups")
    /\ UNCHANGED <<buf, closed, state, host, mutex, queue, op, moved, untold, nonblock, refs,
                   freed>>

\* _unref_sock: an atomic decrement; the last one frees
Unref(s) ==
    /\ refs' = [refs EXCEPT ![s] = @ - 1]
    /\ freed' = IF refs[s] = 1 THEN freed \cup {s} ELSE freed

\* _udsdev_close under the own mutex: the last handle tells the peer, whose mutex it
\* does not hold, and gives up its reference to it
CloseNotify(t) ==
    LET s == End[t]
    IN  /\ pc[t] = "idle" /\ mutex[s] = NoThread
        /\ IF dups[s] > 1
           THEN /\ dups' = [dups EXCEPT ![s] = @ - 1]
                /\ Goto(t, "closed")
                /\ UNCHANGED <<closed, queue, refs, freed>>
           ELSE /\ closed' = [closed EXCEPT ![Peer(s)] = TRUE]
                /\ SignalFront(t, Peer(s), "free")
                /\ Unref(Peer(s))
                /\ UNCHANGED dups
        /\ UNCHANGED <<buf, state, host, mutex, op, moved, untold, nonblock, bounds>>

\* mutant: the peer's reference is not counted
FreeAtOnce(t) ==
    /\ pc[t] = "free"
    /\ freed' = freed \cup {End[t]}
    /\ host' = [host EXCEPT ![End[t]].open = FALSE]
    /\ Goto(t, "closed")
    /\ UNCHANGED <<buf, closed, state, mutex, queue, op, moved, untold, nonblock, dups, refs,
                   bounds>>

\* the host sockets are closed and the own reference is given up
CloseFree(t) ==
    /\ pc[t] = "free"
    /\ Unref(End[t])
    /\ host' = [host EXCEPT ![End[t]].open = FALSE]
    /\ Goto(t, "closed")
    /\ UNCHANGED <<buf, closed, state, mutex, queue, op, moved, untold, nonblock, dups, bounds>>

\* _udsdev_fcntl(F_SETFL) and _udsdev_ioctl(FIONBIO), without a lock
SetNonblock(t) ==
    /\ pc[t] \notin {"none", "free", "closed"} /\ bounds.sets < MaxSets
    /\ nonblock' = [nonblock EXCEPT ![End[t]] = ~@]
    /\ Bump("sets")
    /\ UNCHANGED <<ioVars, dups, refs, freed>>

-----------------------------------------------------------------------------
CallStep(t) ==
    \/ Lock(t) \/ Interrupted(t) \/ SendData(t) \/ RecvData(t) \/ WouldBlock(t)
    \/ SeesClosed(t) \/ DecideWait(t) \/ Wait(t) \/ Own(t) \/ OtherEnd(t)
    \/ CloseFree(t)

Next ==
    \E t \in Threads :
        \/ CallStep(t) \/ Eintr(t) \/ CloseNotify(t) \/ SetNonblock(t)
        \/ \E c \in Calls[t], n \in Counts : Call(t, c, n)
        \/ \E u \in Threads : Dup(t, u)

Spec == Init /\ [][Next]_vars

-----------------------------------------------------------------------------
(***************************************************************************)
(* Properties                                                              *)
(***************************************************************************)
\* The types of the variables.
TypeOK ==
    /\ buf \in [Socks -> 0..BufSize] /\ closed \in [Socks -> BOOLEAN]
    /\ state \in [Socks -> [r : BOOLEAN, w : BOOLEAN]]
    /\ host \in [Socks -> [r : BOOLEAN, w : BOOLEAN, open : BOOLEAN]]
    /\ dups \in [Socks -> Nat] /\ refs \in [Socks -> Nat] /\ freed \subseteq Socks
    /\ mutex \in [Socks -> Threads \cup {NoThread}]
    /\ moved \in [Threads -> Nat] /\ untold \in [Threads -> Nat]

Makes(c, s) == {t \in Threads : End[t] = s /\ Calls[t] = {c}}
Total(c, s) == MapThenSumSet(LAMBDA t : moved[t] + op[t].done, Makes(c, s))
Untold(c, s) == MapThenSumSet(LAMBDA t : untold[t], Makes(c, s))

\* Nothing is lost or invented between the ends: what the senders of one end were
\* told they sent, or have sent in a call that goes on, is what the receivers of the
\* other end received and what its buffer holds, but for calls that moved data and then
\* failed.  A call fails so only if the host does or the other end is closed.
StreamExact ==
    /\ \A s \in Socks : Total("send", s) + Untold("send", s) =
                        buf[Peer(s)] + Total("recv", Peer(s)) + Untold("recv", Peer(s))
    /\ \A t \in Threads : untold[t] > 0 => bounds.failures > 0 \/ ~host[Peer(End[t])].open

\* When no call is under way poll tells the truth about an open end: the host socket
\* is readable exactly when there is data, writable exactly when the peer has space.
\* The closing of the other end does not change that; only a failure of the host does.
PollExact ==
    (\A t \in Threads : pc[t] \notin {"own", "peer"}) /\ bounds.failures = 0 =>
        \A s \in Socks : host[s].open => [r |-> host[s].r, w |-> host[s].w] = Ready(s)

Closed(s) == \A t \in Threads : End[t] = s => pc[t] \in {"none", "closed"}

\* An end is freed only when the handles of both are closed or being closed, and
\* when all are closed both are freed.
FreedExact ==
    /\ freed # {} => \A t \in Threads : pc[t] \in {"none", "closed", "free"}
    /\ (\A s \in Socks : Closed(s)) => freed = Socks

\* the mutex a thread needs for its next step.
Needs(t) ==
    CASE pc[t] \in {"lock", "woken"} -> Side(t)
      [] pc[t] = "own" -> Peer(End[t])
      [] pc[t] = "peer" -> End[t]

\* The two mutexes are taken in both orders, but threads that wait for each other are
\* never all about the same direction: traffic one way cannot deadlock.
OneWayNoDeadlock ==
    \A t, u \in Threads :
        LET waits == {"lock", "woken", "own", "peer"}
        IN  (pc[t] \in waits /\ pc[u] \in waits /\ t # u
               /\ mutex[Needs(t)] = u /\ mutex[Needs(u)] = t) => Side(t) # Side(u)

\* All of the above.
UdsExact == TypeOK /\ StreamExact /\ PollExact /\ FreedExact /\ OneWayNoDeadlock
=============================================================================
