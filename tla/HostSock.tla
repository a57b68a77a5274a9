------------------------------ MODULE HostSock ------------------------------
(***************************************************************************)
(* Sockets of the host (kernel/sockdev.c) and the blocking calls on them   *)
(* (target/shared/interrupt.c, with the tcalls of target/linux/tcall.c).   *)
(* The host's sockets are always non-blocking; a struct myst_sock says     *)
(* whether its user wants that too.  If not, a call that would block polls *)
(* on the host until the socket is ready or the thread is interrupted, and *)
(* tries again with the descriptor number it began with.                   *)
(*                                                                         *)
(* The host (its descriptors, what its calls answer, data and connections  *)
(* that arrive) is modelled from how these calls use it.                   *)
(***************************************************************************)
EXTENDS Integers, Sequences, FiniteSets, FiniteSetsExt

CONSTANTS Threads,
          Socks,       \* struct myst_sock objects
          Fds,         \* descriptor numbers of the host
          Descs,       \* sockets of the host
          MaxCalls, MaxEvents, MaxSignals

VARIABLES
    desc,      \* the host's sockets
    fds,       \* the host's descriptor table; 0 is a free entry
    sock,      \* fd and nonblock of each myst_sock; fd 0 if it is not allocated
    pc,
    op,        \* the call of each thread
    res,       \* what the last call of each thread returned
    pending,   \* threads with an interrupting signal that is not taken yet
    bounds

hostVars == <<desc, fds>>
vars == <<desc, fds, sock, pc, op, res, pending, bounds>>

NoDesc == [st |-> "none", rx |-> 0, full |-> FALSE, queued |-> 0, hup |-> FALSE,
           error |-> FALSE, nonblock |-> FALSE]
NoSock == [fd |-> 0, nonblock |-> FALSE]
NoOp == [call |-> "none", sock |-> 0, fd |-> 0, desc |-> 0, retry |-> FALSE,
         progress |-> FALSE, closed |-> FALSE, rival |-> FALSE, held |-> 0]
NoRes == [call |-> "none", r |-> "none", same |-> TRUE, closed |-> FALSE, wait |-> FALSE]

Init ==
    /\ desc = [d \in Descs |-> NoDesc] /\ fds = [f \in Fds |-> 0]
    /\ sock = [s \in Socks |-> NoSock]
    /\ pc = [t \in Threads |-> "idle"] /\ op = [t \in Threads |-> NoOp]
    /\ res = [t \in Threads |-> NoRes] /\ pending = {}
    /\ bounds = [calls |-> 0, events |-> 0, signals |-> 0]

MayCall == bounds.calls < MaxCalls /\ bounds' = [bounds EXCEPT !.calls = @ + 1]
Event == bounds.events < MaxEvents /\ bounds' = [bounds EXCEPT !.events = @ + 1]

-----------------------------------------------------------------------------
(***************************************************************************)
(* The host                                                                *)
(***************************************************************************)
FreeFd == Min({f \in Fds : fds[f] = 0})
Refers(d, table) == \E f \in Fds : table[f] = d
Held(d) == \E t \in Threads : op[t].held = d
FreeDescs == {d \in Descs : desc[d].st = "none" /\ ~Held(d)}
FreeSocks == {s \in Socks : sock[s].fd = 0}

\* what poll reports of a socket
In(d) == desc[d].rx > 0 \/ desc[d].queued > 0 \/ desc[d].hup
Out(d) == \/ desc[d].st = "connected" /\ ~desc[d].full
          \/ desc[d].st \in {"fresh", "failed"}
Hup(d) == desc[d].st \in {"fresh", "failed"} \/ desc[d].hup
Ready(d, call) == IF call \in {"recv", "accept"} THEN In(d) ELSE Out(d)

\* the answer of one host call, and the socket after it
Answer(d, call) ==
    CASE call = "recv" ->
            IF desc[d].st # "connected" THEN <<"error", desc[d]>>
            ELSE IF desc[d].rx > 0 THEN <<"ok", [desc[d] EXCEPT !.rx = @ - 1]>>
            ELSE IF desc[d].hup THEN <<"ok", desc[d]>> ELSE <<"again", desc[d]>>
      [] call = "send" ->
            IF desc[d].st # "connected" \/ desc[d].hup THEN <<"error", desc[d]>>
            ELSE IF desc[d].full THEN <<"again", desc[d]>>
            ELSE <<"ok", [desc[d] EXCEPT !.full = TRUE]>>
      [] call = "accept" ->
            IF desc[d].st # "listening" THEN <<"error", desc[d]>>
            ELSE IF desc[d].queued > 0 THEN <<"ok", [desc[d] EXCEPT !.queued = @ - 1]>>
            ELSE <<"again", desc[d]>>
      [] call = "connect" ->
            CASE desc[d].st = "fresh" -> <<"inprogress", [desc[d] EXCEPT !.st = "connecting"]>>
              [] desc[d].st = "failed" -> <<"error", [desc[d] EXCEPT !.st = "fresh", !.error = FALSE]>>
              [] OTHER -> <<"error", desc[d]>>

\* a descriptor is closed; its socket goes with the last one and the last poll on it
Freed(d, table) == IF Refers(d, table) THEN desc ELSE [desc EXCEPT ![d] = NoDesc]

Arrive(d) ==
    /\ Event /\ desc[d].st = "connected" /\ ~desc[d].hup /\ desc[d].rx = 0
    /\ desc' = [desc EXCEPT ![d].rx = @ + 1]
    /\ UNCHANGED <<fds, sock, pc, op, res, pending>>

Drain(d) ==
    /\ Event /\ desc[d].full
    /\ desc' = [desc EXCEPT ![d].full = FALSE]
    /\ UNCHANGED <<fds, sock, pc, op, res, pending>>

PeerConnects(d) ==
    /\ Event /\ desc[d].st = "listening" /\ desc[d].queued = 0
    /\ desc' = [desc EXCEPT ![d].queued = @ + 1]
    /\ UNCHANGED <<fds, sock, pc, op, res, pending>>

ConnectEnds(d, ok) ==
    /\ Event /\ desc[d].st = "connecting"
    /\ desc' = [desc EXCEPT ![d].st = IF ok THEN "connected" ELSE "failed", ![d].error = ~ok]
    /\ UNCHANGED <<fds, sock, pc, op, res, pending>>

\* myst_tcall_interrupt_thread: the signal is blocked except inside ppoll
Interrupt(t) ==
    /\ bounds.signals < MaxSignals /\ pc[t] # "idle"
    /\ pending' = pending \cup {t}
    /\ bounds' = [bounds EXCEPT !.signals = @ + 1]
    /\ UNCHANGED <<desc, fds, sock, pc, op, res>>

-----------------------------------------------------------------------------
(***************************************************************************)
(* Calls that return at once                                               *)
(***************************************************************************)
KeepBlocking(d) == d

\* _set_nonblock of the target
SetNonblock(d) == [d EXCEPT !.nonblock = TRUE]

\* _sd_socket
Socket(nonblock) ==
    /\ MayCall
    /\ FreeSocks # {} /\ FreeDescs # {} /\ \E f \in Fds : fds[f] = 0
    /\ \E s \in {Min(FreeSocks)}, d \in {Min(FreeDescs)} :
          /\ desc' = [desc EXCEPT ![d] = SetNonblock([NoDesc EXCEPT !.st = "fresh"])]
          /\ fds' = [fds EXCEPT ![FreeFd] = d]
          /\ sock' = [sock EXCEPT ![s] = [fd |-> FreeFd, nonblock |-> nonblock]]
    /\ UNCHANGED <<pc, op, res, pending>>

\* _sd_socketpair; data sent to one end is not followed to the other here
Socketpair(nonblock) ==
    /\ MayCall
    /\ Cardinality(FreeSocks) > 1 /\ Cardinality(FreeDescs) > 1
    /\ \E s, r \in FreeSocks, d, e \in FreeDescs, f, g \in {x \in Fds : fds[x] = 0} :
          /\ s < r /\ d < e /\ f < g /\ s = Min(FreeSocks) /\ d = Min(FreeDescs) /\ f = FreeFd
          /\ desc' = [x \in Descs |-> IF x \in {d, e}
                        THEN SetNonblock([NoDesc EXCEPT !.st = "connected"]) ELSE desc[x]]
          /\ fds' = [fds EXCEPT ![f] = d, ![g] = e]
          /\ sock' = [x \in Socks |-> IF x = s THEN [fd |-> f, nonblock |-> nonblock]
                                      ELSE IF x = r THEN [fd |-> g, nonblock |-> nonblock]
                                      ELSE sock[x]]
    /\ UNCHANGED <<pc, op, res, pending>>

Open(s) == sock[s].fd # 0
DescOf(s) == fds[sock[s].fd]

\* _sd_bind, _sd_listen, _sd_shutdown and the other calls that are only passed on: of
\* what they do, listening and hanging up matter to the others
Forward(s, st) ==
    /\ MayCall /\ Open(s)
    /\ \/ /\ st = "listening" /\ desc[DescOf(s)].st = "fresh"
          /\ desc' = [desc EXCEPT ![DescOf(s)].st = st]
       \/ /\ st = "shutdown" /\ desc[DescOf(s)].st = "connected"
          /\ desc' = [desc EXCEPT ![DescOf(s)].hup = TRUE]
    /\ UNCHANGED <<fds, sock, pc, op, res, pending>>

FlagGiven(nonblock) == nonblock

\* target sockets are always non-blocking
FlagPassed(nonblock) == TRUE

\* _sd_fcntl with F_SETFL
SetFl(s, nonblock) ==
    /\ MayCall /\ Open(s)
    /\ sock' = [sock EXCEPT ![s].nonblock = nonblock]
    /\ desc' = [desc EXCEPT ![DescOf(s)].nonblock = FlagPassed(nonblock)]
    /\ UNCHANGED <<fds, pc, op, res, pending>>

\* _sd_ioctl with FIONBIO: the host is not asked
Fionbio(s, nonblock) ==
    /\ MayCall /\ Open(s) /\ sock[s].nonblock # nonblock
    /\ sock' = [sock EXCEPT ![s].nonblock = nonblock]
    /\ UNCHANGED <<desc, fds, pc, op, res, pending>>

\* _sd_dup: a descriptor of its own for the same socket; the new one blocks
Dup(s) ==
    /\ MayCall /\ Open(s)
    /\ FreeSocks # {} /\ \E f \in Fds : fds[f] = 0
    /\ fds' = [fds EXCEPT ![FreeFd] = DescOf(s)]
    /\ sock' = [sock EXCEPT ![Min(FreeSocks)] = [fd |-> FreeFd, nonblock |-> FALSE]]
    /\ UNCHANGED <<desc, pc, op, res, pending>>

\* _sd_close: calls that other threads are in keep the number
Close(s) ==
    /\ MayCall /\ Open(s)
    /\ \E f \in {sock[s].fd} : \E table \in {[fds EXCEPT ![f] = 0]} :
          /\ fds' = table
          /\ desc' = IF Held(fds[f]) THEN desc ELSE Freed(fds[f], table)
          /\ op' = [t \in Threads |-> IF op[t].fd = f THEN [op[t] EXCEPT !.closed = TRUE] ELSE op[t]]
    /\ sock' = [sock EXCEPT ![s] = NoSock]
    /\ UNCHANGED <<pc, res, pending>>

-----------------------------------------------------------------------------
(***************************************************************************)
(* Calls that may block                                                    *)
(***************************************************************************)
\* the calls of one direction: they differ in how the data are passed
Receives == {"read", "recvfrom", "recvmsg", "readv"}
Sends == {"write", "sendto", "sendmsg", "writev"}

\* _sd_recvfrom, _sd_sendto, _sd_accept4, _sd_connect and their like; the tcalls do not
\* retry with MSG_DONTWAIT or MSG_ERRQUEUE
Call(t, s, call, dontwait) ==
    /\ MayCall /\ Open(s) /\ pc[t] = "idle"
    /\ dontwait => call \in {"recv", "send"}
    /\ op' = [op EXCEPT ![t] = [NoOp EXCEPT !.call = call, !.sock = s, !.fd = sock[s].fd,
                                            !.desc = DescOf(s),
                                            !.retry = ~sock[s].nonblock /\ ~dontwait]]
    /\ pc' = [pc EXCEPT ![t] = IF call = "connect" /\ ~sock[s].nonblock THEN "check" ELSE "try"]
    /\ UNCHANGED <<desc, fds, sock, res, pending>>

Return(t, r) ==
    /\ res' = [res EXCEPT ![t] = [call |-> op[t].call, r |-> r, wait |-> op[t].retry,
                                  same |-> fds[op[t].fd] = op[t].desc, closed |-> op[t].closed]]
    /\ pc' = [pc EXCEPT ![t] = "idle"]
    /\ op' = [u \in Threads |->
                IF u = t THEN NoOp
                ELSE [op[u] EXCEPT !.rival = \/ @
                                             \/ /\ op[t].call = "connect"
                                                /\ op[u].desc = fds[op[t].fd]]]

\* myst_tcall_connect_block: a stream socket that can be written to is connected
Check(t) ==
    /\ pc[t] = "check"
    /\ \E d \in {fds[op[t].fd]} :
         IF d # 0 /\ Out(d) /\ ~Hup(d) THEN Return(t, "isconn")
         ELSE pc' = [pc EXCEPT ![t] = "try"] /\ UNCHANGED <<op, res>>
    /\ UNCHANGED <<desc, fds, sock, pending, bounds>>

RetryNever(t, r) == FALSE

\* myst_interruptible_syscall: poll if the call would block, or a connect has begun
Retry(t, r) == op[t].retry /\ r \in {"again", "inprogress"}

\* the call is attempted; _accept4 makes the new socket non-blocking and _sd_accept4
\* the myst_sock for it, as its flags say
Try(t) ==
    /\ pc[t] = "try"
    /\ \E d \in {fds[op[t].fd]} :
         \/ /\ d = 0
            /\ Return(t, "error") /\ UNCHANGED <<desc, fds, sock>>
         \/ /\ d # 0
            /\ \E a \in {Answer(d, op[t].call)} :
                 \/ /\ Retry(t, a[1])
                    /\ op' = [op EXCEPT ![t].progress = a[1] = "inprogress"]
                    /\ pc' = [pc EXCEPT ![t] = "poll"]
                    /\ desc' = [desc EXCEPT ![d] = a[2]]
                    /\ UNCHANGED <<fds, sock, res>>
                 \/ /\ ~Retry(t, a[1])
                    /\ op[t].call = "accept" /\ a[1] = "ok"
                    /\ FreeSocks # {} /\ FreeDescs # {} /\ \E f \in Fds : fds[f] = 0
                    /\ \E e \in {Min(FreeDescs)}, nonblock \in BOOLEAN :
                          /\ desc' = [desc EXCEPT ![d] = a[2], ![e] =
                                        SetNonblock([NoDesc EXCEPT !.st = "connected"])]
                          /\ fds' = [fds EXCEPT ![FreeFd] = e]
                          /\ sock' = [sock EXCEPT ![Min(FreeSocks)] =
                                        [fd |-> FreeFd, nonblock |-> nonblock]]
                    /\ Return(t, "ok")
                 \/ /\ ~Retry(t, a[1])
                    /\ op[t].call # "accept" \/ a[1] # "ok"
                    /\ desc' = [desc EXCEPT ![d] = a[2]]
                    /\ Return(t, a[1]) /\ UNCHANGED <<fds, sock>>
    /\ UNCHANGED <<pending, bounds>>

\* ppoll: the host holds the socket while the thread sleeps; a number that is closed by
\* now reports POLLNVAL, which the loop takes for nothing and polls again
EnterPoll(t) ==
    /\ pc[t] = "poll"
    /\ pc' = [pc EXCEPT ![t] = IF fds[op[t].fd] = 0 THEN "spin" ELSE "sleep"]
    /\ op' = [op EXCEPT ![t].held = fds[op[t].fd]]
    /\ UNCHANGED <<desc, fds, sock, res, pending, bounds>>

\* the socket is let go when ppoll returns
Released(t, d) ==
    IF Refers(d, fds) \/ \E u \in Threads \ {t} : op[u].held = d
      THEN desc ELSE [desc EXCEPT ![d] = NoDesc]

SoErrorNone(d) == "ok"

\* SO_ERROR of a connect that has ended
SoError(d) == IF desc[d].error THEN "error" ELSE "ok"

\* the socket is ready: a connect that was begun has ended, others are tried again
Wake(t) ==
    /\ pc[t] = "sleep"
    /\ \E d \in {op[t].held} :
         /\ Ready(d, op[t].call)
         /\ \/ /\ op[t].progress /\ fds[op[t].fd] # 0
               /\ \E e \in {fds[op[t].fd]} :
                     /\ Return(t, SoError(e))
                     /\ desc' = [Released(t, d) EXCEPT ![e].error = FALSE,
                                             ![e].st = IF @ = "failed" THEN "fresh" ELSE @]
            \/ /\ op[t].progress /\ fds[op[t].fd] = 0
               /\ Return(t, "error") /\ desc' = Released(t, d)
            \/ /\ ~op[t].progress
               /\ pc' = [pc EXCEPT ![t] = "try"]
               /\ op' = [op EXCEPT ![t].held = 0]
               /\ desc' = Released(t, d) /\ UNCHANGED res
    /\ UNCHANGED <<fds, sock, pending, bounds>>

\* ppoll returns for the signal
Interrupted(t) ==
    /\ pc[t] = "sleep" /\ t \in pending
    /\ Return(t, "intr") /\ desc' = Released(t, op[t].held)
    /\ pending' = pending \ {t}
    /\ UNCHANGED <<fds, sock, bounds>>

Next ==
    \/ \E b \in BOOLEAN : Socket(b)
    \/ \E b \in BOOLEAN : Socketpair(b)
    \/ \E s \in Socks, st \in {"listening", "shutdown"} : Forward(s, st)
    \/ \E s \in Socks, b \in BOOLEAN : SetFl(s, b)
    \/ \E s \in Socks, b \in BOOLEAN : Fionbio(s, b)
    \/ \E s \in Socks : Dup(s)
    \/ \E s \in Socks : Close(s)
    \/ \E t \in Threads, s \in Socks, c \in {"recv", "send", "accept", "connect"}, b \in BOOLEAN :
          Call(t, s, c, b)
    \/ \E t \in Threads : Check(t)
    \/ \E t \in Threads : Try(t)
    \/ \E t \in Threads : EnterPoll(t)
    \/ \E t \in Threads : Wake(t)
    \/ \E t \in Threads : Interrupted(t)
    \/ \E t \in Threads : Interrupt(t)
    \/ \E d \in Descs : Arrive(d)
    \/ \E d \in Descs : Drain(d)
    \/ \E d \in Descs : PeerConnects(d)
    \/ \E d \in Descs, ok \in BOOLEAN : ConnectEnds(d, ok)

Spec == Init /\ [][Next]_vars

-----------------------------------------------------------------------------
\* Every socket of the host is non-blocking, however it came to be and whatever flags
\* were set on it since: otherwise a thread would sleep in the host's call, where no
\* interrupt reaches it.
HostNeverBlocks == \A d \in Descs : Refers(d, fds) => desc[d].nonblock

\* A blocking call of a blocking socket never says that it would block.
BlockingWaits == \A t \in Threads : res[t].wait => res[t].r \notin {"again", "inprogress"}

\* A connect that waited succeeds only on a socket that is connected, unless another
\* thread closed the descriptor, or connected the same socket and took its error.
ConnectsStep ==
    \A t \in Threads :
        /\ pc[t] = "sleep" /\ pc'[t] = "idle" /\ ~op[t].closed /\ ~op[t].rival
        /\ res'[t].call = "connect" /\ res'[t].r = "ok"
        => desc[fds[op[t].fd]].st = "connected"

ConnectsTrue == [][ConnectsStep]_vars

\* A call ends on the host socket it began on, and never polls for ever on a number that
\* is gone, unless another thread closed the descriptor during the call.
OwnSocket ==
    \A t \in Threads : /\ res[t].r \in {"ok", "intr"} => res[t].same \/ res[t].closed
                       /\ pc[t] = "spin" => op[t].closed

HostSockExact == HostNeverBlocks /\ BlockingWaits /\ OwnSocket
=============================================================================
