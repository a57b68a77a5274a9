----------------------------- MODULE UdsListen -----------------------------
(***************************************************************************)
(* Names and connections of Unix domain sockets (kernel/udsdev.c): bind,   *)
(* listen, connect, accept and the close of a listener, over the array of  *)
(* acceptors.  A listening socket and a connecting call keep pointers into *)
(* the array; releasing an acceptor moves the last one into its place and  *)
(* then clears that place.                                                 *)
(*                                                                         *)
(* A socket is used by one thread.  What is sent over a connection is in   *)
(* module Uds.                                                             *)
(***************************************************************************)
EXTENDS Integers, Sequences, FiniteSets, SequencesExt

CONSTANTS Socks,         \* 1..n, numbered in the order in which they are created
          Paths,         \* names of files
          Abstract,      \* names in the abstract name space
          NoName, NoSock,
          MaxAcceptors,
          MaxCalls

Names == Paths \cup Abstract
Slots == 1..MaxAcceptors

VARIABLES
    life,      \* "none", "open" or "closed"
    bound,     \* bind_addr
    slot,      \* the acceptor pointer of a socket, 0 if it is NULL
    peer,
    files,     \* the paths that exist
    acc,       \* _acceptors: a name and the list of sockets that want to connect
    num,       \* _num_acceptors
    pc,        \* what the thread of each socket does
    at,        \* the acceptor that its connect found
    conn,      \* the socket that its accept took from the list
    calls,
    asked,     \* ghost: the name its connect asked for
    failed,    \* ghost: connectors whose listener closed or whose accept failed,
               \* while they waited or were about to
    shifted    \* ghost: an acceptor other than the last was released, or a socket
               \* listened twice

sockVars == <<life, bound, slot, peer>>
vars == <<sockVars, files, acc, num, pc, at, conn, calls, asked, failed, shifted>>

Cleared == [name |-> NoName, list |-> <<>>]

Init ==
    /\ life = [s \in Socks |-> "none"]
    /\ bound = [s \in Socks |-> NoName]
    /\ slot = [s \in Socks |-> 0]
    /\ peer = [s \in Socks |-> NoSock]
    /\ files = {}
    /\ acc = [i \in Slots |-> Cleared]
    /\ num = 0
    /\ pc = [s \in Socks |-> "idle"]
    /\ at = [s \in Socks |-> 0]
    /\ conn = [s \in Socks |-> NoSock]
    /\ calls = 0
    /\ asked = [s \in Socks |-> NoName]
    /\ failed = {}
    /\ shifted = FALSE

MayCall(s) == life[s] = "open" /\ pc[s] = "idle" /\ calls < MaxCalls
Begin == calls' = calls + 1
Goto(s, l) == pc' = [pc EXCEPT ![s] = l]

\* _new_sock
IsNew(s) == s = Cardinality({r \in Socks : life[r] # "none"}) + 1

\* _udsdev_socket
Socket(s) ==
    /\ IsNew(s) /\ calls < MaxCalls
    /\ life' = [life EXCEPT ![s] = "open"]
    /\ Begin
    /\ UNCHANGED <<bound, slot, peer, files, acc, num, pc, at, conn, asked, failed, shifted>>

\* _lookup_acceptor: the first with the name, 0 if there is none
Lookup(n) ==
    LET found == {i \in 1..num : acc[i].name = n}
    IN  IF found = {} THEN 0 ELSE CHOOSE i \in found : \A j \in found : i <= j

\* _udsdev_bind: a path must not exist and is created, an abstract name must not be
\* listened on
Bind(s, n) ==
    /\ MayCall(s) /\ bound[s] = NoName
    /\ IF n \in Paths THEN n \notin files /\ files' = files \cup {n}
                      ELSE Lookup(n) = 0 /\ UNCHANGED files
    /\ bound' = [bound EXCEPT ![s] = n]
    /\ Begin
    /\ UNCHANGED <<life, slot, peer, acc, num, pc, at, conn, asked, failed, shifted>>

\* _udsdev_listen and _create_acceptor, at the end of the array
Listen(s) ==
    /\ MayCall(s) /\ bound[s] # NoName /\ num < MaxAcceptors
    /\ num' = num + 1
    /\ acc' = [acc EXCEPT ![num + 1] = [name |-> bound[s], list |-> <<>>]]
    /\ slot' = [slot EXCEPT ![s] = num + 1]
    /\ shifted' = (shifted \/ slot[s] # 0)
    /\ Begin
    /\ UNCHANGED <<life, bound, peer, files, pc, at, conn, asked, failed>>

\* the array is full: the pointer has been cleared by then, also that of a socket that
\* listens already
ListenFails(s) ==
    /\ MayCall(s) /\ bound[s] # NoName /\ num = MaxAcceptors
    /\ slot' = [slot EXCEPT ![s] = 0]
    /\ shifted' = (shifted \/ slot[s] # 0)
    /\ Begin
    /\ UNCHANGED <<life, bound, peer, files, acc, num, pc, at, conn, asked, failed>>

\* _udsdev_connect up to the lookup, whose result is used without _acceptor_lock
Connect(s, n) ==
    /\ MayCall(s) /\ peer[s] = NoSock /\ Lookup(n) # 0
    /\ at' = [at EXCEPT ![s] = Lookup(n)]
    /\ asked' = [asked EXCEPT ![s] = n]
    /\ Goto(s, "enqueue")
    /\ Begin
    /\ UNCHANGED <<sockVars, files, acc, num, conn, failed, shifted>>

\* the listener this acceptor belonged to is gone
Orphan(i) == \A r \in Socks : ~(life[r] = "open" /\ slot[r] = i)

ConnectEnqueue(s) ==
    /\ pc[s] = "enqueue"
    /\ acc' = [acc EXCEPT ![at[s]].list = Append(@, s)]
    /\ failed' = IF Orphan(at[s]) THEN failed \cup {s} ELSE failed
    /\ Goto(s, "wait")
    /\ UNCHANGED <<sockVars, files, num, at, conn, calls, asked, shifted>>

\* the wait for the peer ignores signals
ConnectDone(s) ==
    /\ pc[s] = "wait" /\ peer[s] # NoSock
    /\ Goto(s, "idle")
    /\ UNCHANGED <<sockVars, files, acc, num, at, conn, calls, asked, failed, shifted>>

\* _udsdev_accept4 up to the wait
Accept(s) ==
    /\ MayCall(s) /\ slot[s] # 0
    /\ Goto(s, "accept")
    /\ Begin
    /\ UNCHANGED <<sockVars, files, acc, num, at, conn, asked, failed, shifted>>

\* the wait ends with a signal
AcceptEintr(s) ==
    /\ pc[s] = "accept" /\ acc[slot[s]].list = <<>>
    /\ Goto(s, "idle")
    /\ UNCHANGED <<sockVars, files, acc, num, at, conn, calls, asked, failed, shifted>>

\* mutant: the socket stays on the list
TakeKeeping(s) ==
    /\ pc[s] = "accept" /\ acc[slot[s]].list # <<>>
    /\ conn' = [conn EXCEPT ![s] = Head(acc[slot[s]].list)]
    /\ Goto(s, "tie")
    /\ UNCHANGED <<sockVars, files, acc, num, at, calls, asked, failed, shifted>>

\* the first socket of the list is taken
AcceptTake(s) ==
    /\ pc[s] = "accept" /\ acc[slot[s]].list # <<>>
    /\ conn' = [conn EXCEPT ![s] = Head(acc[slot[s]].list)]
    /\ acc' = [acc EXCEPT ![slot[s]].list = Tail(@)]
    /\ Goto(s, "tie")
    /\ UNCHANGED <<sockVars, files, num, at, calls, asked, failed, shifted>>

\* the two sockets become peers and the connector is signalled
AcceptTie(s, new) ==
    /\ pc[s] = "tie" /\ IsNew(new)
    /\ life' = [life EXCEPT ![new] = "open"]
    /\ peer' = [peer EXCEPT ![new] = conn[s], ![conn[s]] = new]
    /\ asked' = [asked EXCEPT ![new] = bound[s]]
    /\ Goto(s, "idle")
    /\ conn' = [conn EXCEPT ![s] = NoSock]
    /\ UNCHANGED <<bound, slot, files, acc, num, at, calls, failed, shifted>>

\* _new_sock fails: the connector was taken and is forgotten
AcceptFail(s) ==
    /\ pc[s] = "tie"
    /\ failed' = failed \cup {conn[s]}
    /\ conn' = [conn EXCEPT ![s] = NoSock]
    /\ Goto(s, "idle")
    /\ UNCHANGED <<sockVars, files, acc, num, at, calls, asked, shifted>>

\* _release_acceptor
Release(i) ==
    IF i \in 1..num
    THEN /\ num' = num - 1
         /\ acc' = [acc EXCEPT ![i] = Cleared]
         /\ failed' = failed \cup ToSet(acc[i].list) \cup ToSet(acc[num].list)
                             \cup {s \in Socks : pc[s] = "enqueue" /\ at[s] \in {i, num}}
         /\ shifted' = (shifted \/ i # num)
    ELSE UNCHANGED <<acc, num, failed, shifted>>

\* _udsdev_close of the last handle; the peer of a pair that has lost one end keeps
\* its pointer
Close(s) ==
    /\ life[s] = "open" /\ pc[s] = "idle"
    /\ life' = [life EXCEPT ![s] = "closed"]
    /\ Release(slot[s])
    /\ UNCHANGED <<bound, slot, peer, files, pc, at, conn, calls, asked>>

Next ==
    \E s \in Socks :
        \/ Socket(s) \/ Listen(s) \/ ListenFails(s) \/ Accept(s) \/ Close(s)
        \/ ConnectEnqueue(s) \/ ConnectDone(s)
        \/ AcceptEintr(s) \/ AcceptTake(s) \/ AcceptFail(s)
        \/ \E n \in Names : Bind(s, n) \/ Connect(s, n)
        \/ \E new \in Socks : AcceptTie(s, new)

Spec == Init /\ [][Next]_vars

-----------------------------------------------------------------------------
(***************************************************************************)
(* Properties                                                              *)
(***************************************************************************)
\* The types of the variables.
TypeOK ==
    /\ bound \in [Socks -> Names \cup {NoName}]
    /\ slot \in [Socks -> 0..MaxAcceptors] /\ num \in 0..MaxAcceptors
    /\ peer \in [Socks -> Socks \cup {NoSock}]
    /\ \A i \in Slots : ToSet(acc[i].list) \subseteq Socks

Listeners == {s \in Socks : life[s] = "open" /\ slot[s] # 0}

\* "We can move the acceptor because direct pointers to acceptors are not shared":
\* the acceptor of a listening socket is its own, has its name, and is one that
\* lookups see.
ListenersFound ==
    \A s \in Listeners :
        /\ slot[s] \in 1..num /\ acc[slot[s]].name = bound[s]
        /\ \A r \in Listeners : slot[r] = slot[s] => r = s

\* the ends of the connections are those of two sockets that have each other
PeersMutual ==
    \A s \in Socks : peer[s] # NoSock => peer[peer[s]] = s

\* As long as listeners are closed in the reverse order in which they began, they
\* are found, a connection is with a socket that listened on the name that connect
\* asked for, and a connect that waits is on the list of one listener or in the
\* hands of one accept, so that it will be accepted.
ListenExact ==
    /\ TypeOK /\ PeersMutual
    /\ ~shifted =>
        /\ ListenersFound
        /\ \A s \in Socks : peer[s] # NoSock /\ {s, peer[s]} \cap failed = {} => asked[s] = asked[peer[s]]
        /\ \A s \in Socks : pc[s] = "wait" /\ peer[s] = NoSock /\ s \notin failed =>
              Cardinality({r \in Listeners : s = conn[r] \/ s \in ToSet(acc[slot[r]].list)}) = 1
=============================================================================
