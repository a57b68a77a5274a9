-------------------------------- MODULE Poll --------------------------------
(***************************************************************************)
(* poll and select (kernel/poll.c, kernel/select.c, target/shared/poll.c). *)
(* Descriptors that the kernel serves itself answer at once                *)
(* (fd_get_events), the others are polled on the host through their target *)
(* descriptor, and a few have neither and are left out.  The host waits    *)
(* for at most Cap at first.  A signal also interrupts the host's poll:    *)
(* the host signal that goes with it is blocked inside the kernel and      *)
(* stays pending until the thread is in ppoll, which unblocks it.          *)
(*                                                                         *)
(* One thread polls; the spin lock of the file only keeps other pollers    *)
(* out while it looks its descriptors up.  Other threads close             *)
(* descriptors and send signals, and the host makes descriptors ready.     *)
(***************************************************************************)
EXTENDS Integers, FiniteSets, FiniteSetsExt

CONSTANTS
    Fds,
    Kind,         \* of each descriptor: "file", "out", "host" or "mute"
    Offers,       \* sets of events the host may have for a descriptor
    Asked,        \* the events asked for in calls of poll
    Masks,        \* the sets given in calls of select
    Timeouts,     \* -1 is for ever
    Cap,          \* 500 ms
    MaxTime, MaxChanges

VARIABLES
    open,         \* open descriptors
    ready,        \* events the host has for each
    signal,       \* the thread has an active signal
    sending,      \* its sender has yet to interrupt the thread
    woken,        \* the host signal is pending for the thread
    now,
    pc,
    call,         \* "poll" or "select" with its arguments
    internal,     \* descriptors answered by the kernel (ievents)
    target,       \* descriptors polled on the host
    timeout, lapsed, start, deadline,
    revents,      \* the caller's array
    sets,         \* select: the three sets when it returns
    ret,
    changes

callVars == <<call, internal, target, start>>
envVars == <<open, ready, signal, sending, woken, changes>>
vars == <<envVars, now, pc, callVars, timeout, lapsed, deadline, revents, sets, ret>>

InSet == {"in", "hup", "err", "nval"}
OutSet == {"out", "err", "nval"}
ExSet == {"pri", "err", "hup", "nval"}
NoCall == [kind |-> "none", events |-> [f \in {} |-> {}], limit |-> 0, given |-> <<{}, {}, {}>>]
NoSets == <<{}, {}, {}>>

Init ==
    /\ open = Fds /\ ready = [f \in Fds |-> {}] /\ signal = FALSE /\ sending = FALSE
    /\ woken = FALSE
    /\ now = 0 /\ pc = "idle" /\ call = NoCall
    /\ internal = {} /\ target = {} /\ timeout = 0 /\ lapsed = 0 /\ start = 0 /\ deadline = 0
    /\ revents = [f \in Fds |-> {}] /\ sets = NoSets /\ ret = 0 /\ changes = 0

\* internal events of a descriptor: regular files and the two output terminals
Events(f) == IF Kind[f] = "file" THEN {"in", "out"} ELSE {"out"}

-----------------------------------------------------------------------------
\* the environment
Change == changes < MaxChanges /\ changes' = changes + 1
HostReady(f, e) ==
    /\ Change /\ Kind[f] = "host" /\ ready[f] # e
    /\ ready' = [ready EXCEPT ![f] = e]
    /\ UNCHANGED <<open, signal, sending, woken, now, pc, callVars, timeout, lapsed, deadline, revents,
                   sets, ret>>
CloseFd(f) ==
    /\ Change /\ f \in open
    /\ open' = open \ {f}
    /\ UNCHANGED <<ready, signal, sending, woken, now, pc, callVars, timeout, lapsed, deadline, revents,
                   sets, ret>>

\* myst_signal_deliver for this thread: the signal is pending, and only after the lock is
\* released the thread is interrupted
Signal ==
    /\ Change /\ ~signal /\ ~sending
    /\ signal' = TRUE /\ sending' = TRUE
    /\ UNCHANGED <<open, ready, woken, now, pc, callVars, timeout, lapsed, deadline, revents,
                   sets, ret>>

\* myst_tcall_interrupt_thread
Interrupt ==
    /\ sending
    /\ sending' = FALSE /\ woken' = TRUE
    /\ UNCHANGED <<open, ready, signal, changes, now, pc, callVars, timeout, lapsed, deadline,
                   revents, sets, ret>>

-----------------------------------------------------------------------------
\* myst_syscall_poll
PollCall(ev, t) ==
    /\ pc = "idle"
    /\ call' = [kind |-> "poll", events |-> ev, limit |-> t, given |-> NoSets]
    /\ pc' = "gather"
    /\ UNCHANGED <<envVars, now, internal, target, start, timeout, lapsed, deadline, revents,
                   sets, ret>>

\* _update_fds: one element per descriptor, with the events of all its sets
Update(r, w, e) ==
    [f \in r \cup w \cup e |->
        (IF f \in r THEN InSet ELSE {}) \cup (IF f \in w THEN OutSet ELSE {})
          \cup (IF f \in e THEN ExSet ELSE {})]

\* myst_syscall_select; its array starts with no revents
SelectCall(r, w, e, t) ==
    /\ pc = "idle"
    /\ call' = [kind |-> "select", events |-> Update(r, w, e), limit |-> t, given |-> <<r, w, e>>]
    /\ revents' = [f \in Fds |-> {}]
    /\ sets' = <<r, w, e>>
    /\ pc' = "gather"
    /\ UNCHANGED <<envVars, now, internal, target, start, timeout, lapsed, deadline, ret>>

\* the end of a call
Return(r, v, s) ==
    /\ ret' = r /\ revents' = v /\ sets' = s
    /\ pc' = "done"
    /\ UNCHANGED <<envVars, now, callVars, timeout, lapsed, deadline>>

\* the descriptors are looked up: a bad one fails select and goes to the host of poll
GatherFails ==
    /\ pc = "gather" /\ call.kind = "select" /\ ~(DOMAIN call.events \subseteq open)
    /\ Return(-1, revents, sets)

Gather ==
    /\ pc = "gather"
    /\ call.kind = "select" => DOMAIN call.events \subseteq open
    /\ internal' = {f \in DOMAIN call.events \cap open : Kind[f] \in {"file", "out"}}
    /\ target' = {f \in DOMAIN call.events : f \notin open \/ Kind[f] = "host"}
    /\ revents' = [f \in Fds |-> IF f \in internal' THEN call.events[f] \cap Events(f)
                                 ELSE revents[f]]
    /\ start' = now
    /\ timeout' = IF call.limit > Cap \/ call.limit < 0 THEN Cap ELSE call.limit
    /\ lapsed' = 0
    /\ pc' = "loop"
    /\ UNCHANGED <<envVars, now, call, deadline, sets, ret>>

\* into the host's poll; with internal events it does not wait
PollHost ==
    /\ pc = "loop"
    /\ deadline' = now + (IF internal # {} THEN 0 ELSE timeout)
    /\ pc' = "host"
    /\ UNCHANGED <<envVars, now, callVars, timeout, lapsed, revents, sets, ret>>

\* what the host reports: what was asked for, and a hangup or a bad descriptor always
Reported(f) ==
    IF f \notin open THEN {"nval"}
    ELSE ready[f] \cap (call.events[f] \cup {"hup", "err"})
HostEvents == {f \in target : Reported(f) # {}}

Tick ==
    /\ pc = "host" /\ now < deadline /\ HostEvents = {} /\ ~woken /\ now < MaxTime
    /\ now' = now + 1
    /\ UNCHANGED <<envVars, pc, callVars, timeout, lapsed, deadline, revents, sets, ret>>

\* the events of the host are copied back to their places
CopyBack == [f \in Fds |-> IF f \in target THEN Reported(f) ELSE revents[f]]

\* mutant: only what the host reported is counted
CountHost(hs) == Cardinality(hs)

\* tevents + ievents
Count(hs) == Cardinality(hs) + Cardinality(internal)

\* the three sets of select: every element that shows an event of a set is in it
SetsOf(v) ==
    [i \in 1..3 |-> IF call.given[i] = {} THEN {}
                    ELSE {f \in DOMAIN call.events : v[f] \cap <<InSet, OutSet, ExSet>>[i] # {}}]

\* the number that select returns: a set that adds fewer than there were is not added
Added(n, s) == IF Cardinality(s) >= n THEN n + Cardinality(s) ELSE n
SelectCount(s) == Added(Added(Added(0, s[1]), s[2]), s[3])

Finish(v, n) ==
    IF call.kind = "poll" THEN Return(n, v, sets)
    ELSE IF \E f \in DOMAIN call.events : "nval" \in v[f] THEN Return(-1, v, sets)
    ELSE Return(SelectCount(SetsOf(v)), v, SetsOf(v))

\* events, from the host or from the kernel; a host signal stays pending
HostReturns ==
    /\ pc = "host" /\ (HostEvents # {} \/ (internal # {} /\ ~woken))
    /\ Finish(CopyBack, Count(HostEvents))

\* -EINTR from ppoll: nothing was ready and the host signal was pending
HostWoken ==
    /\ pc = "host" /\ HostEvents = {} /\ woken
    /\ ret' = -4 /\ pc' = "done" /\ woken' = FALSE
    /\ UNCHANGED <<open, ready, signal, sending, changes, now, callVars, timeout, lapsed,
                   deadline, revents, sets>>

\* nothing within the time: an active signal is -EINTR
HostTimeout ==
    /\ pc = "host" /\ now = deadline /\ HostEvents = {} /\ internal = {} /\ ~woken
    /\ pc' = "check"
    /\ UNCHANGED <<envVars, now, callVars, timeout, lapsed, deadline, revents, sets, ret>>

Lapsed == lapsed + (now - start)
Expired(l) == call.limit = 0 \/ (call.limit > 0 /\ call.limit - l <= 0)

\* mutant: the remaining time is the whole time again
AgainWhole(l) == IF call.limit > 0 THEN call.limit + 1 ELSE Cap

\* the time to wait in the next round, which Cap does not limit any more
Again(l) == IF call.limit > 0 THEN call.limit - l ELSE Cap

\* the rest of the loop: -EINTR, the time is over, or another round
Check ==
    /\ pc = "check"
    /\ CASE signal -> Return(-4, revents, sets)
         [] ~signal /\ Expired(Lapsed) ->
               Finish([f \in Fds |-> IF f \in target THEN {} ELSE revents[f]], 0)
         [] OTHER -> /\ lapsed' = Lapsed /\ timeout' = Again(Lapsed) /\ pc' = "loop"
                     /\ UNCHANGED <<envVars, now, callVars, deadline, revents, sets, ret>>

\* back in the program; its signal is handled
Back ==
    /\ pc = "done"
    /\ pc' = "idle" /\ call' = NoCall /\ internal' = {} /\ target' = {}
    /\ timeout' = 0 /\ lapsed' = 0 /\ start' = 0 /\ deadline' = 0 /\ now' = 0
    /\ ret' = 0 /\ sets' = NoSets
    /\ signal' = FALSE
    /\ UNCHANGED <<open, ready, sending, woken, revents, changes>>

Next ==
    \/ \E f \in Fds : CloseFd(f) \/ \E e \in Offers : HostReady(f, e)
    \/ \E ev \in Asked, t \in Timeouts : PollCall(ev, t)
    \/ \E m \in Masks, t \in Timeouts : SelectCall(m[1], m[2], m[3], t)
    \/ Signal \/ Interrupt \/ GatherFails \/ Gather \/ PollHost \/ Tick \/ HostReturns \/ HostWoken
    \/ HostTimeout \/ Check \/ Back

Spec == Init /\ [][Next]_vars

-----------------------------------------------------------------------------
(***************************************************************************)
(* Properties                                                              *)
(***************************************************************************)
\* The types of the variables.
TypeOK ==
    /\ open \subseteq Fds /\ internal \cup target \subseteq Fds /\ signal \in BOOLEAN
    /\ now \in 0..MaxTime /\ ret \in -4..Cardinality(Fds) + 6
    /\ \A i \in 1..3 : sets[i] \subseteq Fds

Shown == {f \in internal \cup target : revents[f] # {}}

\* poll counts the descriptors that show an event; a regular file or an output
\* terminal that was asked for something else is counted with none.
PollCounts ==
    (pc = "done" /\ call.kind = "poll" /\ ret >= 0) =>
        ret = Cardinality(Shown \cup internal)

\* Nothing is missed: a call that returns 0 has waited its whole time, and not longer,
\* and nothing that it was asked for was there at the end.  With a descriptor that
\* the kernel answers it does not wait, even if the answer is no event: select then
\* returns 0 at once.
TimeoutExact ==
    (pc = "done" /\ ret = 0 /\ internal = {}) =>
        /\ now - start = call.limit
        /\ Shown = {}

\* A call never waits longer than it was asked to, and a signal whose sender has yet to
\* interrupt the thread is noticed at the end of the round, which is Cap unless this is the
\* last round.
NeverTooLong ==
    /\ (pc \in {"host", "check"} /\ call.limit >= 0) => now - start <= call.limit
    /\ pc = "host" => deadline - now <= Cap \/ lapsed > 0

\* select returns 0 only with three empty sets, and a set holds only descriptors that
\* were in it when select was called, or ones that hung up or have an error: those are put
\* into every set that was given, asked for there or not.  A descriptor that is ready for
\* what it was asked for is in a set.
SelectSound ==
    (pc = "done" /\ call.kind = "select" /\ ret >= 0) =>
        /\ ret = 0 <=> \A i \in 1..3 : sets[i] = {}
        /\ \A i \in 1..3 : \A f \in sets[i] : f \in call.given[i] \/ revents[f] \cap {"hup", "err"} # {}
        /\ \A i \in 1..3 : call.given[i] = {} => sets[i] = {}
        /\ \A f \in DOMAIN call.events : revents[f] \cap {"in", "out"} # {} =>
              \E i \in 1..3 : f \in sets[i]

\* All of the above.
PollExact == TypeOK /\ PollCounts /\ TimeoutExact /\ NeverTooLong /\ SelectSound
=============================================================================
