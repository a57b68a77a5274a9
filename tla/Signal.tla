------------------------------- MODULE Signal -------------------------------
(***************************************************************************)
(* The signals of one thread (kernel/signal.c): other threads deliver      *)
(* them, the thread handles them whenever it enters or leaves the kernel,  *)
(* and SIGSTOP makes it wait for SIGCONT there.                            *)
(*                                                                         *)
(* myst_signal_process is called again by every system call of a handler   *)
(* and by the futex wait of a stopped thread, so the calls in progress are *)
(* a stack of frames.  thread->signal.lock is held from the choice of the  *)
(* signals to the start of a handler and from its return to the next one:  *)
(* each such stretch is one action.                                        *)
(***************************************************************************)
EXTENDS Integers, SequencesExt

CONSTANTS
    Sigs,        \* the signal numbers in use, all of them with a handler
    SaMask,      \* the sa_mask of each handler
    NoDefer,     \* the signals whose handlers have SA_NODEFER
    Masks,       \* the sets the thread passes to sigprocmask
    MaxSends,    \* bound on the number of signals delivered
    MaxStops,    \* bound on the number of SIGSTOPs
    MaxMasks,    \* bound on the calls of sigprocmask
    MaxDepth     \* bound on the calls of myst_signal_process in progress

ASSUME SigsAssumption ==
    /\ Sigs \subseteq Nat
    /\ SaMask \in [Sigs -> SUBSET Sigs] /\ NoDefer \subseteq Sigs
    /\ Masks \subseteq SUBSET Sigs
ASSUME BoundsAssumption == {MaxSends, MaxStops, MaxMasks, MaxDepth} \subseteq Nat

VARIABLES
    pending,     \* thread->signal.pending
    infos,       \* thread->signal.siginfos: one list per signal
    mask,        \* thread->signal.mask
    original,    \* thread->signal.original_mask
    frames,      \* the calls of myst_signal_process in progress
    stopped,     \* process->sigstop_futex = 1
    refs,        \* how often the thread holds the mutex of that futex
    continuing,  \* SIGCONTs that cleared it and still have to wake the thread
    event,       \* what the blocked thread was woken by: "none", "cont", "signal"
    sent,        \* how often each signal was delivered
    handled,     \* the siginfos its handler was called with (history)
    stops, masks \* counters for the bounds

queueVars == <<pending, infos, sent>>
stopVars == <<stopped, refs, continuing, event, stops>>
maskVars == <<mask, original, masks>>
vars == <<queueVars, stopVars, maskVars, frames, handled>>

Frame(l, a, s) == [at |-> l, active |-> a, sig |-> s]
NoSig == 0

Init ==
    /\ pending = {}
    /\ infos = [s \in Sigs |-> <<>>]
    /\ mask = {}
    /\ original = {}
    /\ frames = <<>>
    /\ stopped = FALSE
    /\ refs = 0
    /\ continuing = 0
    /\ event = "none"
    /\ sent = [s \in Sigs |-> 0]
    /\ handled = [s \in Sigs |-> <<>>]
    /\ stops = 0
    /\ masks = 0

\* where the thread is: in user code, or in its latest call
At(l) == frames # <<>> /\ Last(frames).at = l
InUser == frames = <<>> \/ At("handler")
Top(f) == Append(Front(frames), f)

-----------------------------------------------------------------------------
(* myst_signal_deliver, by other threads *)

\* mutant: a second siginfo replaces the first
Replace(q, x) == <<x>>
Enqueue(q, x) == Append(q, x)

Deliver(s) ==
    /\ sent[s] < MaxSends
    /\ sent' = [sent EXCEPT ![s] = @ + 1]
    /\ infos' = [infos EXCEPT ![s] = Enqueue(@, sent[s] + 1)]
    /\ pending' = pending \cup {s}
    /\ event' = IF At("blocked") /\ s \notin mask /\ event = "none"
                THEN "signal" ELSE event
    /\ UNCHANGED <<maskVars, frames, handled, stopped, refs, continuing, stops>>

\* SIGSTOP: _myst_sigstop_block
DeliverStop ==
    /\ stops < MaxStops
    /\ stops' = stops + 1
    /\ stopped' = TRUE
    /\ UNCHANGED <<queueVars, maskVars, frames, handled, refs, continuing, event>>

\* SIGCONT: _myst_sigstop_unblock clears the word, then wakes the waiter, for
\* which it needs the mutex of the futex
DeliverCont ==
    /\ stopped
    /\ stopped' = FALSE
    /\ continuing' = continuing + 1
    /\ UNCHANGED <<queueVars, maskVars, frames, handled, refs, event, stops>>

ContWake ==
    /\ continuing > 0
    /\ refs = 0
    /\ continuing' = continuing - 1
    /\ event' = IF At("blocked") THEN "cont" ELSE event
    /\ UNCHANGED <<queueVars, maskVars, frames, handled, stopped, refs, stops>>

-----------------------------------------------------------------------------
(* myst_signal_process, by the thread itself *)

\* a system call from user code or from a handler
ProcessCall ==
    /\ InUser
    /\ Len(frames) < MaxDepth
    /\ frames' = Append(frames, Frame("stop", {}, NoSig))
    /\ UNCHANGED <<queueVars, maskVars, stopVars, handled>>

\* not stopped: choose the signals
Active == pending \ mask

StopCheck ==
    /\ At("stop")
    /\ ~stopped
    /\ frames' = Top(Frame("scan", Active, NoSig))
    /\ UNCHANGED <<queueVars, maskVars, stopVars, handled>>

\* stopped: myst_futex_wait takes the mutex of the futex, sees the word still
\* set and calls myst_cond_timedwait, which calls myst_signal_process again
StopWait ==
    /\ At("stop")
    /\ stopped
    /\ Len(frames) < MaxDepth
    /\ refs' = refs + 1
    /\ frames' = Append(Top(Frame("wait", {}, NoSig)), Frame("stop", {}, NoSig))
    /\ UNCHANGED <<queueVars, maskVars, handled, stopped, continuing, event, stops>>

\* back from that call: the wait releases the mutex once and blocks
StopBlock ==
    /\ At("wait")
    /\ refs' = refs - 1
    /\ event' = "none"
    /\ frames' = Top(Frame("blocked", {}, NoSig))
    /\ UNCHANGED <<queueVars, maskVars, handled, stopped, continuing, stops>>

\* the mutex is locked again by the wait and unlocked by myst_futex_wait;
\* mutant: it is only unlocked
OnlyUnlocked(r) == r - 1
RelockedUnlocked(r) == (r + 1) - 1

\* woken by SIGCONT: look at the word again; by a signal: handle it
StopResume ==
    /\ At("blocked")
    /\ event # "none"
    /\ refs' = RelockedUnlocked(refs)
    /\ event' = "none"
    /\ frames' = Top(IF event = "cont" THEN Frame("stop", {}, NoSig)
                     ELSE Frame("scan", Active, NoSig))
    /\ UNCHANGED <<queueVars, maskVars, handled, stopped, continuing, stops>>

\* pending bits are cleared; mutant: those of all active signals at once
ClearActive(done, active) == pending \ active
ClearDone(done, active) == pending \ done

\* _handle_one_signal: what is blocked while the handler runs
HandlerMask(s) == mask \cup SaMask[s] \cup ({s} \ NoDefer)

\* the lowest active signal with a siginfo is handled, the bits of the ones
\* below it, whose lists are empty, are cleared
Scan ==
    LET active == Last(frames).active
        ready == {s \in active : infos[s] # <<>>}
        s == Min(ready)
        done == {u \in active : u < s}
    IN
    /\ At("scan")
    /\ ready # {}
    /\ infos' = [infos EXCEPT ![s] = Tail(@)]
    /\ handled' = [handled EXCEPT ![s] = Append(@, Head(infos[s]))]
    /\ pending' = ClearDone(done, active)
    /\ mask' = HandlerMask(s)
    /\ frames' = Top(Frame("handler", active \ done, s))
    /\ UNCHANGED <<sent, original, masks, stopVars>>

\* no siginfo left: the call returns
ScanEnd ==
    LET active == Last(frames).active IN
    /\ At("scan")
    /\ \A s \in active : infos[s] = <<>>
    /\ pending' = pending \ active
    /\ frames' = Front(frames)
    /\ UNCHANGED <<infos, sent, maskVars, stopVars, handled>>

\* myst_signal_restore_mask; mutant: only the signal itself is unblocked
UnblockSelf(s) == mask \ {s}
RestoredMask(s) == original

HandlerReturn ==
    LET f == Last(frames) IN
    /\ At("handler")
    /\ mask' = RestoredMask(f.sig)
    /\ frames' = Top(Frame("scan", f.active, NoSig))
    /\ UNCHANGED <<queueVars, original, masks, stopVars, handled>>

\* myst_signal_sigprocmask: SIG_SETMASK, SIG_BLOCK or SIG_UNBLOCK; the handler's own code
\* may call it too, and the copy follows the mask each time
SigProcMask ==
    /\ InUser
    /\ masks < MaxMasks
    /\ masks' = masks + 1
    /\ \E m \in Masks : mask' \in {m, mask \cup m, mask \ m}
    /\ original' = mask'
    /\ UNCHANGED <<queueVars, stopVars, frames, handled>>

-----------------------------------------------------------------------------
ThreadStep ==
    \/ StopCheck \/ StopWait \/ StopBlock \/ StopResume
    \/ Scan \/ ScanEnd \/ HandlerReturn

Next ==
    \/ \E s \in Sigs : Deliver(s)
    \/ DeliverStop \/ DeliverCont \/ ContWake
    \/ ProcessCall \/ SigProcMask \/ ThreadStep

Spec == Init /\ [][Next]_vars

\* the thread runs, its handlers return and it keeps making system calls
FairSpec ==
    /\ Spec
    /\ WF_vars(ThreadStep) /\ SF_vars(HandlerReturn) /\ WF_vars(ContWake)
    /\ WF_vars(frames = <<>> /\ ProcessCall)

-----------------------------------------------------------------------------
(***************************************************************************)
(* Properties                                                              *)
(***************************************************************************)

\* The types of the variables.
TypeOK ==
    /\ pending \subseteq Sigs
    /\ infos \in [Sigs -> Seq(Nat)]
    /\ mask \subseteq Sigs /\ original \subseteq Sigs
    /\ \A i \in 1..Len(frames) :
          /\ frames[i].at \in {"stop", "wait", "blocked", "scan", "handler"}
          /\ frames[i].active \subseteq Sigs
          /\ frames[i].sig \in Sigs \cup {NoSig}
    /\ stopped \in BOOLEAN
    /\ refs \in 0..MaxDepth
    /\ continuing \in 0..MaxStops
    /\ event \in {"none", "cont", "signal"}

\* Every siginfo reaches the handler exactly once and in the order in which it
\* was delivered, although the list is used by nested calls and by senders while
\* a handler runs.
InOrderOnce ==
    \A s \in Sigs : handled[s] \o infos[s] = [i \in 1..sent[s] |-> i]

\* A siginfo never waits without its pending bit, which is all that the rest of
\* the kernel looks at; a bit without a siginfo belongs to a call that is still
\* busy with that signal.
PendingExact ==
    \A s \in Sigs :
        /\ infos[s] # <<>> => s \in pending
        /\ s \in pending /\ infos[s] = <<>> =>
              \E i \in 1..Len(frames) : s \in frames[i].active

\* In user code outside all handlers the mask is the one set by sigprocmask,
\* whatever handlers ran, nested or not.
MaskRestored == frames = <<>> => mask = original

\* SIGCONT is to "release the SIGSTOP block for the process": the thread it
\* continues gets back to user code.
ContResumes == continuing > 0 ~> frames = <<>>

\* A signal that is not blocked is handled in the end, unless the thread was
\* stopped.
SignalHandled ==
    \A s \in Sigs :
        (infos[s] # <<>> /\ s \notin original) ~> (infos[s] = <<>> \/ s \in original \/ stops > 0)
=============================================================================
