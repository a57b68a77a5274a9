------------------------------ MODULE Process ------------------------------
(***************************************************************************)
(* Processes (kernel/thread.c): fork puts a process into the process list, *)
(* exit moves it to the zombie list, wait4 and waitid find it there.       *)
(*                                                                         *)
(* Both lists are changed under myst_process_list_lock, and such a section *)
(* is one action, with one exception: myst_wait looks at the two lists     *)
(* without the lock first, so the moves of an exiting process, which make  *)
(* up one locked section, are three actions here.  What the threads of a   *)
(* process do on exit is in module ThreadGroup; here a process that exits  *)
(* has no other thread left.                                               *)
(***************************************************************************)
EXTENDS Integers, SequencesExt

CONSTANTS
    Procs,         \* the processes there may ever be, by pid
    Root,          \* the first process (myst_main_process)
    Groups,        \* the process group ids in use
    Callers,       \* the threads that call wait: <<process, number>>
    WaitArgs,      \* the arguments of the wait calls of each of them
    Causes,        \* how a process may end: <<"exit", status>>, <<"signal", n>>
    MaxGroups,     \* bound on the setpgid calls
    MaxStops       \* bound on the number of SIGSTOPs

ASSUME RootAssumption == Root \in Procs /\ Root \in Groups
ASSUME CallersAssumption ==
    \A w \in Callers : w[1] \in Procs /\ WaitArgs[w] # {}
ASSUME WaitArgsAssumption ==
    \A w \in Callers : \A o \in WaitArgs[w] : o.kind \in {"pid", "any", "group", "pgid"}
ASSUME CausesAssumption ==
    Causes # {} /\ Causes \subseteq ({"exit"} \X Int) \cup ({"signal"} \X (1..64))
ASSUME BoundsAssumption == {MaxGroups, MaxStops} \subseteq Nat

VARIABLES
    list,        \* the processes from myst_main_process along next_process
    zombies,     \* the processes from _zombies_head along zombie_next
    at,          \* how far each process is
    ppid, pgid,  \* process->ppid, process->pgid
    cause,       \* terminating_signum and exit_status
    fatal,       \* the processes with a pending SIGHUP from their parent
    stopped,     \* the processes with sigstop_futex = 1
    sigchld,     \* the children each process was sent SIGCHLD for
    pc,          \* where each wait call is
    args,        \* its arguments
    result,      \* what the last step returned from a wait call, if it did
    owed,        \* the matching children it had ever since the call (history)
    groups, stops    \* counters for the bounds

treeVars == <<list, zombies, at, ppid, cause, sigchld>>
waitVars == <<pc, args, owed>>
sigVars == <<fatal, stopped, stops>>
vars == <<treeVars, pgid, groups, waitVars, result, sigVars>>

NoArgs(w) == CHOOSE o \in WaitArgs[w] : TRUE
NoResult == [ret |-> "none", pid |-> Root, status |-> 0]
NoReturn == result' = NoResult

Init ==
    /\ list = <<Root>>
    /\ zombies = <<>>
    /\ at = [p \in Procs |-> IF p = Root THEN "live" ELSE "none"]
    /\ ppid = [p \in Procs |-> Root]
    /\ pgid = [p \in Procs |-> Root]
    /\ cause = [p \in Procs |-> CHOOSE c \in Causes : TRUE]
    /\ fatal = {}
    /\ stopped = {}
    /\ sigchld = [p \in Procs |-> {}]
    /\ pc = [w \in Callers |-> "idle"]
    /\ args = [w \in Callers |-> NoArgs(w)]
    /\ result = NoResult
    /\ owed = [w \in Callers |-> {}]
    /\ groups = 0
    /\ stops = 0

\* myst_process_list_lock is only ever held across the steps of an exit;
\* mutant: the lists are searched without it
ListNeverLocked == TRUE
ListUnlocked == \A p \in Procs : at[p] \notin {"notified", "listed"}

Index(p) == CHOOSE i \in 1..Len(list) : list[i] = p
Left(p) == Reverse(SubSeq(list, 1, Index(p) - 1))
Right(p) == SubSeq(list, Index(p) + 1, Len(list))
ChildrenIn(q, p) == {c \in ToSet(q) : c # p /\ ppid[c] = p}

\* _wait_matcher: a pid matches whether or not it is a child
Matches(o, p, q) ==
    CASE o.kind = "pid"   -> q = o.id
      [] o.kind = "any"   -> ppid[q] = p /\ q # Root
      [] o.kind = "group" -> ppid[q] = p /\ q # Root /\ pgid[q] = pgid[p]
      [] o.kind = "pgid"  -> ppid[q] = p /\ q # Root /\ pgid[q] = o.id

-----------------------------------------------------------------------------
(* fork: _syscall_clone_vfork *)

\* the child goes behind its parent; mutant: in front of it
InsertBefore(p, c) == InsertAt(list, Index(p), c)
InsertBehind(p, c) == InsertAt(list, Index(p) + 1, c)

ForkLink(p, c) ==
    /\ at[p] = "live"
    /\ at[c] = "none"
    /\ ListUnlocked
    /\ list' = InsertBehind(p, c)
    /\ at' = [at EXCEPT ![c] = "forking"]
    /\ ppid' = [ppid EXCEPT ![c] = p]
    /\ pgid' = [pgid EXCEPT ![c] = pgid[p]]
    /\ NoReturn
    /\ UNCHANGED <<zombies, cause, sigchld, groups, waitVars, sigVars>>

ForkStart(c) ==
    /\ at[c] = "forking"
    /\ at' = [at EXCEPT ![c] = "live"]
    /\ NoReturn
    /\ UNCHANGED <<list, zombies, ppid, cause, sigchld, pgid, groups,
                   waitVars, sigVars>>

\* /proc setup, entry stack or host thread failed: the child is taken out again
ForkFail(c) ==
    /\ at[c] = "forking"
    /\ ListUnlocked
    /\ list' = RemoveAt(list, Index(c))
    /\ at' = [at EXCEPT ![c] = "none"]
    /\ owed' = [w \in Callers |-> owed[w] \ {c}]
    /\ fatal' = fatal \ {c}
    /\ stopped' = stopped \ {c}
    /\ NoReturn
    /\ UNCHANGED <<zombies, ppid, cause, sigchld, pgid, groups, pc, args,
                   stops>>

-----------------------------------------------------------------------------
(* kill, setpgid *)

\* SIGSTOP and SIGCONT; a fatal signal is an Exit with that cause
Stop(p) ==
    /\ p \in ToSet(list)
    /\ ListUnlocked
    /\ stops < MaxStops
    /\ stopped' = stopped \cup {p}
    /\ stops' = stops + 1
    /\ NoReturn
    /\ UNCHANGED <<treeVars, pgid, groups, waitVars, fatal>>

Cont(p) ==
    /\ p \in stopped
    /\ p \in ToSet(list)
    /\ ListUnlocked
    /\ stopped' = stopped \ {p}
    /\ NoReturn
    /\ UNCHANGED <<treeVars, pgid, groups, waitVars, fatal, stops>>

\* a process changes its own group or that of a child
SetPgid(p, q, g) ==
    /\ at[p] = "live"
    /\ q = p \/ ppid[q] = p
    /\ q \in ToSet(list)
    /\ groups < MaxGroups
    /\ groups' = groups + 1
    /\ pgid' = [pgid EXCEPT ![q] = g]
    /\ NoReturn
    /\ UNCHANGED <<treeVars, pc, args, sigVars>>
    /\ owed' = [w \in Callers |-> {x \in owed[w] : Matches(args[w], w[1], x)'}]

-----------------------------------------------------------------------------
(* exit: the main thread's part of _run_thread *)

\* the threads of the process are gone, and with them their wait calls
Exit(p) ==
    /\ at[p] = "live"
    /\ \A c \in Procs : at[c] = "forking" => ppid[c] # p
    /\ \A w \in Callers : w[1] = p => pc[w] \in {"idle", "sleep"}
    /\ \E c \in Causes : /\ p \in fatal => c[1] = "signal"
                         /\ cause' = [cause EXCEPT ![p] = c]
    /\ at' = [at EXCEPT ![p] = "exiting"]
    /\ pc' = [w \in Callers |-> IF w[1] = p THEN "idle" ELSE pc[w]]
    /\ owed' = [w \in Callers |-> IF w[1] = p THEN {} ELSE owed[w]]
    /\ NoReturn
    /\ UNCHANGED <<list, zombies, ppid, sigchld, pgid, groups, args,
                   sigVars>>

ExitBySignal(p) == p \in fatal /\ Exit(p)

\* myst_send_sighup_child_processes; mutant: only the left half is walked
HangUpLeft(p) == ChildrenIn(Left(p), p)
HangUp(p) == ChildrenIn(Left(p), p) \cup ChildrenIn(Right(p), p)

SendSighup(p) ==
    /\ at[p] = "exiting"
    /\ ListUnlocked
    /\ fatal' = fatal \cup HangUp(p)
    /\ at' = [at EXCEPT ![p] = "waiting"]
    /\ NoReturn
    /\ UNCHANGED <<list, zombies, ppid, cause, sigchld, pgid, groups,
                   waitVars, stopped, stops>>

\* myst_wait_on_child_processes; mutant: it is not called
NoWait(p) == TRUE
ChildrenGone(p) == ChildrenIn(list, p) = {}

\* myst_send_sigchld_and_zombify_process, in three steps under the lock
SendSigchld(p) ==
    /\ p # Root
    /\ at[p] = "waiting"
    /\ ChildrenGone(p)
    /\ ListUnlocked
    /\ sigchld' = IF ppid[p] \in ToSet(list)
                  THEN [sigchld EXCEPT ![ppid[p]] = @ \cup {p}]
                  ELSE sigchld
    /\ at' = [at EXCEPT ![p] = "notified"]
    /\ NoReturn
    /\ UNCHANGED <<list, zombies, ppid, cause, pgid, groups, waitVars,
                   sigVars>>

PushZombie(p) ==
    /\ at[p] = "notified"
    /\ zombies' = <<p>> \o zombies
    /\ at' = [at EXCEPT ![p] = "listed"]
    /\ NoReturn
    /\ UNCHANGED <<list, ppid, cause, sigchld, pgid, groups, waitVars,
                   sigVars>>

Unlink(p) ==
    /\ at[p] = "listed"
    /\ list' = RemoveAt(list, Index(p))
    /\ at' = [at EXCEPT ![p] = "zombie"]
    /\ fatal' = fatal \ {p}
    /\ NoReturn
    /\ UNCHANGED <<zombies, ppid, cause, sigchld, pgid, groups, waitVars,
                   stopped, stops>>

\* the first process waits for all others, without the lock, and ends the kernel
RootEnd ==
    /\ at[Root] = "waiting"
    /\ list = <<Root>>
    /\ at' = [at EXCEPT ![Root] = "gone"]
    /\ NoReturn
    /\ UNCHANGED <<list, zombies, ppid, cause, sigchld, pgid, groups,
                   waitVars, sigVars>>

-----------------------------------------------------------------------------
(* wait4 and waitid: myst_wait *)

Unreaped(p) == {q \in ToSet(list) \cup ToSet(zombies) : ppid[q] = p /\ q # Root}

WaitCall(w) ==
    /\ at[w[1]] = "live"
    /\ pc[w] = "idle"
    /\ \E o \in WaitArgs[w] :
          /\ args' = [args EXCEPT ![w] = o]
          /\ owed' = [owed EXCEPT ![w] = {q \in Unreaped(w[1]) : Matches(o, w[1], q)}]
    /\ pc' = [pc EXCEPT ![w] = "read1"]
    /\ NoReturn
    /\ UNCHANGED <<treeVars, pgid, groups, sigVars>>

\* the order of the three unlocked reads; mutant: the zombies first
ZombiesFirst == <<"zombies", "next", "prev">>
Reads == <<"next", "prev", "zombies">>

IsNull(r, p) ==
    CASE r = "next"    -> Last(list) = p
      [] r = "prev"    -> Head(list) = p
      [] r = "zombies" -> zombies = <<>>

Return(w, r, q, s) ==
    /\ pc' = [pc EXCEPT ![w] = "idle"]
    /\ args' = [args EXCEPT ![w] = NoArgs(w)]
    /\ result' = [ret |-> r, pid |-> q, status |-> s]

\* no other process and no zombie: ECHILD
WaitRead(w) ==
    \E i \in 1..3 :
        /\ pc[w] = <<"read1", "read2", "read3">>[i]
        /\ IF ~IsNull(Reads[i], w[1])
           THEN pc' = [pc EXCEPT ![w] = "search"] /\ UNCHANGED <<args, owed>> /\ NoReturn
           ELSE IF i < 3
           THEN pc' = [pc EXCEPT ![w] = <<"read2", "read3">>[i]] /\ UNCHANGED <<args, owed>> /\ NoReturn
           ELSE /\ Return(w, "ECHILD", Root, 0)
                /\ owed' = [owed EXCEPT ![w] = {}]
        /\ UNCHANGED <<treeVars, pgid, groups, sigVars>>

\* exit_status and terminating_signum as a wait status; mutant: the exit status
\* is not cut to a byte
ExitWordUncut(e) == e * 256
ExitWord(e) == (e % 256) * 256

WithCore == {3, 4, 5, 6, 7, 8, 11, 24, 25}
SignalWord(n) == (n % 128) + IF n \in WithCore THEN 128 ELSE 0
WaitStatus(c) == IF c[1] = "exit" THEN ExitWord(c[2]) ELSE SignalWord(c[2])
StoppedStatus == 19 * 256 + 127

\* the search for a stopped process stops at a match or at a stopped process
Found(o, p) ==
    SelectSeq(Left(p) \o Right(p), LAMBDA x : Matches(o, p, x) \/ x \in stopped)

ReturnsStopped(o, p) ==
    o.untraced /\ Found(o, p) # <<>> /\ Head(Found(o, p)) \in stopped

\* one round under the lock
WaitSearch(w) ==
    LET o == args[w]
        p == w[1]
        active == \E q \in ToSet(list) \ {p} : Matches(o, p, q)
    IN
    /\ pc[w] = "search"
    /\ ListUnlocked
    /\ \/ \E i \in 1..Len(zombies) : LET z == zombies[i] IN
          /\ Matches(o, p, z)
          /\ \A j \in 1..(i - 1) : ~Matches(o, p, zombies[j])
          /\ Return(w, "pid", z, WaitStatus(cause[z]))
          /\ IF o.nowait
             THEN /\ owed' = [owed EXCEPT ![w] = {}]
                  /\ UNCHANGED <<zombies, at>>
             ELSE /\ zombies' = RemoveAt(zombies, i)
                  /\ at' = [at EXCEPT ![z] = "reaped"]
                  /\ owed' = [v \in Callers |-> IF v = w THEN {} ELSE owed[v] \ {z}]
       \/ /\ \A q \in ToSet(zombies) : ~Matches(o, p, q)
          /\ UNCHANGED <<zombies, at>>
          /\ \/ /\ ReturnsStopped(o, p)
                /\ Return(w, "stopped", Head(Found(o, p)), StoppedStatus)
                /\ owed' = [owed EXCEPT ![w] = {}]
             \/ /\ ~ReturnsStopped(o, p)
                /\ ~active
                /\ Return(w, "ECHILD", Root, 0)
                /\ owed' = [owed EXCEPT ![w] = {}]
             \/ /\ ~ReturnsStopped(o, p)
                /\ active
                /\ o.nohang
                /\ Return(w, "zero", Root, 0)
                /\ owed' = [owed EXCEPT ![w] = {}]
             \/ /\ ~ReturnsStopped(o, p)
                /\ active
                /\ ~o.nohang
                /\ pc' = [pc EXCEPT ![w] = "sleep"]
                /\ NoReturn
                /\ UNCHANGED <<args, owed>>
    /\ UNCHANGED <<list, ppid, cause, sigchld, pgid, groups, sigVars>>

\* the caller polls; mutant: one of several sleeping callers at a time
PollsAlone(w) == \A v \in Callers \ {w} : pc[v] # "sleep"
Polls(w) == TRUE

WaitPoll(w) ==
    /\ pc[w] = "sleep"
    /\ Polls(w)
    /\ pc' = [pc EXCEPT ![w] = "search"]
    /\ NoReturn
    /\ UNCHANGED <<treeVars, pgid, groups, args, owed, sigVars>>

-----------------------------------------------------------------------------
WaitStep(w) == WaitRead(w) \/ WaitSearch(w) \/ WaitPoll(w)

ExitStep(p) ==
    \/ ForkStart(p)
    \/ SendSighup(p) \/ SendSigchld(p) \/ PushZombie(p) \/ Unlink(p)

Next ==
    \/ \E w \in Callers : WaitCall(w) \/ WaitStep(w)
    \/ \E p \in Procs :
          \/ ExitStep(p) \/ Exit(p) \/ ForkFail(p)
          \/ Stop(p) \/ Cont(p)
          \/ \E c \in Procs : ForkLink(p, c) \/ \E g \in Groups : SetPgid(p, c, g)
    \/ RootEnd

Spec == Init /\ [][Next]_vars

\* threads are scheduled fairly, and a process that has a SIGHUP pending ends by
\* it (the default action), also one whose forks keep failing: it looks at its
\* signals when each of these calls ends
FairSpec ==
    /\ Spec
    /\ \A w \in Callers : WF_vars(WaitStep(w))
    /\ \A p \in Procs : WF_vars(ExitStep(p)) /\ SF_vars(ExitBySignal(p))
    /\ WF_vars(RootEnd)

-----------------------------------------------------------------------------
(***************************************************************************)
(* Properties                                                              *)
(***************************************************************************)

\* what fits in 16 bits, and how far a process may be
Words == 0..(256 * 256 - 1)
Stages == {"none", "forking", "live", "exiting", "waiting", "notified", "listed",
           "zombie", "reaped", "gone"}

\* The types of the variables; a wait status has 16 bits.
TypeOK ==
    /\ list \in Seq(Procs) /\ zombies \in Seq(Procs)
    /\ at \in [Procs -> Stages]
    /\ ppid \in [Procs -> Procs] /\ pgid \in [Procs -> Groups]
    /\ cause \in [Procs -> Causes]
    /\ fatal \subseteq Procs /\ stopped \subseteq Procs
    /\ sigchld \in [Procs -> SUBSET Procs]
    /\ pc \in [Callers -> {"idle", "read1", "read2", "read3", "search", "sleep"}]
    /\ args \in [Callers -> UNION {WaitArgs[w] : w \in Callers}]
    /\ \A w \in Callers : args[w] \in WaitArgs[w]
    /\ owed \in [Callers -> SUBSET Procs]
    /\ result.status \in Words
    /\ groups \in 0..MaxGroups /\ stops \in 0..MaxStops

\* A process is in exactly one of the two lists from fork to wait, in none
\* before and after, and every list entry is there once; children stand right
\* of their parent, which is the only side myst_have_child_forked_processes
\* looks at.  The parent == NULL of send_sigchld_to_parent "should not happen": a
\* process outlives its children, although its main thread looks for them with
\* the lock released in between.
ListsExact ==
    /\ IsInjective(list) /\ IsInjective(zombies)
    /\ ToSet(list) = {p \in Procs : at[p] \notin {"none", "zombie", "reaped"}}
    /\ ToSet(zombies) = {p \in Procs : at[p] \in {"listed", "zombie"}}
    /\ \A p \in ToSet(list) \ {Root} :
          ppid[p] \in ToSet(list) /\ Index(ppid[p]) < Index(p)

\* wait fails with ECHILD only if the caller had no matching child all the time,
\* although it looks at the two lists without the lock while a child moves from
\* one to the other.  And "wait() calls from parent are ensured to be serialized":
\* a process that got SIGCHLD for a child is never told by WNOHANG that the child
\* still runs.
WaitAnswersTrue ==
    [][\A w \in Callers :
         pc[w] # "idle" /\ pc'[w] = "idle" =>
            /\ result'.ret = "ECHILD" => owed[w] = {}
            /\ result'.ret = "zero" => owed[w] \cap sigchld[w[1]] = {}]_vars

\* What wait reports decodes to how the child ended: the low byte of its exit
\* status, or the signal, and never to a stopped process.
StatusFaithful ==
    result.ret = "pid" =>
        LET s == result.status
            c == cause[result.pid]
        IN  IF s % 128 = 0 THEN c[1] = "exit" /\ s \div 256 = c[2] % 256
            ELSE c[1] = "signal" /\ s % 128 = c[2] /\ s \div 256 = 0

\* A child that has become a zombie does not stay one while its parent waits for
\* it: the wait returns, or another wait got that child.
WaitReturns ==
    \A w \in Callers, q \in Procs :
        (q \in owed[w] /\ at[q] = "zombie") ~> q \notin owed[w]

\* A process that exits becomes a zombie, its descendants gone before it.
ExitEnds ==
    \A p \in Procs : at[p] = "exiting" ~> at[p] \in {"zombie", "reaped", "gone"}
=============================================================================
