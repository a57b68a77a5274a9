---------------------------- MODULE ThreadGroup ----------------------------
(***************************************************************************)
(* The threads of one process (kernel/thread.c, with the exit system calls *)
(* of kernel/syscall.c and the default signal action of kernel/signal.c):  *)
(* clone links a new thread into the group behind its creator, exit and    *)
(* exit_group take threads out, and the main thread turns the process into *)
(* a zombie when it finds itself alone.                                    *)
(*                                                                         *)
(* The group list is changed under thread_group_lock, so one such section  *)
(* is one action; the main thread's wait and SYS_exit read the list without *)
(* the lock.  A thread that is neither in the kernel nor blocked is at     *)
(* "run"; "enter" is the stretch of a blocking call between the last look  *)
(* at the pending signals and waiting_on_event, "blocked" the sleep.       *)
(***************************************************************************)
EXTENDS Integers, SequencesExt

CONSTANTS
    Threads,        \* the threads the process may ever have
    Main,           \* process->main_process_thread
    Limit,          \* __myst_kernel_args.max_threads
    MaxFailures,    \* bound on the clone calls that fail half-way
    MaxSignals      \* bound on the fatal signals from outside the process

ASSUME ThreadsAssumption == IsFiniteSet(Threads) /\ Main \in Threads

VARIABLES
    group,       \* the list of group_next, from the main thread
    numThreads,  \* _num_threads: these threads and the one of the first process
    pc,          \* where each thread is
    child,       \* the thread a clone call is creating
    pending,     \* the fatal signals pending for each thread
    cause,       \* "none" until exit_status_signum_set, then "exit" or "signal"
    proc,        \* the process: "live", "zombie", "reaped" (freed)
    failures, signals    \* counters for the bounds

cloneVars == <<child, failures>>
vars == <<group, numThreads, pc, cloneVars, pending, cause, proc, signals>>

Locations == {"none", "run", "enter", "blocked", "reserve", "link", "start",
              "sweep", "killwait", "exit", "unlink", "unlock", "zombify",
              "count", "linked", "gone"}

Init ==
    /\ group = <<Main>>
    /\ numThreads = 2
    /\ pc = [t \in Threads |-> IF t = Main THEN "run" ELSE "none"]
    /\ child = [t \in Threads |-> Main]
    /\ pending = [t \in Threads |-> {}]
    /\ cause = "none"
    /\ proc = "live"
    /\ failures = 0
    /\ signals = 0

Goto(t, l) == pc' = [pc EXCEPT ![t] = l]
Others(t) == {u \in ToSet(group) : u # t}
Index(t) == CHOOSE i \in 1..Len(group) : group[i] = t

-----------------------------------------------------------------------------
(* _syscall_clone *)

Unused == {t \in Threads : pc[t] = "none"}
Creating == {t \in Threads : pc[t] \in {"reserve", "link"}}

\* below the limit: the count is only incremented in a second step
CloneCheck(t) ==
    /\ pc[t] = "run"
    /\ numThreads # Limit
    /\ Cardinality(Creating) < Cardinality(Unused)
    /\ Goto(t, "reserve")
    /\ UNCHANGED <<group, numThreads, cloneVars, pending, cause, proc, signals>>

\* mutant: the thread is not counted
ReserveNothing(t) ==
    /\ pc[t] = "reserve"
    /\ Goto(t, "link")
    /\ UNCHANGED <<group, numThreads, cloneVars, pending, cause, proc, signals>>

CloneReserve(t) ==
    /\ pc[t] = "reserve"
    /\ numThreads' = numThreads + 1
    /\ Goto(t, "link")
    /\ UNCHANGED <<group, cloneVars, pending, cause, proc, signals>>

\* ENOMEM for the thread object: the count stays
CloneNoMemory(t) ==
    /\ pc[t] = "link"
    /\ failures < MaxFailures
    /\ failures' = failures + 1
    /\ Goto(t, "run")
    /\ UNCHANGED <<group, numThreads, child, pending, cause, proc, signals>>

\* mutant: the new thread is not linked to its successor
InsertCutting(q, i, u) == Append(SubSeq(q, 1, i), u)
InsertAfter(q, i, u) == InsertAt(q, i + 1, u)

CloneLink(t) ==
    \E u \in Unused :
        /\ pc[t] = "link"
        /\ group' = InsertAfter(group, Index(t), u)
        /\ child' = [child EXCEPT ![t] = u]
        /\ pc' = [pc EXCEPT ![t] = "start", ![u] = "linked"]
        /\ UNCHANGED <<numThreads, failures, pending, cause, proc, signals>>

\* the host runs the thread, or the call fails and the thread stays linked
CloneStart(t) ==
    /\ pc[t] = "start"
    /\ \/ /\ pc' = [pc EXCEPT ![t] = "run", ![child[t]] = "run"]
          /\ UNCHANGED failures
       \/ /\ failures < MaxFailures
          /\ failures' = failures + 1
          /\ Goto(t, "run")
    /\ child' = [child EXCEPT ![t] = Main]
    /\ UNCHANGED <<group, numThreads, pending, cause, proc, signals>>

-----------------------------------------------------------------------------
(* Blocking calls, seen from outside *)

BlockEnter(t) ==
    /\ pc[t] = "run"
    /\ pending[t] = {}
    /\ Goto(t, "enter")
    /\ UNCHANGED <<group, numThreads, cloneVars, pending, cause, proc, signals>>

Block(t) ==
    /\ pc[t] = "enter"
    /\ Goto(t, "blocked")
    /\ UNCHANGED <<group, numThreads, cloneVars, pending, cause, proc, signals>>

Unblock(t) ==
    /\ pc[t] = "blocked"
    /\ Goto(t, "run")
    /\ UNCHANGED <<group, numThreads, cloneVars, pending, cause, proc, signals>>

\* myst_signal_deliver to the threads of s: they are woken if they are waiting
Woken(s, p) == [u \in Threads |-> IF u \in s /\ p[u] = "blocked" THEN "run" ELSE p[u]]
Deliver(s, sig) == pending' = [u \in Threads |->
                                 IF u \in s THEN pending[u] \cup {sig} ELSE pending[u]]

-----------------------------------------------------------------------------
(* Exit and signals *)

\* the compare-and-swap of exit_status_signum_set; mutant: without it
OverwriteCause(c) == c
FirstCause(c) == IF cause = "none" THEN c ELSE cause

\* SYS_exit: only a thread that is alone sets the status of the process
Exit(t) ==
    /\ pc[t] = "run"
    /\ cause' = IF group = <<t>> THEN FirstCause("exit") ELSE cause
    /\ Goto(t, "exit")
    /\ UNCHANGED <<group, numThreads, cloneVars, pending, proc, signals>>

ExitGroup(t) ==
    /\ pc[t] = "run"
    /\ cause' = FirstCause("exit")
    /\ Goto(t, "sweep")
    /\ UNCHANGED <<group, numThreads, cloneVars, pending, proc, signals>>

\* myst_kill_thread_group: SIGKILL for every other thread now in the group
KillSweep(t) ==
    /\ pc[t] = "sweep"
    /\ Deliver(Others(t), "kill")
    /\ pc' = Woken(Others(t), [pc EXCEPT ![t] = "killwait"])
    /\ UNCHANGED <<group, numThreads, cloneVars, cause, proc, signals>>

\* the threads it waits for; mutant: the main thread is one of them
LeftWithMain(t) == SelectSeq(group, LAMBDA u : u # t)
Left(t) == SelectSeq(group, LAMBDA u : u \notin {Main, t})

\* the first thread that is left is woken again; mutant: none is
WakeAgainNone(q) == {}
WakeAgain(q) == {Head(q)}

\* one look at the group
KillWait(t) ==
    /\ pc[t] = "killwait"
    /\ pc' = IF Left(t) = <<>> THEN [pc EXCEPT ![t] = "exit"]
             ELSE Woken(WakeAgain(Left(t)), pc)
    /\ UNCHANGED <<group, numThreads, cloneVars, pending, cause, proc, signals>>

\* a fatal signal from another process or from the hardware
FatalSignal(t) ==
    /\ signals < MaxSignals
    /\ t \in ToSet(group)
    /\ proc = "live"
    /\ \E sig \in {"kill", "term"} : Deliver({t}, sig)
    /\ pc' = Woken({t}, pc)
    /\ signals' = signals + 1
    /\ UNCHANGED <<group, numThreads, cloneVars, cause, proc>>

\* _default_signal_handler: the main thread ends the group, another one passes
\* the signal on to the main thread, unless it is SIGKILL; lowest number first
SignalProcess(t) ==
    /\ pc[t] = "run"
    /\ pending[t] # {}
    /\ cause' = FirstCause("signal")
    /\ IF t = Main
       THEN /\ Goto(t, "sweep")
            /\ UNCHANGED pending
       ELSE IF "kill" \in pending[t]
       THEN /\ Goto(t, "exit")
            /\ UNCHANGED pending
       ELSE /\ Deliver({Main}, "term")
            /\ pc' = Woken({Main}, [pc EXCEPT ![t] = "exit"])
    /\ UNCHANGED <<group, numThreads, cloneVars, proc, signals>>

-----------------------------------------------------------------------------
(* The way out: _run_thread after the jump back *)

ExitCount(t) ==
    /\ t # Main
    /\ pc[t] = "exit"
    /\ numThreads' = numThreads - 1
    /\ Goto(t, "unlink")
    /\ UNCHANGED <<group, cloneVars, pending, cause, proc, signals>>

ExitUnlink(t) ==
    /\ pc[t] = "unlink"
    /\ group' = RemoveAt(group, Index(t))
    /\ Goto(t, "unlock")
    /\ UNCHANGED <<numThreads, cloneVars, pending, cause, proc, signals>>

\* process->thread_group_lock is released, then the thread object is freed
ExitUnlock(t) ==
    /\ pc[t] = "unlock"
    /\ Goto(t, "gone")
    /\ UNCHANGED <<group, numThreads, cloneVars, pending, cause, proc, signals>>

\* the main thread polls, without the lock, until it is alone; mutant: it
\* looks at one neighbour only, the wrong one
AloneIfFirst == Head(group) = Main
Alone == group = <<Main>>

Join ==
    /\ pc[Main] = "exit"
    /\ Alone
    /\ Goto(Main, "zombify")
    /\ UNCHANGED <<group, numThreads, cloneVars, pending, cause, proc, signals>>

Zombify ==
    /\ pc[Main] = "zombify"
    /\ proc' = "zombie"
    /\ Goto(Main, "count")
    /\ UNCHANGED <<group, numThreads, cloneVars, pending, cause, signals>>

MainCount ==
    /\ pc[Main] = "count"
    /\ numThreads' = numThreads - 1
    /\ Goto(Main, "gone")
    /\ UNCHANGED <<group, cloneVars, pending, cause, proc, signals>>

\* wait4 of the parent process frees the process object
Reap ==
    /\ proc = "zombie"
    /\ proc' = "reaped"
    /\ UNCHANGED <<group, numThreads, pc, cloneVars, pending, cause, signals>>

-----------------------------------------------------------------------------
\* what a thread does once it is in the kernel, or has a signal to handle
KernelStep(t) ==
    \/ CloneReserve(t) \/ CloneNoMemory(t) \/ CloneLink(t) \/ CloneStart(t)
    \/ Block(t)
    \/ KillSweep(t) \/ KillWait(t) \/ SignalProcess(t)
    \/ ExitCount(t) \/ ExitUnlink(t) \/ ExitUnlock(t)

MainStep == Join \/ Zombify \/ MainCount

Next ==
    \/ \E t \in Threads :
          \/ KernelStep(t)
          \/ CloneCheck(t) \/ BlockEnter(t) \/ Unblock(t)
          \/ Exit(t) \/ ExitGroup(t) \/ FatalSignal(t)
    \/ MainStep \/ Reap

Spec == Init /\ [][Next]_vars

\* the host runs every thread, and a thread with a fatal signal gets to handle it
FairSpec ==
    Spec /\ WF_vars(MainStep) /\ \A t \in Threads : WF_vars(KernelStep(t))

-----------------------------------------------------------------------------
(***************************************************************************)
(* Properties                                                              *)
(***************************************************************************)

\* The types of the variables.
TypeOK ==
    /\ group \in Seq(Threads)
    /\ numThreads \in Nat /\ failures \in Nat /\ signals \in Nat
    /\ pc \in [Threads -> Locations]
    /\ child \in [Threads -> Threads]
    /\ pending \in [Threads -> SUBSET {"kill", "term"}]
    /\ cause \in {"none", "exit", "signal"}
    /\ proc \in {"live", "zombie", "reaped"}

\* The list that kill_thread_group and the main thread's wait walk holds every
\* thread that exists exactly once, the main thread first, however clones and
\* exits interleave.
ListExact ==
    /\ Head(group) = Main
    /\ IsInjective(group)
    /\ ToSet(group) = {Main} \cup
           {t \in Threads : pc[t] \notin {"none", "unlock", "gone"}}

\* the threads that _num_threads is for: those that exist, and those a clone call
\* has reserved and not yet made
Counted == {t \in Threads : pc[t] \notin {"none", "unlink", "unlock", "gone"}}
Reserved == {t \in Threads : pc[t] = "link"}

\* _num_threads counts the threads that exist or are being created, and what a
\* clone call that failed left behind: it never reaches 0, and every thread that
\* left is taken off exactly once.
CountExact ==
    numThreads - 1 - Cardinality(Counted) - Cardinality(Reserved) \in 0..failures

\* The main thread tears the process down only when every other thread is out
\* of the group; it may still be releasing thread_group_lock.
TeardownLast ==
    (proc # "live" \/ pc[Main] \in {"zombify", "count", "gone"}) =>
        \A t \in Threads \ {Main} : pc[t] \in {"none", "unlock", "gone"}

\* The group list and the count that clone's limit uses are the threads of the
\* process, and the last of them tears it down (ListExact, CountExact,
\* TeardownLast).
GroupExact == ListExact /\ CountExact /\ TeardownLast

\* The SIGKILLs a process sends to its own threads never show in its status: it
\* ends by a signal only if it was sent one.
InternalKillInvisible == signals = 0 => cause # "signal"

\* while a thread waits for the others to end, each has been sent SIGKILL
KillReachesGroup ==
    \A t \in Threads : pc[t] = "killwait" =>
        \A u \in Others(t) \ {Main} : "kill" \in pending[u] \/ pc[u] \in {"exit", "unlink"}

\* the known ways to stop a group from ending: a clone that failed half-way, a
\* thread that was cloned behind the sweep, two child threads that end the group
Hindered ==
    \/ failures > 0
    \/ ~KillReachesGroup
    \/ \E t, u \in Threads \ {Main} : t # u /\ {pc[t], pc[u]} \subseteq {"sweep", "killwait"}

\* A thread that ends its group gets all the others to leave it, those included
\* that were about to block when SIGKILL came, unless hindered.
KillEnds ==
    \A t \in Threads : pc[t] = "killwait" ~> (pc[t] # "killwait" \/ Hindered)

\* When the main thread ends the group the process becomes a zombie, unless
\* hindered.
ProcessEnds == pc[Main] = "killwait" ~> (proc # "live" \/ Hindered)
=============================================================================
