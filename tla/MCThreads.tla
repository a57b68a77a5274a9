----------------------------- MODULE MCThreads -----------------------------
(* Three components that run below each other in the kernel, checked side by   *)
(* side because their liveness rests on the same assumption, that the host     *)
(* runs every thread: the signals of a thread (Signal, extended here), a       *)
(* thread group, and wait4 and exit of processes.  A behaviour is one of one   *)
(* component; running says which.                                              *)
EXTENDS Signal

CONSTANTS m, a, b, r, g, Components

VARIABLE running

\* the variables of ThreadGroup and Process
VARIABLES
    g_group, g_numThreads, g_pc, g_child, g_pending, g_cause, g_proc,
    g_failures, g_signals,
    p_list, p_zombies, p_at, p_ppid, p_pgid, p_cause, p_fatal, p_stopped,
    p_sigchld, p_pc, p_args, p_result, p_owed, p_groups, p_stops

gvars == << g_group, g_numThreads, g_pc, g_child, g_pending, g_cause,
            g_proc, g_failures, g_signals >>
pvars == << p_list, p_zombies, p_at, p_ppid, p_pgid, p_cause, p_fatal,
            p_stopped, p_sigchld, p_pc, p_args, p_result, p_owed, p_groups,
            p_stops >>

\* SIGUSR1 and SIGUSR2, one blocked by the other's handler
TwoSigs == {10, 12}
OneBlocksOther == (10 :> {12}) @@ (12 :> {})
OneNoDefer == {12}
SomeMasks == {{}, {10}}

\* a main thread and two that it or they create
G == INSTANCE ThreadGroup WITH
        group <- g_group, numThreads <- g_numThreads, pc <- g_pc,
        child <- g_child, pending <- g_pending, cause <- g_cause,
        proc <- g_proc, failures <- g_failures, signals <- g_signals,
        Threads <- {m, a, b}, Main <- m, Limit <- 4, MaxFailures <- 1,
        MaxSignals <- 1

\* two waiting threads of r: one for any child, one for the child b
Callers == {<<r, 1>>, <<r, 2>>}
Wait(kind, id) == [kind |-> kind, id |-> id, nohang |-> FALSE, nowait |-> FALSE,
                   untraced |-> FALSE]
WaitArgs == [w \in Callers |-> IF w[2] = 1 THEN {Wait("any", r)} ELSE {Wait("pid", b)}]

P == INSTANCE Process WITH
        list <- p_list, zombies <- p_zombies, at <- p_at, ppid <- p_ppid,
        pgid <- p_pgid, cause <- p_cause, fatal <- p_fatal,
        stopped <- p_stopped, sigchld <- p_sigchld, pc <- p_pc,
        args <- p_args, result <- p_result, owed <- p_owed,
        groups <- p_groups, stops <- p_stops,
        Procs <- {r, a, b}, Root <- r, Groups <- {r, g},
        Causes <- {<<"signal", 1>>}, MaxGroups <- 0,
        MaxStops <- 0

MCInit == /\ running \in Components
          /\ Init /\ G!Init /\ P!Init

MCNext ==
    /\ UNCHANGED running
    /\ \/ running = "signal" /\ Next /\ UNCHANGED <<gvars, pvars>>
       \/ running = "group" /\ G!Next /\ UNCHANGED <<vars, pvars>>
       \/ running = "process" /\ P!Next /\ UNCHANGED <<vars, gvars>>

\* the fairness of FairSpec in each of the three modules
Fairness ==
    /\ WF_vars(running = "signal" /\ ThreadStep)
    /\ SF_vars(running = "signal" /\ HandlerReturn)
    /\ WF_vars(running = "signal" /\ ContWake)
    /\ WF_vars(running = "signal" /\ frames = <<>> /\ ProcessCall)
    /\ WF_gvars(running = "group" /\ G!MainStep)
    /\ \A t \in {m, a, b} : WF_gvars(running = "group" /\ G!KernelStep(t))
    /\ \A w \in Callers : WF_pvars(running = "process" /\ P!WaitStep(w))
    /\ \A q \in {r, a, b} : /\ WF_pvars(running = "process" /\ P!ExitStep(q))
                           /\ SF_pvars(running = "process" /\ P!ExitBySignal(q))
    /\ WF_pvars(running = "process" /\ P!RootEnd)

MCSpec ==
    MCInit /\ [][MCNext]_<<running, vars, gvars, pvars>> /\ Fairness

-----------------------------------------------------------------------------
\* The types of the variables of the three components.
Types == TypeOK /\ G!TypeOK /\ P!TypeOK

\* exit_group and a fatal signal end every thread (ThreadGroup!KillEnds), and a
\* process whose threads end becomes a zombie (ThreadGroup!ProcessEnds).
ProcessEnds == G!KillEnds /\ G!ProcessEnds

\* wait returns for a child that has become a zombie (Process!WaitReturns), and an
\* exiting process becomes one (Process!ExitEnds).
WaitsEnd == P!WaitReturns /\ P!ExitEnds
=============================================================================
