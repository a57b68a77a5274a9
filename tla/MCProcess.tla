----------------------------- MODULE MCProcess -----------------------------
(* The life of processes: one family of three (Process, extended here), the    *)
(* pseudo fork and exec that make them (ForkExec), the system call they enter  *)
(* the kernel by (Dispatch), and the kernel they live on (Boot).  A behaviour  *)
(* is one of one component; running says which.                                *)
EXTENDS Process, FiniteSets, TLC

CONSTANTS
    Children, Depth, Far, Frames, MaxFailures,           \* of ForkExec
    Threads, Stacks, MaxUnmaps, Enosys, MaxDepth, MaxTime, MaxCalls,   \* of Dispatch
    MaxSignals,                                          \* of both
    Others, Mounts, MaxThreads, MaxForks                 \* of Boot; Others are its Procs

ASSUME ForkAssumption ==
    /\ IsFiniteSet(Children) /\ "parent" \notin Children /\ "none" \notin Children
    /\ Depth \in Nat \ {0}
    /\ Far \in Int /\ Far > 2 * Depth
    /\ Frames \subseteq [1..Depth -> (0..Depth) \cup {Far}]
    /\ \A f \in Frames : \A w \in 1..Depth : f[w] \in 1..Depth => w < f[w]
ASSUME DispatchAssumption ==
    /\ IsFiniteSet(Threads) /\ 1 \in Threads
    /\ Stacks \subseteq Nat \ {0} /\ MaxUnmaps \in Nat /\ Enosys \in BOOLEAN
ASSUME BootAssumption == 0 \notin Others /\ Mounts \in Nat

VARIABLE running

\* the variables of ForkExec, Dispatch and Boot
VARIABLES
    f_mode, f_main, f_pc, f_cur, f_wait, f_word, f_cpc, f_args, f_stack, f_pseudo,
    f_forked, f_threads, f_handlers, f_bounds, f_left, f_late, f_excused,
    d_ph, d_frames, d_fs, d_crt, d_own, d_area, d_free, d_made, d_exitK, d_execK,
    d_times, d_total, d_now, d_sig, d_handler, d_unmaps, d_mapped, d_odd, d_left,
    d_bounds,
    k_at, k_fstype, k_up, k_mounts, k_stdio, k_threads, k_proc, k_entries, k_hup,
    k_forks, k_code

fvars == <<f_mode, f_main, f_pc, f_cur, f_wait, f_word, f_cpc, f_args, f_stack, f_pseudo,
    f_forked, f_threads, f_handlers, f_bounds, f_left, f_late, f_excused>>
dvars == <<d_ph, d_frames, d_fs, d_crt, d_own, d_area, d_free, d_made, d_exitK,
    d_execK, d_times, d_total, d_now, d_sig, d_handler, d_unmaps, d_mapped, d_odd,
    d_left, d_bounds>>
kvars == <<k_at, k_fstype, k_up, k_mounts, k_stdio, k_threads, k_proc, k_entries,
    k_hup, k_forks, k_code>>

\* two callers in the root process: one waits for any child, the other with each of the
\* options
TwoCallers == {<<Root, 1>>, <<Root, 2>>}
Arg(kind, id) == [kind |-> kind, id |-> id, nohang |-> FALSE, nowait |-> FALSE,
                  untraced |-> FALSE]
MixedArgs == [w \in TwoCallers |->
    IF w[2] = 1 THEN {Arg("any", Root)}
    ELSE {[Arg("group", Root) EXCEPT !.nohang = TRUE]}
           \cup {[Arg("pgid", i) EXCEPT !.nowait = TRUE, !.untraced = TRUE] : i \in Groups \ {Root}}]

\* an exit status of more than a byte and a signal with a core file
BothCauses == {<<"exit", 257>>, <<"signal", 6>>}

\* processes other than the first are interchangeable where no pid is named
Symmetry == Permutations(Procs \ {Root})

\* stacks whose chain of frames ends, leaves the stack, or does not begin
ThreeFrames == {<<2, 3, 0>>, <<3, 0, 99>>, <<0, 3, 0>>}

F == INSTANCE ForkExec WITH
        mode <- f_mode, main <- f_main, left <- f_left, pc <- f_pc, cur <- f_cur, wait <- f_wait, word <- f_word,
        cpc <- f_cpc, args <- f_args, stack <- f_stack, pseudo <- f_pseudo,
        forked <- f_forked, threads <- f_threads, handlers <- f_handlers,
        bounds <- f_bounds, late <- f_late, excused <- f_excused

D == INSTANCE Dispatch WITH
        ph <- d_ph, frames <- d_frames, fs <- d_fs, crt <- d_crt, own <- d_own,
        area <- d_area, free <- d_free, made <- d_made, exitK <- d_exitK,
        execK <- d_execK, times <- d_times, total <- d_total, now <- d_now,
        sig <- d_sig, handler <- d_handler, unmaps <- d_unmaps, mapped <- d_mapped,
        odd <- d_odd, left <- d_left, bounds <- d_bounds

K == INSTANCE Boot WITH
        at <- k_at, fstype <- k_fstype, up <- k_up, mounts <- k_mounts,
        stdio <- k_stdio, threads <- k_threads, proc <- k_proc, entries <- k_entries,
        hup <- k_hup, forks <- k_forks, code <- k_code, Procs <- Others

\* components with several initial states, while another one runs
fOff ==
    /\ f_mode = 0 /\ f_main = 0 /\ f_left = 0 /\ f_pc = 0 /\ f_cur = 0 /\ f_wait = 0 /\ f_word = 0
    /\ f_cpc = 0 /\ f_args = 0 /\ f_stack = 0 /\ f_pseudo = 0 /\ f_forked = 0
    /\ f_threads = 0 /\ f_handlers = 0 /\ f_bounds = 0 /\ f_late = 0
    /\ f_excused = 0
dOff ==
    /\ d_ph = 0 /\ d_frames = 0 /\ d_fs = 0 /\ d_crt = 0 /\ d_own = 0
    /\ d_area = 0 /\ d_free = 0 /\ d_made = 0 /\ d_exitK = 0 /\ d_execK = 0
    /\ d_times = 0 /\ d_total = 0 /\ d_now = 0 /\ d_sig = 0 /\ d_handler = 0
    /\ d_unmaps = 0 /\ d_mapped = 0 /\ d_odd = 0 /\ d_left = 0 /\ d_bounds = 0
kOff ==
    /\ k_at = 0 /\ k_fstype = 0 /\ k_up = 0 /\ k_mounts = 0 /\ k_stdio = 0
    /\ k_threads = 0 /\ k_proc = 0 /\ k_entries = 0 /\ k_hup = 0 /\ k_forks = 0
    /\ k_code = 0

MCInit == /\ running \in {"process", "fork", "dispatch", "boot"}
          /\ Init
          /\ IF running = "fork" THEN F!Init ELSE fOff
          /\ IF running = "dispatch" THEN D!Init ELSE dOff
          /\ IF running = "boot" THEN K!Init ELSE kOff

MCNext ==
    /\ UNCHANGED running
    /\ \/ /\ running = "process" /\ Next
          /\ UNCHANGED <<fvars, dvars, kvars>>
       \/ /\ running = "fork" /\ F!Next
          /\ UNCHANGED <<vars, dvars, kvars>>
       \/ /\ running = "dispatch" /\ D!Next
          /\ UNCHANGED <<vars, fvars, kvars>>
       \/ /\ running = "boot" /\ K!Next
          /\ UNCHANGED <<vars, fvars, dvars>>

MCSpec == MCInit /\ [][MCNext]_<<running, vars, fvars, dvars, kvars>>

-----------------------------------------------------------------------------
\* Around the life of a process: no chain of frame pointers leads from the child's copy of
\* the stack back into the parent's, the copy is there unless the parent has executed a
\* program or is the first process and leaves before it waits, the arguments live as long
\* as somebody uses them, and a waiting parent comes back early only for a signal or for
\* another child (ForkExec!ForkExact); a system call leaves the thread its descriptor, its
\* mask unless a ppoll or exec in a handler lost it, and its kernel stack, and the times
\* add up if no handler made calls (Dispatch!DispatchExact); what the kernel takes down at
\* its end nobody uses any more, but for the mappings of the main process that its forked
\* children run in (Boot!BootExact).
KernelExact ==
    /\ running = "fork" => F!ForkExact
    /\ running = "dispatch" => D!DispatchExact
    /\ running = "boot" => K!BootExact

=============================================================================
