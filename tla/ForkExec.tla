------------------------------ MODULE ForkExec ------------------------------
(***************************************************************************)
(* Pseudo fork, vfork and exec: the C runtime's half (crt/fork.c,          *)
(* crt/exit.c) and the kernel's (_syscall_clone_vfork and the exit of a    *)
(* process in kernel/thread.c, kernel/exec.c, myst_syscall_execveat).      *)
(* One thread of a process forks children, one after the other; a child    *)
(* runs in the parent's address space, on a copy of its stack that the     *)
(* parent mapped and owns, until it executes a program or exits.           *)
(*                                                                         *)
(* The words of a stack are numbered from 1 at its low end; 0 stands for   *)
(* NULL and Far for an address outside of both stacks.  The child's copy   *)
(* of word w is w + Depth.                                                 *)
(***************************************************************************)
EXTENDS Integers, FiniteSets

CONSTANTS
    Children,
    Depth,          \* words of a stack
    Far,
    Frames,         \* contents of the parent's stack when it forks
    MaxSignals, MaxFailures

Parent == "parent"
NoChild == "none"
Family == Children \cup {Parent}

VARIABLES
    mode,           \* fork_mode of the kernel's arguments
    main,           \* the parent is the first process of the kernel
    pc,             \* of the parent's thread
    cur,            \* the child it forks
    wait,           \* this call waits for exec or exit
    word,           \* fork_exec_futex_wait
    cpc,            \* of each child
    args,           \* struct thread_args of each child
    stack,          \* its stack: mapped or not, and its words
    pseudo,         \* is_pseudo_fork_process
    forked,         \* is_parent_of_pseudo_fork_process of the parent
    threads,        \* libc.threads_minus_1 of the shared C runtime
    handlers,       \* processes that have kept their signal handlers
    bounds,
    left,           \* how the parent left its program: not yet, exit, kill or exec
    late,           \* ghost: children whose fork call has returned to the parent
    excused         \* ghost: why a fork call may have returned too early

parentVars == <<pc, cur, wait, word>>
childVars == <<cpc, args, stack, pseudo>>
vars == <<mode, main, parentVars, childVars, forked, threads, handlers, bounds, left, late,
          excused>>

Bare == [refs |-> 0, pid |-> FALSE, life |-> "none"]
NoStack == [mapped |-> FALSE, words |-> <<>>]

Init ==
    /\ mode \in {"none", "pseudo", "wait"} /\ main \in BOOLEAN
    /\ pc = "user" /\ cur = NoChild /\ wait = FALSE /\ word = 0
    /\ cpc = [c \in Children |-> "none"]
    /\ args = [c \in Children |-> Bare]
    /\ stack = [c \in Children |-> NoStack]
    /\ pseudo = {} /\ forked = FALSE /\ threads = 0 /\ handlers = Family
    /\ bounds = [signals |-> 0, failures |-> 0]
    /\ left = "not" /\ late = {} /\ excused = {}

Fail == /\ bounds.failures < MaxFailures
        /\ bounds' = [bounds EXCEPT !.failures = @ + 1]

-----------------------------------------------------------------------------
\* fork and vfork up to the allocation of the arguments
Fork(c, v) ==
    /\ pc = "user" /\ cpc[c] = "none" /\ args[c] = Bare
    /\ v \/ mode # "none"
    /\ cur' = c /\ wait' = (v \/ mode = "wait")
    /\ args' = [args EXCEPT ![c] = [refs |-> 1, pid |-> FALSE, life |-> "live"]]
    /\ pc' = "map"
    /\ UNCHANGED <<mode, main, left, word, cpc, stack, pseudo, forked, threads, handlers,
                   bounds, late, excused>>

Return ==
    /\ pc' = "user" /\ cur' = NoChild /\ wait' = FALSE

\* the new stack cannot be mapped: the arguments leak
ForkFails ==
    /\ pc = "map" /\ Fail
    /\ args' = [args EXCEPT ![cur].life = "leaked"]
    /\ Return
    /\ UNCHANGED <<mode, main, left, word, cpc, stack, pseudo, forked, threads, handlers,
                   late, excused>>

\* _create_child_pthread_and_copy_stack
MapStack(f) ==
    /\ pc = "map"
    /\ stack' = [stack EXCEPT ![cur] = [mapped |-> TRUE, words |-> f]]
    /\ pc' = "fix"
    /\ UNCHANGED <<mode, main, left, cur, wait, word, cpc, args, pseudo, forked, threads,
                   handlers, bounds, late, excused>>

InParent(w) == w \in 1..Depth

\* the words whose frame pointer the loop of _fixup_frame_pointers changes, from the
\* base pointer 1 upwards: a frame whose own pointer leaves the stack ends the walk
Followed(f, S) ==
    1 \in S /\ \A w \in S : InParent(f[w]) /\ InParent(f[f[w]]) => f[w] \in S
Walked(f) == {w \in 1..Depth : \A S \in SUBSET (1..Depth) : Followed(f, S) => w \in S}

\* mutant: the walk changes the pointer of the frame it stops at as well
FixupPastEnd(f) ==
    [w \in 1..Depth |->
        IF w \in Walked(f) \cup {f[v] : v \in Walked(f)} THEN f[w] + Depth ELSE f[w]]

Fixup(f) == [w \in 1..Depth |-> IF w \in Walked(f) THEN f[w] + Depth ELSE f[w]]

\* _fixup_frame_pointers; both the base pointer and what it points to are in range
FixStack ==
    /\ pc = "fix" /\ InParent(stack[cur].words[1])
    /\ stack' = [stack EXCEPT ![cur].words = Fixup(@)]
    /\ pc' = "clone"
    /\ UNCHANGED <<mode, main, left, cur, wait, word, cpc, args, pseudo, forked, threads,
                   handlers, bounds, late, excused>>

\* the first frame pointer, or the stack pointer itself (a handler on an alternate
\* stack), is not in the stack: an assertion fails, and the process aborts
FixFails ==
    /\ pc = "fix"
    /\ \/ ~InParent(stack[cur].words[1]) /\ UNCHANGED bounds
       \/ Fail
    /\ pc' = "abort"
    /\ UNCHANGED <<mode, main, left, cur, wait, word, childVars, forked, threads, handlers,
                   late, excused>>

\* mutant: one reference for two
LaunchOnce(c) == [args[c] EXCEPT !.refs = 1]

\* one reference for the child, one for the parent
Launch(c) == [args[c] EXCEPT !.refs = 2]

\* __clone and _syscall_clone_vfork: the word is reset before the child exists
Clone ==
    /\ pc = "clone"
    /\ args' = [args EXCEPT ![cur] = Launch(cur)]
    /\ threads' = threads + 1
    /\ word' = 0
    /\ pseudo' = pseudo \cup {cur} /\ forked' = TRUE
    /\ cpc' = [cpc EXCEPT ![cur] = "start"]
    /\ handlers' = IF Parent \in handlers THEN handlers ELSE handlers \ {cur}
    /\ pc' = "pid"
    /\ UNCHANGED <<mode, main, left, cur, wait, stack, bounds, late, excused>>

\* the kernel refuses: everything is given back, but forked may be set by then
CloneFails(reached) ==
    /\ pc = "clone" /\ Fail
    /\ args' = [args EXCEPT ![cur].life = "freed"]
    /\ stack' = [stack EXCEPT ![cur] = NoStack]
    /\ forked' = (forked \/ reached)
    /\ word' = IF reached THEN 0 ELSE word
    /\ Return
    /\ UNCHANGED <<mode, main, left, cpc, pseudo, threads, handlers, late, excused>>

\* the parent has seen the pid and waits, or yields five times
SeePid ==
    /\ pc = "pid" /\ args[cur].pid
    /\ pc' = IF wait THEN "wait" ELSE "drop"
    /\ UNCHANGED <<mode, main, left, cur, wait, word, childVars, forked, threads, handlers,
                   bounds, late, excused>>

\* SYS_myst_fork_wait_exec_exit: myst_futex_wait on the word
WaitExec ==
    /\ pc = "wait"
    /\ pc' = IF word = 0 THEN "asleep" ELSE "drop"
    /\ UNCHANGED <<mode, main, left, cur, wait, word, childVars, forked, threads, handlers,
                   bounds, late, excused>>

\* a signal ends the wait, and its answer is not looked at
WaitEintr ==
    /\ pc = "asleep" /\ bounds.signals < MaxSignals
    /\ bounds' = [bounds EXCEPT !.signals = @ + 1]
    /\ excused' = excused \cup {<<"signal", cur>>}
    /\ pc' = "drop"
    /\ UNCHANGED <<mode, main, left, cur, wait, word, childVars, forked, threads, handlers,
                   late>>

\* --args->refcount
Dropped(a) ==
    [a EXCEPT !.refs = @ - 1, !.life = IF a.refs = 1 THEN "freed" ELSE @]

ParentDrop ==
    /\ pc = "drop"
    /\ args' = [args EXCEPT ![cur] = Dropped(@)]
    /\ late' = IF wait THEN late \cup {cur} ELSE late
    /\ Return
    /\ UNCHANGED <<mode, main, left, word, cpc, stack, pseudo, forked, threads, handlers,
                   bounds, excused>>

-----------------------------------------------------------------------------
\* _child_func up to the pid that the parent waits for
ChildStart(c) ==
    /\ cpc[c] = "start"
    /\ args' = [args EXCEPT ![c].pid = TRUE]
    /\ cpc' = [cpc EXCEPT ![c] = "jump"]
    /\ UNCHANGED <<mode, main, left, parentVars, stack, pseudo, forked, threads, handlers,
                   bounds, late, excused>>

\* the stack is registered for the exit of the thread; the child returns from fork
ChildJump(c) ==
    /\ cpc[c] = "jump"
    /\ args' = [args EXCEPT ![c] = Dropped(@)]
    /\ cpc' = [cpc EXCEPT ![c] = "user"]
    /\ UNCHANGED <<mode, main, left, parentVars, stack, pseudo, forked, threads, handlers,
                   bounds, late, excused>>

\* myst_exec up to where it cannot go back: the signal handlers are reset first, and
\* stay so when the program cannot be executed
ExecFails(c) ==
    /\ cpc[c] = "user" /\ Fail
    /\ handlers' = handlers \ {c}
    /\ UNCHANGED <<mode, main, left, parentVars, childVars, forked, threads, late, excused>>

\* the new image is complete and the old mappings of the child's pid go; its stack
\* belongs to the parent's
ExecRelease(c) ==
    /\ cpc[c] = "user"
    /\ handlers' = handlers \ {c}
    /\ cpc' = [cpc EXCEPT ![c] = "wake"]
    /\ UNCHANGED <<mode, main, left, parentVars, args, stack, pseudo, forked, threads,
                   bounds, late, excused>>

\* mutant: a waiter is woken but the word is not set
WakeOnly == word' = word /\ pc' = IF pc = "asleep" THEN "drop" ELSE pc

\* myst_fork_exec_futex_wake
Wake == word' = 1 /\ pc' = IF pc = "asleep" THEN "drop" ELSE pc

\* the child that is waited for, if another wakes the parent
WokenFor(c) ==
    IF wait /\ cur # c THEN excused \cup {<<"other", cur>>} ELSE excused

\* the parent is told and the new program is entered
ExecEnter(c) ==
    /\ cpc[c] = "wake"
    /\ Wake
    /\ excused' = WokenFor(c)
    /\ pseudo' = pseudo \ {c}
    /\ cpc' = [cpc EXCEPT ![c] = "image"]
    /\ UNCHANGED <<mode, main, left, cur, wait, args, stack, forked, threads, handlers,
                   bounds, late>>

\* exit() of a child: a child fork decrements the thread count of the shared runtime, but
\* not when it is killed or calls _exit, nor if the kernel's mode is to have no forks (a
\* child of vfork is not told that it is one).  The process becomes a zombie, and its
\* flag is cleared before that.
ChildExit(c, crt) ==
    /\ cpc[c] \in {"user", "image"}
    /\ threads' = IF crt /\ c \in pseudo /\ mode # "none" THEN threads - 1 ELSE threads
    /\ pseudo' = pseudo \ {c}
    /\ cpc' = [cpc EXCEPT ![c] = IF c \in pseudo THEN "zombie" ELSE "gone"]
    /\ UNCHANGED <<mode, main, left, parentVars, args, stack, forked, handlers, bounds, late,
                   excused>>

\* the end of myst_send_sigchld_and_zombify_process: a process that was a pseudo fork
\* wakes the thread that forked it.  The stack that was registered is unmapped for
\* threads with a descriptor of the C runtime only, not here.
ZombieWakes(c) ==
    /\ cpc[c] = "zombie"
    /\ Wake
    /\ excused' = WokenFor(c)
    /\ cpc' = [cpc EXCEPT ![c] = "gone"]
    /\ UNCHANGED <<mode, main, left, cur, wait, args, stack, pseudo, forked, threads,
                   handlers, bounds, late>>

-----------------------------------------------------------------------------
Alive(c) == cpc[c] \notin {"none", "zombie", "gone"}

\* exit() of a parent of forks first sends SIGHUP to its child forks and waits until none
\* is left (SYS_myst_kill_wait_child_forks), unless the mode is to have no forks; _exit, a
\* signal and an assertion that fails do not
WaitsForForks(how) == how = "exit" /\ mode # "none" => pseudo = {}

\* the exit in the kernel waits for all children and then releases the mappings of the
\* process; that of the first process releases them, and then sends SIGHUP and waits
ParentExit(how) ==
    /\ pc = "user" \/ (pc = "abort" /\ how = "kill")
    /\ WaitsForForks(how)
    /\ ~main => \A c \in Children : ~Alive(c)
    /\ pc' = "dead" /\ left' = how
    /\ stack' = [c \in Children |-> NoStack]
    /\ UNCHANGED <<mode, main, cur, wait, word, cpc, args, pseudo, forked, threads, handlers,
                   bounds, late, excused>>

\* exec by the parent itself: its mappings are released, children or not
ParentExec ==
    /\ pc = "user"
    /\ stack' = [c \in Children |-> NoStack]
    /\ handlers' = handlers \ {Parent}
    /\ pc' = "dead" /\ left' = "exec"
    /\ UNCHANGED <<mode, main, cur, wait, word, cpc, args, pseudo, forked, threads, bounds,
                   late, excused>>

Next ==
    \/ \E c \in Children, v \in BOOLEAN : Fork(c, v) \/ ChildExit(c, v)
    \/ \E f \in Frames : MapStack(f)
    \/ ForkFails \/ FixStack \/ FixFails \/ Clone \/ \E r \in BOOLEAN : CloneFails(r)
    \/ SeePid \/ WaitExec \/ WaitEintr \/ ParentDrop \/ ParentExec
    \/ \E how \in {"exit", "kill"} : ParentExit(how)
    \/ \E c \in Children :
          ChildStart(c) \/ ChildJump(c) \/ ExecFails(c) \/ ExecRelease(c) \/ ExecEnter(c)
            \/ ZombieWakes(c)

Spec == Init /\ [][Next]_vars

-----------------------------------------------------------------------------
(***************************************************************************)
(* Properties                                                              *)
(***************************************************************************)
\* The types of the variables.
TypeOK ==
    /\ mode \in {"none", "pseudo", "wait"} /\ word \in {0, 1} /\ cur \in Children \cup {NoChild}
    /\ \A c \in Children : args[c].life \in {"none", "live", "freed", "leaked"}
    /\ left \in {"not", "exit", "kill", "exec"} /\ pseudo \subseteq Children
    /\ threads \in 0..Cardinality(Children)

\* The children that hold their references and the parent during its call keep the
\* arguments alive, and the last one frees them; a call that fails before the clone
\* leaks them.
ArgumentsExact ==
    \A c \in Children :
        LET users == (IF cpc[c] \in {"start", "jump"} THEN 1 ELSE 0)
                       + (IF cur = c /\ pc # "user" THEN 1 ELSE 0)
        IN  /\ users > 0 => args[c].life = "live"
            /\ args[c].refs = users \/ args[c].life \in {"leaked", "freed"}
            /\ (users = 0 /\ cpc[c] # "none") => args[c].life = "freed"

\* A child that still runs the parent's program has its stack as long as the parent is
\* there, and also when the parent has exited in order.  It loses the stack to a parent
\* that executes another program, and to the first process when that is killed, calls
\* _exit, or exits in the mode without forks after a vfork: the mappings are then
\* released before anybody waits for the child.
InOrder ==
    /\ left \in {"exit", "kill"}
    /\ ~main \/ (left = "exit" /\ mode # "none")
StackHolds ==
    left = "not" \/ InOrder =>
        \A c \in Children : cpc[c] \in {"start", "jump", "user"} => stack[c].mapped

\* The child's stack is linked within itself: from the base pointer, whose copy is in the
\* child's stack, no chain of frame pointers through the child's stack leads back into
\* the parent's.
ChildWord(x) == x - Depth
InChild(x) == InParent(ChildWord(x))
Chained(g, S) == 1 \in S /\ \A w \in S : InChild(g[w]) => ChildWord(g[w]) \in S
Reached(g) == {w \in 1..Depth : \A S \in SUBSET (1..Depth) : Chained(g, S) => w \in S}
LinkedWithin(g) == InChild(g[1]) /\ \A w \in Reached(g) : ~InParent(g[w])
FramesExact ==
    \A c \in Children : cpc[c] \in {"start", "jump", "user"} /\ stack[c].mapped =>
        LinkedWithin(stack[c].words)

\* A parent that waits is woken when its child has executed a program or exited: it
\* does not sleep once the child has reported.
NobodyForgotten == pc = "asleep" => cpc[cur] \in {"start", "jump", "user", "wake", "zombie"}

\* vfork, and fork in the mode that waits, return to the parent only when the child
\* no longer runs the parent's program; a signal ends the wait early, and so does
\* another child of the same thread that it did not wait for.
WaitsForChild ==
    \A c \in late : cpc[c] \in {"start", "jump", "user"} =>
        <<"signal", c>> \in excused \/ <<"other", c>> \in excused

\* All of the above.
ForkExact ==
    TypeOK /\ ArgumentsExact /\ StackHolds /\ FramesExact /\ NobodyForgotten /\ WaitsForChild
=============================================================================
