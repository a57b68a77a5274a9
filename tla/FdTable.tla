------------------------------ MODULE FdTable ------------------------------
(***************************************************************************)
(* The descriptor tables of the processes (kernel/fdtable.c), the system   *)
(* calls that use them (kernel/syscall.c) and the /proc/[pid]/fd links     *)
(* that go with the descriptors of files (kernel/fs.c).                    *)
(*                                                                         *)
(* An entry points to an object of a device or a file system.  fd_dup      *)
(* makes a new object, fd_close frees one.  A function of fdtable.c holds  *)
(* the spin lock of the table throughout, so it is one step; a system call *)
(* that calls several of them lets other threads in between, and keeps the *)
(* object it got in a local variable, without a reference.                 *)
(***************************************************************************)
EXTENDS Naturals, FiniteSets, FiniteSetsExt

CONSTANTS Procs, First,      \* processes, and the one that exists at the start
          Threads, ProcOf,   \* threads and their process
          Size,              \* MYST_FDTABLE_SIZE
          Margin,            \* pipe2 leaves that many descriptors free
          Objects,           \* addresses of objects: a set of naturals
          NoObj,             \* the NULL object
          MaxCalls,          \* bound on system calls
          MaxFailures        \* bound on failures of fd_dup, fd_fcntl, symlink and fork

ASSUME FdAssumption ==
    /\ First \in Procs /\ ProcOf \in [Threads -> Procs]
    /\ Size \in Nat \ {0} /\ NoObj \notin Objects
    /\ Objects \subseteq Nat /\ IsFiniteSet(Objects)

Fds == 0..(Size - 1)

VARIABLES
    table,      \* fdtable->entries[fd].object
    kind,       \* entries[fd].type, which goes with the object
    cloexec,    \* FD_CLOEXEC in the object's fd_flags
    life,       \* objects are "none", "live" or "closed"
    links,      \* the descriptors that /proc/[pid]/fd shows
    alive,      \* processes are "none", "run", "gone", or "hung" on their lock
    call,       \* what each thread is doing: operation, step, fd, objects
    calls, failures,
    inherit,    \* ghost: the caller set close-on-exec on this descriptor's
                \* object, or it was forked from such a one
    raced,      \* ghost: the program closed or replaced a descriptor while
                \* another of its threads was inside a call on it
    broken,     \* ghost: objects that a failed dup2 has closed under their entry
    lost,       \* ghost: objects that a failed clone has left behind
    unlinked    \* ghost: processes whose links a failed fork has removed

vars == <<table, kind, cloexec, life, links, alive, call, calls, failures, inherit,
          raced, broken, lost, unlinked>>
ghostVars == <<raced, broken, lost, unlinked>>

Doing(op, step, fd, obj, obj2) ==
    [op |-> op, step |-> step, fd |-> fd, obj |-> obj, obj2 |-> obj2]

Idle == Doing("none", "none", 0, NoObj, NoObj)

Init ==
    /\ table = [p \in Procs |-> [f \in Fds |-> NoObj]]
    /\ kind = [o \in Objects |-> "none"]
    /\ cloexec = [o \in Objects |-> FALSE]
    /\ life = [o \in Objects |-> "none"]
    /\ links = [p \in Procs |-> {}]
    /\ alive = [p \in Procs |-> IF p = First THEN "run" ELSE "none"]
    /\ call = [t \in Threads |-> Idle]
    /\ calls = 0 /\ failures = 0
    /\ inherit = {}
    /\ raced = FALSE
    /\ broken = {} /\ lost = {} /\ unlinked = {}

-----------------------------------------------------------------------------
Unused == {o \in Objects : life[o] = "none"}
Fresh == Min(Unused)
Free(p) == {f \in Fds : table[p][f] = NoObj}
Used(p) == Fds \ Free(p)

MayCall(t) == call[t] = Idle /\ calls < MaxCalls

\* another thread of the process is inside one of these calls on descriptor f
Busy(t, f, ops) ==
    \E u \in Threads \ {t} : /\ ProcOf[u] = ProcOf[t] /\ call[u].op \in ops
                             /\ call[u].fd = f /\ call[u].step # "assign"
Making == {"open", "pipe", "close"}
Using == Making \cup {"use"}

Step(t, next) == call' = [call EXCEPT ![t].step = next]
Finish(t) == call' = [call EXCEPT ![t] = Idle]

\* fd_close of an object
Dead(o) == [life EXCEPT ![o] = "closed"]

\* myst_syscall_open and creat: the file system makes the object
Open(t, cx) ==
    /\ MayCall(t) /\ Unused # {}
    /\ calls' = calls + 1
    /\ life' = [life EXCEPT ![Fresh] = "live"]
    /\ kind' = [kind EXCEPT ![Fresh] = "file"]
    /\ cloexec' = [cloexec EXCEPT ![Fresh] = cx]
    /\ inherit' = IF cx THEN inherit \cup {Fresh} ELSE inherit
    /\ call' = [call EXCEPT ![t] = Doing("open", "assign", 0, Fresh, NoObj)]
    /\ UNCHANGED <<table, links, alive, failures, ghostVars>>

\* myst_fdtable_assign: the first free entry, or -EMFILE and the object is closed
OpenAssign(t) ==
    LET p == ProcOf[t]  o == call[t].obj
    IN  /\ call[t].op = "open" /\ call[t].step = "assign"
        /\ IF Free(p) = {}
           THEN life' = Dead(o) /\ Finish(t) /\ UNCHANGED table
           ELSE /\ table' = [table EXCEPT ![p][Min(Free(p))] = o]
                /\ call' = [call EXCEPT ![t].step = "link", ![t].fd = Min(Free(p))]
                /\ UNCHANGED life
        /\ UNCHANGED <<kind, cloexec, links, alive, calls, failures, inherit, ghostVars>>

\* mutant: the object is closed but the entry stays
OpenLinkKeepsEntry(t) ==
    LET p == ProcOf[t]  f == call[t].fd
    IN  /\ call[t].op = "open" /\ call[t].step = "link"
        /\ \/ /\ f \notin links[p]
              /\ links' = [links EXCEPT ![p] = @ \cup {f}]
              /\ UNCHANGED <<life, failures>>
           \/ /\ f \in links[p] \/ failures < MaxFailures
              /\ failures' = failures + (IF f \in links[p] THEN 0 ELSE 1)
              /\ life' = Dead(call[t].obj)
              /\ UNCHANGED links
        /\ Finish(t)
        /\ UNCHANGED <<table, kind, cloexec, alive, calls, inherit, ghostVars>>

\* myst_add_fd_link; when symlink fails (the link exists, or out of memory) the
\* entry is removed again and the object is closed
OpenLink(t) ==
    LET p == ProcOf[t]  f == call[t].fd
    IN  /\ call[t].op = "open" /\ call[t].step = "link"
        /\ \/ /\ f \notin links[p]
              /\ links' = [links EXCEPT ![p] = @ \cup {f}]
              /\ UNCHANGED <<table, life, failures>>
           \/ /\ f \in links[p] \/ failures < MaxFailures
              /\ failures' = failures + (IF f \in links[p] THEN 0 ELSE 1)
              /\ table' = [table EXCEPT ![p][f] = NoObj]
              /\ life' = Dead(call[t].obj)
              /\ UNCHANGED links
        /\ Finish(t)
        /\ UNCHANGED <<kind, cloexec, alive, calls, inherit, ghostVars>>

\* myst_syscall_pipe2: the number of free entries is checked, then both ends are
\* made and assigned one after the other
Pipe2(t) ==
    /\ MayCall(t) /\ Cardinality(Unused) >= 2
    /\ Cardinality(Free(ProcOf[t])) >= Margin
    /\ calls' = calls + 1
    /\ LET r == Fresh  w == Min(Unused \ {r})
       IN  /\ life' = [life EXCEPT ![r] = "live", ![w] = "live"]
           /\ kind' = [kind EXCEPT ![r] = "pipe", ![w] = "pipe"]
           /\ call' = [call EXCEPT ![t] = Doing("pipe", "assign", 0, r, w)]
    /\ UNCHANGED <<table, cloexec, links, alive, failures, inherit, ghostVars>>

PipeAssignRead(t) ==
    LET p == ProcOf[t]
    IN  /\ call[t].op = "pipe" /\ call[t].step = "assign"
        /\ IF Free(p) = {}
           THEN /\ life' = [life EXCEPT ![call[t].obj] = "closed",
                                        ![call[t].obj2] = "closed"]
                /\ Finish(t) /\ UNCHANGED table
           ELSE /\ table' = [table EXCEPT ![p][Min(Free(p))] = call[t].obj]
                /\ call' = [call EXCEPT ![t].step = "second", ![t].fd = Min(Free(p))]
                /\ UNCHANGED life
        /\ UNCHANGED <<kind, cloexec, links, alive, calls, failures, inherit, ghostVars>>

\* mutant: the read end stays in the table when there is no room for the other
PipeLeavesReadEnd(t) ==
    LET p == ProcOf[t]
    IN  /\ call[t].op = "pipe" /\ call[t].step = "second"
        /\ IF Free(p) = {}
           THEN /\ life' = [life EXCEPT ![call[t].obj] = "closed",
                                        ![call[t].obj2] = "closed"]
                /\ UNCHANGED table
           ELSE /\ table' = [table EXCEPT ![p][Min(Free(p))] = call[t].obj2]
                /\ UNCHANGED life
        /\ Finish(t)
        /\ UNCHANGED <<kind, cloexec, links, alive, calls, failures, inherit, ghostVars>>

PipeAssignWrite(t) ==
    LET p == ProcOf[t]
    IN  /\ call[t].op = "pipe" /\ call[t].step = "second"
        /\ IF Free(p) = {}
           THEN /\ table' = [table EXCEPT ![p][call[t].fd] = NoObj]
                /\ life' = [life EXCEPT ![call[t].obj] = "closed",
                                        ![call[t].obj2] = "closed"]
           ELSE /\ table' = [table EXCEPT ![p][Min(Free(p))] = call[t].obj2]
                /\ UNCHANGED life
        /\ Finish(t)
        /\ UNCHANGED <<kind, cloexec, links, alive, calls, failures, inherit, ghostVars>>

\* read, write, fcntl and the like: get the object, then use it
UseGet(t, f) ==
    /\ MayCall(t) /\ f \in Used(ProcOf[t])
    /\ calls' = calls + 1
    /\ raced' = (raced \/ Busy(t, f, Making))
    /\ call' = [call EXCEPT ![t] = Doing("use", "use", f, table[ProcOf[t]][f], NoObj)]
    /\ UNCHANGED <<table, kind, cloexec, life, links, alive, failures, inherit, broken,
                   lost, unlinked>>

\* the call, or fcntl(F_SETFD) which changes the flags of the object
Use(t) ==
    LET o == call[t].obj
    IN  /\ call[t].op = "use"
        /\ \/ UNCHANGED <<cloexec, inherit>>
           \/ \E cx \in BOOLEAN :
                 /\ cloexec' = [cloexec EXCEPT ![o] = cx]
                 /\ inherit' = IF cx THEN inherit \cup {o} ELSE inherit \ {o}
        /\ Finish(t)
        /\ UNCHANGED <<table, kind, life, links, alive, calls, failures, ghostVars>>

\* myst_syscall_close, in four steps
CloseGet(t, f) ==
    LET o == table[ProcOf[t]][f]
    IN  /\ MayCall(t) /\ f \in Used(ProcOf[t])
        /\ calls' = calls + 1
        /\ raced' = (raced \/ Busy(t, f, Using))
        /\ call' = [call EXCEPT ![t] =
               Doing("close", IF kind[o] = "file" THEN "unlink" ELSE "remove", f, o, NoObj)]
        /\ UNCHANGED <<table, kind, cloexec, life, links, alive, failures, inherit,
                       broken, lost, unlinked>>

\* mutant: the descriptor is free before its link is gone
RemoveBeforeUnlink(t) ==
    /\ call[t].op = "close" /\ call[t].step = "unlink"
    /\ table' = [table EXCEPT ![ProcOf[t]][call[t].fd] = NoObj]
    /\ Step(t, "remove")
    /\ UNCHANGED <<kind, cloexec, life, links, alive, calls, failures, inherit, ghostVars>>

\* myst_remove_fd_link, whose failure is ignored
CloseUnlink(t) ==
    /\ call[t].op = "close" /\ call[t].step = "unlink"
    /\ links' = [links EXCEPT ![ProcOf[t]] = @ \ {call[t].fd}]
    /\ Step(t, "remove")
    /\ UNCHANGED <<table, kind, cloexec, life, alive, calls, failures, inherit, ghostVars>>

CloseRemove(t) ==
    LET p == ProcOf[t]  f == call[t].fd
    IN  /\ call[t].op = "close" /\ call[t].step = "remove"
        /\ table' = [table EXCEPT ![p][f] = NoObj]
        /\ Step(t, "object")
        /\ UNCHANGED <<kind, cloexec, life, links, alive, calls, failures, inherit,
                       ghostVars>>

CloseObject(t) ==
    /\ call[t].op = "close" /\ call[t].step = "object"
    /\ life' = Dead(call[t].obj)
    /\ Finish(t)
    /\ UNCHANGED <<table, kind, cloexec, links, alive, calls, failures, inherit, ghostVars>>

-----------------------------------------------------------------------------
(***************************************************************************)
(* myst_fdtable_dup, for dup, dup2, dup3, F_DUPFD and F_DUPFD_CLOEXEC.     *)
(***************************************************************************)
DupTypes == {"dup", "dup2", "dup3", "dupfd", "dupfd_cloexec"}

NextFree(p, type, new) ==
    {f \in Free(p) : type = "dup" \/ f >= new}

\* the entry that the duplicate goes to: one that is free, or the one asked for
DupTargets(p, type, new) ==
    IF type \in {"dup2", "dup3"} THEN {new}
    ELSE IF NextFree(p, type, new) = {} THEN {} ELSE {Min(NextFree(p, type, new))}

\* newfd == oldfd is a successful no-op, an error in dup3
DupIsNoop(type, old, new) == type # "dup" /\ old = new

\* what was there is closed first, then the old object is duplicated; dup clears
\* the descriptor flags of the new object
Dup(t, type, old, new) ==
    LET p == ProcOf[t]  o == table[p][old]  cx == type \in {"dup3", "dupfd_cloexec"}
    IN  /\ MayCall(t) /\ old \in Used(p) /\ ~DupIsNoop(type, old, new) /\ Unused # {}
        /\ \E f \in DupTargets(p, type, new) :
              /\ raced' = (raced \/ Busy(t, f, Using))
              /\ life' = [x \in Objects |-> IF x = Fresh THEN "live"
                              ELSE IF x = table[p][f] THEN "closed" ELSE life[x]]
              /\ kind' = [kind EXCEPT ![Fresh] = kind[o]]
              /\ cloexec' = [cloexec EXCEPT ![Fresh] = cx]
              /\ inherit' = IF cx THEN inherit \cup {Fresh} ELSE inherit
              /\ table' = [table EXCEPT ![p][f] = Fresh]
              /\ links' = [links EXCEPT ![p] = IF kind[o] = "file" THEN @ \cup {f} ELSE @ \ {f}]
        /\ calls' = calls + 1
        /\ UNCHANGED <<alive, call, failures, broken, lost, unlinked>>

\* fd_dup fails: the new entry keeps pointing to the object that was just closed
DupFails(t, type, old, new) ==
    LET p == ProcOf[t]
    IN  /\ MayCall(t) /\ failures < MaxFailures
        /\ old \in Used(p) /\ ~DupIsNoop(type, old, new)
        /\ \E f \in DupTargets(p, type, new) :
              /\ raced' = (raced \/ Busy(t, f, Using))
              /\ life' = [x \in Objects |-> IF x = table[p][f] THEN "closed" ELSE life[x]]
              /\ links' = [links EXCEPT ![p] = @ \ {f}]
              /\ broken' = broken \cup ({table[p][f]} \ {NoObj})
        /\ calls' = calls + 1 /\ failures' = failures + 1
        /\ UNCHANGED <<table, kind, cloexec, alive, call, inherit, lost, unlinked>>

\* symlink fails: myst_fdtable_remove waits for the spin lock this thread holds
DupHangs(t, type, old, new) ==
    LET p == ProcOf[t]
    IN  /\ MayCall(t) /\ failures < MaxFailures
        /\ old \in Used(p) /\ ~DupIsNoop(type, old, new)
        /\ kind[table[p][old]] = "file" /\ DupTargets(p, type, new) # {}
        /\ alive' = [alive EXCEPT ![p] = "hung"]
        /\ failures' = failures + 1
        /\ UNCHANGED <<table, kind, cloexec, life, links, call, calls, inherit, ghostVars>>

-----------------------------------------------------------------------------
\* the objects that fork makes of the entries of p, a new one for each
Copies(p) ==
    CHOOSE c \in [Used(p) -> Unused] : \A f, g \in Used(p) : c[f] = c[g] => f = g

\* mutant: the copies lose their descriptor flags
ClonedWithoutFlags(p, F) ==
    LET c == Copies(p)
        made == {c[f] : f \in F}
        From(o) == table[p][CHOOSE f \in F : c[f] = o]
    IN  /\ life' = [o \in Objects |-> IF o \in made THEN "live" ELSE life[o]]
        /\ kind' = [o \in Objects |-> IF o \in made THEN kind[From(o)] ELSE kind[o]]
        /\ inherit' = inherit \cup {o \in made : From(o) \in inherit}
        /\ UNCHANGED cloexec

\* the objects after the entries F of p have been duplicated, their descriptor
\* flags included
Cloned(p, F) ==
    LET c == Copies(p)
        made == {c[f] : f \in F}
        From(o) == table[p][CHOOSE f \in F : c[f] = o]
    IN  /\ life' = [o \in Objects |-> IF o \in made THEN "live" ELSE life[o]]
        /\ kind' = [o \in Objects |-> IF o \in made THEN kind[From(o)] ELSE kind[o]]
        /\ cloexec' = [o \in Objects |-> IF o \in made THEN cloexec[From(o)] ELSE cloexec[o]]
        /\ inherit' = inherit \cup {o \in made : From(o) \in inherit}

MayFork(t, c) ==
    /\ MayCall(t) /\ alive[c] = "none"
    /\ Cardinality(Unused) >= Cardinality(Used(ProcOf[t]))

\* myst_fdtable_clone; the child has no links for what it inherits
Fork(t, c) ==
    LET p == ProcOf[t]
    IN  /\ MayFork(t, c)
        /\ calls' = calls + 1
        /\ Cloned(p, Used(p))
        /\ table' = [table EXCEPT ![c] =
                        [f \in Fds |-> IF f \in Used(p) THEN Copies(p)[f] ELSE NoObj]]
        /\ alive' = [alive EXCEPT ![c] = "run"]
        /\ UNCHANGED <<links, call, failures, ghostVars>>

\* fd_dup fails for entry f: the copies made so far are neither closed nor kept
CloneFails(t, c, f) ==
    LET p == ProcOf[t]  F == {g \in Used(p) : g < f}
    IN  /\ MayFork(t, c) /\ failures < MaxFailures /\ f \in Used(p)
        /\ calls' = calls + 1 /\ failures' = failures + 1
        /\ Cloned(p, F)
        /\ lost' = lost \cup {Copies(p)[g] : g \in F}
        /\ UNCHANGED <<table, links, alive, call, raced, broken, unlinked>>

\* a later step of fork fails: myst_fdtable_free of the child's table, run by the
\* parent, closes the copies and removes the parent's links
ForkFails(t, c) ==
    LET p == ProcOf[t]
    IN  /\ MayFork(t, c) /\ failures < MaxFailures
        /\ calls' = calls + 1 /\ failures' = failures + 1
        /\ life' = [o \in Objects |->
                       IF \E f \in Used(p) : o = Copies(p)[f] THEN "closed" ELSE life[o]]
        /\ links' = [links EXCEPT ![p] = {f \in @ : ~(f \in Used(p) /\ kind[table[p][f]] = "file")}]
        /\ unlinked' = unlinked \cup {p}
        /\ UNCHANGED <<table, kind, cloexec, alive, call, inherit, raced, broken, lost>>

\* the close of the entries F of p by one thread that holds the lock or is alone
CloseEntries(p, F) ==
    /\ life' = [o \in Objects |-> IF \E f \in F : o = table[p][f] THEN "closed" ELSE life[o]]
    /\ table' = [table EXCEPT ![p] = [f \in Fds |-> IF f \in F THEN NoObj ELSE @[f]]]

\* myst_fdtable_cloexec, at the end of exec, which goes through the entries of F
CloseMarked(t, F) ==
    LET p == ProcOf[t]
    IN  /\ MayCall(t)
        /\ calls' = calls + 1
        /\ CloseEntries(p, F)
        /\ raced' = (raced \/ \E f \in F : Busy(t, f, Using))
        /\ links' = [links EXCEPT ![p] = @ \ {f \in F : kind[table[p][f]] = "file"}]
        /\ UNCHANGED <<kind, cloexec, alive, call, inherit, broken, lost, unlinked>>

MarkedEntries(p) == {f \in Used(p) : cloexec[table[p][f]]}

Exec(t) == CloseMarked(t, MarkedEntries(ProcOf[t])) /\ UNCHANGED failures

\* the device of entry g fails to answer F_GETFD: the entries before it have been
\* closed, the others keep their marks, and the exec returns the error
ExecStops(t, g) ==
    /\ failures < MaxFailures /\ failures' = failures + 1
    /\ g \in Used(ProcOf[t])
    /\ CloseMarked(t, {f \in MarkedEntries(ProcOf[t]) : f < g})

\* myst_fdtable_free, by the last thread of a process; /proc/[pid] is gone by then
Exit(p) ==
    /\ alive[p] = "run"
    /\ \A t \in Threads : ProcOf[t] = p => call[t] = Idle
    /\ CloseEntries(p, Used(p))
    /\ links' = [links EXCEPT ![p] = {}]
    /\ alive' = [alive EXCEPT ![p] = "gone"]
    /\ UNCHANGED <<kind, cloexec, call, calls, failures, inherit, ghostVars>>

Next ==
    \/ \E t \in Threads :
          /\ alive[ProcOf[t]] = "run"
          /\ \/ \E cx \in BOOLEAN : Open(t, cx)
             \/ OpenAssign(t) \/ OpenLink(t)
             \/ Pipe2(t) \/ PipeAssignRead(t) \/ PipeAssignWrite(t)
             \/ Use(t) \/ CloseUnlink(t) \/ CloseRemove(t) \/ CloseObject(t)
             \/ Exec(t) \/ \E g \in Fds : ExecStops(t, g)
             \/ \E f \in Fds : UseGet(t, f) \/ CloseGet(t, f)
             \/ \E type \in DupTypes, old, new \in Fds :
                   \/ Dup(t, type, old, new) \/ DupFails(t, type, old, new)
                   \/ DupHangs(t, type, old, new)
             \/ \E c \in Procs : Fork(t, c) \/ ForkFails(t, c)
             \/ \E c \in Procs, f \in Fds : CloneFails(t, c, f)
    \/ \E p \in Procs : Exit(p)

Spec == Init /\ [][Next]_vars

-----------------------------------------------------------------------------
(***************************************************************************)
(* Properties                                                              *)
(***************************************************************************)
\* what a thread is doing
Calls ==
    [op : {"none"} \cup Using,
     step : {"none", "assign", "link", "second", "use", "unlink", "remove", "object"},
     fd : Fds, obj : Objects \cup {NoObj}, obj2 : Objects \cup {NoObj}]

\* The types of the variables.
TypeOK ==
    /\ table \in [Procs -> [Fds -> Objects \cup {NoObj}]]
    /\ kind \in [Objects -> {"none", "file", "pipe"}]
    /\ cloexec \in [Objects -> BOOLEAN]
    /\ life \in [Objects -> {"none", "live", "closed"}]
    /\ links \in [Procs -> SUBSET Fds]
    /\ alive \in [Procs -> {"none", "run", "gone", "hung"}]
    /\ call \in [Threads -> Calls]
    /\ inherit \subseteq Objects /\ broken \subseteq Objects /\ lost \subseteq Objects
    /\ raced \in BOOLEAN /\ unlinked \subseteq Procs

\* the objects that a call holds in its locals and will put into the table or close
InCall ==
    {o \in Objects : \E t \in Threads : /\ call[t].step \in {"assign", "second", "object"}
                                        /\ o \in {call[t].obj, call[t].obj2}}

Entries == {e \in Procs \X Fds : table[e[1]][e[2]] # NoObj}

\* No dangling entry and no leak: an entry points to a live object, no two entries
\* to the same one, and every live object is in a table or in the hands of a call.
\* The exceptions are the ones the code makes: a dup2 that fails after closing,
\* and a clone that fails half-way; and a program that closes a descriptor
\* another of its threads is using.
ObjectsExact ==
    ~raced =>
        /\ \A e \in Entries : table[e[1]][e[2]] \in broken \/ life[table[e[1]][e[2]]] = "live"
        /\ \A e, g \in Entries : table[e[1]][e[2]] = table[g[1]][g[2]] => e = g
        /\ \A o \in Objects : life[o] = "live" =>
              o \in lost \cup InCall \cup {table[e[1]][e[2]] : e \in Entries}

\* A call never uses an object that is closed, nor closes one twice, however the
\* calls of the threads of a process interleave on different descriptors.
NoUseAfterClose ==
    ~raced => \A t \in Threads :
        call[t].obj \in Objects \ broken => life[call[t].obj] = "live"

\* /proc/[pid]/fd shows no descriptor that is closed, so that the symlink of a
\* later open of the same number succeeds; and in the first process it shows every
\* file, unless a fork failed.
LinksExact ==
    ~raced => \A p \in Procs :
        LET inopen == {call[t].fd : t \in {u \in Threads : ProcOf[u] = p /\ call[u].op \in {"open", "close"}}}
            files == {f \in Used(p) : kind[table[p][f]] = "file"}
        IN  /\ links[p] \subseteq files
            /\ (p = First /\ p \notin unlinked) =>
                  files \subseteq links[p] \cup inopen \cup {f \in Fds : table[p][f] \in broken}

\* Descriptors: no dangling entry, no leak, no use after close, and /proc/[pid]/fd
\* shows what is open (ObjectsExact, NoUseAfterClose and LinksExact).
DescriptorsExact == TypeOK /\ ObjectsExact /\ NoUseAfterClose /\ LinksExact

\* Close-on-exec reaches across fork: a descriptor that was marked, or was forked
\* from a marked one, does not survive exec, and no other descriptor is closed.
ExecClosesMarked ==
    [][\A t \in Threads : Exec(t) =>
          \A f \in Used(ProcOf[t]) :
              table'[ProcOf[t]][f] = NoObj <=> table[ProcOf[t]][f] \in inherit]_vars
=============================================================================
