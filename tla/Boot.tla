-------------------------------- MODULE Boot --------------------------------
(***************************************************************************)
(* The life of the kernel (myst_enter_kernel of kernel/enter.c): what it   *)
(* sets up before the program runs, the threads and processes that then    *)
(* live on it, and what it takes down when the main process exits.  Any    *)
(* step of the boot may fail; the kernel then returns at once.             *)
(*                                                                         *)
(* The files, descriptors and signals that are set up are other modules'   *)
(* matter: here a facility is up or not.  A forked process runs in the     *)
(* memory of its parent until it executes a program (module ForkExec).     *)
(***************************************************************************)
EXTENDS Integers, Sequences, FiniteSets

CONSTANTS
    Procs,         \* processes other than the main one, which is 0
    Mounts,        \* the number of mounts in the configuration
    MaxThreads,    \* threads of the main process besides its first
    MaxForks

VARIABLES
    at,            \* where the main thread is
    fstype,        \* of the root file system
    up,            \* the facilities that are there
    mounts,        \* configured mounts that are in place
    stdio,         \* the numbers given to the terminal
    threads,       \* the main process's other threads
    proc,          \* the other processes: state and parent
    entries,       \* processes with a directory in /proc
    hup,           \* processes that were sent SIGHUP
    forks,
    code           \* what the kernel returned: "none" before it does

procVars == <<threads, proc, entries, hup, forks>>
vars == <<at, fstype, up, mounts, stdio, procVars, code>>

Main == 0
NoProc == [st |-> "none", parent |-> 0]
Alive(p) == proc[p].st \notin {"none", "failed", "gone"}

Init ==
    /\ at = "mman" /\ fstype = "none" /\ up = {} /\ mounts = 0 /\ stdio = <<>>
    /\ threads = 0 /\ proc = [p \in Procs |-> NoProc] /\ entries = {} /\ hup = {} /\ forks = 0
    /\ code = "none"

At(here, next) == at = here /\ at' = next /\ code' = code
\* ERAISE: the kernel returns, and leaves everything as it is
Return(here) == at = here /\ at' = "returned" /\ code' = "error"
Ups(things) == up' = up \cup things
Downs(things) == up' = up \ things
Fails(here) == Return(here) /\ UNCHANGED <<fstype, up, mounts, stdio, procVars>>

-----------------------------------------------------------------------------
(***************************************************************************)
(* Boot                                                                    *)
(***************************************************************************)
Brings(here, next, things) ==
    \/ Fails(here)
    \/ At(here, next) /\ Ups(things) /\ UNCHANGED <<fstype, mounts, stdio, procVars>>

\* a failure that is not looked at
BringsOrNot(here, next, things) ==
    /\ At(here, next)
    /\ \E t \in {{}, things} : Ups(t)
    /\ UNCHANGED <<fstype, mounts, stdio, procVars>>

SetupMman == Brings("mman", "arguments", {"mman"})
CheckArguments == Brings("arguments", "process", {})

\* _init_main_thread: what was allocated before a failure stays
InitMainThread ==
    \/ Brings("process", "cwd", {"process"})
    \/ Brings("cwd", "fdtable", {"cwd"})
    \/ Brings("fdtable", "signals", {"fdtable"})
    \/ Brings("signals", "limits", {"signals"})
    \/ Brings("limits", "fstype", {})

\* an archive is a ramfs; of a host path, a directory is a hostfs and a file an ext2 image
GetFstype ==
    \/ Fails("fstype")
    \/ At("fstype", "root") /\ fstype' \in {"ramfs", "ext2", "hostfs"}
       /\ UNCHANGED <<up, mounts, stdio, procVars>>

\* a file system that cannot be mounted stays
SetupRoot(kind) ==
    /\ fstype = kind
    /\ \/ Brings("root", "mount", {"root"})
       \/ Brings("mount", "directories", {"mounted"})
SetupRamfs == SetupRoot("ramfs")
SetupExt2 == SetupRoot("ext2")
SetupHostfs == SetupRoot("hostfs")

\* the standard directories are made if they can be
StandardDirectories == BringsOrNot("directories", "credentials", {"directories"})

MountRootfs == SetupRamfs \/ SetupExt2 \/ SetupHostfs \/ StandardDirectories

Credentials == Brings("credentials", "proc", {})

\* the results of procfs_setup, devfs_setup and create_proc_root_entries are not looked
\* at: procfs may be missing, not be mounted, or be without the main process's directory
SetupProcfs ==
    /\ At("proc", "hostname")
    /\ \/ \E t \in {{}, {"procfs"}, {"procfs", "proc"}} : Ups(t) /\ UNCHANGED entries
       \/ Ups({"procfs", "proc"}) /\ entries' = entries \cup {Main}
    /\ UNCHANGED <<fstype, mounts, stdio, threads, proc, hup, forks>>

SetHostname == Brings("hostname", "tty", {})

\* _setup_tty: three devices get the three lowest descriptors
Lowest == Len(stdio)
SetupTty ==
    \/ Fails("tty")
    \/ /\ at = "tty" /\ stdio' = Append(stdio, Lowest)
       /\ at' = IF Len(stdio') = 3 THEN "unpack" ELSE at
       /\ UNCHANGED <<fstype, up, mounts, procVars, code>>

\* only an archive is unpacked; a file that cannot be made is a panic
Unpack ==
    \/ fstype = "ramfs" /\ Brings("unpack", "dev", {"files"})
    \/ fstype # "ramfs" /\ At("unpack", "dev") /\ UNCHANGED <<fstype, up, mounts, stdio, procVars>>

SetupDevfs ==
    \/ BringsOrNot("dev", "proc root", {"devfs"})
    \/ BringsOrNot("dev", "proc root", {"devfs", "dev"})
\* the files of /proc itself
ProcRootEntries == BringsOrNot("proc root", "mounts", IF "proc" \in up THEN {"proc root"} ELSE {})

\* _process_mount_configuration: the mounts before one that fails stay
ConfiguredMounts ==
    \/ Fails("mounts")
    \/ /\ at = "mounts" /\ mounts < Mounts /\ mounts' = mounts + 1
       /\ UNCHANGED <<at, fstype, up, stdio, procVars, code>>
    \/ /\ mounts = Mounts /\ At("mounts", "etc")
       /\ UNCHANGED <<fstype, up, mounts, stdio, procVars>>

CopyEtcFiles == Brings("etc", "thread function", {"etc"})
SetRunThread == Brings("thread function", "appenv", {})

\* the environment of the application may be missing, but not be wrong
CreateAppenv ==
    \/ Fails("appenv")
    \/ BringsOrNot("appenv", "access", {"appenv"})

\* the program must exist; exec enters it
Enter == Brings("access", "run", {"mappings"})

-----------------------------------------------------------------------------
(***************************************************************************)
(* The program                                                             *)
(***************************************************************************)
Frame == UNCHANGED <<at, fstype, up, mounts, stdio, code>>
\* a thread of the main process runs: its first, or another that the first waits for
MainRuns == at = "run" \/ threads > 0

\* clone and exit of a thread that is not the first of its group
Clone == /\ MainRuns /\ threads < MaxThreads /\ threads' = threads + 1
         /\ Frame /\ UNCHANGED <<proc, entries, hup, forks>>
ThreadEnds == /\ threads > 0 /\ threads' = threads - 1
              /\ Frame /\ UNCHANGED <<proc, entries, hup, forks>>

MayFork(p, parent) ==
    /\ forks < MaxForks /\ forks' = forks + 1
    /\ proc[p].st = "none"
    /\ IF parent = Main THEN MainRuns ELSE proc[parent].st \in {"forked", "program"}

\* fork by the main process or another, in its memory: it makes a directory in /proc and
\* looks its own program up there
Fork(p, parent) ==
    /\ MayFork(p, parent)
    /\ {"proc", "proc root"} \subseteq up
    /\ proc' = [proc EXCEPT ![p] = [st |-> "forked", parent |-> parent]]
    /\ entries' = entries \cup {p}
    /\ Frame /\ UNCHANGED <<threads, hup>>

\* a fork that fails after that leaves the directory
ForkFails(p, parent) ==
    /\ MayFork(p, parent)
    /\ proc' = [proc EXCEPT ![p] = [st |-> "failed", parent |-> parent]]
    /\ entries' \in {entries, entries \cup {q \in {p} : "proc" \in up}}
    /\ Frame /\ UNCHANGED <<threads, hup>>

Exec(p) ==
    /\ proc[p].st = "forked"
    /\ proc' = [proc EXCEPT ![p].st = "program"]
    /\ Frame /\ UNCHANGED <<threads, entries, hup, forks>>

ChildrenOf(p) == {q \in Procs : Alive(q) /\ proc[q].parent = p}

\* a process exits (myst_run_thread), of itself or for SIGHUP: it sends its children
\* SIGHUP, and goes when they are gone
Leave(p) ==
    /\ proc[p].st \in {"forked", "program"}
    /\ proc' = [proc EXCEPT ![p].st = IF @ = "forked" THEN "leaving fork" ELSE "leaving"]
    /\ hup' = hup \cup ChildrenOf(p)
    /\ entries' = entries \ {p}
    /\ Frame /\ UNCHANGED <<threads, forks>>

ChildrenGone(p) == ChildrenOf(p) = {}

Gone(p) ==
    /\ proc[p].st \in {"leaving", "leaving fork"}
    /\ ChildrenGone(p)
    /\ proc' = [proc EXCEPT ![p].st = "gone"]
    /\ Frame /\ UNCHANGED <<threads, entries, hup, forks>>

-----------------------------------------------------------------------------
(***************************************************************************)
(* Shutdown                                                                *)
(***************************************************************************)
Goes(here, next) == At(here, next) /\ UNCHANGED <<fstype, mounts, stdio, threads, proc, forks>>
Takes(here, next, things) == Goes(here, next) /\ Downs(things) /\ UNCHANGED <<entries, hup>>

Exit == Takes("run", "wait threads", {})

AnyThreads == TRUE

\* the main thread's group has nobody else
NoThreads == threads = 0

WaitThreads == NoThreads /\ Takes("wait threads", "free signals", {})
FreeSignals == Takes("free signals", "release mappings", {"signals"})
ReleaseMappings == Takes("release mappings", "free fdtable", {"mappings"})
FreeFdtable == Takes("free fdtable", "clean proc", {"fdtable"})

\* the directory of the main process in /proc; without procfs a NULL pointer is followed
CleanProc ==
    /\ Goes("clean proc", IF "procfs" \in up THEN "hup" ELSE "fault")
    /\ entries' = entries \ {Main} /\ UNCHANGED <<up, hup>>

SendSighup == Goes("hup", "wait processes") /\ hup' = hup \cup ChildrenOf(Main)
              /\ UNCHANGED <<up, entries>>

AnyProcesses == TRUE

\* the process list has nobody else
NoProcesses == \A p \in Procs : ~Alive(p)

WaitProcesses == NoProcesses /\ Takes("wait processes", "free process", {})
FreeProcess == Takes("free process", "free appenv", {"cwd", "process"})
FreeAppenv == Takes("free appenv", "teardown mounts", {"appenv"})

\* the mounts of the configuration, the two virtual file systems and the root
TeardownMounts ==
    /\ at = "teardown mounts" /\ at' = "teardown proc" /\ mounts' = 0
    /\ UNCHANGED <<fstype, up, stdio, procVars, code>>
TeardownProcfs == Takes("teardown proc", "teardown dev", {"procfs", "proc", "proc root"})
TeardownDevfs == /\ Goes("teardown dev", IF "devfs" \in up THEN "teardown root" ELSE "fault")
                 /\ Downs({"devfs", "dev"}) /\ UNCHANGED <<entries, hup>>
TeardownRoot == Takes("teardown root", "end", {"root", "mounted", "files", "directories", "etc"})

\* functions of myst_atexit and fini; the memory manager is not taken down
End == /\ at = "end" /\ at' = "returned" /\ code' = "status"
       /\ UNCHANGED <<fstype, up, mounts, stdio, procVars>>

Next ==
    \/ SetupMman \/ CheckArguments \/ InitMainThread \/ GetFstype \/ MountRootfs
    \/ Credentials \/ SetupProcfs \/ SetHostname \/ SetupTty \/ Unpack \/ SetupDevfs \/ ProcRootEntries
    \/ ConfiguredMounts \/ CopyEtcFiles \/ SetRunThread \/ CreateAppenv \/ Enter
    \/ Clone \/ ThreadEnds
    \/ \E p \in Procs, q \in Procs \cup {Main} : Fork(p, q)
    \/ \E p \in Procs, q \in Procs \cup {Main} : ForkFails(p, q)
    \/ \E p \in Procs : Exec(p)
    \/ \E p \in Procs : Leave(p)
    \/ \E p \in Procs : Gone(p)
    \/ Exit \/ WaitThreads \/ FreeSignals \/ ReleaseMappings \/ FreeFdtable \/ CleanProc
    \/ SendSighup \/ WaitProcesses \/ FreeProcess \/ FreeAppenv \/ TeardownMounts
    \/ TeardownProcfs \/ TeardownDevfs \/ TeardownRoot \/ End

Spec == Init /\ [][Next]_vars

-----------------------------------------------------------------------------
Running == Cardinality({p \in Procs : Alive(p)})

\* Threads of the main process run only while its signals, memory, descriptors and files
\* are there; other processes only while the file systems and the main process, their
\* ancestor, are.
UsersHaveFacilities ==
    /\ threads > 0 => {"signals", "mappings", "fdtable", "process", "root"} \subseteq up
    /\ Running > 0 => {"process", "cwd", "root", "mounted"} \subseteq up /\ mounts = Mounts

\* A forked process that has not executed a program runs in its parent's memory, so the
\* parent is there; but the main process releases its memory before it waits for them.
ParentMemory ==
    \A p \in Procs : proc[p].st \in {"forked", "leaving fork"} =>
        IF proc[p].parent = Main THEN "mappings" \in up \/ at \notin {"run", "wait threads"}
        ELSE proc[proc[p].parent].st # "gone"

\* After the program has run only the memory manager is left when the kernel returns; all
\* of the boot is there while it runs, and /proc has the processes and failed forks.
Balanced ==
    /\ code = "status" => up = {"mman"} /\ mounts = 0 /\ Running = 0 /\ threads = 0
    /\ at = "run" => /\ stdio = <<0, 1, 2>> /\ mounts = Mounts
                     /\ fstype = "ramfs" => "files" \in up
    /\ \A p \in entries : p = Main \/ proc[p].st \in {"forked", "program", "failed"}
    /\ \A p \in Procs : proc[p].st \in {"forked", "program"} => p \in entries

\* Everybody who must go was told to: while the main process waits, the processes that
\* nobody has sent SIGHUP descend from one that was told and has not left.
EverybodyTold ==
    at = "wait processes" => \A p \in Procs :
        Alive(p) /\ p \notin hup => proc[p].parent # Main /\ Alive(proc[p].parent)

BootExact == UsersHaveFacilities /\ ParentMemory /\ Balanced /\ EverybodyTold
=============================================================================
