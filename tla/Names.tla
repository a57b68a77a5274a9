------------------------------- MODULE Names -------------------------------
(***************************************************************************)
(* From a path name to a file system: the working directory, myst_realpath *)
(* and myst_normalize, the mount table, and the system calls that take     *)
(* path names (kernel/mount.c, realpath.c, paths.c, utils/paths.c and the  *)
(* path part of kernel/syscall.c).  A file system is a tree of             *)
(* directories; files would behave as leaves of it.  Path names are        *)
(* sequences of components.  Two spin locks are at work: that of the mount *)
(* table and that of the working directory.                                *)
(***************************************************************************)
EXTENDS Integers, Sequences, FiniteSets

CONSTANTS
    Threads, NoThread,
    Callers, Mounters,  \* the threads that call with path names, and that mount
    Fss, Root,        \* file systems; the one mounted at the root
    Inputs,           \* path names as callers give them: [abs, toks, slash]
    Tree0,            \* the directories of each file system at the beginning
    TableSize,        \* MOUNT_TABLE_SIZE
    MaxOps

Dot == "."
DotDot == ".."

VARIABLES
    tree,             \* path -> identity of the directory, for each file system
    table,            \* the mount table
    life,             \* of a file system: "none", "held" by mount, "live", "released"
    cwd,              \* the working directory of the process
    fd,               \* a descriptor of a directory: file system, stored path, identity
    mlock, clock,     \* holders of the two locks
    call,             \* of each thread: the call it is in, and its locals
    moves,            \* renames, rmdirs, mounts and umounts so far
    hurt,             \* what went wrong
    ops

locks == <<mlock, clock>>
vars == <<tree, table, life, cwd, fd, mlock, clock, call, moves, hurt, ops>>

Quiet == [op |-> "none", pc |-> "idle", in |-> <<>>, in2 |-> <<>>, fs |-> Root, real |-> <<>>,
          at |-> <<>>, at2 |-> <<>>, new |-> Root, since |-> 0, ret |-> "none"]
NoFd == [open |-> FALSE, fs |-> Root, path |-> <<>>, id |-> 0, since |-> 0]

Init ==
    /\ tree = [f \in Fss |-> [p \in Tree0[f] |-> Len(p)]]
    /\ table = <<[path |-> <<>>, fs |-> Root]>>
    /\ life = [f \in Fss |-> IF f = Root THEN "live" ELSE "none"]
    /\ cwd = <<>> /\ fd = NoFd
    /\ mlock = NoThread /\ clock = NoThread
    /\ call = [t \in Threads |-> Quiet]
    /\ moves = 0 /\ hurt = {} /\ ops = 0

-----------------------------------------------------------------------------
\* the loop of myst_realpath: "." goes unless it is last, ".." takes one away
Walk(toks, keepLast) ==
    LET W[i \in 0..Len(toks)] ==
            IF i = 0 THEN <<>>
            ELSE IF toks[i] = Dot /\ (~keepLast \/ i < Len(toks)) THEN W[i - 1]
            ELSE IF toks[i] = DotDot
                 THEN SubSeq(W[i - 1], 1, IF W[i - 1] = <<>> THEN 0 ELSE Len(W[i - 1]) - 1)
            ELSE Append(W[i - 1], toks[i])
    IN  W[Len(toks)]

\* myst_path_absolute_cwd
Absolute(in, dir) == IF in.abs THEN in.toks ELSE dir \o in.toks

\* myst_realpath: a trailing slash stands for a last "."
Realpath(in, dir) ==
    Walk(Absolute(in, dir) \o (IF in.slash THEN <<Dot>> ELSE <<>>), TRUE)

\* myst_normalize, which chdir uses
Normalize(in, dir) == Walk(Absolute(in, dir), FALSE)

IsPrefixOf(p, path) == Len(p) <= Len(path) /\ SubSeq(path, 1, Len(p)) = p

\* mutant: the last entry that matches
ResolveAny(path) ==
    LET R[i \in 0..Len(table)] ==
            IF i = 0 THEN [fs |-> NoThread, len |-> -1]
            ELSE IF IsPrefixOf(table[i].path, path)
                 THEN [fs |-> table[i].fs, len |-> Len(table[i].path)]
            ELSE R[i - 1]
    IN  [fs |-> R[Len(table)].fs, suffix |-> SubSeq(path, R[Len(table)].len + 1, Len(path))]

\* the loop of myst_mount_resolve over the mount table
Resolve(path) ==
    LET R[i \in 0..Len(table)] ==
            IF i = 0 THEN [fs |-> NoThread, len |-> -1]
            ELSE IF IsPrefixOf(table[i].path, path) /\ Len(table[i].path) > R[i - 1].len
                 THEN [fs |-> table[i].fs, len |-> Len(table[i].path)]
            ELSE R[i - 1]
    IN  [fs |-> R[Len(table)].fs, suffix |-> SubSeq(path, R[Len(table)].len + 1, Len(path))]

\* a file system walks a path itself; a last "." only says that it is a directory
Place(suffix) == SelectSeq(suffix, LAMBDA e : e # Dot)
Exists(f, p) == Place(p) \in DOMAIN tree[f]
Parent(p) == SubSeq(p, 1, Len(p) - 1)
Children(f, p) == {q \in DOMAIN tree[f] : Len(q) = Len(p) + 1 /\ IsPrefixOf(p, q)}
Fresh == 1 + Cardinality(UNION {DOMAIN tree[f] : f \in Fss}) + ops
MountedAt(f) ==
    LET es == {i \in 1..Len(table) : table[i].fs = f}
    IN  IF es = {} THEN <<>> ELSE table[CHOOSE i \in es : TRUE].path

Set(t, rec) == call' = [call EXCEPT ![t] = rec]
Step(t, pc) == call' = [call EXCEPT ![t].pc = pc]
Answer(t, r) == call' = [call EXCEPT ![t] = [Quiet EXCEPT !.ret = r]]
At(t, pc) == call[t].pc = pc
KeepTrees == UNCHANGED <<tree, cwd, fd, moves>>
KeepMounts == UNCHANGED <<table, life>>

\* a file system that is not live any more when a call works on it
Touch(f) == hurt' = IF life[f] # "live" THEN hurt \cup {"released"} ELSE hurt

-----------------------------------------------------------------------------
\* A call on one or two path names.  getcwd takes the lock of the working directory,
\* so a relative name waits for it; the path of a descriptor stands for itself.
PathOps == {"open", "stat", "mkdir", "rmdir"}

\* _trim_trailing_slashes, of mkdir; rmdir leaves them and fails with a last "."
Given(op, in) == IF op = "mkdir" THEN [in EXCEPT !.slash = FALSE] ELSE in

CallPath(t) ==
    /\ At(t, "idle") /\ ops < MaxOps /\ ops' = ops + 1
    /\ \/ \E op \in PathOps, in \in Inputs :
             Set(t, [Quiet EXCEPT !.op = op, !.in = Given(op, in), !.in2 = in, !.pc = "real"])
       \/ \E a, b \in Inputs : a # b /\ Set(t, [Quiet EXCEPT !.op = "rename", !.in = a, !.in2 = b, !.pc = "real"])
    /\ UNCHANGED <<locks, hurt>> /\ KeepTrees /\ KeepMounts

\* mutant: the place of the file system is left out
FdPathBare(in) == fd.path \o in.toks

\* fs_realpath of the descriptor, and the name behind it
FdPath(in) == MountedAt(fd.fs) \o fd.path \o in.toks

\* myst_get_absolute_path_from_dirfd, for the calls of the form xxxat
CallAt(t) ==
    /\ At(t, "idle") /\ ops < MaxOps /\ ops' = ops + 1
    /\ fd.open
    /\ \E op \in {"at", "mkdir", "rmdir"}, in \in {i \in Inputs : ~i.abs} \cup {[abs |-> FALSE, toks |-> <<>>, slash |-> FALSE]} :
          LET path == [abs |-> TRUE, toks |-> FdPath(in), slash |-> in.slash]
          IN  /\ op = "at" <=> in.toks = <<>>
              /\ Set(t, [Quiet EXCEPT !.op = op, !.in = Given(op, path), !.in2 = path, !.pc = "real"])
    /\ UNCHANGED <<locks, hurt>> /\ KeepTrees /\ KeepMounts

CallReal(t) ==
    /\ At(t, "real")
    /\ call[t].in.abs \/ clock = NoThread
    /\ call' = [call EXCEPT ![t].real = Realpath(call[t].in, cwd), ![t].pc = "resolve"]
    /\ UNCHANGED <<locks, hurt, ops>> /\ KeepTrees /\ KeepMounts

\* what to do with the path names resolved, for a second name and at the end
Resolved(t, r) ==
    IF r.fs = NoThread THEN Answer(t, "ENOENT")
    ELSE call' = [call EXCEPT ![t].fs = r.fs, ![t].at = r.suffix, ![t].in = call[t].in2,
                              ![t].since = moves,
                              ![t].pc = IF call[t].op = "rename" THEN "real2" ELSE "use"]

CallResolve(t) ==
    /\ At(t, "resolve") /\ mlock = NoThread
    /\ Resolved(t, Resolve(call[t].real))
    /\ UNCHANGED <<locks, hurt, ops>> /\ KeepTrees /\ KeepMounts

\* the second name of rename: another file system means EXDEV
CallSecond(t) ==
    /\ At(t, "real2") /\ mlock = NoThread
    /\ call[t].in.abs \/ clock = NoThread
    /\ \E r \in {Resolve(Realpath(call[t].in, cwd))} :
          IF r.fs # call[t].fs THEN Answer(t, "EXDEV")
          ELSE call' = [call EXCEPT ![t].at2 = r.suffix, ![t].pc = "use"]
    /\ UNCHANGED <<locks, hurt, ops>> /\ KeepTrees /\ KeepMounts

-----------------------------------------------------------------------------
\* What the calls do in the file system they found
UseStat(t) ==
    /\ At(t, "use") /\ call[t].op \in {"stat", "at"}
    /\ Answer(t, IF Exists(call[t].fs, call[t].at) THEN "ok" ELSE "ENOENT")
    /\ Touch(call[t].fs)
    /\ UNCHANGED <<locks, ops>> /\ KeepTrees /\ KeepMounts

UseOpen(t) ==
    /\ At(t, "use") /\ call[t].op = "open"
    /\ Touch(call[t].fs)
    /\ IF Exists(call[t].fs, call[t].at) /\ ~fd.open
       THEN /\ fd' = [open |-> TRUE, fs |-> call[t].fs, path |-> Place(call[t].at),
                      id |-> tree[call[t].fs][Place(call[t].at)], since |-> call[t].since]
            /\ Answer(t, "ok")
       ELSE Answer(t, "ENOENT") /\ UNCHANGED fd
    /\ UNCHANGED <<tree, cwd, moves, locks, ops>> /\ KeepMounts

UseMkdir(t) ==
    /\ At(t, "use") /\ call[t].op = "mkdir"
    /\ Touch(call[t].fs)
    /\ LET f == call[t].fs
           at == call[t].at
       IN  IF at # <<>> /\ at = Place(at) /\ at \notin DOMAIN tree[f] /\ Parent(at) \in DOMAIN tree[f]
           THEN /\ tree' = [tree EXCEPT ![f] = [p \in DOMAIN @ \cup {at} |->
                                                  IF p = at THEN Fresh ELSE @[p]]]
                /\ Answer(t, "ok")
           ELSE Answer(t, "failed") /\ UNCHANGED tree
    /\ UNCHANGED <<cwd, fd, moves, locks, ops>> /\ KeepMounts

UseRmdir(t) ==
    /\ At(t, "use") /\ call[t].op = "rmdir"
    /\ Touch(call[t].fs)
    /\ LET f == call[t].fs
           at == call[t].at
       IN  IF at # <<>> /\ at \in DOMAIN tree[f] /\ Children(f, at) = {}
           THEN /\ tree' = [tree EXCEPT ![f] = [p \in DOMAIN @ \ {at} |-> @[p]]]
                /\ moves' = moves + 1 /\ Answer(t, "ok")
           ELSE Answer(t, "failed") /\ UNCHANGED <<tree, moves>>
    /\ UNCHANGED <<cwd, fd, locks, ops>> /\ KeepMounts

\* the directories below go along; neither a mount nor a descriptor follows
UseRename(t) ==
    /\ At(t, "use") /\ call[t].op = "rename"
    /\ Touch(call[t].fs)
    /\ LET f == call[t].fs
           old == call[t].at
           new == call[t].at2
           below == {p \in DOMAIN tree[f] : IsPrefixOf(old, p)}
           Moved(p) == new \o SubSeq(p, Len(old) + 1, Len(p))
       IN  IF /\ old # <<>> /\ new # <<>> /\ old \in DOMAIN tree[f]
              /\ new \notin DOMAIN tree[f] /\ Parent(new) \in DOMAIN tree[f]
              /\ ~IsPrefixOf(old, new)
           THEN /\ tree' = [tree EXCEPT ![f] =
                     [q \in (DOMAIN @ \ below) \cup {Moved(p) : p \in below} |->
                         IF q \in DOMAIN @ \ below THEN @[q]
                         ELSE @[CHOOSE p \in below : Moved(p) = q]]]
                /\ moves' = moves + 1 /\ Answer(t, "ok")
           ELSE Answer(t, "failed") /\ UNCHANGED <<tree, moves>>
    /\ UNCHANGED <<cwd, fd, locks, ops>> /\ KeepMounts

Close ==
    /\ fd.open /\ ops < MaxOps /\ ops' = ops + 1
    /\ fd' = NoFd
    /\ Touch(fd.fs)
    /\ UNCHANGED <<tree, cwd, moves, locks, call>> /\ KeepMounts

-----------------------------------------------------------------------------
\* chdir holds the lock of the working directory while it looks the directory up
ChdirStart(t) ==
    /\ At(t, "idle") /\ ops < MaxOps /\ ops' = ops + 1
    /\ clock = NoThread /\ clock' = t
    /\ \E in \in Inputs :
          Set(t, [Quiet EXCEPT !.op = "chdir", !.real = Normalize(in, cwd), !.pc = "chresolve"])
    /\ UNCHANGED <<mlock, hurt>> /\ KeepTrees /\ KeepMounts

ChdirResolve(t) ==
    /\ At(t, "chresolve") /\ mlock = NoThread
    /\ \E r \in {Resolve(call[t].real)} :
          IF r.fs = NoThread THEN Answer(t, "ENOENT") /\ clock' = NoThread
          ELSE /\ call' = [call EXCEPT ![t].fs = r.fs, ![t].at = r.suffix, ![t].since = moves,
                                       ![t].pc = "chset"]
               /\ UNCHANGED clock
    /\ UNCHANGED <<mlock, hurt, ops>> /\ KeepTrees /\ KeepMounts

\* mutant: whether the directory is there or not
ChdirSetAnyway(t) ==
    /\ At(t, "chset")
    /\ cwd' = call[t].real /\ clock' = NoThread
    /\ Touch(call[t].fs) /\ Answer(t, "ok")
    /\ UNCHANGED <<tree, fd, moves, mlock, ops>> /\ KeepMounts

ChdirSet(t) ==
    /\ At(t, "chset")
    /\ Touch(call[t].fs)
    /\ IF Exists(call[t].fs, call[t].at)
       THEN cwd' = call[t].real /\ Answer(t, "ok")
       ELSE Answer(t, "ENOENT") /\ UNCHANGED cwd
    /\ clock' = NoThread
    /\ UNCHANGED <<tree, fd, moves, mlock, ops>> /\ KeepMounts

\* fchdir takes the stored path of the descriptor
Fchdir(t) ==
    /\ At(t, "idle") /\ ops < MaxOps /\ ops' = ops + 1
    /\ fd.open /\ clock = NoThread
    /\ Touch(fd.fs)
    /\ cwd' = MountedAt(fd.fs) \o fd.path
    /\ UNCHANGED <<tree, fd, moves, locks, call>> /\ KeepMounts

-----------------------------------------------------------------------------
\* mount: the target is looked up first, in the file system it is in but by its
\* whole path, then the table is locked
MountStart(t) ==
    /\ At(t, "idle") /\ ops < MaxOps /\ ops' = ops + 1
    /\ \E f \in Fss, in \in Inputs :
          /\ life[f] = "none"
          /\ in.abs \/ clock = NoThread
          /\ Set(t, [Quiet EXCEPT !.op = "mount", !.new = f, !.real = Realpath(in, cwd),
                                  !.pc = "mresolve"])
          /\ life' = [life EXCEPT ![f] = "held"]
    /\ UNCHANGED <<table, locks, hurt>> /\ KeepTrees

\* the file system made for the mount is released when the mount fails
Fail(t) == Answer(t, "failed") /\ life' = [life EXCEPT ![call[t].new] = "released"]

MountResolve(t) ==
    /\ At(t, "mresolve") /\ mlock = NoThread
    /\ \E r \in {Resolve(call[t].real)} :
          IF r.fs = NoThread THEN Fail(t)
          ELSE /\ call' = [call EXCEPT ![t].fs = r.fs, ![t].since = moves, ![t].pc = "mstat"]
               /\ UNCHANGED life
    /\ UNCHANGED <<table, locks, hurt, ops>> /\ KeepTrees

MountStat(t) ==
    /\ At(t, "mstat")
    /\ Touch(call[t].fs)
    /\ IF Exists(call[t].fs, call[t].real) THEN Step(t, "mset") /\ UNCHANGED life ELSE Fail(t)
    /\ UNCHANGED <<table, locks, ops>> /\ KeepTrees

\* mutant: two mounts at one place
RoomAnywhere(path) == Len(table) < TableSize

\* room in the table, and nothing at this place yet
Room(path) ==
    Len(table) < TableSize /\ \A i \in 1..Len(table) : table[i].path # path

MountSet(t) ==
    /\ At(t, "mset") /\ mlock = NoThread
    /\ IF Room(call[t].real)
       THEN /\ table' = Append(table, [path |-> call[t].real, fs |-> call[t].new])
            /\ life' = [life EXCEPT ![call[t].new] = "live"]
            /\ moves' = moves + 1 /\ Answer(t, "ok")
       ELSE Fail(t) /\ UNCHANGED <<table, moves>>
    /\ UNCHANGED <<tree, cwd, fd, locks, hurt, ops>>

\* umount holds the lock of the table while it finds the real path
UmountStart(t) ==
    /\ At(t, "idle") /\ ops < MaxOps /\ ops' = ops + 1
    /\ mlock = NoThread /\ mlock' = t
    /\ \E in \in Inputs : Set(t, [Quiet EXCEPT !.op = "umount", !.in = in, !.pc = "ureal"])
    /\ UNCHANGED <<clock, hurt>> /\ KeepTrees /\ KeepMounts

UmountReal(t) ==
    /\ At(t, "ureal")
    /\ call[t].in.abs \/ clock = NoThread
    /\ call' = [call EXCEPT ![t].real = Realpath(call[t].in, cwd), ![t].pc = "uset"]
    /\ UNCHANGED <<locks, hurt, ops>> /\ KeepTrees /\ KeepMounts

\* mutant: the entry is only cut off at the end
CutLast(i) == SubSeq(table, 1, Len(table) - 1)

\* the last entry takes the place of the one that goes
Removed(i) == [k \in 1..(Len(table) - 1) |-> IF k = i THEN table[Len(table)] ELSE table[k]]

\* the file system is released, whoever uses it; ramfs panics if files are open.  The
\* release fails only for a file system that is none any more, which the table never holds.
UmountSet(t) ==
    /\ At(t, "uset")
    /\ LET es == {i \in 1..Len(table) : table[i].path = call[t].real}
       IN  IF es = {} THEN Answer(t, "ENOENT") /\ UNCHANGED <<table, life, moves, hurt>>
           ELSE \E i \in es :
                  /\ table' = Removed(i)
                  /\ life' = [life EXCEPT ![table[i].fs] = "released"]
                  /\ hurt' = IF fd.open /\ fd.fs = table[i].fs THEN hurt \cup {"busy"} ELSE hurt
                  /\ moves' = moves + 1 /\ Answer(t, "ok")
    /\ mlock' = NoThread
    /\ UNCHANGED <<tree, cwd, fd, clock, ops>>

-----------------------------------------------------------------------------
Next ==
    \/ \E t \in Callers :
         \/ CallPath(t) \/ CallAt(t) \/ CallReal(t) \/ CallResolve(t) \/ CallSecond(t)
         \/ UseStat(t) \/ UseOpen(t) \/ UseMkdir(t) \/ UseRmdir(t) \/ UseRename(t)
         \/ ChdirStart(t) \/ ChdirResolve(t) \/ ChdirSet(t) \/ Fchdir(t)
    \/ \E t \in Mounters :
         \/ MountStart(t) \/ MountResolve(t) \/ MountStat(t) \/ MountSet(t)
         \/ UmountStart(t) \/ UmountReal(t) \/ UmountSet(t)
    \/ Close

Spec == Init /\ [][Next]_vars

-----------------------------------------------------------------------------
(***************************************************************************)
(* Properties                                                              *)
(***************************************************************************)
TypeOK ==
    /\ mlock \in Threads \cup {NoThread} /\ clock \in Threads \cup {NoThread}
    /\ Len(table) <= TableSize
    /\ \A f \in Fss : life[f] \in {"none", "held", "live", "released"}

\* The mount table: no place and no file system twice; the root is mounted or was
\* unmounted; what is in the table has not been released, and a file system that was
\* made for a mount is in the table, being mounted, or released.
TableSound ==
    /\ \A i, j \in 1..Len(table) :
          i # j => table[i].path # table[j].path /\ table[i].fs # table[j].fs
    /\ \A f \in Fss : life[f] = "live" <=> \E i \in 1..Len(table) : table[i].fs = f
    /\ \A f \in Fss : life[f] = "held" =>
          \E t \in Threads : call[t].new = f /\ call[t].pc \in {"mresolve", "mstat", "mset"}

\* A path leads to the deepest mount that contains it, whatever the order in which
\* the entries came and went, and the suffix is the rest of it.
Deepest(path, r) ==
    \E i \in 1..Len(table) :
        /\ table[i].fs = r.fs /\ path = table[i].path \o r.suffix
        /\ \A k \in 1..Len(table) :
              IsPrefixOf(table[k].path, path) => Len(table[k].path) <= Len(table[i].path)
ResolveExact ==
    \A t \in Threads :
        (call[t].pc = "resolve" /\ call'[t].pc # "resolve" /\ table # <<>>) =>
            Deepest(call[t].real, [fs |-> call'[t].fs, suffix |-> call'[t].at])
            \/ \A i \in 1..Len(table) : table[i].path # <<>>

\* A mount at a name that ends in a slash is at "name/.", where no path but those that
\* end in a slash or a dot finds it.
MountAtDot == \E i \in 1..Len(table) : \E k \in 1..Len(table[i].path) : table[i].path[k] = Dot

\* The working directory gets no dots, unless it is a mount at such a name, and was a
\* directory when chdir set it.
CwdSound ==
    cwd' # cwd =>
        /\ MountAtDot \/ \A i \in 1..Len(cwd') : cwd'[i] \notin {Dot, DotDot}
        /\ \A t \in Threads :
              call[t].pc = "chset" /\ call'[t].pc = "idle" => Exists(call[t].fs, call[t].at)

\* The path of a descriptor leads back to the directory it was opened with, until a
\* directory is renamed or removed or something is mounted or unmounted.
FdLeadsBack ==
    (fd.open /\ fd.since = moves) =>
        \E r \in {Resolve(FdPath([abs |-> TRUE, toks |-> <<>>, slash |-> FALSE]))} :
            r.fs = fd.fs /\ r.suffix \in DOMAIN tree[r.fs] /\ tree[r.fs][r.suffix] = fd.id

\* The file system that a call has found for its path, or a descriptor was opened in, is
\* live until something is unmounted, renamed or removed: nothing keeps it alive longer,
\* so a umount in between takes it away from under the call.
LiveUntilUmount ==
    /\ \A t \in Threads :
          call[t].pc \in {"real2", "use", "chset", "mstat"} /\ call[t].since = moves =>
              life[call[t].fs] = "live"
    /\ fd.open /\ fd.since = moves => life[fd.fs] = "live"

\* Whoever works on a file system that has been released found it before that.
OnlyStaleUses ==
    hurt' # hurt =>
        \/ \E t \in Threads : call'[t] # call[t] /\ At(t, "use") /\ call[t].since < moves
        \/ \E t \in Threads : At(t, "chset") /\ call[t].since < moves
        \/ \E t \in Threads : At(t, "mstat") /\ call[t].since < moves
        \/ fd.open /\ fd.since < moves'

\* What a thread spins for: the lock of the working directory, or of the mount table.
Spins(t) ==
    \/ call[t].pc \in {"real", "real2", "ureal"} /\ ~call[t].in.abs /\ clock # NoThread
    \/ call[t].pc \in {"real2", "resolve", "chresolve", "mresolve", "mset"} /\ mlock # NoThread

\* The threads never all spin, except for one pair: chdir holds the lock of the working
\* directory and needs the table, umount of a relative name holds the table and needs
\* the working directory.
OnePairSpins ==
    \/ \A t \in Threads : call[t].pc = "idle"
    \/ \E t \in Threads : call[t].pc # "idle" /\ ~Spins(t)
    \/ \E t, u \in Threads :
          /\ mlock = t /\ call[t].pc = "ureal" /\ ~call[t].in.abs
          /\ clock = u /\ call[u].pc = "chresolve"

\* All of the above, in every step.
NamesStep ==
    /\ ResolveExact /\ CwdSound /\ OnlyStaleUses
    /\ (TypeOK /\ TableSound /\ FdLeadsBack /\ LiveUntilUmount /\ OnePairSpins)'
NamesExact == [][NamesStep]_vars
=============================================================================
