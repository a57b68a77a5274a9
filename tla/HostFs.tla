------------------------------- MODULE HostFs -------------------------------
(***************************************************************************)
(* The file system that passes calls on to a directory of the host         *)
(* (hostfs/hostfs.c, and the mapping of ids in kernel/uid_gid.c).  A file  *)
(* of it is a host descriptor and the path it was opened by.               *)
(*                                                                         *)
(* A path is a sequence of pieces of its text; a piece without a slash     *)
(* goes on with the name before it.  The host's files, names and           *)
(* descriptors are external: a host call fails and changes nothing or does *)
(* what it is for.  Contents are left out; groups are treated as users     *)
(* are.                                                                    *)
(***************************************************************************)
EXTENDS Integers, Sequences, FiniteSets, SequencesExt

CONSTANTS
    Handles,       \* open files of the kernel
    Source,        \* the host directory that is mounted
    Target,        \* where it is mounted
    Locals,        \* paths below the mount point
    Outside,       \* host paths that are not below Source
    Slashed,       \* pieces that begin with a slash
    UidMap,        \* the sequence of pairs of an id and the host's id for it
    Users,         \* ids, mapped and not
    Links,         \* targets of symbolic links: absolute or not, and the path
    Dirs,          \* the paths that are directories at first
    TableSize,     \* MYST_FDTABLE_SIZE
    MaxFd, MaxObject, MaxCalls

VARIABLES
    names,         \* host path -> object, or 0
    object,        \* the host's files: kind, owner and target
    hostFd,        \* host descriptor -> object, or 0
    file,          \* the handles: host descriptor and realpath
    res,           \* the last call and its answer
    calls,
    opened,        \* ghost: the object that each handle was opened for
    said,          \* ghost: the owner and target of each object as they were given
    moved,         \* ghost: handles whose path was made to lead elsewhere
    leaked         \* ghost: host descriptors that nobody holds

hostVars == <<names, object, hostFd>>
vars == <<hostVars, file, res, calls, opened, said, moved, leaked>>

Fds == 1..MaxFd
Objects == 1..MaxObject
HostPaths == {Source \o p : p \in Locals} \cup Outside
NoLink == [abs |-> FALSE, path |-> <<>>]
NoObject == [kind |-> "none", uid |-> 0, to |-> NoLink]
NoFile == [fd |-> 0, real |-> <<>>]

-----------------------------------------------------------------------------
(***************************************************************************)
(* Ids and paths                                                           *)
(***************************************************************************)
Mapped(u) == \E i \in DOMAIN UidMap : UidMap[i][1] = u

\* myst_enc_uid_to_host and myst_host_uid_to_enc: the first pair counts
ToHost(u) == UidMap[CHOOSE i \in DOMAIN UidMap :
                        UidMap[i][1] = u /\ \A j \in 1..(i-1) : UidMap[j][1] # u][2]
Known(h) == \E i \in DOMAIN UidMap : UidMap[i][2] = h
ToEnc(h) == UidMap[CHOOSE i \in DOMAIN UidMap :
                        UidMap[i][2] = h /\ \A j \in 1..(i-1) : UidMap[j][2] # h][1]

\* myst_hostfs_suffix_to_host_abspath
HostPath(p) == Source \o p

AnyLink(t) == t

\* symlink stores an absolute target as a host path, a relative one as it is
StoredLink(t) == IF t.abs THEN [t EXCEPT !.path = HostPath(@)] ELSE t

\* _to_local_path: the text of the source is cut off, even if a name goes on behind it
LocalLink(t) ==
    IF t.abs /\ IsPrefix(Source, t.path)
    THEN LET rest == SubSeq(t.path, Len(Source) + 1, Len(t.path))
         IN [abs |-> rest # <<>> /\ rest[1] \in Slashed, path |-> rest]
    ELSE t

\* what a link below the mount should read as: the source is cut off at the end of a name
TrueLink(t) ==
    IF t.abs /\ IsPrefix(Source, t.path)
         /\ (Len(t.path) > Len(Source) => t.path[Len(Source) + 1] \in Slashed)
    THEN [t EXCEPT !.path = SubSeq(@, Len(Source) + 1, Len(@))]
    ELSE t

\* the host follows a link at the end of a path
Dir(h) == IF h = <<>> THEN <<>> ELSE Front(h)
Named(ns, h) == IF h \in HostPaths THEN ns[h] ELSE 0
Leads(ns, h) ==
    IF Named(ns, h) # 0 /\ object[Named(ns, h)].kind = "link"
    THEN LET t == object[Named(ns, h)].to
         IN Named(ns, IF t.abs THEN t.path ELSE Dir(h) \o t.path)
    ELSE Named(ns, h)
At(h) == Named(names, h)
Follow(h) == Leads(names, h)

-----------------------------------------------------------------------------
Start(h) == IF h \in Outside THEN 2 ELSE IF h \in {Source \o d : d \in Dirs} THEN 1 ELSE 0

Init ==
    /\ names = [h \in HostPaths |-> Start(h)]
    /\ object = [o \in Objects |-> IF o = 1 THEN [NoObject EXCEPT !.kind = "dir", !.uid = UidMap[1][2]]
                                   ELSE IF o = 2 THEN [NoObject EXCEPT !.kind = "file", !.uid = 999]
                                   ELSE NoObject]
    /\ hostFd = [d \in Fds |-> 0]
    /\ file = [f \in Handles |-> NoFile]
    /\ res = [op |-> "none", ok |-> TRUE, o |-> 0, n |-> 0] /\ calls = 0
    /\ opened = [f \in Handles |-> 0]
    /\ said = [o \in Objects |-> [uid |-> IF o = 1 THEN UidMap[1][1] ELSE 0, to |-> NoLink]]
    /\ moved = {} /\ leaked = {}

Begin == calls < MaxCalls /\ calls' = calls + 1
Answer(op, ok, o, n) == res' = [op |-> op, ok |-> ok, o |-> o, n |-> n]
Unchanged == UNCHANGED <<hostVars, file, opened, said, moved, leaked>>
Only(op, o, n) == Answer(op, TRUE, o, n) /\ Unchanged
Fails(op) == Answer(op, FALSE, 0, 0) /\ Unchanged
IsOpen(f) == file[f].fd # 0
New == {o \in Objects : object[o].kind = "none" /\ \A q \in Objects : object[q].kind = "none" => o <= q}
FreeFd == {d \in Fds : hostFd[d] = 0 /\ \A e \in Fds : hostFd[e] = 0 => d <= e}
Free(h) == h \in HostPaths /\ At(h) = 0
HasDir(h) == Dir(h) = Source \/ (At(Dir(h)) # 0 /\ object[At(Dir(h))].kind = "dir")

\* the host makes an object for the caller
Makes(h, o, kind, u, t, stored) ==
    /\ names' = [names EXCEPT ![h] = o]
    /\ object' = [object EXCEPT ![o] = [kind |-> kind, uid |-> ToHost(u), to |-> stored]]
    /\ said' = [said EXCEPT ![o] = [uid |-> u, to |-> t]]

-----------------------------------------------------------------------------
(***************************************************************************)
(* Descriptors                                                             *)
(***************************************************************************)
\* the kernel's part of an open: a number above the table's size is refused, and stays open
Accepted(f, d, p, o) ==
    /\ hostFd' = [hostFd EXCEPT ![d] = o]
    /\ IF d > TableSize
         THEN /\ leaked' = leaked \cup {d} /\ Answer("open", FALSE, 0, 0)
              /\ UNCHANGED <<file, opened, moved>>
         ELSE /\ file' = [file EXCEPT ![f] = [fd |-> d, real |-> p]]
              /\ opened' = [opened EXCEPT ![f] = o]
              /\ moved' = moved \ {f}
              /\ Answer("open", TRUE, o, 0) /\ UNCHANGED leaked

\* _fs_open, and _fs_creat with O_CREAT
Open(f, p, u) ==
    /\ Begin /\ ~IsOpen(f)
    /\ \/ Fails("open")
       \/ \E o \in {Follow(HostPath(p))}, d \in FreeFd :
            /\ Mapped(u) /\ o # 0
            /\ Accepted(f, d, p, o)
            /\ UNCHANGED <<names, object, said>>

Creat(f, p, u) ==
    /\ Begin /\ ~IsOpen(f)
    /\ \/ Fails("creat")
       \/ \E o \in New, d \in FreeFd :
            /\ Mapped(u) /\ Free(HostPath(p)) /\ HasDir(HostPath(p))
            /\ Accepted(f, d, p, o)
            /\ Makes(HostPath(p), o, "file", u, NoLink, NoLink)

\* The host's descriptor is gone whatever the host answers, and so is the entry of the
\* descriptor table.  (After an error the memory of the handle is not freed: nothing
\* refers to it any more.)
Close(f) ==
    /\ Begin /\ IsOpen(f)
    /\ hostFd' = [hostFd EXCEPT ![file[f].fd] = 0]
    /\ file' = [file EXCEPT ![f] = NoFile]
    /\ opened' = [opened EXCEPT ![f] = 0]
    /\ moved' = moved \ {f}
    /\ \E ok \in BOOLEAN : Answer("close", ok, 0, 0)
    /\ UNCHANGED <<names, object, said, leaked>>

SameFd(f, d) == file[f]

\* _fs_dup: the path is copied, the host duplicates the descriptor
Duplicate(f, d) == [file[f] EXCEPT !.fd = d]

Dup(f, g) ==
    /\ Begin /\ IsOpen(f) /\ ~IsOpen(g)
    /\ \/ Fails("dup")
       \/ \E d \in FreeFd :
            /\ hostFd' = [hostFd EXCEPT ![d] = hostFd[file[f].fd]]
            /\ file' = [file EXCEPT ![g] = Duplicate(f, d)]
            /\ opened' = [opened EXCEPT ![g] = opened[f]]
            /\ moved' = IF f \in moved THEN moved \cup {g} ELSE moved
            /\ Answer("dup", TRUE, opened[f], 0)
            /\ UNCHANGED <<names, object, said, leaked>>

\* calls that hand the descriptor to the host
ByFd(op, f) ==
    /\ Begin /\ IsOpen(f)
    /\ \/ Fails(op)
       \/ Only(op, f, hostFd[file[f].fd])

Lseek(f) == ByFd("lseek", f)
Read(f) == ByFd("read", f)
Write(f) == ByFd("write", f)
Pread(f) == ByFd("pread", f)
Pwrite(f) == ByFd("pwrite", f)
Ftruncate(f) == ByFd("ftruncate", f)
Getdents(f) == ByFd("getdents64", f)
Fcntl(f) == ByFd("fcntl", f)
Fstatfs(f) == ByFd("fstatfs", f)
Fdatasync(f) == ByFd("fdatasync", f)
Fsync(f) == ByFd("fsync", f)

\* the elements of the vector, one call after the other (myst_fdops_readv and writev)
Readv(f) == ByFd("readv", f)
Writev(f) == ByFd("writev", f)

\* only three requests reach the host
Ioctl(f, request) ==
    IF request \in {"FIOCLEX", "FIONCLEX", "FIONBIO"} THEN ByFd("ioctl", f)
    ELSE Begin /\ IsOpen(f) /\ Fails("ioctl")

\* the calls of poll and epoll ask for the number; there are no events without the host
TargetFd(f) == Begin /\ IsOpen(f) /\ Only("target_fd", f, hostFd[file[f].fd])
GetEvents(f) == Begin /\ IsOpen(f) /\ Fails("get_events")

\* _fs_realpath
Realpath(f) ==
    /\ Begin /\ IsOpen(f)
    /\ Only("realpath", f, IF Target = <<>> THEN file[f].real ELSE Target \o file[f].real)

-----------------------------------------------------------------------------
(***************************************************************************)
(* Attributes                                                              *)
(***************************************************************************)
\* the host's answer is mapped; an owner without a pair is an error
Shown(op, o) == IF o # 0 /\ Known(object[o].uid)
                THEN Only(op, o, ToEnc(object[o].uid)) ELSE Fails(op)

Stat(p, u) == Begin /\ (Fails("stat") \/ (Mapped(u) /\ Shown("stat", Follow(HostPath(p)))))
Lstat(p, u) == Begin /\ (Fails("stat") \/ (Mapped(u) /\ Shown("stat", At(HostPath(p)))))
Fstat(f) == Begin /\ IsOpen(f) /\ (Fails("stat") \/ Shown("stat", hostFd[file[f].fd]))

NotMapped(owner) == owner

\* an owner is mapped
HostOwner(owner) == ToHost(owner)

\* -1 leaves the owner as it is, and is not mapped
Kept == -1
Gives(op, o, owner, u) ==
    \/ Fails(op)
    \/ /\ o # 0 /\ Mapped(u) /\ (owner = Kept \/ Mapped(owner))
       /\ object' = IF owner = Kept THEN object
                    ELSE [object EXCEPT ![o].uid = HostOwner(owner)]
       /\ said' = IF owner = Kept THEN said ELSE [said EXCEPT ![o].uid = owner]
       /\ Answer(op, TRUE, o, 0)
       /\ UNCHANGED <<names, hostFd, file, opened, moved, leaked>>

Chown(p, owner, u) == Begin /\ Gives("chown", Follow(HostPath(p)), owner, u)
Lchown(p, owner, u) == Begin /\ Gives("lchown", At(HostPath(p)), owner, u)
Fchown(f, owner, u) == Begin /\ IsOpen(f) /\ Gives("fchown", hostFd[file[f].fd], owner, u)

\* calls that set what the model leaves out, with the caller's ids
Chmod(p, u) == Begin /\ (Fails("chmod") \/ (Mapped(u) /\ Only("chmod", Follow(HostPath(p)), 0)))
AsCaller(op, f, u) == IF Mapped(u) THEN ByFd(op, f) ELSE Begin /\ IsOpen(f) /\ Fails(op)
Fchmod(f, u) == AsCaller("fchmod", f, u)
Futimens(f, u) == AsCaller("utimensat", f, u)

\* calls by path that change no name
Access(p) == Begin /\ (Fails("access") \/ Only("access", Follow(HostPath(p)), 0))
Truncate(p) == Begin /\ (Fails("truncate") \/ Only("truncate", Follow(HostPath(p)), 0))
Statfs(p) == Begin /\ (Fails("statfs") \/ Only("statfs", Follow(HostPath(p)), 0))

-----------------------------------------------------------------------------
(***************************************************************************)
(* Names                                                                   *)
(***************************************************************************)
\* the handles whose path does not lead where it did
Moves(new) ==
    moved \cup {f \in Handles : IsOpen(f) /\
                  Leads(new, HostPath(file[f].real)) # Follow(HostPath(file[f].real))}

Renames(op, new) ==
    /\ names' = new
    /\ moved' = Moves(new)
    /\ Answer(op, TRUE, 0, 0)
    /\ UNCHANGED <<object, hostFd, file, opened, said, leaked>>

\* link of the host: a second name
Link(p, q) ==
    /\ Begin
    /\ \/ Fails("link")
       \/ /\ At(HostPath(p)) # 0 /\ object[At(HostPath(p))].kind # "dir"
          /\ Free(HostPath(q)) /\ HasDir(HostPath(q))
          /\ Renames("link", [names EXCEPT ![HostPath(q)] = At(HostPath(p))])

Below(h, d) == IsPrefix(d, h) /\ h # d
Empty(d) == \A h \in HostPaths : Below(h, d) => names[h] = 0

Unlink(p) ==
    /\ Begin
    /\ \/ Fails("unlink")
       \/ /\ At(HostPath(p)) # 0 /\ object[At(HostPath(p))].kind # "dir"
          /\ Renames("unlink", [names EXCEPT ![HostPath(p)] = 0])

Rmdir(p, u) ==
    /\ Begin
    /\ \/ Fails("rmdir")
       \/ /\ Mapped(u) /\ At(HostPath(p)) # 0 /\ object[At(HostPath(p))].kind = "dir"
          /\ Empty(HostPath(p))
          /\ Renames("rmdir", [names EXCEPT ![HostPath(p)] = 0])

\* a directory takes what is below it along
Renamed(a, b) ==
    [h \in HostPaths |->
        IF h = b \/ Below(h, b) THEN At(a \o SubSeq(h, Len(b) + 1, Len(h)))
        ELSE IF h = a \/ Below(h, a) THEN 0 ELSE names[h]]

\* what a rename may take the place of: nothing, a file for a file, an empty directory
\* for a directory
Replaces(a, b) ==
    \/ Free(b)
    \/ /\ At(b) # 0 /\ At(b) # At(a)
       /\ (object[At(a)].kind = "dir") = (object[At(b)].kind = "dir")
       /\ object[At(b)].kind = "dir" => Empty(b)

\* between two names of one file the host does nothing
Rename(p, q) ==
    /\ Begin
    /\ \/ Fails("rename")
       \/ /\ At(HostPath(p)) # 0 /\ At(HostPath(p)) = At(HostPath(q))
          /\ Renames("rename", names)
       \/ /\ At(HostPath(p)) # 0 /\ Replaces(HostPath(p), HostPath(q)) /\ HasDir(HostPath(q))
          /\ ~Below(HostPath(q), HostPath(p))
          /\ Renames("rename", Renamed(HostPath(p), HostPath(q)))

Mkdir(p, u) ==
    /\ Begin
    /\ \/ Fails("mkdir")
       \/ \E o \in New :
            /\ Mapped(u) /\ Free(HostPath(p)) /\ HasDir(HostPath(p))
            /\ Makes(HostPath(p), o, "dir", u, NoLink, NoLink)
            /\ Answer("mkdir", TRUE, o, 0)
            /\ UNCHANGED <<hostFd, file, opened, moved, leaked>>

Symlink(t, p, u) ==
    /\ Begin
    /\ \/ Fails("symlink")
       \/ \E o \in New :
            /\ Mapped(u) /\ Free(HostPath(p)) /\ HasDir(HostPath(p))
            /\ Makes(HostPath(p), o, "link", u, t, StoredLink(t))
            /\ Answer("symlink", TRUE, o, 0)
            /\ UNCHANGED <<hostFd, file, opened, moved, leaked>>

\* somebody on the host makes a link, to a host path
HostLink(t, p) ==
    /\ Begin /\ \E o \in New :
         /\ t.abs /\ Free(HostPath(p)) /\ HasDir(HostPath(p))
         /\ names' = [names EXCEPT ![HostPath(p)] = o]
         /\ object' = [object EXCEPT ![o] = [kind |-> "link", uid |-> UidMap[1][2], to |-> t]]
         /\ said' = [said EXCEPT ![o] = [uid |-> UidMap[1][1], to |-> TrueLink(t)]]
         /\ Answer("host", TRUE, o, 0)
    /\ UNCHANGED <<hostFd, file, opened, moved, leaked>>

Readlink(p) ==
    /\ Begin
    /\ \/ Fails("readlink")
       \/ \E o \in {At(HostPath(p))} :
            /\ o # 0 /\ object[o].kind = "link"
            /\ Only("readlink", o, LocalLink(object[o].to))

ReleaseTree(p) == Begin /\ Fails("release_tree")

Next ==
    /\ calls < MaxCalls
    /\ \/ \E f \in Handles, p \in Locals, u \in Users : Open(f, p, u)
       \/ \E f \in Handles, p \in Locals, u \in Users : Creat(f, p, u)
       \/ \E f \in Handles : Close(f)
       \/ \E f, g \in Handles : Dup(f, g)
       \/ \E f \in Handles : Lseek(f)
       \/ \E f \in Handles : Read(f)
       \/ \E f \in Handles : Write(f)
       \/ \E f \in Handles : Pread(f)
       \/ \E f \in Handles : Pwrite(f)
       \/ \E f \in Handles : Readv(f)
       \/ \E f \in Handles : Writev(f)
       \/ \E f \in Handles : Ftruncate(f)
       \/ \E f \in Handles : Getdents(f)
       \/ \E f \in Handles : Fcntl(f)
       \/ \E f \in Handles : Fstatfs(f)
       \/ \E f \in Handles : Fdatasync(f)
       \/ \E f \in Handles : Fsync(f)
       \/ \E f \in Handles, r \in {"FIONBIO", "TIOCGWINSZ"} : Ioctl(f, r)
       \/ \E f \in Handles : TargetFd(f)
       \/ \E f \in Handles : GetEvents(f)
       \/ \E f \in Handles : Realpath(f)
       \/ \E p \in Locals, u \in Users : Stat(p, u)
       \/ \E p \in Locals, u \in Users : Lstat(p, u)
       \/ \E f \in Handles : Fstat(f)
       \/ \E p \in Locals, w \in Users \cup {Kept}, u \in Users : Chown(p, w, u)
       \/ \E p \in Locals, w \in Users \cup {Kept}, u \in Users : Lchown(p, w, u)
       \/ \E f \in Handles, w \in Users \cup {Kept}, u \in Users : Fchown(f, w, u)
       \/ \E p \in Locals, u \in Users : Chmod(p, u)
       \/ \E f \in Handles, u \in Users : Fchmod(f, u)
       \/ \E f \in Handles, u \in Users : Futimens(f, u)
       \/ \E p \in Locals : Access(p)
       \/ \E p \in Locals : Truncate(p)
       \/ \E p \in Locals : Statfs(p)
       \/ \E p, q \in Locals : Link(p, q)
       \/ \E p \in Locals : Unlink(p)
       \/ \E p \in Locals, u \in Users : Rmdir(p, u)
       \/ \E p, q \in Locals : Rename(p, q)
       \/ \E p \in Locals, u \in Users : Mkdir(p, u)
       \/ \E t \in Links, p \in Locals, u \in Users : Symlink(t, p, u)
       \/ \E h \in HostPaths, p \in Locals : HostLink([abs |-> TRUE, path |-> h], p)
       \/ \E p \in Locals : Readlink(p)
       \/ \E p \in Locals : ReleaseTree(p)

Spec == Init /\ [][Next]_vars

-----------------------------------------------------------------------------
\* Every host descriptor is held by one handle, which works on the file it was opened
\* for; the only descriptors that nobody holds are those whose number open refused.
DescriptorsHeld ==
    /\ \A f \in Handles : IsOpen(f) => hostFd[file[f].fd] = opened[f] /\ opened[f] # 0
    /\ \A f, g \in Handles : IsOpen(f) /\ IsOpen(g) /\ f # g => file[f].fd # file[g].fd
    /\ \A d \in Fds : hostFd[d] # 0 => d \in leaked \/ \E f \in Handles : file[f].fd = d
    /\ \A d \in leaked : d > TableSize

\* The path of an open file leads to it as long as no name on it is changed: openat and
\* fchdir go by that path.  The handle keeps the text (hostfs.c), so after a rename or an
\* unlink it leads elsewhere: those handles (moved) are left out, not shown right.
RealpathLeads ==
    \A f \in Handles : IsOpen(f) /\ f \notin moved =>
        Follow(HostPath(file[f].real)) = opened[f]

\* stat, through any name or descriptor, shows the owner that was given, or another id
\* that the host knows by the same number.
OwnersExact ==
    res.op = "stat" /\ res.ok => ToHost(res.n) = ToHost(said[res.o].uid)

\* readlink gives back the target that symlink was given, and of a link made by the host
\* the path below the mount; but of one whose target only begins with the text of the
\* source, a part of a name.
Garbled(o) == LET t == object[o].to
              IN t.abs /\ IsPrefix(Source, t.path) /\ LocalLink(t) # TrueLink(t)
LinksReadBack ==
    res.op = "readlink" /\ res.ok => Garbled(res.o) \/ res.n = said[res.o].to

\* A link with an absolute target leads to the file of that path below the mount, unless
\* the host made it lead outside.
LinksLead ==
    \A p \in Locals : \E o \in {At(HostPath(p))} :
        o # 0 /\ object[o].kind = "link" /\ object[o].to.abs /\ object[o].to.path \notin Outside
        => Follow(HostPath(p)) = At(HostPath(said[o].to.path))

HostFsExact == DescriptorsHeld /\ RealpathLeads /\ OwnersExact /\ LinksReadBack /\ LinksLead
=============================================================================
