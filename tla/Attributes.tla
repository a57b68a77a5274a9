----------------------------- MODULE Attributes -----------------------------
(***************************************************************************)
(* The attributes of a file and the calls that read or set them            *)
(* (kernel/ramfs.c and ext2/ext2.c: access, stat, readlink, fcntl, ioctl,  *)
(* statfs, futimens, chown, chmod, fsync; utimensat of kernel/syscall.c).  *)
(*                                                                         *)
(* A ramfs file points to its inode.  An ext2 file has a copy of it, taken *)
(* when the file was opened, that some calls refresh first and others      *)
(* write back as it is.  The calls are the same on both; fs says which one *)
(* a behaviour is about.  Who may call chown and chmod is module Ids's     *)
(* matter.                                                                 *)
(***************************************************************************)
EXTENDS Integers, FiniteSets

CONSTANTS
    Fds,           \* descriptors
    Opens,         \* open file descriptions, 1..n
    Modes,         \* modes that chmod is called with
    Times,         \* what utimensat is called with: <<access, modification>>
    TargetSize,    \* length of the link's target
    MaxTime,
    MaxCalls

VARIABLES
    fs,            \* "ramfs" or "ext2"
    member,        \* the caller is root or in the file's group
    inode,         \* the inodes as the file system has them
    fd,            \* of each descriptor: its description, or 0, and FD_CLOEXEC
    open,          \* the descriptions
    path,          \* utimensat of a path: the description it works on, or 0
    res,           \* the last call and its answer
    now, calls,
    said,          \* ghost: the attributes as the calls have set them
    odd            \* ghost: attributes that are not as they were set, and the defect

fileVars == <<inode, fd, open, path, said, odd>>
vars == <<fs, member, fileVars, res, now, calls>>

\* the file and a symbolic link to it
File == 1
Link == 2
Inodes == {File, Link}
Paths == {"file", "link", "gone"}
Fields == {"mode", "uid", "gid", "atime", "mtime"}
Keep == 0          \* an id of -1
OMIT == -1         \* UTIME_OMIT
NOW == -2          \* UTIME_NOW

Executes == {"x", "gx"}
NoOpen == [ino |-> 0, path |-> FALSE, flags |-> {}, copy |-> 0, uses |-> 0, fresh |-> TRUE]

Init ==
    /\ fs \in {"ramfs", "ext2"} /\ member \in BOOLEAN
    /\ inode = [i \in Inodes |-> [mode |-> {"r", "w"}, uid |-> 1, gid |-> 1,
                                  atime |-> 0, mtime |-> 0, ctime |-> 0]]
    /\ fd = [d \in Fds |-> [of |-> 0, cloexec |-> FALSE]]
    /\ open = [o \in Opens |-> NoOpen]
    /\ path = 0
    /\ res = [op |-> "none", of |-> 0, r |-> "ok", n |-> 0]
    /\ now = 1 /\ calls = 0
    /\ said = inode /\ odd = {}

Tick == /\ now < MaxTime /\ now' = now + 1
        /\ UNCHANGED <<fs, member, fileVars, res, calls>>

-----------------------------------------------------------------------------
Begin == calls < MaxCalls /\ calls' = calls + 1 /\ UNCHANGED <<fs, member, now>>
Answer(op, o, r) == res' = [op |-> op, of |-> o, r |-> r, n |-> 0]
Fails(op, o, r) == Answer(op, o, r) /\ UNCHANGED fileVars
Answers(op, o) == Fails(op, o, "ok")
Ram == fs = "ramfs" /\ Begin
Ext2 == fs = "ext2" /\ Begin
IsOpen(d) == fd[d].of # 0

\* the inode that a path leads to, or none
Follow(p) == IF p = "gone" THEN {} ELSE {File}
NoFollow(p) == IF p = "gone" THEN {} ELSE IF p = "link" THEN {Link} ELSE {File}

\* _update_timestamps
Stamped(n, fields) == [f \in DOMAIN n |-> IF f \in fields THEN now ELSE n[f]]

\* a call sets attributes: the ghost follows, and an earlier defect is repaired
Says(i, n, fields) ==
    /\ said' = [said EXCEPT ![i] = [f \in DOMAIN n |-> IF f \in fields THEN n[f] ELSE said[i][f]]]
    /\ odd' = odd \ {<<i, f>> : f \in fields}

\* the inode changes under the other descriptions of ext2
Stale(i, but) ==
    [o \in Opens |-> IF o # but /\ open[o].ino = i THEN [open[o] EXCEPT !.fresh = FALSE] ELSE open[o]]

\* a ramfs call changes the inode; an ext2 call by path reads, changes and writes it
SetInode(i, n, fields) ==
    /\ inode' = [inode EXCEPT ![i] = n]
    /\ open' = IF fs = "ext2" THEN Stale(i, 0) ELSE open
    /\ Says(i, n, fields)
    /\ UNCHANGED <<fd, path>>

CopyKept(o) == open[o].copy

\* ext2_read_inode into the description
Refreshed(o) == inode[open[o].ino]

\* _write_inode of a description's copy
WriteBack(o, n) ==
    /\ inode' = [inode EXCEPT ![open[o].ino] = n]
    /\ open' = [Stale(open[o].ino, o) EXCEPT ![o].copy = n, ![o].fresh = TRUE]
    /\ UNCHANGED <<fd, path>>

\* what is written back over attributes that were set since, and is not set by the call
Undone(o, n, fields) ==
    {<<open[o].ino, f>> : f \in {g \in Fields \ fields : n[g] # said[open[o].ino][g]}}

-----------------------------------------------------------------------------
\* fs_open of an existing file: the ext2 description takes a copy of the inode
Opened(o, i, pathOnly) ==
    open' = [open EXCEPT ![o] = [ino |-> i, path |-> pathOnly, flags |-> {},
                                 copy |-> IF fs = "ext2" THEN inode[i] ELSE 0,
                                 uses |-> 1, fresh |-> TRUE]]
NewOpen == {o \in Opens : open[o].uses = 0 /\ \A q \in Opens : open[q].uses = 0 => o <= q}

Open(d, pathOnly) ==
    /\ Begin /\ ~IsOpen(d)
    /\ \E o \in NewOpen :
          /\ Opened(o, File, pathOnly)
          /\ fd' = [fd EXCEPT ![d] = [of |-> o, cloexec |-> FALSE]]
          /\ Answer("open", o, "ok")
    /\ UNCHANGED <<inode, path, said, odd>>

ClosedFirst(o) == [open EXCEPT ![o] = NoOpen]

\* the last close of a description frees it
Closed(o) == [open EXCEPT ![o] = IF @.uses = 1 THEN NoOpen ELSE [@ EXCEPT !.uses = @ - 1]]

\* _fs_close of ramfs: the last close of a description is an access of the file
Accessed(o) ==
    \E i \in {open[o].ino} :
        /\ inode' = [inode EXCEPT ![i] = Stamped(@, {"atime"})]
        /\ Says(i, inode'[i], {"atime"})

Close(d) ==
    /\ Begin /\ IsOpen(d)
    /\ IF fs = "ramfs" /\ open[fd[d].of].uses = 1 THEN Accessed(fd[d].of)
       ELSE UNCHANGED <<inode, said, odd>>
    /\ open' = Closed(fd[d].of)
    /\ fd' = [fd EXCEPT ![d] = [of |-> 0, cloexec |-> FALSE]]
    /\ Answer("close", fd[d].of, "ok")
    /\ UNCHANGED path

\* _fs_dup and _ext2_dup
Dup(d, e) ==
    /\ Begin /\ IsOpen(d) /\ ~IsOpen(e)
    /\ fd' = [fd EXCEPT ![e] = [of |-> fd[d].of, cloexec |-> FALSE]]
    /\ open' = [open EXCEPT ![fd[d].of].uses = @ + 1]
    /\ Answer("dup", fd[d].of, "ok")
    /\ UNCHANGED <<inode, path, said, odd>>

\* a read brings the copy up to date
Ext2Read(d) ==
    /\ Ext2 /\ IsOpen(d)
    /\ \E o \in {fd[d].of} :
         IF open[o].path THEN Fails("read", o, "ebadf")
         ELSE /\ open' = [open EXCEPT ![o].copy = Refreshed(o), ![o].fresh = TRUE]
              /\ Answer("read", o, "ok")
              /\ UNCHANGED <<inode, fd, path, said, odd>>

-----------------------------------------------------------------------------
(***************************************************************************)
(* Calls that only ask                                                     *)
(***************************************************************************)
\* the bits of the owner decide, whoever asks
Granted(i, asked) == asked \subseteq inode[i].mode

\* _fs_access of ramfs counts as an access when it looks at the bits
RamAccess(p, asked) ==
    /\ Ram
    /\ \/ Follow(p) = {} /\ Fails("access", 0, "enoent")
       \/ \E i \in Follow(p) :
            IF ~Granted(i, asked) THEN Fails("access", 0, "eacces")
            ELSE IF asked = {} THEN Answers("access", 0)
            ELSE /\ inode' = [inode EXCEPT ![i] = Stamped(@, {"atime"})]
                 /\ Says(i, inode'[i], {"atime"})
                 /\ Answer("access", 0, "ok")
                 /\ UNCHANGED <<fd, open, path>>

Ext2Access(p, asked) ==
    /\ Ext2
    /\ \/ Follow(p) = {} /\ Fails("access", 0, "enoent")
       \/ \E i \in Follow(p) :
            Fails("access", 0, IF Granted(i, asked) THEN "ok" ELSE "eacces")

Shown(op, o, n) == /\ res' = [op |-> op, of |-> o, r |-> "ok", n |-> n]
                   /\ UNCHANGED fileVars

\* _fs_stat, _fs_lstat and _fs_fstat of ramfs (_stat)
RamStat(p) == Ram /\ \/ Follow(p) = {} /\ Fails("stat", 0, "enoent")
                     \/ \E i \in Follow(p) : Shown("stat", 0, inode[i])
RamLstat(p) == Ram /\ \/ NoFollow(p) = {} /\ Fails("stat", 0, "enoent")
                      \/ \E i \in NoFollow(p) : Shown("stat", 0, inode[i])
RamFstat(d) == Ram /\ IsOpen(d) /\ Shown("fstat", fd[d].of, inode[open[fd[d].of].ino])

\* ext2_stat and ext2_lstat read the inode; ext2_fstat shows the copy
Ext2Stat(p) == Ext2 /\ \/ Follow(p) = {} /\ Fails("stat", 0, "enoent")
                       \/ \E i \in Follow(p) : Shown("stat", 0, inode[i])
Ext2Lstat(p) == Ext2 /\ \/ NoFollow(p) = {} /\ Fails("stat", 0, "enoent")
                        \/ \E i \in NoFollow(p) : Shown("stat", 0, inode[i])
Ext2Fstat(d) == Ext2 /\ IsOpen(d) /\ Shown("fstat", fd[d].of, open[fd[d].of].copy)

\* _fs_readlink of ramfs returns what strlcpy does, the length of the whole target
RamReadlink(p, size) ==
    /\ Ram
    /\ \/ NoFollow(p) = {} /\ Fails("readlink", 0, "enoent")
       \/ NoFollow(p) = {File} /\ Fails("readlink", 0, "einval")
       \/ /\ NoFollow(p) = {Link}
          /\ inode' = [inode EXCEPT ![Link] = Stamped(@, {"atime"})]
          /\ Says(Link, inode'[Link], {"atime"})
          /\ res' = [op |-> "readlink", of |-> 0, r |-> "ok", n |-> TargetSize]
          /\ UNCHANGED <<fd, open, path>>

\* ext2_readlink
Ext2Readlink(p, size) ==
    /\ Ext2
    /\ \/ NoFollow(p) = {} /\ Fails("readlink", 0, "enoent")
       \/ NoFollow(p) = {File} /\ Fails("readlink", 0, "einval")
       \/ /\ NoFollow(p) = {Link}
          /\ Shown("readlink", 0, IF size < TargetSize THEN size ELSE TargetSize)

\* the path of statfs must lead to something; fstatfs answers any file
RamStatfs(p) == Ram /\ Fails("statfs", 0, IF Follow(p) = {} THEN "enoent" ELSE "ok")
Ext2Statfs(p) == Ext2 /\ Fails("statfs", 0, IF Follow(p) = {} THEN "enoent" ELSE "ok")

\* nothing is buffered
RamFsync(d) == Ram /\ IsOpen(d) /\ \E o \in {fd[d].of} :
                   Fails("fsync", o, IF open[o].path THEN "ebadf" ELSE "ok")
Ext2Fsync(d) == Ext2 /\ IsOpen(d) /\ \E o \in {fd[d].of} :
                   Fails("fsync", o, IF open[o].path THEN "ebadf" ELSE "ok")

-----------------------------------------------------------------------------
(***************************************************************************)
(* Flags                                                                   *)
(***************************************************************************)
\* _set_fd_flag of ramfs
RamFdFlag(d, set) ==
    /\ \E i \in {open[fd[d].of].ino} : inode' = [inode EXCEPT ![i] = Stamped(@, {"ctime"})]
    /\ fd' = [fd EXCEPT ![d].cloexec = set]
    /\ UNCHANGED <<open, path, said, odd>>

RamSetFd(d, set) == Ram /\ IsOpen(d) /\ RamFdFlag(d, set) /\ Answer("setfd", fd[d].of, "ok")

\* _set_fd_flag of ext2 writes the copy back with it
Ext2FdFlag(d, set) ==
    /\ \E o \in {fd[d].of} : \E n \in {Stamped(open[o].copy, {"ctime"})} :
         /\ inode' = [inode EXCEPT ![open[o].ino] = n]
         /\ open' = [Stale(open[o].ino, o) EXCEPT ![o].copy = n, ![o].fresh = TRUE]
         /\ odd' = odd \cup (IF open[o].fresh THEN {} ELSE Undone(o, n, {}))
    /\ fd' = [fd EXCEPT ![d].cloexec = set]
    /\ UNCHANGED <<path, said>>

Ext2SetFd(d, set) == Ext2 /\ IsOpen(d) /\ Ext2FdFlag(d, set) /\ Answer("setfd", fd[d].of, "ok")

\* F_SETFL only adds flags
SetFl(d, flags) ==
    /\ Begin /\ IsOpen(d)
    /\ open' = [open EXCEPT ![fd[d].of].flags = @ \cup (flags \cap {"append", "nonblock", "direct", "noatime"})]
    /\ Answer("setfl", fd[d].of, "ok")
    /\ UNCHANGED <<inode, fd, path, said, odd>>

\* FIONBIO
NonBlock(o, on) ==
    /\ open' = [open EXCEPT ![o].flags = IF on THEN @ \cup {"nonblock"} ELSE @ \ {"nonblock"}]
    /\ UNCHANGED <<inode, fd, path, said, odd>>

Requests == {"FIOCLEX", "FIONCLEX", "FIONBIO on", "FIONBIO off", "FIONBIO null",
             "TIOCGWINSZ", "TCGETS", "other"}

\* _fs_ioctl of a file that is no terminal
RamIoctl(d, request) ==
    /\ Ram /\ IsOpen(d)
    /\ \E o \in {fd[d].of} :
         \/ open[o].path /\ Fails("ioctl", o, "ebadf")
         \/ /\ ~open[o].path
            /\ \/ /\ request \in {"FIOCLEX", "FIONCLEX"}
                  /\ RamFdFlag(d, request = "FIOCLEX") /\ Answer("ioctl", o, "ok")
               \/ /\ request \in {"FIONBIO on", "FIONBIO off"}
                  /\ NonBlock(o, request = "FIONBIO on") /\ Answer("ioctl", o, "ok")
               \/ request \in {"FIONBIO null", "TIOCGWINSZ"} /\ Fails("ioctl", o, "einval")
               \/ request = "TCGETS" /\ Fails("ioctl", o, "enotty")
               \/ request = "other" /\ Fails("ioctl", o, "enotsup")

\* _ext2_ioctl
Ext2Ioctl(d, request) ==
    /\ Ext2 /\ IsOpen(d)
    /\ \E o \in {fd[d].of} :
         \/ open[o].path /\ Fails("ioctl", o, "ebadf")
         \/ /\ ~open[o].path
            /\ \/ /\ request \in {"FIOCLEX", "FIONCLEX"}
                  /\ Ext2FdFlag(d, request = "FIOCLEX") /\ Answer("ioctl", o, "ok")
               \/ /\ request \in {"FIONBIO on", "FIONBIO off"}
                  /\ NonBlock(o, request = "FIONBIO on") /\ Answer("ioctl", o, "ok")
               \/ request \in {"FIONBIO null", "TIOCGWINSZ"} /\ Fails("ioctl", o, "einval")
               \/ request \in {"TCGETS", "other"} /\ Fails("ioctl", o, "enotsup")

-----------------------------------------------------------------------------
(***************************************************************************)
(* Owner and mode                                                          *)
(***************************************************************************)
\* _chown: an executable loses its set-id bits, the group's only if the group executes
Owned(n, u, g) ==
    [Stamped(n, {"ctime"}) EXCEPT
        !.uid = IF u = Keep THEN @ ELSE u,
        !.gid = IF g = Keep THEN @ ELSE g,
        !.mode = @ \ ((IF @ \cap Executes # {} THEN {"suid"} ELSE {})
                      \cup (IF "gx" \in @ THEN {"sgid"} ELSE {}))]

\* _chmod: the group bit is not for those outside the group
Moded(n, m) == [Stamped(n, {"ctime"}) EXCEPT !.mode = IF member THEN m ELSE m \ {"sgid"}]

OwnerFields == {"uid", "gid", "mode"}

RamChown(p, u, g) ==
    Ram /\ \/ Follow(p) = {} /\ Fails("chown", 0, "enoent")
           \/ \E i \in Follow(p) :
                SetInode(i, Owned(inode[i], u, g), OwnerFields) /\ Answer("chown", 0, "ok")

RamLchown(p, u, g) ==
    Ram /\ \/ NoFollow(p) = {} /\ Fails("chown", 0, "enoent")
           \/ NoFollow(p) = {File} /\ Fails("chown", 0, "enotdir")
           \/ /\ NoFollow(p) = {Link}
              /\ SetInode(Link, Owned(inode[Link], u, g), OwnerFields) /\ Answer("chown", 0, "ok")

RamChmod(p, m) ==
    Ram /\ \/ Follow(p) = {} /\ Fails("chmod", 0, "enoent")
           \/ \E i \in Follow(p) :
                SetInode(i, Moded(inode[i], m), {"mode"}) /\ Answer("chmod", 0, "ok")

\* fchown and fchmod refuse a description that is only a path
RamFchown(d, u, g) ==
    /\ Ram /\ IsOpen(d)
    /\ \E o \in {fd[d].of} : \E i \in {open[o].ino} :
         IF open[o].path THEN Fails("fchown", o, "ebadf")
         ELSE SetInode(i, Owned(inode[i], u, g), OwnerFields) /\ Answer("fchown", o, "ok")

RamFchmod(d, m) ==
    /\ Ram /\ IsOpen(d)
    /\ \E o \in {fd[d].of} : \E i \in {open[o].ino} :
         IF open[o].path THEN Fails("fchmod", o, "ebadf")
         ELSE SetInode(i, Moded(inode[i], m), {"mode"}) /\ Answer("fchmod", o, "ok")

Ext2Chown(p, u, g) ==
    Ext2 /\ \/ Follow(p) = {} /\ Fails("chown", 0, "enoent")
            \/ \E i \in Follow(p) :
                 SetInode(i, Owned(inode[i], u, g), OwnerFields) /\ Answer("chown", 0, "ok")

\* lchown of ext2 takes any file
Ext2Lchown(p, u, g) ==
    Ext2 /\ \/ NoFollow(p) = {} /\ Fails("chown", 0, "enoent")
            \/ \E i \in NoFollow(p) :
                 SetInode(i, Owned(inode[i], u, g), OwnerFields) /\ Answer("chown", 0, "ok")

Ext2Chmod(p, m) ==
    Ext2 /\ \/ Follow(p) = {} /\ Fails("chmod", 0, "enoent")
            \/ \E i \in Follow(p) :
                 SetInode(i, Moded(inode[i], m), {"mode"}) /\ Answer("chmod", 0, "ok")

\* the copy is refreshed, changed and written
Ext2Fchown(d, u, g) ==
    /\ Ext2 /\ IsOpen(d)
    /\ \E o \in {fd[d].of} :
         IF open[o].path THEN Fails("fchown", o, "ebadf")
         ELSE \E n \in {Owned(Refreshed(o), u, g)} :
                WriteBack(o, n) /\ Says(open[o].ino, n, OwnerFields) /\ Answer("fchown", o, "ok")

Ext2Fchmod(d, m) ==
    /\ Ext2 /\ IsOpen(d)
    /\ \E o \in {fd[d].of} :
         IF open[o].path THEN Fails("fchmod", o, "ebadf")
         ELSE \E n \in {Moded(Refreshed(o), m)} :
                WriteBack(o, n) /\ Says(open[o].ino, n, {"mode"}) /\ Answer("fchmod", o, "ok")

-----------------------------------------------------------------------------
(***************************************************************************)
(* Times                                                                   *)
(***************************************************************************)
Given(t, old) == IF t = OMIT THEN old ELSE IF t = NOW THEN now ELSE t
Asked(n, ts) == [n EXCEPT !.atime = Given(ts[1], @), !.mtime = Given(ts[2], @)]
TimeFields(ts) == {f \in {"atime", "mtime"} : ts[IF f = "atime" THEN 1 ELSE 2] # OMIT}

\* _fs_futimens of ramfs: a modification time that is given goes to the access time
RamTimed(n, ts) ==
    IF ts[2] \in {OMIT, NOW} THEN Asked(n, ts) ELSE [n EXCEPT !.atime = ts[2]]

\* the call, and the fields that a close right after it stamps
RamFutimensOf(o, ts, stamped) ==
    \E i \in {open[o].ino} :
        /\ inode' = [inode EXCEPT ![i] = Stamped(RamTimed(@, ts), stamped)]
        /\ said' = [said EXCEPT ![i] = Stamped(Asked(@, ts), stamped)]
        /\ odd' = (IF ts[2] \in {OMIT, NOW} THEN odd \ {<<i, f>> : f \in TimeFields(ts)}
                   ELSE odd \cup {<<i, "atime">>, <<i, "mtime">>})
                  \ {<<i, f>> : f \in stamped}

\* _ext2_futimens: the copy is changed and written as it is
Ext2FutimensOf(o, ts) ==
    \E i \in {open[o].ino}, n \in {Asked(open[o].copy, ts)} :
        /\ inode' = [inode EXCEPT ![i] = n]
        /\ said' = [said EXCEPT ![i] = [f \in DOMAIN n |-> IF f \in TimeFields(ts) THEN n[f]
                                                           ELSE said[i][f]]]
        /\ odd' = (odd \ {<<i, f>> : f \in TimeFields(ts)})
                  \cup (IF open[o].fresh THEN {} ELSE Undone(o, n, TimeFields(ts)))

RamFutimens(d, ts) ==
    /\ Ram /\ IsOpen(d)
    /\ RamFutimensOf(fd[d].of, ts, {}) /\ Answer("utimens", fd[d].of, "ok")
    /\ UNCHANGED <<fd, open, path>>

Ext2Futimens(d, ts) ==
    /\ Ext2 /\ IsOpen(d)
    /\ \E o \in {fd[d].of} :
         /\ Ext2FutimensOf(o, ts) /\ Answer("utimens", o, "ok")
         /\ open' = [Stale(open[o].ino, o) EXCEPT ![o].copy = inode'[open[o].ino], ![o].fresh = TRUE]
    /\ UNCHANGED <<fd, path>>

\* myst_syscall_utimensat of a path opens the file, sets the times and closes it; other
\* calls may come in between.  AT_SYMLINK_NOFOLLOW becomes O_NOFOLLOW, with which a link
\* cannot be opened.
Utimensat(p, nofollow) ==
    /\ Begin /\ path = 0
    /\ \/ Follow(p) = {} /\ Fails("utimensat", 0, "enoent")
       \/ nofollow /\ NoFollow(p) = {Link} /\ Fails("utimensat", 0, "eloop")
       \/ \E i \in Follow(p), o \in NewOpen :
            /\ nofollow => NoFollow(p) = {i}
            /\ Opened(o, i, FALSE) /\ path' = o
            /\ Answer("utimensat", o, "ok")
            /\ UNCHANGED <<inode, fd, said, odd>>

UtimensatSets(ts) ==
    /\ path # 0
    /\ IF fs = "ramfs"
         THEN RamFutimensOf(path, ts, {"atime"}) /\ open' = Closed(path)
         ELSE /\ Ext2FutimensOf(path, ts)
              /\ open' = [Stale(open[path].ino, path) EXCEPT ![path] = NoOpen]
    /\ Answer("utimens", path, "ok") /\ path' = 0
    /\ UNCHANGED <<fs, member, fd, now, calls>>

-----------------------------------------------------------------------------
Asks == {{}, {"r"}, {"w", "x"}}

Next ==
    \/ Tick
    \/ \E ts \in Times : UtimensatSets(ts)
    \/ /\ calls < MaxCalls
       /\ \/ \E d \in Fds, b \in BOOLEAN : Open(d, b)
          \/ \E d \in Fds : Close(d)
          \/ \E d, e \in Fds : Dup(d, e)
          \/ \E d \in Fds : Ext2Read(d)
          \/ \E p \in Paths, a \in Asks : RamAccess(p, a)
          \/ \E p \in Paths, a \in Asks : Ext2Access(p, a)
          \/ \E p \in Paths : RamStat(p)
          \/ \E p \in Paths : RamLstat(p)
          \/ \E d \in Fds : RamFstat(d)
          \/ \E p \in Paths : Ext2Stat(p)
          \/ \E p \in Paths : Ext2Lstat(p)
          \/ \E d \in Fds : Ext2Fstat(d)
          \/ \E p \in Paths, n \in {1, TargetSize} : RamReadlink(p, n)
          \/ \E p \in Paths, n \in {1, TargetSize} : Ext2Readlink(p, n)
          \/ \E p \in Paths : RamStatfs(p)
          \/ \E p \in Paths : Ext2Statfs(p)
          \/ \E d \in Fds : RamFsync(d)
          \/ \E d \in Fds : Ext2Fsync(d)
          \/ \E d \in Fds, b \in BOOLEAN : RamSetFd(d, b)
          \/ \E d \in Fds, b \in BOOLEAN : Ext2SetFd(d, b)
          \/ \E d \in Fds, f \in {{}, {"append", "sync"}} : SetFl(d, f)
          \/ \E d \in Fds, r \in Requests : RamIoctl(d, r)
          \/ \E d \in Fds, r \in Requests : Ext2Ioctl(d, r)
          \/ \E p \in Paths, u, g \in {2, Keep} : RamChown(p, u, g)
          \/ \E p \in Paths, u, g \in {2, Keep} : RamLchown(p, u, g)
          \/ \E p \in Paths, m \in Modes : RamChmod(p, m)
          \/ \E d \in Fds, u, g \in {2, Keep} : RamFchown(d, u, g)
          \/ \E d \in Fds, m \in Modes : RamFchmod(d, m)
          \/ \E p \in Paths, u, g \in {2, Keep} : Ext2Chown(p, u, g)
          \/ \E p \in Paths, u, g \in {2, Keep} : Ext2Lchown(p, u, g)
          \/ \E p \in Paths, m \in Modes : Ext2Chmod(p, m)
          \/ \E d \in Fds, u, g \in {2, Keep} : Ext2Fchown(d, u, g)
          \/ \E d \in Fds, m \in Modes : Ext2Fchmod(d, m)
          \/ \E d \in Fds, ts \in Times : RamFutimens(d, ts)
          \/ \E d \in Fds, ts \in Times : Ext2Futimens(d, ts)
          \/ \E p \in Paths, b \in BOOLEAN : Utimensat(p, b)

Spec == Init /\ [][Next]_vars

-----------------------------------------------------------------------------
\* Mode, owner and times are what the last call that set them said, through whichever
\* path or descriptor.  On ramfs access(), readlink and the last close of a description
\* set the access time too, so that utimensat of a path always leaves the present time
\* there.  Two defects of the code are left out (odd), each until the attribute is set
\* again: ramfs puts a given modification time into the access time, and ext2 undoes what
\* was set since the description's copy was taken when futimens or FD_CLOEXEC writes the
\* copy back.
AttributesSaid ==
    \A i \in Inodes, f \in Fields : <<i, f>> \notin odd => inode[i][f] = said[i][f]

\* fstat shows what stat shows, unless an ext2 description has an old copy; a copy is
\* old only if another call has changed the inode since.
FstatAgrees ==
    \A o \in Opens : fs = "ext2" /\ open[o].uses > 0 /\ open[o].fresh =>
                        open[o].copy = inode[open[o].ino]

\* The use count of a description is the number of its descriptors and of the calls that
\* work on it.
UsesExact ==
    \A o \in Opens : open[o].uses =
        Cardinality({d \in Fds : fd[d].of = o}) + (IF path = o THEN 1 ELSE 0)

\* A description that is only a path changes neither the mode nor the owner of the file,
\* unless it is an old copy that is written back.
PathOnlyStep ==
    /\ res'.of # 0 /\ open[res'.of].path /\ open[res'.of].fresh
    /\ res'.op \in {"fchown", "fchmod", "setfd", "utimens", "ioctl"}
    => \A i \in Inodes, f \in {"mode", "uid", "gid"} : inode'[i][f] = inode[i][f]

AttributesState == AttributesSaid /\ FstatAgrees /\ UsesExact
AttributesStep == PathOnlyStep /\ AttributesState'
AttributesExact == [][AttributesStep]_vars
=============================================================================
