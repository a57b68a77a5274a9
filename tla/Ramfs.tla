------------------------------- MODULE Ramfs -------------------------------
(***************************************************************************)
(* The name space of the memory file system (kernel/ramfs.c), with the     *)
(* lock every operation runs under (kernel/lockfs.c): directories, hard    *)
(* and symbolic links, open files and the lifetime of inodes.              *)
(*                                                                         *)
(* A path is the sequence of its names.  An absolute symbolic link hands   *)
(* the whole operation over to the file system its target lies in, here    *)
(* the same one, with the rest of the path appended; a relative one is     *)
(* followed in place.  A file system that an operation has damaged (a use  *)
(* of a null pointer, an entry written into something that is not a        *)
(* directory, an inode freed while it is referred to) is not followed      *)
(* further: broken says what happened.                                     *)
(***************************************************************************)
EXTENDS Integers, Sequences, FiniteSets, SequencesExt

CONSTANTS Names,        \* file names
          MaxInodes,    \* inodes 1..MaxInodes; 1 is the root
          Files,        \* myst_file_t objects
          Shareds,      \* myst_file_shared_t objects
          None,
          MaxOps        \* bound on operations

Inodes == 1..MaxInodes
Root == 1
Kinds == {"free", "reg", "dir", "lnk"}
Paths == {<<n>> : n \in Names} \cup {<<n, m>> : n \in Names, m \in Names}
Targets == [abs : {TRUE}, path : Paths] \cup [abs : {FALSE}, path : {<<n>> : n \in Names}]

VARIABLES
    kind,      \* the type of each inode; "free" if it is not allocated
    ents,      \* directory entries without "." and "..", in the order of the buffer
    target,    \* the target of a symbolic link
    nlink, nopens,
    shared,    \* the open file description of each myst_file_t, None if unused
    desc,      \* inode and use count of each open file description
    ninodes,   \* the count of inodes that must be 0 when the file system is released
    failed,    \* inodes that were freed before they were counted
    broken,
    ops

inodeVars == <<kind, ents, target, nlink, ninodes, failed>>
fileVars == <<shared, desc, nopens>>
vars == <<inodeVars, fileVars, broken, ops>>

NoTarget == [abs |-> FALSE, path |-> <<>>]
Closed == [ino |-> None, use |-> 0]

\* _init_ramfs
Init ==
    /\ kind = [i \in Inodes |-> IF i = Root THEN "dir" ELSE "free"]
    /\ ents = [i \in Inodes |-> <<>>]
    /\ target = [i \in Inodes |-> NoTarget]
    /\ nlink = [i \in Inodes |-> IF i = Root THEN 2 ELSE 0]
    /\ nopens = [i \in Inodes |-> 0]
    /\ shared = [f \in Files |-> None]
    /\ desc = [s \in Shareds |-> Closed]
    /\ ninodes = 1 /\ failed = 0
    /\ broken = {} /\ ops = 0

-----------------------------------------------------------------------------
(***************************************************************************)
(* Looking up a path                                                       *)
(***************************************************************************)
\* _inode_find_child: the first entry with the name
Child(d, n) ==
    LET hits == {j \in DOMAIN ents[d] : ents[d][j].name = n}
    IN  IF hits = {} THEN None ELSE ents[d][CHOOSE j \in hits : \A k \in hits : j <= k].ino

\* absolute links of a search that may not be handed over are followed from the root,
\* and a link whose target is the path itself is taken as it is
Loops(c, p, within) == target[c] = p /\ (within \/ ~p.abs)

\* a search: how it stands, the inode and its directory, and the path to go on with
At(i, d) == [st |-> "ok", at |-> i, dir |-> d, to |-> <<>>]

\* what a search makes of the one below it for a link: one that ended at an absolute
\* link has left it without an inode
Resume(w, v) ==
    CASE v.st = "ok" -> At(v.at, v.dir)
      [] v.st = "link" -> [w EXCEPT !.at = None]
      [] OTHER -> [w EXCEPT !.st = v.st]

\* _path_to_inode_recursive, for the path p from directory d.  An absolute link ends the
\* search with the path to hand over (or, within, goes on from the root); a relative one
\* is searched for in the directory it is in.  deep searches below each other are as
\* many as there are links: more never end.
RECURSIVE Search(_, _, _, _)
Search(d, p, within, deep) ==
    LET Token(w, n) ==
            CASE w.st = "link" -> [w EXCEPT !.to = Append(@, n)]
              [] w.st \notin {"ok", "link"} -> w
              [] w.st = "ok" /\ w.at = None -> [w EXCEPT !.st = "null"]
              [] OTHER ->
                 IF kind[w.at] # "dir" THEN [w EXCEPT !.st = "ENOTDIR"]
                 ELSE LET c == Child(w.at, n) IN
                      CASE c = None -> [w EXCEPT !.st = "ENOENT"]
                        [] c # None /\ (kind[c] # "lnk" \/ Loops(c, p, within)) -> At(c, w.at)
                        [] OTHER ->
                           IF target[c].abs /\ ~within
                           THEN [w EXCEPT !.st = "link", !.to = target[c].path]
                           ELSE IF deep = 0 THEN [w EXCEPT !.st = "endless"]
                           ELSE Resume(w, Search(IF target[c].abs THEN Root ELSE w.at,
                                                 target[c], within, deep - 1))
        after[k \in 0..Len(p.path)] ==
            IF k = 0 THEN At(d, d) ELSE Token(after[k - 1], p.path[k])
        end == after[Len(p.path)]
    IN  IF end.st = "ok" /\ end.at = None THEN [end EXCEPT !.st = "ENOENT"] ELSE end

Absolute(p) == [abs |-> TRUE, path |-> p]
WalkDir(p) == Search(Root, Absolute(p), FALSE, 2 * MaxInodes)

\* the search that finds the real path of an open file
RealWalk(p) == Search(Root, Absolute(p), TRUE, 2 * MaxInodes)

\* _path_to_inode: the last token is followed only on request
Walk(p, follow) ==
    LET parent == WalkDir(Front(p))
        here == parent.st = "ok" /\ kind[parent.at] = "dir" /\ Child(parent.at, Last(p)) # None
    IN  IF p = <<>> \/ follow \/ ~here THEN WalkDir(p)
        ELSE At(Child(parent.at, Last(p)), parent.at)

\* the path that an operation is handed over with, if its own ends in a link
Handed(p, follow) ==
    LET to(w) == IF w.st = "link" THEN w.to ELSE p IN to(Walk(p, follow))

\* as often as there are absolute links
Final(p, follow) ==
    LET after[k \in 0..MaxInodes] == IF k = 0 THEN p ELSE Handed(after[k - 1], follow)
    IN  after[MaxInodes]

\* for operations that make or move a name, the directory part is resolved first
FinalDir(p) == Append(Final(Front(p), TRUE), Last(p))

\* rename appends the old name once more to a path that already ends in it
RenameHanded(p) ==
    LET to(w) == IF w.st = "link" THEN Append(w.to, Last(p)) ELSE p IN to(Walk(p, FALSE))
RenameFinal(p) == RenameHanded(RenameHanded(p))

-----------------------------------------------------------------------------
MayOp == ops < MaxOps /\ broken = {}
Free == {i \in Inodes : kind[i] = "free"}

Entry(n, i) == [name |-> n, ino |-> i]
Without(d, n) ==
    LET j == CHOOSE k \in DOMAIN ents[d] :
                 ents[d][k].name = n /\ \A m \in 1..(k - 1) : ents[d][m].name # n
    IN  RemoveAt(ents[d], j)

\* _inode_new: the entry in the parent, and the links of "." and ".."
NewInode(i, k, d, n, t) ==
    /\ kind' = [kind EXCEPT ![i] = k]
    /\ target' = [target EXCEPT ![i] = t]
    /\ ents' = [ents EXCEPT ![d] = Append(@, Entry(n, i)), ![i] = <<>>]
    /\ nlink' = [j \in Inodes |->
                    CASE j = i -> IF k = "dir" THEN 2 ELSE 1
                      [] j = d /\ j # i /\ k = "dir" -> nlink[j] + 1
                      [] OTHER -> nlink[j]]
    /\ ninodes' = ninodes + 1 /\ failed' = failed

NextInode == CHOOSE i \in Free : \A j \in Free : i <= j

\* _inode_free of a set of inodes
Freed(S) ==
    /\ kind' = [i \in Inodes |-> IF i \in S THEN "free" ELSE kind[i]]
    /\ target' = [i \in Inodes |-> IF i \in S THEN NoTarget ELSE target[i]]
    /\ ninodes' = ninodes - Cardinality(S) /\ failed' = failed

\* the entry cannot be added (a name too long, no memory): the new inode is freed, and
\* with it goes one that was not counted yet
NewFails ==
    /\ ninodes' = ninodes - 1 /\ failed' = failed + 1
    /\ UNCHANGED <<kind, ents, target, nlink, fileVars, broken>>

Damage(why) == broken' = {why} /\ UNCHANGED <<inodeVars, fileVars>>

-----------------------------------------------------------------------------
\* calloc of the two objects
FilesLeft == (\E f \in Files : shared[f] = None) /\ (\E s \in Shareds : desc[s] = Closed)
FreeFile == CHOOSE f \in Files : shared[f] = None
FreeShared == CHOOSE s \in Shareds : desc[s] = Closed

\* mutant: only the first description of an inode is counted
OpenCountedOnce(i) ==
    LET f == FreeFile  s == FreeShared
    IN  /\ FilesLeft
        /\ shared' = [shared EXCEPT ![f] = s]
        /\ desc' = [desc EXCEPT ![s] = [ino |-> i, use |-> 1]]
        /\ nopens' = [nopens EXCEPT ![i] = 1]

\* the end of _fs_open: a new description and a new file object for inode i
OpenFile(i) ==
    LET f == FreeFile  s == FreeShared
    IN  /\ FilesLeft
        /\ shared' = [shared EXCEPT ![f] = s]
        /\ desc' = [desc EXCEPT ![s] = [ino |-> i, use |-> 1]]
        /\ nopens' = [nopens EXCEPT ![i] = @ + 1]

\* _fs_open of something that exists: O_TRUNC clears the buffer, also the entries
\* of a directory; a link to itself is opened as if it were a file
OpenOld(p, trunc, follow) ==
    \E q \in {Final(p, follow)} : \E w \in {Walk(q, follow)} :
        /\ w.st = "ok"
        /\ kind[w.at] = "lnk" => follow
        /\ IF trunc /\ kind[w.at] # "reg" THEN Damage("directory or link truncated")
           ELSE OpenFile(w.at) /\ UNCHANGED <<inodeVars, broken>>
        /\ ops' = ops + 1

\* _fs_open with O_PATH and O_NOFOLLOW of a symbolic link: the search for the real path
\* follows it all the same, and the inode it finds is the one that is opened
OpenLink(p) ==
    \E q \in {Final(p, FALSE)} : \E w \in {Walk(q, FALSE)}, r \in {RealWalk(q)} :
        /\ w.st = "ok" /\ kind[w.at] = "lnk"
        /\ r.st \notin {"ENOENT", "ENOTDIR"}
        /\ IF r.st = "ok" THEN OpenFile(r.at) /\ UNCHANGED <<inodeVars, broken>>
           ELSE Damage("lookup")
        /\ ops' = ops + 1

\* any operation on a path whose links lead to each other, or through a relative link to
\* an absolute one before the last name: the stack ends, or a null pointer is followed
LookupFails(p, follow) ==
    /\ Walk(Final(p, follow), follow).st \in {"link", "endless", "null"}
    /\ Damage("lookup")
    /\ ops' = ops + 1

\* _fs_open of a path through something that is not a directory: ERAISE(-errnum) has
\* the wrong sign, and the open goes on without an inode
OpenThroughFile(p) ==
    /\ Walk(Final(p, TRUE), TRUE).st = "ENOTDIR"
    /\ Damage("null inode")
    /\ ops' = ops + 1

\* _fs_open with O_CREAT of something that does not exist; at a relative link that
\* leads nowhere the new entry has the name of the link
OpenNew(p) ==
    \E q \in {Final(p, TRUE)} \ {<<>>} : \E d \in {WalkDir(Front(q))} :
        /\ Free # {}
        /\ Walk(q, TRUE).st = "ENOENT" /\ d.st = "ok"
        /\ IF Child(d.at, Last(q)) # None THEN Damage("second entry of a name")
           ELSE \/ /\ NewInode(NextInode, "reg", d.at, Last(q), NoTarget)
                   /\ OpenFile(NextInode)
                   /\ UNCHANGED broken
                \/ NewFails
        /\ ops' = ops + 1

\* _fs_dup
Dup(f) ==
    /\ shared[f] # None /\ \E g \in Files : shared[g] = None
    /\ shared' = [shared EXCEPT ![FreeFile] = shared[f]]
    /\ desc' = [desc EXCEPT ![shared[f]].use = @ + 1]
    /\ ops' = ops + 1
    /\ UNCHANGED <<inodeVars, nopens, broken>>

\* _fs_close: the last file object of a description ends it; the last description
\* of an inode without links frees it
Close(f) ==
    LET s == shared[f]
        i == desc[s].ino
        last == desc[s].use = 1
    IN  /\ s # None
        /\ shared' = [shared EXCEPT ![f] = None]
        /\ desc' = [desc EXCEPT ![s] = IF last THEN Closed ELSE [@ EXCEPT !.use = @ - 1]]
        /\ nopens' = [nopens EXCEPT ![i] = IF last THEN @ - 1 ELSE @]
        /\ UNCHANGED <<ents, nlink, broken>>
        /\ Freed(IF last /\ nopens[i] = 1 /\ nlink[i] = 0 THEN {i} ELSE {})
        /\ ops' = ops + 1

-----------------------------------------------------------------------------
\* mutant: an existing name is not refused
MkdirTwice(p) ==
    \E q \in {FinalDir(p)} : \E w \in {WalkDir(Front(q))} :
        /\ w.st = "ok" /\ kind[w.at] = "dir" /\ Free # {}
        /\ NewInode(NextInode, "dir", w.at, Last(q), NoTarget)
        /\ ops' = ops + 1
        /\ UNCHANGED <<fileVars, broken>>

\* _fs_mkdir
Mkdir(p) ==
    \E q \in {FinalDir(p)} : \E w \in {WalkDir(Front(q))} :
        /\ w.st = "ok" /\ kind[w.at] = "dir" /\ Free # {}
        /\ Child(w.at, Last(q)) = None
        /\ \/ /\ NewInode(NextInode, "dir", w.at, Last(q), NoTarget)
              /\ UNCHANGED <<fileVars, broken>>
           \/ NewFails
        /\ ops' = ops + 1

\* _fs_symlink: neither the parent nor the name is looked at
Symlink(p) ==
    \E q \in {FinalDir(p)} : \E w \in {WalkDir(Front(q))} :
        /\ w.st = "ok" /\ Free # {}
        /\ IF kind[w.at] # "dir" THEN Damage("entry in a file")
           ELSE IF Child(w.at, Last(q)) # None THEN Damage("second entry of a name")
           ELSE \/ /\ \E t \in Targets : NewInode(NextInode, "lnk", w.at, Last(q), t)
                   /\ UNCHANGED <<fileVars, broken>>
                \/ NewFails
        /\ ops' = ops + 1

\* _fs_link: the last name of the new directory is not followed, an absolute link
\* before it leaves the parent null
Link(p, follow) ==
    \E i \in {Walk(Final(p, follow), follow)} :
        /\ i.st = "ok" /\ kind[i.at] # "dir"
        /\ \E new \in Paths : \E d \in {Walk(Front(new), FALSE)} :
           /\ d.st \notin {"ENOENT", "ENOTDIR"}
           /\ IF d.st # "ok" THEN Damage("null parent")
              ELSE IF kind[d.at] # "dir" THEN Damage("entry in a file")
              ELSE /\ Child(d.at, Last(new)) = None
                   /\ ents' = [ents EXCEPT ![d.at] = Append(@, Entry(Last(new), i.at))]
                   /\ nlink' = [nlink EXCEPT ![i.at] = @ + 1]
                   /\ UNCHANGED <<kind, target, ninodes, failed, fileVars, broken>>
        /\ ops' = ops + 1

\* mutant: the inode goes although it is open
UnlinkOpen(i) == nlink'[i] = 0

\* the condition under which unlink frees the inode at once
UnlinkFrees(i) == kind[i] = "lnk" \/ (nlink'[i] = 0 /\ nopens[i] = 0)

\* _fs_unlink, also of an empty directory; a symbolic link is freed at once, even
\* if it has another link or is open
Unlink(p) ==
    \E q \in {Final(p, FALSE)} \ {<<>>} : \E w \in {Walk(q, FALSE)} :
      LET i == w.at
          isdir == kind[i] = "dir"
      IN
        /\ w.st = "ok"
        /\ isdir => ents[i] = <<>>
        /\ ents' = [ents EXCEPT ![w.dir] = Without(w.dir, Last(q))]
        /\ nlink' = [j \in Inodes |->
                        CASE j = i -> IF isdir THEN IF nlink[i] = 2 THEN 0 ELSE nlink[i] - 1
                                      ELSE nlink[i] - 1
                          [] j = w.dir /\ j # i /\ isdir -> nlink[j] - 1
                          [] OTHER -> nlink[j]]
        /\ UNCHANGED fileVars
        /\ Freed(IF UnlinkFrees(i) THEN {i} ELSE {})
        /\ broken' = IF kind[i] = "lnk" /\ (nlink'[i] > 0 \/ nopens[i] > 0)
                     THEN {"symbolic link freed"} ELSE {}
        /\ ops' = ops + 1

\* _fs_rmdir: a relative link is followed to the directory, and the entry that goes
\* is that of the link
Rmdir(p) ==
    \E q \in {Final(p, TRUE)} \ {<<>>} : \E w \in {Walk(q, TRUE)}, d \in {WalkDir(Front(q))} :
      LET i == w.at
      IN
        /\ w.st = "ok" /\ kind[i] = "dir" /\ ents[i] = <<>>
        /\ IF Child(d.at, Last(q)) # i THEN Damage("link removed instead")
           ELSE /\ ents' = [ents EXCEPT ![d.at] = Without(d.at, Last(q))]
                /\ nlink' = [nlink EXCEPT ![d.at] = @ - 1, ![i] = @ - 2]
                /\ UNCHANGED fileVars
                /\ Freed(IF nlink'[i] = 0 /\ nopens[i] = 0 THEN {i} ELSE {})
                /\ UNCHANGED broken
        /\ ops' = ops + 1

-----------------------------------------------------------------------------
(***************************************************************************)
(* _fs_rename                                                              *)
(***************************************************************************)
\* directories below i, i included
RECURSIVE Subtree(_, _)
Subtree(i, n) ==
    {i} \cup (IF n = 0 THEN {}
              ELSE UNION {Subtree(ents[i][j].ino, n - 1) : j \in DOMAIN ents[i]})

\* what rename does not look at: a directory takes the place of a file or of a
\* directory with entries (an empty one is refused), or moves below itself; its
\* ".." keeps naming the old parent in any case
RenameDamage(i, nd, c) ==
    CASE kind[i] = "dir" /\ c # None -> {"replaced by a directory"}
      [] kind[i] = "dir" /\ nd \in Subtree(i, MaxInodes) -> {"cycle"}
      [] OTHER -> {}

RenameRefused(i, c) ==
    \/ kind[i] = "dir" /\ c # None /\ kind[c] = "dir" /\ ents[c] = <<>>
    \/ c # None /\ kind[c] = "dir" /\ kind[i] # "dir"

\* mutant: the new parent of a directory is not counted
LinksNotMoved(i, od, nd, c) ==
    [j \in Inodes |->
        nlink[j] - (IF j = c THEN 1 ELSE 0) - (IF j = od /\ kind[i] = "dir" THEN 1 ELSE 0)]

\* the link counts after inode i has moved from od to nd, in place of c
RenameLinks(i, od, nd, c) ==
    [j \in Inodes |->
        nlink[j] - (IF j = c THEN 1 ELSE 0) - (IF j = od /\ kind[i] = "dir" THEN 1 ELSE 0)
                 + (IF j = nd /\ kind[i] = "dir" THEN 1 ELSE 0)]

Rename(p) ==
    \E q \in {RenameFinal(p)} \ {<<>>} : \E w \in {Walk(q, FALSE)} :
    \E new \in IF w.st = "ok" THEN Paths ELSE {} : \E d \in {WalkDir(Front(new))} :
      LET i == w.at
          c == Child(d.at, Last(new))
          gone == IF c # None /\ nlink[c] = 1 THEN {c} ELSE {}
      IN
        /\ d.st \notin {"ENOENT", "ENOTDIR"}
        /\ IF d.st # "ok" THEN Damage("null parent")
           ELSE IF kind[d.at] # "dir" THEN Damage("entry in a file")
           ELSE /\ c # i /\ ~RenameRefused(i, c)
                /\ IF RenameDamage(i, d.at, c) # {}
                   THEN broken' = RenameDamage(i, d.at, c)
                        /\ UNCHANGED <<inodeVars, fileVars>>
                   ELSE /\ LET removed == [ents EXCEPT ![w.dir] = Without(w.dir, Last(q))]
                               cleared == [removed EXCEPT ![d.at] =
                                              SelectSeq(@, LAMBDA e : e.name # Last(new))]
                           IN  ents' = [cleared EXCEPT ![d.at] = Append(@, Entry(Last(new), i))]
                        /\ nlink' = RenameLinks(i, w.dir, d.at, c)
                        /\ UNCHANGED fileVars
                        /\ Freed(gone)
                        /\ broken' = IF \E j \in gone : nopens[j] > 0
                                     THEN {"open file replaced"} ELSE {}
        /\ ops' = ops + 1

\* entries of the directories in S for inode i, and entries of d for directories
EntriesTo(S, i) ==
    Cardinality(UNION {{<<d, k>> : k \in {j \in DOMAIN ents[d] : ents[d][j].ino = i}} : d \in S})
Subdirs(d) == Cardinality({j \in DOMAIN ents[d] : kind[ents[d][j].ino] = "dir"})

\* _fs_release_tree: everything below a name goes, open or not
ReleaseTree(p) ==
    \E w \in {v \in {Walk(p, TRUE)} : v.st = "ok"} : \E S \in {Subtree(w.at, MaxInodes)} :
      LET links(j) == EntriesTo(S, j) + IF j = w.at THEN 1 ELSE 0
          left(j) == nlink[j] - (IF kind[j] = "dir" THEN 2 + Subdirs(j) ELSE links(j))
      IN
        /\ w.at # Root /\ Walk(p, FALSE) = w
        /\ ents' = [d \in Inodes |-> IF d \in S THEN <<>>
                                     ELSE IF d = w.dir THEN Without(d, Last(p)) ELSE ents[d]]
        /\ nlink' = [j \in Inodes |->
                        CASE j \in S -> left(j)
                          [] j = w.dir /\ kind[w.at] = "dir" -> nlink[j] - 1
                          [] OTHER -> nlink[j]]
        /\ UNCHANGED fileVars
        /\ Freed({j \in S : left(j) = 0})
        /\ broken' = IF \E j \in S : left(j) = 0 /\ nopens[j] > 0
                     THEN {"open file released"} ELSE {}
        /\ ops' = ops + 1

Next ==
    \/ \E p \in Paths :
       /\ MayOp
       /\ \/ \E trunc, follow \in BOOLEAN : OpenOld(p, trunc, follow)
          \/ \E follow \in BOOLEAN : LookupFails(p, follow)
          \/ OpenLink(p) \/ OpenThroughFile(p) \/ OpenNew(p) \/ Mkdir(p) \/ Unlink(p) \/ Rmdir(p) \/ ReleaseTree(p)
          \/ Symlink(p) \/ Rename(p)
          \/ \E follow \in BOOLEAN : Link(p, follow)
    \/ \E f \in Files : MayOp /\ (Dup(f) \/ Close(f))

Spec == Init /\ [][Next]_vars

-----------------------------------------------------------------------------
(***************************************************************************)
(* Properties                                                              *)
(***************************************************************************)
\* The types of the variables.
TypeOK ==
    /\ kind \in [Inodes -> Kinds]
    /\ \A i \in Inodes : \A j \in DOMAIN ents[i] : ents[i][j] \in [name : Names, ino : Inodes]
    /\ target \in [Inodes -> Targets \cup {NoTarget}]
    /\ nlink \in [Inodes -> Nat] /\ nopens \in [Inodes -> Nat]
    /\ shared \in [Files -> Shareds \cup {None}]
    /\ desc \in [Shareds -> [ino : Inodes \cup {None}, use : Nat]]
    /\ ninodes \in Int /\ failed \in Nat /\ Cardinality(broken) <= 1

Allocated == {i \in Inodes : kind[i] # "free"}
Opened == {s \in Shareds : desc[s] # Closed}
Entries(d) == {ents[d][j].ino : j \in DOMAIN ents[d]}

\* The link count that decides when an inode is freed is the number of entries for
\* it, and for a directory also of its own and its subdirectories' dots, through any
\* sequence of link, unlink, mkdir, rmdir and rename.
LinksExact ==
    broken = {} => \A i \in Allocated :
        nlink[i] = IF kind[i] = "dir" /\ (i = Root \/ EntriesTo(Inodes, i) > 0)
                   THEN 2 + Subdirs(i) ELSE EntriesTo(Inodes, i)

\* No entry and no open file refers to an inode that was freed, and every inode
\* that is not free has one of them.  The count that must be 0 when the file system is
\* released is that of the inodes, less one for each creation that failed half way.
LifetimeExact ==
    broken = {} =>
        /\ Allocated = {Root} \cup UNION {Entries(d) : d \in Inodes} \cup {desc[s].ino : s \in Opened}
        /\ ninodes = Cardinality(Allocated) - failed

\* nopens counts the open file descriptions of an inode and use_count the file
\* objects of a description, so that unlink and close agree on who frees the inode.
OpensExact ==
    /\ \A i \in Inodes : nopens[i] = Cardinality({s \in Opened : desc[s].ino = i})
    /\ \A s \in Shareds : desc[s].use = Cardinality({f \in Files : shared[f] = s})

\* The directories form a tree: no directory has two entries of one name, each but
\* the root has one entry, and is reached from the root.
TreeShape ==
    broken = {} =>
        /\ \A d \in Inodes : \A j, k \in DOMAIN ents[d] :
              ents[d][j].name = ents[d][k].name => j = k
        /\ \A i \in Allocated \ {Root} : kind[i] = "dir" /\ EntriesTo(Inodes, i) > 0 =>
              /\ EntriesTo(Inodes, i) = 1
              /\ i \in Subtree(Root, MaxInodes)
=============================================================================
