------------------------------ MODULE Ext2Dir ------------------------------
(***************************************************************************)
(* The name space of the ext2 file system (ext2/ext2.c): directories and   *)
(* their records, link counts, the inode bitmap, and the inodes whose free *)
(* is put off until the last close.  lockfs serialises the operations.     *)
(*                                                                         *)
(* Directories are packed into blocks of BlockSize, of which there are     *)
(* NumBlocks; a directory that needs one more when none is left makes an   *)
(* operation fail half-way.  A symbolic link is an inode that is not       *)
(* followed.  hurt records what the code does not undo or does not look at.*)
(***************************************************************************)
EXTENDS Integers, Sequences, FiniteSets, SequencesExt, FiniteSetsExt

CONSTANTS Names,       \* file names
          Size,        \* the size of a record with each name (_dirent_size)
          DotSize,     \* the size of the records of "." and ".."
          BlockSize,
          NumBlocks,   \* blocks for directories
          MaxInodes,   \* inodes 1..MaxInodes; 1 is the root
          Handles,     \* open file descriptions
          MaxOps       \* bound on operations

Inodes == 1..MaxInodes
Root == 1
None == 0
Hurts == {"leak", "cycle", "name lost", "stale directory",
          "open directory replaced", "open directory freed"}
Paths == {<<n>> : n \in Names} \cup {<<n, m>> : n \in Names, m \in Names}

VARIABLES
    kind,      \* i_mode: "reg", "dir" or "lnk"
    inuse,     \* the inodes whose bit is set
    ents,      \* the entries of each directory after "." and "..", in order
    links,     \* i_links_count
    nopens,    \* inode_refs: open file descriptions
    defer,     \* inode_refs: inodes to be freed by the last close
    handle,    \* the inode of each open file description, None if closed
    free,      \* free blocks (s_free_blocks_count)
    hurt,
    ops

vars == <<kind, inuse, ents, links, nopens, defer, handle, free, hurt, ops>>

Init ==
    /\ kind = [i \in Inodes |-> IF i = Root THEN "dir" ELSE "reg"]
    /\ inuse = {Root}
    /\ ents = [i \in Inodes |-> <<>>]
    /\ links = [i \in Inodes |-> IF i = Root THEN 2 ELSE 0]
    /\ nopens = [i \in Inodes |-> 0] /\ defer = {}
    /\ handle = [h \in Handles |-> None]
    /\ free = NumBlocks - 1 /\ hurt = {} /\ ops = 0

-----------------------------------------------------------------------------
(***************************************************************************)
(* The records of a directory                                              *)
(***************************************************************************)
\* mutant: the last record of a block is not extended to its end
PackGap(p, size) ==
    LET rem == BlockSize - (p.size % BlockSize)
        start == IF size <= rem THEN p.size ELSE p.size + rem
    IN  [size |-> start + size, recs |-> Append(p.recs, [at |-> start, len |-> size])]

\* one entry is copied to the buffer: it must not cross the end of a block, the
\* record before it is extended to that end
PackOne(p, size) ==
    LET rem == BlockSize - (p.size % BlockSize)
        rec(at) == [at |-> at, len |-> size]
    IN  IF size <= rem
        THEN [size |-> p.size + size, recs |-> Append(p.recs, rec(p.size))]
        ELSE [size |-> p.size + rem + size,
              recs |-> Append([p.recs EXCEPT ![Len(p.recs)].len = @ + rem], rec(p.size + rem))]

\* the buffer is padded to the end of its last block
PackEnd(p) ==
    LET rem == BlockSize - (p.size % BlockSize)
    IN  IF p.size % BlockSize = 0 THEN p
        ELSE [size |-> p.size + rem, recs |-> [p.recs EXCEPT ![Len(p.recs)].len = @ + rem]]

\* the directory as _add_dirent and _remove_dirent write it
Packed(entries) ==
    LET sizes == <<DotSize, DotSize>> \o [k \in DOMAIN entries |-> Size[entries[k].name]]
        after[k \in 0..Len(sizes)] == IF k = 0 THEN [size |-> 0, recs |-> <<>>]
                                      ELSE PackOne(after[k - 1], sizes[k])
    IN  PackEnd(after[Len(sizes)])

BlocksOf(entries) == Packed(entries).size \div BlockSize

-----------------------------------------------------------------------------
Entry(n, i) == [name |-> n, ino |-> i]
Has(d, n) == \E k \in DOMAIN ents[d] : ents[d][k].name = n

\* _find_dirent
Child(d, n) ==
    IF kind[d] = "dir" /\ d \in inuse /\ Has(d, n)
    THEN ents[d][CHOOSE k \in DOMAIN ents[d] : ents[d][k].name = n].ino ELSE None

\* the directory a path ends in and what it names there
DirOf(p) == IF Len(p) = 1 THEN Root ELSE Child(Root, p[1])
Found(p) == IF DirOf(p) = None THEN None ELSE Child(DirOf(p), Last(p))
IsDir(i) == i # None /\ kind[i] = "dir"

Without(entries, n) == SelectSeq(entries, LAMBDA e : e.name # n)

\* blocks a directory grows by when the entries e take the place of those it has
Growth(d, e) == BlocksOf(e) - BlocksOf(ents[d])

MayOp == ops < MaxOps /\ hurt \subseteq {"leak"}
FreeInodes == Inodes \ inuse
NewIno == Min(FreeInodes)

\* _create_inode or _create_dir_inode_and_block, then _add_dirent: an inode that
\* gets no entry is not given back
Make(p, k) ==
    LET d == DirOf(p)
        i == NewIno
        own == IF k = "dir" THEN 1 ELSE 0
        e == Append(ents[d], Entry(Last(p), i))
        fits == ~Has(d, Last(p)) /\ free - own >= Growth(d, e)
    IN  /\ MayOp /\ FreeInodes # {} /\ IsDir(d)
        /\ inuse' = inuse \cup {i}
        /\ kind' = [kind EXCEPT ![i] = k]
        /\ links' = [links EXCEPT ![i] = IF k = "dir" THEN 2 ELSE 1,
                                  ![d] = IF k = "dir" /\ fits THEN @ + 1 ELSE @]
        /\ ents' = [ents EXCEPT ![d] = IF fits THEN e ELSE @, ![i] = <<>>]
        /\ free' = free - (IF free >= own THEN own ELSE 0) - (IF fits THEN Growth(d, e) ELSE 0)
        /\ hurt' = hurt \cup IF fits THEN {} ELSE {"leak"}
        /\ ops' = ops + 1

\* the path leads to nothing: also at a link, which may lead nowhere.  Its name is found
\* only when the entry is to be added
LeadsNowhere(p) == Found(p) \notin {i \in Inodes : kind[i] # "lnk"}

\* the next file object: which one it is makes no difference
IsFree(h) == handle[h] = None /\ h = CHOOSE g \in Handles : handle[g] = None

\* ext2_open with O_CREAT of a name that is not there; the open goes on only when
\* the entry was made
Create(p, h) ==
    /\ Make(p, "reg") /\ LeadsNowhere(p) /\ IsFree(h)
    /\ IF ents' # ents
       THEN /\ handle' = [handle EXCEPT ![h] = NewIno]
            /\ nopens' = [nopens EXCEPT ![NewIno] = @ + 1]
       ELSE UNCHANGED <<handle, nopens>>
    /\ UNCHANGED defer

\* ext2_mkdir
Mkdir(p) == Make(p, "dir") /\ LeadsNowhere(p) /\ UNCHANGED <<handle, nopens, defer>>

\* ext2_symlink: the inode is made before the name is looked for.  When the target is too
\* long for the inode and cannot be written the call fails, and the entry stays
Symlink(p) == Make(p, "lnk") /\ UNCHANGED <<handle, nopens, defer>>

\* ext2_link: the entry first, then the count
Link(p, q) ==
    LET i == Found(p)
        d == DirOf(q)
        e == Append(ents[d], Entry(Last(q), i))
    IN  /\ MayOp /\ i # None /\ ~IsDir(i) /\ IsDir(d) /\ ~Has(d, Last(q))
        /\ free >= Growth(d, e)
        /\ ents' = [ents EXCEPT ![d] = e]
        /\ links' = [links EXCEPT ![i] = @ + 1]
        /\ free' = free - Growth(d, e)
        /\ ops' = ops + 1
        /\ UNCHANGED <<kind, inuse, nopens, defer, handle, hurt>>

\* mutant: the last link of an open file is freed at once
UnlinkNow(i, n) == [inuse |-> IF n = 1 THEN inuse \ {i} ELSE inuse, defer |-> defer,
                    links |-> IF n = 1 THEN links[i] ELSE n - 1]

\* _inode_unlink of an inode whose copy in memory has n links
InodeUnlink(i, n) ==
    CASE n > 1 -> [inuse |-> inuse, defer |-> defer, links |-> n - 1]
      [] n = 1 /\ nopens[i] > 0 -> [inuse |-> inuse, defer |-> defer \cup {i}, links |-> links[i]]
      [] OTHER -> [inuse |-> inuse \ {i}, defer |-> defer \ {i}, links |-> links[i]]

\* ext2_unlink of something other than a directory
Unlink(p) ==
    LET i == Found(p)
        d == DirOf(p)
        e == Without(ents[d], Last(p))
        u == InodeUnlink(i, links[i])
    IN  /\ MayOp /\ i # None /\ ~IsDir(i)
        /\ ents' = [ents EXCEPT ![d] = e]
        /\ free' = free - Growth(d, e)
        /\ inuse' = u.inuse /\ defer' = u.defer
        /\ links' = [links EXCEPT ![i] = u.links]
        /\ ops' = ops + 1
        /\ UNCHANGED <<kind, nopens, handle, hurt>>

\* mutant: the link of ".." stays counted
RmdirKeepsLink(p) ==
    LET i == Found(p)
        d == DirOf(p)
        e == Without(ents[d], Last(p))
    IN  /\ MayOp /\ IsDir(i) /\ links[i] = 2 /\ ents[i] = <<>>
        /\ ents' = [ents EXCEPT ![d] = e]
        /\ free' = free - Growth(d, e) + BlocksOf(ents[i])
        /\ inuse' = inuse \ {i}
        /\ hurt' = hurt \cup IF nopens[i] > 0 THEN {"open directory freed"} ELSE {}
        /\ ops' = ops + 1
        /\ UNCHANGED <<kind, links, nopens, defer, handle>>

\* ext2_rmdir (and ext2_unlink of a directory): open or not, the inode goes
Rmdir(p) ==
    LET i == Found(p)
        d == DirOf(p)
        e == Without(ents[d], Last(p))
    IN  /\ MayOp /\ IsDir(i) /\ links[i] = 2 /\ ents[i] = <<>>
        /\ ents' = [ents EXCEPT ![d] = e]
        /\ free' = free - Growth(d, e) + BlocksOf(ents[i])
        /\ inuse' = inuse \ {i}
        /\ links' = [links EXCEPT ![d] = @ - 1]
        /\ hurt' = hurt \cup IF nopens[i] > 0 THEN {"open directory freed"} ELSE {}
        /\ ops' = ops + 1
        /\ UNCHANGED <<kind, nopens, defer, handle>>

-----------------------------------------------------------------------------
\* what ext2_rename does not look at (its ATTN comments), and the copies of inodes
\* it keeps while it changes them
RenameHurt(i, c, od, nd, ok, shrunk) ==
    (IF IsDir(i) /\ nd = i THEN {"cycle"} ELSE {})
    \cup (IF IsDir(c) /\ nopens[c] > 0 THEN {"open directory replaced"} ELSE {})
    \cup (IF od = nd /\ shrunk THEN {"stale directory"} ELSE {})
    \cup (IF ~ok THEN {"name lost"} ELSE {})

\* ext2_rename: what has the new name goes, then the old entry, then the new entry
\* is made, which can fail
Rename(p, q) ==
    /\ MayOp
    /\ \E i \in {Found(p)} \ {None}, c \in {Found(q)}, od \in {DirOf(p)}, nd \in {DirOf(q)} :
       LET one == [ents EXCEPT ![nd] = Without(@, Last(q))]
           two == [one EXCEPT ![od] = Without(@, Last(p))]
           three == [two EXCEPT ![nd] = Append(@, Entry(Last(q), i))]
           gone == IF c = None THEN [inuse |-> inuse, defer |-> defer, links |-> 0]
                   ELSE InodeUnlink(c, IF IsDir(c) THEN links[c] - 1 ELSE links[c])
           back == IF IsDir(c) /\ c \notin gone.inuse THEN BlocksOf(ents[c]) ELSE 0
           blocks(e) == IF od = nd THEN BlocksOf(e[od]) ELSE BlocksOf(e[od]) + BlocksOf(e[nd])
           room == free + back + blocks(ents) - blocks(two)
           ok == room >= blocks(three) - blocks(two)
           shrunk == BlocksOf(one[nd]) < BlocksOf(ents[nd])
           dirs(d) == (IF d = nd /\ IsDir(c) THEN -1 ELSE 0) + (IF d = od /\ IsDir(i) THEN -1 ELSE 0)
                      + (IF d = nd /\ IsDir(i) /\ ok THEN 1 ELSE 0)
       IN  /\ IsDir(nd) /\ c # i
           /\ c # None => (IsDir(i) <=> IsDir(c)) /\ (IsDir(c) => ents[c] = <<>>)
           /\ ents' = IF ok THEN three ELSE two
           /\ free' = IF ok THEN room - (blocks(three) - blocks(two)) ELSE room
           /\ inuse' = gone.inuse /\ defer' = gone.defer
           /\ links' = [d \in Inodes |-> IF d = c THEN gone.links ELSE links[d] + dirs(d)]
           /\ hurt' = hurt \cup RenameHurt(i, c, od, nd, ok, shrunk)
           /\ ops' = ops + 1
           /\ UNCHANGED <<kind, nopens, handle>>

\* ext2_open of something that exists
Open(p, h) ==
    /\ MayOp /\ Found(p) # None /\ IsFree(h)
    /\ handle' = [handle EXCEPT ![h] = Found(p)]
    /\ nopens' = [nopens EXCEPT ![Found(p)] = @ + 1]
    /\ ops' = ops + 1
    /\ UNCHANGED <<kind, inuse, ents, links, defer, free, hurt>>

\* mutant: the flag is ignored
CloseOnly(h) ==
    LET i == handle[h]
    IN  /\ MayOp /\ i # None
        /\ handle' = [handle EXCEPT ![h] = None]
        /\ nopens' = [nopens EXCEPT ![i] = @ - 1]
        /\ ops' = ops + 1
        /\ UNCHANGED <<kind, inuse, ents, links, defer, free, hurt>>

\* ext2_close
Close(h) ==
    LET i == handle[h]
        last == nopens[i] = 1 /\ i \in defer
    IN  /\ MayOp /\ i # None
        /\ handle' = [handle EXCEPT ![h] = None]
        /\ nopens' = [nopens EXCEPT ![i] = @ - 1]
        /\ inuse' = IF last THEN inuse \ {i} ELSE inuse
        /\ defer' = IF last THEN defer \ {i} ELSE defer
        /\ ops' = ops + 1
        /\ UNCHANGED <<kind, ents, links, free, hurt>>

Next ==
    \/ \E p \in Paths, h \in Handles : Create(p, h) \/ Open(p, h)
    \/ \E p \in Paths : Mkdir(p) \/ Symlink(p) \/ Unlink(p) \/ Rmdir(p)
    \/ \E p, q \in Paths : Link(p, q) \/ Rename(p, q)
    \/ \E h \in Handles : Close(h)

Spec == Init /\ [][Next]_vars

-----------------------------------------------------------------------------
(***************************************************************************)
(* Properties                                                              *)
(***************************************************************************)
\* The types of the variables.
TypeOK ==
    /\ kind \in [Inodes -> {"reg", "dir", "lnk"}]
    /\ {Root} \subseteq inuse /\ inuse \subseteq Inodes /\ defer \subseteq inuse
    /\ \A d \in Inodes : ents[d] \in Seq([name : Names, ino : Inodes])
    /\ links \in [Inodes -> Nat] /\ nopens \in [Inodes -> Nat]
    /\ handle \in [Handles -> Inodes \cup {None}]
    /\ free \in 0..NumBlocks
    /\ hurt \subseteq Hurts

Directories == {d \in inuse : kind[d] = "dir"}
EntriesFor(i) ==
    UNION {{<<d, k>> : k \in {j \in DOMAIN ents[d] : ents[d][j].ino = i}} : d \in Directories}
Opened(i) == {h \in Handles : handle[h] = i}

\* i_links_count, by which unlink decides whether to free an inode and rmdir
\* whether a directory is empty, counts the entries and the dots; a file that was
\* unlinked while it is open keeps its last count.
LinkCounts ==
    hurt \subseteq {"leak"} => \A i \in inuse : EntriesFor(i) # {} \/ i = Root =>
        links[i] = IF kind[i] = "dir"
                   THEN 2 + Cardinality({k \in DOMAIN ents[i] : kind[ents[i][k].ino] = "dir"})
                   ELSE Cardinality(EntriesFor(i))

\* Every entry and every open file has an inode that is allocated, and the inodes
\* that are to be freed by close are the open ones without a name.
NoDanglingEntry ==
    hurt \subseteq {"leak"} =>
        /\ \A d \in Directories : \A k \in DOMAIN ents[d] : ents[d][k].ino \in inuse
        /\ \A h \in Handles : handle[h] # None => handle[h] \in inuse
        /\ defer = {i \in inuse : EntriesFor(i) = {} /\ Opened(i) # {}}

\* An inode is allocated as long as it has a name or is open, and a block as long
\* as a directory needs it, unless an operation failed after it took them.
NothingLost ==
    hurt = {} =>
        /\ inuse = {Root} \cup {i \in Inodes : EntriesFor(i) # {} \/ Opened(i) # {}}
        /\ free + MapThenSumSet(LAMBDA d : BlocksOf(ents[d]), Directories) = NumBlocks

\* What the CHECKS build checks after every change (_check_dirents): the records of
\* a directory follow each other without a gap, none crosses the end of a block,
\* and the last one ends where the directory ends, so that a walk along rec_len
\* meets every entry.
RecordsFill ==
    \A d \in Directories :
        LET p == Packed(ents[d])
            end(k) == p.recs[k].at + p.recs[k].len
        IN  /\ p.size % BlockSize = 0 /\ end(Len(p.recs)) = p.size
            /\ \A k \in 1..(Len(p.recs) - 1) : end(k) = p.recs[k + 1].at
            /\ \A k \in DOMAIN p.recs :
                  p.recs[k].at \div BlockSize = (end(k) - 1) \div BlockSize
=============================================================================
