------------------------------ MODULE Ext2File ------------------------------
(***************************************************************************)
(* The files of the ext2 file system (ext2/ext2.c): the block bitmap, the  *)
(* inodes with their direct and indirect block numbers, the copy of the    *)
(* inode each open file keeps, and the operations that grow, cut and free  *)
(* a file.  lockfs serialises the operations, so each is one step.         *)
(*                                                                         *)
(* A block holds Width cells: units of file data, or block numbers if it   *)
(* is an indirect block.  Written data is 1, a hole is 0.  The position of *)
(* a read or write is a parameter: lseek and pwrite set it freely.  hurt   *)
(* records the events after which the code no longer keeps its promises.   *)
(***************************************************************************)
EXTENDS Integers, Sequences, FiniteSets, SequencesExt, FiniteSetsExt

CONSTANTS Inodes,      \* inode numbers for files
          NumBlocks,   \* blocks of the device that files may use
          Width,       \* cells of a block (blknos_per_block)
          Direct,      \* EXT2_SINGLE_INDIRECT_BLOCK
          Handles,     \* open file descriptions
          Offsets,     \* where writes start
          Counts,      \* how much they write
          Lengths,     \* arguments of truncate
          MaxOps       \* bound on operations

Blocks == 1..NumBlocks
NoBlock == 0
Slots == 0..(Direct + 2)      \* i_block
Cells == 0..(Width - 1)
ZeroBlock == [c \in Cells |-> 0]
ZeroInode == [size |-> 0, links |-> 0, root |-> [s \in Slots |-> NoBlock]]

VARIABLES
    bitmap,    \* the blocks whose bit is set
    block,     \* the contents of the blocks
    inode,     \* the inodes on the device
    inuse,     \* the inodes whose bit is set
    nopens,    \* inode_refs: open file descriptions of an inode
    defer,     \* inode_refs: the inodes to be freed by the last close
    handle,    \* ino of an open file description, 0 if it is closed
    cache,     \* its copy of the inode
    names,     \* how many names an inode has (history)
    content,   \* what a file should hold: size and cells that are 1 (history)
    hurt,      \* "space": a write failed; "stale": a stale copy was written;
               \* "triple": a table of a triple indirect block was cleared
    unset,     \* a block was freed whose bit is not set (history)
    ops

vars == <<bitmap, block, inode, inuse, nopens, defer, handle, cache, names, content,
          hurt, unset, ops>>

Empty == [size |-> 0, ones |-> {}]

Init ==
    /\ bitmap = {} /\ block = [b \in Blocks |-> ZeroBlock]
    /\ inode = [i \in Inodes |-> ZeroInode] /\ inuse = {}
    /\ nopens = [i \in Inodes |-> 0] /\ defer = {}
    /\ handle = [h \in Handles |-> 0] /\ cache = [h \in Handles |-> ZeroInode]
    /\ names = [i \in Inodes |-> 0] /\ content = [i \in Inodes |-> Empty]
    /\ hurt = {} /\ unset = FALSE /\ ops = 0

-----------------------------------------------------------------------------
(***************************************************************************)
(* The tree of blocks of a file.  The functions work on a copy of the      *)
(* state, d: the bitmap, the blocks and the copy of the inode in memory.   *)
(***************************************************************************)
\* Step for each number from..to, one after the other
Each(Step(_, _), d, from, to) ==
    LET after[k \in (from - 1)..to] == IF k = from - 1 THEN d ELSE Step(after[k - 1], k)
    IN  IF to < from THEN d ELSE after[to]

Depth(n) ==
    CASE n < Direct -> 0
      [] n >= Direct /\ n < Direct + Width -> 1
      [] n >= Direct + Width /\ n < Direct + Width + Width * Width -> 2
      [] OTHER -> 3

Slot(n) == IF Depth(n) = 0 THEN n ELSE Direct + Depth(n) - 1

\* the cells to go through below the slot
Digits(n) ==
    LET one == n - Direct
        two == one - Width
        three == two - Width * Width
    IN  CASE Depth(n) = 0 -> <<>>
          [] Depth(n) = 1 -> <<one>>
          [] Depth(n) = 2 -> <<two \div Width, two % Width>>
          [] OTHER -> <<three \div (Width * Width), (three \div Width) % Width, three % Width>>

\* the indirect blocks on the way to the n-th block of the file, and that block
Chain(d, n) ==
    LET below(b, k) == IF b = NoBlock THEN NoBlock ELSE d.block[b][Digits(n)[k]]
        b0 == d.ino.root[Slot(n)]
        b1 == below(b0, 1)
        b2 == below(b1, 2)
    IN  CASE Depth(n) = 0 -> <<b0>>
          [] Depth(n) = 1 -> <<b0, b1>>
          [] Depth(n) = 2 -> <<b0, b1, b2>>
          [] OTHER -> <<b0, b1, b2, below(b2, 3)>>

\* _inode_get_blkno
GetBlkno(d, n) == Last(Chain(d, n))

FreeBlocks(d) == Blocks \ d.bitmap
Lowest(S, k) == {b \in S : Cardinality({c \in S : c < b}) < k}

\* _get_blkno: the first clear bit
GetFree(d) == Min(FreeBlocks(d))

\* _put_blkno
Put(d, b) == [d EXCEPT !.bitmap = @ \ {b}, !.unset = @ \/ b \notin d.bitmap]

\* a cell of the k-th block of a chain is set, the slot if k is 0
SetCell(d, n, chain, k, b) ==
    IF k = 0 THEN [d EXCEPT !.ino.root[Slot(n)] = b]
    ELSE [d EXCEPT !.block[chain[k]][Digits(n)[k]] = b]

\* mutant: the new indirect block keeps what was in it
LinkUncleared(d, n, chain, b) ==
    LET have == Cardinality({k \in DOMAIN chain : chain[k] # NoBlock})
        new == SetToSortSeq(Lowest(FreeBlocks(d), Len(chain) - 1 - have), <)
        full == SubSeq(chain, 1, have) \o new \o <<b>>
        taken == [d EXCEPT !.bitmap = @ \cup Range(new)]
    IN  IF Last(chain) # NoBlock THEN [d EXCEPT !.ok = FALSE]
        ELSE IF Len(new) < Len(chain) - 1 - have THEN [taken EXCEPT !.ok = FALSE]
        ELSE Each(LAMBDA e, k : SetCell(e, n, full, k - 1, full[k]), taken, have + 1, Len(full))

\* block b becomes the last of the chain; the missing indirect blocks are allocated
\* first, and stay allocated if one of them cannot be had
LinkBlock(d, n, chain, b) ==
    LET have == Cardinality({k \in DOMAIN chain : chain[k] # NoBlock})
        new == SetToSortSeq(Lowest(FreeBlocks(d), Len(chain) - 1 - have), <)
        full == SubSeq(chain, 1, have) \o new \o <<b>>
        taken == [d EXCEPT !.bitmap = @ \cup Range(new),
                           !.block = [c \in Blocks |-> IF c \in Range(new)
                                                       THEN ZeroBlock ELSE @[c]]]
    IN  IF Last(chain) # NoBlock THEN [d EXCEPT !.ok = FALSE]    \* EEXIST
        ELSE IF Len(new) < Len(chain) - 1 - have THEN [d EXCEPT !.bitmap = @ \cup Range(new),
                                                               !.ok = FALSE]
        ELSE Each(LAMBDA e, k : SetCell(e, n, full, k - 1, full[k]), taken, have + 1, Len(full))

\* _inode_add_blkno: block b becomes the n-th block
AddBlkno(d, n, b) == LinkBlock(d, n, Chain(d, n), b)

\* the cell that is cleared in the k-th block when the block below it goes; in the
\* middle of a triple indirect chain the code uses the first index
ClearedDigit(n, k) == IF Depth(n) = 3 /\ k = 2 THEN Digits(n)[1] ELSE Digits(n)[k]

\* the entry for the block below is cleared in the k-th block of the chain, which
\* goes too if nothing is left in it
ClearUp(d, n, chain, k) ==
    LET table == [d.block[chain[k]] EXCEPT ![ClearedDigit(n, k)] = NoBlock]
    IN  CASE ~d.up -> d
          [] d.up /\ table = ZeroBlock -> Put(d, chain[k])
          [] OTHER -> [d EXCEPT !.block[chain[k]] = table, !.up = FALSE]

\* the end of a chain is freed, if there is one, and the tables above it
PutChain(d, n, chain) ==
    LET top == Len(chain) - 1
        e == Each(LAMBDA x, k : ClearUp(x, n, chain, top + 1 - k),
                  [Put(d, Last(chain)) EXCEPT !.up = TRUE], 1, top)
        wrong == \E k \in 1..top : ClearedDigit(n, k) # Digits(n)[k]
    IN  IF Last(chain) = NoBlock THEN d
        ELSE [e EXCEPT !.ino.root[Slot(n)] = IF e.up THEN NoBlock ELSE @,
                       !.triple = @ \/ wrong]

\* _inode_put_blkno: the n-th block of the file is freed
PutBlkno(d, n) == PutChain(d, n, Chain(d, n))

NumBlksOf(size) == (size + Width - 1) \div Width
PutRange(d, from, to) == Each(PutBlkno, d, from, to - 1)

\* mutant: the rest of the last block keeps its data
TailKept(d, length) == d

\* the rest of the last block is filled with zeros
ZeroTail(d, length) ==
    LET cut(b) == IF b = NoBlock THEN d
                  ELSE [d EXCEPT !.block[b] =
                           [c \in Cells |-> IF c < length % Width THEN @[c] ELSE 0]]
    IN  IF length % Width = 0 THEN d ELSE cut(GetBlkno(d, NumBlksOf(length) - 1))

\* _ftruncate
Truncated(d, length) ==
    IF length < d.ino.size
    THEN [ZeroTail(PutRange(d, NumBlksOf(length), NumBlksOf(d.ino.size)), length)
             EXCEPT !.ino.size = length]
    ELSE [d EXCEPT !.ino.size = length]

\* a block that was added is kept, one that could not be is free again
Kept(d, n, b) == IF d.ok THEN [d EXCEPT !.done = n + 1] ELSE Put(d, b)

\* one block of ext2_write, cells from..to-1 of the file, where the file has block old
WriteOver(d, n, old, from, to) ==
    LET b == IF old # NoBlock THEN old ELSE GetFree(d)
        before == IF old # NoBlock THEN d.block[b] ELSE ZeroBlock
        written == [d EXCEPT !.bitmap = @ \cup {b},
                             !.block[b] = [c \in Cells |-> IF n * Width + c \in from..(to - 1)
                                                           THEN 1 ELSE before[c]]]
    IN  CASE ~d.ok -> d
          [] d.ok /\ old # NoBlock -> [written EXCEPT !.done = n + 1]
          [] d.ok /\ old = NoBlock /\ FreeBlocks(d) = {} -> [d EXCEPT !.ok = FALSE]
          [] OTHER -> Kept(AddBlkno(written, n, b), n, b)

WriteBlock(d, n, from, to) == WriteOver(d, n, GetBlkno(d, n), from, to)

\* the loop of ext2_write
Written(d, from, to) ==
    Each(LAMBDA e, n : WriteBlock(e, n, from, to), d, from \div Width, (to - 1) \div Width)

-----------------------------------------------------------------------------
Copy(ino) == [bitmap |-> bitmap, block |-> block, ino |-> ino, ok |-> TRUE, up |-> FALSE,
              triple |-> FALSE, unset |-> unset, done |-> 0]
MayOp == ops < MaxOps

\* what an operation on inode i leaves behind
Store(i, d, events) ==
    /\ bitmap' = d.bitmap /\ block' = d.block
    /\ inode' = [inode EXCEPT ![i] = d.ino]
    /\ unset' = d.unset
    /\ hurt' = hurt \cup events \cup (IF d.triple THEN {"triple"} ELSE {})
    /\ ops' = ops + 1

Ones(i, size) == {c \in content[i].ones : c < size}

\* the next file object: which one it is makes no difference
IsFree(h) == handle[h] = 0 /\ h = CHOOSE g \in Handles : handle[g] = 0

\* _create_inode, and the file that ext2_open makes for it
Create(h, i) ==
    /\ MayOp /\ IsFree(h) /\ inuse # Inodes /\ i = Min(Inodes \ inuse)
    /\ inuse' = inuse \cup {i}
    /\ inode' = [inode EXCEPT ![i] = [ZeroInode EXCEPT !.links = 1]]
    /\ names' = [names EXCEPT ![i] = 1]
    /\ content' = [content EXCEPT ![i] = Empty]
    /\ handle' = [handle EXCEPT ![h] = i]
    /\ cache' = [cache EXCEPT ![h] = inode'[i]]
    /\ nopens' = [nopens EXCEPT ![i] = @ + 1]
    /\ ops' = ops + 1
    /\ UNCHANGED <<bitmap, block, defer, hurt, unset>>

\* ext2_open of a file that exists, O_TRUNC or not
Open(h, i, trunc) ==
    \E d \in {IF trunc THEN Truncated(Copy(inode[i]), 0) ELSE Copy(inode[i])} :
        /\ MayOp /\ IsFree(h) /\ names[i] > 0
        /\ Store(i, d, {})
        /\ content' = [content EXCEPT ![i] = IF trunc THEN Empty ELSE @]
        /\ handle' = [handle EXCEPT ![h] = i]
        /\ cache' = [cache EXCEPT ![h] = d.ino]
        /\ nopens' = [nopens EXCEPT ![i] = @ + 1]
        /\ UNCHANGED <<inuse, defer, names>>

\* ext2_read, and fchown and fchmod: the copy is refreshed
Read(h) ==
    /\ MayOp /\ handle[h] # 0
    /\ cache' = [cache EXCEPT ![h] = inode[handle[h]]]
    /\ ops' = ops + 1
    /\ UNCHANGED <<bitmap, block, inode, inuse, nopens, defer, handle, names, content,
                   hurt, unset>>

\* the end of ext2_write, after its loop left d: a write that found no block keeps
\* the blocks it has added, and the size stays as it was
WriteEnds(h, from, n, d) ==
    LET i == handle[h]
        end == IF d.ok THEN from + n ELSE d.done * Width
        size == IF d.ok /\ end > inode[i].size THEN end ELSE inode[i].size
        e == [d EXCEPT !.ino.size = size]
    IN  /\ Store(i, e, IF d.ok THEN {} ELSE {"space"})
        /\ cache' = [cache EXCEPT ![h] = e.ino]
        /\ content' = [content EXCEPT ![i] =
              [size |-> size,
               ones |-> {c \in @.ones \cup (from..(end - 1)) : c < size}]]
        /\ UNCHANGED <<inuse, nopens, defer, handle, names>>

\* ext2_write: with O_APPEND at the end of the file
Write(h, at, n, append) ==
    LET from == IF append THEN inode[handle[h]].size ELSE at
    IN  /\ MayOp /\ handle[h] # 0
        /\ WriteEnds(h, from, n, Written(Copy(inode[handle[h]]), from, from + n))

\* the cells of the file after it was cut or made longer
Resized(i, length) == [size |-> length, ones |-> Ones(i, length)]

\* ext2_ftruncate: it works on the copy in the file
Ftruncate(h, length) ==
    LET i == handle[h]
    IN \E d \in {Truncated(Copy(cache[h]), length)} :
        /\ MayOp /\ i # 0 /\ length # cache[h].size
        /\ Store(i, d, IF cache[h] = inode[i] THEN {} ELSE {"stale"})
        /\ cache' = [cache EXCEPT ![h] = d.ino]
        /\ content' = [content EXCEPT ![i] = Resized(i, length)]
        /\ UNCHANGED <<inuse, nopens, defer, handle, names>>

\* ext2_truncate, by name: the inode is read from the device
Truncate(i, length) ==
    /\ MayOp /\ names[i] > 0 /\ length # inode[i].size
    /\ Store(i, Truncated(Copy(inode[i]), length), {})
    /\ content' = [content EXCEPT ![i] = Resized(i, length)]
    /\ UNCHANGED <<inuse, nopens, defer, handle, cache, names>>

\* F_SETFD and futimens: the copy in the file is written to the device
WriteBack(h) ==
    LET i == handle[h]
    IN  /\ MayOp /\ i # 0
        /\ inode' = [inode EXCEPT ![i] = cache[h]]
        /\ hurt' = hurt \cup IF cache[h] = inode[i] THEN {} ELSE {"stale"}
        /\ ops' = ops + 1
        /\ UNCHANGED <<bitmap, block, inuse, nopens, defer, handle, cache, names, content, unset>>

\* mutant: the count is not written back
LinkUncounted(i) ==
    /\ MayOp /\ names[i] > 0
    /\ names' = [names EXCEPT ![i] = @ + 1]
    /\ ops' = ops + 1
    /\ UNCHANGED <<bitmap, block, inode, inuse, nopens, defer, handle, cache, content, hurt,
                   unset>>

\* ext2_link
Link(i) ==
    /\ MayOp /\ names[i] > 0
    /\ inode' = [inode EXCEPT ![i].links = @ + 1]
    /\ names' = [names EXCEPT ![i] = @ + 1]
    /\ ops' = ops + 1
    /\ UNCHANGED <<bitmap, block, inuse, nopens, defer, handle, cache, content, hurt, unset>>

\* _inode_free: the blocks up to the size go, and the inode
Freed(i) == PutRange(Copy(inode[i]), 0, NumBlksOf(inode[i].size))

\* mutant: the inode goes although the file is open
UnlinkAtOnce(i) == TRUE

UnlinkFrees(i) == nopens[i] = 0

\* ext2_unlink: _inode_unlink frees the last link of a file that is not open, and
\* leaves one that is to close
Unlink(i) ==
    LET last == inode[i].links = 1
    IN  /\ MayOp /\ names[i] > 0
        /\ names' = [names EXCEPT ![i] = @ - 1]
        /\ IF ~last
           THEN Store(i, [Copy(inode[i]) EXCEPT !.ino.links = @ - 1], {})
                /\ UNCHANGED <<inuse, defer>>
           ELSE IF UnlinkFrees(i)
           THEN Store(i, [Freed(i) EXCEPT !.ino = inode[i]], {})
                /\ inuse' = inuse \ {i} /\ defer' = defer \ {i}
           ELSE Store(i, Copy(inode[i]), {})
                /\ defer' = defer \cup {i} /\ UNCHANGED inuse
        /\ UNCHANGED <<nopens, handle, cache, content>>

\* ext2_close of the last descriptor of a description: the last one of an inode
\* frees it if it was unlinked meanwhile
Close(h) ==
    LET i == handle[h]
        free == nopens[i] = 1 /\ i \in defer
    IN  /\ MayOp /\ i # 0
        /\ handle' = [handle EXCEPT ![h] = 0]
        /\ cache' = [cache EXCEPT ![h] = ZeroInode]
        /\ nopens' = [nopens EXCEPT ![i] = @ - 1]
        /\ IF free THEN Store(i, [Freed(i) EXCEPT !.ino = inode[i]], {})
                        /\ inuse' = inuse \ {i} /\ defer' = defer \ {i}
           ELSE Store(i, Copy(inode[i]), {}) /\ UNCHANGED <<inuse, defer>>
        /\ UNCHANGED <<names, content>>

Next ==
    \/ \E h \in Handles :
          \/ \E i \in Inodes : Create(h, i) \/ \E trunc \in BOOLEAN : Open(h, i, trunc)
          \/ Read(h) \/ WriteBack(h) \/ Close(h)
          \/ \E at \in Offsets, n \in Counts, append \in BOOLEAN : Write(h, at, n, append)
          \/ \E length \in Lengths : Ftruncate(h, length)
    \/ \E i \in Inodes :
          \/ Link(i) \/ Unlink(i)
          \/ \E length \in Lengths : Truncate(i, length)

Spec == Init /\ [][Next]_vars

-----------------------------------------------------------------------------
(***************************************************************************)
(* Properties                                                              *)
(***************************************************************************)
\* The types of the variables.
TypeOK ==
    /\ bitmap \subseteq Blocks
    /\ \A b \in Blocks, c \in Cells : block[b][c] \in 0..NumBlocks
    /\ \A i \in Inodes : inode[i].size \in Nat /\ inode[i].links \in Nat
                         /\ inode[i].root \in [Slots -> 0..NumBlocks]
    /\ defer \subseteq inuse /\ inuse \subseteq Inodes
    /\ handle \in [Handles -> Inodes \cup {0}] /\ nopens \in [Inodes -> Nat]
    /\ hurt \subseteq {"space", "stale", "triple"}

\* every reference to a block from inode i: where the reference is and the block
RootRefs(i) == {[at |-> <<i, s>>, b |-> inode[i].root[s],
                 depth |-> IF s < Direct THEN 0 ELSE s - Direct + 1] :
                   s \in {t \in Slots : inode[i].root[t] # NoBlock}}
NextRefs(refs) ==
    UNION {{[at |-> Append(r.at, c), b |-> block[r.b][c], depth |-> r.depth - 1] :
               c \in {k \in Cells : block[r.b][k] # NoBlock}} :
           r \in {x \in refs : x.depth > 0}}
Refs(i) ==
    LET one == RootRefs(i)
        two == NextRefs(one)
        three == NextRefs(two)
    IN  one \cup two \cup three \cup NextRefs(three)
AllRefs == UNION {Refs(i) : i \in inuse}

\* A block belongs to one place of one file and its bit is set, so that no write
\* changes another file or an indirect block and no free takes a block away from
\* its owner: also after writes that ran out of space half-way.
NoSharedBlock ==
    hurt \subseteq {"space"} =>
        /\ ~unset
        /\ \A r \in AllRefs : r.b \in bitmap
        /\ Cardinality({r.b : r \in AllRefs}) = Cardinality(AllRefs)

\* Unless a write ran out of space, every block that is not free belongs to a file
\* that has a name or is open.
NoLostBlock ==
    hurt = {} =>
        /\ bitmap = {r.b : r \in AllRefs}
        /\ inuse = {i \in Inodes : names[i] > 0 \/ nopens[i] > 0}

\* What a read returns is what the writes and truncates left there, zero where
\* nothing was written: data that was cut off does not come back when the file
\* grows again, and a reused block shows nothing of its last owner.
ContentExact ==
    hurt = {} => \A i \in inuse :
        /\ inode[i].size = content[i].size
        /\ {c \in 0..(inode[i].size - 1) :
              LET b == GetBlkno(Copy(inode[i]), c \div Width)
              IN  b # NoBlock /\ block[b][c % Width] # 0} = content[i].ones

\* The link count on the device is the number of names, 1 for an unlinked file
\* that is still open.
LinkCountExact ==
    "stale" \notin hurt => \A i \in inuse :
        inode[i].links = IF names[i] = 0 THEN 1 ELSE names[i]

\* "be sure the bit for this block number is actually set": a block that is freed
\* is allocated.
FreesOnlySet == ~unset
=============================================================================
