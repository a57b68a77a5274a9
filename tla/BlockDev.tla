------------------------------ MODULE BlockDev ------------------------------
(***************************************************************************)
(* The device an ext2 image is mounted from: a verity device, which checks *)
(* every block against a hash tree (utils/verityblkdev.c), or, in debug    *)
(* mode, the image itself (utils/rawblkdev.c), and a LUKS device on top if *)
(* there is a key (utils/luksblkdev.c, target/shared/luks.c).  Nothing is  *)
(* ever written to the host: what the file system writes stays in the      *)
(* caches.  The host may change the image and the tree at any time.        *)
(*                                                                         *)
(* A sector holds a value, a ciphertext with its key and initial vector,   *)
(* or the LUKS header; hashes do not collide, so a hash is what it hashes. *)
(***************************************************************************)
EXTENDS Integers, Sequences, FiniteSets, SequencesExt, FiniteSetsExt, TLC

CONSTANTS NumBlocks,     \* data blocks of the image
          Factor,        \* sectors per data block
          Digests,       \* digests per hash block
          Offset,        \* payload_offset, if there is a LUKS header
          Modes,         \* cipher_mode and key size a header may name
          MaxCache,      \* MAX_CACHE_BLOCKS
          MaxChains,     \* MAX_CHAINS
          LruChains, LruSize, LookaheadSize, QueueSize,   \* of the raw device
          Values,        \* what the file system writes
          MaxOps, MaxFaults

VARIABLES
    dev,      \* "none", "verity", "raw" or "failed"
    luks,     \* is there a LUKS device on top?
    mode,     \* the cipher of its header
    disk,     \* the host's image, by sector
    tree,     \* the host's hash tree, by level and node; after Load the one loaded, if any
    written,  \* raw: the cache of what was put
    recent,   \* raw: lru[], sequences of [blkno, data]
    ahead,    \* raw: the lookahead list, of [blkno, data]
    cache,    \* verity: the cached blocks
    chains,   \* verity: chains[], sequences of block numbers
    lru,      \* verity: the LRU list
    dirty,    \* verity: blocks written to since they are cached
    last,     \* what the file system wrote last to each sector
    lost,     \* verity: blocks that were evicted with something written in them
    res,      \* the last call and its result
    ops, faults

rawVars == <<written, recent, ahead>>
verityVars == <<cache, chains, lru, dirty, lost>>
vars == <<dev, luks, mode, disk, tree, rawVars, verityVars, last, res, ops, faults>>

NumSectors == NumBlocks * Factor
Blocks == 0..NumBlocks - 1
Payload == IF luks THEN Offset ELSE 0
Sectors == 0..NumSectors - 1 - Payload
EIO == [kind |-> "eio"]
Plain(v) == [kind |-> "plain", val |-> v]
Header == [kind |-> "header"]

-----------------------------------------------------------------------------
(***************************************************************************)
(* LUKS sectors                                                            *)
(***************************************************************************)
\* _get_cipher_info: AES in three modes, with the key sizes each has
Supported == \/ mode.name \in {"ecb", "cbc"} /\ mode.bits \in {128, 256}
             \/ mode.name = "xts" /\ mode.bits \in {256, 512}

\* _gen_iv: ECB has none, the others the sector number (CBC 32 bits of it)
Iv(s) == IF mode.name = "ecb" THEN 0 ELSE s

\* myst_luks_encrypt
Encrypt(s, v) == [kind |-> "cipher", iv |-> Iv(s), val |-> v]

DecryptAtZero(s, c) == IF c.kind = "cipher" /\ c.iv = Iv(0) THEN Plain(c.val) ELSE EIO

\* myst_luks_decrypt; what was encrypted for another sector comes out as noise
Decrypt(s, c) == IF c.kind = "cipher" /\ c.iv = Iv(s) THEN Plain(c.val) ELSE [kind |-> "noise"]

\* _get and _put of luksblkdev.c around what the lower device holds
Down(s, v) == IF luks THEN Encrypt(s, v) ELSE Plain(v)
Up(s, c) == IF ~luks \/ c = EIO THEN c ELSE IF ~Supported THEN EIO ELSE Decrypt(s, c)

-----------------------------------------------------------------------------
(***************************************************************************)
(* The hash tree                                                           *)
(***************************************************************************)
CeilDiv(n, m) == (n + m - 1) \div m

\* the number of hash blocks at each level, leaves first
NNodes[i \in 0..4] == CeilDiv(IF i = 0 THEN NumBlocks ELSE NNodes[i - 1], Digests)
NLevels == 1 + Min({i \in 0..4 : NNodes[i] = 1})

Image == [s \in 0..NumSectors - 1 |->
             IF ~luks THEN Plain(100 + s)
             ELSE IF s < Offset THEN Header ELSE Encrypt(s - Offset, 100 + s - Offset)]
DataOf(image, b) == [o \in 0..Factor - 1 |-> image[b * Factor + o]]

\* the tree of an image; a level is over the n digests of the one below
Level(n, digest) ==
    [j \in 0..CeilDiv(n, Digests) - 1 |->
        [d \in 0..Min({Digests, n - j * Digests}) - 1 |-> digest[j * Digests + d]]]
Built(image) ==
    LET B[i \in 0..NLevels - 1] ==
            IF i = 0 THEN Level(NumBlocks, [b \in Blocks |-> DataOf(image, b)])
                     ELSE Level(NNodes[i - 1], B[i - 1])
    IN B

AcceptedBelow(t) ==
    \A i \in 0..NLevels - 2 : \A j \in DOMAIN t[i] :
        t[i + 1][j \div Digests][j % Digests] = t[i][j]

\* _load_hash_tree: every node against its digest in the level above, the top one
\* against the signed root hash
Accepted(t) ==
    \A i \in 0..NLevels - 1 : \A j \in DOMAIN t[i] :
        IF i + 1 # NLevels
          THEN t[i + 1][j \div Digests][j % Digests] = t[i][j]
          ELSE t[i][j] = Built(Image)[i][0]

Leaf(b) == tree[0][b \div Digests][b % Digests]

\* the image and the tree as the host has them: the ones that were signed, or with a
\* sector changed, and the tree above it changed to match up to some level
Altered(s) == [Image EXCEPT ![s] = Plain(0)]
HostTrees ==
    {Built(Image)} \cup
    {[i \in 0..NLevels - 1 |-> IF i < k THEN Built(Altered(s))[i] ELSE Built(Image)[i]] :
        s \in {0, NumSectors - 1}, k \in 1..NLevels}

Init ==
    /\ dev = "none" /\ luks \in BOOLEAN
    /\ mode \in IF luks THEN Modes ELSE {[name |-> "none", bits |-> 0]}
    /\ disk = Image /\ tree \in HostTrees
    /\ written = <<>> /\ recent = [c \in 0..LruChains - 1 |-> <<>>] /\ ahead = <<>>
    /\ cache = <<>> /\ chains = [c \in 0..MaxChains - 1 |-> <<>>]
    /\ lru = <<>> /\ dirty = {} /\ lost = {}
    /\ last = [s \in Sectors |-> 100 + s]
    /\ res = [op |-> "none", sec |-> 0, val |-> EIO, read |-> TRUE]
    /\ ops = 0 /\ faults = 0

\* the host changes a sector of a verified image
Tamper(s) ==
    /\ faults < MaxFaults /\ dev = "verity"
    /\ disk' = [disk EXCEPT ![s] = Plain(0)]
    /\ faults' = faults + 1
    /\ UNCHANGED <<dev, luks, mode, tree, rawVars, verityVars, last, res, ops>>

MayOp == ops < MaxOps /\ ops' = ops + 1
Got(s, c) == res' = [op |-> "get", sec |-> s, val |-> Up(s, c), read |-> TRUE]
Wrote(s, v) == /\ res' = [op |-> "put", sec |-> s, val |-> Plain(v), read |-> TRUE]
               /\ last' = [last EXCEPT ![s] = v]
Refused(s) == /\ res' = [op |-> "fail", sec |-> s, val |-> EIO, read |-> TRUE]
              /\ UNCHANGED last
Unread(s) == /\ res' = [op |-> "get", sec |-> s, val |-> EIO, read |-> FALSE]
             /\ UNCHANGED last

-----------------------------------------------------------------------------
(***************************************************************************)
(* The raw device: what was put, then the LRU list of the block's chain,   *)
(* then the lookahead buffers, then the device                             *)
(***************************************************************************)
Chain(b) == b % LruChains
Placed(b) == {i \in DOMAIN recent[Chain(b)] : recent[Chain(b)][i].blkno = b}
Covers(e, b) == b >= e.blkno /\ b < e.blkno + LookaheadSize
Buffers(b) == {i \in DOMAIN ahead : Covers(ahead[i], b)}

PutBack(q, e) == LET r == <<e>> \o q
                 IN IF Len(r) > LruSize THEN SubSeq(r, 1, Len(r) - 1) ELSE r

\* myst_read_block_device: fewer sectors at the end; the rest of the buffer is as it was
Buffer(b) == [o \in 0..LookaheadSize - 1 |->
                IF b + o < NumSectors THEN disk[b + o] ELSE [kind |-> "noise"]]

\* a block read from the device, first in its LRU list and last in the lookahead list
Looked(b) ==
    /\ recent' = [recent EXCEPT ![Chain(b)] = PutBack(@, [blkno |-> b, data |-> disk[b]])]
    /\ \E q \in {Append(ahead, [blkno |-> b, data |-> Buffer(b)])} :
          ahead' = IF Len(q) > QueueSize THEN Tail(q) ELSE q

\* _get of rawblkdev.c
GetRaw(s) ==
    /\ MayOp /\ dev = "raw"
    /\ \E b \in {s + Payload} :
         \/ /\ b \in DOMAIN written
            /\ Got(s, written[b]) /\ UNCHANGED <<recent, ahead>>
         \/ /\ b \notin DOMAIN written
            /\ \E i \in Placed(b), q \in {recent[Chain(b)]} :
                  /\ Got(s, q[i].data)
                  /\ recent' = [recent EXCEPT ![Chain(b)] = <<q[i]>> \o RemoveAt(q, i)]
            /\ UNCHANGED ahead
         \/ /\ b \notin DOMAIN written /\ Placed(b) = {} /\ Buffers(b) # {}
            /\ \E e \in {ahead[Min(Buffers(b))]} : Got(s, e.data[b - e.blkno])
            /\ UNCHANGED <<recent, ahead>>
         \/ /\ b \notin DOMAIN written /\ Placed(b) = {} /\ Buffers(b) = {}
            /\ Got(s, Buffer(b)[0]) /\ Looked(b)
    /\ UNCHANGED <<dev, luks, mode, disk, tree, written, verityVars, last, faults>>

PutNew(b, c) == IF b \in DOMAIN written THEN written ELSE (b :> c) @@ written

\* the cache of what was put
PutWritten(b, c) == (b :> c) @@ written

\* _put of rawblkdev.c; the device is opened read-only
PutRaw(s, v) ==
    /\ MayOp /\ dev = "raw"
    /\ IF luks /\ ~Supported
         THEN Refused(s) /\ UNCHANGED written
         ELSE Wrote(s, v) /\ written' = PutWritten(s + Payload, Down(s, v))
    /\ UNCHANGED <<dev, luks, mode, disk, tree, recent, ahead, verityVars, faults>>

-----------------------------------------------------------------------------
(***************************************************************************)
(* The verity device                                                       *)
(***************************************************************************)
Slot(b) == b % MaxChains

AnyBlock(b) == TRUE

\* _read_data_block: does the block have the hash of its leaf?
Genuine(b) == DataOf(disk, b) = Leaf(b)

\* _get_cache: to the end of the LRU list, unless it is dirty or first in its chain
Touched(b) == IF b \in dirty \/ Head(chains[Slot(b)]) = b THEN lru
              ELSE Append(SelectSeq(lru, LAMBDA x : x # b), b)

\* _cache_evict: the first block of the LRU list, if it has grown to the limit
Evicted(q) == IF Len(q) >= MaxCache THEN {Head(q)} ELSE {}

\* _put_cache: a block read from the device, with or without something written in it
PutCache(b, data) ==
    \E q \in {Append(lru, b)} : \E out \in {Evicted(q)} :
        /\ lru' = SelectSeq(q, LAMBDA x : x \notin out)
        /\ chains' = [c \in DOMAIN chains |->
                        SelectSeq(IF c = Slot(b) THEN <<b>> \o chains[c] ELSE chains[c],
                                  LAMBDA x : x \notin out)]
        /\ \E full \in {(b :> data) @@ cache} :
              /\ cache' = [x \in DOMAIN full \ out |-> full[x]]
              /\ lost' = lost \cup {x \in out : full[x] # Leaf(x)}

\* _get_raw_block
GetVerity(s) ==
    /\ MayOp /\ dev = "verity"
    /\ \E b \in {(s + Payload) \div Factor}, o \in {(s + Payload) % Factor} :
         \/ /\ b \in DOMAIN cache
            /\ Got(s, cache[b][o]) /\ lru' = Touched(b)
            /\ UNCHANGED <<cache, chains, lost>>
         \/ /\ b \notin DOMAIN cache /\ Genuine(b)
            /\ Got(s, DataOf(disk, b)[o]) /\ PutCache(b, DataOf(disk, b))
         \/ /\ b \notin DOMAIN cache /\ ~Genuine(b)
            /\ Got(s, EIO) /\ UNCHANGED <<cache, chains, lru, lost>>
    /\ UNCHANGED <<dev, luks, mode, disk, tree, rawVars, dirty, last, faults>>

KeptListed(b) == lru

\* a block that is written to leaves the LRU list, so that it is not evicted
Unlisted(b) == SelectSeq(lru, LAMBDA x : x # b)

\* _put_raw_block: a block that was not cached is put in the cache changed, but clean
PutVerity(s, v) ==
    /\ MayOp /\ dev = "verity"
    /\ \E b \in {(s + Payload) \div Factor}, o \in {(s + Payload) % Factor} :
         \/ /\ luks /\ ~Supported
            /\ Refused(s) /\ UNCHANGED verityVars
         \/ /\ ~luks \/ Supported
            /\ b \in DOMAIN cache
            /\ Wrote(s, v)
            /\ cache' = [cache EXCEPT ![b][o] = Down(s, v)]
            /\ lru' = Unlisted(b) /\ dirty' = dirty \cup {b}
            /\ UNCHANGED <<chains, lost>>
         \/ /\ ~luks \/ Supported
            /\ b \notin DOMAIN cache /\ Genuine(b)
            /\ Wrote(s, v)
            /\ PutCache(b, [DataOf(disk, b) EXCEPT ![o] = Down(s, v)])
            /\ UNCHANGED dirty
         \/ /\ ~luks \/ Supported
            /\ b \notin DOMAIN cache /\ ~Genuine(b)
            /\ Refused(s) /\ UNCHANGED verityVars
    /\ UNCHANGED <<dev, luks, mode, disk, tree, rawVars, faults>>

-----------------------------------------------------------------------------
\* myst_load_fs: a verified signature, or debug mode without one, and a key or none;
\* a header that is not there or a key of another size fails the LUKS device.  The header
\* is read through the device below, twice from its first block (_read_phdr), which is
\* in the caches from then on.
Load(verified, debug, rightKey) ==
    /\ dev = "none"
    /\ dev' = CASE verified /\ ~Accepted(tree) -> "failed"
                [] ~verified /\ ~debug -> "failed"
                [] luks /\ (disk[0] # Header \/ ~rightKey) -> "failed"
                [] verified -> "verity"
                [] OTHER -> "raw"
    /\ IF luks /\ dev' = "verity" THEN PutCache(0, DataOf(disk, 0))
       ELSE UNCHANGED <<lru, chains, cache, lost>>
    /\ IF luks /\ dev' = "raw" THEN Looked(0) ELSE UNCHANGED <<recent, ahead>>
    /\ tree' = IF dev' = "verity" THEN tree ELSE <<>>
    /\ UNCHANGED <<luks, mode, disk, written, dirty, last, res, ops, faults>>

\* the host fails a read of a block that is in no cache, or gives nothing
ReadFails(s) ==
    /\ MayOp /\ faults < MaxFaults /\ faults' = faults + 1
    /\ \E b \in {s + Payload} :
         \/ /\ dev = "raw" /\ b \notin DOMAIN written /\ Placed(b) = {} /\ Buffers(b) = {}
            /\ Unread(s)
         \/ /\ dev = "verity" /\ b \div Factor \notin DOMAIN cache
            /\ \/ Unread(s)
               \/ (~luks \/ Supported) /\ Refused(s)
    /\ UNCHANGED <<dev, luks, mode, disk, tree, rawVars, verityVars>>

Next ==
    \/ \E v, d, k \in BOOLEAN : Load(v, d, k)
    \/ \E s \in 0..NumSectors - 1 : Tamper(s)
    \/ \E s \in Sectors : ReadFails(s)
    \/ \E s \in Sectors : GetRaw(s)
    \/ \E s \in Sectors, v \in Values : PutRaw(s, v)
    \/ \E s \in Sectors : GetVerity(s)
    \/ \E s \in Sectors, v \in Values : PutVerity(s, v)

Spec == Init /\ [][Next]_vars

-----------------------------------------------------------------------------
\* A get returns an error or what was last put into the sector, whatever the host did to
\* the image and whichever cache the sector came from; a sector of a block that verity has
\* evicted with writes in it can come back as it was in the image.
ReadsExact ==
    res.op = "get" /\ res.val # EIO =>
        \/ res.val = Plain(last[res.sec])
        \/ /\ (res.sec + Payload) \div Factor \in lost
           /\ res.val = Plain(100 + res.sec)

\* A get fails only when its own read fails, when the host altered this very block and the
\* device checks it, or when the cipher is unsupported: never because of another block, and
\* never on account of an earlier failure.
ErrorsExact ==
    res.op = "get" /\ res.val = EIO =>
        \/ ~res.read
        \/ \E b \in {(res.sec + Payload) \div Factor} :
              dev = "verity" /\ DataOf(disk, b) # DataOf(Image, b)
        \/ luks /\ ~Supported

\* A device opens over a hash tree only if its leaves are those of the signed image.
LeavesGenuine ==
    dev = "verity" => \A b \in Blocks : Leaf(b) = DataOf(Image, b)

\* The verity cache: every cached block is in its chain and either dirty or in the LRU
\* list, the list stays under its limit, and a block that was written to while it was
\* cached is never evicted.
CacheExact ==
    /\ DOMAIN cache = ToSet(lru) \cup dirty /\ ToSet(lru) \cap dirty = {}
    /\ Len(lru) < MaxCache /\ IsInjective(lru)
    /\ \A c \in DOMAIN chains : ToSet(chains[c]) = {b \in DOMAIN cache : Slot(b) = c}

BlockDevExact == ReadsExact /\ ErrorsExact /\ LeavesGenuine /\ CacheExact
=============================================================================
