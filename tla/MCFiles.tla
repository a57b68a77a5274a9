------------------------------ MODULE MCFiles ------------------------------
(* Descriptors and what they lead to: the descriptor tables (FdTable, extended *)
(* here) of a process of two threads and its child, the name space of ramfs,   *)
(* the blocks of files of ext2 and the name space of ext2.  A behaviour is one *)
(* of one component; running says which.                                       *)
EXTENDS FdTable, TLC

CONSTANTS p1, p2, t1, t2, t3, n1, n2, f1, f2, s1, s2, h1, h2, nil, short, long

VARIABLE running

\* the variables of Ramfs, Ext2File and Ext2Dir
VARIABLES
    r_kind, r_ents, r_target, r_nlink, r_nopens, r_shared, r_desc,
    r_ninodes, r_failed, r_broken, r_ops,
    e_bitmap, e_block, e_inode, e_inuse, e_nopens, e_defer, e_handle, e_cache,
    e_names, e_content, e_hurt, e_unset, e_ops,
    d_kind, d_inuse, d_ents, d_links, d_nopens, d_defer, d_handle, d_free,
    d_hurt, d_ops

rvars == << r_kind, r_ents, r_target, r_nlink, r_nopens, r_shared, r_desc,
            r_ninodes, r_failed, r_broken, r_ops >>
evars == << e_bitmap, e_block, e_inode, e_inuse, e_nopens, e_defer, e_handle,
            e_cache, e_names, e_content, e_hurt, e_unset, e_ops >>
dvars == << d_kind, d_inuse, d_ents, d_links, d_nopens, d_defer, d_handle,
            d_free, d_hurt, d_ops >>

MCProcOf == [t \in {t1, t2, t3} |-> IF t = t3 THEN p2 ELSE p1]

\* two names, four inodes and two open files
R == INSTANCE Ramfs WITH
        kind <- r_kind, ents <- r_ents, target <- r_target, nlink <- r_nlink,
        nopens <- r_nopens, shared <- r_shared, desc <- r_desc,
        ninodes <- r_ninodes, failed <- r_failed, broken <- r_broken, ops <- r_ops,
        Names <- {n1, n2}, Files <- {f1, f2}, Shareds <- {s1, s2}, None <- nil,
        MaxInodes <- 4, MaxOps <- 5

\* two files, six blocks with one direct block and tables of two; sizes reach the
\* triple indirect block
E == INSTANCE Ext2File WITH
        bitmap <- e_bitmap, block <- e_block, inode <- e_inode,
        inuse <- e_inuse, nopens <- e_nopens, defer <- e_defer,
        handle <- e_handle, cache <- e_cache, names <- e_names,
        content <- e_content, hurt <- e_hurt, unset <- e_unset, ops <- e_ops,
        Handles <- {h1, h2}, Inodes <- {1, 2}, NumBlocks <- 6, Width <- 2,
        Direct <- 1, Offsets <- {0, 6, 18}, Counts <- {3}, Lengths <- {1, 20},
        MaxOps <- 6

\* a short and a long name, and directories of one or two blocks
D == INSTANCE Ext2Dir WITH
        kind <- d_kind, inuse <- d_inuse, ents <- d_ents, links <- d_links,
        nopens <- d_nopens, defer <- d_defer, handle <- d_handle,
        free <- d_free, hurt <- d_hurt, ops <- d_ops,
        Names <- {short, long}, Size <- (short :> 3) @@ (long :> 4),
        DotSize <- 2, BlockSize <- 7, NumBlocks <- 3, MaxInodes <- 4,
        Handles <- {h1, h2}, MaxOps <- 7

MCInit == /\ running \in {"fdtable", "ramfs", "ext2file", "ext2dir"}
          /\ Init /\ R!Init /\ E!Init /\ D!Init

MCNext ==
    /\ UNCHANGED running
    /\ \/ running = "fdtable" /\ Next /\ UNCHANGED <<rvars, evars, dvars>>
       \/ running = "ramfs" /\ R!Next /\ UNCHANGED <<vars, evars, dvars>>
       \/ running = "ext2file" /\ E!Next /\ UNCHANGED <<vars, rvars, dvars>>
       \/ running = "ext2dir" /\ D!Next /\ UNCHANGED <<vars, rvars, evars>>

MCSpec == MCInit /\ [][MCNext]_<<running, vars, rvars, evars, dvars>>

\* a device that a stale inode was written to is not followed further
Sound == e_hurt \subseteq {"space"}

NameSymmetry == Permutations({n1, n2})

-----------------------------------------------------------------------------
\* Ramfs: a tree of directories whose inodes live as long as a name or an open file
\* (Ramfs!TreeShape, LifetimeExact, LinksExact and OpensExact).
RamfsExact ==
    running = "ramfs" =>
        R!TypeOK /\ R!TreeShape /\ R!LifetimeExact /\ R!LinksExact /\ R!OpensExact

\* Files of ext2: a block belongs to one file, a file holds what was written to it
\* and its link count is its number of names (Ext2File!NoSharedBlock, NoLostBlock,
\* ContentExact and LinkCountExact).
FileBlocksExact ==
    running = "ext2file" =>
        E!TypeOK /\ E!NoSharedBlock /\ E!NoLostBlock /\ E!ContentExact /\ E!LinkCountExact

\* Directories of ext2: entries and open files have allocated inodes, nothing is
\* lost, the links are counted and the records fill their blocks
\* (Ext2Dir!NoDanglingEntry, NothingLost, LinkCounts and RecordsFill).
DirectoriesExact ==
    running = "ext2dir" =>
        D!TypeOK /\ D!NoDanglingEntry /\ D!NothingLost /\ D!LinkCounts /\ D!RecordsFill
=============================================================================
