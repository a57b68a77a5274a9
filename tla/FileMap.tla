------------------------------ MODULE FileMap ------------------------------
(***************************************************************************)
(* Files in memory (kernel/mmanutils.c): mmap of a descriptor reads the    *)
(* file into pages and keeps, for every page, a duplicate of the           *)
(* descriptor and an offset in the vector fdmappings; msync writes pages   *)
(* back through that descriptor; munmap and exec clear the entries and     *)
(* then, outside the lock, close the descriptors they held.  Neither       *)
(* writes a page back: what was stored since the last msync is dropped.    *)
(*                                                                         *)
(* Which pages are free is module Mman's matter.  Here a page is free, the *)
(* process's own or another's, and a file is a function from page offsets  *)
(* to values with a size.                                                  *)
(***************************************************************************)
EXTENDS Integers, Sequences, FiniteSets

CONSTANTS
    NumPages,
    Fds,           \* descriptors, 0..n
    Files,
    Checked,       \* those whose file system looks at the access mode (ext2; ramfs does not)
    Offsets,       \* page offsets in a file, 0..m
    MaxCalls

Pages == 1..NumPages
NoFile == [file |-> 0, mode |-> "none", own |-> "none"]
BadFd == -1        \* -EMFILE, which is not the -1 that the code tests for
Unused == [used |-> FALSE, fd |-> 0, off |-> 0]
None == <<>>       \* no file

VARIABLES
    owner,         \* of each page: "free", "own" or "other" (pids)
    prot,          \* "r" or "rw"
    cell,          \* value of each page
    map,           \* fdmappings
    fdt,           \* the descriptor table
    size, data,    \* the files
    closing,       \* descriptors that a munmap still has to close
    ret,
    calls,
    truth,         \* ghost: the file and offset that the program mapped at a page
    excused        \* ghost: descriptors and pages that the entries do not follow any more

memVars == <<owner, prot, cell, map, truth>>
fileVars == <<size, data>>
vars == <<memVars, fileVars, fdt, closing, ret, calls, excused>>

Init ==
    /\ owner \in {[p \in Pages |-> IF p = q THEN "other" ELSE "free"] : q \in {0, 2}}
    /\ prot = [p \in Pages |-> "rw"]
    /\ cell = [p \in Pages |-> 0]
    /\ map = [p \in Pages |-> Unused]
    /\ fdt = [d \in Fds |-> NoFile]
    /\ size = [f \in Files |-> f]
    /\ data = [f \in Files |-> [k \in Offsets |-> IF k < f THEN 10 * f + k ELSE 0]]
    /\ closing = <<>>
    /\ ret = "ok" /\ calls = 0
    /\ truth = [p \in Pages |-> None]
    /\ excused = {}

Begin(r) == calls < MaxCalls /\ calls' = calls + 1 /\ ret' = r
Run(a, n) == a..(a + n - 1)
IsRun(a, n, who) == Run(a, n) \subseteq Pages /\ \A p \in Run(a, n) : owner[p] = who

\* the lowest free descriptor
Free == {d \in Fds : fdt[d] = NoFile}
Lowest == CHOOSE d \in Free : \A e \in Free : d <= e

-----------------------------------------------------------------------------
\* myst_syscall_open
Open(f, m) ==
    /\ Free # {} /\ Begin("ok")
    /\ fdt' = [fdt EXCEPT ![Lowest] = [file |-> f, mode |-> m, own |-> "user"]]
    /\ UNCHANGED <<memVars, fileVars, closing, excused>>

\* myst_syscall_close, which the program may call with any number: the duplicates are in
\* its own table
Close(d) ==
    /\ fdt[d] # NoFile /\ Begin("ok")
    /\ fdt' = [fdt EXCEPT ![d] = NoFile]
    /\ excused' = IF fdt[d].own = "map" THEN excused \cup {<<"fd", d>>} ELSE excused
    /\ UNCHANGED <<memVars, fileVars, closing>>

\* the descriptors of the entries in S, which something other than the unmapping of all
\* their pages happens to
FdsOf(S) == {<<"fd", map[p].fd>> : p \in {q \in S : map[q].used}}

\* myst_mmap refuses a descriptor that cannot be read; the test for MAP_SHARED with
\* PROT_WRITE looks at the flags of the file by mistake and refuses nothing
MayMap(d) == fdt[d].own = "user" /\ fdt[d].mode # "w"

\* _map_file_onto_memory: the content; past the end of the file a page stays as it is
Filled(d, a, n, o) ==
    [p \in Pages |->
        IF p \in Run(a, n) /\ o + (p - a) < size[fdt[d].file]
        THEN data[fdt[d].file][o + (p - a)] ELSE cell[p]]

\* _add_file_mapping: one duplicate for all the pages; what an entry held before is
\* overwritten
AddMapping(d, a, n, o) ==
    LET dupfd == IF Free = {} THEN BadFd ELSE Lowest
    IN  /\ fdt' = IF Free = {} THEN fdt ELSE [fdt EXCEPT ![dupfd] = [fdt[d] EXCEPT !.own = "map"]]
        /\ map' = [p \in Pages |->
                     IF p \in Run(a, n) THEN [used |-> TRUE, fd |-> dupfd, off |-> o + (p - a)]
                     ELSE map[p]]
        /\ truth' = [p \in Pages |->
                       IF p \in Run(a, n) THEN <<fdt[d].file, o + (p - a)>> ELSE truth[p]]
        /\ excused' = (excused \cup (IF Free = {} THEN {<<"fd", BadFd>>} ELSE {})
                               \cup FdsOf(Run(a, n))) \ {<<"page", p>> : p \in Run(a, n)}

\* myst_mmap of a descriptor, at an address that myst_mman_mmap chooses
Mmap(d, a, n, o, w) ==
    /\ IsRun(a, n, "free") /\ MayMap(d) /\ Begin("ok")
    /\ owner' = [p \in Pages |-> IF p \in Run(a, n) THEN "own" ELSE owner[p]]
    /\ prot' = [p \in Pages |-> IF p \in Run(a, n) THEN w ELSE prot[p]]
    /\ cell' = Filled(d, a, n, o)
    /\ AddMapping(d, a, n, o)
    /\ UNCHANGED <<fileVars, closing>>

\* at an address that was given, whatever the flags: the pages must be mapped already
MmapAt(d, a, n, o, w) ==
    /\ IsRun(a, n, "own") /\ MayMap(d) /\ Begin("ok")
    /\ prot' = [p \in Pages |-> IF p \in Run(a, n) THEN w ELSE prot[p]]
    /\ cell' = Filled(d, a, n, o)
    /\ AddMapping(d, a, n, o)
    /\ UNCHANGED <<owner, fileVars, closing>>

\* anonymous memory, anywhere or with MAP_FIXED over what is there: fdmappings is not
\* looked at
MmapAnon(a, n) ==
    /\ IsRun(a, n, "free") \/ IsRun(a, n, "own")
    /\ Begin("ok")
    /\ owner' = [p \in Pages |-> IF p \in Run(a, n) THEN "own" ELSE owner[p]]
    /\ prot' = [p \in Pages |-> IF p \in Run(a, n) THEN "rw" ELSE prot[p]]
    /\ cell' = [p \in Pages |-> IF p \in Run(a, n) THEN 0 ELSE cell[p]]
    /\ truth' = [p \in Pages |-> IF p \in Run(a, n) THEN None ELSE truth[p]]
    /\ excused' = excused \cup FdsOf(Run(a, n))
    /\ UNCHANGED <<map, fdt, fileVars, closing>>

\* myst_mremap to another place: the pages go, their entries stay
Mremap(a, n, b) ==
    /\ IsRun(a, n, "own") /\ IsRun(b, n, "free") /\ Begin("ok")
    /\ owner' = [p \in Pages |-> IF p \in Run(a, n) THEN "free"
                                 ELSE IF p \in Run(b, n) THEN "own" ELSE owner[p]]
    /\ prot' = [p \in Pages |-> IF p \in Run(b, n) THEN prot[p - b + a] ELSE prot[p]]
    /\ cell' = [p \in Pages |-> IF p \in Run(a, n) THEN 0
                                ELSE IF p \in Run(b, n) THEN cell[p - b + a] ELSE cell[p]]
    /\ truth' = [p \in Pages |-> IF p \in Run(a, n) THEN None
                                 ELSE IF p \in Run(b, n) THEN truth[p - b + a] ELSE truth[p]]
    /\ excused' = excused \cup FdsOf(Run(a, n)) \cup {<<"page", p>> : p \in Run(b, n)}
    /\ UNCHANGED <<map, fdt, fileVars, closing>>

\* the program stores to a page
Store(p) ==
    /\ owner[p] = "own" /\ prot[p] = "rw" /\ cell[p] # 7 /\ Begin("ok")
    /\ cell' = [cell EXCEPT ![p] = 7]
    /\ UNCHANGED <<owner, prot, map, truth, fdt, fileVars, closing, excused>>

-----------------------------------------------------------------------------
\* mutant: every page adds its descriptor
FdListEach(S) ==
    LET used == {p \in S : map[p].used}
    IN  [i \in 1..Cardinality(used) |->
           map[CHOOSE p \in used : Cardinality({q \in used : q >= p}) = i].fd]

\* _remove_file_mappings: the descriptors of the pages in S, each once for a stretch
\* of pages that share it, the last one first
FdList(S) ==
    LET used == {p \in S : map[p].used}
        prev(p) == {q \in used : q < p}
        starts == {p \in used : prev(p) = {} \/
                                map[CHOOSE q \in prev(p) : \A r \in prev(p) : r <= q].fd # map[p].fd}
    IN  [i \in 1..Cardinality(starts) |->
           map[CHOOSE p \in starts : Cardinality({q \in starts : q >= p}) = i].fd]

\* the descriptors of which a munmap takes a part of the pages
Split(S) == FdsOf(S) \cap FdsOf(Pages \ S)

\* __myst_munmap under the lock
Unmap(S) ==
    /\ owner' = [p \in Pages |-> IF p \in S THEN "free" ELSE owner[p]]
    /\ cell' = [p \in Pages |-> IF p \in S THEN 0 ELSE cell[p]]
    /\ map' = [p \in Pages |-> IF p \in S THEN Unused ELSE map[p]]
    /\ truth' = [p \in Pages |-> IF p \in S THEN None ELSE truth[p]]
    /\ excused' = (excused \cup Split(S)) \ {<<"page", p>> : p \in S}
    /\ UNCHANGED <<prot, fdt, fileVars>>

\* myst_munmap
Munmap(a, n) ==
    /\ closing = <<>> /\ IsRun(a, n, "own") /\ Begin("ok")
    /\ Unmap(Run(a, n))
    /\ closing' = FdList(Run(a, n))

\* myst_release_process_mappings of exec: the pages of the process, one stretch after
\* the other
Release ==
    /\ closing = <<>> /\ Begin("ok")
    /\ Unmap({p \in Pages : owner[p] = "own"})
    /\ closing' = FdList({p \in Pages : owner[p] = "own"})

\* _close_file_handles, without the lock; a bad descriptor is ignored
CloseHandle ==
    /\ closing # <<>>
    /\ closing' = Tail(closing)
    /\ fdt' = IF Head(closing) \in Fds THEN [fdt EXCEPT ![Head(closing)] = NoFile] ELSE fdt
    /\ UNCHANGED <<memVars, fileVars, ret, calls, excused>>

-----------------------------------------------------------------------------
\* the pages of S that msync writes: mapped to a file and writable
Dirty(S) == {p \in S : map[p].used /\ prot[p] = "rw"}

\* pwrite fails for a descriptor that is closed, and for one that is not open for writing
\* if the file system looks at that
CannotWrite(d) ==
    IF d \notin Fds THEN TRUE
    ELSE fdt[d] = NoFile \/ (fdt[d].file \in Checked /\ fdt[d].mode = "r")
Failing(S) == {p \in Dirty(S) : CannotWrite(map[p].fd)}

\* those written: up to the first failure
Written(S) == {p \in Dirty(S) : \A q \in Failing(S) : p < q}

\* mutant: every page goes to the offset of the first page
SyncedAtFirst(S) ==
    [f \in Files |-> [k \in Offsets |->
        LET from == {p \in Written(S) : fdt[map[p].fd].file = f /\ k = map[CHOOSE q \in Written(S) : \A r \in Written(S) : q <= r].off}
        IN  IF from = {} THEN data[f][k]
            ELSE cell[CHOOSE p \in from : \A q \in from : q <= p]]]

\* _sync_file for each of them in turn
Synced(S) ==
    [f \in Files |-> [k \in Offsets |->
        LET from == {p \in Written(S) : fdt[map[p].fd].file = f /\ map[p].off = k}
        IN  IF from = {} THEN data[f][k]
            ELSE cell[CHOOSE p \in from : \A q \in from : q <= p]]]

\* myst_msync, of any pages
Msync(a, n) ==
    /\ Run(a, n) \subseteq Pages
    /\ Begin(IF Failing(Run(a, n)) = {} THEN "ok" ELSE "EBADF")
    /\ data' = Synced(Run(a, n))
    /\ size' = [f \in Files |->
                  LET ends == {map[p].off + 1 : p \in {q \in Written(Run(a, n)) : fdt[map[q].fd].file = f}}
                  IN  CHOOSE s \in ends \cup {size[f]} : \A e \in ends \cup {size[f]} : e <= s]
    /\ UNCHANGED <<memVars, fdt, closing, excused>>

Next ==
    \/ CloseHandle
    \/ /\ calls < MaxCalls
       /\ \/ \E f \in Files, m \in {"r", "rw", "w"} : Open(f, m)
          \/ \E d \in Fds : Close(d)
          \/ \E a \in Pages, n \in 1..2 :
                \/ MmapAnon(a, n) \/ Munmap(a, n) \/ Msync(a, n)
                \/ \E b \in Pages : Mremap(a, n, b)
                \/ \E d \in Fds, o \in 0..1, w \in {"r", "rw"} : Mmap(d, a, n, o, w) \/ MmapAt(d, a, n, o, w)
          \/ \E p \in Pages : Store(p)
          \/ Release

Spec == Init /\ [][Next]_vars

-----------------------------------------------------------------------------
\* proc_pid_maps_vcallback: a page begins a new line unless it has the traits of the
\* page before it; offsets are not compared
Traits(p) == <<owner[p], map[p].used, map[p].fd, prot[p]>>
Begins(p) == owner[p] = "own" /\ (p = 1 \/ Traits(p - 1) # Traits(p))
Line(p) == CHOOSE s \in 1..p : Begins(s) /\ \A q \in (s + 1)..p : ~Begins(q) /\ owner[q] = "own"

(***************************************************************************)
(* Properties                                                              *)
(***************************************************************************)
\* The types of the variables.
TypeOK ==
    /\ owner \in [Pages -> {"free", "own", "other"}] /\ prot \in [Pages -> {"r", "rw"}]
    /\ \A p \in Pages : map[p].fd \in Fds \cup {BadFd} /\ map[p].off \in Offsets
    /\ \A f \in Files : size[f] \in 0..Cardinality(Offsets)

Sound(d) == <<"fd", d>> \notin excused
Follows(p) == map[p].used /\ Sound(map[p].fd)

\* The entry of a page leads to the file that was mapped there, through a descriptor of its
\* own that is open, and no other such descriptor is open.  This is lost, in the code, for
\* a descriptor whose pages were unmapped in part, mapped over or moved, that the program
\* closed, or that could not be duplicated: such numbers are left out, the others are not.
\* A page has an entry if a file was mapped there, unless mremap brought it.
EntriesExact ==
    /\ \A p \in Pages :
          /\ Follows(p) => /\ fdt[map[p].fd].own = "map"
                           /\ truth[p] = <<fdt[map[p].fd].file, map[p].off>>
          /\ truth[p] # None => map[p].used \/ <<"page", p>> \in excused
    /\ {d \in Fds : fdt[d].own = "map" /\ Sound(d)}
          = {d \in {map[p].fd : p \in {q \in Pages : map[q].used}}
                    \cup {closing[i] : i \in DOMAIN closing} : Sound(d)}

\* A line of /proc/[pid]/maps shows pages of one file, in the order of the file.
LinesExact ==
    \A p \in Pages : owner[p] = "own" /\ Follows(p) =>
        truth[p] = <<truth[Line(p)][1], map[Line(p)].off + (p - Line(p))>>

\* munmap closes no descriptor that the program opened, unless its number was one of
\* those that the entries do not follow any more.
UserFdsKept ==
    (closing # <<>> /\ closing' = Tail(closing)) =>
        \A d \in Fds : fdt[d].own = "user" /\ Sound(d) => fdt'[d] = fdt[d]

\* msync writes to a file what the program has in a page that it mapped to that
\* place, and when it returns 0 it has written all such pages that may be written.
\* (A page of a mapping that is not followed goes where its entry says.)
SyncExact ==
    data' # data =>
        \A f \in Files, k \in Offsets : data'[f][k] # data[f][k] =>
            \E p \in Pages : /\ cell[p] = data'[f][k]
                             /\ IF Follows(p) THEN truth[p] = <<f, k>>
                                ELSE map[p].used /\ map[p].off = k
SyncComplete ==
    (calls' # calls /\ UNCHANGED <<memVars, fdt, closing>>) =>
        \A a \in Pages, n \in 1..2 : Msync(a, n) /\ ret' = "ok" =>
            \A p \in Dirty(Run(a, n)) : Follows(p) =>
                \E q \in Run(a, n) :
                    /\ data'[truth[p][1]][truth[p][2]] = cell[q]
                    /\ IF Follows(q) THEN truth[q] = truth[p] ELSE map[q].used

\* All of the above, in every step.
FileMapStep == (TypeOK /\ EntriesExact /\ LinesExact)' /\ UserFdsKept /\ SyncExact /\ SyncComplete
FileMapExact == [][FileMapStep]_vars
=============================================================================
