----------------------------- MODULE DirStream ------------------------------
(***************************************************************************)
(* Reading a directory that changes (getdents64 of kernel/ramfs.c and      *)
(* ext2/ext2.c).  A ramfs stream is an offset into the live array of       *)
(* entries; an ext2 stream is an offset into a copy of the directory that  *)
(* is taken when it is opened with O_DIRECTORY or first read, and kept for *)
(* as long as the file is open.                                            *)
(*                                                                         *)
(* An entry is a number, a new one each time a name is added; offsets      *)
(* count entries.  Names and records are modules Ramfs's and Ext2Dir's.    *)
(***************************************************************************)
EXTENDS Integers, Sequences, FiniteSets, SequencesExt

CONSTANTS Streams, Start, MaxEntries, MaxCalls

VARIABLES
    fs,        \* "ramfs" or "ext2"
    ents,      \* the entries in order
    doff,      \* the field d_off of each entry
    str,       \* the streams
    last,      \* the newest entry
    calls,
    moved      \* ghost: entries that have taken a removed entry's place

vars == <<fs, ents, doff, str, last, calls, moved>>

Entries == 1..MaxEntries
NoCopy == <<0>>

\* off, and of ext2 the copy and where in it the next entry is; tell is the d_off of the
\* last entry that was returned; ghosts: the entries of this pass and how many entries
\* were removed before the offset during it
Closed == [st |-> "closed", off |-> 0, copy |-> NoCopy, tell |-> 0, got |-> <<>>,
           removed |-> 0, sought |-> FALSE, eof |-> FALSE]

Init ==
    /\ fs \in {"ramfs", "ext2"}
    /\ ents = [i \in 1..Start |-> i]
    /\ doff = [e \in Entries |-> IF fs = "ramfs" /\ e <= Start THEN e - 1 ELSE 0]
    /\ str = [s \in Streams |-> Closed]
    /\ last = Start /\ calls = 0 /\ moved = {}

Begin == calls < MaxCalls /\ calls' = calls + 1 /\ UNCHANGED fs
Live == ToSet(ents)
At(e) == CHOOSE i \in DOMAIN ents : ents[i] = e
IsOpen(s) == str[s].st # "closed"

-----------------------------------------------------------------------------
\* open of the directory: with O_DIRECTORY ext2 loads it at once, with O_PATH it cannot
\* be read
Open(s, st) ==
    /\ Begin /\ ~IsOpen(s)
    /\ str' = [str EXCEPT ![s] = [Closed EXCEPT !.st = st,
                 !.copy = IF fs = "ext2" /\ st = "directory" THEN ents ELSE NoCopy]]
    /\ UNCHANGED <<ents, doff, last, moved>>

\* ext2_close releases the copy
Close(s) ==
    /\ Begin /\ IsOpen(s)
    /\ str' = [str EXCEPT ![s] = Closed]
    /\ UNCHANGED <<ents, doff, last, moved>>

\* a new entry; no stream is at the end of the directory any more
New == last < MaxEntries /\ last' = last + 1
Longer == [s \in Streams |-> [str[s] EXCEPT !.eof = fs = "ext2" /\ @]]

\* _inode_add_dirent of ramfs appends and notes the position
RamAdd ==
    /\ fs = "ramfs" /\ New /\ Begin
    /\ ents' = Append(ents, last')
    /\ doff' = [doff EXCEPT ![last'] = Len(ents)]
    /\ str' = Longer
    /\ UNCHANGED moved

\* _add_dirent of ext2
Ext2Add ==
    /\ fs = "ext2" /\ New /\ Begin
    /\ ents' = Append(ents, last')
    /\ str' = Longer
    /\ UNCHANGED <<doff, moved>>

\* the ghosts of a removal at position k
Counted(k) == [s \in Streams |-> IF k <= str[s].off THEN [str[s] EXCEPT !.removed = @ + 1] ELSE str[s]]

NothingAdjusted(k, rest) == doff

\* the loop of _inode_remove_dirent that adjusts the entries after the removed one; it
\* begins one entry too late, at the second of them
Adjusted(k, rest) ==
    [e \in Entries |-> IF \E i \in DOMAIN rest : rest[i] = e /\ i > k THEN doff[e] - 1 ELSE doff[e]]

\* _inode_remove_dirent of ramfs: the entries behind move up
RamRemove(e) ==
    /\ fs = "ramfs" /\ Begin /\ e \in Live
    /\ \E k \in {At(e)} : \E rest \in {RemoveAt(ents, k)} :
         /\ ents' = rest
         /\ doff' = Adjusted(k, rest)
         /\ str' = Counted(k)
         /\ moved' = IF k \in DOMAIN rest THEN moved \cup {rest[k]} ELSE moved
    /\ UNCHANGED last

\* _remove_dirent of ext2 writes the directory without the entry
Ext2Remove(e) ==
    /\ fs = "ext2" /\ Begin /\ e \in Live
    /\ ents' = RemoveAt(ents, At(e))
    /\ UNCHANGED <<doff, str, last, moved>>

-----------------------------------------------------------------------------
\* an offset behind the end is taken back to it
Clamped(s) == IF str[s].off >= Len(ents) THEN Len(ents) ELSE str[s].off

\* what a call for n entries returns, from the offset o in q
Returned(q, o, n) == SubSeq(q, o + 1, IF o + n < Len(q) THEN o + n ELSE Len(q))

\* _fs_getdents64 of ramfs, which reads one entry after the other
RamGetdents(s, n) ==
    /\ fs = "ramfs" /\ Begin /\ IsOpen(s) /\ str[s].st # "path"
    /\ \E r \in {Returned(ents, Clamped(s), n)} :
         str' = [str EXCEPT ![s] =
            [@ EXCEPT !.off = Clamped(s) + Len(r), !.got = @ \o r,
                      !.tell = IF r = <<>> THEN @ ELSE doff[r[Len(r)]],
                      !.eof = n > 0 /\ r = <<>>]]
    /\ UNCHANGED <<ents, doff, last, moved>>

LiveEntries(s) == ents

\* the copy is made by the first read of a file opened without O_DIRECTORY
Copy(s) == IF str[s].copy = NoCopy THEN ents ELSE str[s].copy

\* ext2_readdir: the next entry of the copy; its d_off is always 0
Ext2Readdir(s, n) == Returned(Copy(s), str[s].off, n)

\* _ext2_getdents64
Ext2Getdents(s, n) ==
    /\ fs = "ext2" /\ Begin /\ IsOpen(s) /\ str[s].st # "path"
    /\ \E r \in {Ext2Readdir(s, n)} :
         str' = [str EXCEPT ![s] =
            [@ EXCEPT !.copy = Copy(s), !.off = @ + Len(r), !.got = @ \o r,
                      !.eof = n > 0 /\ r = <<>>]]
    /\ UNCHANGED <<ents, doff, last, moved>>

\* lseek of rewinddir, and of seekdir to what telldir gave
Seek(s, to) ==
    /\ Begin /\ IsOpen(s) /\ str[s].st # "path"
    /\ to \in {0, str[s].tell}
    /\ str' = [str EXCEPT ![s] = [@ EXCEPT !.off = to, !.got = <<>>, !.removed = 0,
                                           !.sought = to # 0, !.eof = FALSE]]
    /\ UNCHANGED <<ents, doff, last, moved>>

Next ==
    \/ \E s \in Streams, st \in {"directory", "plain", "path"} : Open(s, st)
    \/ \E s \in Streams : Close(s)
    \/ RamAdd
    \/ Ext2Add
    \/ \E e \in Entries : RamRemove(e)
    \/ \E e \in Entries : Ext2Remove(e)
    \/ \E s \in Streams, n \in 0..2 : RamGetdents(s, n)
    \/ \E s \in Streams, n \in 0..2 : Ext2Getdents(s, n)
    \/ \E s \in Streams, k \in 0..MaxEntries : Seek(s, k)

Spec == Init /\ [][Next]_vars

-----------------------------------------------------------------------------
\* A pass over a directory never returns an entry twice, whatever was added or removed
\* meanwhile.
OncePerPass == \A s \in Streams : IsInjective(str[s].got)

\* The entries that a ramfs pass has left out are at most as many as were removed before
\* its offset during the pass: nothing is skipped unless something was removed.
SkipsByRemoval ==
    \A s \in Streams : fs = "ramfs" /\ IsOpen(s) /\ ~str[s].sought =>
        Cardinality({i \in DOMAIN ents : i <= str[s].off /\ ents[i] \notin ToSet(str[s].got)})
            <= str[s].removed

\* A pass that came to the end has returned every entry that is still there and was there
\* all along: of ramfs but for one skipped by each removal, of ext2 all of the copy.
PassesComplete ==
    \A s \in Streams : str[s].eof /\ ~str[s].sought =>
        IF fs = "ext2" THEN str[s].got = str[s].copy
        ELSE Cardinality(Live \ ToSet(str[s].got)) <= str[s].removed

\* The field d_off of an entry is its position, but for an entry that took the place of a
\* removed one.
PositionsExact ==
    fs = "ramfs" => \A i \in DOMAIN ents : ents[i] \notin moved => doff[ents[i]] = i - 1

DirStreamExact == OncePerPass /\ SkipsByRemoval /\ PassesComplete /\ PositionsExact
=============================================================================
