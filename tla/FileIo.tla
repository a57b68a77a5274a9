------------------------------- MODULE FileIo -------------------------------
(***************************************************************************)
(* Reading and writing through open file descriptions of ramfs and ext2,   *)
(* and the two calls that copy from one descriptor to another, sendfile    *)
(* and copy_file_range.  Those are loops of other calls, so a second       *)
(* thread comes between their steps; the calls of the file systems are     *)
(* one step each, since lockfs holds its lock around them.  Sizes are in   *)
(* bytes of a very small file; a chunk is BUFSIZ.                          *)
(***************************************************************************)
EXTENDS Integers, Sequences

CONSTANTS
    Handles,      \* open file descriptions
    FileOf,       \* the file of each
    Start,        \* the content of each file at the beginning
    Source, Sink, \* the descriptions that a copying call reads and writes
    Stream,       \* a socket or a pipe in place of Sink
    Readers, Writers,   \* the descriptions that the second thread uses
    Chunk, MaxSize, MaxCalls

Files == {FileOf[h] : h \in Handles}
Stored == 9       \* what the second thread writes
Given == 1        \* an offset that a caller gives

VARIABLES
    fs,           \* the file system of each file
    data,         \* its bytes; a hole reads as 0
    off,          \* offset of a description
    seen,         \* size in the copy of the inode that ext2 keeps in a description
    flags,        \* access mode and O_APPEND
    job,          \* the copying call and its locals
    sent,         \* what the stream took
    calls

fvars == <<data, off, seen>>
vars == <<fs, data, off, seen, flags, job, sent, calls>>

SizeOf(h) == Len(data[FileOf[h]])
IsExt2(h) == fs[FileOf[h]] = "ext2"
Least(a, b) == IF a < b THEN a ELSE b

Idle == [op |-> "none", pc |-> "idle", out |-> Sink, given |-> FALSE, givenOut |-> FALSE,
         at |-> 0, to |-> 0, orig |-> 0, left |-> 0, n |-> 0, buf |-> <<>>, ret |-> "none",
         begin |-> 0, want |-> 0, alone |-> TRUE]

Init ==
    /\ fs \in [Files -> {"ramfs", "ext2"}]
    /\ data = Start
    /\ off = [h \in Handles |-> 0]
    /\ seen = [h \in Handles |-> Len(Start[FileOf[h]])]
    /\ \E append \in BOOLEAN, access \in {"r", "w"} :
          /\ append => access = "w"
          /\ flags = [h \in Handles |-> [access |-> IF h = Sink THEN access ELSE "rw",
                                        append |-> append /\ h # Source]]
    /\ job = Idle /\ sent = <<>> /\ calls = 0

-----------------------------------------------------------------------------
\* bytes at..at+n-1 of a file, as far as there are any
Part(bytes, at, n) == SubSeq(bytes, at + 1, Least(at + n, Len(bytes)))

\* myst_buf_resize, and the truncation of ext2: what is added reads as zeros
Resized(bytes, size) ==
    [i \in 1..size |-> IF i <= Len(bytes) THEN bytes[i] ELSE 0]

\* the file after a write at some place, with a hole before it if need be
Overwritten(bytes, at, new) ==
    LET all == IF at + Len(new) > Len(bytes) THEN Resized(bytes, at + Len(new)) ELSE bytes
    IN  [i \in 1..Len(all) |->
            IF i > at /\ i <= at + Len(new) THEN new[i - at] ELSE all[i]]

\* every read and write of ext2 fetches the inode again
Fetched(h, size) == [seen EXCEPT ![h] = IF IsExt2(h) THEN size ELSE @]

Put(h, at, new) ==
    /\ data' = [data EXCEPT ![FileOf[h]] = Overwritten(@, at, new)]
    /\ seen' = Fetched(h, Len(Overwritten(data[FileOf[h]], at, new)))

\* mutant: ext2 appends at the size that it remembers
EndRemembered(h) == IF IsExt2(h) THEN seen[h] ELSE SizeOf(h)

\* the place of a write through a description opened for append
EndOf(h) == SizeOf(h)

-----------------------------------------------------------------------------
\* The calls of a file system.  Each says what it answers (r) and what it got (b).

\* lseek: ramfs stays within the file, ext2 takes the size it remembers
SeekBase(h, whence) ==
    CASE whence = "set" -> 0
      [] whence = "cur" -> off[h]
      [] OTHER -> IF IsExt2(h) THEN seen[h] ELSE SizeOf(h)
MaySeek(h, to) == to >= 0 /\ (IsExt2(h) \/ to <= SizeOf(h))
Seek(h, to) == off' = [off EXCEPT ![h] = to] /\ UNCHANGED <<data, seen>>

Read(h, n, b) ==
    /\ flags[h].access # "w"
    /\ b = Part(data[FileOf[h]], off[h], n)
    /\ off' = [off EXCEPT ![h] = @ + Len(b)]
    /\ seen' = Fetched(h, SizeOf(h))
    /\ UNCHANGED data

\* where a write goes; ramfs does not write behind the end
WritePlace(h) == IF flags[h].append THEN EndOf(h) ELSE off[h]
MayWrite(h) ==
    flags[h].access # "r" /\ (IsExt2(h) \/ WritePlace(h) <= SizeOf(h))
Write(h, new) ==
    /\ MayWrite(h)
    /\ off' = [off EXCEPT ![h] = WritePlace(h) + Len(new)]
    /\ Put(h, WritePlace(h), new)

\* no memory or no space: the offset was set to the end already; ext2 has written the
\* blocks before the one that failed (of one byte here) and moved the offset on, but keeps
\* the size
WriteNoSpace(h, new) ==
    \E k \in 0..(Len(new) - 1) :
        /\ MayWrite(h) /\ (IsExt2(h) \/ k = 0)
        /\ off' = [off EXCEPT ![h] = WritePlace(h) + k]
        /\ data' = [data EXCEPT ![FileOf[h]] =
                       SubSeq(Overwritten(@, WritePlace(h), SubSeq(new, 1, k)), 1, Len(@))]
        /\ seen' = Fetched(h, SizeOf(h))

\* pread and pwrite of ramfs do not look at the access mode
MayPread(h, at) == IF IsExt2(h) THEN flags[h].access # "w" ELSE at <= SizeOf(h)
Pread(h, n, at, b) ==
    /\ MayPread(h, at)
    /\ b = Part(data[FileOf[h]], at, n)
    /\ seen' = Fetched(h, SizeOf(h))
    /\ UNCHANGED <<data, off>>
MayPwrite(h) == IsExt2(h) => flags[h].access # "r"
PwritePlace(h, at) == IF flags[h].append THEN EndOf(h) ELSE at
Pwrite(h, new, at) ==
    /\ MayPwrite(h)
    /\ IF new = <<>> THEN UNCHANGED <<data, seen>> ELSE Put(h, PwritePlace(h, at), new)
    /\ UNCHANGED off

-----------------------------------------------------------------------------
\* The second thread
Fits == \A f \in Files : Len(data'[f]) <= MaxSize
Other ==
    /\ calls' = calls + 1
    /\ job' = [job EXCEPT !.alone = job.pc = "idle"]
    /\ Fits
    /\ UNCHANGED <<fs, flags, sent>>

CallLseek(h) ==
    \E whence \in {"set", "cur", "end"} :
        LET to == SeekBase(h, whence) + (IF whence = "set" THEN 2 ELSE -1)
        IN  MaySeek(h, to) /\ Seek(h, to) /\ Other
CallRead(h) ==
    \E b \in {Part(data[FileOf[h]], off[h], 1)} : Read(h, 1, b) /\ Other
CallWrite(h) == (Write(h, <<Stored>>) \/ WriteNoSpace(h, <<Stored>>)) /\ Other
CallPwrite(h) == Pwrite(h, <<Stored>>, 2) /\ Other

\* readv: one read after the other until one is short; writev likewise
CallReadv(h) ==
    \E b \in {Part(data[FileOf[h]], off[h], 2)} : Read(h, 2, b) /\ Other
CallWritev(h) ==
    (Write(h, <<Stored, Stored>>) \/ WriteNoSpace(h, <<Stored, Stored>>)) /\ Other

Truncate(f) ==
    \E size \in 0..1 :
        /\ data' = [data EXCEPT ![f] = Resized(@, size)]
        /\ UNCHANGED <<off, seen>>
        /\ Other

-----------------------------------------------------------------------------
\* sendfile
Goto(pc) == job' = [job EXCEPT !.pc = pc]
Done(r) == job' = [job EXCEPT !.pc = "done", !.ret = r]
Mine == UNCHANGED <<fs, flags, calls>>

SendStart ==
    /\ job.pc = "idle"
    /\ \E out \in {Sink, Stream}, given \in BOOLEAN, count \in {1, 3} :
          job' = [Idle EXCEPT !.op = "send", !.out = out, !.given = given,
                              !.at = IF given THEN Given ELSE 0,
                              !.left = count, !.want = count,
                              !.pc = IF given THEN "save" ELSE "read",
                              !.begin = IF given THEN Given ELSE off[Source],
                              !.orig = off[Source]]
    /\ UNCHANGED <<fvars, sent>> /\ Mine

\* lseek(in_fd, 0, SEEK_CUR) fails too where ramfs is behind its end
SendSave ==
    /\ job.pc = "save"
    /\ IF MaySeek(Source, off[Source])
       THEN job' = [job EXCEPT !.orig = off[Source], !.pc = "seek"]
       ELSE Done("EINVAL")
    /\ UNCHANGED <<fvars, sent>> /\ Mine

SendSeek ==
    /\ job.pc = "seek"
    /\ IF MaySeek(Source, job.at)
       THEN Goto("read") /\ Seek(Source, job.at)
       ELSE Done("EINVAL") /\ UNCHANGED fvars
    /\ UNCHANGED sent /\ Mine

Behind(j) == IF j.given THEN "check" ELSE "end"

\* the loop ends when nothing is left, at the end of the file and when the read fails
SendRead ==
    /\ job.pc = "read"
    /\ \/ Goto(Behind(job)) /\ UNCHANGED fvars
       \/ /\ job.left # 0
          /\ \E b \in {Part(data[FileOf[Source]], off[Source], Least(job.left, Chunk))} :
               /\ Read(Source, Least(job.left, Chunk), b)
               /\ job' = [job EXCEPT !.buf = b,
                                     !.pc = IF b = <<>> THEN Behind(job) ELSE "write"]
    /\ UNCHANGED sent /\ Mine

\* mutant: what was not written is not read again
RewoundNot(m) == UNCHANGED fvars

\* lseek(in_fd, -(n - m), SEEK_CUR), whose failure nobody looks at
Rewound(m) ==
    IF MaySeek(Source, off[Source] - (Len(job.buf) - m))
    THEN Seek(Source, off[Source] - (Len(job.buf) - m)) ELSE UNCHANGED fvars

\* write took m bytes
Took(m) ==
    job' = [job EXCEPT !.n = @ + m, !.left = @ - m,
                       !.pc = IF m < Len(job.buf) THEN Behind(job) ELSE "read"]

SendWriteStream ==
    /\ job.pc = "write" /\ job.out = Stream
    /\ \/ \E m \in 1..Len(job.buf) :
             /\ Took(m)
             /\ sent' = sent \o SubSeq(job.buf, 1, m)
             /\ IF m < Len(job.buf) THEN Rewound(m) ELSE UNCHANGED fvars
       \/ /\ IF job.n > 0 THEN Goto(Behind(job)) ELSE Done("EAGAIN")
          /\ Rewound(0) /\ UNCHANGED sent
       \/ Done("EPIPE") /\ UNCHANGED <<fvars, sent>>
    /\ Mine

SendWriteFile ==
    /\ job.pc = "write" /\ job.out = Sink
    /\ \/ Write(Sink, job.buf) /\ Took(Len(job.buf))
       \/ ~MayWrite(Sink) /\ Done("failed") /\ UNCHANGED fvars
       \/ WriteNoSpace(Sink, job.buf) /\ Done("failed")
    /\ Fits /\ UNCHANGED sent /\ Mine

\* the final offset must be where the copy ended; only then the old one comes back
SendCheck ==
    /\ job.pc = "check"
    /\ IF ~MaySeek(Source, off[Source]) THEN Done("EINVAL")
       ELSE IF job.at + job.n # off[Source] THEN Done("EIO")
       ELSE job' = [job EXCEPT !.to = off[Source], !.pc = "restore"]
    /\ UNCHANGED <<fvars, sent>> /\ Mine

\* mutant: the old offset does not come back
NotRestored ==
    /\ job.pc = "restore"
    /\ job' = [job EXCEPT !.pc = "done", !.ret = "ok", !.at = job.to]
    /\ UNCHANGED <<fvars, sent>> /\ Mine

SendRestore ==
    /\ job.pc = "restore"
    /\ IF MaySeek(Source, job.orig)
       THEN /\ job' = [job EXCEPT !.pc = "done", !.ret = "ok", !.at = job.to]
            /\ Seek(Source, job.orig)
       ELSE Done("EINVAL") /\ UNCHANGED fvars
    /\ UNCHANGED sent /\ Mine

SendEnd == job.pc = "end" /\ Done("ok") /\ UNCHANGED <<fvars, sent>> /\ Mine

-----------------------------------------------------------------------------
\* copy_file_range, from the offsets given or from those of the descriptors
CopyStart ==
    /\ job.pc = "idle"
    /\ \E given, givenOut \in BOOLEAN, count \in {1, 3} :
          job' = [Idle EXCEPT !.op = "copy", !.given = given, !.givenOut = givenOut,
                     !.left = count, !.want = count,
                     !.at = IF given THEN Given ELSE off[Source],
                     !.to = IF givenOut THEN Given ELSE off[Sink],
                     !.begin = IF given THEN Given ELSE off[Source],
                     !.orig = IF givenOut THEN Given ELSE off[Sink],
                     !.pc = IF \/ flags[Sink].append
                               \/ ~given /\ ~MaySeek(Source, off[Source])
                               \/ ~givenOut /\ ~MaySeek(Sink, off[Sink])
                            THEN "done" ELSE "pread",
                     !.ret = "failed"]
    /\ UNCHANGED <<fvars, sent>> /\ Mine

CopyRead ==
    /\ job.pc = "pread"
    /\ IF job.left = 0 THEN Goto("place") /\ UNCHANGED fvars
       ELSE IF ~MayPread(Source, job.at) THEN Done("failed") /\ UNCHANGED fvars
       ELSE \E b \in {Part(data[FileOf[Source]], job.at, Least(job.left, Chunk))} :
              /\ Pread(Source, Least(job.left, Chunk), job.at, b)
              /\ job' = [job EXCEPT !.buf = b, !.pc = "pwrite"]
    /\ UNCHANGED sent /\ Mine

\* mutant: the remaining length goes down by what was asked for
AdvanceAsked(m) ==
    job' = [job EXCEPT !.n = @ + m, !.at = @ + m, !.to = @ + m,
                       !.left = @ - Least(job.left, Chunk), !.pc = "pread"]

\* nothing read is nothing written and nothing less to do: the end of the file does
\* not end the loop
Advance(m) ==
    job' = [job EXCEPT !.n = @ + m, !.at = @ + m, !.to = @ + m, !.left = @ - m,
                       !.pc = "pread"]

CopyWrite ==
    /\ job.pc = "pwrite"
    /\ \/ Pwrite(Sink, job.buf, job.to) /\ Advance(Len(job.buf))
       \/ (job.buf # <<>> \/ ~MayPwrite(Sink)) /\ Done("failed") /\ UNCHANGED fvars
    /\ Fits /\ UNCHANGED sent /\ Mine

\* the offsets of the descriptors follow, one after the other
CopyPlaceIn ==
    /\ job.pc = "place"
    /\ IF job.given THEN Goto("placeout") /\ UNCHANGED fvars
       ELSE IF MaySeek(Source, job.at) THEN Goto("placeout") /\ Seek(Source, job.at)
       ELSE Done("EINVAL") /\ UNCHANGED fvars
    /\ UNCHANGED sent /\ Mine
CopyPlaceOut ==
    /\ job.pc = "placeout"
    /\ IF job.givenOut THEN Done("ok") /\ UNCHANGED fvars
       ELSE IF MaySeek(Sink, job.to) THEN Done("ok") /\ Seek(Sink, job.to)
       ELSE Done("EINVAL") /\ UNCHANGED fvars
    /\ UNCHANGED sent /\ Mine

-----------------------------------------------------------------------------
\* the second thread, until the copying call is over
OtherThread ==
    /\ calls < MaxCalls /\ job.pc # "done"
    /\ \/ \E h \in Readers : CallLseek(h) \/ CallRead(h) \/ CallReadv(h)
       \/ \E h \in Writers : CallWrite(h) \/ CallPwrite(h) \/ CallWritev(h)
       \/ \E f \in Files : Truncate(f)
Sendfile == \/ SendStart \/ SendSave \/ SendSeek \/ SendRead \/ SendWriteStream
            \/ SendWriteFile \/ SendCheck \/ SendRestore \/ SendEnd
CopyFileRange == CopyStart \/ CopyRead \/ CopyWrite \/ CopyPlaceIn \/ CopyPlaceOut

Next == OtherThread \/ Sendfile \/ CopyFileRange

Spec == Init /\ [][Next]_vars

-----------------------------------------------------------------------------
(***************************************************************************)
(* Properties                                                              *)
(***************************************************************************)
TypeOK ==
    /\ \A f \in Files : Len(data[f]) <= MaxSize
    /\ off \in [Handles -> 0..(2 * MaxSize + 2)] /\ seen \in [Handles -> 0..MaxSize]
    /\ job.n + job.left <= 3 /\ Len(job.buf) <= Chunk

Undisturbed == job.pc = "done" /\ job.alone /\ FileOf[Source] # FileOf[Sink]

\* A sendfile that nobody disturbed: the sink got the bytes of the source from where
\* it began, as many as the call says, and the offset of the source is back where it
\* was (if the caller gave an offset) or behind the last byte sent; so it is after
\* EAGAIN without an offset.  Other failures leave it where it was.
SendfileExact ==
    (Undisturbed /\ job.op = "send" /\ job.ret \in {"ok", "EAGAIN"}) =>
        /\ job.n > 0 =>
              Part(data[FileOf[Source]], job.begin, job.n) =
                  IF job.out = Stream THEN sent
                  ELSE Part(data[FileOf[Sink]], off[Sink] - job.n, job.n)
        /\ job.ret = "ok" =>
              off[Source] = IF job.given THEN job.orig ELSE job.begin + job.n
        /\ job.ret = "EAGAIN" => job.n = 0 /\ off[Source] = job.begin

\* A copy_file_range that nobody disturbed and that succeeds has copied every byte it
\* was asked for, and moves the offset of a descriptor for which none was given.
CopyExact ==
    (Undisturbed /\ job.op = "copy" /\ job.ret = "ok") =>
        /\ job.n = job.want
        /\ Part(data[FileOf[Sink]], job.orig, job.n) =
              Part(data[FileOf[Source]], job.begin, job.n)
        /\ Len(Part(data[FileOf[Source]], job.begin, job.n)) = job.n
        /\ ~job.given => off[Source] = job.begin + job.n
        /\ ~job.givenOut => off[Sink] = job.orig + job.n

\* Whoever writes through a description opened for append writes behind what is in
\* the file, whatever happened to its size in between, and with pwrite as well.
AppendKeeps ==
    \A h \in Handles, f \in Files :
        (/\ flags[h].append /\ f = FileOf[h] /\ data'[f] # data[f]
         /\ \A k \in Handles : FileOf[k] = f => flags[k].append) =>
            \/ Len(data'[f]) > Len(data[f]) /\ SubSeq(data'[f], 1, Len(data[f])) = data[f]
            \/ Len(data'[f]) <= 1 /\ (Len(data'[f]) < Len(data[f]) \/ data[f] = <<>>)

\* The position where copy_file_range is moves in every turn unless the source has
\* no byte there: what it is asked for within the file, it comes to the end of.  At the end
\* of the file it does not: pread returns 0 and the loop goes round for ever.
CopyAdvances ==
    (job.pc = "pwrite" /\ job'.pc = "pread") =>
        job'.left < job.left \/ job.buf = <<>>

\* All of the above, in every step.
FileIoStep == TypeOK' /\ SendfileExact' /\ CopyExact' /\ AppendKeeps /\ CopyAdvances
FileIoExact == [][FileIoStep]_vars
=============================================================================
