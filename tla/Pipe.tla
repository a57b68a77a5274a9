-------------------------------- MODULE Pipe --------------------------------
(***************************************************************************)
(* A pipe (kernel/pipedev.c).  The data stays in the kernel, in a buffer   *)
(* that all the handles of the pipe share; a host pipe of two blocks is    *)
(* kept empty, half full or full only so that poll and epoll on the host   *)
(* see whether the pipe can be read or written.  Readers and writers sleep *)
(* on one condition variable.                                              *)
(*                                                                         *)
(* Every thread uses a handle of its own: the creator of the pipe has one  *)
(* of each end, others come from dup, which fork does for every descriptor.*)
(* The mutex of the pipe is an abstract lock (module Lock, which Mutex     *)
(* implements).  Between two changes of hands of the lock one iteration of *)
(* the loop of read or write is one step; what the code does without the   *)
(* lock (dup, the resizing of the pipe, the first signal of a close) is a  *)
(* step of its own.  Data is counted in units, the bytes are not told      *)
(* apart.                                                                  *)
(***************************************************************************)
EXTENDS Integers, FiniteSets, FiniteSetsExt, SequencesExt

CONSTANTS Readers, Writers,   \* threads with a handle on each end, now or later
          FirstReader, FirstWriter,   \* the ones pipe2 gives a handle
          NoThread,
          Sizes,              \* capacities F_SETPIPE_SZ may set
          FirstSize,          \* DEFAULT_PIPE_SIZE
          Counts,             \* sizes of the buffers passed to read and write
          MaxCalls,           \* bound on the reads and writes
          MaxDups,            \* bound on dup
          MaxSignals,         \* bound on signals delivered and on interrupts
          MaxSets             \* bound on F_SETPIPE_SZ and on F_SETFL

ASSUME EndsAssumption ==
    /\ Readers \cap Writers = {}
    /\ FirstReader \in Readers /\ FirstWriter \in Writers
    /\ NoThread \notin Readers \cup Writers
    /\ IsFiniteSet(Readers) /\ IsFiniteSet(Writers)
ASSUME SizesAssumption ==
    FirstSize \in Nat \ {0} /\ Sizes \subseteq Nat \ {0} /\ Counts \subseteq Nat \ {0}

Threads == Readers \cup Writers

VARIABLES
    nreaders, nwriters,   \* shared->nreaders, shared->nwriters
    pipesz,               \* shared->pipesz
    nbytes,               \* shared->buf.size
    state,                \* shared->state: filled blocks of the host pipe
    freed,                \* shared has been freed
    holder,               \* the thread that holds shared->lock
    queue,                \* the wait queue of shared->cond
    pc,
    rem,                  \* local rem of read and write
    done,                 \* local nread and nwritten
    eintr,                \* wait_ret is -EINTR
    nonblock,             \* O_NONBLOCK is set in the handle's fl_flags
    loaded,               \* the count that an increment or decrement has read
    moved,                \* units the reads (writes) of each thread reported
    calls, dups, signals, sets,
    raced,                \* two updates of a count overlapped
    resized,              \* F_SETPIPE_SZ has been used
    orphans,              \* units that a write put in the buffer before it failed
    sigpipe               \* a writer's process was sent SIGPIPE

sharedVars == <<nreaders, nwriters, pipesz, nbytes, state, freed>>
localVars == <<rem, done, eintr, moved>>
boundVars == <<calls, dups, signals, sets>>
failVars == <<orphans, sigpipe>>
ghostVars == <<raced, resized, failVars>>
vars == <<sharedVars, holder, queue, pc, localVars, nonblock, loaded, boundVars,
          ghostVars>>

Locations == {"none", "dup", "idle", "lock", "loop", "wait", "woken", "close", "count",
              "closed"}

Place(t) == CHOOSE i \in 1..Len(queue) : queue[i] = t

\* handles that exist, the ones whose close has not reached the count included
Open(S) == {t \in S : pc[t] \notin {"none", "dup", "closed"}}

\* the host's read end is open: _pd_dup duplicates it before it counts the handle, and
\* _pd_close closes it before it takes the lock
HostOpen == \E r \in Readers : pc[r] \notin {"none", "close", "count", "closed"}

\* myst_cond_signal: one waiter, the first, whoever it is
Signalled(q) == IF q = <<>> THEN {} ELSE {Head(q)}
Rest(q) == IF q = <<>> THEN q ELSE Tail(q)

\* _pd_pipe2
Init ==
    /\ nreaders = 1 /\ nwriters = 1
    /\ pipesz = FirstSize
    /\ nbytes = 0
    /\ state = 0
    /\ freed = FALSE
    /\ holder = NoThread
    /\ queue = <<>>
    /\ pc = [t \in Threads |->
                IF t \in {FirstReader, FirstWriter} THEN "idle" ELSE "none"]
    /\ rem = [t \in Threads |-> 0]
    /\ done = [t \in Threads |-> 0]
    /\ eintr = [t \in Threads |-> FALSE]
    /\ nonblock = [t \in Threads |-> FALSE]
    /\ loaded = [t \in Threads |-> 0]
    /\ moved = [t \in Threads |-> 0]
    /\ calls = 0 /\ dups = 0 /\ signals = 0 /\ sets = 0
    /\ raced = FALSE /\ resized = FALSE /\ orphans = 0 /\ sigpipe = FALSE

-----------------------------------------------------------------------------
\* read or write is called with a buffer of n units
Call(t, n) ==
    /\ pc[t] = "idle"
    /\ calls < MaxCalls
    /\ calls' = calls + 1
    /\ rem' = [rem EXCEPT ![t] = n]
    /\ done' = [done EXCEPT ![t] = 0]
    /\ eintr' = [eintr EXCEPT ![t] = FALSE]
    /\ pc' = [pc EXCEPT ![t] = "lock"]
    /\ UNCHANGED <<sharedVars, holder, queue, moved, nonblock, loaded, dups,
                   signals, sets, ghostVars>>

\* the call ends: the lock is released and the caller gets n or an error
Return(t, n, err) ==
    /\ moved' = [moved EXCEPT ![t] = @ + (IF err = "EOK" THEN n ELSE 0)]
    /\ done' = [done EXCEPT ![t] = 0]
    /\ rem' = [rem EXCEPT ![t] = 0]
    /\ holder' = NoThread
    /\ UNCHANGED eintr

\* _lock at the start of a call and the relocking of the mutex after a wait; a
\* write looks for readers once, at the start, and has SIGPIPE sent if there is none
Lock(t) ==
    /\ pc[t] \in {"lock", "woken"}
    /\ holder = NoThread
    /\ IF t \in Writers /\ pc[t] = "lock" /\ nreaders = 0
       THEN /\ Return(t, 0, "EPIPE") /\ sigpipe' = TRUE
            /\ pc' = [pc EXCEPT ![t] = "idle"]
       ELSE /\ holder' = t
            /\ pc' = [pc EXCEPT ![t] = "loop"]
            /\ UNCHANGED <<localVars, sigpipe>>
    /\ UNCHANGED <<sharedVars, queue, nonblock, loaded, boundVars, raced, resized, orphans>>

\* signal one waiter and go on with the given program point for t
SignalOne(t, next) ==
    /\ queue' = Rest(queue)
    /\ pc' = [u \in Threads |-> IF u = t THEN next
                                ELSE IF u \in Signalled(queue) THEN "woken" ELSE pc[u]]

\* _cond_timedwait: join the queue and release the mutex
Wait(t) ==
    /\ queue' = Append(queue, t)
    /\ pc' = [pc EXCEPT ![t] = "wait"]
    /\ holder' = NoThread
    /\ UNCHANGED <<localVars, nbytes, state>>

\* mutant: a read that leaves data behind does not make the host pipe writable
StateKeptFull(n) == IF n = 0 THEN 0 ELSE state

\* the host pipe after a read that leaves n units
StateAfterRead(n) ==
    CASE n = 0 -> 0
      [] n > 0 /\ state = 2 -> 1
      [] OTHER -> state

\* the host pipe after a write that leaves n units; space is unsigned, so a
\* buffer above a reduced capacity has space too
StateAfterWrite(n) ==
    CASE n = pipesz -> 2
      [] n # pipesz /\ state = 0 -> 1
      [] OTHER -> state

\* mutant: an interrupted write forgets what it has written
ForgetPartial(t) ==
    /\ pc[t] = "loop" /\ eintr[t]
    /\ Return(t, 0, "EINTR")
    /\ pc' = [pc EXCEPT ![t] = "idle"]
    /\ UNCHANGED <<sharedVars, queue, nonblock, loaded, boundVars, ghostVars>>

\* the end of an iteration of either loop whose wait was interrupted: -EINTR, or
\* what a write has written so far
Interrupted(t) ==
    /\ pc[t] = "loop" /\ eintr[t]
    /\ Return(t, done[t], IF done[t] = 0 THEN "EINTR" ELSE "EOK")
    /\ pc' = [pc EXCEPT ![t] = "idle"]
    /\ UNCHANGED <<sharedVars, queue, nonblock, loaded, boundVars, ghostVars>>

\* mutant: a read takes what it finds without waking a writer
ReadSilently(t) ==
    /\ t \in Readers /\ pc[t] = "loop" /\ ~eintr[t] /\ nbytes > 0
    /\ LET min == Min({rem[t], nbytes})
       IN  /\ nbytes' = nbytes - min
           /\ state' = StateAfterRead(nbytes - min)
           /\ Return(t, min, "EOK")
    /\ pc' = [pc EXCEPT ![t] = "idle"]
    /\ UNCHANGED <<nreaders, nwriters, pipesz, freed, queue, nonblock, loaded,
                   boundVars, ghostVars>>

\* one iteration of the loop of _pd_read.  Data: take it, adjust the host pipe,
\* signal one waiter and return
ReadData(t) ==
    /\ t \in Readers /\ pc[t] = "loop" /\ ~eintr[t] /\ nbytes > 0
    /\ LET min == Min({rem[t], nbytes})
       IN  /\ nbytes' = nbytes - min
           /\ state' = StateAfterRead(nbytes - min)
           /\ Return(t, min, "EOK")
    /\ SignalOne(t, "idle")
    /\ UNCHANGED <<nreaders, nwriters, pipesz, freed, nonblock, loaded, boundVars,
                   ghostVars>>

\* no data: end of file without writers, -EAGAIN or a wait
ReadEmpty(t) ==
    /\ t \in Readers /\ pc[t] = "loop" /\ ~eintr[t] /\ nbytes = 0
    /\ IF nwriters = 0 \/ nonblock[t]
       THEN /\ Return(t, 0, IF nwriters = 0 THEN "EOK" ELSE "EAGAIN")
            /\ pc' = [pc EXCEPT ![t] = "idle"]
            /\ UNCHANGED queue
       ELSE Wait(t)
    /\ UNCHANGED <<sharedVars, nonblock, loaded, boundVars, ghostVars>>

\* what an iteration of the loop of _pd_write appends (the difference is unsigned, so
\* only an exactly full buffer has no space)
Appended(t) == IF nbytes > pipesz THEN rem[t] ELSE Min({rem[t], pipesz - nbytes})

\* the host pipe has to be filled further, and the host refuses
HostRefuses(t) == StateAfterWrite(nbytes + Appended(t)) # state /\ ~HostOpen

\* one iteration of that loop.  Space: append, adjust the host pipe, signal one waiter
\* and go round, or return when all is written
WriteData(t) ==
    /\ t \in Writers /\ pc[t] = "loop" /\ ~eintr[t] /\ nbytes # pipesz
    /\ ~HostRefuses(t)
    /\ LET min == Appended(t)
       IN  /\ nbytes' = nbytes + min
           /\ state' = StateAfterWrite(nbytes + min)
           /\ IF min = rem[t]
              THEN Return(t, done[t] + min, "EOK") /\ SignalOne(t, "idle")
              ELSE /\ rem' = [rem EXCEPT ![t] = @ - min]
                   /\ done' = [done EXCEPT ![t] = @ + min]
                   /\ SignalOne(t, "loop")
                   /\ UNCHANGED <<holder, eintr, moved>>
    /\ UNCHANGED <<nreaders, nwriters, pipesz, freed, nonblock, loaded, boundVars,
                   ghostVars>>

\* the host's -EPIPE, which a reader that is closing causes before it is off the count,
\* or one that closed while the writer slept: the data has been appended and stays,
\* the caller learns neither of it nor of what it wrote before, and nobody is signalled
WriteRefused(t) ==
    /\ t \in Writers /\ pc[t] = "loop" /\ ~eintr[t] /\ nbytes # pipesz
    /\ HostRefuses(t)
    /\ nbytes' = nbytes + Appended(t)
    /\ orphans' = orphans + done[t] + Appended(t)
    /\ Return(t, 0, "EPIPE")
    /\ pc' = [pc EXCEPT ![t] = "idle"]
    /\ UNCHANGED <<nreaders, nwriters, pipesz, state, freed, queue, nonblock, loaded,
                   boundVars, raced, resized, sigpipe>>

\* no space: -EAGAIN or what has been written; without readers, what has been
\* written, possibly nothing; otherwise a wait
WriteFull(t) ==
    /\ t \in Writers /\ pc[t] = "loop" /\ ~eintr[t] /\ nbytes = pipesz
    /\ IF nonblock[t] \/ nreaders = 0
       THEN /\ Return(t, done[t],
                      IF nonblock[t] /\ done[t] = 0 THEN "EAGAIN" ELSE "EOK")
            /\ pc' = [pc EXCEPT ![t] = "idle"]
            /\ UNCHANGED queue
       ELSE Wait(t)
    /\ UNCHANGED <<sharedVars, nonblock, loaded, boundVars, ghostVars>>

\* a signal reaches a sleeping thread that nobody selected: it leaves the queue
\* with -EINTR
Eintr(t) ==
    /\ pc[t] = "wait"
    /\ signals < MaxSignals
    /\ signals' = signals + 1
    /\ queue' = RemoveAt(queue, Place(t))
    /\ eintr' = [eintr EXCEPT ![t] = TRUE]
    /\ pc' = [pc EXCEPT ![t] = "woken"]
    /\ UNCHANGED <<sharedVars, holder, rem, done, moved, nonblock, loaded,
                   calls, dups, sets, ghostVars>>

\* _pd_interrupt, from a process that is ending
Interrupt ==
    /\ signals < MaxSignals
    /\ queue # <<>>
    /\ signals' = signals + 1
    /\ SignalOne(NoThread, "woken")
    /\ UNCHANGED <<sharedVars, holder, localVars, nonblock, loaded, calls, dups,
                   sets, ghostVars>>

-----------------------------------------------------------------------------
\* the count of the end that t has a handle of, and an update of it that is not
\* atomic: a load and a store
EndCount(t) == IF t \in Readers THEN nreaders ELSE nwriters

SetEndCount(t, n) ==
    /\ nreaders' = IF t \in Readers THEN n ELSE nreaders
    /\ nwriters' = IF t \in Writers THEN n ELSE nwriters
    /\ raced' = (raced \/ EndCount(t) # loaded[t])

\* _pd_dup: u gets a handle on the end that t has.  nreaders++ and nwriters++ are
\* not under the lock
DupLoad(t, u) ==
    /\ pc[t] \in {"idle", "lock", "loop", "wait", "woken"}
    /\ pc[u] = "none"
    /\ t \in Readers <=> u \in Readers
    /\ dups < MaxDups
    /\ dups' = dups + 1
    /\ loaded' = [loaded EXCEPT ![u] = EndCount(t)]
    /\ nonblock' = [nonblock EXCEPT ![u] = nonblock[t]]
    /\ pc' = [pc EXCEPT ![u] = "dup"]
    /\ UNCHANGED <<sharedVars, holder, queue, localVars, calls, signals, sets,
                   ghostVars>>

DupStore(u) ==
    /\ pc[u] = "dup"
    /\ SetEndCount(u, loaded[u] + 1)
    /\ pc' = [pc EXCEPT ![u] = "idle"]
    /\ UNCHANGED <<pipesz, nbytes, state, freed, holder, queue, localVars, nonblock,
                   loaded, boundVars, resized, failVars>>

\* _pd_close, first without the lock: close the host pipe, signal one waiter
CloseHost(t) ==
    /\ pc[t] = "idle"
    /\ nreaders # 0 \/ nwriters # 0
    /\ SignalOne(t, "close")
    /\ UNCHANGED <<sharedVars, holder, localVars, nonblock, loaded, boundVars,
                   ghostVars>>

\* then under the lock: the count of this end is read ...
CloseLoad(t) ==
    /\ pc[t] = "close" /\ holder = NoThread
    /\ holder' = t
    /\ loaded' = [loaded EXCEPT ![t] = EndCount(t)]
    /\ pc' = [pc EXCEPT ![t] = "count"]
    /\ UNCHANGED <<sharedVars, queue, localVars, nonblock, boundVars, ghostVars>>

\* mutant: the close of one end frees the pipe
CloseFreesEarly(t) ==
    /\ pc[t] = "count"
    /\ SetEndCount(t, loaded[t] - 1)
    /\ freed' = (nreaders' = 0 \/ nwriters' = 0)
    /\ holder' = NoThread
    /\ SignalOne(t, "closed")
    /\ UNCHANGED <<pipesz, nbytes, state, localVars, nonblock, loaded, boundVars,
                   resized, failVars>>

\* ... and written back; the last handle frees the pipe, any other signals one
\* waiter
CloseStore(t) ==
    /\ pc[t] = "count"
    /\ SetEndCount(t, loaded[t] - 1)
    /\ freed' = (nreaders' = 0 /\ nwriters' = 0)
    /\ holder' = NoThread
    /\ IF freed' THEN pc' = [pc EXCEPT ![t] = "closed"] /\ UNCHANGED queue
                 ELSE SignalOne(t, "closed")
    /\ UNCHANGED <<pipesz, nbytes, state, localVars, nonblock, loaded, boundVars,
                   resized, failVars>>

\* _pd_fcntl(F_SETPIPE_SZ), without the lock
SetPipeSize(n) ==
    /\ sets < MaxSets /\ ~freed /\ n # pipesz
    /\ sets' = sets + 1
    /\ pipesz' = n
    /\ resized' = TRUE
    /\ UNCHANGED <<nreaders, nwriters, nbytes, state, freed, holder, queue, pc,
                   localVars, nonblock, loaded, calls, dups, signals, raced, failVars>>

\* _pd_fcntl(F_SETFL) and _pd_ioctl(FIONBIO), without the lock
SetNonblock(t) ==
    /\ sets < MaxSets
    /\ pc[t] \notin {"none", "dup", "close", "count", "closed"}
    /\ sets' = sets + 1
    /\ nonblock' = [nonblock EXCEPT ![t] = ~@]
    /\ UNCHANGED <<sharedVars, holder, queue, pc, localVars, loaded, calls, dups,
                   signals, ghostVars>>

-----------------------------------------------------------------------------
\* the steps of a call that has begun
CallStep(t) ==
    \/ Lock(t) \/ Interrupted(t)
    \/ ReadData(t) \/ ReadEmpty(t)
    \/ WriteData(t) \/ WriteRefused(t) \/ WriteFull(t)
    \/ DupStore(t) \/ CloseLoad(t) \/ CloseStore(t)

Next ==
    \/ \E t \in Threads :
          \/ CallStep(t) \/ Eintr(t) \/ CloseHost(t) \/ SetNonblock(t)
          \/ \E n \in Counts : Call(t, n)
          \/ \E u \in Threads : DupLoad(t, u)
    \/ \E n \in Sizes : SetPipeSize(n)
    \/ Interrupt

Spec == Init /\ [][Next]_vars

\* A thread inside a call keeps running, and the mutex serves every thread that
\* waits for it (Mutex!LockProgress), so a thread that finds the lock free again
\* and again gets it.
FairSpec == Spec /\ \A t \in Threads : WF_vars(CallStep(t)) /\ SF_vars(Lock(t) \/ CloseLoad(t))

-----------------------------------------------------------------------------
(***************************************************************************)
(* Properties                                                              *)
(***************************************************************************)
\* The types of the variables.
TypeOK ==
    /\ nreaders \in Int /\ nwriters \in Int /\ nbytes \in Nat
    /\ pipesz \in Sizes \cup {FirstSize} /\ state \in 0..2 /\ freed \in BOOLEAN
    /\ holder \in Threads \cup {NoThread} /\ queue \in Seq(Threads)
    /\ pc \in [Threads -> Locations]
    /\ rem \in [Threads -> Nat] /\ done \in [Threads -> Nat]
    /\ eintr \in [Threads -> BOOLEAN] /\ nonblock \in [Threads -> BOOLEAN]
    /\ loaded \in [Threads -> Int]
    /\ moved \in [Threads -> Nat]
    /\ raced \in BOOLEAN /\ resized \in BOOLEAN
    /\ orphans \in Nat /\ sigpipe \in BOOLEAN

\* poll and epoll, which look at the host pipe only, tell the truth as long as some
\* handle keeps the host's read end open: the pipe is readable on the host exactly when
\* there is data, and, if nobody changed its capacity, writable exactly when there is
\* space.  (Without a reader the host reports an error on the other end, whatever the
\* blocks.)
PollExact ==
    HostOpen => /\ state > 0 <=> nbytes > 0
                /\ ~resized => (state < 2 <=> nbytes < pipesz)

\* the units that the threads of S were told of, n[t] for thread t, one by one
Units(n, S) == UNION {{t} \X (1..n[t]) : t \in S}

Told == [t \in Threads |-> moved[t] + done[t]]

\* No unit is lost or invented: what the writers were told they wrote, or have
\* written in a call that goes on, is what the readers were told they read and
\* what the buffer holds.  Signals, -EAGAIN and a closed end included.  A write may fail
\* and leave units behind only when no reader can come for them any more; what a reader
\* took of that write before it closed is among them.
Conservation ==
    /\ Cardinality(Units(Told, Writers)) + orphans
          = nbytes + Cardinality(Units(Told, Readers))
    /\ orphans > 0 => ~HostOpen

\* Unless an unlocked increment overlaps another one or a close, the counts are the
\* handles, so the last close and no other frees the shared structure, and a writer is
\* sent SIGPIPE only when no reader is left.
CountsExact ==
    (~raced /\ \A t \in Threads : pc[t] # "dup") =>
        /\ nreaders = Cardinality(Open(Readers))
        /\ nwriters = Cardinality(Open(Writers))
        /\ freed <=> Open(Threads) = {}
        /\ sigpipe => Open(Readers) = {}

\* The buffer, the host pipe that poll looks at and the counts of the two ends agree
\* with what the callers were told (Conservation, PollExact and CountsExact).
PipeExact == TypeOK /\ Conservation /\ PollExact /\ CountsExact

\* Between one reader and one writer no wakeup is lost: a reader never keeps
\* sleeping on data or on a pipe without writers, a writer never on space or on a
\* pipe without readers.
Awake(t) ==
    IF t \in Readers THEN nbytes > 0 \/ nwriters = 0
                     ELSE nbytes < pipesz \/ nreaders = 0

PairNeverStuck ==
    \A t \in Threads :
        (dups = 0 /\ pc[t] = "wait" /\ Awake(t) /\ ~resized)
            ~> (pc[t] # "wait" \/ dups > 0 \/ resized \/ ~Awake(t))

\* "signal that pipe is now read enabled": a reader that sleeps on data is woken
\* however many threads use the pipe.
ReaderWoken ==
    \A t \in Readers : (pc[t] = "wait" /\ nbytes > 0) ~> (pc[t] # "wait" \/ nbytes = 0)
=============================================================================
