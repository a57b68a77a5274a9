------------------------------- MODULE Lockfs -------------------------------
(***************************************************************************)
(* The lock around a file system (kernel/lockfs.c).  Every call of a ramfs *)
(* or of an ext2 file system goes through a wrapper that blocks all        *)
(* signals, takes the file system's recursive mutex, makes the call and    *)
(* undoes both.  A path can lead through an absolute symbolic link into    *)
(* another file system (or back into the same one): the call then goes on  *)
(* there, through that one's wrapper, with the first lock still held.      *)
(*                                                                         *)
(* A mutex is lent by Mutex.tla's argument: one owner, a count, and a      *)
(* wait that SIGKILL, which no mask blocks, can end the thread in.  What   *)
(* the wrapped file systems do is in Ramfs, Ext2File and Ext2Dir; here a   *)
(* call opens a file, works on an open file, or does neither.              *)
(***************************************************************************)
EXTENDS Integers, Sequences, FiniteSets

CONSTANTS Threads, NoThread,
          Fss,        \* mounted file systems, each wrapped
          Links,      \* pairs <<f, g>>: a symbolic link of f leads to g
          Handles,    \* myst_file_t objects
          MaxDepth,   \* links in one path
          MaxCalls

VARIABLES
    owner, refs,   \* the mutex of each file system
    stack,         \* the wrappers each thread is in: the file system and the saved mask
    phase,         \* where a thread is in the innermost one
    call,          \* the operation of each thread, the file it is on, and whether
                   \* that file was closed by another thread since
    mask,          \* "user" or "all": the signals each thread blocks
    home,          \* the file system each open file lies in
    via,           \* the file system its descriptor refers to (fs_out)
    calls

vars == <<owner, refs, stack, phase, call, mask, home, via, calls>>

NoFs == "none"
NoCall == [op |-> "none", file |-> 0, stale |-> FALSE]

\* myst_lockfs_init
Init ==
    /\ owner = [f \in Fss |-> NoThread] /\ refs = [f \in Fss |-> 0]
    /\ stack = [t \in Threads |-> <<>>] /\ phase = [t \in Threads |-> "idle"]
    /\ call = [t \in Threads |-> NoCall] /\ mask = [t \in Threads |-> "user"]
    /\ home = [h \in Handles |-> NoFs] /\ via = [h \in Handles |-> NoFs]
    /\ calls = 0

-----------------------------------------------------------------------------
(***************************************************************************)
(* The wrappers, by what they take                                         *)
(***************************************************************************)
\* creat and open; the other wrappers that take a path; the wrappers that take an open file
\* (a call that works on it, and close).  What the calls of a kind do differs only in the
\* file system that is wrapped.
PathCalls == {"open", "stat"}
FileCalls == {"read", "close"}

Top(t) == stack[t][Len(stack[t])]
Free(h) == home[h] = NoFs

\* lock: the mask first, then the mutex
Wrapped(t, f) ==
    /\ stack' = [stack EXCEPT ![t] = Append(@, [fs |-> f, saved |-> mask[t]])]
    /\ mask' = [mask EXCEPT ![t] = "all"]
    /\ phase' = [phase EXCEPT ![t] = "lock"]

\* a system call with a path, resolved to a file system by the mount table
PathCall(t, f, op) ==
    /\ calls < MaxCalls
    /\ phase[t] = "idle"
    /\ call' = [call EXCEPT ![t] = [NoCall EXCEPT !.op = op]]
    /\ Wrapped(t, f)
    /\ calls' = calls + 1
    /\ UNCHANGED <<owner, refs, home, via>>

\* a system call with a descriptor: the file system is the one it was opened with.  Other
\* threads may be in calls with the same descriptor; close takes it out of the table first.
FileCall(t, h, op) ==
    /\ calls < MaxCalls
    /\ phase[t] = "idle" /\ via[h] # NoFs
    /\ call' = [call EXCEPT ![t] = [NoCall EXCEPT !.op = op, !.file = h]]
    /\ via' = IF op = "close" THEN [via EXCEPT ![h] = NoFs] ELSE via
    /\ Wrapped(t, via[h])
    /\ calls' = calls + 1
    /\ UNCHANGED <<owner, refs, home>>

MayLockOnce(t, f) == owner[f] = NoThread

\* __myst_mutex_trylock
MayLock(t, f) == owner[f] \in {NoThread, t}

\* myst_mutex_lock
Lock(t) ==
    /\ phase[t] = "lock"
    /\ \E f \in {Top(t).fs} :
          /\ MayLock(t, f)
          /\ owner' = [owner EXCEPT ![f] = t]
          /\ refs' = [refs EXCEPT ![f] = @ + 1]
    /\ phase' = [phase EXCEPT ![t] = "in"]
    /\ UNCHANGED <<stack, call, mask, home, via, calls>>

\* SIGKILL is handled in the wait for the mutex and ends the thread there
Kill(t) ==
    /\ phase[t] = "lock"
    /\ ~MayLock(t, Top(t).fs)
    /\ phase' = [phase EXCEPT ![t] = "dead"]
    /\ UNCHANGED <<owner, refs, stack, call, mask, home, via, calls>>

\* the path led through an absolute link: the whole call is made there
Cross(t) ==
    /\ phase[t] = "in" /\ call[t].op \in PathCalls
    /\ Len(stack[t]) <= MaxDepth
    /\ \E g \in Fss : <<Top(t).fs, g>> \in Links /\ Wrapped(t, g)
    /\ UNCHANGED <<owner, refs, call, home, via, calls>>

FsOutFirst(t) == stack[t][1].fs

\* *fs_out: the wrapper of the file system where the path ended
FsOut(t) == Top(t).fs

\* the call itself: open makes a file or fails, close frees it, also under the calls of
\* other threads that wait for the lock
Inner(t) ==
    /\ phase[t] = "in"
    /\ \/ /\ call[t].op = "open"
          /\ \E h \in Handles :
                /\ Free(h)
                /\ home' = [home EXCEPT ![h] = Top(t).fs]
                /\ via' = [via EXCEPT ![h] = FsOut(t)]
          /\ UNCHANGED call
       \/ /\ call[t].op = "close"
          /\ home' = [home EXCEPT ![call[t].file] = NoFs]
          /\ call' = [u \in Threads |->
                        IF u = t THEN [call[u] EXCEPT !.file = 0]
                        ELSE IF call[u].file = call[t].file THEN [call[u] EXCEPT !.stale = TRUE]
                        ELSE call[u]]
          /\ UNCHANGED via
       \/ /\ call[t].op # "close"
          /\ UNCHANGED <<home, via, call>>
    /\ phase' = [phase EXCEPT ![t] = "out"]
    /\ UNCHANGED <<owner, refs, stack, mask, calls>>

RestoredUser(t) == "user"

\* unlock: the saved mask of a wrapper
Restored(t) == Top(t).saved

\* unlock; the outer call, if this one was made through a link, is over as well
Unlock(t) ==
    /\ phase[t] = "out"
    /\ \E f \in {Top(t).fs} :
          /\ refs' = [refs EXCEPT ![f] = @ - 1]
          /\ owner' = [owner EXCEPT ![f] = IF refs[f] = 1 THEN NoThread ELSE @]
    /\ mask' = [mask EXCEPT ![t] = Restored(t)]
    /\ stack' = [stack EXCEPT ![t] = SubSeq(@, 1, Len(@) - 1)]
    /\ phase' = [phase EXCEPT ![t] = IF Len(stack[t]) = 1 THEN "idle" ELSE "out"]
    /\ call' = IF Len(stack[t]) = 1 THEN [call EXCEPT ![t] = NoCall] ELSE call
    /\ UNCHANGED <<home, via, calls>>

Next ==
    \/ \E t \in Threads, f \in Fss, op \in PathCalls : PathCall(t, f, op)
    \/ \E t \in Threads, h \in Handles, op \in FileCalls : FileCall(t, h, op)
    \/ \E t \in Threads : Lock(t)
    \/ \E t \in Threads : Kill(t)
    \/ \E t \in Threads : Cross(t)
    \/ \E t \in Threads : Inner(t)
    \/ \E t \in Threads : Unlock(t)

Spec == Init /\ [][Next]_vars

-----------------------------------------------------------------------------
TypeOK ==
    /\ owner \in [Fss -> Threads \cup {NoThread}] /\ refs \in [Fss -> Nat]
    /\ \A t \in Threads : /\ phase[t] \in {"idle", "lock", "in", "out", "dead"}
                          /\ (stack[t] = <<>>) = (phase[t] = "idle")
                          /\ call[t].op \in PathCalls \cup FileCalls \cup {"none"}

Waits(t) == phase[t] = "lock" /\ ~MayLock(t, Top(t).fs)
WaitsFor(t) == IF Waits(t) THEN owner[Top(t).fs] ELSE NoThread

\* A file is worked on only by the thread that holds the lock of the file system the
\* file lies in, whatever links led to it when it was opened: _fs_open of ramfs and
\* ext2 return in fs_out the wrapper of the file system where the path ended.  Two threads
\* with one descriptor are never in the file at a time.  A call whose file was closed while
\* it waited goes on with freed memory (nothing counts its users), and close itself never
\* does.
Serialised ==
    /\ \A t \in Threads :
          phase[t] = "in" /\ call[t].op \in FileCalls /\ ~call[t].stale =>
              owner[home[call[t].file]] = t
    /\ \A t, u \in Threads :
          phase[t] = "in" /\ phase[u] = "in" /\ ~call[t].stale /\ ~call[u].stale
          /\ call[t].file = call[u].file /\ call[t].file # 0 => t = u
    /\ \A t \in Threads : call[t].op = "close" => ~call[t].stale

\* A thread blocks every signal while it is in a wrapper, however deep, and has its own
\* mask again after the call, so that no handler runs inside a file system.
MasksExact ==
    \A t \in Threads : (mask[t] = "all") = (stack[t] # <<>>)

\* Threads wait for each other in a circle only when each of them has followed a link
\* out of a file system whose lock it still holds: calls that stay in one file system,
\* and a link back into the same one, never deadlock.
OnlyCrossingDeadlocks ==
    \A t, u \in Threads : WaitsFor(t) = u /\ WaitsFor(u) = t => Len(stack[t]) > 1 /\ t # u

\* A lock is left behind by a thread that was killed only if the thread had followed a
\* link: SIGKILL in the wait of a call that stays in one file system costs nobody the lock.
OnlyCrossingOrphans ==
    \A t \in Threads, f \in Fss : phase[t] = "dead" /\ owner[f] = t => Len(stack[t]) > 1

LockfsExact == Serialised /\ MasksExact /\ OnlyCrossingDeadlocks /\ OnlyCrossingOrphans
=============================================================================
