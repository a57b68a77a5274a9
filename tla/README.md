# Mystikos kernel: TLA+ models and proofs

Mystikos runs Linux programs inside a trusted execution environment. Its kernel
(`src/kernel`) is a library that implements system calls for the threads of one
host process: what the program sees as processes and threads are all host
threads, entered through "target calls" (`src/target`) that create them, put
them to sleep and wake them. Files come from a memory file system, from ext2
images on verified block devices, or from the host. The modules here model that
kernel: sleeping and waking, the life of threads and processes, signals, memory,
descriptors, files, sockets, and the boot and the system call path that hold them
together.

## 1. Inventory

| Component | State | Operations | Interacts with | Hard part |
|---|---|---|---|---|
| Mutex (`mutex.c`) | owner, recursion count, FIFO of waiters, spin lock | lock, trylock, unlock | host wait and wake on `thread->event`; signals end a lock call | the gap between queueing and sleeping |
| Condition variable, futex (`cond.c`, `futex.c`, queues of `thread.h`) | per futex a mutex and a wait queue; per thread a queue field | WAIT, WAKE, REQUEUE, bitset forms | the mutex; signals; host timeouts | selection, timeout, signal and requeue racing for one waiter |
| Thread group (`thread.c`, `SYS_exit`, `SYS_exit_group`) | group list, thread count, exit status word | clone, exit, kill of the group, teardown | signals (SIGKILL), process | clone behind the sweep, failing half-way, who leaves last |
| Processes (`thread.c`, `pgid.c`) | process list, zombie list, exit cause, process group | fork, exit, wait4, waitid, setpgid | SIGHUP to children, SIGCHLD to the parent | reads without the lock, parent and child both exiting |
| Signals (`signal.c`) | pending bits, siginfo lists, masks, stop word | deliver, process, sigprocmask, SIGSTOP, SIGCONT | both ends of every system call, every wait | re-entrance |
| Pseudo fork, exec (`crt/fork.c`, `exec.c`) | rendezvous word, copied stack, arguments | fork, vfork, exec, exit | futex, process list, memory | who frees what the child runs on |
| System call path (`syscall.c`, `kstack.c`, `times.c`) | kernel stacks, FS register, times, saved contexts | enter, leave, signal on the way, exec, exit | every handler | long jumps out of nested calls |
| Boot and shutdown (`enter.c`, `procfs.c`, `devfs.c`) | the facilities that are up | the steps of `myst_enter_kernel` and back | all | failures half-way, order of release |
| Pipes (`pipedev.c`) | buffer, counts of readers and writers, host pipe for poll | read, write, dup, close, F_SETPIPE_SZ | condition variable | one condition for readers and writers |
| Unix sockets (`udsdev.c`) | two buffers with two mutexes; array of acceptors | send, recv, dup, close; bind, listen, connect, accept | host sockets for poll | two locks in both orders; pointers into an array that moves |
| Host sockets (`sockdev.c`, `target/shared/interrupt.c`) | host descriptor, nonblock | all socket calls, poll and retry | signals | a number that is reused between tries |
| Eventfd, epoll, inotify, poll, select | counters, watch lists, event sets | read, write, ctl, wait | host | counts and buffers at their limits, timeouts |
| Interval timer (`itimer.c`) | value, interval, wait start | setitimer, getitimer, the timer thread | condition variable, SIGALRM | setting against expiry |
| Descriptor table (`fdtable.c`) | table of objects under a spin lock, `/proc` links | assign, dup, clone, close, exec | every device | reuse between the steps of a call |
| Memory manager (`mman.c`, `mmanutils.c`) | list of areas, protections, owners; table of mapped files | mmap, munmap, mremap, mprotect, brk, msync | process exit releases mappings | splitting and merging; ownership in a second step |
| Path names and mounts (`mount.c`, `realpath.c`) | mount table, working directory | mount, umount, chdir, resolution | file systems | stale resolution, two spin locks |
| File systems (`ramfs.c`, `ext2.c`, `hostfs.c`, `lockfs.c`) | inodes, blocks, link counts, open files, streams | the file system calls | one recursive mutex per file system | lifetimes, copies of inodes, failing half-way |
| Block devices (`verityblkdev.c`, `luksblkdev.c`, `rawblkdev.c`) | caches, hash tree | get, put | the untrusted host | eviction, a host that alters blocks |
| User and group ids (`uid_gid.c`, `chown.c`) | four uids, four gids, groups | set*id, fork, chown, chmod | files | privileges lost and regained |
| Offsets and copying calls (`sendfile.c`, `copyfilerange.c`) | offsets | read, write, sendfile, copy_file_range | file systems | loops of other calls |
| Cookies, tools, host side, C runtime | - | - | - | not modelled, section 7 |

`PROJECT.json` lists every component with its status and, under `hazards`, each
place that is hard to test with the properties aimed at it.

## 2. Modules

Each component has a module with its variables, one action per step, `Next`,
`Spec`, and its properties at the end; a `.cfg` gives the
constants for TLC, with an `MC` module where symmetry or several components need one. Comments that begin with "mutant" mark an operator that stands for a
plausible mistake: substituted for the definition below it, it must break a
property.

**Granularity.** A section under a spin lock is one action, because every reader
and writer of that state takes the lock. Where the code reads without the lock,
or goes on after releasing it, the section is cut exactly there. An operation of
a file system is one step (lockfs), one of the memory manager too (its lock); a
system call that makes several of them is several steps.

**Known defects** of the code are modelled as they are. Where a property would
fail because of one, either a run shows the violation (section 5) or a variable
(`hurt`, `raced`, `excused`, `shifted`, `odd`, `broken`, `skew`, `lost`, `moved`,
`drift`, `leaked`, `twice`) records that the defect has happened, and the property says
what holds as long as it has not. Such a property does not find the defect it leaves
out: it shows that nothing else breaks the promise. The comment at the property names the
case, and so does the note of the hazard in `PROJECT.json`.

### Synchronisation

- `Mutex` models `mutex.c` with the host's `waitwake.c`. `event` is the integer
  that `myst_tcall_wait` decrements and `myst_tcall_wake` increments; `hold` counts
  what callers were told, so exclusion is stated for callers and not for the field
  `owner`. `Lock` is what its users rely on: a holder, a set of waiters.
- `Futex` models `futex.c` and `cond.c`. A waiter goes through *check* (word
  compared under the mutex), *enqueue*, *enter*, *wait*, *sleep*, *awake*. A waker
  *selects* waiters under `c->lock` into a queue of its own, then clears the queue
  field of each and wakes it. `onq` is that field. The mutex is used through its
  guarantees (FIFO, recursive, exclusive).

### Threads, processes, signals

- `ThreadGroup`: the location of a thread is its place in `_syscall_clone`,
  `myst_kill_thread_group` or the exit half of `_run_thread`. `numThreads` is the
  global `_num_threads`, which also counts the main thread of the first process.
- `Process`: the two lists as sequences, read along `next_process` and
  `zombie_next`. An exit is split into the moves of
  `myst_send_sigchld_and_zombify_process`, all under the list lock
  (`ListUnlocked` is false between them), because `myst_wait` starts with three
  reads that do not take it. `owed` is a history variable: the children that match
  a wait call since it began.
- `Signal`: one thread and everyone who sends to it. `frames` is the stack of calls
  of `myst_signal_process`: a handler's system call pushes one, and so does the
  wait of a stopped thread.
- `ForkExec`: the parent's and the children's side of pseudo fork with the
  rendezvous, the copied stack with its chain of frame pointers, and exec. The words
  that the walk along the pointers changes are the least set closed under its step
  (`Walked`), not a recursion.
- `Dispatch`: a thread's way through `myst_syscall`; what every call shares. The calls that
  `syscall.c` dispatches to appear only where they change this state.
- `Boot`: `myst_enter_kernel` as a sequence of steps that take and release named
  facilities, with the processes that live on them.

### Memory

- `Mman`: areas as a set of intervals, `prot_vector`, delayed zero-filling, the
  owner of each page, and per process the system call under way.
- `FileMap`: the vector `fdmappings`, the duplicates of descriptors it holds,
  msync and the release on munmap and exit. Only msync writes pages to their file.

### Files

- `FdTable`: tables, objects, close-on-exec, and the calls that use them in steps.
- `Ramfs`, `Ext2File`, `Ext2Dir`: name space and lifetimes of ramfs; blocks, data
  and link counts of ext2; its directories and their records. `Attributes` has
  modes, owners and times of both, `DirStream` reading a directory that changes.
- `Lockfs`: the wrappers with lock, signal mask and links between file systems; all of
  them have one shape per kind (by path, by open file), so one call stands for each.
- `HostFs`: paths, links, owners and descriptors that the host really has.
- `BlockDev`: verity, LUKS and raw devices over a host that fails reads and alters blocks.
- `Names`: resolution of paths, mounts and the working directory with two locks.
- `FileIo`: offsets, O_APPEND, sendfile and copy_file_range, with a second thread.

### Communication, events, credentials

- `Pipe`; `Uds` (streams of a connected pair) and `UdsListen` (names, listeners,
  connect and accept); `HostSock`.
- `Epoll`, `Inotify`, `Poll`, `Itimer`.
- `Ids`: the ids of a thread, with the file whose owner and mode depend on them.

**How they compose.** `Mutex` implements `Lock` (refinement, proved); `Pipe`,
`Futex`, `Lockfs` and `Uds` use the mutex as `Lock` describes it. The futex is what
a stopped thread of `Signal` sleeps on. `ThreadGroup` ends where `Process` begins:
the state in which its main thread finds itself alone is the one in which
`Process!Exit` starts. `Lockfs` justifies that operations of `Ramfs`, `Ext2File` and
`Ext2Dir` are single steps; `BlockDev` that a block is a value.

The `MC` modules of five runs put several components beside each other: `running`
says which one a behaviour is about, and the others stay at their initial state. The
state space is the sum, not the product, so every component is explored with bounds
of its own, and one property of the run conjoins what the modules state.

## 3. Runs

| Run | Instance | What it shows |
|---|---|---|
| `locks` | `Mutex`: 3 threads, recursion 2, 1 signal; `Futex`: 3 threads, bitsets over 2 bits | exclusion, exact queue, no lost wakeup, the abstract lock, waiters are served |
| `group` | `ThreadGroup`: 3 threads, a failing clone, a fatal signal; `Futex`: 3 threads, 2 calls each, with 1 timeout or 1 stray wakeup; and 2 futexes with requeue in all directions and a signal | list, count, teardown and status of a group; every thread in one queue, whoever is selected is woken, nobody waits for a word that has changed |
| `threads` | `Signal`: 2 signals sent twice, 3 nested calls, sigprocmask, a stop; `ThreadGroup` as in `group`; `Process` with blocking waits | order, bits, masks; the group ends, waits return |
| `process` | `Process`: 3 processes, 2 waiting threads, WNOHANG, WNOWAIT, WUNTRACED, setpgid, a stop; `ForkExec`: 2 children; `Dispatch`: 2 threads, 3 kernel stacks; `Boot`: 1 thread, 2 processes, 1 mount | lists, status word, no false ECHILD, no stale "still running"; fork, dispatch and boot |
| `pipe` | 1 reader, 2 writers, capacities 1 and 2, dup, signal | conservation, poll, counts; a pair never gets stuck |
| `memory` | 2 processes, 4 pages, 4 calls | areas, protections, contents, owners, release at exit |
| `files` | `FdTable`: 2 processes, 3 threads, 2 descriptors; `Ramfs`; `Ext2File`; `Ext2Dir` | no dangling entry, no leak, no shared block, a tree |
| `objects` | sixteen components: `Uds`, `UdsListen`, `HostSock`, `Ids`, `Attributes`, `FileIo`, `FileMap`, `Names`, `Epoll`, `Inotify`, `Poll`, `Itimer`, `Lockfs`, `BlockDev`, `DirStream`, `HostFs` | what the comment at each of its seven properties says |
| `futex_timeout`, `signal_stop`, `pipe_wakeup`, `ext2_stale` | one property each | the disagreements of section 5 |

**Bounds.** All bounds are constants. Three threads are needed for a waker, a
waiter and a third that takes what one of them was about to use; the wait queue
then has a front and a back, which is what the FIFO and the "first one left" code
tell apart. Two calls per thread let what a first wait left behind meet a second
one. A second timeout, signal or failed call adds no new pair of racing steps.
Three processes make a chain as well as two siblings. Four pages hold an area with
one page on each side of a hole, which splitting and merging need. Two names, two
handles and four inodes are enough for a rename over an open file and a directory
in a directory; blocks of two cells with one direct slot reach the double indirect
level. A verity cache of two clean blocks and four operations let a read follow an
eviction; four calls in `Lockfs` let three threads meet in one open file, one of them
closing it; four calls in `FileMap` map a file, close a descriptor, reuse its number and
sync. `Poll` has three changes of readiness, so that they can fall before, during and
after the host's poll; `Epoll` caps its count at `IntMax` 2, where the code has INT_MAX. One of the
two files of `FileMap` (`Checked`) is on ext2, which checks the access mode in pwrite, and
one on ramfs, which does not. `MaxFailures` bounds what the host or the allocator refuses.
Counters of calls stop a behaviour, they never stand for a limit of the code.

**Fairness.** Threads are host threads, so a thread that is not asleep runs: weak
fairness of its steps inside the kernel. What user code does is not fair (it need
never call exit, wait or unlock), with these exceptions, each stated at the
specification: in `Mutex` an owner finally makes its last unlock, since the kernel's
critical sections are finite, and signals are bounded; in `Process` a process with a
pending SIGHUP ends by it, the default action; in `Signal` handlers return and the
thread makes another system call. Polling loops need no fairness beyond that.

**Deadlock checking** is off in all runs: calls are bounded, so every behaviour may
end. Blocking for ever is stated where it matters (`NoLostWakeup`, `PairNeverStuck`,
`OnlyCrossingDeadlocks`, `OneWayNoDeadlock`, `OnePairSpins`, the liveness properties).

## 4. Properties

- `locks`: `MutualExclusion`, `QueueIsWaiters`, `NoLostWakeup`, `LockRefinement`,
  `LockServed`, `FutexServed`.
- `group`: `GroupExact`, `InternalKillInvisible`; `QueuesExact` (the queue field that the
  code asserts on, and no trace left behind), `WakesExact` (selected is woken; the futex
  contract).
- `threads`: `InOrderOnce`, `PendingExact`, `MaskRestored`, `SignalHandled`;
  `ProcessEnds`; `WaitsEnd`. `ProcessEnds` excepts three known hindrances (`Hindered`): a
  clone that failed after linking its thread, a thread cloned behind the sweep, and two
  child threads that end the group and wait for each other.
- `process`: `ListsExact`, `StatusFaithful`, `WaitAnswersTrue`; `KernelExact`.
  `WaitAnswersTrue` depends on the order of the three unlocked reads: reading the
  zombie list first would miss a child that moves in between. `KernelExact` excepts
  that the main process releases its mappings before a forked child that runs in
  them is told to end, that a parent that executes a program takes its child's stack
  away, and that a ppoll or an exec inside a handler loses the thread's mask.
- `pipe`: `PipeExact`, `PairNeverStuck`.
- `memory`: `AreasExact`, `PagesExact`.
- `files`: `DescriptorsExact`, `RamfsExact`, `FileBlocksExact`, `DirectoriesExact`,
  `ExecClosesMarked`.
- `objects`: `SocketsExact`, `CredentialsExact`, `CopiesExact`, `PathsExact`,
  `EventsExact`, `AnswersTrue`, `StoresExact`, each the conjunction of the `...Exact`
  or `...Step` formulas of its modules.

## 5. Where the code and its own text disagree

1. `futex_timeout`: a selected waiter that times out before the waker has cleared
   its queue field is pushed on the mutex queue with the field set; the assert of
   `push_back` fails.
2. `signal_stop`: a stopped thread waits on a futex from inside the wait for that
   futex; if SIGCONT comes before the inner wait sleeps, the thread sleeps with
   the recursive mutex held and SIGCONT blocks on it.
3. `pipe_wakeup`: the one signal after a write may wake another writer, and a reader
   sleeps on although the pipe has data.
4. `ext2_stale`: ftruncate through a stale copy of the inode frees blocks that are
   free already.

The quotations are under `findings` in `PROJECT.json`.

## 6. Proofs

`MutexProofs` proves, for every set of threads, recursion bound and number of
signals, from the one assumption that `NoThread` is not a thread:

- `MutexInvariant` and `TypeCorrect`: types, the recursion count, and that an unlock
  about to wake has somebody to wake;
- `MutexExclusion`: two threads never hold the mutex;
- `MutexQueue`: the queue holds each waiter once and nobody else;
- `MutexNoLostWakeup`: a free mutex with waiters has its front waiter on the way.

The argument goes in three layers, each inductive relative to the ones below.
`MutexInv` joins the types with `RefsMatchHolds` and the fact that an owned mutex
has a positive count; exclusion follows at once because holders are owners.
`QueueInv` adds that the owner is not queued: without it, a thread that
obtains the mutex could leave a second entry behind. The proof rests on lemmas
about `Unlink` (removing one element keeps order and the other elements). For the
wakeup `NoLostWakeup` is not inductive by itself: it has to be said of the event
word that it is at least -1 and that only a sleeping thread's event is -1, so that
one increment always suffices; a signal can make the word larger, which only
causes an extra round of the loop.

`SignalProofs` proves, for every set of signals, every choice of masks and `SA_NODEFER`
flags of their handlers and every bound on deliveries, stops and nesting:

- `SignalOrder`: every siginfo reaches the handler once and in order;
- `SignalPending`: a siginfo is never without its pending bit, and a bit without
  a siginfo belongs to a call in progress;
- `SignalMask`: outside all handlers the mask is the one of sigprocmask;
- `SignalTypesCorrect`: the types, among them that the thread holds the mutex of the stop
  word never less than not at all and no more often than it has calls in progress.

All of them rest on the types that `SignalTypes` names. `InOrderOnce` is inductive with
those: a delivery extends the end of the list (`AppendLast`) and the start of a handler
moves the front of it (`MoveFirst`). `PendingExact` needs to know that a stopped
call has chosen no signals (`FrameShape`), or replacing its frame could drop a bit's
owner, and that the bits cleared below the chosen signal have empty lists, which is
what choosing the lowest one gives (`MinProperties`). `MaskRestored` speaks of the
empty stack only; `MaskOwn` says the same of every stack without a handler, which
is what the steps preserve. The types need `StopsExact`: the mutex is held once for
every call that waits (`WaitsTop` counts them), and every SIGCONT that has still to wake
the thread answers a SIGSTOP of its own.

`MutexImplementsLock`: every step of the mutex is a step of `Lock` or a stutter, with
the waiters of the abstract lock the threads inside a blocking call.

`ListLemmas` holds what the following proofs need of lists without repetition: the
elements, and what inserting, removing, pushing, appending and taking the tail do to
them. Each fact is about `IsInjective` and `ToSet`, so that a proof about a module
never reasons about indices.

`ProcessProofs` proves, for every set of processes, callers and wait arguments, from
the assumptions that the root is a process, that callers belong to processes and
that an exit status is an integer and a terminating signal one of 1 to 64:

- `TypeCorrect` and `ListsAreExact`: the process list and the zombie list hold
  exactly the processes they should;
- `StatusIsFaithful`: the status word decodes to how the child ended;
- `WaitAnswersAreTrue` (an action property): ECHILD only if nobody was owed to the
  call, "still running" only if none of those owed had been reported.

The list property is not inductive. `Ordered` adds that a process is linked behind its
parent and that the parent has not begun to leave: without it, the parent a child is
inserted after may be gone. For the answers, `Waiting` records what the unlocked
reads have found: a call is owed only children that match, and once the first read has
found none in the list, all of them are zombies. `Told` says that whoever has been
reported is at least on the way to the zombie list.

The rest of the module is about the kernel around the processes: `KernelIsExact`, that
every configuration of `MCProcess` satisfies `KernelExact`. Assumed is that the child
processes and the threads are finitely many (they are counted) and that no child is
called as the parent is, that the copied stack has at least one word and each holds a
place in it or one outside, that the first thread exists and kernel stacks are
addresses other than 0, and that no process of `Boot` but the main one has its number.
The bounds on calls, signals, failures and forks are arbitrary. Each component has an
invariant of its own, and `KernelInv` says that the one that runs keeps it.

- `ForkInv`. Whether a waiting parent was told (`WaitsForChild`) depends on one word
  that all its children share. `Reported` says what the word means at each step of the
  parent: not set, the child has not reported; set, it has, or another child's report or
  a signal is the excuse. `Phases` ties the step of the call to its child's, without
  which the references to the arguments could not be counted. `StacksLinked` is the
  invariant of the copied stack before and after the walk; `FixupLinks` shows that what
  is reached from the base pointer after the walk is what was walked and the frame it
  stopped at, so that no pointer on the way leads into the parent's stack.
  `ThreadsCounted` bounds the runtime's thread count from both sides: a child that is
  killed is never taken off it.
- `DispInv`. `Nested` describes the calls of a thread: the outermost comes from its own code
  and remembers the descriptor of that code, each further one comes from a handler and
  remembers the C runtime's; this is what restores the descriptor on the way out.
  `SoleThread` is needed because a program whose C runtime is not set up has no
  descriptor to remember: it has one thread, one call and no handler. `StackInv`
  counts the kernel stacks: `Holds` of two threads and the free list are disjoint, and
  together they are as many as were made (`StacksMoved`, `StacksPassed`), as long as no
  call was left for good. `TimesExact` equates a sum with the cardinality
  of a set of units (`TimesMoved`), and needs the order of a thread's time stamps
  (`TimesOrdered`). `MasksEmpty` follows the one saved mask through ppoll and handlers.
- `BootInv`. `Present` and `Absent` say which facilities are there at each stretch of the boot,
  of the program's life and of the shutdown; `BootTable` and `ExitTable` list the steps, and
  `BootMoves` and `ExitMoves` check a step once for the whole table. `Living` is why
  nobody uses what is taken down: a process whose parent is not the main one has a
  living parent, so when the main process has waited for its children, all are gone.

`GroupProofs` has two parts. The first assumes a finite set of threads with the main
thread in it (the proof counts them):

- `GroupIsExact`: the list holds the threads of the group with the main thread first,
  the count is right, the teardown comes last;
- `InternalKillIsInvisible`: a SIGKILL sent by the kernel itself does not appear in the
  exit status.

`IInv` adds where the main thread can be (`MainPlace`), that only one clone call
starts a thread it has linked (`Cloning`, without which two calls could count
it twice), and that a pending internal SIGKILL implies a status that is already
set (`Unsignalled`).

The second part is about the futexes, in every configuration of `MCGroup`: any set of
futexes, bits, bitsets, counts, pairs to requeue and bounds, and any finite set of
threads (a release wakes as many as there are). Assumed is what the system call checks: a
bitset that waits is not empty, counts are not negative, pairs are pairs of futexes.

- `TypesCorrect`: the types of the group and of the futexes;
- `QueuesAreExact`: a thread is in one queue, the one its queue field names; outside a call
  in none;
- `WakesAreExact`: who sleeps and is in no condition variable's queue is going to be woken;
  wakers use the event of threads that still wait; nobody waits for an old value.

None of the properties is inductive. `FutexInv` holds with signals, timeouts and requeues.
`Shape` and `Arguments` say where a call of each kind can be and with what arguments;
`Held` counts how often each thread holds each mutex (`Holds`: a requeue from a futex to
itself holds it twice, and a thread that a signal ends may keep it), which makes owner and
count exact. `Queued` and `Distinct` put each thread in one queue once. `Places` says
that only a waker on its way has waiters in queues of its own, so that none of them is
forgotten when it leaves. `AboutToWake` is the reason why no wakeup is lost: a waiter that
has left the queue before it sleeps finds its event raised, or is the target of a waker.
`PlainInv` adds what only holds without signals and requeues (`Quiet`): who is in a
queue, or taken from it and not woken, is in its wait (`Waiting`), and whoever waits for a
value that has changed, or is about to, will be met by the one that changed it (`Fresh`).
The heart of `Fresh` is `ReleaseTakesAll`: a release chooses every waiter, since bitsets
are not empty and a queue without repetition has no more places than there are threads.
`Part`, the order-preserving choice of places in a queue, is defined by counting and not
by recursion, so that `PartFacts`, `FirstFacts` and `ChosenFacts` can be proved.

`PipeProofs` proves `PipeIsExact` for every finite set of readers and writers, every
capacity and all lengths of buffers: no unit is lost or invented, poll agrees with the
contents while the host's read end is open, the counts are the open handles as long as no
two unlocked updates of them have raced. A close gives up the host's end before it takes
the lock, so a write in between puts its units in the buffer and then fails; they are
counted as `orphans`, and there are some only when no handle of a reader is open
(`HostOpen`), so nobody misses them. Conservation is an equation between sums; `UnitsFinite` and
`UnitsAdd` turn it into one about cardinalities. Writing the proof corrected the type of
`loaded`: lost updates can take a count below zero, so the value that a dup has read is
an integer.

`FdTableProofs` proves, for every number of processes, threads and descriptors and
every finite set of objects:

- `DescriptorsAreExact`: entries point to live objects of their own, none leaks or is
  used after its close, `/proc/<pid>/fd` shows what is open;
- `ExecIsExact` (an action property): exec closes the descriptors that are marked, also
  those inherited through fork, and no others.

Its invariant has two layers. `Basic` always holds; it contains `Marked`, that the
flag in the object is what its callers made of it, from which `ExecIsExact` follows.
`Sane` holds until a program closes a descriptor that another of its threads is
using (`raced`): the kernel takes no reference on the object it has looked up,
so nothing can be said after that. Its heart is `Placed` and `Exclusive` (the entry a
call is about keeps its object, and only uses share an entry) and `InHand` (an object
taken from or not yet put in a table belongs to one call). `NoLeak` needs
`TwoEnds`, `LinksAreFiles` needs `NoStaleLink`. The lemmas `DropInv`, `UndoInv` and
`CloseEntriesSane` are shared by the actions that give up a descriptor;
`CopiesAreNew` shows that fork finds new objects for all copies.

`MmanProofs` proves, for any number of pages, any set of processes and any longest
request, from the assumption that `Nobody` is not a process:

- `AreasAreExact`: the list of areas is sane and covers exactly the mapped pages, and
  the release at exit finds each run of a process's pages in one area;
- `PagesAreExact`: protections, contents and recorded owners, with the two exceptions
  that `PagesExact` names.

The first part of the module is about the list alone. `InsertFacts`, `CutFacts` and
`RunsFacts` say what inserting, cutting and releasing do to the covered pages, and that
areas stay apart by at least one page; `GapFacts` and `RoomFacts` that a gap is free.
`OneArea` is the reason why merging matters: covered pages in a row lie in one area, so
that the release succeeds and a moved area can be cut out of whatever it was merged
into. Three parts of `IInv` are not in the properties. `FreeIsClosed`: a free page above
the break value is inaccessible, or an area that waits for its zeros could not grow
without changing the host's protection. `Recorded` and `Settled`: the owner of a page
is recorded by a second step, so in between a page may be recorded for the process that
has just given it up; they say for which process, and that a call repairs it.
`CallsExact` says which pages a call is about to record or to erase, without which the
second step could record a page of somebody else. `MovedContent` goes through the cases
of mremap's copy and shows that only the one named in `ContentKept` loses data.

**Only model-checked**, and why:

- liveness (`LockServed`, `FutexServed`, `SignalHandled`, `ProcessEnds`, `WaitsEnd`,
  `PairNeverStuck`): outside the prover's reach, as is anything that needs `ENABLED`;
- `RamfsExact`, `FileBlocksExact`, `DirectoriesExact`: reachability in a tree and the
  levels of a block map are recursive, which the provers cannot do induction on;
- `MCThreads.Types`, for the configurations of that run: it conjoins the types of `Signal`,
  `ThreadGroup` and `Process`, each of which is proved for its module by itself;
- the seven properties of `objects`: no obstacle, not proved yet.

## 7. Not modelled

Thread cookies (the map that hides thread pointers from the host), the tools, the
host side and the start-up code of the C runtime, archives (cpio, tar), the text of
procfs and devfs files, ciphers and hashes (a block is genuine or not), elf loading.
Memory lifetime (accesses after `free`) appears as conditions on locations or objects
(`TargetInWait`, `TeardownLast`, `NoUseAfterClose`, `FreedExact`). Left out of the
modelled components: names, time limits, altstacks, hardware exceptions,
`sigtimedwait`, tracing, socket options. `setpgid` is one action although it takes no
lock. The mounts of single host files, through an automounted directory and a link, and
their removal are not in `Names`. Each `PROJECT.json` entry says what its module leaves
out.

## 8. Plan

The thread cookies and the thread limit are the next parts to model. Of the proofs,
those of `Ids` and `Uds` come next, as parts of `CredentialsExact` and `SocketsExact`.
