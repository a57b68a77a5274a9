------------------------------ MODULE Dispatch ------------------------------
(***************************************************************************)
(* How a thread gets into the kernel and out again (kernel/syscall.c:      *)
(* myst_syscall, _syscall and the _SYS_ wrappers), with what every call    *)
(* shares: kernel stacks (kernel/kstack.c), the process times              *)
(* (kernel/times.c), the descriptor in the FS register, the signals        *)
(* handled on the way in and out (kernel/signal.c), and the end of a       *)
(* thread by a long jump (kernel/thread.c, kernel/enter.c).                *)
(*                                                                         *)
(* What the handlers of the calls do is the subject of the other modules;  *)
(* here a call that changes nothing of the above is Plain, whatever its    *)
(* name, and the others have an action of their own.                       *)
(***************************************************************************)
EXTENDS Integers, Sequences, FiniteSets

CONSTANTS Threads,       \* 1 is the main thread of the first process
          Stacks,        \* kernel stacks that can be mapped
          MaxUnmaps,     \* MYST_MAX_MUNNAP_ON_EXIT
          Enosys,        \* option: an unhandled call fails and does not panic
          MaxDepth, MaxTime, MaxCalls, MaxSignals

VARIABLES
    ph,        \* where each thread is
    frames,    \* the calls a thread is in, the innermost first
    fs,        \* the descriptor in its FS register
    crt,       \* thread->crt_td
    own,       \* the descriptor its user code put there
    area,      \* _set_thread_area_called
    free,      \* the list of free kernel stacks
    made,      \* how many were mapped
    exitK, execK,   \* thread->exit_kstack, thread->exec_kstack; 0 is none
    times,     \* start, enter_kernel_ts and leave_kernel_ts of each thread
    total,     \* tms_utime and tms_stime of the process
    now,
    sig,       \* of each thread: pending, mask and original_mask; lost is a ghost: the
               \* mask its own code had was overwritten (see MaskKept)
    handler,   \* a handler is installed for "usr"
    unmaps,    \* thread->unmap_on_exit, which only counts the descriptor's region here
    mapped,    \* the threads whose descriptor's region is mapped
    odd,       \* threads that called from a handler, or executed a program
    left,      \* a call was left without returning from it
    bounds

stackVars == <<free, exitK, execK>>
timeVars == <<times, total>>
vars == <<ph, frames, fs, crt, own, area, free, made, exitK, execK, times, total, now,
          sig, handler, unmaps, mapped, odd, left, bounds>>

Main == 1

-----------------------------------------------------------------------------
Init ==
    /\ ph = [t \in Threads |-> IF t = Main THEN "user" ELSE "none"]
    /\ frames = [t \in Threads |-> <<>>]
    /\ fs = [t \in Threads |-> "target"] /\ own = fs /\ crt = [t \in Threads |-> "none"]
    /\ area = FALSE
    /\ free = <<>> /\ made = 0 /\ exitK = [t \in Threads |-> 0] /\ execK = [t \in Threads |-> 0]
    /\ times = [t \in Threads |-> [start |-> 1, enter |-> 1, leave |-> 0]]
    /\ total = [user |-> 0, system |-> 0] /\ now = 1
    /\ sig = [t \in Threads |-> [pending |-> {}, mask |-> {}, orig |-> {}, lost |-> FALSE]] /\ handler = FALSE
    /\ unmaps = [t \in Threads |-> 0] /\ mapped = {Main}
    /\ odd = {} /\ left = FALSE
    /\ bounds = [calls |-> 0, signals |-> 0]

UserPhases == {"user", "handler"}
KernelPhases == {"before", "run", "polling", "after"}
Top(t) == Head(frames[t])
InUse(t) == {frames[t][i].k : i \in DOMAIN frames[t]}
\* stacks that somebody still knows of
Known == (UNION {InUse(t) \cup {exitK[t], execK[t]} : t \in Threads})
           \cup {free[i] : i \in DOMAIN free}
Fresh == Stacks \ Known

Tick ==
    /\ now < MaxTime /\ now' = now + 1
    /\ UNCHANGED <<made, ph, frames, fs, crt, own, area, free, exitK, execK, times, total, sig,
                   handler, unmaps, mapped, odd, left, bounds>>

\* a signal from elsewhere
Signal(t, s) ==
    /\ bounds.signals < MaxSignals
    /\ bounds' = [bounds EXCEPT !.signals = @ + 1]
    /\ ph[t] \notin {"none", "jumped", "gone"} /\ s \notin sig[t].pending
    /\ s = "usr" => handler
    /\ sig' = [sig EXCEPT ![t].pending = @ \cup {s}]
    /\ UNCHANGED <<made, ph, frames, fs, crt, own, area, free, exitK, execK, times, total, now,
                   handler, unmaps, mapped, odd, left>>

-----------------------------------------------------------------------------
(***************************************************************************)
(* In and out                                                              *)
(***************************************************************************)
\* myst_times_enter_kernel and myst_times_leave_kernel
TimesEnter(t) ==
    LET since == IF times[t].leave = 0 THEN times[t].start ELSE times[t].leave
    IN  /\ times' = [times EXCEPT ![t].enter = now, ![t].leave = since]
        /\ total' = [total EXCEPT !.user = @ + now - since]

TimesLeave(t) ==
    /\ times' = [times EXCEPT ![t].leave = now]
    /\ total' = [total EXCEPT !.system = @ + now - times[t].enter]

\* myst_get_kstack: the first of the list, or one that is mapped
GetKstack(k) ==
    IF free = <<>>
      THEN k \in Fresh /\ (\A j \in Fresh : k <= j) /\ free' = free /\ made' = made + 1
      ELSE k = Head(free) /\ free' = Tail(free) /\ made' = made

\* myst_put_kstack
PutKstack(k, list) == IF k = 0 THEN list ELSE <<k>> \o list

\* myst_syscall up to the signals that are handled first: a descriptor of the C runtime
\* is remembered and the one of the target put in its place
Enter(t) ==
    /\ bounds.calls < MaxCalls /\ ph[t] \in UserPhases /\ Len(frames[t]) < MaxDepth
    /\ bounds' = [bounds EXCEPT !.calls = @ + 1]
    /\ \E k \in Stacks :
          /\ GetKstack(k)
          /\ frames' = [frames EXCEPT ![t] = <<[k |-> k, crt |-> IF area THEN fs[t] ELSE "none",
                                                from |-> ph[t], at |-> "before",
                                                mask |-> {}]>> \o @]
    /\ TimesEnter(t)
    /\ fs' = [fs EXCEPT ![t] = "target"]
    /\ ph' = [ph EXCEPT ![t] = "before"]
    /\ odd' = IF ph[t] = "handler" THEN odd \cup {t} ELSE odd
    /\ UNCHANGED <<crt, own, area, exitK, execK, now, sig, handler, unmaps, mapped, left>>

Active(t) == sig[t].pending \ (sig[t].mask \ {"kill"})

\* myst_signal_process has nothing more to do
Proceed(t) ==
    /\ ph[t] = "before" /\ Active(t) = {}
    /\ ph' = [ph EXCEPT ![t] = "run"]
    /\ UNCHANGED <<made, frames, fs, crt, own, area, free, exitK, execK, times, total, now, sig,
                   handler, unmaps, mapped, odd, left, bounds>>

\* _handle_one_signal calls the handler, on the descriptor of the C runtime
Handle(t) ==
    /\ ph[t] \in {"before", "after"} /\ "usr" \in Active(t) /\ "kill" \notin Active(t)
    /\ handler /\ crt[t] # "none"
    /\ frames' = [frames EXCEPT ![t][1].at = ph[t]]
    /\ sig' = [sig EXCEPT ![t].pending = @ \ {"usr"}, ![t].mask = @ \cup {"usr"}]
    /\ fs' = [fs EXCEPT ![t] = crt[t]]
    /\ ph' = [ph EXCEPT ![t] = "handler"]
    /\ UNCHANGED <<made, crt, own, area, free, exitK, execK, times, total, now, handler, unmaps,
                   mapped, odd, left, bounds>>

\* the handler returns: myst_signal_restore_mask copies the thread's one original_mask,
\* and the descriptor before it is put back
HandlerReturns(t) ==
    /\ ph[t] = "handler"
    /\ sig' = [sig EXCEPT ![t].mask = sig[t].orig]
    /\ fs' = [fs EXCEPT ![t] = "target"]
    /\ ph' = [ph EXCEPT ![t] = Top(t).at]
    /\ UNCHANGED <<made, frames, crt, own, area, free, exitK, execK, times, total, now, handler,
                   unmaps, mapped, odd, left, bounds>>

\* _default_signal_handler: a signal that ends the thread jumps out of its calls
Killed(t) ==
    /\ ph[t] \in {"before", "after"}
    /\ "kill" \in Active(t) \/ ("usr" \in Active(t) /\ ~handler)
    /\ ph' = [ph EXCEPT ![t] = "jumped"]
    /\ frames' = [frames EXCEPT ![t] = <<>>] /\ left' = TRUE
    /\ UNCHANGED <<made, fs, crt, own, area, free, exitK, execK, times, total, now, sig, handler,
                   unmaps, mapped, odd, bounds>>

\* mutant: the thread stays on the target's descriptor
RestoredTarget(t) == "target"

\* the descriptor the thread came with, if it is one of the C runtime
Restored(t) == IF Top(t).crt = "none" THEN fs[t] ELSE Top(t).crt

\* the end of _syscall and of myst_syscall
Leave(t) ==
    /\ ph[t] = "after" /\ Active(t) = {}
    /\ fs' = [fs EXCEPT ![t] = Restored(t)]
    /\ TimesLeave(t)
    /\ free' = PutKstack(Top(t).k, free)
    /\ frames' = [frames EXCEPT ![t] = Tail(@)]
    /\ ph' = [ph EXCEPT ![t] = Top(t).from]
    /\ UNCHANGED <<made, crt, own, area, exitK, execK, now, sig, handler, unmaps, mapped, odd,
                   left, bounds>>

-----------------------------------------------------------------------------
(***************************************************************************)
(* The calls                                                               *)
(***************************************************************************)
After(t) == ph[t] = "run" /\ ph' = [ph EXCEPT ![t] = "after"]

\* a wrapper that decodes its arguments and passes the handler's answer on: nothing that
\* this module is about changes
Plain(t) ==
    /\ After(t)
    /\ UNCHANGED <<made, frames, fs, crt, own, area, free, exitK, execK, times, total, now, sig,
                   handler, unmaps, mapped, odd, left, bounds>>

\* sendto, sendmsg and sendmmsg with EPIPE and no MSG_NOSIGNAL: the default is to end
SendFails(t) ==
    /\ After(t)
    /\ sig' = [sig EXCEPT ![t].pending = @ \cup {"kill"}]
    /\ UNCHANGED <<made, frames, fs, crt, own, area, free, exitK, execK, times, total, now,
                   handler, unmaps, mapped, odd, left, bounds>>

\* a case of the switch that only breaks, or no case
NotHandled(t) ==
    /\ ph[t] = "run"
    /\ ph' = [ph EXCEPT ![t] = IF Enosys THEN "after" ELSE "panic"]
    /\ UNCHANGED <<made, frames, fs, crt, own, area, free, exitK, execK, times, total, now, sig,
                   handler, unmaps, mapped, odd, left, bounds>>

\* _SYS_rt_sigaction; a program installs handlers once its C runtime is set up
Sigaction(t) ==
    /\ After(t) /\ own[t] # "target" /\ crt[t] # "none" /\ ~handler
    /\ handler' = TRUE
    /\ UNCHANGED <<made, frames, fs, crt, own, area, free, exitK, execK, times, total, now, sig,
                   unmaps, mapped, odd, left, bounds>>

\* _SYS_ppoll: perhaps another mask while it polls.  myst_signal_sigprocmask sets
\* original_mask along with the mask, also when it is called for a handler's code.
PpollBegins(t) ==
    /\ ph[t] = "run" /\ ph' = [ph EXCEPT ![t] = "polling"]
    /\ frames' = [frames EXCEPT ![t][1].mask = sig[t].mask]
    /\ \E m, o \in SUBSET {"usr"} :
          /\ m = o \/ (m = sig[t].mask /\ o = sig[t].orig)
          /\ sig' = [sig EXCEPT ![t].mask = m, ![t].orig = o,
                                ![t].lost = @ \/ Top(t).from = "handler"]
    /\ UNCHANGED <<made, fs, crt, own, area, free, exitK, execK, times, total, now, handler,
                   unmaps, mapped, odd, left, bounds>>

\* mutant: the mask of the poll stays
PpollKeeps(t) == sig[t].mask

\* the mask the thread had
PpollMask(t) == Top(t).mask

PpollEnds(t) ==
    /\ ph[t] = "polling" /\ ph' = [ph EXCEPT ![t] = "after"]
    /\ sig' = [sig EXCEPT ![t].mask = PpollMask(t), ![t].orig = PpollMask(t)]
    /\ UNCHANGED <<made, frames, fs, crt, own, area, free, exitK, execK, times, total, now,
                   handler, unmaps, mapped, odd, left, bounds>>

\* _SYS_set_thread_area: leaving the kernel puts the new descriptor in place
SetThreadArea(t) ==
    /\ After(t) /\ own[t] = "target"
    /\ crt' = [crt EXCEPT ![t] = "crt"] /\ own' = [own EXCEPT ![t] = "crt"]
    /\ frames' = [frames EXCEPT ![t][1].crt = "crt"]
    /\ area' = TRUE
    /\ UNCHANGED <<made, fs, free, exitK, execK, times, total, now, sig, handler, unmaps, mapped,
                   odd, left, bounds>>

\* myst_syscall_arch_prctl with ARCH_SET_FS, which does not enter the kernel
ArchPrctl(t) ==
    /\ bounds.calls < MaxCalls /\ bounds' = [bounds EXCEPT !.calls = @ + 1]
    /\ ph[t] = "user" /\ own[t] = "crt"
    /\ fs' = [fs EXCEPT ![t] = "other"] /\ own' = [own EXCEPT ![t] = "other"]
    /\ UNCHANGED <<made, ph, frames, crt, area, free, exitK, execK, times, total, now, sig,
                   handler, unmaps, mapped, odd, left>>

\* the new thread of myst_clone starts on the descriptor it was given
Start(t) ==
    /\ ph[t] = "none" /\ \E u \in Threads : ph[u] = "after" /\ own[u] # "target"
    /\ ph' = [ph EXCEPT ![t] = "user"]
    /\ fs' = [fs EXCEPT ![t] = "crt"] /\ own' = [own EXCEPT ![t] = "crt"]
    /\ crt' = [crt EXCEPT ![t] = "crt"]
    /\ times' = [times EXCEPT ![t] = [start |-> now, enter |-> now, leave |-> 0]]
    /\ mapped' = mapped \cup {t}
    /\ UNCHANGED <<made, frames, area, free, exitK, execK, total, now, sig, handler, unmaps, odd,
                   left, bounds>>

\* mutant: the region goes at once
UnmapNow(t) == mapped \ {t}

\* the region holds the descriptor that the thread entered with: it goes at exit
Deferred(t) == mapped

\* _SYS_munmap of the region of the thread's own descriptor, and
\* myst_syscall_unmap_on_exit, which fails if the table is full.  Any other region is
\* none of this module's state.
Munmap(t) ==
    /\ After(t) /\ t \in mapped /\ Top(t).crt # "none"
    /\ unmaps' = [unmaps EXCEPT ![t] = IF @ < MaxUnmaps THEN @ + 1 ELSE @]
    /\ mapped' = Deferred(t)
    /\ UNCHANGED <<made, frames, fs, crt, own, area, free, exitK, execK, times, total, now, sig,
                   handler, odd, left, bounds>>

\* myst_syscall_execveat: the stack of the call is kept until the next exec or exit.
\* The handlers go with the old program; other threads are out of the picture.
ExecKeeps(t) == PutKstack(execK[t], free)

Exec(t) ==
    /\ ph[t] = "run" /\ \A u \in Threads \ {t} : ph[u] \in {"none", "gone"}
    /\ free' = ExecKeeps(t)
    /\ execK' = [execK EXCEPT ![t] = Top(t).k]
    /\ frames' = [frames EXCEPT ![t] = <<>>] /\ left' = (left \/ Len(frames[t]) > 1)
    /\ own' = [own EXCEPT ![t] = "target"] /\ handler' = FALSE
    /\ sig' = [sig EXCEPT ![t].lost = @ \/ Len(frames[t]) > 1]
    /\ ph' = [ph EXCEPT ![t] = "user"]
    /\ odd' = odd \cup {t}
    /\ UNCHANGED <<made, fs, crt, area, exitK, times, total, now, unmaps, mapped, bounds>>

\* mutant: the stack of the failed call stays with the thread
ForgotExec(t) == Top(t).k

\* the stack goes the way of every call when the exec has failed
FailedExec(t) == 0

ExecFails(t) ==
    /\ After(t)
    /\ free' = ExecKeeps(t)
    /\ execK' = [execK EXCEPT ![t] = FailedExec(t)]
    /\ UNCHANGED <<made, frames, fs, crt, own, area, exitK, times, total, now, sig, handler,
                   unmaps, mapped, odd, left, bounds>>

\* _SYS_exit_group: a long jump to the thread's beginning; all = TRUE kills the others
Exit(t, all) ==
    /\ ph[t] = "run" /\ ph' = [ph EXCEPT ![t] = "jumped"]
    /\ exitK' = [exitK EXCEPT ![t] = Top(t).k]
    /\ frames' = [frames EXCEPT ![t] = <<>>] /\ left' = (left \/ Len(frames[t]) > 1)
    /\ sig' = [u \in Threads |->
                 IF all /\ u # t /\ ph[u] \notin {"none", "jumped", "gone"}
                 THEN [sig[u] EXCEPT !.pending = @ \cup {"kill"}] ELSE sig[u]]
    /\ UNCHANGED <<made, fs, crt, own, area, free, execK, times, total, now, handler, unmaps,
                   mapped, odd, bounds>>

\* after the jump (_run_thread, myst_enter_kernel): the stacks are released and what was
\* to be unmapped at exit is; the first process does not release the stack of its exec
Finish(t) ==
    /\ ph[t] = "jumped" /\ ph' = [ph EXCEPT ![t] = "gone"]
    /\ t = Main => \A u \in Threads \ {t} : ph[u] \in {"none", "gone"}
    /\ fs' = [fs EXCEPT ![t] = "target"]
    /\ free' = IF t = Main THEN PutKstack(exitK[t], free)
               ELSE PutKstack(execK[t], PutKstack(exitK[t], free))
    /\ exitK' = [exitK EXCEPT ![t] = 0]
    /\ execK' = IF t = Main THEN execK ELSE [execK EXCEPT ![t] = 0]
    /\ mapped' = IF unmaps[t] > 0 THEN mapped \ {t} ELSE mapped
    /\ unmaps' = [unmaps EXCEPT ![t] = 0]
    /\ UNCHANGED <<made, frames, crt, own, area, times, total, now, sig, handler, odd, left,
                   bounds>>

Next ==
    \/ Tick
    \/ \E t \in Threads, s \in {"usr", "kill"} : Signal(t, s)
    \/ \E t \in Threads : Enter(t)
    \/ \E t \in Threads : Proceed(t)
    \/ \E t \in Threads : Handle(t)
    \/ \E t \in Threads : HandlerReturns(t)
    \/ \E t \in Threads : Killed(t)
    \/ \E t \in Threads : Leave(t)
    \/ \E t \in Threads : Plain(t)
    \/ \E t \in Threads : SendFails(t)
    \/ \E t \in Threads : NotHandled(t)
    \/ \E t \in Threads : Sigaction(t)
    \/ \E t \in Threads : PpollBegins(t)
    \/ \E t \in Threads : PpollEnds(t)
    \/ \E t \in Threads : SetThreadArea(t)
    \/ \E t \in Threads : ArchPrctl(t)
    \/ \E t \in Threads : Start(t)
    \/ \E t \in Threads : Munmap(t)
    \/ \E t \in Threads : Exec(t)
    \/ \E t \in Threads : ExecFails(t)
    \/ \E t \in Threads, all \in BOOLEAN : Exit(t, all)
    \/ \E t \in Threads : Finish(t)

Spec == Init /\ [][Next]_vars

-----------------------------------------------------------------------------
\* User code runs on the descriptor it set last, the kernel on the target's.  A handler
\* runs on the descriptor of the C runtime even if ARCH_SET_FS set another since.
FsExact ==
    \A t \in Threads :
        /\ ph[t] = "user" => fs[t] = own[t]
        /\ ph[t] = "handler" => fs[t] = crt[t]
        /\ ph[t] \in KernelPhases => fs[t] = "target"

\* A kernel stack is on the free list once, or one call runs on it, or a thread keeps it
\* for its exit or its last exec; and none is lost unless a call was left for good.
Held == [t \in Threads |-> InUse(t) \cup ({exitK[t], execK[t]} \ {0})]
StacksExact ==
    /\ \A i, j \in DOMAIN free : i # j => free[i] # free[j]
    /\ \A t \in Threads : /\ Cardinality(InUse(t)) = Len(frames[t])
                           /\ InUse(t) \cap {exitK[t], execK[t]} = {}
                           /\ exitK[t] # 0 => exitK[t] # execK[t]
                           /\ Held[t] \cap {free[i] : i \in DOMAIN free} = {}
    /\ \A t, u \in Threads : t # u => Held[t] \cap Held[u] = {}
    /\ ~left => Cardinality(Known \ {0}) = made

\* The user and system times of the process are the time its threads ran, up to the last
\* call each one entered or left, if no handler made calls and no program was executed.
Accounted(t) ==
    IF ph[t] = "none" THEN 0
    ELSE (IF ph[t] = "user" THEN (IF times[t].leave = 0 THEN times[t].start ELSE times[t].leave)
          ELSE times[t].enter) - times[t].start
Ran == UNION {{t} \X (1..Accounted(t)) : t \in Threads}
TimesExact ==
    odd = {} => /\ \A t \in Threads : Accounted(t) >= 0
                /\ total.user + total.system = Cardinality(Ran)

\* The region of a thread's descriptor stays mapped as long as the thread runs.
DescriptorKept == \A t \in Threads : ph[t] \notin {"none", "gone"} => t \in mapped

\* A thread is back in its own code with the mask it had, whatever ppoll set and through
\* handlers and the calls they make.  Two things lose it, and are excepted (sig.lost): a
\* ppoll in a handler, after which the return of the handler restores the handler's mask,
\* since the thread has one original_mask; and a program executed from a handler.
MaskKept == \A t \in Threads : ph[t] = "user" /\ ~sig[t].lost => sig[t].mask = {}

\* All of the above.
DispatchExact == FsExact /\ StacksExact /\ TimesExact /\ DescriptorKept /\ MaskKept
=============================================================================
