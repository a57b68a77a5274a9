------------------------------- MODULE Itimer -------------------------------
(***************************************************************************)
(* The interval timer of a process (kernel/itimer.c; the thread that runs  *)
(* it is made by crt/enter.c).  The first setitimer or getitimer allocates *)
(* the timer and fails with EAGAIN, at which the C runtime creates the     *)
(* timer thread and calls again.  The thread waits on a condition variable *)
(* until the timer expires or is set; the wait is modelled by its outcome  *)
(* (kernel/cond.c, module Futex has its steps).                            *)
(*                                                                         *)
(* The timer's mutex is held by one step, or across steps by the thread    *)
(* between two waits.  Time is counted in ticks.                           *)
(***************************************************************************)
EXTENDS Integers

CONSTANTS
    Callers,       \* threads that call setitimer and getitimer
    Values,        \* values and
    Intervals,     \* intervals they set
    MaxTime, MaxCalls,
    MaxInterrupts  \* signals to the timer thread

VARIABLES
    requested,     \* itimer_thread_requested
    allocated,     \* itimer is not NULL
    initialized,
    value, interval, start,     \* real_value, real_interval, wait_start_time
    queued,        \* the timer thread is in the queue of the condition variable
    timer,         \* the timer thread: where it is, its timeout and the wait's outcome
    call,          \* of each caller: where it is and what it asked
    now, calls, interrupts,
    due,           \* ghost: when the timer should expire; 0 of a disarmed one
    skew,          \* ghost: "older" while the thread's wait began before the timer was
                   \* set, "cut" once the value was reduced by time before it was set
    alarms,        \* how many SIGALRMs were sent
    told           \* the last answer of getitimer or in old_value

timerVars == <<value, interval, start, queued, timer, due, skew>>
initVars == <<requested, allocated, initialized>>
boundVars == <<now, calls, interrupts>>
vars == <<timerVars, initVars, call, boundVars, alarms, told>>

Forever == -1
NoCall == [at |-> "idle", op |-> "none", value |-> 0, interval |-> 0]

Init ==
    /\ requested = FALSE /\ allocated = FALSE /\ initialized = FALSE
    /\ value = 0 /\ interval = 0 /\ start = 0 /\ queued = FALSE
    /\ timer = [at |-> "none", to |-> Forever, r |-> "none"]
    /\ call = [c \in Callers |-> NoCall]
    /\ now = 1 /\ calls = 0 /\ interrupts = 0
    /\ due = 0 /\ skew = "none" /\ alarms = 0 /\ told = 0

Tick == /\ now < MaxTime /\ now' = now + 1
        /\ UNCHANGED <<timerVars, initVars, call, calls, interrupts, alarms, told>>

Goto(c, at) == call' = [call EXCEPT ![c].at = at]
Returned(c) == call' = [call EXCEPT ![c] = NoCall]

-----------------------------------------------------------------------------
(***************************************************************************)
(* The first call (_init_itimer)                                           *)
(***************************************************************************)
\* the compare and exchange of the flag: one caller allocates, the others spin
Claim(c, op, v, i) ==
    /\ calls < MaxCalls /\ calls' = calls + 1
    /\ call[c].at = "idle"
    /\ requested' = TRUE
    /\ call' = [call EXCEPT ![c] = [at |-> IF requested THEN "spin" ELSE "allocate",
                                    op |-> op, value |-> v, interval |-> i]]
    /\ told' = 0
    /\ UNCHANGED <<timerVars, allocated, initialized, now, interrupts, alarms>>

SetItimer(c, v, i) == Claim(c, "set", v, i)
GetItimer(c) == Claim(c, "get", 0, 0)

AgainFirst(c) == Goto(c, "create") /\ UNCHANGED requested

\* calloc fails: the flag is given back
OutOfMemory(c) == Returned(c) /\ requested' = FALSE

Allocate(c) ==
    /\ call[c].at = "allocate"
    /\ \/ allocated' = TRUE /\ AgainFirst(c)
       \/ allocated' = FALSE /\ OutOfMemory(c)
    /\ UNCHANGED <<timerVars, initialized, boundVars, alarms, told>>

\* the C runtime creates the timer thread and calls again, to find the flag set
CreateThread(c) ==
    /\ call[c].at = "create"
    /\ timer' = [timer EXCEPT !.at = IF @ = "none" THEN "enter" ELSE "twice"]
    /\ Goto(c, "spin")
    /\ UNCHANGED <<value, interval, start, queued, due, skew, initVars, boundVars, alarms, told>>

\* the wait for the timer thread; a caller that comes between the exchange and the
\* allocation follows a NULL pointer
Spin(c) ==
    /\ call[c].at = "spin"
    /\ \/ ~allocated /\ Goto(c, "fault")
       \/ allocated /\ initialized /\ Goto(c, "lock")
    /\ UNCHANGED <<timerVars, initVars, boundVars, alarms, told>>

-----------------------------------------------------------------------------
(***************************************************************************)
(* The timer thread (myst_syscall_run_itimer)                              *)
(***************************************************************************)
MutexFree == timer.at \notin {"loop"}

\* the thread enters the kernel and takes the mutex for the first time
Enter ==
    /\ timer.at = "enter"
    /\ initialized' = TRUE
    /\ timer' = [timer EXCEPT !.at = "loop"]
    /\ UNCHANGED <<value, interval, start, queued, due, skew, requested, allocated, call,
                   boundVars, alarms, told>>

StaleTimeout == [timer EXCEPT !.at = "wait", !.r = "none"]

\* the timeout of the next wait: none if the timer is disarmed
NextTimeout == [at |-> "wait", to |-> IF value = 0 THEN Forever ELSE value, r |-> "none"]

\* the thread notes the time, queues up and releases the mutex
Wait ==
    /\ timer.at = "loop"
    /\ timer' = NextTimeout
    /\ start' = now /\ queued' = TRUE
    /\ skew' = IF skew = "older" THEN "none" ELSE skew
    /\ UNCHANGED <<value, interval, due, initVars, call, boundVars, alarms, told>>

\* the wait ends; the thread has yet to get the mutex back
Ended(r) == /\ timer.at = "wait"
            /\ timer' = [timer EXCEPT !.at = "relock", !.r = r]
            /\ queued' = FALSE
            /\ UNCHANGED <<value, interval, start, due, skew, initVars, call, now, calls,
                           alarms, told>>

TimedOut == /\ timer.to # Forever /\ now >= start + timer.to
            /\ Ended("ETIMEDOUT") /\ UNCHANGED interrupts
Signalled == ~queued /\ Ended("ok") /\ UNCHANGED interrupts
Interrupted == /\ interrupts < MaxInterrupts /\ interrupts' = interrupts + 1
               /\ Ended("EINTR")

\* what is left of v after the time since the wait began
Left(v) == IF now - start < v THEN v - (now - start) ELSE 0

ReducedToNothing == 0

\* _update_and_check_expiration: the value that is left
Reduced == Left(value)

Again == timer' = [timer EXCEPT !.at = "loop"]

\* the thread was signalled: the timer has been set, the loop begins anew
Relock ==
    /\ timer.at = "relock" /\ timer.r = "ok"
    /\ Again
    /\ UNCHANGED <<value, interval, start, queued, due, skew, initVars, call, boundVars,
                   alarms, told>>

\* any other outcome: time has passed, and the timer may have expired
Update ==
    /\ timer.at = "relock" /\ timer.r # "ok"
    /\ Again
    /\ \E left \in {Reduced} :
         IF left > 0
           THEN /\ value' = left
                /\ skew' = IF skew = "older" THEN "cut" ELSE skew
                /\ UNCHANGED <<due, alarms>>
           ELSE /\ alarms' = alarms + 1
                /\ value' = interval
                /\ due' = IF interval = 0 THEN 0 ELSE now + interval
                /\ skew' = "none"
    /\ UNCHANGED <<interval, start, queued, initVars, call, boundVars, told>>

-----------------------------------------------------------------------------
(***************************************************************************)
(* The calls, under the mutex                                              *)
(***************************************************************************)
Tell == told' = Left(value)

\* myst_syscall_setitimer: the old value is told, the new one set and the thread signalled
Set(c) ==
    /\ call[c].at = "lock" /\ call[c].op = "set" /\ MutexFree
    /\ Tell
    /\ value' = call[c].value /\ interval' = call[c].interval
    /\ due' = IF call[c].value = 0 THEN 0 ELSE now + call[c].value
    /\ queued' = FALSE /\ skew' = "older"
    /\ Returned(c)
    /\ UNCHANGED <<start, timer, initVars, boundVars, alarms>>

\* myst_syscall_getitimer
Get(c) ==
    /\ call[c].at = "lock" /\ call[c].op = "get" /\ MutexFree
    /\ Tell
    /\ Returned(c)
    /\ UNCHANGED <<timerVars, initVars, boundVars, alarms>>

Next ==
    \/ Tick
    \/ \E c \in Callers, v \in Values, i \in Intervals : SetItimer(c, v, i)
    \/ \E c \in Callers : GetItimer(c)
    \/ \E c \in Callers : Allocate(c)
    \/ \E c \in Callers : CreateThread(c)
    \/ \E c \in Callers : Spin(c)
    \/ Enter
    \/ Wait
    \/ TimedOut
    \/ Signalled
    \/ Interrupted
    \/ Relock
    \/ Update
    \/ \E c \in Callers : Set(c)
    \/ \E c \in Callers : Get(c)

Spec == Init /\ [][Next]_vars

-----------------------------------------------------------------------------
\* There is never more than one timer thread, and a caller follows the NULL pointer only
\* while no call has allocated the timer yet.
OneTimerThread ==
    /\ timer.at # "twice"
    /\ initialized => allocated
    /\ allocated => requested
    /\ \A c \in Callers : call[c].at = "lock" => initialized

\* A thread that sleeps and has not been signalled sleeps for what the timer is set to:
\* no value that was set is missed.
NoMissedSetting ==
    timer.at = "wait" /\ queued =>
        /\ skew # "older"
        /\ timer.to = IF value = 0 THEN Forever ELSE value

\* SIGALRM comes when the timer is armed and not before it is due.  There are two
\* exceptions in the code: the wait ended otherwise than by a signal just when the timer
\* was set anew, and its time is taken from the new value; and the thread of a disarmed
\* timer was interrupted.
AlarmNotEarly ==
    alarms' # alarms /\ skew = "none" =>
        IF due = 0 THEN timer.r = "EINTR" ELSE now >= due

\* An armed timer is not reported as expired before it is, unless it was set so recently
\* that the thread has not begun to wait for it.
ToldExact ==
    \A c \in Callers :
        call[c].at = "lock" /\ call'[c].at = "idle" /\ due # 0 /\ skew = "none"
        => told' >= due - now

\* The end of a wait never lies before the time that was asked for.
NeverAhead == due # 0 /\ skew = "none" /\ timer.at = "wait" => start + value >= due

ItimerExact == OneTimerThread /\ NoMissedSetting /\ NeverAhead
ItimerStep == AlarmNotEarly /\ ToldExact
AlarmsExact == [][ItimerStep]_vars
=============================================================================
