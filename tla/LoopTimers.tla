----------------------------- MODULE LoopTimers -----------------------------
(***************************************************************************)
(* The timers of event::Loop: addTimer, Timer::stop, Timer::updateTimeout, *)
(* the timeout execute() computes for epoll_wait, and the round that       *)
(* collects and executes what is due (Loop.h, Loop_epoll.cpp).             *)
(*                                                                         *)
(* Time is counted in ticks, TicksPerMs to a millisecond: mNext and now    *)
(* are time points of the steady clock, while the timeouts handed to       *)
(* epoll_wait are ints of whole milliseconds, IntMax the largest.          *)
(*                                                                         *)
(* Abstractions:                                                           *)
(*  - the mutex, the pipe and the queue of events are Loop.tla's: here a   *)
(*    locked section is one step, and wake stands for a wakeup that is on  *)
(*    its way to epoll_wait (Loop's NoLostWakeup);                         *)
(*  - no time passes between the computation of the timeout and the call   *)
(*    of epoll_wait;                                                       *)
(*  - the program adds only timers that are not in the loop, and changes   *)
(*    the timeout of such timers only (updateTimeout asserts that).        *)
(***************************************************************************)
EXTENDS Integers, Sequences, FiniteSets, Functions

CONSTANTS
    Timers,         \* timer objects
    Flag,           \* Flag[t]: "Timeout" (single shot) or "Interval"
    Threads,        \* threads other than the loop's
    NoTimer,        \* a thread is not inside addTimer
    Timeouts,       \* milliseconds a timer may be set to
    ExecTimeouts,   \* milliseconds execute() may be given; -1 for none
    TicksPerMs,
    IntMax,         \* the largest int
    MaxTime,        \* bound: the clock stops here
    MaxAdds         \* bound: calls of addTimer

ASSUME TimersAssumption ==
    /\ NoTimer \notin Timers
    /\ Flag \in [Timers -> {"Timeout", "Interval"}]
    /\ Timeouts \subseteq Nat
    /\ ExecTimeouts \subseteq Nat \cup {-1}
    /\ TicksPerMs \in Nat \ {0}
    /\ IntMax \in Nat
    /\ MaxTime \in Nat
    /\ MaxAdds \in Nat

VARIABLES
    now,            \* the steady clock
    mTimers,        \* the sorted list of the loop
    mNext,          \* per timer: when it is due
    mTimeout,       \* per timer: milliseconds
    adding,         \* per thread: the timer whose addTimer is under way
    timers,         \* execute()'s local list: collected, to be executed
    phase,          \* where the loop's thread is
    sleepUntil,     \* deadline of epoll_wait, Forever for none
    wake,           \* a wakeup is on its way
    executeTimeout, \* what is left of execute()'s timeout
    hasTimeout,     \* execute() was given one
    startTime,      \* millisecond at which executeTimeout was last updated
    armedAt,        \* history: when the timer was last added or re-armed
    credit,         \* history: addTimer calls of a timer not yet collected
    adds,           \* history: number of addTimer calls
    entered         \* history: tick and timeout of the last execute()

vars == <<now, mTimers, mNext, mTimeout, adding, timers, phase, sleepUntil, wake,
          executeTimeout, hasTimeout, startTime, armedAt, credit, adds, entered>>

timerVars == <<mTimers, mNext, mTimeout, adding, armedAt, credit, adds>>
execVars  == <<executeTimeout, hasTimeout, startTime, entered>>
sleepVars == <<phase, sleepUntil>>

Forever == -1
Ticks(ms) == ms * TicksPerMs
Ms(ticks) == ticks \div TicksPerMs      \* duration_cast to milliseconds

\* The conversion of a 64-bit millisecond count to int.
ToInt(n) == ((n + IntMax + 1) % (2 * (IntMax + 1))) - (IntMax + 1)

Phases == {"idle",      \* execute() is not running
           "work",      \* executing events; descriptors are prepared
           "sleep",     \* in epoll_wait
           "io",        \* executing the callbacks of ready descriptors
           "fire"}      \* executing the collected timers

TypeOK ==
    /\ now \in 0..MaxTime
    /\ mTimers \in Seq(Timers)
    /\ mNext \in [Timers -> Nat]
    /\ mTimeout \in [Timers -> Timeouts]
    /\ adding \in [Threads -> Timers \cup {NoTimer}]
    /\ timers \in Seq(Timers)
    /\ phase \in Phases
    /\ sleepUntil \in Nat \cup {Forever}
    /\ wake \in BOOLEAN
    /\ executeTimeout \in Int
    /\ hasTimeout \in BOOLEAN
    /\ startTime \in Nat
    /\ armedAt \in [Timers -> Nat]
    /\ credit \in [Timers -> Int]
    /\ adds \in 0..MaxAdds
    /\ entered \in [at : Nat, timeout : Nat \cup {-1}]

Init ==
    /\ now = 0
    /\ mTimers = <<>> /\ timers = <<>>
    /\ mNext = [t \in Timers |-> 0]
    /\ mTimeout \in [Timers -> Timeouts]
    /\ adding = [th \in Threads |-> NoTimer]
    /\ phase = "idle" /\ sleepUntil = Forever /\ wake = FALSE
    /\ executeTimeout = IntMax /\ hasTimeout = FALSE /\ startTime = 0
    /\ armedAt = mNext /\ credit = mNext /\ adds = 0
    /\ entered = [at |-> 0, timeout |-> -1]

-----------------------------------------------------------------------------
(* The API *)

Active(t) == t \in Range(mTimers)       \* Timer::isActive
Untouched(t) == ~Active(t) /\ \A th \in Threads : adding[th] # t

\* The loop's thread is in the program's code, inside execute() or outside.
InProgram == phase \in {"idle", "work", "io", "fire"}

Sorted(list, next) ==
    \A i, j \in DOMAIN list : i < j => next[list[i]] <= next[list[j]]

\* std::lower_bound: how many timers are earlier than t.
LowerBound(t, next) ==
    CHOOSE n \in 0..Len(mTimers) :
        /\ \A i \in 1..n : next[mTimers[i]] < next[t]
        /\ n < Len(mTimers) => next[mTimers[n + 1]] >= next[t]

Insert(t, next) ==
    LET n == LowerBound(t, next)
    IN  SubSeq(mTimers, 1, n) \o <<t>> \o SubSeq(mTimers, n + 1, Len(mTimers))

\* addTimer sets mNext (and mLoop) before it takes the lock.
Arm(t) ==
    /\ adds < MaxAdds
    /\ Untouched(t)
    /\ mNext' = [mNext EXCEPT ![t] = now + Ticks(mTimeout[t])]
    /\ armedAt' = [armedAt EXCEPT ![t] = now]
    /\ adds' = adds + 1

\* addTimer by the loop's thread, in a callback or outside execute(): wakeup()
\* writes nothing.
LoopAddTimer(t) ==
    /\ InProgram
    /\ Arm(t)
    /\ mTimers' = Insert(t, mNext')
    /\ credit' = [credit EXCEPT ![t] = @ + 1]
    /\ UNCHANGED <<now, mTimeout, adding, timers, wake, sleepVars, execVars>>

\* addTimer by another thread, up to the lock.
AddTimer(th, t) ==
    /\ adding[th] = NoTimer
    /\ Arm(t)
    /\ adding' = [adding EXCEPT ![th] = t]
    /\ UNCHANGED <<now, mTimers, mTimeout, credit, timers, wake, sleepVars, execVars>>

\* Mutated InsertTimer: no wakeup().
InsertTimerNoWake(th) ==
    /\ adding[th] # NoTimer
    /\ mTimers' = Insert(adding[th], mNext)
    /\ credit' = [credit EXCEPT ![adding[th]] = @ + 1]
    /\ adding' = [adding EXCEPT ![th] = NoTimer]
    /\ UNCHANGED <<now, mNext, mTimeout, armedAt, adds, timers, wake, sleepVars, execVars>>

\* addTimer by another thread under the lock, wakeup() included.
InsertTimer(th) ==
    /\ adding[th] # NoTimer
    /\ mTimers' = Insert(adding[th], mNext)
    /\ credit' = [credit EXCEPT ![adding[th]] = @ + 1]
    /\ adding' = [adding EXCEPT ![th] = NoTimer]
    /\ wake' = TRUE
    /\ UNCHANGED <<now, mNext, mTimeout, armedAt, adds, timers, sleepVars, execVars>>

\* Timer::stop, by any thread.  A timer that has been collected is not taken
\* out of execute()'s local list.
Stop(t) ==
    /\ \E i \in DOMAIN mTimers :
          /\ mTimers[i] = t /\ \A j \in 1..(i - 1) : mTimers[j] # t
          /\ mTimers' = SubSeq(mTimers, 1, i - 1) \o SubSeq(mTimers, i + 1, Len(mTimers))
    /\ UNCHANGED <<now, mNext, mTimeout, adding, armedAt, credit, adds, timers, wake,
                   sleepVars, execVars>>

\* Timer::updateTimeout, which asserts that the timer is not active.
UpdateTimeout(t, ms) ==
    /\ Untouched(t)
    /\ mTimeout[t] # ms
    /\ mTimeout' = [mTimeout EXCEPT ![t] = ms]
    /\ UNCHANGED <<now, mTimers, mNext, adding, armedAt, credit, adds, timers, wake,
                   sleepVars, execVars>>

-----------------------------------------------------------------------------
(* The loop's thread *)

\* execute(timeout) is entered.
Execute(ms) ==
    /\ phase = "idle"
    /\ hasTimeout' = (ms # -1)
    /\ executeTimeout' = IF ms # -1 THEN ToInt(ms) ELSE IntMax
    /\ startTime' = Ms(now)
    /\ entered' = [at |-> now, timeout |-> ms]
    /\ phase' = "work"
    /\ UNCHANGED <<now, timerVars, timers, wake, sleepUntil>>

\* Mutated EpollTimeout: rounds up to the next millisecond.
EpollTimeoutUp ==
    IF mTimers # <<>>
    THEN IF now <= mNext[Head(mTimers)]
         THEN ToInt(Ms(mNext[Head(mTimers)] - now) + 1)
         ELSE 0
    ELSE IF hasTimeout THEN executeTimeout ELSE -1

\* The time to the first timer, in whole milliseconds and as an int: the
\* std::min<int> that should clamp it converts it first.
EpollTimeout ==
    IF mTimers # <<>>
    THEN IF now <= mNext[Head(mTimers)]
         THEN ToInt(Ms(mNext[Head(mTimers)] - now))
         ELSE 0
    ELSE IF hasTimeout THEN executeTimeout ELSE -1

\* epoll_wait(..., std::min(executeTimeout, epollTimeout)): a negative timeout
\* has no end.
Sleep ==
    /\ phase = "work"
    /\ LET ms == IF executeTimeout < EpollTimeout THEN executeTimeout ELSE EpollTimeout
       IN  sleepUntil' = IF ms < 0 THEN Forever ELSE now + Ticks(ms)
    /\ phase' = "sleep"
    /\ UNCHANGED <<now, timerVars, timers, wake, execVars>>

\* epoll_wait returns: its time is up, or the wakeup pipe is readable.
WakeUp ==
    /\ phase = "sleep"
    /\ wake \/ (sleepUntil # Forever /\ sleepUntil <= now)
    /\ wake' = FALSE
    /\ phase' = "io"
    /\ sleepUntil' = Forever
    /\ UNCHANGED <<now, timerVars, timers, execVars>>

\* epoll_wait returns for another descriptor.
WakeUpOther ==
    /\ phase = "sleep"
    /\ ~wake
    /\ phase' = "io"
    /\ sleepUntil' = Forever
    /\ UNCHANGED <<now, timerVars, timers, wake, execVars>>

\* Mutated IsDue: a millisecond early is good enough.
IsDueEarly(t) == mNext[t] <= now + TicksPerMs

IsDue(t) == mNext[t] <= now

\* How many timers at the front of the list the collecting loop visits before
\* it breaks.
DuePrefix ==
    CHOOSE n \in 0..Len(mTimers) :
        /\ \A i \in 1..n : IsDue(mTimers[i])
        /\ n < Len(mTimers) => ~IsDue(mTimers[n + 1])

\* std::sort, which is not stable, of a list of these timers.
Resort(set, next) ==
    {s \in [1..Cardinality(set) -> set] : IsInjective(s) /\ Sorted(s, next)}

\* Mutated Keep: single shots stay in the list too.
KeepAll(t) == TRUE

Keep(t) == Flag[t] = "Interval"

\* The locked section that fires timers: what is due is copied to the local
\* list; single shots leave mTimers, intervals are due again a timeout from
\* now.  Reading the wakeup pipe may have taken the byte of a wakeup that came
\* after epoll_wait had returned.
Collect ==
    /\ phase = "io"
    /\ LET due  == SubSeq(mTimers, 1, DuePrefix)
           rest == SubSeq(mTimers, DuePrefix + 1, Len(mTimers))
       IN  /\ timers' = due
           /\ mNext' = [t \in Timers |->
                          IF t \in Range(due) /\ Keep(t) THEN now + Ticks(mTimeout[t])
                                                         ELSE mNext[t]]
           /\ armedAt' = [t \in Timers |->
                            IF t \in Range(due) /\ Keep(t) THEN now ELSE armedAt[t]]
           /\ credit' = [t \in Timers |->
                           IF t \in Range(due) /\ Flag[t] = "Timeout" THEN credit[t] - 1
                                                                      ELSE credit[t]]
           /\ mTimers' \in Resort({t \in Range(due) : Keep(t)} \cup Range(rest), mNext')
    /\ wake' \in {wake, FALSE}
    /\ phase' = "fire"
    /\ UNCHANGED <<now, mTimeout, adding, adds, sleepUntil, execVars>>

\* t->execute() for the next collected timer; its callback is the program's code.
Fire ==
    /\ phase = "fire" /\ timers # <<>>
    /\ timers' = Tail(timers)
    /\ UNCHANGED <<now, timerVars, wake, sleepVars, execVars>>

\* Mutated EndRound: executeTimeout is not brought up to date.
EndRoundKeeps ==
    /\ phase = "fire" /\ timers = <<>>
    /\ IF hasTimeout
       THEN /\ startTime' = Ms(now)
            /\ phase' = IF executeTimeout <= 0 THEN "idle" ELSE "work"
       ELSE phase' = "work" /\ UNCHANGED startTime
    /\ UNCHANGED <<now, timerVars, timers, sleepUntil, wake, hasTimeout, entered, executeTimeout>>

\* The end of the round: execute() returns when its timeout has elapsed.
EndRound ==
    /\ phase = "fire" /\ timers = <<>>
    /\ IF hasTimeout
       THEN /\ executeTimeout' = executeTimeout - (Ms(now) - startTime)
            /\ startTime' = Ms(now)
            /\ phase' = IF executeTimeout' <= 0 THEN "idle" ELSE "work"
       ELSE phase' = "work" /\ UNCHANGED <<executeTimeout, startTime>>
    /\ UNCHANGED <<now, timerVars, timers, sleepUntil, wake, hasTimeout, entered>>

\* exit(): execute() returns at the test of mStopped after the events.
Leave ==
    /\ phase = "work"
    /\ phase' = "idle"
    /\ UNCHANGED <<now, timerVars, timers, sleepUntil, wake, execVars>>

\* The clock, which is monotonic.
Tick ==
    /\ now < MaxTime
    /\ now' = now + 1
    /\ UNCHANGED <<timerVars, timers, sleepVars, wake, execVars>>

LoopStep == Sleep \/ WakeUp \/ Collect \/ Fire \/ EndRound

Next ==
    \/ \E t \in Timers : LoopAddTimer(t) \/ Stop(t)
    \/ \E t \in Timers, ms \in Timeouts : UpdateTimeout(t, ms)
    \/ \E th \in Threads : InsertTimer(th) \/ \E t \in Timers : AddTimer(th, t)
    \/ \E ms \in ExecTimeouts : Execute(ms)
    \/ LoopStep \/ WakeUpOther \/ Leave \/ Tick

Spec == Init /\ [][Next]_vars

\* The loop's thread and the clock run; callbacks return; a thread inside
\* addTimer gets the lock.  Nothing else is promised.
LiveSpec ==
    /\ Spec
    /\ WF_vars(LoopStep)
    /\ WF_vars(Tick)
    /\ \A th \in Threads : WF_vars(InsertTimer(th))

-----------------------------------------------------------------------------
(* Properties *)

\* "we need our timer list to be sorted": although addTimer computes mNext
\* outside the lock and firing moves the intervals, the list is sorted and
\* holds no timer twice whenever the lock is free.
TimersSorted == Sorted(mTimers, mNext) /\ IsInjective(mTimers)

\* The distance to a timer fits an int of milliseconds, and so does the timeout
\* of execute().
Fits(t)     == Ms(mNext[t] - armedAt[t]) <= IntMax
FitsInt     == Fits(Head(mTimers))
ExecuteFits == entered.timeout <= IntMax

\* epoll_wait ends by the time the first timer is due: a timer added, stopped
\* or re-armed by anybody since the timeout was computed comes with a wakeup,
\* rounding is downwards, and the only exception is a timer, or a timeout of
\* execute(), beyond the largest int.
NoOversleep ==
    phase = "sleep" /\ mTimers # <<>> /\ FitsInt /\ ExecuteFits =>
        wake \/ (sleepUntil # Forever /\ sleepUntil <= IF mNext[Head(mTimers)] > now
                                                       THEN mNext[Head(mTimers)] ELSE now)

\* execute(timeout) goes to sleep for no longer than its timeout allows, to the
\* millisecond, however often it has been woken: what it may oversleep is the
\* time spent on events in this very round, because executeTimeout is brought
\* up to date only at the end of a round.
ExecuteInTime ==
    [][/\ phase = "work" /\ phase' = "sleep" /\ hasTimeout /\ ExecuteFits
       /\ mTimers = <<>> \/ FitsInt
       =>
          /\ sleepUntil' # Forever
          /\ sleepUntil' < entered.at + Ticks(entered.timeout + 1) + (now - Ticks(startTime))]_vars

\* A timer is collected no earlier than its timeout after it was added or last
\* collected; and although the collecting loop stops at the first timer that is
\* not due, it leaves none behind that is: only an interval of 0 ms is due again.
CollectsWhatIsDue ==
    [][phase = "io" /\ phase' = "fire" =>
          /\ \A t \in Range(timers') : now - armedAt[t] >= Ticks(mTimeout[t])
          /\ \A t \in Range(mTimers') : mNext'[t] > now \/ mTimeout[t] = 0]_vars

\* A single shot is collected at most once per addTimer, whoever stops it and
\* adds it again meanwhile, also from its own callback.
SingleShot == \A t \in Timers : credit[t] >= 0

\* The list of timers, as every locked section finds it: the binary search of
\* addTimer and the early end of the collecting loop rest on it.
ListIntact == TypeOK /\ TimersSorted /\ SingleShot

\* A timer that is due does not stay so: it is collected, stopped, or the loop
\* is not running, with the same exception.
DueIsCollected ==
    \A t \in Timers :
        Active(t) /\ IsDue(t) /\ Fits(t) /\ ExecuteFits ~>
            ~Active(t) \/ ~IsDue(t) \/ mTimeout[t] = 0 \/ phase = "idle"

=============================================================================
