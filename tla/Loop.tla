-------------------------------- MODULE Loop --------------------------------
(***************************************************************************)
(* The core of event::Loop (include/event/Loop.h, lib/event/Loop.cpp,      *)
(* lib/event/Loop_epoll.cpp): the event queue any thread may post to, the  *)
(* wakeup pipe that takes the loop out of epoll_wait, exit(), and the      *)
(* skeleton of execute().  Timers are in LoopTimers.tla, descriptors in    *)
(* LoopFds.tla; here both are only places where callbacks run.             *)
(*                                                                         *)
(* Abstractions:                                                           *)
(*  - one call of post/send/exit by a foreign thread is a step per part    *)
(*    that another thread can see: under the lock, then each store, then   *)
(*    the write to the pipe, which is blocking (only the read end of the   *)
(*    pipe is made O_NONBLOCK) and is made with mMutex held;               *)
(*  - fewer than MaxEvents = 64 descriptors are ready at once, so a ready  *)
(*    wakeup descriptor is part of the next epoll_wait batch;              *)
(*  - an event is any member of Events; the program hands each over once.  *)
(***************************************************************************)
EXTENDS Integers, Sequences, Functions

CONSTANTS
    Threads,        \* threads other than the loop's
    LoopThread,     \* the thread that runs execute() (mThread)
    NoThread,       \* mMutex is not held
    Events,         \* events that may be posted
    Statuses,       \* arguments of exit()
    PipeCapacity,   \* bytes the wakeup pipe can hold
    MaxExits,       \* bound: calls of exit() in a behaviour
    HasTimeout      \* execute() was given a timeout

ASSUME ThreadsAssumption ==
    /\ LoopThread \notin Threads
    /\ NoThread \notin Threads \cup {LoopThread}

ASSUME NumbersAssumption ==
    /\ PipeCapacity \in Nat \ {0}
    /\ MaxExits \in Nat
    /\ Statuses \subseteq Int
    /\ HasTimeout \in BOOLEAN

VARIABLES
    mMutex,         \* the thread that holds Loop::mMutex, or NoThread
    call,           \* per thread: what is left of its post() or exit() call
    mEvents,        \* posted events
    events,         \* the local batch of execute() not yet executed
    executed,       \* history: the events executed, in order
    mStopped,       \* the atomic flag exit() sets
    mStatus,        \* the plain int exit() sets
    exitArg,        \* argument of the latest exit() to take mMutex (0: none)
    exits,          \* number of exit() calls so far
    pipe,           \* bytes in the wakeup pipe
    edge,           \* the pipe's read end is on epoll's ready list (EPOLLET)
    wakeEvent,      \* the current epoll batch holds the wakeup descriptor
    up,             \* init() succeeded: epoll fd and pipe are open
    phase,          \* where the loop's thread is
    rc              \* what the last execute() returned

vars == <<mMutex, call, mEvents, events, executed, mStopped, mStatus, exitArg,
          exits, pipe, edge, wakeEvent, up, phase, rc>>

queueVars == <<mEvents, events, executed>>
exitVars  == <<mStopped, mStatus, exitArg, exits>>
pipeVars  == <<pipe, edge>>
loopVars  == <<wakeEvent, up, phase, rc>>

AllThreads == Threads \cup {LoopThread}

Phases == {"idle",      \* execute() is not running
           "top",       \* before the first test of mStopped
           "take",      \* before the lock that guards the move of mEvents
           "run",       \* in the for loop over the batch
           "callback",  \* inside Event::execute
           "check",     \* before the second test of mStopped
           "prepare",   \* before the locks for descriptors and timers
           "wait",      \* in epoll_wait
           "io",        \* in the loop over the ready descriptors
           "drain",     \* reading the wakeup pipe
           "collect",   \* before the lock that guards the timers
           "timers"}    \* executing timers

TypeOK ==
    /\ mMutex \in AllThreads \cup {NoThread}
    /\ call \in [AllThreads -> {"none", "status", "wakeup"}]
    /\ mEvents \in Seq(Events)
    /\ events \in Seq(Events)
    /\ executed \in Seq(Events)
    /\ mStopped \in BOOLEAN
    /\ mStatus \in Int
    /\ exitArg \in Int
    /\ exits \in 0..MaxExits
    /\ pipe \in 0..PipeCapacity
    /\ edge \in BOOLEAN
    /\ wakeEvent \in BOOLEAN
    /\ up \in BOOLEAN
    /\ phase \in Phases
    /\ rc \in Int

\* After the constructor and init().  When epoll_create1, pipe or epoll_ctl
\* fails, cleanup() leaves every descriptor at -1 and the loop is still usable
\* up to its first epoll_wait.
Init ==
    /\ mMutex = NoThread
    /\ call = [t \in AllThreads |-> "none"]
    /\ mEvents = <<>> /\ events = <<>> /\ executed = <<>>
    /\ mStopped = FALSE /\ mStatus = 0 /\ exitArg = 0 /\ exits = 0
    /\ pipe = 0 /\ edge = FALSE
    /\ wakeEvent = FALSE
    /\ up \in BOOLEAN
    /\ phase = "idle"
    /\ rc = 0

-----------------------------------------------------------------------------
(* Helpers *)

\* The loop's thread is in the program's code: in an event, a descriptor's
\* callback or a timer, or before execute() is entered and after it has
\* returned, where the program may call the loop just as well.
InProgram == phase \in {"idle", "callback", "io", "timers"}

LoopFree == call[LoopThread] = "none"

Fresh(e) == e \notin Range(executed) \cup Range(events) \cup Range(mEvents)

-----------------------------------------------------------------------------
(* The API *)

\* Mutated Post: the lock is not taken.
PostUnlocked(t, e) ==
    /\ t \in Threads
    /\ call[t] = "none"
    /\ Fresh(e)
    /\ mMutex' = t
    /\ call' = [call EXCEPT ![t] = "wakeup"]
    /\ mEvents' = Append(mEvents, e)
    /\ UNCHANGED <<events, executed, exitVars, pipeVars, loopVars>>

\* Mutated Post: no wakeup() at its end.
PostNoWake(t, e) ==
    /\ t \in Threads
    /\ call[t] = "none" /\ mMutex = NoThread
    /\ Fresh(e)
    /\ mEvents' = Append(mEvents, e)
    /\ UNCHANGED <<mMutex, call, events, executed, exitVars, pipeVars, loopVars>>

\* Loop::post(unique_ptr), which Loop::send calls on a foreign thread: the
\* event is in mEvents and the thread goes on to wakeup() with the mutex held.
Post(t, e) ==
    /\ t \in Threads
    /\ call[t] = "none" /\ mMutex = NoThread
    /\ Fresh(e)
    /\ mMutex' = t
    /\ call' = [call EXCEPT ![t] = "wakeup"]
    /\ mEvents' = Append(mEvents, e)
    /\ UNCHANGED <<events, executed, exitVars, pipeVars, loopVars>>

\* Loop::post on the loop's thread, in a callback or outside execute():
\* wakeup() returns at once, so lock, push_back and unlock are one step.
LoopPost(e) ==
    /\ InProgram /\ LoopFree /\ mMutex = NoThread
    /\ Fresh(e)
    /\ mEvents' = Append(mEvents, e)
    /\ UNCHANGED <<mMutex, call, events, executed, exitVars, pipeVars, loopVars>>

\* Loop::send on the loop's thread: the event is executed inside the call,
\* whether execute() is running or not.
LoopSend(e) ==
    /\ InProgram /\ LoopFree
    /\ Fresh(e)
    /\ executed' = Append(executed, e)
    /\ UNCHANGED <<mMutex, call, mEvents, events, exitVars, pipeVars, loopVars>>

\* Loop::exit up to the store of mStopped.  The loop's thread calls it from a
\* callback or outside execute().
Exit(t, status) ==
    /\ exits < MaxExits
    /\ t = LoopThread => InProgram
    /\ call[t] = "none" /\ mMutex = NoThread
    /\ mMutex' = t
    /\ call' = [call EXCEPT ![t] = "status"]
    /\ mStopped' = TRUE
    /\ exitArg' = status
    /\ exits' = exits + 1
    /\ UNCHANGED <<mStatus, queueVars, pipeVars, loopVars>>

\* Mutated StoreStatus: a second exit() does not overwrite the first.
StoreStatusFirst(t) ==
    /\ call[t] = "status"
    /\ mStatus' = IF exits = 1 THEN exitArg ELSE mStatus
    /\ call' = [call EXCEPT ![t] = "wakeup"]
    /\ UNCHANGED <<mMutex, mStopped, exitArg, exits, queueVars, pipeVars, loopVars>>

\* Loop::exit, the store of mStatus; wakeup(true) is next.
StoreStatus(t) ==
    /\ call[t] = "status"
    /\ mStatus' = exitArg
    /\ call' = [call EXCEPT ![t] = "wakeup"]
    /\ UNCHANGED <<mMutex, mStopped, exitArg, exits, queueVars, pipeVars, loopVars>>

\* Mutated Write: the write end is O_NONBLOCK too, a full pipe is not an error.
WriteNonblock(t) ==
    /\ call[t] = "wakeup"
    /\ call' = [call EXCEPT ![t] = "none"]
    /\ mMutex' = NoThread
    /\ pipe' = IF up /\ pipe < PipeCapacity THEN pipe + 1 ELSE pipe
    /\ edge' = (edge \/ up)
    /\ UNCHANGED <<queueVars, exitVars, loopVars>>

\* Loop::wakeup, the write, and the return of post() or exit(), which releases
\* mMutex.  The write waits while the pipe is full; on a closed pipe it fails
\* and the error is ignored.
Write(t) ==
    /\ call[t] = "wakeup"
    /\ up => pipe < PipeCapacity
    /\ call' = [call EXCEPT ![t] = "none"]
    /\ mMutex' = NoThread
    /\ pipe' = IF up THEN pipe + 1 ELSE pipe
    /\ edge' = (edge \/ up)
    /\ UNCHANGED <<queueVars, exitVars, loopVars>>

InCall(t) == StoreStatus(t) \/ Write(t)

-----------------------------------------------------------------------------
(* The loop's thread: execute() *)

loopUnchanged == UNCHANGED <<mMutex, call, exitVars, pipeVars>>

\* Mutated Execute: a new execute() forgets that the loop was stopped.
ExecuteReset ==
    /\ phase = "idle" /\ LoopFree
    /\ phase' = "top"
    /\ mStopped' = FALSE
    /\ UNCHANGED <<queueVars, wakeEvent, up, rc, mMutex, call, mStatus, exitArg,
                   exits, pipeVars>>

\* execute() is entered (again, if an earlier call has returned).
Execute ==
    /\ phase = "idle" /\ LoopFree
    /\ phase' = "top"
    /\ UNCHANGED <<queueVars, wakeEvent, up, rc>>
    /\ loopUnchanged

\* The two tests of mStopped; a stopped loop returns mStatus as it is then.
CheckStopped ==
    /\ phase \in {"top", "check"}
    /\ \/ /\ mStopped
          /\ phase' = "idle"
          /\ rc' = mStatus
       \/ /\ ~mStopped
          /\ phase' = IF phase = "top" THEN "take" ELSE "prepare"
          /\ UNCHANGED rc
    /\ UNCHANGED <<queueVars, wakeEvent, up>>
    /\ loopUnchanged

\* events = std::move(mEvents) under the lock; an empty batch leaves the
\* inner loop.
Take ==
    /\ phase = "take" /\ mMutex = NoThread
    /\ events' = mEvents
    /\ mEvents' = <<>>
    /\ phase' = IF mEvents = <<>> THEN "check" ELSE "run"
    /\ UNCHANGED <<executed, wakeEvent, up, rc>>
    /\ loopUnchanged

\* e->execute() is entered.
RunEvent ==
    /\ phase = "run"
    /\ executed' = Append(executed, Head(events))
    /\ events' = Tail(events)
    /\ phase' = "callback"
    /\ UNCHANGED <<mEvents, wakeEvent, up, rc>>
    /\ loopUnchanged

\* Mutated EndCallback: the rest of the batch is dropped when the loop has
\* been stopped.
EndCallbackDrop ==
    /\ phase = "callback" /\ LoopFree
    /\ phase' = IF events = <<>> \/ mStopped THEN "top" ELSE "run"
    /\ events' = IF mStopped THEN <<>> ELSE events
    /\ UNCHANGED <<mEvents, executed, wakeEvent, up, rc>>
    /\ loopUnchanged

\* The event's execute() returns; the batch is executed to its end, also when
\* one of its events has stopped the loop.
EndCallback ==
    /\ phase = "callback" /\ LoopFree
    /\ phase' = IF events = <<>> THEN "top" ELSE "run"
    /\ UNCHANGED <<queueVars, wakeEvent, up, rc>>
    /\ loopUnchanged

\* The locked sections for descriptors and timers before epoll_wait.
Prepare ==
    /\ phase = "prepare" /\ mMutex = NoThread
    /\ phase' = "wait"
    /\ UNCHANGED <<queueVars, wakeEvent, up, rc>>
    /\ loopUnchanged

\* epoll_wait returns with the wakeup descriptor in the batch: its edge is
\* consumed.
WaitWakeup ==
    /\ phase = "wait" /\ up
    /\ edge /\ pipe > 0
    /\ edge' = FALSE
    /\ wakeEvent' = TRUE
    /\ phase' = "io"
    /\ UNCHANGED <<mMutex, call, queueVars, exitVars, pipe, up, rc>>

\* epoll_wait finds the pipe on its ready list but empty, because the drain of
\* the previous round already read the byte: it is taken off the list.
WaitStaleEdge ==
    /\ phase = "wait" /\ up
    /\ edge /\ pipe = 0
    /\ edge' = FALSE
    /\ UNCHANGED <<mMutex, call, queueVars, exitVars, pipe, loopVars>>

\* epoll_wait returns for another descriptor or because its timeout elapsed.
WaitOther ==
    /\ phase = "wait" /\ up
    /\ ~(edge /\ pipe > 0)
    /\ wakeEvent' = FALSE
    /\ phase' = "io"
    /\ UNCHANGED <<queueVars, up, rc>>
    /\ loopUnchanged

\* epoll_wait on a descriptor that was never opened: cleanup(), return -1.
WaitFails ==
    /\ phase = "wait" /\ ~up
    /\ phase' = "idle"
    /\ rc' = -1
    /\ UNCHANGED <<queueVars, wakeEvent, up>>
    /\ loopUnchanged

\* The loop over the batch reaches the wakeup descriptor, or the end.  The
\* close() of a failed descriptor earlier in the batch is wrapped in
\* eintrwrap(e, ...), which overwrites the number of events: then the wakeup
\* descriptor is never reached and the bytes stay in the pipe.
EndIo ==
    /\ phase = "io" /\ LoopFree
    /\ phase' \in IF wakeEvent THEN {"drain", "collect"} ELSE {"collect"}
    /\ wakeEvent' = FALSE
    /\ UNCHANGED <<queueVars, up, rc>>
    /\ loopUnchanged

\* One read of one byte; the loop over the batch ends with the drain.
Drain ==
    /\ phase = "drain"
    /\ IF pipe > 0 THEN pipe' = pipe - 1 /\ UNCHANGED phase
                   ELSE phase' = "collect" /\ UNCHANGED pipe
    /\ UNCHANGED <<mMutex, call, queueVars, exitVars, edge, wakeEvent, up, rc>>

\* The locked section that collects the timers to fire.
Collect ==
    /\ phase = "collect" /\ mMutex = NoThread
    /\ phase' = "timers"
    /\ UNCHANGED <<queueVars, wakeEvent, up, rc>>
    /\ loopUnchanged

\* The timers have fired; the next round begins, or the timeout of execute()
\* has elapsed and it returns 0, whether or not exit() was called meanwhile.
EndTimers ==
    /\ phase = "timers" /\ LoopFree
    /\ \/ phase' = "top" /\ UNCHANGED rc
       \/ HasTimeout /\ phase' = "idle" /\ rc' = 0
    /\ UNCHANGED <<queueVars, wakeEvent, up>>
    /\ loopUnchanged

LoopStep ==
    \/ CheckStopped \/ Take \/ RunEvent \/ EndCallback \/ Prepare
    \/ WaitWakeup \/ WaitFails \/ EndIo \/ Drain \/ Collect \/ EndTimers

-----------------------------------------------------------------------------
(* The specification *)

Next ==
    \/ \E t \in Threads, e \in Events : Post(t, e)
    \/ \E e \in Events : LoopPost(e) \/ LoopSend(e)
    \/ \E t \in AllThreads, status \in Statuses : Exit(t, status)
    \/ \E t \in AllThreads : StoreStatus(t) \/ Write(t)
    \/ Execute \/ LoopStep \/ WaitStaleEdge \/ WaitOther

Spec == Init /\ [][Next]_vars

\* The operating system runs every thread, and callbacks return.  A wait in
\* epoll_wait need not end by itself (WaitOther), and nothing obliges the
\* program to post, to call exit() or to call execute() again.
Fairness ==
    /\ WF_vars(LoopStep)
    /\ \A t \in AllThreads : WF_vars(InCall(t))

LiveSpec == Spec /\ Fairness

-----------------------------------------------------------------------------
(* Safety *)

\* mMutex is held exactly by the thread that is inside post() or exit(), so no
\* two threads are in their calls at once; the loop's thread is in a call only
\* where the program's code runs.
CallsExclusive ==
    /\ \A t \in AllThreads : call[t] # "none" <=> mMutex = t
    /\ ~LoopFree => InProgram

\* The batch is executed to its end before the loop takes another one or
\* leaves execute(), where it would be overwritten.
BatchFinished ==
    /\ phase \notin {"run", "callback"} => events = <<>>
    /\ phase = "run" => events # <<>>

\* epoll_wait will return, or a thread that will write to the pipe is at it.
WakePending ==
    \/ edge /\ pipe > 0
    \/ \E t \in Threads : call[t] # "none"

\* The loop never goes to sleep over work: once it has seen an empty mEvents,
\* an event posted, or an exit() called, after the tests it has made comes
\* with a wakeup that is still to be delivered, although the drain loop reads
\* bytes it was not notified of, although EPOLLET reports a byte once, and
\* although the loop's own posts write none.
EventsWake == up /\ phase \in {"check", "prepare", "wait"} /\ mEvents # <<>> => WakePending
ExitWakes  == up /\ phase \in {"prepare", "wait"} /\ mStopped => WakePending

NoLostWakeup == EventsWake /\ ExitWakes

\* mStatus is what the latest exit() asked for, except while that exit() is
\* between its store of mStopped and its store of mStatus.
StatusStored ==
    /\ (\A t \in AllThreads : call[t] # "status") => mStatus = exitArg
    /\ mStopped <=> exits > 0

\* All of these together are inductive: the byte of a thread in its call is
\* known to come because the call holds mMutex, and the batch that Take
\* overwrites is known to be empty.
Inv ==
    /\ TypeOK
    /\ CallsExclusive
    /\ BatchFinished
    /\ NoLostWakeup
    /\ StatusStored

-----------------------------------------------------------------------------
(* Action properties *)

\* What execute() returns: the argument of the latest exit().  The exceptions
\* are the code's: the second store of exit() is made after the atomic one, so
\* a loop that tests in between returns the status of the exit() before (or
\* 0); the timeout returns 0 even when exit() was called; a loop that was not
\* set up returns -1.
ReturnsLatestStatus ==
    [][phase # "idle" /\ phase' = "idle" =>
          \/ rc' = exitArg /\ mStopped
          \/ mStopped /\ \E t \in AllThreads : call[t] = "status"
          \/ HasTimeout /\ phase = "timers" /\ rc' = 0
          \/ ~up /\ rc' = -1]_vars

\* mStopped is never reset: once execute() has returned because of exit(), or
\* is back at its first test, another execute() gets no further than that
\* test, and an event that is in the queue, or is posted from then on, stays
\* there for good.  What the loop's own thread sends is executed all the same:
\* send() does not look at mStopped.
StoppedForGood ==
    [][mStopped /\ phase \in {"idle", "top"} =>
          /\ mStopped' /\ phase' \in {"idle", "top"}
          /\ Range(mEvents) \subseteq Range(mEvents')
          /\ Range(executed') \cap Range(mEvents) = {}]_vars

\* A thread blocked in the write to a full pipe holds mMutex.  Once the loop
\* needs that mutex to get back to the drain, or is the blocked thread itself,
\* nobody can move again.
Wedged ==
    /\ up /\ pipe = PipeCapacity
    /\ \/ call[LoopThread] = "wakeup"
       \/ phase \in {"take", "prepare", "collect"} /\ \E t \in Threads : call[t] = "wakeup"

\* The state in which the pipe is full and its writer holds the mutex the loop
\* waits for cannot be left: no timeout, no exit() and no event of the
\* operating system resolves it.
FullPipeWedges == [][Wedged => Wedged' /\ UNCHANGED executed]_vars

-----------------------------------------------------------------------------
(* Liveness *)

\* A thread is blocked in the write to the wakeup pipe.
WriterBlocked == pipe = PipeCapacity /\ \E t \in AllThreads : call[t] = "wakeup"

\* exit() gets execute() to return, unless a writer to the full pipe stays
\* blocked for good: the loop is wedged, or sleeps with an edge it has lost.
ExitReturns == mStopped ~> (phase = "idle" \/ []WriterBlocked)

\* Every event in the queue is executed unless execute() returns first, or a
\* writer stays blocked.
QueuedRuns ==
    \A e \in Events :
        e \in Range(mEvents) ~>
            (e \in Range(executed) \/ phase = "idle" \/ []WriterBlocked)

\* What post(), send() and exit() ask for wakes the loop and is done.
LoopProgress == ExitReturns /\ QueuedRuns

-----------------------------------------------------------------------------
(* Refinement *)

\* The batch and mEvents together are the queue of the abstract executor.
Exec == INSTANCE Executor WITH
            queue    <- events \o mEvents,
            executed <- executed,
            running  <- phase # "idle"

\* post(), send() and execute() behave as an Executor: no event is lost,
\* repeated or reordered by the hand-over of the batch, and what was posted is
\* executed inside execute() only.  Events sent on the loop's own thread are
\* executed at once, ahead of the queue and also outside execute().
ImplementsExecutor == Exec!Spec

\* No event is executed twice, or is executed and still waiting, across the
\* hand-over of mEvents to the batch and whatever is posted meanwhile.
ExactlyOnce == Exec!ExactlyOnce

=============================================================================
