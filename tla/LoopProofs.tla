----------------------------- MODULE LoopProofs -----------------------------
(***************************************************************************)
(* Proofs about Loop for any set of threads and events, any capacity of    *)
(* the wakeup pipe and any number of exit() calls.                         *)
(*                                                                         *)
(* The inductive invariant is Inv, which the run of MCLoop checks:         *)
(* NoLostWakeup rests on CallsExclusive (the thread that owes the loop a   *)
(* byte holds the mutex, so the loop cannot have passed its locks),        *)
(* and the refinement on BatchFinished (the batch is empty when the next   *)
(* one is moved over it).                                                  *)
(***************************************************************************)
EXTENDS Loop, SequenceTheorems, TLAPS

\* The constructor and init() establish the invariant.
LEMMA InitInv == Init => Inv
<1> SUFFICES ASSUME Init PROVE Inv
  OBVIOUS
<1> USE ThreadsAssumption, NumbersAssumption DEF Init, AllThreads
<1>1. TypeOK
  <2>1. <<>> \in Seq(Events)
    OBVIOUS
  <2>2. 0 \in 0..MaxExits /\ 0 \in 0..PipeCapacity
    OBVIOUS
  <2>3. call \in [AllThreads -> {"none", "status", "wakeup"}]
    OBVIOUS
  <2>4. /\ mMutex \in AllThreads \cup {NoThread}
        /\ phase \in Phases
        /\ mStopped \in BOOLEAN /\ edge \in BOOLEAN /\ wakeEvent \in BOOLEAN
        /\ up \in BOOLEAN
    BY DEF Phases
  <2>5. mStatus \in Int /\ exitArg \in Int /\ rc \in Int
    OBVIOUS
  <2> QED BY <2>1, <2>2, <2>3, <2>4, <2>5 DEF TypeOK
<1>2. CallsExclusive
  BY DEF CallsExclusive, LoopFree
<1>3. BatchFinished /\ NoLostWakeup /\ StatusStored
  BY DEF BatchFinished, NoLostWakeup, EventsWake, ExitWakes, StatusStored
<1> QED BY <1>1, <1>2, <1>3 DEF Inv

LEMMA PostInv ==
    ASSUME Inv, NEW t \in Threads, NEW e \in Events, Post(t, e)
    PROVE  Inv'
<1> USE ThreadsAssumption, NumbersAssumption
        DEF Inv, Post, exitVars, pipeVars, loopVars, AllThreads
<1>1. TypeOK'
  BY DEF TypeOK
<1>2. CallsExclusive'
  BY DEF TypeOK, CallsExclusive, InProgram, LoopFree
<1>3. BatchFinished' /\ StatusStored'
  BY DEF TypeOK, BatchFinished, StatusStored
<1>4. NoLostWakeup'
  BY DEF TypeOK, NoLostWakeup, EventsWake, ExitWakes, WakePending
<1> QED BY <1>1, <1>2, <1>3, <1>4

LEMMA ExitInv ==
    ASSUME Inv, NEW t \in AllThreads, NEW status \in Statuses, Exit(t, status)
    PROVE  Inv'
<1> USE ThreadsAssumption, NumbersAssumption
        DEF Inv, Exit, queueVars, pipeVars, loopVars, AllThreads
<1>1. TypeOK'
  BY DEF TypeOK
<1>2. CallsExclusive'
  BY DEF TypeOK, CallsExclusive, InProgram, LoopFree
<1>3. BatchFinished' /\ StatusStored'
  BY DEF TypeOK, BatchFinished, StatusStored
<1>4. NoLostWakeup'
  BY DEF TypeOK, NoLostWakeup, EventsWake, ExitWakes, WakePending, InProgram
<1> QED BY <1>1, <1>2, <1>3, <1>4

LEMMA StoreStatusInv ==
    ASSUME Inv, NEW t \in AllThreads, StoreStatus(t)
    PROVE  Inv'
<1> USE ThreadsAssumption, NumbersAssumption
        DEF Inv, StoreStatus, queueVars, pipeVars, loopVars, AllThreads
<1>1. TypeOK'
  BY DEF TypeOK
<1>2. CallsExclusive'
  BY DEF TypeOK, CallsExclusive, InProgram, LoopFree
<1>3. BatchFinished' /\ StatusStored'
  BY DEF TypeOK, BatchFinished, StatusStored
<1>4. NoLostWakeup'
  BY DEF TypeOK, NoLostWakeup, EventsWake, ExitWakes, WakePending
<1> QED BY <1>1, <1>2, <1>3, <1>4

LEMMA WriteInv ==
    ASSUME Inv, NEW t \in AllThreads, Write(t)
    PROVE  Inv'
<1> USE ThreadsAssumption, NumbersAssumption
        DEF Inv, Write, queueVars, exitVars, loopVars, AllThreads
<1>1. TypeOK'
  BY DEF TypeOK
<1>2. CallsExclusive'
  BY DEF TypeOK, CallsExclusive, InProgram, LoopFree
<1>3. BatchFinished' /\ StatusStored'
  BY DEF TypeOK, BatchFinished, StatusStored
<1>4. NoLostWakeup'
  BY DEF TypeOK, NoLostWakeup, EventsWake, ExitWakes, WakePending
<1> QED BY <1>1, <1>2, <1>3, <1>4

LEMMA LoopCallInv ==
    ASSUME Inv, NEW e \in Events, LoopPost(e) \/ LoopSend(e)
    PROVE  Inv'
<1> USE ThreadsAssumption, NumbersAssumption
        DEF Inv, LoopPost, LoopSend, exitVars, pipeVars, loopVars, AllThreads
<1>1. TypeOK'
  <2>1. CASE LoopPost(e)  BY <2>1 DEF TypeOK
  <2>2. CASE LoopSend(e)  BY <2>2 DEF TypeOK
  <2> QED BY <2>1, <2>2
<1>2. CallsExclusive' /\ BatchFinished' /\ StatusStored'
  BY DEF TypeOK, CallsExclusive, BatchFinished, StatusStored, InProgram, LoopFree
<1>3. NoLostWakeup'
  BY DEF TypeOK, NoLostWakeup, EventsWake, ExitWakes, WakePending, InProgram
<1> QED BY <1>1, <1>2, <1>3

\* No step of the loop's own thread disturbs the invariant.
LEMMA LoopStepInv ==
    ASSUME Inv, Execute \/ LoopStep \/ WaitStaleEdge \/ WaitOther
    PROVE  Inv'
<1> USE ThreadsAssumption, NumbersAssumption
        DEF Inv, queueVars, exitVars, pipeVars, loopVars, loopUnchanged, AllThreads,
            TypeOK, CallsExclusive, BatchFinished, NoLostWakeup, EventsWake,
            ExitWakes, WakePending, StatusStored, Phases, InProgram, LoopFree
<1>1. CASE Execute       BY <1>1 DEF Execute
<1>2. CASE CheckStopped  BY <1>2 DEF CheckStopped
<1>3. CASE Take          BY <1>3 DEF Take
<1>4. CASE RunEvent
  <2>1. Head(events) \in Events /\ Tail(events) \in Seq(Events)
    BY <1>4 DEF RunEvent
  <2> QED BY <1>4, <2>1 DEF RunEvent
<1>5. CASE EndCallback   BY <1>5 DEF EndCallback
<1>6. CASE Prepare       BY <1>6 DEF Prepare
<1>7. CASE WaitWakeup    BY <1>7 DEF WaitWakeup
<1>8. CASE WaitFails     BY <1>8 DEF WaitFails
<1>9. CASE EndIo         BY <1>9 DEF EndIo
<1>10. CASE Drain        BY <1>10 DEF Drain
<1>11. CASE Collect      BY <1>11 DEF Collect
<1>12. CASE EndTimers    BY <1>12 DEF EndTimers
<1>13. CASE WaitStaleEdge
  <2>1. TypeOK' /\ CallsExclusive' /\ BatchFinished' /\ StatusStored'
    BY <1>13 DEF WaitStaleEdge
  <2>2. NoLostWakeup'
    BY <1>13 DEF WaitStaleEdge
  <2> QED BY <2>1, <2>2
<1>14. CASE WaitOther    BY <1>14 DEF WaitOther
<1> QED BY <1>1, <1>2, <1>3, <1>4, <1>5, <1>6, <1>7, <1>8, <1>9, <1>10, <1>11,
           <1>12, <1>13, <1>14 DEF LoopStep

LEMMA NextInv == Inv /\ [Next]_vars => Inv'
<1> SUFFICES ASSUME Inv, [Next]_vars PROVE Inv'
  OBVIOUS
<1>1. CASE \E t \in Threads, e \in Events : Post(t, e)
  BY <1>1, PostInv
<1>2. CASE \E e \in Events : LoopPost(e) \/ LoopSend(e)
  BY <1>2, LoopCallInv
<1>3. CASE \E t \in AllThreads, status \in Statuses : Exit(t, status)
  BY <1>3, ExitInv
<1>4. CASE \E t \in AllThreads : StoreStatus(t) \/ Write(t)
  BY <1>4, StoreStatusInv, WriteInv
<1>5. CASE Execute \/ LoopStep \/ WaitStaleEdge \/ WaitOther
  BY <1>5, LoopStepInv
<1>6. CASE UNCHANGED vars
  BY <1>6 DEF vars, Inv, TypeOK, CallsExclusive, BatchFinished, NoLostWakeup,
              EventsWake, ExitWakes, WakePending, StatusStored, AllThreads,
              Phases, InProgram, LoopFree
<1> QED BY <1>1, <1>2, <1>3, <1>4, <1>5, <1>6 DEF Next

\* Inv holds throughout, for any threads, events, capacity and number of calls.
THEOREM Invariance == Spec => []Inv
<1>1. Init => Inv
  BY InitInv
<1>2. Inv /\ [Next]_vars => Inv'
  BY NextInv
<1> QED BY <1>1, <1>2, PTL DEF Spec

-----------------------------------------------------------------------------

\* Every variable of the loop keeps its type; in particular the pipe never
\* holds more than it can, because write() waits.
THEOREM TypeCorrect == Spec => []TypeOK
<1>1. Inv => TypeOK
  BY DEF Inv
<1> QED BY <1>1, Invariance, PTL

\* The loop never sleeps over an event or an exit(), whatever the number of
\* threads that post: the lock, the wakeup byte, the edge-triggered read end
\* and the two tests of mStopped together leave no window.
THEOREM WakeupsAreNotLost == Spec => []NoLostWakeup
<1>1. Inv => NoLostWakeup
  BY DEF Inv
<1> QED BY <1>1, Invariance, PTL

\* One call at a time, batches executed to their end, mStatus up to date
\* outside exit().
THEOREM LoopDiscipline == Spec => [](CallsExclusive /\ BatchFinished /\ StatusStored)
<1>1. Inv => CallsExclusive /\ BatchFinished /\ StatusStored
  BY DEF Inv
<1> QED BY <1>1, Invariance, PTL

\* execute() returns the argument of the latest exit(), but for the window
\* between the two stores of exit(), the timeout and a failed init().
THEOREM StatusReturned == Spec => ReturnsLatestStatus
<1> DEFINE Good ==
      phase # "idle" /\ phase' = "idle" =>
          \/ rc' = exitArg /\ mStopped
          \/ mStopped /\ \E t \in AllThreads : call[t] = "status"
          \/ HasTimeout /\ phase = "timers" /\ rc' = 0
          \/ ~up /\ rc' = -1
<1>1. Inv /\ [Next]_vars => [Good]_vars
  <2> SUFFICES ASSUME Inv, Next, phase # "idle", phase' = "idle" PROVE Good
    OBVIOUS
  <2>1. CheckStopped \/ WaitFails \/ EndTimers
    BY DEF Next, LoopStep, Post, LoopPost, LoopSend, Exit, StoreStatus, Write,
           Execute, Take, RunEvent, EndCallback, Prepare, WaitWakeup, EndIo,
           Drain, Collect, WaitStaleEdge, WaitOther, loopVars
  <2>2. CASE CheckStopped
    BY <2>2 DEF CheckStopped, Inv, StatusStored
  <2>3. CASE WaitFails
    BY <2>3 DEF WaitFails
  <2>4. CASE EndTimers
    BY <2>4 DEF EndTimers
  <2> QED BY <2>1, <2>2, <2>3, <2>4
<1> QED BY <1>1, Invariance, PTL DEF Spec, ReturnsLatestStatus

\* A pipe filled while the loop is away from its drain blocks the program for
\* good.
THEOREM FullPipeIsFinal == Spec => FullPipeWedges
<1>1. Inv /\ [Next]_vars => [Wedged => Wedged' /\ UNCHANGED executed]_vars
  <2> SUFFICES ASSUME Inv, Next, Wedged PROVE FALSE
    OBVIOUS
  <2>1. PICK w \in AllThreads :
            /\ call[w] = "wakeup" /\ mMutex = w
            /\ \/ w = LoopThread /\ InProgram
               \/ w # LoopThread /\ LoopFree /\ phase \in {"take", "prepare", "collect"}
    BY ThreadsAssumption DEF Wedged, Inv, CallsExclusive, LoopFree, AllThreads
  <2>2. \A t \in AllThreads : t # w => call[t] = "none"
    BY <2>1 DEF Inv, CallsExclusive, TypeOK
  <2>3. mMutex # NoThread
    BY <2>1, ThreadsAssumption DEF AllThreads
  <2>4. \A t \in AllThreads : ~StoreStatus(t) /\ ~Write(t)
    BY <2>1, <2>2, NumbersAssumption DEF Wedged, StoreStatus, Write, Inv, TypeOK
  <2>5. /\ \A t \in Threads, e \in Events : ~Post(t, e)
        /\ \A t \in AllThreads, status \in Statuses : ~Exit(t, status)
        /\ \A e \in Events : ~LoopPost(e) /\ ~LoopSend(e)
    BY <2>1, <2>3 DEF Post, Exit, LoopPost, LoopSend, LoopFree, InProgram
  <2>6. ~Execute /\ ~LoopStep /\ ~WaitStaleEdge /\ ~WaitOther
    BY <2>1, <2>3 DEF LoopStep, Execute, CheckStopped, Take, RunEvent, EndCallback,
           Prepare, WaitWakeup, WaitFails, EndIo, Drain, Collect, EndTimers,
           WaitStaleEdge, WaitOther, InProgram, LoopFree
  <2> QED BY <2>4, <2>5, <2>6 DEF Next
<1> QED BY <1>1, Invariance, PTL DEF Spec, FullPipeWedges

-----------------------------------------------------------------------------
(* Refinement: the loop implements the executor *)

\* Taking the head of the batch is taking the head of the queue, and a post
\* appends to the queue whatever the batch is.
LEMMA BatchThenEvents ==
    ASSUME NEW batch \in Seq(Events), NEW posted \in Seq(Events)
    PROVE  /\ batch \o posted \in Seq(Events)
           /\ Range(batch \o posted) = Range(batch) \cup Range(posted)
           /\ \A e \in Events : batch \o Append(posted, e) = Append(batch \o posted, e)
           /\ batch # <<>> =>
                 /\ batch \o posted # <<>>
                 /\ Head(batch \o posted) = Head(batch)
                 /\ Tail(batch \o posted) = Tail(batch) \o posted
           /\ batch = <<>> => batch \o posted = posted
           /\ posted = <<>> => batch \o posted = batch
<1>1. batch \o posted \in Seq(Events)
  OBVIOUS
<1>2. Range(batch \o posted) = Range(batch) \cup Range(posted)
  <2>1. ASSUME NEW x \in Range(batch \o posted)
        PROVE  x \in Range(batch) \cup Range(posted)
    BY DEF Range
  <2>2. ASSUME NEW i \in DOMAIN batch
        PROVE  batch[i] \in Range(batch \o posted)
    BY DEF Range
  <2>3. ASSUME NEW i \in DOMAIN posted
        PROVE  posted[i] \in Range(batch \o posted)
    <3>1. /\ Len(batch) + i \in DOMAIN (batch \o posted)
          /\ (batch \o posted)[Len(batch) + i] = posted[i]
      OBVIOUS
    <3> QED BY <3>1 DEF Range
  <2> QED BY <2>1, <2>2, <2>3 DEF Range
<1>3. \A e \in Events : batch \o Append(posted, e) = Append(batch \o posted, e)
  OBVIOUS
<1>4. ASSUME batch # <<>>
      PROVE  /\ batch \o posted # <<>>
             /\ Head(batch \o posted) = Head(batch)
             /\ Tail(batch \o posted) = Tail(batch) \o posted
  BY <1>4
<1>5. /\ batch = <<>> => batch \o posted = posted
      /\ posted = <<>> => batch \o posted = batch
  OBVIOUS
<1> QED BY <1>1, <1>2, <1>3, <1>4, <1>5

LEMMA FreshInExecutor ==
    ASSUME Inv, NEW e \in Events, Fresh(e)
    PROVE  Exec!Fresh(e)
<1>1. /\ Exec!Range(events \o mEvents) = Range(events \o mEvents)
      /\ Exec!Range(executed) = Range(executed)
  BY DEF Exec!Range, Range
<1>2. Range(events \o mEvents) = Range(events) \cup Range(mEvents)
  BY BatchThenEvents DEF Inv, TypeOK
<1> QED BY <1>1, <1>2 DEF Fresh, Exec!Fresh

\* Every step of the loop is a step of the executor or leaves it alone.
LEMMA StepImplements ==
    ASSUME Inv, Inv', [Next]_vars
    PROVE  [Exec!Next]_Exec!vars
<1>s. ASSUME events' = events, mEvents' = mEvents, executed' = executed,
             (phase # "idle") = (phase' # "idle")
      PROVE  UNCHANGED Exec!vars
  BY <1>s DEF Exec!vars
<1>t. events \in Seq(Events) /\ mEvents \in Seq(Events)
  BY DEF Inv, TypeOK
<1>1. ASSUME NEW t \in Threads, NEW e \in Events, Post(t, e)
      PROVE  Exec!Submit(e)
  BY <1>1, <1>t, FreshInExecutor, BatchThenEvents
  DEF Post, Exec!Submit, loopVars
<1>2. ASSUME NEW e \in Events, LoopPost(e)
      PROVE  Exec!Submit(e)
  BY <1>2, <1>t, FreshInExecutor, BatchThenEvents
  DEF LoopPost, Exec!Submit, loopVars
<1>3. ASSUME NEW e \in Events, LoopSend(e)
      PROVE  Exec!RunInline(e)
  BY <1>3, FreshInExecutor
  DEF LoopSend, Exec!RunInline, loopVars, InProgram
<1>4. CASE \E t \in AllThreads, status \in Statuses : Exit(t, status)
  BY <1>4, <1>s DEF Exit, queueVars, loopVars
<1>5. CASE \E t \in AllThreads : StoreStatus(t) \/ Write(t)
  BY <1>5, <1>s DEF StoreStatus, Write, queueVars, loopVars
<1>6. CASE Execute
  BY <1>6 DEF Execute, queueVars, Exec!Next, Exec!Open
<1>7. ASSUME CheckStopped \/ WaitFails \/ EndTimers
      PROVE  Exec!Close \/ UNCHANGED Exec!vars
  <2>1. UNCHANGED queueVars /\ phase # "idle"
    BY <1>7 DEF CheckStopped, WaitFails, EndTimers
  <2> QED BY <2>1, <1>s DEF queueVars, Exec!Close
<1>8. CASE Take
  <2>1. events = <<>> /\ events' = mEvents /\ mEvents' = <<>>
    BY <1>8 DEF Take, Inv, BatchFinished
  <2>2. events' \o mEvents' = events \o mEvents
    BY <1>t, <2>1, BatchThenEvents
  <2> QED BY <1>8, <2>2 DEF Take, Exec!vars
<1>9. CASE RunEvent
  <2>1. events # <<>>
    BY <1>9 DEF RunEvent, Inv, BatchFinished
  <2> QED BY <1>9, <1>t, <2>1, BatchThenEvents DEF RunEvent, Exec!Next, Exec!RunNext
<1>10. CASE EndCallback \/ Prepare \/ WaitWakeup \/ EndIo \/ Drain \/ Collect
            \/ WaitStaleEdge \/ WaitOther
  BY <1>10, <1>s DEF EndCallback, Prepare, WaitWakeup, EndIo, Drain, Collect,
                     WaitStaleEdge, WaitOther, queueVars, loopVars
<1>11. CASE UNCHANGED vars
  BY <1>11, <1>s DEF vars
<1> QED BY <1>1, <1>2, <1>3, <1>4, <1>5, <1>6, <1>7, <1>8, <1>9, <1>10, <1>11
        DEF Next, LoopStep, Exec!Next

\* The mutex, the batch that execute() moves out of mEvents, the pipe and the
\* rounds of epoll_wait are invisible to whoever posts: the loop is an Executor.
THEOREM LoopImplementsExecutor == Spec => ImplementsExecutor
<1>1. Init => Exec!Init
  BY BatchThenEvents DEF Init, Exec!Init
<1>2. Inv /\ Inv' /\ [Next]_vars => [Exec!Next]_Exec!vars
  BY StepImplements
<1> QED BY <1>1, <1>2, Invariance, PTL DEF Spec, ImplementsExecutor, Exec!Spec

-----------------------------------------------------------------------------
(* What the executor promises, promised by the loop *)

\* An event that is in no queue may be appended to an injective history, in
\* front of the queue or behind it.
LEMMA InjectiveWithNew ==
    ASSUME NEW S, NEW done \in Seq(S), NEW waiting \in Seq(S), NEW e \in S,
           e \notin Range(done) \cup Range(waiting),
           IsInjective(done \o waiting)
    PROVE  /\ IsInjective(done \o Append(waiting, e))
           /\ IsInjective(Append(done, e) \o waiting)
<1> DEFINE all == done \o waiting
           n == Len(done)
           behind == done \o Append(waiting, e)
           between == Append(done, e) \o waiting
<1>1. /\ \A i \in 1..n : all[i] = done[i] /\ done[i] # e
      /\ \A i \in 1..Len(waiting) : all[n + i] = waiting[i] /\ waiting[i] # e
      /\ DOMAIN all = 1..(n + Len(waiting))
  BY DEF Range
<1>2. \A i \in DOMAIN all : all[i] # e
  <2> TAKE i \in DOMAIN all
  <2>1. CASE i <= n
    BY <1>1, <2>1
  <2>2. CASE i > n
    <3>1. i - n \in 1..Len(waiting) /\ i = n + (i - n)
      BY <1>1, <2>2
    <3> QED BY <1>1, <3>1
  <2> QED BY <2>1, <2>2, <1>1
<1>3. \A i, j \in DOMAIN all : all[i] = all[j] => i = j
  BY DEF IsInjective
<1>4. IsInjective(behind)
  <2>1. /\ DOMAIN behind = 1..(n + Len(waiting) + 1)
        /\ \A i \in 1..(n + Len(waiting)) : behind[i] = all[i]
        /\ behind[n + Len(waiting) + 1] = e
    OBVIOUS
  <2>2. ASSUME NEW i \in DOMAIN behind, NEW j \in DOMAIN behind, behind[i] = behind[j]
        PROVE  i = j
    <3> HIDE DEF all, behind
    <3>1. n \in Nat /\ Len(waiting) \in Nat
      OBVIOUS
    <3> HIDE DEF n
    <3>2. \A k \in DOMAIN behind : k \in 1..(n + Len(waiting)) \/ k = n + Len(waiting) + 1
      BY <2>1, <3>1
    <3> QED BY <1>1, <1>2, <1>3, <2>1, <2>2, <3>2
  <2> QED BY <2>2 DEF IsInjective
<1>5. IsInjective(between)
  <2>1. /\ DOMAIN between = 1..(n + Len(waiting) + 1)
        /\ \A i \in 1..n : between[i] = all[i]
        /\ between[n + 1] = e
        /\ \A i \in (n + 2)..(n + Len(waiting) + 1) : between[i] = all[i - 1]
    OBVIOUS
  <2>2. ASSUME NEW i \in DOMAIN between, NEW j \in DOMAIN between, between[i] = between[j]
        PROVE  i = j
    <3> HIDE DEF all, between
    <3>1. n \in Nat /\ Len(waiting) \in Nat
      OBVIOUS
    <3>2. \A k \in DOMAIN between :
             \/ k \in 1..n /\ k \in DOMAIN all
             \/ k = n + 1
             \/ k \in (n + 2)..(n + Len(waiting) + 1) /\ k - 1 \in DOMAIN all
      BY <1>1, <2>1, <3>1
    <3> HIDE DEF n
    <3> QED BY <1>2, <1>3, <2>1, <2>2, <3>1, <3>2
  <2> QED BY <2>2 DEF IsInjective
<1> QED BY <1>4, <1>5

LEMMA ExecutorKeepsOrder ==
    ASSUME Inv, Exec!Next, ExactlyOnce
    PROVE  ExactlyOnce'
<1> DEFINE queue == events \o mEvents
<1>1. executed \in Seq(Events) /\ events \in Seq(Events) /\ mEvents \in Seq(Events)
  BY DEF Inv, TypeOK
<1>2. queue \in Seq(Events)
  BY <1>1
<1>3. IsInjective(executed \o queue)
  BY DEF ExactlyOnce, Exec!ExactlyOnce, Exec!IsInjective, IsInjective
<1>4. Exec!Range(queue) = Range(queue) /\ Exec!Range(executed) = Range(executed)
  BY DEF Exec!Range, Range
<1>5. SUFFICES IsInjective(executed' \o queue')
  BY DEF ExactlyOnce, Exec!ExactlyOnce, Exec!IsInjective, IsInjective
<1>6. ASSUME NEW e \in Events, Exec!Submit(e) \/ Exec!RunInline(e)
      PROVE  IsInjective(executed' \o queue')
  <2>1. e \notin Range(executed) \cup Range(queue)
    BY <1>4, <1>6 DEF Exec!Submit, Exec!RunInline, Exec!Fresh
  <2>2. \/ queue' = Append(queue, e) /\ executed' = executed
        \/ queue' = queue /\ executed' = Append(executed, e)
    BY <1>6 DEF Exec!Submit, Exec!RunInline
  <2> HIDE DEF queue
  <2> QED BY <1>1, <1>2, <1>3, <2>1, <2>2, InjectiveWithNew
<1>7. CASE Exec!RunNext
  <2>1. queue # <<>> /\ executed' = Append(executed, Head(queue)) /\ queue' = Tail(queue)
    BY <1>7 DEF Exec!RunNext
  <2>2. executed' \o queue' = executed \o queue
    <3> HIDE DEF queue
    <3> QED BY <1>1, <1>2, <2>1
  <2> QED BY <1>3, <2>2
<1>8. CASE Exec!Open \/ Exec!Close
  BY <1>3, <1>8 DEF Exec!Open, Exec!Close
<1> QED BY <1>6, <1>7, <1>8 DEF Exec!Next

\* The batch and mEvents together never hold an event twice, nor one that has
\* been executed: the abstract invariant, carried over by the refinement.
THEOREM EventsRunOnce == Spec => []ExactlyOnce
<1>1. Init => ExactlyOnce
  BY DEF Init, ExactlyOnce, Exec!ExactlyOnce, Exec!IsInjective
<1>2. Inv /\ Inv' /\ ExactlyOnce /\ [Next]_vars => ExactlyOnce'
  <2> SUFFICES ASSUME Inv, Inv', ExactlyOnce, [Next]_vars
               PROVE  ExactlyOnce'
    OBVIOUS
  <2>1. CASE Exec!Next
    BY <2>1, ExecutorKeepsOrder
  <2>2. CASE UNCHANGED Exec!vars
    BY <2>2 DEF Exec!vars, ExactlyOnce, Exec!ExactlyOnce, Exec!IsInjective
  <2> QED BY <2>1, <2>2, StepImplements
<1> QED BY <1>1, <1>2, Invariance, PTL DEF Spec

\* What waits in mEvents has not been executed.
LEMMA WaitingIsNotExecuted ==
    ASSUME Inv, ExactlyOnce
    PROVE  Range(executed) \cap Range(mEvents) = {}
<1> DEFINE queue == events \o mEvents
           all == executed \o queue
<1>1. executed \in Seq(Events) /\ mEvents \in Seq(Events) /\ queue \in Seq(Events)
  BY DEF Inv, TypeOK
<1>2. \A i, j \in DOMAIN all : all[i] = all[j] => i = j
  BY DEF ExactlyOnce, Exec!ExactlyOnce, Exec!IsInjective
<1>3. Range(queue) = Range(events) \cup Range(mEvents)
  BY BatchThenEvents DEF Inv, TypeOK
<1> SUFFICES ASSUME NEW i \in DOMAIN executed, NEW j \in DOMAIN queue,
                    executed[i] = queue[j]
             PROVE  FALSE
  BY <1>3 DEF Range
<1> HIDE DEF queue
<1>4. /\ i \in DOMAIN all /\ all[i] = executed[i]
      /\ Len(executed) + j \in DOMAIN all /\ all[Len(executed) + j] = queue[j]
  BY <1>1
<1>5. i # Len(executed) + j
  BY <1>1
<1> QED BY <1>2, <1>4, <1>5

\* A stopped loop outside its round executes nothing of its queue any more,
\* whatever the program posts, sends or calls execute() for.
THEOREM StoppedLoopKeepsItsQueue == Spec => StoppedForGood
<1> DEFINE Good ==
      mStopped /\ phase \in {"idle", "top"} =>
          /\ mStopped' /\ phase' \in {"idle", "top"}
          /\ Range(mEvents) \subseteq Range(mEvents')
          /\ Range(executed') \cap Range(mEvents) = {}
<1>1. Inv /\ ExactlyOnce /\ [Next]_vars => [Good]_vars
  <2> SUFFICES ASSUME Inv, ExactlyOnce, Next, mStopped, phase \in {"idle", "top"}
               PROVE  Good
    OBVIOUS
  <2>1. /\ mStopped' /\ phase' \in {"idle", "top"}
        /\ \/ \E e \in Events : mEvents' = Append(mEvents, e) /\ executed' = executed
           \/ \E e \in Events : mEvents' = mEvents /\ executed' = Append(executed, e) /\ Fresh(e)
           \/ mEvents' = mEvents /\ executed' = executed
    BY DEF Next, LoopStep, Post, LoopPost, LoopSend, Exit, StoreStatus, Write,
           Execute, CheckStopped, Take, RunEvent, EndCallback, Prepare,
           WaitWakeup, WaitFails, EndIo, Drain, Collect, EndTimers,
           WaitStaleEdge, WaitOther, InProgram, loopVars, queueVars, exitVars,
           loopUnchanged
  <2>2. Range(executed) \cap Range(mEvents) = {}
    BY WaitingIsNotExecuted
  <2>3. mEvents \in Seq(Events) /\ executed \in Seq(Events)
    BY DEF Inv, TypeOK
  <2>4. ASSUME NEW e \in Events, NEW s \in Seq(Events)
        PROVE  Range(Append(s, e)) = Range(s) \cup {e}
    <3>1. \A i \in DOMAIN s : i \in DOMAIN Append(s, e) /\ Append(s, e)[i] = s[i]
      OBVIOUS
    <3>2. Len(s) + 1 \in DOMAIN Append(s, e) /\ Append(s, e)[Len(s) + 1] = e
      OBVIOUS
    <3>3. \A i \in DOMAIN Append(s, e) : i \in DOMAIN s \/ i = Len(s) + 1
      OBVIOUS
    <3> QED BY <3>1, <3>2, <3>3 DEF Range
  <2>5. CASE \E e \in Events : mEvents' = Append(mEvents, e) /\ executed' = executed
    BY <2>1, <2>2, <2>3, <2>4, <2>5
  <2>6. CASE \E e \in Events : mEvents' = mEvents /\ executed' = Append(executed, e) /\ Fresh(e)
    BY <2>1, <2>2, <2>3, <2>4, <2>6 DEF Fresh
  <2>7. CASE mEvents' = mEvents /\ executed' = executed
    BY <2>1, <2>2, <2>7
  <2> QED BY <2>1, <2>5, <2>6, <2>7
<1> QED BY <1>1, Invariance, EventsRunOnce, PTL DEF Spec, StoppedForGood

=============================================================================
