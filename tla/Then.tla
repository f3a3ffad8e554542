-------------------------------- MODULE Then --------------------------------
(***************************************************************************)
(* then::Then (include/then/Then.h): a pipeline p.then(f1).then(f2)...     *)
(* .fail(g) built by the loop's thread, whose head is resolved or rejected *)
(* by a worker thread or by the loop's thread, at any moment of the        *)
(* construction or after it.                                               *)
(*                                                                         *)
(* Every call of then() makes a new Then, the chain, and hands the callback*)
(* and the rejection on to it.  A stage may return a Then of its own, the  *)
(* inner one, whose outcome becomes the chain's.                           *)
(*                                                                         *)
(* The loop is used as Executor.tla specifies it: post() appends to a FIFO *)
(* queue, send() on the loop's thread executes at once, inside the caller. *)
(* Values and error texts are not told apart.                              *)
(***************************************************************************)
EXTENDS Integers, Sequences

CONSTANT Stages     \* the kinds of the stages f1, f2, ...

ASSUME StagesAssumption ==
    Stages \in Seq({"value", "maybe", "then"}) /\ Stages # <<>>

\* The Thens: the head is 1 and the chain of stage k is k + 1; N is the one
\* fail() is called on.  Stage k may return Inner(k); Orphan(k) is the chain
\* that the call of then() on Inner(k) makes and nobody gets to see.
S == Len(Stages)
N == S + 1
Inner(k) == N + k
Orphan(k) == N + S + k
Nodes == 1..(N + 2 * S)
Sources == {1} \cup {Inner(k) : k \in {k \in 1..S : Stages[k] = "then"}}

VARIABLES
    node,       \* the Thens
    stack,      \* the calls the loop's thread is inside, innermost first
    queue,      \* events posted to the loop
    sending,    \* per source: closure its worker has taken and is about to send
    settled,    \* per source: what the program has done with it
    runs,       \* history: how often each stage's function was called
    failRuns,   \* history: how often the function given to fail() was called
    offLoop     \* history: some handler was executed by a worker

vars == <<node, stack, queue, sending, settled, runs, failRuns, offLoop>>
histVars == <<runs, failRuns, offLoop>>

\* A call or a closure: op and the number of the stage or of the Then.
Call(op, at) == [op |-> op, at |-> at]
Nothing == Call("nothing", 1)
Calls == [op : {"build", "stage", "innerFail", "innerThen", "innerNext",
                "resolve", "reject", "failed"}, at : Nodes]
Handlers == Calls \cup {Nothing}

TypeOK ==
    /\ node \in [Nodes -> [mNext : Handlers, mFail : Handlers, mArg : BOOLEAN,
                           mFailed : BOOLEAN, mLoop : BOOLEAN]]
    /\ stack \in Seq(Calls) /\ queue \in Seq(Calls)
    /\ sending \in [Sources -> Handlers]
    /\ settled \in [Sources -> {"no", "resolve", "reject"}]
    /\ runs \in [1..S -> Nat] /\ failRuns \in Nat
    /\ offLoop \in BOOLEAN

\* The event that builds the pipeline is running.
Init ==
    /\ node = [n \in Nodes |-> [mNext |-> Nothing, mFail |-> Nothing, mArg |-> FALSE,
                                mFailed |-> FALSE, mLoop |-> FALSE]]
    /\ stack = <<Call("build", 1)>>
    /\ queue = <<>>
    /\ sending = [n \in Sources |-> Nothing]
    /\ settled = [n \in Sources |-> "no"]
    /\ runs = [k \in 1..S |-> 0] /\ failRuns = 0
    /\ offLoop = FALSE

-----------------------------------------------------------------------------
(* Locked sections of Then: the new state of Then n, and what is posted *)

If(condition, call) == IF condition THEN <<call>> ELSE <<>>

\* Mutated ThenState: the loop is not remembered.
ThenStateNoLoop(n, next, fail) ==
    [n EXCEPT !.mNext = IF n.mArg THEN Nothing ELSE next,
              !.mFail = IF n.mFailed THEN Nothing ELSE fail]

\* then(): mNext and mFail are set; what has been stored before is posted at
\* once and its closure moved away.
ThenState(n, next, fail) ==
    [n EXCEPT !.mNext = IF n.mArg THEN Nothing ELSE next,
              !.mFail = IF n.mFailed THEN Nothing ELSE fail,
              !.mLoop = (@ \/ ~n.mArg)]

\* Mutated ThenPosts: a failure that was there first is not looked at.
ThenPostsLate(n, next, fail) == If(n.mArg, next)

ThenPosts(n, next, fail) == If(n.mFailed, fail) \o If(n.mArg, next)

\* fail(): mFail is set, or posted if the failure is there.
FailState(n, fail) ==
    [n EXCEPT !.mFail = IF n.mFailed THEN Nothing ELSE fail,
              !.mLoop = (@ \/ ~n.mFailed)]

\* Mutated FailPosts: the same.
FailPostsLate(n, fail) == <<>>

FailPosts(n, fail) == If(n.mFailed, fail)

\* resolve() and reject(): take the handler, or store the outcome.
ResolveState(n) ==
    IF n.mNext = Nothing THEN [n EXCEPT !.mArg = TRUE] ELSE [n EXCEPT !.mNext = Nothing]
RejectState(n) ==
    IF n.mFail = Nothing THEN [n EXCEPT !.mFailed = TRUE] ELSE [n EXCEPT !.mFail = Nothing]

Settled(n, how) == IF how = "resolve" THEN ResolveState(n) ELSE RejectState(n)
Handler(n, how) == IF how = "resolve" THEN n.mNext ELSE n.mFail

-----------------------------------------------------------------------------
(* The workers: each source has a thread that may settle it *)

\* resolve() or reject() of a source, up to the unlock.  Each source is
\* settled once.
WorkerSettles(n, how) ==
    /\ settled[n] = "no"
    /\ settled' = [settled EXCEPT ![n] = how]
    /\ node' = [node EXCEPT ![n] = Settled(@, how)]
    /\ sending' = [sending EXCEPT ![n] = Handler(node[n], how)]
    /\ offLoop' = (offLoop \/ (Handler(node[n], how) # Nothing /\ ~node[n].mLoop))
    /\ UNCHANGED <<stack, queue, runs, failRuns>>

\* loop->send on a worker's thread.
WorkerSends(n) ==
    /\ sending[n] # Nothing
    /\ queue' = Append(queue, sending[n])
    /\ sending' = [sending EXCEPT ![n] = Nothing]
    /\ UNCHANGED <<node, stack, settled, histVars>>

-----------------------------------------------------------------------------
(* The loop's thread *)

\* The call that is to be executed next, and the calls it is inside.
Top == Head(stack)
Enter(calls) == stack' = calls \o Tail(stack)
At(op) == stack # <<>> /\ Top.op = op

\* The next event.
RunNext ==
    /\ stack = <<>> /\ queue # <<>>
    /\ stack' = <<Head(queue)>>
    /\ queue' = Tail(queue)
    /\ UNCHANGED <<node, sending, settled, histVars>>

\* Another event of the loop resolves or rejects a source.
LoopSettles(n, how) ==
    /\ stack = <<>>
    /\ settled[n] = "no"
    /\ settled' = [settled EXCEPT ![n] = how]
    /\ stack' = <<Call(how, n)>>
    /\ UNCHANGED <<node, queue, sending, histVars>>

\* then() on the head or on the chain before, the handler of stage k inside.
BuildThen ==
    /\ At("build") /\ Top.at <= S
    /\ LET k == Top.at
           next == Call("stage", k)
           fail == Call("reject", k + 1)
       IN  /\ node' = [node EXCEPT ![k] = ThenState(@, next, fail)]
           /\ queue' = queue \o ThenPosts(node[k], next, fail)
           /\ Enter(<<Call("build", k + 1)>>)
    /\ UNCHANGED <<sending, settled, histVars>>

\* fail() on the last chain.
BuildFail ==
    /\ At("build") /\ Top.at = N
    /\ node' = [node EXCEPT ![N] = FailState(@, Call("failed", N))]
    /\ queue' = queue \o FailPosts(node[N], Call("failed", N))
    /\ Enter(<<>>)
    /\ UNCHANGED <<sending, settled, histVars>>

\* mNext of a stage whose function returns a value, or nothing, and of one that
\* returns a MaybeFail, which decides between resolve and reject.
StageReturns ==
    /\ At("stage")
    /\ Stages[Top.at] # "then"
    /\ \/ Enter(<<Call("resolve", Top.at + 1)>>)
       \/ Stages[Top.at] = "maybe" /\ Enter(<<Call("reject", Top.at + 1)>>)
    /\ runs' = [runs EXCEPT ![Top.at] = @ + 1]
    /\ UNCHANGED <<node, queue, sending, settled, failRuns, offLoop>>

\* mNext of a stage whose function returns a Then: newchain.fail(...) and then
\* newchain.then(...), each with its own lock.
StageReturnsThen ==
    /\ At("stage")
    /\ Stages[Top.at] = "then"
    /\ Enter(<<Call("innerFail", Top.at), Call("innerThen", Top.at)>>)
    /\ runs' = [runs EXCEPT ![Top.at] = @ + 1]
    /\ UNCHANGED <<node, queue, sending, settled, failRuns, offLoop>>

InnerFail ==
    /\ At("innerFail")
    /\ LET n == Inner(Top.at)
           fail == Call("reject", Top.at + 1)
       IN  /\ node' = [node EXCEPT ![n] = FailState(@, fail)]
           /\ queue' = queue \o FailPosts(node[n], fail)
    /\ Enter(<<>>)
    /\ UNCHANGED <<sending, settled, histVars>>

\* The then() of the inner Then has a chain of its own, and replaces the
\* handler that fail() has just set by one that rejects this chain.
InnerThen ==
    /\ At("innerThen")
    /\ LET n == Inner(Top.at)
           next == Call("innerNext", Top.at)
           fail == Call("reject", Orphan(Top.at))
       IN  /\ node' = [node EXCEPT ![n] = ThenState(@, next, fail)]
           /\ queue' = queue \o ThenPosts(node[n], next, fail)
    /\ Enter(<<>>)
    /\ UNCHANGED <<sending, settled, histVars>>

\* mNext of the inner Then: its function resolves the stage's chain, and being
\* done resolves the chain nobody sees.
InnerNext ==
    /\ At("innerNext")
    /\ Enter(<<Call("resolve", Top.at + 1), Call("resolve", Orphan(Top.at))>>)
    /\ UNCHANGED <<node, queue, sending, settled, histVars>>

\* resolve() and reject() on the loop's thread: send() executes the handler
\* inside the call.
LoopCalls(how) ==
    /\ At(how)
    /\ LET n == node[Top.at]
       IN  Enter(If(Handler(n, how) # Nothing, Handler(n, how)))
    /\ node' = [node EXCEPT ![Top.at] = Settled(@, how)]
    /\ UNCHANGED <<queue, sending, settled, histVars>>

\* The function given to fail().
Failed ==
    /\ At("failed")
    /\ failRuns' = failRuns + 1
    /\ Enter(<<>>)
    /\ UNCHANGED <<node, queue, sending, settled, runs, offLoop>>

LoopStep ==
    \/ RunNext \/ BuildThen \/ BuildFail \/ StageReturns \/ StageReturnsThen
    \/ InnerFail \/ InnerThen \/ InnerNext \/ LoopCalls("resolve") \/ LoopCalls("reject") \/ Failed

Next ==
    \/ \E n \in Sources, how \in {"resolve", "reject"} :
          WorkerSettles(n, how) \/ LoopSettles(n, how)
    \/ \E n \in Sources : WorkerSends(n)
    \/ LoopStep

Spec == Init /\ [][Next]_vars

\* The loop and the workers run; nothing obliges the program to settle a source.
LiveSpec == Spec /\ WF_vars(LoopStep) /\ \A n \in Sources : WF_vars(WorkerSends(n))

-----------------------------------------------------------------------------
(* Properties *)

\* Whenever the outcome comes, before, while or after the pipeline is built,
\* and whichever thread brings it: no function runs twice, a stage runs only
\* after the one before, and fail()'s function does not run when the last
\* stage has delivered.
RunsOnce ==
    /\ \A k \in 1..S : runs[k] <= 1 /\ (k > 1 => runs[k] <= runs[k - 1])
    /\ failRuns <= 1
    /\ node[N].mArg => failRuns = 0

\* Every function runs on the loop's thread: a Then that has a handler to give
\* to a worker knows its loop, although mLoop is set in some branches only.
HandlersOnLoop == ~offLoop

\* What holds of the nodes of a pipeline and of the functions run so far.
Orderly == TypeOK /\ RunsOnce /\ HandlersOnLoop

\* The failure of an inner Then ended in the chain nobody sees.
Swallowed == \E k \in 1..S : node[Orphan(k)].mFailed

\* The pipeline waits for an inner Then the program has not settled.
Waiting == \E k \in 1..S : Inner(k) \in Sources /\ runs[k] = 1 /\ settled[Inner(k)] = "no"

\* Once the head is settled the pipeline comes to its end: the last chain is
\* resolved or fail()'s function runs.  The exception: an inner Then rejected
\* after then() has replaced the handler that fail() had set on it.
Delivered ==
    settled[1] # "no" ~> node[N].mArg \/ failRuns = 1 \/ Waiting \/ Swallowed

\* An inner failure that came before the stage asked for it is not swallowed:
\* fail() posts it before then() takes the handler away.
EarlyFailureIsHeard ==
    \A k \in 1..S :
        Inner(k) \in Sources =>
            (node[Inner(k)].mFailed /\ runs[k] = 1 ~> failRuns = 1)

=============================================================================
