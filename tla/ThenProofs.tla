----------------------------- MODULE ThenProofs -----------------------------
(***************************************************************************)
(* Proofs about Then for pipelines of any length and any kinds of stages.  *)
(*                                                                         *)
(* The argument follows the outcome: once the head is settled there is     *)
(* one, and it is in one place only.  A call carries it (OneCarrier), or a *)
(* node that is not built yet stores it (Path), or the pipeline waits for  *)
(* an inner Then (Waits); and the nodes it has reached are a prefix of the *)
(* pipeline (Path).  Nobody runs twice because nothing is reached twice.   *)
(***************************************************************************)
EXTENDS Then, SequenceTheorems, TLAPS

-----------------------------------------------------------------------------
(* The inductive invariant *)

\* The stages whose function returns a Then.
Thens == {k \in 1..S : Stages[k] = "then"}

\* Whether then(), or fail(), has been called on a Then of the pipeline.
Built(n) == \A i \in 1..Len(stack) : stack[i].op = "build" => stack[i].at > n

\* The outcome has come to Then n: it is stored there, or has taken a handler
\* away.  It comes to Then 1 from the program.
Reached(n) ==
    IF n = 0 THEN settled[1] # "no"
    ELSE \/ node[n].mArg \/ node[n].mFailed
         \/ Built(n) /\ (node[n].mFail = Nothing \/ (n # N /\ node[n].mNext = Nothing))

\* The calls that carry the outcome of the pipeline, and the Then it left last.
Carries(c) ==
    \/ c.op \in {"stage", "innerFail", "innerNext", "failed"}
    \/ c.op \in {"resolve", "reject"} /\ c.at <= N
From(c) == IF c.op \in {"resolve", "reject"} THEN c.at - 1 ELSE c.at

\* The handlers of a Then are those its then() or fail() has set.
Hooks ==
    /\ \A k \in 1..S :
          /\ node[k].mNext \in {Nothing, Call("stage", k)}
          /\ node[k].mFail \in {Nothing, Call("reject", k + 1)}
          /\ node[Inner(k)].mNext \in {Nothing, Call("innerNext", k)}
          /\ node[Inner(k)].mFail \in {Nothing, Call("reject", k + 1), Call("reject", Orphan(k))}
          /\ node[Orphan(k)].mNext = Nothing /\ node[Orphan(k)].mFail = Nothing
    /\ \A k \in (1..S) \ Thens : node[Inner(k)].mNext = Nothing /\ node[Inner(k)].mFail = Nothing
    /\ node[N].mNext = Nothing
    /\ node[N].mFail \in {Nothing, Call("failed", N)}
    /\ \A n \in 1..N : ~Built(n) => node[n].mNext = Nothing /\ node[n].mFail = Nothing
    /\ \A i \in 1..Len(stack) :
          stack[i].op = "innerThen" => node[Inner(stack[i].at)].mNext = Nothing

\* What is called on the loop's thread, and from inside what.
Shape ==
    /\ \A i \in 1..Len(stack) :
          /\ stack[i].op = "build" => Len(stack) = 1 /\ stack[i].at <= N
          /\ stack[i].op \in {"resolve", "reject"} /\ stack[i].at \in Sources =>
                Len(stack) = 1 /\ settled[stack[i].at] = stack[i].op
          /\ stack[i].op = "innerFail" =>
                i = 1 /\ Len(stack) > 1 /\ stack[2] = Call("innerThen", stack[i].at)
          /\ stack[i].op = "innerThen" =>
                i = 1 \/ (i = 2 /\ stack[1] = Call("innerFail", stack[i].at))
          /\ stack[i].op \in {"innerFail", "innerThen", "innerNext"} => stack[i].at \in Thens
          /\ i > 1 => stack[i].op = "innerThen" \/ (stack[i].op = "resolve" /\ stack[i].at > N + S)

\* What is posted to the loop, or about to be.
Posted ==
    /\ \A i \in 1..Len(queue) :
          /\ queue[i].op \in {"stage", "innerNext", "reject", "failed"}
          /\ queue[i].op = "reject" => queue[i].at \notin Sources
          /\ queue[i].op = "innerNext" => queue[i].at \in Thens
    /\ \A n \in Sources :
          /\ sending[n].op \in {"nothing", "stage", "innerNext", "reject", "failed"}
          /\ sending[n].op = "reject" => sending[n].at \notin Sources
          /\ sending[n].op = "innerNext" => sending[n].at \in Thens

\* A source that can still be settled: the program has not done it, or the call
\* is about to be executed.
Open(n) ==
    \/ settled[n] = "no"
    \/ \E i \in 1..Len(stack) : stack[i].op \in {"resolve", "reject"} /\ stack[i].at = n

\* A source is settled one way, and its loop is known while it can be settled.
Settlement ==
    \A n \in Sources :
        /\ Open(n) => ~node[n].mArg /\ ~node[n].mFailed
        /\ node[n].mArg => settled[n] = "resolve"
        /\ node[n].mFailed => settled[n] = "reject"
        /\ settled[n] = "no" => sending[n] = Nothing
        /\ settled[n] = "no" /\ (node[n].mNext # Nothing \/ node[n].mFail # Nothing) => node[n].mLoop

\* No call carries the outcome, or one.
NoCarrier ==
    /\ \A i \in 1..Len(stack) : ~Carries(stack[i])
    /\ \A i \in 1..Len(queue) : ~Carries(queue[i])
    /\ \A n \in Sources : ~Carries(sending[n])
OneCarrier ==
    /\ \A i, j \in 1..Len(queue) : Carries(queue[i]) /\ Carries(queue[j]) => i = j
    /\ \A m, n \in Sources : Carries(sending[m]) /\ Carries(sending[n]) => m = n
    /\ \A i \in 1..Len(stack), j \in 1..Len(queue) : ~(Carries(stack[i]) /\ Carries(queue[j]))
    /\ \A i \in 1..Len(stack), n \in Sources : ~(Carries(stack[i]) /\ Carries(sending[n]))
    /\ \A j \in 1..Len(queue), n \in Sources : ~(Carries(queue[j]) /\ Carries(sending[n]))

\* What is true of a call that waits for its turn or for the end of another.
Sound(c) ==
    /\ Carries(c) =>
          /\ From(c) \in 0..N /\ Reached(From(c))
          /\ From(c) < N => ~Reached(From(c) + 1)
    /\ c.op = "stage" =>
          c.at <= S /\ Built(c.at) /\ runs[c.at] = 0 /\ (c.at > 1 => runs[c.at - 1] = 1)
    /\ c.op \in {"innerFail", "innerThen", "innerNext"} => runs[c.at] = 1
    /\ c.op = "resolve" /\ c.at \in 2..N => runs[c.at - 1] = 1
    /\ c.op = "failed" => c.at = N /\ failRuns = 0 /\ Built(N) /\ ~node[N].mArg
Calling ==
    /\ \A i \in 1..Len(stack) : Sound(stack[i])
    /\ \A i \in 1..Len(queue) : Sound(queue[i])
    /\ \A n \in Sources : Sound(sending[n])

\* The Thens that are reached are a prefix of the pipeline; one that is not built
\* yet keeps what has come to it.
Path ==
    /\ \A m, n \in 0..N : m < n /\ Reached(n) => Reached(m)
    /\ \A n \in 1..N : Reached(n) /\ ~Built(n) => NoCarrier /\ (n < N => ~Reached(n + 1))
    /\ ~Reached(0) => NoCarrier
    /\ \A n \in 1..N : ~(node[n].mArg /\ node[n].mFailed)

\* The pipeline waits for an inner Then that is open and has handlers, or whose
\* second handler is about to be set.
Awaits(k) ==
    \/ Open(Inner(k)) /\ (node[Inner(k)].mNext # Nothing \/ node[Inner(k)].mFail # Nothing)
    \/ stack # <<>> /\ stack[1] = Call("innerThen", k) /\ settled[Inner(k)] # "reject"
Waits ==
    \A k \in Thens :
        Awaits(k) => NoCarrier /\ Reached(k) /\ ~Reached(k + 1) /\ runs[k] = 1

\* What has run.
Ran ==
    /\ \A k \in 1..S : runs[k] <= 1 /\ (k > 1 => runs[k] <= runs[k - 1])
    /\ \A k \in 1..S : ~Reached(k) \/ ~Built(k) => runs[k] = 0
    /\ \A k \in Thens :
          runs[k] = 0 => node[Inner(k)].mNext = Nothing /\ node[Inner(k)].mFail = Nothing
    /\ \A n \in 2..N : node[n].mArg => runs[n - 1] = 1
    /\ failRuns <= 1
    /\ ~Reached(N) \/ ~Built(N) \/ node[N].mArg => failRuns = 0

IInv ==
    /\ TypeOK /\ HandlersOnLoop /\ Hooks /\ Shape /\ Posted /\ Settlement
    /\ OneCarrier /\ Calling /\ Path /\ Waits /\ Ran

-----------------------------------------------------------------------------
(* What the proofs need to know of numbers, sequences and records *)

\* The nodes of the pipeline, the inner ones and the orphans are distinct.
LEMMA Numbers ==
    /\ S \in Nat /\ S >= 1 /\ N = S + 1 /\ N \in Nat
    /\ \A k \in 1..S : Inner(k) = N + k /\ Orphan(k) = N + S + k
    /\ Nodes = 1..(N + 2 * S)
    /\ Thens \subseteq 1..S
    /\ Sources = {1} \cup {Inner(k) : k \in Thens}
    /\ \A n \in Sources : n = 1 \/ (n > N /\ n <= N + S)
    /\ Sources \subseteq Nodes
<1>1. S \in Nat /\ S >= 1
  BY StagesAssumption DEF S
<1>2. N = S + 1 /\ N \in Nat
  BY <1>1 DEF N
<1>3. Thens \subseteq 1..S /\ Sources = {1} \cup {Inner(k) : k \in Thens}
  BY DEF Thens, Sources
<1>4. ASSUME NEW n \in Sources PROVE n = 1 \/ (n > N /\ n <= N + S)
  BY <1>1, <1>2, <1>3 DEF Inner
<1> QED BY <1>1, <1>2, <1>3, <1>4 DEF Inner, Orphan, Nodes

LEMMA Inners ==
    ASSUME NEW j \in Thens, NEW k \in Thens
    PROVE  Inner(j) \in Sources /\ Inner(j) \in Nodes /\ (j # k => Inner(j) # Inner(k))
<1>1. j \in 1..S /\ k \in 1..S
  BY Numbers
<1>2. Inner(j) = N + j /\ Inner(k) = N + k /\ N \in Nat
  BY <1>1, Numbers
<1>3. Inner(j) \in Sources /\ Inner(j) \in Nodes
  BY Numbers
<1> QED BY <1>1, <1>2, <1>3

\* The calls that replace the innermost one.
LEMMA Entered ==
    ASSUME stack \in Seq(Calls), stack # <<>>, NEW calls \in Seq(Calls),
           stack' = calls \o Tail(stack)
    PROVE  /\ stack' \in Seq(Calls)
           /\ Len(stack') = Len(calls) + Len(stack) - 1
           /\ \A i \in 1..Len(calls) : stack'[i] = calls[i]
           /\ \A i \in 1..Len(stack') : i > Len(calls) =>
                 /\ i - Len(calls) + 1 \in 2..Len(stack)
                 /\ stack'[i] = stack[i - Len(calls) + 1]
<1>1. Tail(stack) \in Seq(Calls) /\ Len(Tail(stack)) = Len(stack) - 1 /\ Len(stack) \in Nat /\ Len(calls) \in Nat
  OBVIOUS
<1>2. \A i \in 1..Len(stack) - 1 : Tail(stack)[i] = stack[i + 1]
  OBVIOUS
<1> QED BY <1>1, <1>2, ConcatProperties

\* resolve() and reject() take the handler or store the outcome.
LEMMA SettledFields ==
    ASSUME TypeOK, NEW n \in Nodes, NEW how \in {"resolve", "reject"}
    PROVE  LET r == Settled(node[n], how)
           IN  /\ r \in [mNext : Handlers, mFail : Handlers, mArg : BOOLEAN,
                         mFailed : BOOLEAN, mLoop : BOOLEAN]
               /\ r.mLoop = node[n].mLoop
               /\ how = "resolve" =>
                     /\ r.mNext = Nothing /\ r.mFail = node[n].mFail /\ r.mFailed = node[n].mFailed
                     /\ r.mArg <=> node[n].mArg \/ node[n].mNext = Nothing
               /\ how = "reject" =>
                     /\ r.mFail = Nothing /\ r.mNext = node[n].mNext /\ r.mArg = node[n].mArg
                     /\ r.mFailed <=> node[n].mFailed \/ node[n].mFail = Nothing
<1>1. node[n] \in [mNext : Handlers, mFail : Handlers, mArg : BOOLEAN, mFailed : BOOLEAN, mLoop : BOOLEAN]
  BY DEF TypeOK
<1>2. Nothing \in Handlers
  BY DEF Handlers
<1> QED BY <1>1, <1>2 DEF Settled, ResolveState, RejectState

\* Two places where the outcome can be are the same.
LEMMA OnePlace ==
    ASSUME Path, NEW m \in 0..N, NEW n \in 0..N, Reached(m), Reached(n),
           m < N => ~Reached(m + 1), n < N => ~Reached(n + 1)
    PROVE  m = n
BY Numbers DEF Path

LEMMA InitInv == Init => IInv
<1> SUFFICES ASSUME Init PROVE IInv
  OBVIOUS
<1> USE Numbers DEF Init
<1>1. Nothing \in Handlers /\ Call("build", 1) \in Calls
  BY DEF Handlers, Call, Calls
<1>2. TypeOK
  <2>1. stack \in Seq(Calls) /\ queue \in Seq(Calls)
    BY <1>1
  <2>2. node \in [Nodes -> [mNext : Handlers, mFail : Handlers, mArg : BOOLEAN,
                            mFailed : BOOLEAN, mLoop : BOOLEAN]]
    BY <1>1
  <2> QED BY <1>1, <2>1, <2>2 DEF TypeOK
<1>3. /\ Len(stack) = 1 /\ stack[1] = Call("build", 1) /\ Len(queue) = 0
      /\ \A n \in 1..N : ~Built(n)
  BY DEF Built, Call
<1>4. \A n \in 0..N : ~Reached(n)
  BY <1>3 DEF Reached
<1>5. NoCarrier
  BY <1>3 DEF NoCarrier, Carries, Call, Nothing
<1>6. Hooks
  BY <1>3 DEF Hooks, Call
<1>7. Shape /\ Posted /\ Settlement
  BY <1>3 DEF Shape, Posted, Settlement, Call, Nothing, Open
<1>8. OneCarrier /\ Calling
  BY SMTT(20), <1>3, <1>5 DEF OneCarrier, NoCarrier, Calling, Sound, Carries, Call, Nothing
<1>9. Path /\ Waits /\ Ran
  BY <1>3, <1>4, <1>5 DEF Path, Waits, Awaits, Open, Ran, Call
<1> QED BY <1>2, <1>6, <1>7, <1>8, <1>9 DEF IInv, HandlersOnLoop

\* What a step does not touch stays reached, and what is true of a call stays true.
LEMMA SameReached ==
    ASSUME \A n \in 1..N : node'[n] = node[n] /\ Built(n)' = Built(n), settled'[1] = settled[1]
    PROVE  \A n \in 0..N : Reached(n)' = Reached(n)
<1>1. Reached(0)' = Reached(0)
  BY DEF Reached
<1>2. ASSUME NEW n \in 1..N PROVE Reached(n)' = Reached(n)
  BY <1>2 DEF Reached
<1> QED BY <1>1, <1>2, Numbers

LEMMA SameSound ==
    ASSUME \A n \in 0..N : Reached(n)' = Reached(n),
           \A n \in 1..N : Built(n) => Built(n)', node'[N].mArg = node[N].mArg,
           UNCHANGED <<runs, failRuns>>,
           NEW c, c \in Calls \/ c = Nothing, Sound(c)
    PROVE  Sound(c)'
<1> USE Numbers
<1>1. ASSUME Carries(c)
      PROVE  From(c) \in 0..N /\ Reached(From(c))' /\ (From(c) < N => ~Reached(From(c) + 1)')
  <2>1. From(c) \in 0..N /\ Reached(From(c)) /\ (From(c) < N => ~Reached(From(c) + 1))
    BY <1>1 DEF Sound
  <2>2. From(c) < N => From(c) + 1 \in 0..N
    BY <2>1
  <2> QED BY <2>1, <2>2
<1>2. /\ c.op = "stage" => c.at \in 1..N
      /\ Sound(c)
  BY DEF Sound, Calls, Nodes, Call, Nothing
<1> QED BY <1>1, <1>2 DEF Sound

LEMMA SameRan ==
    ASSUME Ran, \A n \in 0..N : Reached(n)' = Reached(n),
           \A n \in 1..N : node'[n].mArg = node[n].mArg /\ (Built(n) => Built(n)'),
           \A k \in Thens : /\ runs[k] = 0
                            /\ node[Inner(k)].mNext = Nothing /\ node[Inner(k)].mFail = Nothing
                            => node'[Inner(k)].mNext = Nothing /\ node'[Inner(k)].mFail = Nothing,
           UNCHANGED <<runs, failRuns>>
    PROVE  Ran'
<1>1. N \in 1..N /\ 1..S \subseteq 1..N /\ 2..N \subseteq 1..N /\ Thens \subseteq 1..S
      /\ 1..N \subseteq 0..N
  BY Numbers
<1> QED BY <1>1 DEF Ran

LEMMA SamePath ==
    ASSUME Path, \A n \in 0..N : Reached(n)' = Reached(n),
           \A n \in 1..N : node'[n] = node[n] /\ Built(n)' = Built(n),
           NoCarrier => NoCarrier'
    PROVE  Path'
<1>1. /\ 1..N \subseteq 0..N /\ 0 \in 0..N
      /\ \A n \in 1..N : n < N => n + 1 \in 0..N
  BY Numbers
<1> QED BY <1>1 DEF Path

\* The outcome is with the innermost call, or it is somewhere else.
LEMMA Inside ==
    ASSUME IInv, stack # <<>>
    PROVE  /\ Len(stack) \in Nat /\ Len(stack) >= 1 /\ stack[1] = Top /\ stack[1] \in Calls
           /\ \A i \in 2..Len(stack) : stack[i] \in Calls /\ ~Carries(stack[i]) /\ stack[i].op # "build"
           /\ Carries(stack[1]) =>
                 /\ \A i \in 1..Len(queue) : ~Carries(queue[i])
                 /\ \A n \in Sources : ~Carries(sending[n])
<1>1. stack \in Seq(Calls) /\ Len(stack) \in Nat /\ Len(stack) >= 1 /\ stack[1] = Top /\ stack[1] \in Calls
  BY DEF IInv, TypeOK, Top
<1>2. ASSUME NEW i \in 2..Len(stack)
      PROVE  stack[i] \in Calls /\ ~Carries(stack[i]) /\ stack[i].op # "build"
  <2>1. i \in 1..Len(stack) /\ i > 1
    BY <1>1
  <2>2. stack[i] \in Calls
    BY <1>1, <2>1
  <2>3. stack[i].op = "innerThen" \/ (stack[i].op = "resolve" /\ stack[i].at > N + S)
    BY <2>1 DEF IInv, Shape, Posted
  <2> QED BY <2>2, <2>3, Numbers DEF Carries, Calls, Nodes
<1>3. 1 \in 1..Len(stack)
  BY <1>1
<1> QED BY <1>1, <1>2, <1>3 DEF IInv, OneCarrier

\* The calls that wait for their turn, and the innermost one.
All == {stack[i] : i \in 1..Len(stack)} \cup {queue[i] : i \in 1..Len(queue)} \cup {sending[n] : n \in Sources}

LEMMA AllOf ==
    ASSUME TypeOK
    PROVE  /\ All \subseteq Calls \cup {Nothing}
           /\ Calling => \A c \in All : Sound(c)
           /\ NoCarrier => \A c \in All : ~Carries(c)
<1>1. All \subseteq Calls \cup {Nothing}
  BY DEF TypeOK, All, Handlers
<1>2. Calling => \A c \in All : Sound(c)
  BY DEF Calling, All
<1>3. NoCarrier => \A c \in All : ~Carries(c)
  BY DEF NoCarrier, All
<1> QED BY <1>1, <1>2, <1>3

LEMMA AllCalling == (\A c \in All' : Sound(c)') => Calling'
<1> SUFFICES ASSUME \A c \in All' : Sound(c)' PROVE Calling'
  OBVIOUS
<1>1. /\ \A i \in 1..Len(stack') : stack'[i] \in All'
      /\ \A i \in 1..Len(queue') : queue'[i] \in All'
      /\ \A n \in Sources : sending'[n] \in All'
  BY DEF All
<1> QED BY <1>1 DEF Calling

LEMMA NoneCarries == (\A c \in All' : ~Carries(c)) => NoCarrier'
<1> SUFFICES ASSUME \A c \in All' : ~Carries(c) PROVE NoCarrier'
  OBVIOUS
<1>1. /\ \A i \in 1..Len(stack') : stack'[i] \in All'
      /\ \A i \in 1..Len(queue') : queue'[i] \in All'
      /\ \A n \in Sources : sending'[n] \in All'
  BY DEF All
<1> QED BY <1>1 DEF NoCarrier

\* The calls other than the innermost one.
Others ==
    {stack[i] : i \in 2..Len(stack)} \cup {queue[i] : i \in 1..Len(queue)} \cup {sending[n] : n \in Sources}

\* While the innermost call carries the outcome, nothing can be wrong with them.
LEMMA OthersSound ==
    ASSUME IInv, stack # <<>>, Carries(stack[1]), \A k \in 1..S : runs[k] = 1 => runs'[k] = 1,
           NEW c \in Others
    PROVE  ~Carries(c) /\ Sound(c)'
<1>1. ~Carries(c) /\ Sound(c) /\ (c.op = "innerThen" => c.at \in 1..S)
  <2>1. ASSUME NEW i \in 2..Len(stack), c = stack[i]
        PROVE  ~Carries(c) /\ Sound(c) /\ (c.op = "innerThen" => c.at \in 1..S)
    <3>1. i \in 1..Len(stack) /\ ~Carries(c)
      BY <2>1, Inside
    <3> QED BY <2>1, <3>1, Numbers DEF IInv, Shape, Calling
  <2>2. ASSUME NEW i \in 1..Len(queue), c = queue[i]
        PROVE  ~Carries(c) /\ Sound(c) /\ (c.op = "innerThen" => c.at \in 1..S)
    BY <2>2, Inside DEF IInv, Posted, Calling
  <2>3. ASSUME NEW n \in Sources, c = sending[n]
        PROVE  ~Carries(c) /\ Sound(c) /\ (c.op = "innerThen" => c.at \in 1..S)
    BY <2>3, Inside DEF IInv, Posted, Calling
  <2> QED BY <2>1, <2>2, <2>3 DEF Others
<1>2. c.op = "resolve" /\ c.at \in 2..N => Carries(c)
  BY Numbers DEF Carries
<1> QED BY <1>1, <1>2 DEF Sound, Carries

\* No Then waits to be built while a handler runs, or no event at all.
LEMMA AllBuilt ==
    ASSUME IInv, stack = <<>> \/ stack[1].op # "build" PROVE \A n \in 0..N : Built(n)
<1>1. CASE stack = <<>>
  BY <1>1 DEF Built
<1>2. CASE stack # <<>>
  BY <1>2, Inside DEF Built
<1> QED BY <1>1, <1>2

-----------------------------------------------------------------------------
(* The workers *)

\* What a source's handlers can be.
LEMMA SourceHooks ==
    ASSUME TypeOK, Hooks, NEW n \in Sources, NEW how \in {"resolve", "reject"}
    PROVE  LET h == Handler(node[n], how)
           IN  \/ h = Nothing
               \/ n = 1 /\ h \in {Call("stage", 1), Call("reject", 2)}
               \/ \E k \in Thens : /\ n = Inner(k)
                                   /\ \/ h \in {Call("innerNext", k), Call("reject", k + 1)}
                                      \/ h = Call("reject", Orphan(k))
<1>1. CASE n = 1
  <2>1. 1 \in 1..S
    BY Numbers
  <2> QED BY <1>1, <2>1 DEF Hooks, Handler
<1>2. CASE n # 1
  <2>1. PICK k \in Thens : n = Inner(k)
    BY <1>2, Numbers
  <2>2. k \in 1..S
    BY Numbers
  <2> QED BY <2>1, <2>2 DEF Hooks, Handler
<1> QED BY <1>1, <1>2

LEMMA WorkerSettlesInv ==
    ASSUME IInv, NEW n \in Sources, NEW how \in {"resolve", "reject"}, WorkerSettles(n, how)
    PROVE  IInv'
<1> USE Numbers DEF IInv
<1> DEFINE r == Settled(node[n], how)
<1>1. PICK h : h = Handler(node[n], how)
  OBVIOUS
<1>2. /\ n \in Nodes /\ settled[n] = "no" /\ settled' = [settled EXCEPT ![n] = how]
      /\ node' = [node EXCEPT ![n] = r]
      /\ sending' = [sending EXCEPT ![n] = h]
      /\ UNCHANGED <<stack, queue, runs, failRuns>>
      /\ \A m \in Nodes : m # n => node'[m] = node[m]
      /\ node'[n] = r /\ settled'[n] = how /\ sending'[n] = h /\ sending[n] = Nothing
      /\ \A m \in Sources : m # n => settled'[m] = settled[m] /\ sending'[m] = sending[m]
  BY <1>1 DEF WorkerSettles, TypeOK, Settlement
<1>3. /\ r \in [mNext : Handlers, mFail : Handlers, mArg : BOOLEAN, mFailed : BOOLEAN, mLoop : BOOLEAN]
      /\ r.mLoop = node[n].mLoop
      /\ how = "resolve" =>
            /\ r.mNext = Nothing /\ r.mFail = node[n].mFail /\ r.mFailed = node[n].mFailed
            /\ r.mArg <=> h = Nothing
      /\ how = "reject" =>
            /\ r.mFail = Nothing /\ r.mNext = node[n].mNext /\ r.mArg = node[n].mArg
            /\ r.mFailed <=> h = Nothing
      /\ ~node[n].mArg /\ ~node[n].mFailed
  BY <1>1, <1>2, SettledFields DEF Handler, Settlement, Open
<1> HIDE DEF r
<1>4. h \in Handlers
  BY <1>1, <1>2 DEF Handler, TypeOK
<1>5. \/ h = Nothing
      \/ n = 1 /\ h \in {Call("stage", 1), Call("reject", 2)}
      \/ \E k \in Thens : /\ n = Inner(k)
                          /\ \/ h \in {Call("innerNext", k), Call("reject", k + 1)}
                             \/ h = Call("reject", Orphan(k))
  BY <1>1, SourceHooks
<1>6. TypeOK' /\ HandlersOnLoop'
  <2>1. h # Nothing => node[n].mLoop
    BY <1>1, <1>2 DEF Settlement, Handler
  <2>2. node' \in [Nodes -> [mNext : Handlers, mFail : Handlers, mArg : BOOLEAN,
                            mFailed : BOOLEAN, mLoop : BOOLEAN]]
    BY <1>2, <1>3 DEF TypeOK
  <2>3. sending' \in [Sources -> Handlers] /\ settled' \in [Sources -> {"no", "resolve", "reject"}]
    BY <1>2, <1>4 DEF TypeOK
  <2>4. offLoop' = (offLoop \/ (h # Nothing /\ ~node[n].mLoop))
    BY <1>1 DEF WorkerSettles
  <2>5. offLoop' = FALSE
    BY <2>1, <2>4 DEF HandlersOnLoop, TypeOK
  <2> QED BY <1>2, <2>2, <2>3, <2>5 DEF TypeOK, HandlersOnLoop
<1>7. \A m \in 0..N : Built(m)' = Built(m)
  BY <1>2 DEF Built
<1>8. Hooks'
  BY <1>2, <1>3, <1>7 DEF Hooks
<1>9. Shape' /\ Posted'
  <2>1. /\ h.op \in {"nothing", "stage", "innerNext", "reject", "failed"}
        /\ h.op = "reject" => h.at \notin Sources
        /\ h.op = "innerNext" => h.at \in Thens
    <3>1. CASE h = Nothing
      BY <3>1 DEF Call, Nothing
    <3>2. CASE n = 1 /\ h \in {Call("stage", 1), Call("reject", 2)}
      <4>1. 2 \notin Sources
        OBVIOUS
      <4> QED BY <3>2, <4>1 DEF Call
    <3>3. ASSUME NEW k \in Thens,
                 \/ h \in {Call("innerNext", k), Call("reject", k + 1)}
                 \/ h = Call("reject", Orphan(k))
          PROVE  /\ h.op \in {"nothing", "stage", "innerNext", "reject", "failed"}
                 /\ h.op = "reject" => h.at \notin Sources
                 /\ h.op = "innerNext" => h.at \in Thens
      <4>1. k + 1 \notin Sources /\ Orphan(k) \notin Sources
        OBVIOUS
      <4> QED BY <3>3, <4>1 DEF Call
    <3> QED BY <1>5, <3>1, <3>2, <3>3
  <2>2. Shape'
    BY SMTT(20), <1>2 DEF Shape
  <2>3. Posted'
    <3>1. UNCHANGED queue
      BY <1>2
    <3>2. \A m \in Sources : sending'[m] = sending[m] \/ sending'[m] = h
      BY <1>2
    <3>3. Posted
      OBVIOUS
    <3> QED BY <2>1, <3>1, <3>2, <3>3 DEF Posted
  <2> QED BY <2>2, <2>3
<1>10. Settlement'
  <2>1. ASSUME NEW m \in Sources, m # n
        PROVE  /\ Open(m)' => ~node'[m].mArg /\ ~node'[m].mFailed
               /\ node'[m].mArg => settled'[m] = "resolve"
               /\ node'[m].mFailed => settled'[m] = "reject"
               /\ settled'[m] = "no" => sending'[m] = Nothing
               /\ settled'[m] = "no" /\ (node'[m].mNext # Nothing \/ node'[m].mFail # Nothing) =>
                     node'[m].mLoop
    <3>1. m \in Nodes
      OBVIOUS
    <3>2. node'[m] = node[m] /\ settled'[m] = settled[m] /\ sending'[m] = sending[m] /\ stack' = stack
      BY <1>2, <2>1, <3>1
    <3> QED BY <3>2 DEF Settlement, Open
  <2>2. settled'[n] = how /\ how # "no" /\ node'[n] = r /\ stack' = stack
    BY <1>2
  <2>3. ~Open(n)'
    <3>1. \A i \in 1..Len(stack) : ~(stack[i].op \in {"resolve", "reject"} /\ stack[i].at = n)
      BY <1>2 DEF Shape
    <3> QED BY <2>2, <3>1 DEF Open
  <2>4. /\ node'[n].mArg => how = "resolve"
        /\ node'[n].mFailed => how = "reject"
    BY <1>3, <2>2
  <2> QED BY <2>1, <2>2, <2>3, <2>4 DEF Settlement
<1>11. \A m \in 2..N : Reached(m)' = Reached(m)
  <2>1. ASSUME NEW m \in 2..N PROVE m \in Nodes /\ m # n
    <3>1. m > 1 /\ m <= N /\ m \in Nat
      OBVIOUS
    <3>2. n = 1 \/ n > N
      OBVIOUS
    <3>3. m # n
      BY <3>1, <3>2
    <3>4. m \in Nodes
      OBVIOUS
    <3> QED BY <3>3, <3>4
  <2>2. \A m \in 2..N : node'[m] = node[m] /\ Built(m)' = Built(m) /\ m # 0
    BY <1>2, <1>7, <2>1
  <2> QED BY <2>2 DEF Reached
<1>12. \A i \in 1..Len(stack) : ~(stack[i].op \in {"resolve", "reject"} /\ stack[i].at = n)
  <2>1. settled[n] = "no"
    BY <1>2
  <2> QED BY <2>1 DEF Shape
<1>13. CASE n = 1
  <2>1. ~Reached(0) /\ NoCarrier /\ \A m \in 0..N : ~Reached(m)
    <3>1. ~Reached(0)
      BY <1>2, <1>13 DEF Reached
    <3>2. NoCarrier
      BY <3>1 DEF Path
    <3>3. ASSUME NEW m \in 0..N PROVE ~Reached(m)
      <4>1. 0 \in 0..N /\ (m = 0 \/ 0 < m)
        OBVIOUS
      <4> QED BY <3>1, <4>1 DEF Path
    <3> QED BY <3>1, <3>2, <3>3
  <2>3. h # Nothing => Built(1)
    <3>1. 1 \in 1..N
      OBVIOUS
    <3>2. ~Built(1) => node[1].mNext = Nothing /\ node[1].mFail = Nothing
      BY <3>1 DEF Hooks
    <3> QED BY <1>1, <1>13, <3>2 DEF Handler
  <2>2. Reached(0)' /\ Reached(1)'
    <3>1. settled'[1] = how /\ node'[1] = r /\ 1 # N /\ 1 \in 0..N
      BY <1>2, <1>13
    <3>2. CASE h = Nothing
      <4>1. r.mArg \/ r.mFailed
        BY <1>3, <3>2
      <4> QED BY <3>1, <4>1 DEF Reached
    <3>3. CASE h # Nothing
      <4>1. Built(1)'
        BY <1>7, <2>3, <3>1, <3>3
      <4>2. r.mNext = Nothing \/ r.mFail = Nothing
        BY <1>3
      <4> QED BY <3>1, <4>1, <4>2 DEF Reached
    <3> QED BY <3>2, <3>3
  <2>4. OneCarrier'
    <3>1. \A m \in Sources : Carries(sending'[m]) => m = n
      BY <1>2, <2>1 DEF NoCarrier
    <3>2. UNCHANGED <<stack, queue>>
      BY <1>2
    <3> QED BY <2>1, <3>1, <3>2 DEF OneCarrier, NoCarrier
  <2>5. /\ \A i \in 1..Len(stack) : Sound(stack[i])'
        /\ \A i \in 1..Len(queue) : Sound(queue[i])'
        /\ \A m \in Sources \ {1} : Sound(sending[m])'
    <3>1. ASSUME NEW c, Sound(c), ~Carries(c) PROVE Sound(c)'
      BY <1>2, <3>1 DEF Sound, Carries
    <3>2. /\ \A i \in 1..Len(stack) : Sound(stack[i]) /\ ~Carries(stack[i])
          /\ \A i \in 1..Len(queue) : Sound(queue[i]) /\ ~Carries(queue[i])
          /\ \A m \in Sources : Sound(sending[m]) /\ ~Carries(sending[m])
      BY <2>1 DEF Calling, NoCarrier
    <3> QED BY <1>2, <1>13, <3>1, <3>2
  <2>6. Sound(h)'
    <3>1. 1 \in 0..N /\ 1 < N /\ ~Reached(2)'
      BY <1>11, <2>1
    <3>2. CASE h = Nothing
      BY <3>2 DEF Sound, Carries, Call, Nothing
    <3>3. CASE h = Call("stage", 1)
      <4>1. runs'[1] = 0 /\ Built(1)'
        BY <1>2, <1>7, <2>1, <2>3, <3>3 DEF Ran, Call, Nothing
      <4> QED BY <2>2, <3>1, <3>3, <4>1 DEF Sound, Carries, From, Call
    <3>4. CASE h = Call("reject", 2)
      BY <2>2, <3>1, <3>4 DEF Sound, Carries, From, Call
    <3>5. \A k \in Thens : Inner(k) # 1
      OBVIOUS
    <3> QED BY <1>5, <1>13, <3>2, <3>3, <3>4, <3>5
  <2>7. Calling'
    BY <1>2, <1>13, <2>5, <2>6 DEF Calling
  <2>8. h = Nothing => NoCarrier'
    BY <1>2, <1>13, <2>1 DEF NoCarrier, Carries, Nothing, Call
  <2>9. Path'
    <3>1. \A m \in 0..N : Reached(m)' <=> m \in {0, 1}
      <4>1. \A m \in 0..N : m \in {0, 1} \/ m \in 2..N
        OBVIOUS
      <4> QED BY <1>11, <2>1, <2>2, <4>1
    <3>2. ASSUME ~Built(1)' PROVE NoCarrier'
      <4>1. Built(1)' = Built(1)
        BY <1>7
      <4> QED BY <2>3, <2>8, <3>2, <4>1
    <3>3. \A m \in 1..N : m \in Nodes /\ m # 0
      OBVIOUS
    <3>4. ASSUME NEW m \in 1..N PROVE ~(node'[m].mArg /\ node'[m].mFailed)
      <4>1. CASE m = 1
        BY <1>2, <1>3, <1>13, <4>1
      <4>2. CASE m # 1
        BY <1>2, <1>13, <3>3, <4>2 DEF Path
      <4> QED BY <4>1, <4>2
    <3>5. 0 \in 0..N /\ 1 \in 0..N /\ \A m \in 1..N : m < N => m + 1 \in 0..N /\ m + 1 \notin {0, 1}
      OBVIOUS
    <3>6. 1..N \subseteq 0..N /\ \A m \in 1..N : Reached(m)' => m = 1
      BY <3>1
    <3>7. \A m \in 1..N : Reached(m)' /\ ~Built(m)' => NoCarrier' /\ (m < N => ~Reached(m + 1)')
      BY <3>1, <3>2, <3>5, <3>6
    <3>8. \A l, m \in 0..N : l < m /\ Reached(m)' => Reached(l)'
      BY <3>1
    <3> QED BY <2>2, <3>4, <3>7, <3>8 DEF Path
  <2>10. Waits'
    <3>1. ASSUME NEW k \in Thens, Awaits(k)' PROVE FALSE
      <4>1. Inner(k) \in Sources /\ Inner(k) # n /\ Inner(k) \in Nodes
        BY <1>13
      <4>2. Awaits(k)
        BY <1>2, <3>1, <4>1 DEF Awaits, Open
      <4>3. Reached(k) /\ k \in 0..N
        BY <4>2 DEF Waits
      <4> QED BY <2>1, <4>3
    <3> QED BY <3>1 DEF Waits
  <2>11. Ran'
    BY <1>2, <1>7, <1>11, <1>13, <2>1, <2>2 DEF Ran
  <2> QED BY <1>6, <1>8, <1>9, <1>10, <2>4, <2>7, <2>9, <2>10, <2>11
<1>14. CASE n # 1
  <2>1. PICK k \in Thens : n = Inner(k)
    BY <1>14
  <2>2. k \in 1..S /\ n > N /\ \A j \in Thens : Inner(j) = n => j = k
    BY <2>1
  <2>3. \A m \in 0..N : Reached(m)' = Reached(m)
    <3>1. 1 \in Nodes /\ 1 # n /\ 1 \in Sources /\ 1 \in 0..N
      BY <2>2
    <3>2. node'[1] = node[1] /\ settled'[1] = settled[1] /\ Built(1)' = Built(1)
      BY <1>2, <1>7, <3>1
    <3>3. Reached(1)' = Reached(1) /\ Reached(0)' = Reached(0)
      BY <3>2 DEF Reached
    <3>4. \A m \in 0..N : m = 0 \/ m = 1 \/ m \in 2..N
      OBVIOUS
    <3> QED BY <1>11, <3>3, <3>4
  <2>4. ASSUME NEW c, Sound(c) PROVE Sound(c)'
    BY SMTT(20), <1>2, <1>7, <2>2, <2>3, <2>4 DEF Sound, Carries, From
  <2>7. Ran'
    <3>1. \A m \in 1..N : m \in Nodes /\ node'[m] = node[m] /\ Reached(m)' = Reached(m) /\ Built(m)' = Built(m)
      <4>1. \A m \in 1..N : m \in Nodes /\ m # n /\ m \in 0..N
        BY <2>2
      <4>2. \A m \in 1..N : node'[m] = node[m]
        BY <1>2, <4>1
      <4> QED BY <1>7, <2>3, <4>1, <4>2
    <3>2. \A j \in Thens : runs[j] = 0 => node'[Inner(j)].mNext = Nothing /\ node'[Inner(j)].mFail = Nothing
      <4>1. \A j \in Thens : Inner(j) \in Nodes
        OBVIOUS
      <4>2. \A j \in Thens : runs[j] = 0 => node[Inner(j)].mNext = Nothing /\ node[Inner(j)].mFail = Nothing
        BY DEF Ran
      <4>3. \A m \in Nodes : m # n => node'[m] = node[m]
        BY <1>2
      <4>4. /\ node[n].mNext = Nothing => node'[n].mNext = Nothing
            /\ node[n].mFail = Nothing => node'[n].mFail = Nothing
        BY <1>2, <1>3
      <4> QED BY <1>2, <4>1, <4>2, <4>3, <4>4
    <3>3. N \in 1..N /\ 1..S \subseteq 1..N /\ 2..N \subseteq 1..N
      OBVIOUS
    <3> QED BY <1>2, <3>1, <3>2, <3>3 DEF Ran
  <2>5. CASE ~Carries(h)
    <3>1. OneCarrier'
      <4>1. \A m \in Sources : Carries(sending'[m]) => Carries(sending[m])
        BY <1>2, <2>5
      <4>2. UNCHANGED <<stack, queue>>
        BY <1>2
      <4> QED BY <4>1, <4>2 DEF OneCarrier
    <3>2. NoCarrier => NoCarrier'
      BY <1>2, <2>5 DEF NoCarrier
    <3>3. Sound(h)'
      BY <1>5, <2>1, <2>5 DEF Sound, Carries, Call, Nothing
    <3>4. Calling'
      BY <1>2, <2>4, <3>3 DEF Calling
    <3>5. Path'
      BY <1>2, <1>7, <2>2, <2>3, <3>2 DEF Path
    <3>6. Waits'
      <4>1. ASSUME NEW j \in Thens, Awaits(j)' PROVE Awaits(j)
        BY <1>2, <1>12, <2>1, <2>2, <4>1 DEF Awaits, Open
      <4>2. ASSUME NEW j \in Thens, Awaits(j)'
            PROVE  NoCarrier' /\ Reached(j)' /\ ~Reached(j + 1)' /\ runs'[j] = 1
        <5>1. j \in 0..N /\ j + 1 \in 0..N
          OBVIOUS
        <5> QED BY <1>2, <2>3, <3>2, <4>1, <4>2, <5>1 DEF Waits
      <4> QED BY <4>2 DEF Waits
    <3>7. Ran'
      BY <2>7
    <3> QED BY <1>6, <1>8, <1>9, <1>10, <3>1, <3>4, <3>5, <3>6, <3>7
  <2>6. CASE Carries(h)
    <3>1. h \in {Call("innerNext", k), Call("reject", k + 1)}
      BY <1>5, <2>1, <2>2, <2>6 DEF Carries, Call, Nothing
    <3>2. Awaits(k) /\ (how = "resolve" => h = Call("innerNext", k))
      BY <1>1, <1>2, <2>1, <2>2, <3>1 DEF Awaits, Open, Handler, Hooks, Call, Nothing
    <3>3. NoCarrier /\ Reached(k) /\ ~Reached(k + 1) /\ runs[k] = 1
      BY <3>2 DEF Waits
    <3>4. OneCarrier'
      <4>1. \A m \in Sources : Carries(sending'[m]) => m = n
        BY <1>2, <3>3 DEF NoCarrier
      <4>2. UNCHANGED <<stack, queue>>
        BY <1>2
      <4> QED BY <3>3, <4>1, <4>2 DEF OneCarrier, NoCarrier
    <3>5. k \in 0..N /\ k + 1 \in 0..N /\ k < N
      BY <2>2
    <3>6. Sound(h)'
      <4>1. Reached(k)' /\ ~Reached(k + 1)' /\ runs'[k] = 1
        BY <1>2, <2>3, <3>3, <3>5
      <4>2. h.op \in {"innerNext", "reject"} /\ From(h) = k /\ (h.op = "innerNext" => h.at = k)
        BY <2>2, <3>1 DEF From, Call
      <4> QED BY <3>5, <4>1, <4>2 DEF Sound
    <3>7. Calling'
      BY <1>2, <2>4, <3>6 DEF Calling
    <3>8. Path'
      <4>1. Reached(0)
        BY <3>3, <3>5, <2>2 DEF Path
      <4>2. ASSUME NEW m \in 1..N, Reached(m), ~Built(m) PROVE FALSE
        <5>1. m < N => ~Reached(m + 1)
          BY <4>2 DEF Path
        <5>2. m = k
          BY <3>3, <3>5, <4>2, <5>1, OnePlace
        <5> QED BY <2>2, <3>3, <4>2, <5>2 DEF Ran
      <4>3. \A m \in 1..N : ~(node'[m].mArg /\ node'[m].mFailed)
        BY <1>2, <2>2 DEF Path
      <4> QED BY <1>7, <2>3, <4>1, <4>2, <4>3 DEF Path
    <3>9. Waits'
      <4>1. ASSUME NEW j \in Thens, Awaits(j)' PROVE FALSE
        <5>1. j # k
          <6>1. CASE how = "reject"
            BY <1>2, <1>12, <2>1, <4>1, <6>1 DEF Awaits, Open
          <6>2. CASE how = "resolve"
            <7>1. node[n].mNext # Nothing
              BY <1>1, <3>1, <6>2 DEF Handler, Call, Nothing
            <7>2. ~(stack # <<>> /\ stack[1] = Call("innerThen", k))
              <8>1. ASSUME stack # <<>>, stack[1] = Call("innerThen", k) PROVE FALSE
                <9>1. 1 \in 1..Len(stack) /\ stack[1].op = "innerThen" /\ stack[1].at = k
                  BY <8>1 DEF TypeOK, Call
                <9> QED BY <2>1, <7>1, <9>1 DEF Hooks
              <8> QED BY <8>1
            <7> QED BY <1>2, <1>12, <2>1, <4>1, <6>2, <7>2 DEF Awaits, Open
          <6> QED BY <6>1, <6>2
        <5>2. Awaits(j)
          BY <1>2, <2>1, <2>2, <4>1, <5>1 DEF Awaits, Open
        <5>3. Reached(j) /\ ~Reached(j + 1)
          BY <5>2 DEF Waits
        <5>4. j \in 0..N
          OBVIOUS
        <5> QED BY <3>3, <3>5, <5>1, <5>3, <5>4, OnePlace
      <4> QED BY <4>1 DEF Waits
    <3> QED BY <1>6, <1>8, <1>9, <1>10, <2>7, <3>4, <3>7, <3>8, <3>9
  <2> QED BY <2>5, <2>6
<1> QED BY <1>13, <1>14

LEMMA WorkerSendsInv ==
    ASSUME IInv, NEW n \in Sources, WorkerSends(n)
    PROVE  IInv'
<1> USE Numbers DEF IInv
<1>1. PICK c : c = sending[n]
  OBVIOUS
<1>2. /\ c \in Calls /\ c # Nothing /\ queue \in Seq(Calls)
      /\ queue' = Append(queue, c)
      /\ sending' = [sending EXCEPT ![n] = Nothing]
      /\ UNCHANGED <<node, stack, settled, runs, failRuns, offLoop>>
  BY <1>1 DEF WorkerSends, TypeOK, Handlers, histVars
<1>3. /\ Len(queue') = Len(queue) + 1 /\ Len(queue) \in Nat
      /\ \A i \in 1..Len(queue) : queue'[i] = queue[i]
      /\ queue'[Len(queue) + 1] = c
      /\ \A i \in 1..Len(queue') : i \in 1..Len(queue) \/ i = Len(queue) + 1
  BY <1>2
<1>4. /\ sending'[n] = Nothing
      /\ \A m \in Sources : m # n => sending'[m] = sending[m]
  BY <1>2 DEF TypeOK
<1>5. TypeOK' /\ HandlersOnLoop'
  <2>1. queue' \in Seq(Calls) /\ sending' \in [Sources -> Handlers]
    BY <1>2 DEF TypeOK, Handlers
  <2> QED BY <1>2, <2>1 DEF TypeOK, HandlersOnLoop
<1>6. \A m \in 0..N : Built(m)' = Built(m)
  BY <1>2 DEF Built
<1>7. \A m \in 0..N : Reached(m)' = Reached(m)
  BY <1>2, <1>6, SameReached
<1>8. Hooks'
  <2>1. UNCHANGED <<node, stack>> /\ 1..N \subseteq 0..N
    BY <1>2
  <2> QED BY <1>6, <2>1 DEF Hooks
<1>9. Shape' /\ Posted'
  <2>1. /\ c.op \in {"stage", "innerNext", "reject", "failed"}
        /\ c.op = "reject" => c.at \notin Sources
        /\ c.op = "innerNext" => c.at \in Thens
    BY <1>1, <1>2 DEF Shape, Posted, Calls, Call, Nothing
  <2>2. UNCHANGED <<stack, settled>>
    BY <1>2
  <2>3. \A i \in 1..Len(queue') :
           /\ queue'[i].op \in {"stage", "innerNext", "reject", "failed"}
           /\ queue'[i].op = "reject" => queue'[i].at \notin Sources
           /\ queue'[i].op = "innerNext" => queue'[i].at \in Thens
    BY <1>3, <2>1 DEF Shape, Posted
  <2>4. \A m \in Sources :
           /\ sending'[m].op \in {"nothing", "stage", "innerNext", "reject", "failed"}
           /\ sending'[m].op = "reject" => sending'[m].at \notin Sources
           /\ sending'[m].op = "innerNext" => sending'[m].at \in Thens
    <3>1. sending'[n].op = "nothing"
      BY <1>4 DEF Nothing, Call
    <3>2. ASSUME NEW m \in Sources, m # n
          PROVE  /\ sending'[m].op \in {"nothing", "stage", "innerNext", "reject", "failed"}
                 /\ sending'[m].op = "reject" => sending'[m].at \notin Sources
                 /\ sending'[m].op = "innerNext" => sending'[m].at \in Thens
      <4>1. sending'[m] = sending[m]
        BY <1>4, <3>2
      <4> QED BY <4>1 DEF Shape, Posted
    <3> QED BY <3>1, <3>2
  <2> QED BY <2>2, <2>3, <2>4 DEF Shape, Posted
<1>10. Settlement'
  BY <1>2, <1>4 DEF Settlement, Open
<1>11. ~Carries(Nothing)
  BY DEF Carries, Nothing, Call
<1>12. /\ \A i \in 1..Len(queue') : Carries(queue'[i]) =>
             (i \in 1..Len(queue) /\ Carries(queue[i])) \/ (i = Len(queue) + 1 /\ Carries(sending[n]))
       /\ \A m \in Sources : Carries(sending'[m]) => m # n /\ Carries(sending[m])
  <2>1. ASSUME NEW i \in 1..Len(queue'), Carries(queue'[i])
        PROVE  (i \in 1..Len(queue) /\ Carries(queue[i])) \/ (i = Len(queue) + 1 /\ Carries(sending[n]))
    <3>1. CASE i = Len(queue) + 1
      BY <1>1, <1>3, <2>1, <3>1
    <3>2. CASE i \in 1..Len(queue)
      <4>1. queue'[i] = queue[i]
        BY <1>3, <3>2
      <4> QED BY <2>1, <3>2, <4>1 DEF Carries
    <3> QED BY <1>3, <3>1, <3>2
  <2>2. ASSUME NEW m \in Sources, Carries(sending'[m]) PROVE m # n /\ Carries(sending[m])
    <3>1. m # n
      BY <1>4, <1>11, <2>2
    <3>2. sending'[m] = sending[m]
      BY <1>4, <3>1
    <3> QED BY <2>2, <3>1, <3>2
  <2> QED BY <2>1, <2>2
<1>13. OneCarrier'
  <2>1. UNCHANGED stack
    BY <1>2
  <2> QED BY <1>3, <1>12, <2>1 DEF OneCarrier
<1>14. NoCarrier => NoCarrier'
  BY <1>2, <1>12 DEF NoCarrier
<1>15. Calling'
  <2>1. ASSUME NEW d, d \in Calls \/ d = Nothing, Sound(d) PROVE Sound(d)'
    BY SMTT(20), <1>2, <1>6, <1>7, <2>1, SameSound
  <2>2. /\ \A i \in 1..Len(stack) : stack[i] \in Calls
        /\ \A i \in 1..Len(queue) : queue[i] \in Calls
        /\ \A m \in Sources : sending[m] \in Calls \/ sending[m] = Nothing
    BY DEF TypeOK, Handlers
  <2>3. Sound(Nothing)'
    BY <1>11 DEF Sound, Nothing, Call
  <2>4. ASSUME NEW i \in 1..Len(stack') PROVE Sound(stack[i])'
    <3>1. stack' = stack /\ stack[i] \in Calls /\ Sound(stack[i])
      BY <1>2, <2>2 DEF Calling
    <3> QED BY <2>1, <3>1
  <2>5. ASSUME NEW i \in 1..Len(queue') PROVE Sound(queue[i])'
    <3>1. queue'[i] \in Calls /\ Sound(queue'[i])
      BY <1>1, <1>2, <1>3, <2>2 DEF Calling
    <3> QED BY <2>1, <3>1
  <2>6. ASSUME NEW m \in Sources PROVE Sound(sending[m])'
    <3>1. CASE m = n
      BY <1>4, <2>3, <3>1
    <3>2. CASE m # n
      <4>1. sending'[m] = sending[m] /\ Sound(sending[m])
        BY <1>4, <3>2 DEF Calling
      <4> QED BY <2>1, <2>2, <4>1
    <3> QED BY <3>1, <3>2
  <2> QED BY <2>4, <2>5, <2>6 DEF Calling
<1>16. Path'
  BY <1>2, <1>6, <1>7, <1>14, SamePath
<1>17. Waits'
  <2>1. ASSUME NEW k \in Thens, Awaits(k)'
        PROVE  NoCarrier' /\ Reached(k)' /\ ~Reached(k + 1)' /\ runs'[k] = 1
    <3>1. Awaits(k)
      BY <1>2, <2>1 DEF Awaits, Open
    <3>2. k \in 0..N /\ k + 1 \in 0..N
      OBVIOUS
    <3> QED BY <1>2, <1>7, <1>14, <3>1, <3>2 DEF Waits
  <2> QED BY <2>1 DEF Waits
<1>18. Ran'
  <2>1. UNCHANGED <<node, runs, failRuns>> /\ Ran
    BY <1>2
  <2>2. \A m \in 1..N : m \in 0..N
    OBVIOUS
  <2>3. \A m \in 1..N : node'[m].mArg = node[m].mArg /\ (Built(m) => Built(m)')
    BY <1>6, <2>1, <2>2
  <2> QED BY <1>7, <2>1, <2>3, SameRan
<1> QED BY <1>5, <1>8, <1>9, <1>10, <1>13, <1>15, <1>16, <1>17, <1>18

-----------------------------------------------------------------------------
(* The loop's thread *)

LEMMA RunNextInv == IInv /\ RunNext => IInv'
<1> SUFFICES ASSUME IInv, RunNext PROVE IInv'
  OBVIOUS
<1> USE Numbers DEF IInv
<1>1. PICK c : c = Head(queue)
  OBVIOUS
<1>2. /\ queue \in Seq(Calls) /\ queue # <<>> /\ c \in Calls /\ stack = <<>>
      /\ stack' = <<c>> /\ queue' = Tail(queue)
      /\ UNCHANGED <<node, sending, settled, runs, failRuns, offLoop>>
  BY <1>1 DEF RunNext, TypeOK, histVars
<1>3. /\ Len(queue) \in Nat /\ Len(queue) >= 1 /\ c = queue[1] /\ 1 \in 1..Len(queue)
      /\ queue' \in Seq(Calls) /\ Len(queue') = Len(queue) - 1
      /\ \A i \in 1..Len(queue') : i + 1 \in 1..Len(queue) /\ i + 1 # 1 /\ queue'[i] = queue[i + 1]
  BY <1>1, <1>2
<1>4. /\ Len(stack') = 1 /\ stack'[1] = c /\ stack' \in Seq(Calls)
      /\ \A i \in 1..Len(stack') : i = 1
  BY <1>2
<1>5. /\ c.op \in {"stage", "innerNext", "reject", "failed"}
      /\ c.op = "reject" => c.at \notin Sources
      /\ c.op = "innerNext" => c.at \in Thens
  BY <1>3 DEF Posted
<1>6. TypeOK' /\ HandlersOnLoop'
  BY <1>2, <1>3, <1>4 DEF TypeOK, HandlersOnLoop
<1>7. \A m \in 0..N : Built(m) /\ Built(m)' /\ Built(m)' = Built(m)
  BY <1>2, <1>4, <1>5 DEF Built
<1>8. \A m \in 0..N : Reached(m)' = Reached(m)
  BY <1>2, <1>7, SameReached
<1>9. Hooks'
  <2>1. UNCHANGED node /\ 1..N \subseteq 0..N /\ \A i \in 1..Len(stack') : stack'[i].op # "innerThen"
    BY <1>2, <1>4, <1>5
  <2> QED BY <1>7, <2>1 DEF Hooks
<1>10. Shape'
  <2>1. \A i \in 1..Len(stack') : i = 1 /\ stack'[i] = c
    BY <1>4
  <2> QED BY <1>4, <1>5, <2>1 DEF Shape
<1>11. Posted'
  <2>1. UNCHANGED sending
    BY <1>2
  <2> QED BY <1>3, <2>1 DEF Posted
<1>12. Settlement'
  <2>1. ASSUME NEW n \in Sources, Open(n)' PROVE Open(n)
    BY <1>2, <1>4, <1>5, <2>1 DEF Open
  <2> QED BY <1>2, <2>1 DEF Settlement
<1>13. /\ \A i \in 1..Len(stack') : Carries(stack'[i]) => i = 1 /\ Carries(queue[1])
       /\ \A i \in 1..Len(queue') : Carries(queue'[i]) => Carries(queue[i + 1])
       /\ \A m \in Sources : Carries(sending'[m]) => Carries(sending[m])
  <2>1. ASSUME NEW i \in 1..Len(stack'), Carries(stack'[i]) PROVE i = 1 /\ Carries(queue[1])
    <3>1. i = 1 /\ stack'[i] = queue[1]
      BY <1>3, <1>4
    <3> QED BY <2>1, <3>1 DEF Carries
  <2>2. ASSUME NEW i \in 1..Len(queue'), Carries(queue'[i]) PROVE Carries(queue[i + 1])
    BY <1>3, <2>2 DEF Carries
  <2>3. ASSUME NEW m \in Sources, Carries(sending'[m]) PROVE Carries(sending[m])
    BY <1>2, <2>3 DEF Carries
  <2> QED BY <2>1, <2>2, <2>3
<1>14. OneCarrier'
  <2>1. ASSUME NEW i \in 1..Len(queue'), NEW j \in 1..Len(queue'), Carries(queue'[i]), Carries(queue'[j])
        PROVE  i = j
    <3>1. i + 1 = j + 1
      BY <1>3, <1>13, <2>1 DEF OneCarrier
    <3> QED BY <3>1
  <2>2. ASSUME NEW i \in 1..Len(stack'), NEW j \in 1..Len(queue'), Carries(stack'[i]), Carries(queue'[j])
        PROVE  FALSE
    BY <1>3, <1>13, <2>2 DEF OneCarrier
  <2>3. ASSUME NEW i \in 1..Len(stack'), NEW m \in Sources, Carries(stack'[i]), Carries(sending'[m])
        PROVE  FALSE
    BY <1>3, <1>13, <2>3 DEF OneCarrier
  <2>4. ASSUME NEW j \in 1..Len(queue'), NEW m \in Sources, Carries(queue'[j]), Carries(sending'[m])
        PROVE  FALSE
    BY <1>3, <1>13, <2>4 DEF OneCarrier
  <2>5. \A l, m \in Sources : Carries(sending'[l]) /\ Carries(sending'[m]) => l = m
    BY <1>13 DEF OneCarrier
  <2> QED BY <2>1, <2>2, <2>3, <2>4, <2>5 DEF OneCarrier
<1>15. NoCarrier => NoCarrier'
  BY <1>3, <1>13 DEF NoCarrier
<1>16. Calling'
  <2>1. All' \subseteq All
    BY <1>2, <1>3, <1>4 DEF All
  <2>2. ASSUME NEW d \in All' PROVE Sound(d)'
    <3>1. (d \in Calls \/ d = Nothing) /\ Sound(d)
      BY <2>1, <2>2, AllOf
    <3> QED BY <1>2, <1>7, <1>8, <3>1, SameSound
  <2> QED BY <2>2, AllCalling
<1>17. Path'
  BY <1>2, <1>7, <1>8, <1>15, SamePath
<1>18. Waits'
  <2>1. ASSUME NEW k \in Thens, Awaits(k)'
        PROVE  NoCarrier' /\ Reached(k)' /\ ~Reached(k + 1)' /\ runs'[k] = 1
    <3>1. Awaits(k)
      BY <1>2, <1>4, <1>5, <2>1 DEF Awaits, Open, Call
    <3>2. k \in 0..N /\ k + 1 \in 0..N
      OBVIOUS
    <3> QED BY <1>2, <1>8, <1>15, <3>1, <3>2 DEF Waits
  <2> QED BY <2>1 DEF Waits
<1>19. Ran'
  BY <1>2, <1>7, <1>8, SameRan
<1> QED BY <1>6, <1>9, <1>10, <1>11, <1>12, <1>14, <1>16, <1>17, <1>18, <1>19

LEMMA LoopSettlesInv ==
    ASSUME IInv, NEW n \in Sources, NEW how \in {"resolve", "reject"}, LoopSettles(n, how)
    PROVE  IInv'
<1> USE Numbers DEF IInv
<1>1. /\ stack = <<>> /\ settled[n] = "no" /\ stack' = <<Call(how, n)>>
      /\ settled' = [settled EXCEPT ![n] = how] /\ settled'[n] = how
      /\ \A m \in Sources : m # n => settled'[m] = settled[m]
      /\ UNCHANGED <<node, queue, sending, runs, failRuns, offLoop>>
      /\ n \in Nodes /\ 1 \in Sources
  BY DEF LoopSettles, TypeOK, histVars
<1>2. /\ Call(how, n) \in Calls /\ Call(how, n).op = how /\ Call(how, n).at = n
  BY <1>1 DEF Call, Calls
<1>3. /\ Len(stack') = 1 /\ stack'[1] = Call(how, n) /\ stack' \in Seq(Calls)
      /\ \A i \in 1..Len(stack') : i = 1
      /\ 1 \in 1..Len(stack') /\ stack' # <<>> /\ Len(stack) = 0
  BY <1>1, <1>2
<1>4. TypeOK' /\ HandlersOnLoop'
  BY <1>1, <1>3 DEF TypeOK, HandlersOnLoop
<1>5. \A m \in 0..N : Built(m) /\ Built(m)' /\ Built(m)' = Built(m)
  BY <1>2, <1>3 DEF Built
<1>6. \A m \in 1..N : Reached(m)' = Reached(m)
  <2>1. \A m \in 1..N : m # 0 /\ m \in 0..N
    OBVIOUS
  <2> QED BY <1>1, <1>5, <2>1 DEF Reached
<1>7. Hooks'
  <2>1. UNCHANGED node /\ 1..N \subseteq 0..N /\ \A i \in 1..Len(stack') : stack'[i].op # "innerThen"
    BY <1>1, <1>2, <1>3
  <2> QED BY <1>5, <2>1 DEF Hooks
<1>8. Shape'
  <2>1. \A i \in 1..Len(stack') : i = 1 /\ stack'[i].op = how /\ stack'[i].at = n
    BY <1>2, <1>3
  <2> QED BY <1>1, <1>3, <2>1 DEF Shape
<1>9. Posted'
  BY <1>1 DEF Posted
<1>10. \A m \in Sources : Open(m)' => Open(m)
  BY <1>1, <1>2, <1>3 DEF Open
<1>11. Settlement'
  <2>1. /\ \A m \in Sources : settled'[m] = "no" => settled[m] = "no"
        /\ ~node[n].mArg /\ ~node[n].mFailed
    BY <1>1 DEF Settlement, Open
  <2> QED BY <1>1, <1>10, <2>1 DEF Settlement
<1>12. All' \subseteq All \cup {Call(how, n)}
  BY <1>1, <1>3 DEF All
<1>13. CASE n = 1
  <2>1. ~Reached(0) /\ NoCarrier /\ \A m \in 0..N : ~Reached(m)
    <3>1. ~Reached(0) /\ 0 \in 0..N /\ \A m \in 0..N : m = 0 \/ 0 < m
      BY <1>1, <1>13 DEF Reached
    <3> QED BY <3>1 DEF Path
  <2>2. Reached(0)' /\ ~Reached(1)' /\ \A m \in 1..N : ~Reached(m)'
    <3>1. Reached(0)'
      BY <1>1, <1>13 DEF Reached
    <3>2. 1 \in 1..N /\ 1..N \subseteq 0..N
      OBVIOUS
    <3> QED BY <1>6, <2>1, <3>1, <3>2
  <2>3. \A i \in 1..Len(queue') : ~Carries(queue'[i])
    BY <1>1, <2>1 DEF NoCarrier
  <2>4. \A m \in Sources : ~Carries(sending'[m])
    BY <1>1, <2>1 DEF NoCarrier
  <2>5. OneCarrier'
    BY <2>3, <2>4 DEF OneCarrier
  <2>6. Sound(Call(how, n))'
    BY <1>13, <2>2 DEF Sound, Carries, From, Call
  <2>7. Calling'
    <3>1. ASSUME NEW c \in All' PROVE Sound(c)'
      <4>1. c = Call(how, n) \/ (Sound(c) /\ ~Carries(c))
        BY <1>12, <2>1, <3>1, AllOf
      <4> QED BY <1>1, <1>5, <2>6, <4>1 DEF Sound, Carries
    <3> QED BY <3>1, AllCalling
  <2>8. Path'
    <3>1. \A m \in 0..N : m = 0 \/ m \in 1..N
      OBVIOUS
    <3>2. \A m \in 1..N : ~(node'[m].mArg /\ node'[m].mFailed)
      BY <1>1 DEF Path
    <3> QED BY <2>2, <3>1, <3>2 DEF Path
  <2>9. Waits'
    <3>1. ASSUME NEW k \in Thens, Awaits(k)' PROVE FALSE
      <4>1. Inner(k) \in Sources /\ k \in 0..N
        OBVIOUS
      <4>2. Open(Inner(k)) /\ (node[Inner(k)].mNext # Nothing \/ node[Inner(k)].mFail # Nothing)
        BY <1>1, <1>2, <1>3, <1>10, <3>1, <4>1 DEF Awaits, Call
      <4>3. Reached(k)
        BY <4>2 DEF Awaits, Waits
      <4> QED BY <2>1, <4>1, <4>3
    <3> QED BY <3>1 DEF Waits
  <2>10. Ran'
    <3>1. \A m \in 1..N : Reached(m)' = Reached(m)
      BY <1>6
    <3>2. N \in 1..N /\ 1..S \subseteq 1..N
      OBVIOUS
    <3>3. /\ UNCHANGED <<node, runs, failRuns>> /\ N \in 0..N
          /\ \A m \in 1..S : Built(m)' = Built(m) /\ Reached(m)' = Reached(m)
          /\ Built(N)' = Built(N) /\ Reached(N)' = Reached(N)
      BY <1>1, <1>5, <3>1, <3>2
    <3> QED BY <3>3 DEF Ran
  <2> QED BY <1>4, <1>7, <1>8, <1>9, <1>11, <2>5, <2>7, <2>8, <2>9, <2>10
<1>14. CASE n # 1
  <2>1. PICK k \in Thens : n = Inner(k)
    BY <1>14
  <2>2. \A m \in 0..N : Reached(m)' = Reached(m)
    <3>1. Reached(0)' = Reached(0)
      BY <1>1, <1>14 DEF Reached
    <3>2. \A m \in 0..N : m = 0 \/ m \in 1..N
      OBVIOUS
    <3> QED BY <1>6, <3>1, <3>2
  <2>3. ~Carries(Call(how, n)) /\ Sound(Call(how, n))'
    <3>1. k \in 1..S /\ n = N + k
      BY <2>1
    <3>2. n > N /\ n \notin 2..N
      BY <3>1
    <3> QED BY <3>2 DEF Carries, Sound, Call
  <2>4. \A i \in 1..Len(stack') : ~Carries(stack'[i])
    <3>1. \A i \in 1..Len(stack') : stack'[i] = Call(how, n)
      BY <1>3
    <3> QED BY <2>3, <3>1 DEF Carries
  <2>5. OneCarrier'
    <3>1. UNCHANGED <<queue, sending>>
      BY <1>1
    <3> QED BY <2>4, <3>1 DEF OneCarrier
  <2>6. NoCarrier => NoCarrier'
    <3>1. UNCHANGED <<queue, sending>>
      BY <1>1
    <3> QED BY <2>4, <3>1 DEF NoCarrier
  <2>7. Calling'
    <3>1. ASSUME NEW d \in All' PROVE Sound(d)'
      <4>1. d = Call(how, n) \/ ((d \in Calls \/ d = Nothing) /\ Sound(d))
        BY <1>12, <3>1, AllOf
      <4> QED BY <1>1, <1>5, <2>2, <2>3, <4>1, SameSound
    <3> QED BY <3>1, AllCalling
  <2>8. Path'
    BY <1>1, <1>5, <2>2, <2>6, SamePath
  <2>9. Waits'
    <3>1. ASSUME NEW j \in Thens, Awaits(j)'
          PROVE  NoCarrier' /\ Reached(j)' /\ ~Reached(j + 1)' /\ runs'[j] = 1
      <4>1. Inner(j) \in Sources /\ j \in 0..N /\ j + 1 \in 0..N
        OBVIOUS
      <4>2. Open(Inner(j)) /\ (node[Inner(j)].mNext # Nothing \/ node[Inner(j)].mFail # Nothing)
        BY <1>1, <1>2, <1>3, <1>10, <3>1, <4>1 DEF Awaits, Call
      <4>3. NoCarrier /\ Reached(j) /\ ~Reached(j + 1) /\ runs[j] = 1
        BY <4>2 DEF Awaits, Waits
      <4> QED BY <1>1, <2>2, <2>6, <4>1, <4>3
    <3> QED BY <3>1 DEF Waits
  <2>10. Ran'
    BY <1>1, <1>5, <2>2, SameRan
  <2> QED BY <1>4, <1>7, <1>8, <1>9, <1>11, <2>5, <2>7, <2>8, <2>9, <2>10
<1> QED BY <1>13, <1>14

\* What a locked section posts: nothing, or the one handler whose outcome was there.
LEMMA Posts ==
    ASSUME queue \in Seq(Calls), NEW a \in BOOLEAN, NEW b \in BOOLEAN, NEW x \in Calls, NEW y \in Calls,
           ~(a /\ b), queue' = queue \o (If(a, x) \o If(b, y))
    PROVE  /\ ~a /\ ~b => queue' = queue
           /\ a => queue' = Append(queue, x)
           /\ b => queue' = Append(queue, y)
BY DEF If

LEMMA PostsOne ==
    ASSUME queue \in Seq(Calls), NEW a \in BOOLEAN, NEW x \in Calls, queue' = queue \o If(a, x)
    PROVE  /\ ~a => queue' = queue
           /\ a => queue' = Append(queue, x)
BY DEF If

LEMMA Appended ==
    ASSUME queue \in Seq(Calls), NEW c \in Calls, queue' = Append(queue, c)
    PROVE  /\ queue' \in Seq(Calls) /\ Len(queue) \in Nat /\ Len(queue') = Len(queue) + 1
           /\ \A i \in 1..Len(queue') :
                 \/ i \in 1..Len(queue) /\ queue'[i] = queue[i]
                 \/ i = Len(queue) + 1 /\ queue'[i] = c
           /\ {queue'[i] : i \in 1..Len(queue')} \subseteq {queue[i] : i \in 1..Len(queue)} \cup {c}
<1>1. /\ queue' \in Seq(Calls) /\ Len(queue) \in Nat /\ Len(queue') = Len(queue) + 1
      /\ \A i \in 1..Len(queue') :
            \/ i \in 1..Len(queue) /\ queue'[i] = queue[i]
            \/ i = Len(queue) + 1 /\ queue'[i] = c
  OBVIOUS
<1> QED BY <1>1

\* The outcome is posted: there was no carrier, and one is added to the queue.
LEMMA OnePosted ==
    ASSUME TypeOK, NEW c \in Calls, queue' = Append(queue, c), UNCHANGED sending,
           \A i \in 1..Len(queue) : ~Carries(queue[i]), \A n \in Sources : ~Carries(sending[n]),
           \A i \in 1..Len(stack') : ~Carries(stack'[i])
    PROVE  OneCarrier'
<1>1. queue \in Seq(Calls)
  BY DEF TypeOK
<1>2. ASSUME NEW i \in 1..Len(queue'), Carries(queue'[i]) PROVE i = Len(queue) + 1
  <2>1. CASE i \in 1..Len(queue) /\ queue'[i] = queue[i]
    BY <1>2, <2>1 DEF Carries
  <2>2. CASE i = Len(queue) + 1 /\ queue'[i] = c
    BY <2>2
  <2> QED BY <1>1, <2>1, <2>2, Appended
<1> QED BY <1>2 DEF OneCarrier

\* The outcome is not touched, or something else is posted.
LEMMA NoneAdded ==
    ASSUME OneCarrier, UNCHANGED sending, \A i \in 1..Len(stack') : ~Carries(stack'[i]),
           TypeOK, queue' = queue \/ \E c \in Calls : ~Carries(c) /\ queue' = Append(queue, c)
    PROVE  OneCarrier' /\ (NoCarrier => NoCarrier')
<1>1. queue \in Seq(Calls)
  BY DEF TypeOK
<1>2. ASSUME NEW i \in 1..Len(queue'), Carries(queue'[i]) PROVE i \in 1..Len(queue) /\ Carries(queue[i])
  <2>1. CASE queue' = queue
    BY <1>2, <2>1
  <2>2. ASSUME NEW c \in Calls, ~Carries(c), queue' = Append(queue, c)
        PROVE  i \in 1..Len(queue) /\ Carries(queue[i])
    <3>1. CASE i \in 1..Len(queue) /\ queue'[i] = queue[i]
      BY <1>2, <3>1 DEF Carries
    <3>2. CASE i = Len(queue) + 1 /\ queue'[i] = c
      BY <1>2, <2>2, <3>2 DEF Carries
    <3> QED BY <1>1, <2>2, <3>1, <3>2, Appended
  <2> QED BY <2>1, <2>2
<1>3. OneCarrier'
  BY <1>2 DEF OneCarrier
<1>4. NoCarrier => NoCarrier'
  BY <1>2 DEF NoCarrier
<1> QED BY <1>3, <1>4

\* The calls after a call has been replaced by others.
LEMMA Entering ==
    ASSUME IInv, stack # <<>>, NEW calls \in Seq(Calls), Enter(calls)
    PROVE  /\ stack' \in Seq(Calls) /\ Len(stack') = Len(calls) + Len(stack) - 1
           /\ \A i \in 1..Len(calls) : stack'[i] = calls[i]
           /\ \A i \in 1..Len(stack') : i > Len(calls) =>
                 i - Len(calls) + 1 \in 2..Len(stack) /\ stack'[i] = stack[i - Len(calls) + 1]
           /\ {stack'[i] : i \in 1..Len(stack')}
                 \subseteq {calls[i] : i \in 1..Len(calls)} \cup {stack[i] : i \in 2..Len(stack)}
<1>1. /\ stack' \in Seq(Calls) /\ Len(stack') = Len(calls) + Len(stack) - 1
      /\ \A i \in 1..Len(calls) : stack'[i] = calls[i]
      /\ \A i \in 1..Len(stack') : i > Len(calls) =>
            i - Len(calls) + 1 \in 2..Len(stack) /\ stack'[i] = stack[i - Len(calls) + 1]
      /\ Len(calls) \in Nat
  BY Entered DEF IInv, TypeOK, Enter
<1>2. \A i \in 1..Len(stack') : i \in 1..Len(calls) \/ i > Len(calls)
  BY <1>1
<1> QED BY <1>1, <1>2

\* What then() and fail() make of a Then.
LEMMA ThenFields ==
    ASSUME TypeOK, NEW n \in Nodes, NEW next \in Calls, NEW fail \in Calls
    PROVE  LET r == ThenState(node[n], next, fail)
           IN  /\ r \in [mNext : Handlers, mFail : Handlers, mArg : BOOLEAN,
                         mFailed : BOOLEAN, mLoop : BOOLEAN]
               /\ r.mArg = node[n].mArg /\ r.mFailed = node[n].mFailed
               /\ r.mNext = IF node[n].mArg THEN Nothing ELSE next
               /\ r.mFail = IF node[n].mFailed THEN Nothing ELSE fail
               /\ r.mLoop <=> node[n].mLoop \/ ~node[n].mArg
<1>1. node[n] \in [mNext : Handlers, mFail : Handlers, mArg : BOOLEAN, mFailed : BOOLEAN, mLoop : BOOLEAN]
  BY DEF TypeOK
<1>2. Nothing \in Handlers /\ next \in Handlers /\ fail \in Handlers
  BY DEF Handlers
<1> QED BY <1>1, <1>2 DEF ThenState

LEMMA FailFields ==
    ASSUME TypeOK, NEW n \in Nodes, NEW fail \in Calls
    PROVE  LET r == FailState(node[n], fail)
           IN  /\ r \in [mNext : Handlers, mFail : Handlers, mArg : BOOLEAN,
                         mFailed : BOOLEAN, mLoop : BOOLEAN]
               /\ r.mArg = node[n].mArg /\ r.mFailed = node[n].mFailed /\ r.mNext = node[n].mNext
               /\ r.mFail = IF node[n].mFailed THEN Nothing ELSE fail
               /\ r.mLoop <=> node[n].mLoop \/ ~node[n].mFailed
<1>1. node[n] \in [mNext : Handlers, mFail : Handlers, mArg : BOOLEAN, mFailed : BOOLEAN, mLoop : BOOLEAN]
  BY DEF TypeOK
<1>2. Nothing \in Handlers /\ fail \in Handlers
  BY DEF Handlers
<1> QED BY <1>1, <1>2 DEF FailState

LEMMA BuildThenInv == IInv /\ BuildThen => IInv'
<1> SUFFICES ASSUME IInv, BuildThen PROVE IInv'
  OBVIOUS
<1> USE Numbers DEF IInv
<1>1. PICK k : k = Top.at
  OBVIOUS
<1> DEFINE next == Call("stage", k)
           fail == Call("reject", k + 1)
           r == ThenState(node[k], next, fail)
<1>2. /\ stack # <<>> /\ stack[1].op = "build" /\ stack[1].at = k /\ k \in 1..S
      /\ Len(stack) = 1 /\ 1 \in 1..Len(stack) /\ \A i \in 1..Len(stack) : i = 1
  <2>1. stack # <<>> /\ Top.op = "build" /\ k <= S
    BY <1>1 DEF BuildThen, At
  <2>2. stack[1] = Top /\ stack[1] \in Calls /\ Len(stack) \in Nat /\ Len(stack) >= 1
    BY <2>1, Inside
  <2>3. k \in Nodes
    BY <1>1, <2>2 DEF Calls
  <2> QED BY SMTT(20), <1>1, <2>1, <2>2, <2>3 DEF Shape
<1>3. /\ node' = [node EXCEPT ![k] = r]
      /\ queue' = queue \o (If(node[k].mFailed, fail) \o If(node[k].mArg, next))
      /\ Enter(<<Call("build", k + 1)>>)
      /\ UNCHANGED <<sending, settled, runs, failRuns, offLoop>>
  BY <1>1 DEF BuildThen, ThenPosts, histVars
<1>4. /\ k \in Nodes /\ k \in 0..N /\ k + 1 \in 0..N /\ k < N
      /\ next \in Calls /\ fail \in Calls /\ Call("build", k + 1) \in Calls
      /\ ~Carries(Call("build", k + 1)) /\ Call("build", k + 1).op = "build" /\ Call("build", k + 1).at = k + 1
  BY <1>2 DEF Calls, Call, Carries
<1>5. /\ r \in [mNext : Handlers, mFail : Handlers, mArg : BOOLEAN, mFailed : BOOLEAN, mLoop : BOOLEAN]
      /\ r.mArg = node[k].mArg /\ r.mFailed = node[k].mFailed
      /\ r.mNext = IF node[k].mArg THEN Nothing ELSE next
      /\ r.mFail = IF node[k].mFailed THEN Nothing ELSE fail
      /\ r.mLoop <=> node[k].mLoop \/ ~node[k].mArg
      /\ node[k].mArg \in BOOLEAN /\ node[k].mFailed \in BOOLEAN
  <2>1. node[k].mArg \in BOOLEAN /\ node[k].mFailed \in BOOLEAN
    BY <1>4 DEF TypeOK
  <2> QED BY <1>4, <2>1, ThenFields
<1>6. next # Nothing /\ fail # Nothing
  BY DEF Call, Nothing
<1> HIDE DEF r, next, fail
<1>7. /\ node'[k] = r
      /\ \A m \in Nodes : m # k => node'[m] = node[m]
      /\ \A m \in Nodes : node'[m].mArg = node[m].mArg /\ node'[m].mFailed = node[m].mFailed
  BY <1>3, <1>4, <1>5 DEF TypeOK
<1>8. /\ Len(stack') = 1 /\ stack'[1] = Call("build", k + 1) /\ stack' \in Seq(Calls)
      /\ \A i \in 1..Len(stack') : i = 1 /\ stack'[i] = Call("build", k + 1)
      /\ 1 \in 1..Len(stack')
  <2>1. <<Call("build", k + 1)>> \in Seq(Calls) /\ Len(<<Call("build", k + 1)>>) = 1
    BY <1>4
  <2>2. /\ stack' \in Seq(Calls) /\ Len(stack') = 1 + Len(stack) - 1
        /\ \A i \in 1..1 : stack'[i] = <<Call("build", k + 1)>>[i]
    BY <1>2, <1>3, <2>1, Entering
  <2>3. Len(stack') = 1 /\ stack'[1] = Call("build", k + 1)
    BY <1>2, <2>2
  <2>4. stack' \in Seq(Calls)
    BY <2>2
  <2>5. \A i \in 1..Len(stack') : i = 1
    BY <2>3
  <2> QED BY <2>3, <2>4, <2>5
<1>9. /\ \A m \in 0..N : Built(m) <=> k > m
      /\ \A m \in 0..N : Built(m)' <=> k + 1 > m
  BY <1>2, <1>4, <1>8 DEF Built
<1>10. /\ \A m \in 0..N : Built(m) => Built(m)'
       /\ Built(k)' /\ ~Built(k) /\ node[k].mNext = Nothing /\ node[k].mFail = Nothing
       /\ \A m \in 0..N : m # k => (Built(m)' <=> Built(m))
       /\ runs[k] = 0
  <2>1. /\ \A m \in 0..N : Built(m) => Built(m)'
        /\ Built(k)' /\ ~Built(k)
        /\ \A m \in 0..N : m # k => (Built(m)' <=> Built(m))
    <3>1. k \in 0..N /\ 0..N \subseteq Int
      BY <1>4
    <3>2. \A m \in 0..N : /\ k > m => k + 1 > m
                          /\ m # k => (k + 1 > m <=> k > m)
      BY <3>1
    <3> QED BY <1>9, <3>1, <3>2
  <2>2. k \in 1..N
    BY <1>2
  <2> QED BY <1>2, <2>1, <2>2 DEF Hooks, Ran
<1>11. ~(node[k].mArg /\ node[k].mFailed)
  <2>1. k \in 1..N
    BY <1>2
  <2> QED BY <2>1 DEF Path
<1>12. /\ ~node[k].mArg /\ ~node[k].mFailed => queue' = queue
       /\ node[k].mArg => queue' = Append(queue, next)
       /\ node[k].mFailed => queue' = Append(queue, fail)
  <2>1. queue \in Seq(Calls)
    BY DEF TypeOK
  <2> QED BY <1>3, <1>4, <1>5, <1>11, <2>1, Posts
<1>13. \A m \in 0..N : Reached(m)' <=> Reached(m)
  <2>1. Reached(k)' <=> Reached(k)
    BY <1>2, <1>4, <1>5, <1>6, <1>7, <1>10 DEF Reached
  <2>2. Reached(0)' <=> Reached(0)
    BY <1>3 DEF Reached
  <2>3. ASSUME NEW m \in 1..N, m # k PROVE Reached(m)' <=> Reached(m)
    <3>1. m \in 0..N /\ m \in Nodes
      OBVIOUS
    <3>2. node'[m] = node[m] /\ (Built(m)' <=> Built(m)) /\ m # 0
      BY <1>7, <1>10, <2>3, <3>1
    <3> QED BY <3>2 DEF Reached
  <2>4. \A m \in 0..N : m = 0 \/ m \in 1..N
    OBVIOUS
  <2> QED BY <2>1, <2>2, <2>3, <2>4
<1>14. Reached(k) <=> node[k].mArg \/ node[k].mFailed
  BY <1>2, <1>10 DEF Reached
<1>15. TypeOK' /\ HandlersOnLoop'
  <2>1. queue' \in Seq(Calls)
    <3>1. queue \in Seq(Calls)
      BY DEF TypeOK
    <3>2. queue' = queue \/ queue' = Append(queue, next) \/ queue' = Append(queue, fail)
      BY <1>5, <1>12
    <3>3. \A c \in Calls : queue' = Append(queue, c) => queue' \in Seq(Calls)
      BY <3>1
    <3> QED BY <1>4, <3>1, <3>2, <3>3
  <2>2. node' \in [Nodes -> [mNext : Handlers, mFail : Handlers, mArg : BOOLEAN, mFailed : BOOLEAN, mLoop : BOOLEAN]]
    BY <1>3, <1>4, <1>5 DEF TypeOK
  <2> QED BY <1>3, <1>8, <2>1, <2>2 DEF TypeOK, HandlersOnLoop
<1>16. Hooks'
  <2>1. /\ node'[k].mNext \in {Nothing, Call("stage", k)}
        /\ node'[k].mFail \in {Nothing, Call("reject", k + 1)}
    BY <1>5, <1>7 DEF next, fail
  <2>2. ASSUME NEW j \in 1..S
        PROVE  /\ Inner(j) \in Nodes /\ Inner(j) # k /\ Orphan(j) \in Nodes /\ Orphan(j) # k
               /\ N \in Nodes /\ N # k /\ j \in Nodes
    BY SMTT(20), <1>2
  <2>3. \A i \in 1..Len(stack') : stack'[i].op # "innerThen"
    BY <1>4, <1>8
  <2>4. ASSUME NEW m \in 1..N, ~Built(m)' PROVE node'[m].mNext = Nothing /\ node'[m].mFail = Nothing
    <3>1. m \in 0..N /\ m \in Nodes /\ m # k /\ ~Built(m)
      BY <1>10, <2>4
    <3> QED BY <1>7, <3>1 DEF Hooks
  <2>5. \A j \in 1..S :
           /\ node'[Inner(j)] = node[Inner(j)] /\ node'[Orphan(j)] = node[Orphan(j)]
           /\ j # k => node'[j] = node[j]
    BY <1>7, <2>2
  <2>6. node'[N] = node[N]
    BY <1>2, <1>7, <2>2
  <2>7. \A j \in 1..S :
           /\ node'[j].mNext \in {Nothing, Call("stage", j)}
           /\ node'[j].mFail \in {Nothing, Call("reject", j + 1)}
    BY <2>1, <2>5 DEF Hooks
  <2>8. /\ \A j \in 1..S :
              /\ node'[Inner(j)].mNext \in {Nothing, Call("innerNext", j)}
              /\ node'[Inner(j)].mFail \in {Nothing, Call("reject", j + 1), Call("reject", Orphan(j))}
              /\ node'[Orphan(j)].mNext = Nothing /\ node'[Orphan(j)].mFail = Nothing
        /\ \A j \in (1..S) \ Thens : node'[Inner(j)].mNext = Nothing /\ node'[Inner(j)].mFail = Nothing
        /\ node'[N].mNext = Nothing
        /\ node'[N].mFail \in {Nothing, Call("failed", N)}
    BY <2>5, <2>6 DEF Hooks
  <2> QED BY <2>3, <2>4, <2>7, <2>8 DEF Hooks
<1>17. Shape'
  <2>1. \A i \in 1..Len(stack') : i = 1 /\ stack'[i].op = "build" /\ stack'[i].at <= N
    BY <1>4, <1>8
  <2> QED BY <1>8, <2>1 DEF Shape
<1>18. Posted'
  <2>1. UNCHANGED sending /\ queue \in Seq(Calls)
    BY <1>3 DEF TypeOK
  <2>2. /\ next.op = "stage" /\ fail.op = "reject" /\ fail.at \notin Sources
    BY <1>2 DEF next, fail, Call
  <2>3. CASE queue' = queue
    BY <2>1, <2>3 DEF Posted
  <2>4. ASSUME NEW c \in Calls, c \in {next, fail}, queue' = Append(queue, c) PROVE Posted'
    <3>1. \A i \in 1..Len(queue') : (i \in 1..Len(queue) /\ queue'[i] = queue[i]) \/ queue'[i] = c
      BY <2>1, <2>4, Appended
    <3> QED BY <2>1, <2>2, <2>4, <3>1 DEF Posted
  <2> QED BY <1>4, <1>12, <2>3, <2>4
<1>19. Settlement'
  <2>1. ASSUME NEW n \in Sources, Open(n)' PROVE Open(n)
    BY <1>3, <1>4, <1>8, <2>1 DEF Open
  <2>2. ASSUME NEW n \in Sources, settled[n] = "no", node'[n].mNext # Nothing \/ node'[n].mFail # Nothing
        PROVE  node'[n].mLoop
    <3>1. n \in Nodes
      OBVIOUS
    <3>2. CASE n = k
      <4>1. ~node[k].mArg
        BY <2>2, <3>2 DEF Settlement, Open
      <4> QED BY <1>5, <1>7, <3>2, <4>1
    <3>3. CASE n # k
      BY <1>7, <2>2, <3>1, <3>3 DEF Settlement
    <3> QED BY <3>2, <3>3
  <2>3. /\ UNCHANGED <<sending, settled>> /\ Sources \subseteq Nodes
        /\ \A m \in Nodes : node'[m].mArg = node[m].mArg /\ node'[m].mFailed = node[m].mFailed
    BY <1>3, <1>7
  <2> QED BY <2>1, <2>2, <2>3 DEF Settlement
<1>20. Reached(k) => NoCarrier /\ ~Reached(k + 1)
  <2>1. k \in 1..N
    BY <1>2
  <2> QED BY <1>4, <1>10, <2>1 DEF Path
<1>21. \A i \in 1..Len(stack') : ~Carries(stack'[i])
  BY <1>4, <1>8
<1>22. OneCarrier' /\ (~Reached(k) /\ NoCarrier => NoCarrier')
  <2>1. UNCHANGED sending
    BY <1>3
  <2>2. CASE Reached(k)
    <3>1. /\ \A i \in 1..Len(queue) : ~Carries(queue[i])
          /\ \A n \in Sources : ~Carries(sending[n])
      BY <1>20, <2>2 DEF NoCarrier
    <3>2. \E c \in Calls : queue' = Append(queue, c)
      BY <1>4, <1>12, <1>14, <2>2
    <3>3. OneCarrier'
      BY <1>21, <2>1, <3>1, <3>2, OnePosted
    <3> QED BY <2>2, <3>3
  <2>3. CASE ~Reached(k)
    <3>1. queue' = queue
      BY <1>12, <1>14, <2>3
    <3> QED BY <1>21, <2>1, <3>1, NoneAdded
  <2> QED BY <2>2, <2>3
<1>23. Calling'
  <2>1. ASSUME NEW d, d \in Calls \/ d = Nothing, Sound(d) PROVE Sound(d)'
    <3>1. \A m \in 0..N : Reached(m)' = Reached(m)
      BY <1>13 DEF Reached
    <3>2. \A m \in 1..N : m \in 0..N
      OBVIOUS
    <3>3. node'[N].mArg = node[N].mArg
      BY <1>7
    <3>4. UNCHANGED <<runs, failRuns>>
      BY <1>3
    <3> QED BY <1>10, <2>1, <3>1, <3>2, <3>3, <3>4, SameSound
  <2>2. Sound(Call("build", k + 1))'
    BY <1>4 DEF Sound
  <2>3. ASSUME node[k].mArg PROVE Sound(next)'
    <3>1. k > 1 => runs[k - 1] = 1
      BY <1>2, <2>3 DEF Ran
    <3>2. /\ Reached(k)' /\ ~Reached(k + 1)' /\ Built(k)'
          /\ runs' = runs /\ runs[k] = 0
      BY <1>3, <1>4, <1>10, <1>13, <1>14, <1>20, <2>3
    <3> QED BY <1>2, <1>4, <3>1, <3>2 DEF Sound, Carries, From, next, Call
  <2>4. ASSUME node[k].mFailed PROVE Sound(fail)'
    <3>1. Reached(k)' /\ ~Reached(k + 1)'
      BY <1>4, <1>13, <1>14, <1>20, <2>4
    <3> QED BY <1>2, <1>4, <3>1 DEF Sound, Carries, From, fail, Call
  <2>5. ASSUME NEW c \in All'
        PROVE  \/ c \in All
               \/ c = Call("build", k + 1)
               \/ node[k].mArg /\ c = next
               \/ node[k].mFailed /\ c = fail
    <3>1. \/ c = Call("build", k + 1) \/ \E n \in Sources : c = sending[n]
          \/ \E i \in 1..Len(queue') : c = queue'[i]
      BY <1>3, <1>8, <2>5 DEF All
    <3>2. ASSUME NEW i \in 1..Len(queue'), c = queue'[i]
          PROVE  \/ c \in All
                 \/ node[k].mArg /\ c = next
                 \/ node[k].mFailed /\ c = fail
      <4>1. queue \in Seq(Calls)
        BY DEF TypeOK
      <4>2. CASE queue' = queue
        BY <3>2, <4>2 DEF All
      <4>3. CASE node[k].mArg
        BY <1>4, <1>12, <3>2, <4>1, <4>3, Appended DEF All
      <4>4. CASE node[k].mFailed
        BY <1>4, <1>12, <3>2, <4>1, <4>4, Appended DEF All
      <4> QED BY <1>12, <4>2, <4>3, <4>4
    <3> QED BY <3>1, <3>2 DEF All
  <2>6. ASSUME NEW c \in All PROVE Sound(c)'
    <3>1. (c \in Calls \/ c = Nothing) /\ Sound(c)
      BY <2>6, AllOf
    <3> QED BY <2>1, <3>1
  <2> QED BY <2>2, <2>3, <2>4, <2>5, <2>6, AllCalling
<1>24. Path'
  <2>1. ASSUME NEW m \in 1..N, Reached(m)', ~Built(m)' PROVE NoCarrier' /\ (m < N => ~Reached(m + 1)')
    <3>1. m \in 0..N /\ (m < N => m + 1 \in 0..N)
      OBVIOUS
    <3>2. Reached(m) /\ ~Built(m)
      BY <1>10, <1>13, <2>1, <3>1
    <3>3. NoCarrier /\ (m < N => ~Reached(m + 1))
      BY <3>2 DEF Path
    <3>4. ~Reached(k)
      <4>1. ASSUME Reached(k) PROVE m = k
        BY <1>4, <1>20, <3>1, <3>2, <3>3, <4>1, OnePlace
      <4> QED BY <1>10, <2>1, <4>1
    <3> QED BY <1>13, <1>22, <3>1, <3>3, <3>4
  <2>2. ~Reached(0)' => NoCarrier'
    <3>1. ASSUME ~Reached(0)' PROVE NoCarrier'
      <4>1. ~Reached(0) /\ 0 \in 0..N /\ 0 < k
        BY <1>2, <1>13, <3>1
      <4>2. NoCarrier /\ ~Reached(k)
        BY <1>4, <4>1 DEF Path
      <4> QED BY <1>22, <4>2
    <3> QED BY <3>1
  <2>3. \A m \in 1..N : ~(node'[m].mArg /\ node'[m].mFailed)
    <3>1. 1..N \subseteq Nodes
      OBVIOUS
    <3> QED BY <1>7, <3>1 DEF Path
  <2>4. \A m, n \in 0..N : m < n /\ Reached(n)' => Reached(m)'
    BY <1>13 DEF Path
  <2> QED BY <2>1, <2>2, <2>3, <2>4 DEF Path
<1>25. Waits'
  <2>1. ASSUME NEW j \in Thens, Awaits(j)'
        PROVE  NoCarrier' /\ Reached(j)' /\ ~Reached(j + 1)' /\ runs'[j] = 1
    <3>1. j \in 0..N /\ j + 1 \in 0..N /\ Inner(j) \in Nodes /\ Inner(j) # k /\ j < N
      BY <1>2
    <3>2. Awaits(j)
      <4>1. ~(stack'[1] = Call("innerThen", j))
        BY <1>8 DEF Call
      <4>2. Open(Inner(j))' => Open(Inner(j))
        BY <1>3, <1>4, <1>8 DEF Open
      <4>3. node'[Inner(j)] = node[Inner(j)]
        BY <1>7, <3>1
      <4> QED BY <2>1, <4>1, <4>2, <4>3 DEF Awaits
    <3>3. NoCarrier /\ Reached(j) /\ ~Reached(j + 1) /\ runs[j] = 1
      BY <3>2 DEF Waits
    <3>4. ~Reached(k)
      <4>1. ASSUME Reached(k) PROVE j = k
        BY <1>4, <1>20, <3>1, <3>3, <4>1, OnePlace
      <4> QED BY <1>10, <3>3, <4>1
    <3> QED BY <1>3, <1>13, <1>22, <3>1, <3>3, <3>4
  <2> QED BY <2>1 DEF Waits
<1>26. Ran'
  <2>1. \A m \in 0..N : Reached(m)' = Reached(m)
    BY <1>13 DEF Reached
  <2>2. \A m \in 1..N : m \in 0..N /\ m \in Nodes
    OBVIOUS
  <2>3. \A m \in 1..N : node'[m].mArg = node[m].mArg /\ (Built(m) => Built(m)')
    BY <1>7, <1>10, <2>2
  <2>4. \A j \in Thens : node'[Inner(j)] = node[Inner(j)]
    <3>1. ASSUME NEW j \in Thens PROVE Inner(j) \in Nodes /\ Inner(j) # k
      <4>1. j \in 1..S
        OBVIOUS
      <4> QED BY <1>2, <4>1
    <3> QED BY <1>7, <3>1
  <2> QED BY <1>3, <2>1, <2>3, <2>4, SameRan
<1> QED BY <1>15, <1>16, <1>17, <1>18, <1>19, <1>22, <1>23, <1>24, <1>25, <1>26

LEMMA BuildFailInv == IInv /\ BuildFail => IInv'
<1> SUFFICES ASSUME IInv, BuildFail PROVE IInv'
  OBVIOUS
<1> USE Numbers DEF IInv
<1> DEFINE fail == Call("failed", N)
           r == FailState(node[N], fail)
<1>1. /\ stack # <<>> /\ stack[1].op = "build" /\ stack[1].at = N
      /\ Len(stack) = 1 /\ 1 \in 1..Len(stack) /\ \A i \in 1..Len(stack) : i = 1
  <2>1. stack # <<>> /\ Top.op = "build" /\ Top.at = N
    BY DEF BuildFail, At
  <2>2. stack[1] = Top /\ stack[1] \in Calls /\ Len(stack) \in Nat /\ Len(stack) >= 1
    BY <2>1, Inside
  <2> QED BY <2>1, <2>2 DEF Shape
<1>2. /\ node' = [node EXCEPT ![N] = r]
      /\ queue' = queue \o If(node[N].mFailed, fail)
      /\ Enter(<<>>)
      /\ UNCHANGED <<sending, settled, runs, failRuns, offLoop>>
  BY DEF BuildFail, FailPosts, histVars
<1>3. N \in Nodes /\ N \in 0..N /\ N \in 1..N /\ N \notin Sources /\ fail \in Calls
  BY DEF Calls, Call
<1>4. /\ r \in [mNext : Handlers, mFail : Handlers, mArg : BOOLEAN, mFailed : BOOLEAN, mLoop : BOOLEAN]
      /\ r.mArg = node[N].mArg /\ r.mFailed = node[N].mFailed /\ r.mNext = node[N].mNext
      /\ r.mFail = IF node[N].mFailed THEN Nothing ELSE fail
      /\ node[N].mFailed \in BOOLEAN
  <2>1. node[N].mFailed \in BOOLEAN
    BY <1>3 DEF TypeOK
  <2> QED BY <1>3, <2>1, FailFields
<1>5. fail # Nothing
  BY DEF Call, Nothing
<1> HIDE DEF r, fail
<1>6. /\ node'[N] = r
      /\ \A m \in Nodes : m # N => node'[m] = node[m]
      /\ \A m \in Nodes : node'[m].mArg = node[m].mArg /\ node'[m].mFailed = node[m].mFailed
  BY <1>2, <1>3, <1>4 DEF TypeOK
<1>7. stack' = <<>> /\ Len(stack') = 0 /\ stack' \in Seq(Calls)
  <2>1. <<>> \in Seq(Calls) /\ Len(<<>>) = 0
    OBVIOUS
  <2>2. stack' \in Seq(Calls) /\ Len(stack') = Len(<<>>) + Len(stack) - 1
    BY <1>1, <1>2, <2>1, Entering
  <2>3. Len(stack') = 0
    BY <1>1, <2>1, <2>2
  <2> QED BY <2>2, <2>3
<1>8. \A m \in 0..N : Built(m)'
  BY <1>7 DEF Built
<1>9. /\ ~Built(N) /\ node[N].mNext = Nothing /\ node[N].mFail = Nothing
       /\ \A m \in 0..N : m # N => Built(m)
       /\ failRuns = 0
  <2>1. ~Built(N) /\ \A m \in 0..N : m # N => Built(m)
    BY <1>1, <1>3 DEF Built
  <2> QED BY <1>3, <2>1 DEF Hooks, Ran
<1>10. ~(node[N].mArg /\ node[N].mFailed)
  BY <1>3 DEF Path
<1>11. /\ ~node[N].mFailed => queue' = queue
       /\ node[N].mFailed => queue' = Append(queue, fail)
  <2>1. queue \in Seq(Calls)
    BY DEF TypeOK
  <2> QED BY <1>2, <1>3, <1>4, <2>1, PostsOne
<1>12. \A m \in 0..N : Reached(m)' <=> Reached(m)
  <2>1. Reached(N)' <=> Reached(N)
    BY <1>3, <1>4, <1>5, <1>6, <1>8, <1>9 DEF Reached
  <2>2. Reached(0)' <=> Reached(0)
    BY <1>2 DEF Reached
  <2>3. ASSUME NEW m \in 1..N, m # N PROVE Reached(m)' <=> Reached(m)
    <3>1. m \in 0..N /\ m \in Nodes
      OBVIOUS
    <3>2. node'[m] = node[m] /\ Built(m)' /\ Built(m) /\ m # 0
      BY <1>6, <1>8, <1>9, <2>3, <3>1
    <3> QED BY <3>2 DEF Reached
  <2>4. \A m \in 0..N : m = 0 \/ m \in 1..N
    OBVIOUS
  <2> QED BY <2>1, <2>2, <2>3, <2>4
<1>13. Reached(N) <=> node[N].mArg \/ node[N].mFailed
  BY <1>3, <1>9 DEF Reached
<1>14. TypeOK' /\ HandlersOnLoop'
  <2>1. queue' \in Seq(Calls)
    <3>1. queue \in Seq(Calls)
      BY DEF TypeOK
    <3>2. queue' = queue \/ queue' = Append(queue, fail)
      BY <1>4, <1>11
    <3>3. \A c \in Calls : queue' = Append(queue, c) => queue' \in Seq(Calls)
      BY <3>1
    <3> QED BY <1>3, <3>1, <3>2, <3>3
  <2>2. node' \in [Nodes -> [mNext : Handlers, mFail : Handlers, mArg : BOOLEAN, mFailed : BOOLEAN, mLoop : BOOLEAN]]
    BY <1>2, <1>3, <1>4 DEF TypeOK
  <2> QED BY <1>2, <1>7, <2>1, <2>2 DEF TypeOK, HandlersOnLoop
<1>15. Hooks'
  <2>1. node'[N].mNext = Nothing /\ node'[N].mFail \in {Nothing, Call("failed", N)}
    BY <1>4, <1>6, <1>9 DEF fail
  <2>2. ASSUME NEW j \in 1..S
        PROVE  /\ Inner(j) \in Nodes /\ Inner(j) # N /\ Orphan(j) \in Nodes /\ Orphan(j) # N
               /\ j \in Nodes /\ j # N
    OBVIOUS
  <2>3. \A j \in 1..S :
           /\ node'[Inner(j)] = node[Inner(j)] /\ node'[Orphan(j)] = node[Orphan(j)]
           /\ node'[j] = node[j]
    BY <1>6, <2>2
  <2>4. /\ \A m \in 1..N : m \in 0..N
        /\ \A i \in 1..Len(stack') : FALSE
    BY <1>7
  <2>5. /\ \A j \in 1..S :
              /\ node'[j].mNext \in {Nothing, Call("stage", j)}
              /\ node'[j].mFail \in {Nothing, Call("reject", j + 1)}
              /\ node'[Inner(j)].mNext \in {Nothing, Call("innerNext", j)}
              /\ node'[Inner(j)].mFail \in {Nothing, Call("reject", j + 1), Call("reject", Orphan(j))}
              /\ node'[Orphan(j)].mNext = Nothing /\ node'[Orphan(j)].mFail = Nothing
        /\ \A j \in (1..S) \ Thens : node'[Inner(j)].mNext = Nothing /\ node'[Inner(j)].mFail = Nothing
    BY <2>3 DEF Hooks
  <2> QED BY <1>8, <2>1, <2>4, <2>5 DEF Hooks
<1>16. Shape'
  BY <1>7 DEF Shape
<1>17. Posted'
  <2>1. UNCHANGED sending /\ queue \in Seq(Calls)
    BY <1>2 DEF TypeOK
  <2>2. fail.op = "failed"
    BY DEF fail, Call
  <2>3. CASE queue' = queue
    BY <2>1, <2>3 DEF Posted
  <2>4. CASE queue' = Append(queue, fail)
    <3>1. \A i \in 1..Len(queue') : (i \in 1..Len(queue) /\ queue'[i] = queue[i]) \/ queue'[i] = fail
      BY <1>3, <2>1, <2>4, Appended
    <3> QED BY <2>1, <2>2, <3>1 DEF Posted
  <2> QED BY <1>4, <1>11, <2>3, <2>4
<1>18. Settlement'
  <2>1. ASSUME NEW n \in Sources, Open(n)' PROVE Open(n)
    BY <1>2, <1>7, <2>1 DEF Open
  <2>2. \A n \in Sources : node'[n] = node[n]
    BY <1>3, <1>6
  <2>3. UNCHANGED <<sending, settled>>
    BY <1>2
  <2> QED BY <2>1, <2>2, <2>3 DEF Settlement
<1>19. Reached(N) => NoCarrier
  BY <1>3, <1>9 DEF Path
<1>20. \A i \in 1..Len(stack') : ~Carries(stack'[i])
  BY <1>7
<1>21. OneCarrier' /\ (~Reached(N) /\ NoCarrier => NoCarrier')
  <2>1. UNCHANGED sending
    BY <1>2
  <2>2. CASE node[N].mFailed
    <3>1. /\ \A i \in 1..Len(queue) : ~Carries(queue[i])
          /\ \A n \in Sources : ~Carries(sending[n])
      BY <1>13, <1>19, <2>2 DEF NoCarrier
    <3>2. OneCarrier'
      BY <1>3, <1>11, <1>20, <2>1, <2>2, <3>1, OnePosted
    <3> QED BY <1>13, <2>2, <3>2
  <2>3. CASE ~node[N].mFailed
    <3>1. queue' = queue
      BY <1>11, <2>3
    <3> QED BY <1>20, <2>1, <3>1, NoneAdded
  <2> QED BY <2>2, <2>3
<1>22. Calling'
  <2>1. ASSUME NEW d, d \in Calls \/ d = Nothing, Sound(d) PROVE Sound(d)'
    <3>1. \A m \in 0..N : Reached(m)' = Reached(m)
      BY <1>12 DEF Reached
    <3>2. \A m \in 1..N : m \in 0..N
      OBVIOUS
    <3>3. node'[N].mArg = node[N].mArg
      BY <1>3, <1>6
    <3>4. UNCHANGED <<runs, failRuns>>
      BY <1>2
    <3> QED BY <1>8, <2>1, <3>1, <3>2, <3>3, <3>4, SameSound
  <2>2. ASSUME node[N].mFailed PROVE Sound(fail)'
    <3>1. Reached(N)' /\ Built(N)' /\ failRuns' = 0 /\ ~node'[N].mArg
      BY <1>2, <1>3, <1>6, <1>8, <1>9, <1>10, <1>12, <1>13, <2>2
    <3> QED BY <1>3, <3>1 DEF Sound, Carries, From, fail, Call
  <2>3. ASSUME NEW c \in All' PROVE c \in All \/ (node[N].mFailed /\ c = fail)
    <3>1. (\E n \in Sources : c = sending[n]) \/ \E i \in 1..Len(queue') : c = queue'[i]
      BY SMTT(20), <1>2, <1>7, <2>3 DEF All
    <3>2. ASSUME NEW i \in 1..Len(queue'), c = queue'[i]
          PROVE  c \in All \/ (node[N].mFailed /\ c = fail)
      <4>1. queue \in Seq(Calls)
        BY DEF TypeOK
      <4>2. CASE queue' = queue
        BY <3>2, <4>2 DEF All
      <4>3. CASE node[N].mFailed
        BY <1>3, <1>11, <3>2, <4>1, <4>3, Appended DEF All
      <4> QED BY <1>11, <4>2, <4>3
    <3> QED BY <3>1, <3>2 DEF All
  <2>4. ASSUME NEW c \in All PROVE Sound(c)'
    <3>1. (c \in Calls \/ c = Nothing) /\ Sound(c)
      BY <2>4, AllOf
    <3> QED BY <2>1, <3>1
  <2> QED BY <2>2, <2>3, <2>4, AllCalling
<1>23. Path'
  <2>1. \A m \in 1..N : Built(m)'
    BY <1>8
  <2>2. ~Reached(0)' => NoCarrier'
    <3>1. ASSUME ~Reached(0)' PROVE NoCarrier'
      <4>1. ~Reached(0) /\ 0 \in 0..N /\ 0 < N
        BY <1>12, <3>1
      <4>2. NoCarrier /\ ~Reached(N)
        BY <1>3, <4>1 DEF Path
      <4> QED BY <1>21, <4>2
    <3> QED BY <3>1
  <2>3. \A m \in 1..N : ~(node'[m].mArg /\ node'[m].mFailed)
    <3>1. 1..N \subseteq Nodes
      OBVIOUS
    <3> QED BY <1>6, <3>1 DEF Path
  <2>4. \A m, n \in 0..N : m < n /\ Reached(n)' => Reached(m)'
    BY <1>12 DEF Path
  <2> QED BY <2>1, <2>2, <2>3, <2>4 DEF Path
<1>24. Waits'
  <2>1. ASSUME NEW j \in Thens, Awaits(j)'
        PROVE  NoCarrier' /\ Reached(j)' /\ ~Reached(j + 1)' /\ runs'[j] = 1
    <3>1. j \in 0..N /\ j + 1 \in 0..N /\ Inner(j) \in Nodes /\ Inner(j) # N /\ j < N
      <4>1. j \in 1..S
        OBVIOUS
      <4> QED BY <4>1
    <3>2. Awaits(j)
      <4>1. Open(Inner(j))' => Open(Inner(j))
        BY <1>2, <1>7 DEF Open
      <4>2. node'[Inner(j)] = node[Inner(j)]
        BY <1>6, <3>1
      <4> QED BY <1>7, <2>1, <4>1, <4>2 DEF Awaits
    <3>3. NoCarrier /\ Reached(j) /\ ~Reached(j + 1) /\ runs[j] = 1
      BY <3>2 DEF Waits
    <3>4. ~Reached(N)
      BY <1>3, <3>1, <3>3 DEF Path
    <3> QED BY <1>2, <1>12, <1>21, <3>1, <3>3, <3>4
  <2> QED BY <2>1 DEF Waits
<1>25. Ran'
  <2>1. \A m \in 0..N : Reached(m)' = Reached(m)
    BY <1>12 DEF Reached
  <2>2. \A m \in 1..N : m \in 0..N /\ m \in Nodes
    OBVIOUS
  <2>3. \A m \in 1..N : node'[m].mArg = node[m].mArg /\ (Built(m) => Built(m)')
    BY <1>6, <1>8, <2>2
  <2>4. \A j \in Thens : node'[Inner(j)] = node[Inner(j)]
    <3>1. ASSUME NEW j \in Thens PROVE Inner(j) \in Nodes /\ Inner(j) # N
      <4>1. j \in 1..S
        OBVIOUS
      <4> QED BY <4>1
    <3> QED BY <1>6, <3>1
  <2> QED BY <1>2, <2>1, <2>3, <2>4, SameRan
<1> QED BY <1>14, <1>15, <1>16, <1>17, <1>18, <1>21, <1>22, <1>23, <1>24, <1>25

\* The calls below a handler: what resolves the chains nobody sees.
LEMMA BelowTop ==
    ASSUME IInv, stack # <<>>, stack[1].op # "innerFail", NEW j \in 2..Len(stack)
    PROVE  stack[j].op = "resolve" /\ stack[j].at > N + S /\ stack[j].at \notin Sources
<1> USE Numbers DEF IInv
<1>1. j \in 1..Len(stack) /\ j > 1
  BY Inside
<1>2. stack[j].op # "innerThen"
  <2>1. ASSUME stack[j].op = "innerThen" PROVE FALSE
    <3>1. stack[1] = Call("innerFail", stack[j].at)
      BY <1>1, <2>1 DEF Shape
    <3> QED BY <3>1 DEF Call
  <2> QED BY <2>1
<1>3. stack[j].op = "resolve" /\ stack[j].at > N + S
  BY <1>1, <1>2 DEF Shape
<1>4. stack[j] \in Calls
  BY Inside
<1> QED BY <1>3, <1>4 DEF Calls, Nodes

\* A handler that builds nothing is replaced by the calls it makes.
LEMMA Replaced ==
    ASSUME IInv, stack # <<>>, stack[1].op \notin {"build", "innerFail"},
           NEW calls \in Seq(Calls), Enter(calls), UNCHANGED settled,
           \A i \in 1..Len(calls) :
              /\ calls[i].op \in {"resolve", "reject", "stage", "innerNext", "failed"}
              /\ calls[i].op \in {"resolve", "reject"} => calls[i].at \notin Sources
              /\ calls[i].op = "innerNext" => calls[i].at \in Thens
              /\ i > 1 => calls[i].op = "resolve" /\ calls[i].at > N + S
    PROVE  /\ \A m \in 0..N : Built(m) /\ Built(m)' /\ Built(m)' = Built(m)
           /\ Shape' /\ stack' \in Seq(Calls)
           /\ {stack'[i] : i \in 1..Len(stack')}
                 \subseteq {calls[i] : i \in 1..Len(calls)} \cup {stack[i] : i \in 2..Len(stack)}
           /\ \A i \in 1..Len(stack') :
                 /\ stack'[i].op # "innerThen"
                 /\ stack'[i].op \in {"resolve", "reject"} => stack'[i].at \notin Sources
<1> USE Numbers DEF IInv
<1>1. /\ stack' \in Seq(Calls) /\ Len(stack') = Len(calls) + Len(stack) - 1
      /\ \A i \in 1..Len(calls) : stack'[i] = calls[i]
      /\ \A i \in 1..Len(stack') : i > Len(calls) =>
            i - Len(calls) + 1 \in 2..Len(stack) /\ stack'[i] = stack[i - Len(calls) + 1]
      /\ {stack'[i] : i \in 1..Len(stack')}
            \subseteq {calls[i] : i \in 1..Len(calls)} \cup {stack[i] : i \in 2..Len(stack)}
  BY Entering
<1>2. Len(stack) \in Nat /\ Len(stack) >= 1 /\ Len(calls) \in Nat
  BY Inside
<1>3. ASSUME NEW j \in 2..Len(stack)
      PROVE  stack[j].op = "resolve" /\ stack[j].at > N + S /\ stack[j].at \notin Sources
  BY BelowTop
<1>4. ASSUME NEW i \in 1..Len(stack')
      PROVE  /\ stack'[i].op \in {"resolve", "reject", "stage", "innerNext", "failed"}
             /\ stack'[i].op \in {"resolve", "reject"} => stack'[i].at \notin Sources
             /\ stack'[i].op = "innerNext" => stack'[i].at \in Thens
             /\ i > 1 => stack'[i].op = "resolve" /\ stack'[i].at > N + S
  <2>1. CASE i <= Len(calls)
    <3>1. i \in 1..Len(calls)
      BY <1>2, <2>1
    <3>2. stack'[i] = calls[i]
      BY <1>1, <3>1
    <3> QED BY <3>1, <3>2
  <2>2. CASE i > Len(calls)
    <3>1. PICK j \in 2..Len(stack) : stack'[i] = stack[j]
      BY <1>1, <2>2
    <3> QED BY <1>3, <3>1
  <2> QED BY <1>1, <1>2, <2>1, <2>2
<1>5. \A m \in 0..N : Built(m) /\ Built(m)' /\ Built(m)' = Built(m)
  <2>1. \A m \in 0..N : Built(m)
    BY AllBuilt
  <2>2. \A m \in 0..N : Built(m)'
    BY <1>4 DEF Built
  <2>3. \A m \in 0..N : Built(m) \in BOOLEAN /\ Built(m)' \in BOOLEAN
    BY DEF Built
  <2> QED BY <2>1, <2>2, <2>3
<1>6. Shape'
  BY <1>4 DEF Shape
<1> QED BY <1>1, <1>4, <1>5, <1>6

LEMMA ReplacedByOne ==
    ASSUME IInv, stack # <<>>, stack[1].op \notin {"build", "innerFail"},
           NEW c \in Calls, Enter(<<c>>), UNCHANGED settled,
           c.op \in {"resolve", "reject", "stage", "innerNext", "failed"},
           c.op \in {"resolve", "reject"} => c.at \notin Sources,
           c.op = "innerNext" => c.at \in Thens
    PROVE  /\ \A m \in 0..N : Built(m) /\ Built(m)' /\ Built(m)' = Built(m)
           /\ Shape' /\ stack' \in Seq(Calls)
           /\ {stack'[i] : i \in 1..Len(stack')} \subseteq {c} \cup {stack[i] : i \in 2..Len(stack)}
           /\ \A i \in 1..Len(stack') :
                 /\ stack'[i].op # "innerThen"
                 /\ stack'[i].op \in {"resolve", "reject"} => stack'[i].at \notin Sources
<1>1. <<c>> \in Seq(Calls) /\ Len(<<c>>) = 1 /\ <<c>>[1] = c /\ \A i \in 1..Len(<<c>>) : i = 1
  OBVIOUS
<1>2. {<<c>>[i] : i \in 1..Len(<<c>>)} = {c}
  BY <1>1
<1>3. \A i \in 1..Len(<<c>>) :
         /\ <<c>>[i].op \in {"resolve", "reject", "stage", "innerNext", "failed"}
         /\ <<c>>[i].op \in {"resolve", "reject"} => <<c>>[i].at \notin Sources
         /\ <<c>>[i].op = "innerNext" => <<c>>[i].at \in Thens
         /\ i > 1 => <<c>>[i].op = "resolve" /\ <<c>>[i].at > N + S
  BY <1>1
<1>4. /\ \A m \in 0..N : Built(m) /\ Built(m)' /\ Built(m)' = Built(m)
      /\ Shape' /\ stack' \in Seq(Calls)
      /\ {stack'[i] : i \in 1..Len(stack')}
            \subseteq {<<c>>[i] : i \in 1..Len(<<c>>)} \cup {stack[i] : i \in 2..Len(stack)}
      /\ \A i \in 1..Len(stack') :
            /\ stack'[i].op # "innerThen"
            /\ stack'[i].op \in {"resolve", "reject"} => stack'[i].at \notin Sources
  BY <1>1, <1>3, Replaced
<1> QED BY <1>2, <1>4

\* A handler is done.
LEMMA ReplacedByNone ==
    ASSUME IInv, stack # <<>>, stack[1].op \notin {"build", "innerFail"}, Enter(<<>>), UNCHANGED settled
    PROVE  /\ \A m \in 0..N : Built(m) /\ Built(m)' /\ Built(m)' = Built(m)
           /\ Shape' /\ stack' \in Seq(Calls)
           /\ {stack'[i] : i \in 1..Len(stack')} \subseteq {stack[i] : i \in 2..Len(stack)}
           /\ \A i \in 1..Len(stack') :
                 /\ stack'[i].op # "innerThen"
                 /\ stack'[i].op \in {"resolve", "reject"} => stack'[i].at \notin Sources
<1>1. <<>> \in Seq(Calls) /\ \A i \in 1..Len(<<>>) : FALSE
  OBVIOUS
<1>2. {<<>>[i] : i \in 1..Len(<<>>)} = {}
  BY <1>1
<1>3. /\ \A m \in 0..N : Built(m) /\ Built(m)' /\ Built(m)' = Built(m)
      /\ Shape' /\ stack' \in Seq(Calls)
      /\ {stack'[i] : i \in 1..Len(stack')}
            \subseteq {<<>>[i] : i \in 1..Len(<<>>)} \cup {stack[i] : i \in 2..Len(stack)}
      /\ \A i \in 1..Len(stack') :
            /\ stack'[i].op # "innerThen"
            /\ stack'[i].op \in {"resolve", "reject"} => stack'[i].at \notin Sources
  BY <1>1, Replaced
<1> QED BY <1>2, <1>3

\* The outcome stays with the innermost call, or ends there.
LEMMA OnTop ==
    ASSUME IInv, stack # <<>>, Carries(stack[1]), UNCHANGED <<queue, sending>>
    PROVE  /\ OneCarrier' /\ Posted' /\ Reached(0)
           /\ \A k \in Thens : ~Awaits(k)
           /\ (\A i \in 1..Len(stack') : ~Carries(stack'[i])) => NoCarrier'
           /\ Sound(stack[1])
<1> USE Numbers DEF IInv
<1>1. /\ \A i \in 1..Len(queue) : ~Carries(queue[i])
      /\ \A n \in Sources : ~Carries(sending[n])
      /\ 1 \in 1..Len(stack)
  BY Inside
<1>2. /\ \A i \in 1..Len(queue') : ~Carries(queue'[i])
      /\ \A n \in Sources : ~Carries(sending'[n])
  BY <1>1
<1>3. OneCarrier'
  BY <1>2 DEF OneCarrier
<1>4. Posted'
  BY DEF Posted
<1>5. ~NoCarrier
  BY <1>1 DEF NoCarrier
<1>6. Reached(0)
  BY <1>5 DEF Path
<1>7. \A k \in Thens : ~Awaits(k)
  BY <1>5 DEF Waits
<1>8. (\A i \in 1..Len(stack') : ~Carries(stack'[i])) => NoCarrier'
  BY <1>2 DEF NoCarrier
<1>9. Sound(stack[1])
  BY <1>1 DEF Calling
<1> QED BY <1>3, <1>4, <1>6, <1>7, <1>8, <1>9

LEMMA StageReturnsInv == IInv /\ StageReturns => IInv'
<1> SUFFICES ASSUME IInv, StageReturns PROVE IInv'
  OBVIOUS
<1> USE Numbers DEF IInv
<1>1. PICK k : k = Top.at
  OBVIOUS
<1>2. PICK c \in {Call("resolve", k + 1), Call("reject", k + 1)} : Enter(<<c>>)
  BY <1>1 DEF StageReturns
<1>3. /\ runs' = [runs EXCEPT ![k] = @ + 1]
      /\ UNCHANGED <<node, queue, sending, settled, failRuns, offLoop>>
  BY <1>1 DEF StageReturns
<1>4. /\ stack # <<>> /\ stack[1].op = "stage" /\ stack[1].at = k
      /\ Carries(stack[1]) /\ From(stack[1]) = k
  <2>1. stack # <<>> /\ Top.op = "stage"
    BY DEF StageReturns, At
  <2> QED BY <1>1, <2>1, Inside DEF Carries, From
<1>5. /\ OneCarrier' /\ Posted' /\ Reached(0)
      /\ \A j \in Thens : ~Awaits(j)
      /\ Sound(stack[1])
  BY <1>3, <1>4, OnTop
<1>6. /\ k \in 1..S /\ k \in 0..N /\ k + 1 \in 1..N /\ Reached(k) /\ ~Reached(k + 1)
      /\ runs[k] = 0 /\ (k > 1 => runs[k - 1] = 1)
  <2>1. stack[1] \in Calls
    BY <1>4, Inside
  <2>2. k \in Nodes /\ k <= S
    BY <1>4, <1>5, <2>1 DEF Sound, Calls
  <2>3. k \in 1..S
    BY <2>2
  <2> QED BY <1>4, <1>5, <2>3 DEF Sound
<1>7. c \in Calls /\ c.at = k + 1 /\ c.op \in {"resolve", "reject"} /\ c.at \notin Sources
  BY SMTT(20), <1>6 DEF Calls, Call
<1>8. /\ \A m \in 0..N : Built(m) /\ Built(m)' /\ Built(m)' = Built(m)
      /\ Shape' /\ stack' \in Seq(Calls)
      /\ {stack'[i] : i \in 1..Len(stack')} \subseteq {c} \cup {stack[i] : i \in 2..Len(stack)}
      /\ \A i \in 1..Len(stack') :
            /\ stack'[i].op # "innerThen"
            /\ stack'[i].op \in {"resolve", "reject"} => stack'[i].at \notin Sources
  <2>1. stack[1].op \notin {"build", "innerFail"} /\ UNCHANGED settled
    BY <1>3, <1>4
  <2> QED BY <1>2, <1>4, <1>7, <2>1, ReplacedByOne
<1>9. runs' \in [1..S -> Nat] /\ runs'[k] = 1 /\ \A j \in 1..S : j # k => runs'[j] = runs[j]
  BY <1>3, <1>6 DEF TypeOK
<1>10. TypeOK' /\ HandlersOnLoop'
  BY <1>3, <1>8, <1>9 DEF TypeOK, HandlersOnLoop
<1>11. \A m \in 0..N : Reached(m)' = Reached(m)
  BY <1>3, <1>8, SameReached
<1>12. Hooks'
  <2>1. UNCHANGED node /\ \A m \in 1..N : m \in 0..N
    BY <1>3
  <2> QED BY <1>8, <2>1 DEF Hooks
<1>13. Settlement'
  <2>1. ASSUME NEW n \in Sources, Open(n)' PROVE Open(n)
    BY <1>3, <1>8, <2>1 DEF Open
  <2> QED BY <1>3, <2>1 DEF Settlement
<1>14. Calling'
  <2>1. All' \subseteq {c} \cup Others
    BY <1>3, <1>8 DEF All, Others
  <2>2. Sound(c)'
    <3>1. Reached(k)' /\ ~Reached(k + 1)'
      BY <1>6, <1>11
    <3> QED BY <1>6, <1>7, <1>9, <3>1 DEF Sound, From
  <2>3. \A d \in Others : Sound(d)'
    BY <1>4, <1>9, OthersSound
  <2> QED BY <2>1, <2>2, <2>3, AllCalling
<1>15. Path'
  <2>1. UNCHANGED node /\ Reached(0)'
    BY <1>3, <1>5, <1>11
  <2>2. \A m \in 1..N : m \in 0..N
    OBVIOUS
  <2> QED BY <1>8, <1>11, <2>1, <2>2 DEF Path
<1>16. Waits'
  <2>1. ASSUME NEW j \in Thens, Awaits(j)' PROVE Awaits(j)
    <3>1. ~(stack' # <<>> /\ stack'[1] = Call("innerThen", j))
      <4>1. stack' # <<>> => 1 \in 1..Len(stack')
        BY <1>8
      <4> QED BY <1>8, <4>1 DEF Call
    <3> QED BY <1>3, <1>8, <2>1, <3>1 DEF Awaits, Open
  <2> QED BY <1>5, <2>1 DEF Waits
<1>17. Ran'
  <2>1. UNCHANGED <<node, failRuns>>
    BY <1>3
  <2>2. \A j \in 1..S : runs'[j] <= 1 /\ (j > 1 => runs'[j] <= runs'[j - 1])
    <3>1. ASSUME NEW j \in 1..S PROVE runs'[j] <= 1 /\ (j > 1 => runs'[j] <= runs'[j - 1])
      <4>1. runs[j] \in Nat /\ runs[j] <= 1 /\ (j > 1 => j - 1 \in 1..S /\ runs[j] <= runs[j - 1])
        <5>1. runs[j] \in Nat
          BY DEF TypeOK
        <5>2. j > 1 => j - 1 \in 1..S
          OBVIOUS
        <5> QED BY <5>1, <5>2 DEF Ran
      <4>2. CASE j = k
        BY <1>6, <1>9, <4>1, <4>2
      <4>3. CASE j # k
        BY <1>6, <1>9, <4>1, <4>3
      <4> QED BY <4>2, <4>3
    <3> QED BY <3>1
  <2>3. \A j \in 1..S : ~Reached(j)' \/ ~Built(j)' => runs'[j] = 0
    <3>1. 1..S \subseteq 0..N
      OBVIOUS
    <3> QED BY <1>6, <1>8, <1>9, <1>11, <3>1 DEF Ran
  <2>4. \A j \in Thens : runs'[j] = 0 => node'[Inner(j)].mNext = Nothing /\ node'[Inner(j)].mFail = Nothing
    <3>1. \A j \in Thens : runs[j] = 0 => node[Inner(j)].mNext = Nothing /\ node[Inner(j)].mFail = Nothing
      BY DEF Ran
    <3>2. ASSUME NEW j \in Thens, runs'[j] = 0 PROVE runs[j] = 0
      <4>1. j \in 1..S
        OBVIOUS
      <4>2. runs'[k] # 0
        BY <1>9
      <4>3. j # k
        BY <3>2, <4>2
      <4> QED BY <1>9, <3>2, <4>1, <4>3
    <3> QED BY <2>1, <3>1, <3>2
  <2>5. \A n \in 2..N : node'[n].mArg => runs'[n - 1] = 1
    <3>1. \A n \in 2..N : n - 1 \in 1..S
      OBVIOUS
    <3> QED BY <1>9, <2>1, <3>1 DEF Ran
  <2>6. failRuns' <= 1 /\ (~Reached(N)' \/ ~Built(N)' \/ node'[N].mArg => failRuns' = 0)
    <3>1. N \in 0..N
      OBVIOUS
    <3> QED BY <1>8, <1>11, <2>1, <3>1 DEF Ran
  <2> QED BY <2>2, <2>3, <2>4, <2>5, <2>6 DEF Ran
<1> QED BY <1>5, <1>8, <1>10, <1>12, <1>13, <1>14, <1>15, <1>16, <1>17

LEMMA StageReturnsThenInv == IInv /\ StageReturnsThen => IInv'
<1> SUFFICES ASSUME IInv, StageReturnsThen PROVE IInv'
  OBVIOUS
<1> USE Numbers DEF IInv
<1>1. PICK k : k = Top.at
  OBVIOUS
<1>2. /\ Enter(<<Call("innerFail", k), Call("innerThen", k)>>)
      /\ runs' = [runs EXCEPT ![k] = @ + 1] /\ Stages[k] = "then"
      /\ UNCHANGED <<node, queue, sending, settled, failRuns, offLoop>>
  BY <1>1 DEF StageReturnsThen
<1>3. /\ stack # <<>> /\ stack[1].op = "stage" /\ stack[1].at = k
      /\ Carries(stack[1]) /\ From(stack[1]) = k
  <2>1. stack # <<>> /\ Top.op = "stage"
    BY DEF StageReturnsThen, At
  <2> QED BY <1>1, <2>1, Inside DEF Carries, From
<1>4. /\ UNCHANGED node /\ UNCHANGED settled
      /\ \A i \in 2..Len(stack) :
            stack[i].op = "resolve" /\ stack[i].at > N + S /\ stack[i].at \notin Sources
  BY <1>2, <1>3, BelowTop
<1>5. /\ OneCarrier' /\ Posted' /\ Reached(0)
      /\ \A j \in Thens : ~Awaits(j)
      /\ Sound(stack[1])
  BY <1>2, <1>3, OnTop
<1>6. /\ k \in 1..S /\ k \in 0..N /\ k + 1 \in 1..N /\ Reached(k) /\ ~Reached(k + 1)
      /\ runs[k] = 0 /\ (k > 1 => runs[k - 1] = 1) /\ k \in Thens
  <2>1. stack[1] \in Calls
    BY <1>3, Inside
  <2>2. k \in Nodes /\ k <= S
    BY <1>3, <1>5, <2>1 DEF Sound, Calls
  <2>3. k \in 1..S
    BY <2>2
  <2> QED BY <1>2, <1>3, <1>5, <2>3 DEF Sound, Thens
<1> DEFINE c == Call("innerFail", k)
           d == Call("innerThen", k)
<1>7. /\ c \in Calls /\ c.at = k /\ c.op = "innerFail"
      /\ d \in Calls /\ d.at = k /\ d.op = "innerThen"
      /\ node[Inner(k)].mNext = Nothing
  <2>1. k \in 1..S /\ k \in Nodes /\ k \in Thens /\ runs[k] = 0
    BY <1>6
  <2>2. node[Inner(k)].mNext = Nothing
    BY <2>1 DEF Ran
  <2> QED BY <2>1, <2>2 DEF Calls, Call
<1> HIDE DEF c, d
<1>8. /\ stack' \in Seq(Calls) /\ Len(stack') = Len(stack) + 1 /\ Len(stack) \in Nat /\ Len(stack) >= 1
      /\ stack'[1] = c /\ stack'[2] = d
      /\ \A i \in 1..Len(stack') : i > 2 => i - 1 \in 2..Len(stack) /\ stack'[i] = stack[i - 1]
      /\ {stack'[i] : i \in 1..Len(stack')} \subseteq {c, d} \cup {stack[i] : i \in 2..Len(stack)}
  <2>1. /\ <<c, d>> \in Seq(Calls) /\ Len(<<c, d>>) = 2 /\ <<c, d>>[1] = c /\ <<c, d>>[2] = d
        /\ Enter(<<c, d>>) /\ {1, 2} = 1..2
    BY <1>2, <1>7 DEF c, d
  <2>2. {<<c, d>>[i] : i \in 1..Len(<<c, d>>)} = {c, d}
    BY <2>1
  <2>3. /\ stack' \in Seq(Calls) /\ Len(stack') = Len(<<c, d>>) + Len(stack) - 1
        /\ \A i \in 1..Len(<<c, d>>) : stack'[i] = <<c, d>>[i]
        /\ \A i \in 1..Len(stack') : i > Len(<<c, d>>) =>
              /\ i - Len(<<c, d>>) + 1 \in 2..Len(stack)
              /\ stack'[i] = stack[i - Len(<<c, d>>) + 1]
        /\ {stack'[i] : i \in 1..Len(stack')}
              \subseteq {<<c, d>>[i] : i \in 1..Len(<<c, d>>)} \cup {stack[i] : i \in 2..Len(stack)}
    BY <1>3, <2>1, Entering
  <2>4. Len(stack) \in Nat /\ Len(stack) >= 1
    BY <1>3, Inside
  <2>5. Len(stack') = Len(stack) + 1 /\ stack'[1] = c /\ stack'[2] = d
    BY <2>1, <2>3, <2>4
  <2>6. \A i \in 1..Len(stack') : i > 2 => i - 1 \in 2..Len(stack) /\ stack'[i] = stack[i - 1]
    <3>1. \A i \in 1..Len(stack') : i - 2 + 1 = i - 1
      OBVIOUS
    <3> QED BY <2>1, <2>3, <3>1
  <2> QED BY <2>2, <2>3, <2>4, <2>5, <2>6
<1>9. runs' \in [1..S -> Nat] /\ runs'[k] = 1 /\ \A j \in 1..S : j # k => runs'[j] = runs[j]
  BY <1>2, <1>6 DEF TypeOK
<1>10. TypeOK' /\ HandlersOnLoop'
  BY <1>2, <1>8, <1>9 DEF TypeOK, HandlersOnLoop
<1>11. ASSUME NEW i \in 1..Len(stack')
       PROVE  \/ i = 1 /\ stack'[i] = c
              \/ i = 2 /\ stack'[i] = d
              \/ /\ i > 2 /\ stack'[i].op = "resolve" /\ stack'[i].at > N + S
                 /\ stack'[i].at \notin Sources
  <2>1. CASE i > 2
    <3>1. i - 1 \in 2..Len(stack) /\ stack'[i] = stack[i - 1]
      BY <1>8, <2>1
    <3> QED BY <1>4, <2>1, <3>1
  <2>2. i = 1 \/ i = 2 \/ i > 2
    BY <1>8
  <2> QED BY <1>8, <2>1, <2>2
<1>12. \A m \in 0..N : Built(m) /\ Built(m)' /\ Built(m)' = Built(m)
  <2>1. \A m \in 0..N : Built(m)
    BY <1>3, AllBuilt
  <2>2. \A m \in 0..N : Built(m)'
    BY <1>7, <1>11 DEF Built
  <2>3. \A m \in 0..N : Built(m) \in BOOLEAN /\ Built(m)' \in BOOLEAN
    BY DEF Built
  <2> QED BY <2>1, <2>2, <2>3
<1>13. \A m \in 0..N : Reached(m)' = Reached(m)
  BY <1>2, <1>12, SameReached
<1>14. Hooks'
  <2>1. \A m \in 1..N : m \in 0..N
    OBVIOUS
  <2>2. \A i \in 1..Len(stack') : stack'[i].op = "innerThen" => stack'[i].at = k
    BY <1>7, <1>11
  <2>3. \A i \in 1..Len(stack') : stack'[i].op = "innerThen" => node'[Inner(stack'[i].at)].mNext = Nothing
    BY <1>4, <1>7, <2>2
  <2> QED BY <1>4, <1>12, <2>1, <2>3 DEF Hooks
<1>15. Shape'
  <2>1. ASSUME NEW i \in 1..Len(stack')
        PROVE  /\ stack'[i].op # "build"
               /\ stack'[i].op \in {"resolve", "reject"} => stack'[i].at \notin Sources
               /\ stack'[i].op = "innerFail" =>
                     i = 1 /\ Len(stack') > 1 /\ stack'[2] = Call("innerThen", stack'[i].at)
               /\ stack'[i].op = "innerThen" =>
                     i = 1 \/ (i = 2 /\ stack'[1] = Call("innerFail", stack'[i].at))
               /\ stack'[i].op \in {"innerFail", "innerThen", "innerNext"} => stack'[i].at \in Thens
               /\ i > 1 => stack'[i].op = "innerThen" \/ (stack'[i].op = "resolve" /\ stack'[i].at > N + S)
    <3>1. CASE i = 1 /\ stack'[i] = c
      BY <1>6, <1>7, <1>8, <3>1 DEF c, d
    <3>2. CASE i = 2 /\ stack'[i] = d
      BY <1>6, <1>7, <1>8, <3>2 DEF c, d
    <3> QED BY <1>11, <3>1, <3>2
  <2> QED BY <2>1 DEF Shape
<1>16. Settlement'
  <2>1. ASSUME NEW n \in Sources, Open(n)' PROVE Open(n)
    <3>1. ~\E i \in 1..Len(stack') : stack'[i].op \in {"resolve", "reject"} /\ stack'[i].at = n
      BY <1>7, <1>11
    <3> QED BY <1>2, <2>1, <3>1 DEF Open
  <2> QED BY <1>2, <2>1 DEF Settlement
<1>17. Calling'
  <2>1. All' \subseteq {c, d} \cup Others
    BY <1>2, <1>8 DEF All, Others
  <2>2. Sound(c)' /\ Sound(d)'
    <3>1. Reached(k)' /\ ~Reached(k + 1)'
      BY <1>6, <1>13
    <3> QED BY <1>6, <1>7, <1>9, <3>1 DEF Sound, From, Carries
  <2>3. \A e \in Others : Sound(e)'
    BY <1>3, <1>9, OthersSound
  <2> QED BY <2>1, <2>2, <2>3, AllCalling
<1>18. Path'
  <2>1. UNCHANGED node /\ Reached(0)'
    BY <1>2, <1>5, <1>13
  <2>2. \A m \in 1..N : m \in 0..N
    OBVIOUS
  <2> QED BY <1>12, <1>13, <2>1, <2>2 DEF Path
<1>19. Waits'
  <2>1. ASSUME NEW j \in Thens, Awaits(j)' PROVE Awaits(j)
    <3>1. ~(stack' # <<>> /\ stack'[1] = Call("innerThen", j))
      BY <1>7, <1>8 DEF Call
    <3>2. ASSUME NEW n \in Sources, Open(n)' PROVE Open(n)
      <4>1. ~\E i \in 1..Len(stack') : stack'[i].op \in {"resolve", "reject"} /\ stack'[i].at = n
        BY <1>7, <1>11
      <4> QED BY <1>2, <3>2, <4>1 DEF Open
    <3> QED BY <1>4, <2>1, <3>1, <3>2 DEF Awaits
  <2> QED BY <1>5, <2>1 DEF Waits
<1>20. Ran'
  <2>1. UNCHANGED <<node, failRuns>>
    BY <1>2
  <2>2. \A j \in 1..S : runs'[j] <= 1 /\ (j > 1 => runs'[j] <= runs'[j - 1])
    <3>1. ASSUME NEW j \in 1..S PROVE runs'[j] <= 1 /\ (j > 1 => runs'[j] <= runs'[j - 1])
      <4>1. runs[j] \in Nat /\ runs[j] <= 1 /\ (j > 1 => j - 1 \in 1..S /\ runs[j] <= runs[j - 1])
        <5>1. runs[j] \in Nat
          BY DEF TypeOK
        <5>2. j > 1 => j - 1 \in 1..S
          OBVIOUS
        <5> QED BY <5>1, <5>2 DEF Ran
      <4>2. CASE j = k
        BY <1>6, <1>9, <4>1, <4>2
      <4>3. CASE j # k
        BY <1>6, <1>9, <4>1, <4>3
      <4> QED BY <4>2, <4>3
    <3> QED BY <3>1
  <2>3. \A j \in 1..S : ~Reached(j)' \/ ~Built(j)' => runs'[j] = 0
    <3>1. 1..S \subseteq 0..N
      OBVIOUS
    <3> QED BY <1>6, <1>12, <1>9, <1>13, <3>1 DEF Ran
  <2>4. \A j \in Thens : runs'[j] = 0 => node'[Inner(j)].mNext = Nothing /\ node'[Inner(j)].mFail = Nothing
    <3>1. \A j \in Thens : runs[j] = 0 => node[Inner(j)].mNext = Nothing /\ node[Inner(j)].mFail = Nothing
      BY DEF Ran
    <3>2. ASSUME NEW j \in Thens, runs'[j] = 0 PROVE runs[j] = 0
      <4>1. j \in 1..S
        OBVIOUS
      <4>2. runs'[k] # 0
        BY <1>9
      <4>3. j # k
        BY <3>2, <4>2
      <4> QED BY <1>9, <3>2, <4>1, <4>3
    <3> QED BY <2>1, <3>1, <3>2
  <2>5. \A n \in 2..N : node'[n].mArg => runs'[n - 1] = 1
    <3>1. \A n \in 2..N : n - 1 \in 1..S
      OBVIOUS
    <3> QED BY <1>9, <2>1, <3>1 DEF Ran
  <2>6. failRuns' <= 1 /\ (~Reached(N)' \/ ~Built(N)' \/ node'[N].mArg => failRuns' = 0)
    <3>1. N \in 0..N
      OBVIOUS
    <3> QED BY <1>12, <1>13, <2>1, <3>1 DEF Ran
  <2> QED BY <2>2, <2>3, <2>4, <2>5, <2>6 DEF Ran
<1> QED BY <1>5, <1>10, <1>14, <1>15, <1>16, <1>17, <1>18, <1>19, <1>20

LEMMA InnerNextInv == IInv /\ InnerNext => IInv'
<1> SUFFICES ASSUME IInv, InnerNext PROVE IInv'
  OBVIOUS
<1> USE Numbers DEF IInv
<1>1. PICK k : k = Top.at
  OBVIOUS
<1> DEFINE c == Call("resolve", k + 1)
           d == Call("resolve", Orphan(k))
<1>2. /\ Enter(<<c, d>>)
      /\ UNCHANGED <<node, queue, sending, settled, runs, failRuns, offLoop>>
  BY <1>1 DEF InnerNext, histVars
<1>3. /\ stack # <<>> /\ stack[1].op = "innerNext" /\ stack[1].at = k
      /\ Carries(stack[1]) /\ From(stack[1]) = k
  <2>1. stack # <<>> /\ Top.op = "innerNext"
    BY DEF InnerNext, At
  <2> QED BY <1>1, <2>1, Inside DEF Carries, From
<1>4. /\ OneCarrier' /\ Posted' /\ Reached(0)
      /\ \A j \in Thens : ~Awaits(j)
      /\ Sound(stack[1])
  BY <1>2, <1>3, OnTop
<1>5. /\ k \in Thens /\ k \in 1..S /\ k \in 0..N /\ k + 1 \in 1..N
      /\ Reached(k) /\ ~Reached(k + 1) /\ runs[k] = 1
  <2>1. 1 \in 1..Len(stack)
    BY <1>3, Inside
  <2>2. k \in Thens
    BY <1>3, <2>1 DEF Shape
  <2>3. k \in 1..S
    BY <2>2
  <2> QED BY <1>3, <1>4, <2>2, <2>3 DEF Sound
<1>6. /\ c \in Calls /\ c.at = k + 1 /\ c.op = "resolve" /\ c.at \notin Sources
      /\ d \in Calls /\ d.at = Orphan(k) /\ d.op = "resolve" /\ d.at \notin Sources /\ d.at > N + S
  BY <1>5 DEF Calls, Call
<1> HIDE DEF c, d
<1>7. /\ \A m \in 0..N : Built(m) /\ Built(m)' /\ Built(m)' = Built(m)
      /\ Shape' /\ stack' \in Seq(Calls)
      /\ {stack'[i] : i \in 1..Len(stack')} \subseteq {c, d} \cup {stack[i] : i \in 2..Len(stack)}
      /\ \A i \in 1..Len(stack') :
            /\ stack'[i].op # "innerThen"
            /\ stack'[i].op \in {"resolve", "reject"} => stack'[i].at \notin Sources
  <2>1. /\ <<c, d>> \in Seq(Calls) /\ Len(<<c, d>>) = 2 /\ <<c, d>>[1] = c /\ <<c, d>>[2] = d
        /\ {1, 2} = 1..2
    BY <1>6
  <2>2. {<<c, d>>[i] : i \in 1..Len(<<c, d>>)} = {c, d}
    BY <2>1
  <2>3. \A i \in 1..Len(<<c, d>>) :
           /\ <<c, d>>[i].op \in {"resolve", "reject", "stage", "innerNext", "failed"}
           /\ <<c, d>>[i].op \in {"resolve", "reject"} => <<c, d>>[i].at \notin Sources
           /\ <<c, d>>[i].op = "innerNext" => <<c, d>>[i].at \in Thens
           /\ i > 1 => <<c, d>>[i].op = "resolve" /\ <<c, d>>[i].at > N + S
    <3>1. \A i \in 1..Len(<<c, d>>) : i = 1 \/ i = 2
      BY <2>1
    <3> QED BY <1>6, <2>1, <3>1
  <2>4. stack[1].op \notin {"build", "innerFail"} /\ UNCHANGED settled
    BY <1>2, <1>3
  <2>5. /\ \A m \in 0..N : Built(m) /\ Built(m)' /\ Built(m)' = Built(m)
        /\ Shape' /\ stack' \in Seq(Calls)
        /\ {stack'[i] : i \in 1..Len(stack')}
              \subseteq {<<c, d>>[i] : i \in 1..Len(<<c, d>>)} \cup {stack[i] : i \in 2..Len(stack)}
        /\ \A i \in 1..Len(stack') :
              /\ stack'[i].op # "innerThen"
              /\ stack'[i].op \in {"resolve", "reject"} => stack'[i].at \notin Sources
    BY <1>2, <1>3, <2>1, <2>3, <2>4, Replaced
  <2> QED BY <2>2, <2>5
<1>8. TypeOK' /\ HandlersOnLoop'
  BY <1>2, <1>7 DEF TypeOK, HandlersOnLoop
<1>9. \A m \in 0..N : Reached(m)' = Reached(m)
  BY <1>2, <1>7, SameReached
<1>10. Hooks'
  <2>1. UNCHANGED node /\ \A m \in 1..N : m \in 0..N
    BY <1>2
  <2> QED BY <1>7, <2>1 DEF Hooks
<1>11. ASSUME NEW n \in Sources, Open(n)' PROVE Open(n)
  BY <1>2, <1>7, <1>11 DEF Open
<1>12. Settlement'
  BY <1>2, <1>11 DEF Settlement
<1>13. Calling'
  <2>1. All' \subseteq {c, d} \cup Others
    BY <1>2, <1>7 DEF All, Others
  <2>2. Sound(c)' /\ Sound(d)'
    <3>1. Reached(k)' /\ ~Reached(k + 1)' /\ runs'[k] = 1
      BY <1>2, <1>5, <1>9
    <3>2. d.at \notin 2..N /\ ~(d.at <= N)
      BY <1>5, <1>6
    <3>3. Sound(c)'
      BY <1>5, <1>6, <3>1 DEF Sound, From
    <3>4. Sound(d)'
      BY <1>6, <3>2 DEF Sound, Carries
    <3> QED BY <3>3, <3>4
  <2>3. \A e \in Others : Sound(e)'
    BY <1>2, <1>3, OthersSound
  <2> QED BY <2>1, <2>2, <2>3, AllCalling
<1>14. Path'
  <2>1. UNCHANGED node /\ Reached(0)'
    BY <1>2, <1>4, <1>9
  <2>2. \A m \in 1..N : m \in 0..N
    OBVIOUS
  <2> QED BY <1>7, <1>9, <2>1, <2>2 DEF Path
<1>15. Waits'
  <2>1. ASSUME NEW j \in Thens, Awaits(j)' PROVE Awaits(j)
    <3>1. ~(stack' # <<>> /\ stack'[1] = Call("innerThen", j))
      <4>1. stack' # <<>> => 1 \in 1..Len(stack')
        BY <1>7
      <4> QED BY <1>7, <4>1 DEF Call
    <3> QED BY <1>2, <1>11, <2>1, <3>1 DEF Awaits
  <2> QED BY <1>4, <2>1 DEF Waits
<1>16. Ran'
  BY <1>2, <1>7, <1>9, SameRan
<1> QED BY <1>4, <1>7, <1>8, <1>10, <1>12, <1>13, <1>14, <1>15, <1>16

LEMMA FailedInv == IInv /\ Failed => IInv'
<1> SUFFICES ASSUME IInv, Failed PROVE IInv'
  OBVIOUS
<1> USE Numbers DEF IInv
<1>1. /\ Enter(<<>>) /\ failRuns' = failRuns + 1
      /\ UNCHANGED <<node, queue, sending, settled, runs, offLoop>>
  BY DEF Failed
<1>2. stack # <<>> /\ stack[1].op = "failed" /\ Carries(stack[1]) /\ From(stack[1]) = stack[1].at
  <2>1. stack # <<>> /\ Top.op = "failed"
    BY DEF Failed, At
  <2> QED BY <2>1, Inside DEF Carries, From
<1>3. /\ OneCarrier' /\ Posted' /\ Reached(0)
      /\ \A j \in Thens : ~Awaits(j)
      /\ (\A i \in 1..Len(stack') : ~Carries(stack'[i])) => NoCarrier'
      /\ Sound(stack[1])
  BY <1>1, <1>2, OnTop
<1>4. stack[1].at = N /\ Reached(N) /\ Built(N) /\ ~node[N].mArg /\ failRuns = 0
  BY <1>2, <1>3 DEF Sound
<1>5. /\ \A m \in 0..N : Built(m) /\ Built(m)' /\ Built(m)' = Built(m)
      /\ Shape' /\ stack' \in Seq(Calls)
      /\ {stack'[i] : i \in 1..Len(stack')} \subseteq {stack[i] : i \in 2..Len(stack)}
      /\ \A i \in 1..Len(stack') :
            /\ stack'[i].op # "innerThen"
            /\ stack'[i].op \in {"resolve", "reject"} => stack'[i].at \notin Sources
  <2>1. stack[1].op \notin {"build", "innerFail"} /\ UNCHANGED settled
    BY <1>1, <1>2
  <2> QED BY <1>1, <1>2, <2>1, ReplacedByNone
<1>6. TypeOK' /\ HandlersOnLoop'
  <2>1. failRuns' \in Nat
    BY <1>1, <1>4
  <2> QED BY <1>1, <1>5, <2>1 DEF TypeOK, HandlersOnLoop
<1>7. \A m \in 0..N : Reached(m)' = Reached(m)
  BY <1>1, <1>5, SameReached
<1>8. Hooks'
  <2>1. UNCHANGED node /\ \A m \in 1..N : m \in 0..N
    BY <1>1
  <2> QED BY <1>5, <2>1 DEF Hooks
<1>9. ASSUME NEW n \in Sources, Open(n)' PROVE Open(n)
  BY <1>1, <1>5, <1>9 DEF Open
<1>10. Settlement'
  BY <1>1, <1>9 DEF Settlement
<1>11. Calling'
  <2>1. All' \subseteq Others
    BY <1>1, <1>5 DEF All, Others
  <2>2. \A e \in Others : Sound(e)'
    BY <1>1, <1>2, OthersSound
  <2> QED BY <2>1, <2>2, AllCalling
<1>12. Path'
  <2>1. UNCHANGED node /\ Reached(0)'
    BY <1>1, <1>3, <1>7
  <2>2. \A m \in 1..N : m \in 0..N
    OBVIOUS
  <2> QED BY <1>5, <1>7, <2>1, <2>2 DEF Path
<1>13. Waits'
  <2>1. ASSUME NEW j \in Thens, Awaits(j)' PROVE Awaits(j)
    <3>1. ~(stack' # <<>> /\ stack'[1] = Call("innerThen", j))
      <4>1. stack' # <<>> => 1 \in 1..Len(stack')
        BY <1>5
      <4> QED BY <1>5, <4>1 DEF Call
    <3> QED BY <1>1, <1>9, <2>1, <3>1 DEF Awaits
  <2> QED BY <1>3, <2>1 DEF Waits
<1>14. Ran'
  <2>1. UNCHANGED <<node, runs>> /\ failRuns' = 1
    BY <1>1, <1>4
  <2>2. 1..S \subseteq 0..N /\ N \in 0..N
    OBVIOUS
  <2>3. ~(~Reached(N)' \/ ~Built(N)' \/ node'[N].mArg)
    BY <1>4, <1>5, <1>7, <2>1, <2>2
  <2>4. \A j \in 1..S : ~Reached(j)' \/ ~Built(j)' => runs'[j] = 0
    BY <1>5, <1>7, <2>1, <2>2 DEF Ran
  <2> QED BY SMTT(20), <2>1, <2>3, <2>4 DEF Ran
<1> QED BY <1>3, <1>5, <1>6, <1>8, <1>10, <1>11, <1>12, <1>13, <1>14

LEMMA InnerFailInv == IInv /\ InnerFail => IInv'
<1> SUFFICES ASSUME IInv, InnerFail PROVE IInv'
  OBVIOUS
<1> USE Numbers DEF IInv
<1>1. PICK k : k = Top.at
  OBVIOUS
<1> DEFINE n == Inner(k)
           fail == Call("reject", k + 1)
           r == FailState(node[n], fail)
<1>2. /\ node' = [node EXCEPT ![n] = r]
      /\ queue' = queue \o If(node[n].mFailed, fail)
      /\ Enter(<<>>)
      /\ UNCHANGED <<sending, settled, runs, failRuns, offLoop>>
  BY <1>1 DEF InnerFail, FailPosts, histVars
<1>3. /\ stack # <<>> /\ stack[1].op = "innerFail" /\ stack[1].at = k /\ 1 \in 1..Len(stack)
      /\ Carries(stack[1]) /\ From(stack[1]) = k
  <2>1. stack # <<>> /\ Top.op = "innerFail"
    BY DEF InnerFail, At
  <2> QED BY <1>1, <2>1, Inside DEF Carries, From
<1>4. /\ Len(stack) > 1 /\ Len(stack) \in Nat /\ stack[2] = Call("innerThen", k) /\ 2 \in 1..Len(stack)
      /\ k \in Thens /\ k \in 1..S
  <2>1. Len(stack) \in Nat
    BY <1>3, Inside
  <2>2. Len(stack) > 1 /\ stack[2] = Call("innerThen", k) /\ k \in Thens
    BY <1>3 DEF Shape
  <2>3. 2 \in 1..Len(stack) /\ k \in 1..S
    BY <2>1, <2>2
  <2> QED BY <2>1, <2>2, <2>3
<1>5. /\ n \in Nodes /\ n \in Sources /\ n > N /\ k \in 0..N /\ k + 1 \in 0..N /\ k < N
      /\ k + 1 \notin Sources
      /\ fail \in Calls /\ fail.op = "reject" /\ fail.at = k + 1 /\ fail # Nothing
  BY SMTT(20), <1>4 DEF Calls, Call, Nothing
<1>6. /\ r \in [mNext : Handlers, mFail : Handlers, mArg : BOOLEAN, mFailed : BOOLEAN, mLoop : BOOLEAN]
      /\ r.mArg = node[n].mArg /\ r.mFailed = node[n].mFailed /\ r.mNext = node[n].mNext
      /\ r.mFail = IF node[n].mFailed THEN Nothing ELSE fail
      /\ r.mLoop <=> node[n].mLoop \/ ~node[n].mFailed
      /\ node[n].mFailed \in BOOLEAN
  <2>1. node[n].mFailed \in BOOLEAN
    BY <1>5 DEF TypeOK
  <2> QED BY <1>5, <2>1, FailFields
<1>7. /\ \A i \in 1..Len(queue) : ~Carries(queue[i])
      /\ \A m \in Sources : ~Carries(sending[m])
      /\ Sound(stack[1]) /\ ~NoCarrier
  BY <1>3, Inside DEF Calling, NoCarrier
<1>8. /\ Reached(k) /\ ~Reached(k + 1) /\ runs[k] = 1 /\ Reached(0)
      /\ \A j \in Thens : ~Awaits(j)
      /\ \A m \in 0..N : Built(m)
  BY <1>3, <1>5, <1>7, AllBuilt DEF Sound, Path, Waits
<1> HIDE DEF r, fail
<1>9. /\ node'[n] = r
      /\ \A m \in Nodes : m # n => node'[m] = node[m]
      /\ \A m \in Nodes : node'[m].mArg = node[m].mArg /\ node'[m].mFailed = node[m].mFailed
  BY <1>2, <1>5, <1>6 DEF TypeOK
<1>10. /\ stack' \in Seq(Calls) /\ Len(stack') = Len(stack) - 1
       /\ stack'[1] = Call("innerThen", k) /\ 1 \in 1..Len(stack')
       /\ \A i \in 1..Len(stack') : i + 1 \in 2..Len(stack) /\ stack'[i] = stack[i + 1]
       /\ {stack'[i] : i \in 1..Len(stack')} \subseteq {stack[i] : i \in 2..Len(stack)}
  <2>1. <<>> \in Seq(Calls) /\ Len(<<>>) = 0
    OBVIOUS
  <2>2. /\ stack' \in Seq(Calls) /\ Len(stack') = Len(<<>>) + Len(stack) - 1
        /\ \A i \in 1..Len(stack') : i > Len(<<>>) =>
              i - Len(<<>>) + 1 \in 2..Len(stack) /\ stack'[i] = stack[i - Len(<<>>) + 1]
    BY <1>2, <1>3, <2>1, Entering
  <2>3. Len(stack') = Len(stack) - 1 /\ 1 \in 1..Len(stack')
    BY <1>4, <2>1, <2>2
  <2>4. \A i \in 1..Len(stack') : i > 0 /\ i - 0 + 1 = i + 1
    OBVIOUS
  <2>5. \A i \in 1..Len(stack') : i + 1 \in 2..Len(stack) /\ stack'[i] = stack[i + 1]
    BY <2>1, <2>2, <2>4
  <2>6. stack'[1] = Call("innerThen", k)
    BY <1>4, <2>3, <2>5
  <2>7. {stack'[i] : i \in 1..Len(stack')} \subseteq {stack[i] : i \in 2..Len(stack)}
    BY <2>5
  <2>8. stack' \in Seq(Calls)
    BY <2>2
  <2> QED BY <2>3, <2>5, <2>6, <2>7, <2>8
<1>11. ASSUME NEW i \in 1..Len(stack')
       PROVE  \/ i = 1 /\ stack'[i] = Call("innerThen", k)
              \/ /\ i > 1 /\ stack'[i].op = "resolve" /\ stack'[i].at > N + S
                 /\ stack'[i].at \notin Sources
  <2>1. CASE i = 1
    BY <1>10, <2>1
  <2>2. CASE i # 1
    <3>1. i > 1 /\ i + 1 \in 1..Len(stack) /\ i + 1 > 2 /\ stack'[i] = stack[i + 1]
      <4>1. PICK j \in 2..Len(stack) : j = i + 1 /\ stack'[i] = stack[j]
        BY <1>10
      <4>2. i > 1
        BY <2>2
      <4>3. j \in 1..Len(stack)
        BY <1>4
      <4> QED BY <4>1, <4>2, <4>3
    <3>2. stack[i + 1].op # "innerThen"
      BY <3>1 DEF Shape
    <3>3. stack[i + 1].op = "resolve" /\ stack[i + 1].at > N + S
      BY <3>1, <3>2 DEF Shape
    <3>4. stack'[i].at \in Nodes
      <4>1. stack'[i] \in Calls
        BY <1>10
      <4> QED BY <4>1 DEF Calls
    <3> QED BY <3>1, <3>3, <3>4 DEF Nodes
  <2> QED BY <2>1, <2>2
<1>12. Call("innerThen", k).op = "innerThen" /\ Call("innerThen", k).at = k
  BY DEF Call
<1>13. \A m \in 0..N : Built(m) /\ Built(m)' /\ Built(m)' = Built(m)
  <2>1. \A m \in 0..N : Built(m)'
    BY <1>11, <1>12 DEF Built
  <2>2. \A m \in 0..N : Built(m) \in BOOLEAN /\ Built(m)' \in BOOLEAN
    BY DEF Built
  <2> QED BY <1>8, <2>1, <2>2
<1>14. \A m \in 0..N : Reached(m)' = Reached(m)
  <2>1. \A m \in 1..N : m \in Nodes /\ m # n
    BY <1>5
  <2> QED BY <1>2, <1>9, <1>13, <2>1, SameReached
<1>15. /\ ~node[n].mFailed => queue' = queue
       /\ node[n].mFailed => queue' = Append(queue, fail)
  <2>1. queue \in Seq(Calls)
    BY DEF TypeOK
  <2> QED BY <1>2, <1>5, <1>6, <2>1, PostsOne
<1>16. TypeOK' /\ HandlersOnLoop'
  <2>1. queue' \in Seq(Calls)
    <3>1. queue \in Seq(Calls)
      BY DEF TypeOK
    <3>2. queue' = queue \/ queue' = Append(queue, fail)
      BY <1>6, <1>15
    <3>3. \A c \in Calls : queue' = Append(queue, c) => queue' \in Seq(Calls)
      BY <3>1
    <3> QED BY <1>5, <3>1, <3>2, <3>3
  <2>2. node' \in [Nodes -> [mNext : Handlers, mFail : Handlers, mArg : BOOLEAN, mFailed : BOOLEAN, mLoop : BOOLEAN]]
    BY <1>2, <1>5, <1>6 DEF TypeOK
  <2> QED BY <1>2, <1>10, <2>1, <2>2 DEF TypeOK, HandlersOnLoop
<1>17. Hooks'
  <2>1. ASSUME NEW j \in 1..S
        PROVE  /\ Orphan(j) \in Nodes /\ Orphan(j) # n /\ j \in Nodes /\ j # n
               /\ Inner(j) \in Nodes /\ (j # k => Inner(j) # n)
    BY <1>4
  <2>2. \A j \in 1..S :
           /\ node'[Orphan(j)] = node[Orphan(j)] /\ node'[j] = node[j]
           /\ j # k => node'[Inner(j)] = node[Inner(j)]
    BY <1>9, <2>1
  <2>3. \A m \in 1..N : m \in 0..N
    OBVIOUS
  <2>4. node'[N] = node[N]
    BY <1>5, <1>9
  <2>5. /\ node'[Inner(k)].mNext = node[Inner(k)].mNext
        /\ node'[Inner(k)].mFail \in {Nothing, Call("reject", k + 1)}
        /\ node[Inner(k)].mNext = Nothing
    <3>1. stack[2].op = "innerThen" /\ stack[2].at = k
      BY <1>4, <1>12
    <3> QED BY <1>4, <1>6, <1>9, <3>1 DEF Hooks, fail
  <2>6. \A i \in 1..Len(stack') : stack'[i].op = "innerThen" => node'[Inner(stack'[i].at)].mNext = Nothing
    <3>1. \A i \in 1..Len(stack') : stack'[i].op = "innerThen" => stack'[i].at = k
      BY <1>11, <1>12
    <3> QED BY <2>5, <3>1
  <2>7. /\ \A j \in 1..S :
              /\ node'[j].mNext \in {Nothing, Call("stage", j)}
              /\ node'[j].mFail \in {Nothing, Call("reject", j + 1)}
              /\ node'[Orphan(j)].mNext = Nothing /\ node'[Orphan(j)].mFail = Nothing
        /\ node'[N].mNext = Nothing
        /\ node'[N].mFail \in {Nothing, Call("failed", N)}
    BY <2>2, <2>4 DEF Hooks
  <2>8. \A j \in 1..S :
           /\ node'[Inner(j)].mNext \in {Nothing, Call("innerNext", j)}
           /\ node'[Inner(j)].mFail \in {Nothing, Call("reject", j + 1), Call("reject", Orphan(j))}
    BY <2>2, <2>5 DEF Hooks
  <2>9. \A j \in (1..S) \ Thens : node'[Inner(j)].mNext = Nothing /\ node'[Inner(j)].mFail = Nothing
    BY SMTT(20), <1>4, <2>2 DEF Hooks
  <2> QED BY <1>13, <2>3, <2>6, <2>7, <2>8, <2>9 DEF Hooks
<1>18. Shape'
  <2>1. ASSUME NEW i \in 1..Len(stack')
        PROVE  /\ stack'[i].op \in {"innerThen", "resolve"}
               /\ stack'[i].op \in {"resolve", "reject"} => stack'[i].at \notin Sources
               /\ stack'[i].op = "innerThen" => i = 1 /\ stack'[i].at \in Thens
               /\ i > 1 => stack'[i].op = "innerThen" \/ (stack'[i].op = "resolve" /\ stack'[i].at > N + S)
    BY <1>4, <1>11, <1>12
  <2> QED BY <2>1 DEF Shape
<1>19. Posted'
  <2>1. UNCHANGED sending /\ queue \in Seq(Calls)
    BY <1>2 DEF TypeOK
  <2>2. CASE queue' = queue
    BY <2>1, <2>2 DEF Posted
  <2>3. CASE queue' = Append(queue, fail)
    <3>1. \A i \in 1..Len(queue') : (i \in 1..Len(queue) /\ queue'[i] = queue[i]) \/ queue'[i] = fail
      BY <1>5, <2>1, <2>3, Appended
    <3>2. fail.op = "reject" /\ fail.at \notin Sources
      BY <1>5
    <3> QED BY <2>1, <3>1, <3>2 DEF Posted
  <2> QED BY <1>6, <1>15, <2>2, <2>3
<1>20. ASSUME NEW m \in Sources, Open(m)' PROVE Open(m)
  <2>1. ~\E i \in 1..Len(stack') : stack'[i].op \in {"resolve", "reject"} /\ stack'[i].at = m
    BY <1>11, <1>12
  <2> QED BY <1>2, <1>20, <2>1 DEF Open
<1>21. Settlement'
  <2>1. ASSUME NEW m \in Sources, settled[m] = "no", node'[m].mNext # Nothing \/ node'[m].mFail # Nothing
        PROVE  node'[m].mLoop
    <3>1. m \in Nodes
      OBVIOUS
    <3>2. CASE m = n
      <4>1. ~node[n].mFailed
        BY <2>1, <3>2 DEF Settlement, Open
      <4> QED BY <1>6, <1>9, <3>2, <4>1
    <3>3. CASE m # n
      BY <1>9, <2>1, <3>1, <3>3 DEF Settlement
    <3> QED BY <3>2, <3>3
  <2>2. /\ UNCHANGED <<sending, settled>> /\ Sources \subseteq Nodes
        /\ \A m \in Nodes : node'[m].mArg = node[m].mArg /\ node'[m].mFailed = node[m].mFailed
    BY <1>2, <1>9
  <2> QED BY <1>20, <2>1, <2>2 DEF Settlement
<1>22. \A i \in 1..Len(stack') : ~Carries(stack'[i])
  BY <1>3, <1>10, Inside DEF Carries
<1>23. OneCarrier' /\ (~node[n].mFailed => NoCarrier')
  <2>1. UNCHANGED sending
    BY <1>2
  <2>2. CASE node[n].mFailed
    <3>1. OneCarrier'
      BY <1>5, <1>7, <1>15, <1>22, <2>1, <2>2, OnePosted
    <3> QED BY <2>2, <3>1
  <2>3. CASE ~node[n].mFailed
    <3>1. queue' = queue
      BY <1>15, <2>3
    <3>2. OneCarrier'
      BY <1>22, <2>1, <3>1, NoneAdded
    <3>3. NoCarrier'
      BY <1>7, <1>22, <2>1, <3>1 DEF NoCarrier
    <3> QED BY <3>2, <3>3
  <2> QED BY <2>2, <2>3
<1>24. Calling'
  <2>1. Sound(fail)'
    <3>1. Reached(k)' /\ ~Reached(k + 1)'
      BY <1>5, <1>8, <1>14
    <3> QED BY <1>5, <3>1 DEF Sound, From
  <2>2. ASSUME NEW c \in All' PROVE c \in Others \/ c = fail
    <3>1. \/ c \in {stack'[i] : i \in 1..Len(stack')} \/ \E m \in Sources : c = sending[m]
          \/ \E i \in 1..Len(queue') : c = queue'[i]
      BY <1>2, <2>2 DEF All
    <3>2. ASSUME NEW i \in 1..Len(queue'), c = queue'[i] PROVE c \in Others \/ c = fail
      <4>1. queue \in Seq(Calls)
        BY DEF TypeOK
      <4>2. CASE queue' = queue
        BY <3>2, <4>2 DEF Others
      <4>3. CASE queue' = Append(queue, fail)
        BY <1>5, <3>2, <4>1, <4>3, Appended DEF Others
      <4> QED BY <1>6, <1>15, <4>2, <4>3
    <3> QED BY <1>10, <3>1, <3>2 DEF Others
  <2>3. \A c \in Others : Sound(c)'
    BY <1>2, <1>3, OthersSound
  <2> QED BY <2>1, <2>2, <2>3, AllCalling
<1>25. Path'
  <2>1. Reached(0)' /\ \A m \in 1..N : m \in 0..N
    BY <1>8, <1>14
  <2>2. \A m \in 1..N : ~(node'[m].mArg /\ node'[m].mFailed)
    <3>1. 1..N \subseteq Nodes
      OBVIOUS
    <3> QED BY <1>9, <3>1 DEF Path
  <2> QED BY <1>13, <1>14, <2>1, <2>2 DEF Path
<1>26. Waits'
  <2>1. ASSUME NEW j \in Thens, Awaits(j)'
        PROVE  NoCarrier' /\ Reached(j)' /\ ~Reached(j + 1)' /\ runs'[j] = 1
    <3>1. Inner(j) \in Sources /\ Inner(j) \in Nodes /\ (j # k => Inner(j) # n)
      BY <1>4, Inners
    <3>2. j = k
      <4>1. ASSUME j # k PROVE FALSE
        <5>1. ~(stack'[1] = Call("innerThen", j))
          BY <1>10, <4>1 DEF Call
        <5>2. node'[Inner(j)] = node[Inner(j)]
          BY <1>9, <3>1, <4>1
        <5>3. Awaits(j)
          BY <1>20, <2>1, <3>1, <5>1, <5>2 DEF Awaits
        <5> QED BY <1>8, <5>3
      <4> QED BY <4>1
    <3>3. ~node[n].mFailed
      <4>1. CASE Open(n)'
        BY <1>5, <1>20, <4>1 DEF Settlement
      <4>2. CASE settled'[n] # "reject"
        BY <1>2, <1>5, <4>2 DEF Settlement
      <4> QED BY <2>1, <3>2, <4>1, <4>2 DEF Awaits
    <3> QED BY <1>2, <1>5, <1>8, <1>14, <1>23, <3>2, <3>3
  <2> QED BY <2>1 DEF Waits
<1>27. Ran'
  <2>1. \A m \in 1..N : m \in Nodes /\ m \in 0..N
    OBVIOUS
  <2>2. \A m \in 1..N : node'[m].mArg = node[m].mArg /\ (Built(m) => Built(m)')
    BY <1>9, <1>13, <2>1
  <2>3. \A j \in Thens : runs[j] = 0 => node'[Inner(j)] = node[Inner(j)]
    <3>1. ASSUME NEW j \in Thens, j # k PROVE Inner(j) \in Nodes /\ Inner(j) # n
      BY <1>4, <3>1, Inners
    <3> QED BY <1>8, <1>9, <3>1
  <2> QED BY <1>2, <1>14, <2>2, <2>3, SameRan
<1> QED BY <1>16, <1>17, <1>18, <1>19, <1>21, <1>23, <1>24, <1>25, <1>26, <1>27

LEMMA InnerThenInv == IInv /\ InnerThen => IInv'
<1> SUFFICES ASSUME IInv, InnerThen PROVE IInv'
  OBVIOUS
<1> USE Numbers DEF IInv
<1>1. PICK k : k = Top.at
  OBVIOUS
<1> DEFINE n == Inner(k)
           next == Call("innerNext", k)
           fail == Call("reject", Orphan(k))
           r == ThenState(node[n], next, fail)
<1>2. /\ node' = [node EXCEPT ![n] = r]
      /\ queue' = queue \o (If(node[n].mFailed, fail) \o If(node[n].mArg, next))
      /\ Enter(<<>>)
      /\ UNCHANGED <<sending, settled, runs, failRuns, offLoop>>
  BY <1>1 DEF InnerThen, ThenPosts, histVars
<1>3. /\ stack # <<>> /\ stack[1].op = "innerThen" /\ stack[1].at = k /\ 1 \in 1..Len(stack)
      /\ stack[1] = Call("innerThen", k)
  <2>1. stack # <<>> /\ Top.op = "innerThen"
    BY DEF InnerThen, At
  <2>2. stack[1] = Top /\ stack[1] \in Calls /\ 1 \in 1..Len(stack)
    BY <2>1, Inside
  <2> QED BY <1>1, <2>1, <2>2 DEF Calls, Call
<1>4. /\ k \in Thens /\ k \in 1..S
      /\ runs[k] = 1
  <2>1. k \in Thens /\ Sound(stack[1])
    BY <1>3 DEF Shape, Calling
  <2>2. k \in 1..S
    BY <2>1
  <2> QED BY <1>3, <2>1, <2>2 DEF Sound
<1>5. /\ n \in Nodes /\ n \in Sources /\ n > N /\ k \in 0..N /\ k + 1 \in 0..N /\ k < N
      /\ fail \in Calls /\ fail.op = "reject" /\ fail.at = Orphan(k) /\ fail # Nothing /\ ~Carries(fail)
      /\ fail.at \notin Sources
      /\ next \in Calls /\ next.op = "innerNext" /\ next.at = k /\ next # Nothing
  BY <1>4 DEF Calls, Call, Nothing, Carries
<1>6. /\ r \in [mNext : Handlers, mFail : Handlers, mArg : BOOLEAN, mFailed : BOOLEAN, mLoop : BOOLEAN]
      /\ r.mArg = node[n].mArg /\ r.mFailed = node[n].mFailed
      /\ r.mNext = IF node[n].mArg THEN Nothing ELSE next
      /\ r.mFail = IF node[n].mFailed THEN Nothing ELSE fail
      /\ r.mLoop <=> node[n].mLoop \/ ~node[n].mArg
      /\ node[n].mArg \in BOOLEAN /\ node[n].mFailed \in BOOLEAN
  <2>1. node[n].mArg \in BOOLEAN /\ node[n].mFailed \in BOOLEAN
    BY <1>5 DEF TypeOK
  <2> QED BY <1>5, <2>1, ThenFields
<1> HIDE DEF r, fail, next
<1>7. /\ node'[n] = r
      /\ \A m \in Nodes : m # n => node'[m] = node[m]
      /\ \A m \in Nodes : node'[m].mArg = node[m].mArg /\ node'[m].mFailed = node[m].mFailed
  BY <1>2, <1>5, <1>6 DEF TypeOK
<1>8. /\ ~(node[n].mArg /\ node[n].mFailed)
      /\ node[n].mArg => NoCarrier /\ Reached(k) /\ ~Reached(k + 1)
  <2>1. ~(node[n].mArg /\ node[n].mFailed)
    BY <1>5 DEF Settlement
  <2>2. ASSUME node[n].mArg PROVE NoCarrier /\ Reached(k) /\ ~Reached(k + 1)
    <3>1. settled[n] # "reject"
      BY <1>5, <2>2 DEF Settlement
    <3>2. Awaits(k)
      BY <1>3, <3>1 DEF Awaits
    <3> QED BY <1>4, <3>2 DEF Waits
  <2> QED BY <2>1, <2>2
<1>9. /\ ~node[n].mArg /\ ~node[n].mFailed => queue' = queue
      /\ node[n].mArg => queue' = Append(queue, next)
      /\ node[n].mFailed => queue' = Append(queue, fail)
  <2>1. queue \in Seq(Calls)
    BY DEF TypeOK
  <2> QED BY <1>2, <1>5, <1>6, <1>8, <2>1, Posts
<1>10. /\ \A m \in 0..N : Built(m) /\ Built(m)' /\ Built(m)' = Built(m)
       /\ Shape' /\ stack' \in Seq(Calls)
       /\ {stack'[i] : i \in 1..Len(stack')} \subseteq {stack[i] : i \in 2..Len(stack)}
       /\ \A i \in 1..Len(stack') :
             /\ stack'[i].op # "innerThen"
             /\ stack'[i].op \in {"resolve", "reject"} => stack'[i].at \notin Sources
  <2>1. stack[1].op \notin {"build", "innerFail"} /\ UNCHANGED settled
    BY <1>2, <1>3
  <2> QED BY <1>2, <1>3, <2>1, ReplacedByNone
<1>11. \A m \in 0..N : Reached(m)' = Reached(m)
  <2>1. \A m \in 1..N : m \in Nodes /\ m # n
    BY <1>5
  <2>2. \A m \in 1..N : node'[m] = node[m] /\ m \in 0..N
    BY <1>7, <2>1
  <2>3. \A m \in 1..N : Built(m)' = Built(m)
    BY <1>10, <2>2
  <2> QED BY <1>2, <2>2, <2>3, SameReached
<1>12. TypeOK' /\ HandlersOnLoop'
  <2>1. queue' \in Seq(Calls)
    <3>1. queue \in Seq(Calls)
      BY DEF TypeOK
    <3>2. queue' = queue \/ queue' = Append(queue, fail) \/ queue' = Append(queue, next)
      BY <1>6, <1>9
    <3>3. \A c \in Calls : queue' = Append(queue, c) => queue' \in Seq(Calls)
      BY <3>1
    <3> QED BY <1>5, <3>1, <3>2, <3>3
  <2>2. node' \in [Nodes -> [mNext : Handlers, mFail : Handlers, mArg : BOOLEAN, mFailed : BOOLEAN, mLoop : BOOLEAN]]
    BY <1>2, <1>5, <1>6 DEF TypeOK
  <2> QED BY <1>2, <1>10, <2>1, <2>2 DEF TypeOK, HandlersOnLoop
<1>13. Hooks'
  <2>1. ASSUME NEW j \in 1..S
        PROVE  /\ Orphan(j) \in Nodes /\ Orphan(j) # n /\ j \in Nodes /\ j # n
               /\ Inner(j) \in Nodes /\ (j # k => Inner(j) # n)
    BY <1>4
  <2>2. \A j \in 1..S :
           /\ node'[Orphan(j)] = node[Orphan(j)] /\ node'[j] = node[j]
           /\ j # k => node'[Inner(j)] = node[Inner(j)]
    BY <1>7, <2>1
  <2>3. \A m \in 1..N : m \in 0..N
    OBVIOUS
  <2>4. node'[N] = node[N]
    <3>1. N \in Nodes /\ N # n
      BY <1>5
    <3> QED BY <1>7, <3>1
  <2>5. /\ node'[Inner(k)].mNext \in {Nothing, Call("innerNext", k)}
        /\ node'[Inner(k)].mFail \in {Nothing, Call("reject", Orphan(k))}
    BY <1>6, <1>7 DEF fail, next
  <2>6. /\ \A j \in 1..S :
              /\ node'[j].mNext \in {Nothing, Call("stage", j)}
              /\ node'[j].mFail \in {Nothing, Call("reject", j + 1)}
              /\ node'[Orphan(j)].mNext = Nothing /\ node'[Orphan(j)].mFail = Nothing
        /\ node'[N].mNext = Nothing
        /\ node'[N].mFail \in {Nothing, Call("failed", N)}
    BY <2>2, <2>4 DEF Hooks
  <2>7. \A j \in 1..S :
           /\ node'[Inner(j)].mNext \in {Nothing, Call("innerNext", j)}
           /\ node'[Inner(j)].mFail \in {Nothing, Call("reject", j + 1), Call("reject", Orphan(j))}
    BY <2>2, <2>5 DEF Hooks
  <2>8. \A j \in (1..S) \ Thens : node'[Inner(j)].mNext = Nothing /\ node'[Inner(j)].mFail = Nothing
    BY <1>4, <2>2 DEF Hooks
  <2> QED BY <1>10, <2>3, <2>6, <2>7, <2>8 DEF Hooks
<1>14. Posted'
  <2>1. UNCHANGED sending /\ queue \in Seq(Calls)
    BY <1>2 DEF TypeOK
  <2>2. CASE queue' = queue
    BY <2>1, <2>2 DEF Posted
  <2>3. ASSUME NEW c \in Calls, c \in {next, fail}, queue' = Append(queue, c) PROVE Posted'
    <3>1. \A i \in 1..Len(queue') : (i \in 1..Len(queue) /\ queue'[i] = queue[i]) \/ queue'[i] = c
      BY <2>1, <2>3, Appended
    <3>2. /\ c.op \in {"innerNext", "reject"} /\ (c.op = "reject" => c.at \notin Sources)
          /\ c.op = "innerNext" => c.at \in Thens
      BY <1>4, <1>5, <2>3
    <3> QED BY <2>1, <3>1, <3>2 DEF Posted
  <2> QED BY <1>5, <1>6, <1>9, <2>2, <2>3
<1>15. ASSUME NEW m \in Sources, Open(m)' PROVE Open(m) /\ settled[m] = "no"
  <2>1. ~\E i \in 1..Len(stack') : stack'[i].op \in {"resolve", "reject"} /\ stack'[i].at = m
    BY <1>10
  <2> QED BY <1>2, <1>15, <2>1 DEF Open
<1>16. Settlement'
  <2>1. ASSUME NEW m \in Sources, settled[m] = "no", node'[m].mNext # Nothing \/ node'[m].mFail # Nothing
        PROVE  node'[m].mLoop
    <3>1. m \in Nodes
      OBVIOUS
    <3>2. CASE m = n
      <4>1. ~node[n].mArg
        BY <2>1, <3>2 DEF Settlement, Open
      <4> QED BY <1>6, <1>7, <3>2, <4>1
    <3>3. CASE m # n
      BY <1>7, <2>1, <3>1, <3>3 DEF Settlement
    <3> QED BY <3>2, <3>3
  <2>2. /\ UNCHANGED <<sending, settled>> /\ Sources \subseteq Nodes
        /\ \A m \in Nodes : node'[m].mArg = node[m].mArg /\ node'[m].mFailed = node[m].mFailed
    BY <1>2, <1>7
  <2> QED BY <1>15, <2>1, <2>2 DEF Settlement
<1>17. \A i \in 1..Len(stack') : ~Carries(stack'[i])
  <2>1. ASSUME NEW i \in 1..Len(stack') PROVE ~Carries(stack'[i])
    <3>1. PICK j \in 2..Len(stack) : stack'[i] = stack[j]
      BY <1>10
    <3>2. ~Carries(stack[j])
      BY <1>3, Inside
    <3> QED BY <3>1, <3>2
  <2> QED BY <2>1
<1>18. OneCarrier' /\ (~node[n].mArg /\ NoCarrier => NoCarrier')
  <2>1. UNCHANGED sending
    BY <1>2
  <2>2. CASE node[n].mArg
    <3>1. /\ \A i \in 1..Len(queue) : ~Carries(queue[i])
          /\ \A m \in Sources : ~Carries(sending[m])
      BY <1>8, <2>2 DEF NoCarrier
    <3>2. OneCarrier'
      BY <1>5, <1>9, <1>17, <2>1, <2>2, <3>1, OnePosted
    <3> QED BY <2>2, <3>2
  <2>3. CASE ~node[n].mArg
    <3>1. queue' = queue \/ \E c \in Calls : ~Carries(c) /\ queue' = Append(queue, c)
      BY <1>5, <1>6, <1>9, <2>3
    <3> QED BY <1>17, <2>1, <3>1, NoneAdded
  <2> QED BY <2>2, <2>3
<1>19. Calling'
  <2>1. ASSUME NEW d \in All PROVE Sound(d)'
    <3>1. (d \in Calls \/ d = Nothing) /\ Sound(d)
      BY <2>1, AllOf
    <3>2. /\ \A m \in 1..N : m \in 0..N
          /\ node'[N].mArg = node[N].mArg
      BY <1>5, <1>7
    <3> QED BY <1>2, <1>10, <1>11, <3>1, <3>2, SameSound
  <2>2. Sound(fail)'
    BY <1>5 DEF Sound
  <2>3. ASSUME node[n].mArg PROVE Sound(next)'
    <3>1. Reached(k)' /\ ~Reached(k + 1)' /\ runs'[k] = 1
      BY <1>2, <1>4, <1>5, <1>8, <1>11, <2>3
    <3> QED BY <1>5, <3>1 DEF Sound, From
  <2>4. ASSUME NEW c \in All' PROVE c \in All \/ c = fail \/ (node[n].mArg /\ c = next)
    <3>1. \/ c \in {stack'[i] : i \in 1..Len(stack')} \/ \E m \in Sources : c = sending[m]
          \/ \E i \in 1..Len(queue') : c = queue'[i]
      BY <1>2, <2>4 DEF All
    <3>2. ASSUME NEW i \in 1..Len(queue'), c = queue'[i]
          PROVE  c \in All \/ c = fail \/ (node[n].mArg /\ c = next)
      <4>1. queue \in Seq(Calls)
        BY DEF TypeOK
      <4>2. CASE queue' = queue
        BY <3>2, <4>2 DEF All
      <4>3. CASE node[n].mFailed
        BY <1>5, <1>9, <3>2, <4>1, <4>3, Appended DEF All
      <4>4. CASE node[n].mArg
        BY <1>5, <1>9, <3>2, <4>1, <4>4, Appended DEF All
      <4> QED BY <1>6, <1>9, <4>2, <4>3, <4>4
    <3>3. {stack[i] : i \in 2..Len(stack)} \subseteq All
      <4>1. \A i \in 2..Len(stack) : i \in 1..Len(stack)
        OBVIOUS
      <4> QED BY <4>1 DEF All
    <3> QED BY <1>10, <3>1, <3>2, <3>3 DEF All
  <2> QED BY <2>1, <2>2, <2>3, <2>4, AllCalling
<1>20. Path'
  <2>1. ~Reached(0)' => NoCarrier'
    <3>1. 0 \in 0..N /\ 0 < k
      BY <1>4
    <3>2. node[n].mArg => Reached(0)
      BY <1>5, <1>8, <3>1 DEF Path
    <3> QED BY <1>11, <1>18, <3>1, <3>2 DEF Path
  <2>2. \A m \in 1..N : ~(node'[m].mArg /\ node'[m].mFailed)
    <3>1. 1..N \subseteq Nodes
      OBVIOUS
    <3> QED BY <1>7, <3>1 DEF Path
  <2>3. \A m \in 1..N : m \in 0..N
    OBVIOUS
  <2> QED BY <1>10, <1>11, <2>1, <2>2, <2>3 DEF Path
<1>21. Waits'
  <2>1. ASSUME NEW j \in Thens, Awaits(j)'
        PROVE  NoCarrier' /\ Reached(j)' /\ ~Reached(j + 1)' /\ runs'[j] = 1
    <3>1. Inner(j) \in Sources /\ Inner(j) \in Nodes /\ (j # k => Inner(j) # n) /\ j \in 0..N /\ j + 1 \in 0..N /\ j < N
      <4>1. j \in 1..S
        OBVIOUS
      <4> QED BY <1>4, <4>1, Inners
    <3>2. Open(Inner(j))' /\ (node'[Inner(j)].mNext # Nothing \/ node'[Inner(j)].mFail # Nothing)
      <4>1. stack' # <<>> => 1 \in 1..Len(stack')
        BY <1>10
      <4>2. ~(stack' # <<>> /\ stack'[1] = Call("innerThen", j))
        BY <1>10, <4>1 DEF Call
      <4> QED BY <2>1, <4>2 DEF Awaits
    <3>3. Awaits(j) /\ settled[Inner(j)] = "no"
      <4>1. Open(Inner(j)) /\ settled[Inner(j)] = "no"
        BY <1>15, <3>1, <3>2
      <4>2. CASE j = k
        BY <1>3, <4>1, <4>2 DEF Awaits
      <4>3. CASE j # k
        BY <1>7, <3>1, <3>2, <4>1, <4>3 DEF Awaits
      <4> QED BY <4>2, <4>3
    <3>4. NoCarrier /\ Reached(j) /\ ~Reached(j + 1) /\ runs[j] = 1
      BY <3>3 DEF Waits
    <3>5. ~node[n].mArg
      <4>1. ASSUME node[n].mArg PROVE FALSE
        <5>1. j = k
          BY <1>5, <1>8, <3>1, <3>4, <4>1, OnePlace
        <5> QED BY <1>5, <3>3, <4>1, <5>1 DEF Settlement
      <4> QED BY <4>1
    <3> QED BY <1>2, <1>11, <1>18, <3>1, <3>4, <3>5
  <2> QED BY <2>1 DEF Waits
<1>22. Ran'
  <2>1. \A m \in 1..N : m \in Nodes /\ m \in 0..N
    OBVIOUS
  <2>2. \A m \in 1..N : node'[m].mArg = node[m].mArg /\ (Built(m) => Built(m)')
    BY <1>7, <1>10, <2>1
  <2>3. \A j \in Thens : runs[j] = 0 => node'[Inner(j)] = node[Inner(j)]
    <3>1. ASSUME NEW j \in Thens, j # k PROVE Inner(j) \in Nodes /\ Inner(j) # n
      BY <1>4, <3>1, Inners
    <3> QED BY <1>4, <1>7, <3>1
  <2> QED BY <1>2, <1>11, <2>2, <2>3, SameRan
<1> QED BY <1>10, <1>12, <1>13, <1>14, <1>16, <1>18, <1>19, <1>20, <1>21, <1>22

\* What a Then's handlers can be, if it has any.
LEMMA AnyHooks ==
    ASSUME IInv, NEW m \in Nodes, NEW how \in {"resolve", "reject"}
    PROVE  LET h == Handler(node[m], how)
           IN  \/ h = Nothing
               \/ m \in 1..S /\ h = IF how = "resolve" THEN Call("stage", m) ELSE Call("reject", m + 1)
               \/ m = N /\ how = "reject" /\ h = Call("failed", N)
               \/ \E k \in Thens : /\ m = Inner(k) /\ m \in Sources
                                   /\ \/ h \in {Call("innerNext", k), Call("reject", k + 1)}
                                      \/ h = Call("reject", Orphan(k))
<1> USE Numbers DEF IInv
<1>1. CASE m \in 1..S
  BY <1>1 DEF Hooks, Handler
<1>2. CASE m = N
  BY <1>2 DEF Hooks, Handler
<1>3. CASE m > N /\ m <= N + S
  <2>1. m - N \in 1..S /\ Inner(m - N) = m
    BY <1>3
  <2>2. PICK k \in 1..S : m = Inner(k)
    BY <2>1
  <2>3. CASE k \in Thens
    BY <2>2, <2>3 DEF Hooks, Handler
  <2>4. CASE k \notin Thens
    BY <2>2, <2>4 DEF Hooks, Handler
  <2> QED BY <2>3, <2>4
<1>4. CASE m > N + S
  <2>1. m - N - S \in 1..S /\ Orphan(m - N - S) = m
    BY <1>4
  <2>2. PICK k \in 1..S : m = Orphan(k)
    BY <2>1
  <2> QED BY <2>2 DEF Hooks, Handler
<1>5. m \in 1..S \/ m = N \/ (m > N /\ m <= N + S) \/ m > N + S
  OBVIOUS
<1> QED BY <1>1, <1>2, <1>3, <1>4, <1>5

LEMMA LoopCallsInv ==
    ASSUME IInv, NEW how \in {"resolve", "reject"}, LoopCalls(how) PROVE IInv'
<1> USE Numbers DEF IInv
<1>1. PICK m : m = Top.at
  OBVIOUS
<1>2. PICK h : h = Handler(node[m], how)
  OBVIOUS
<1> DEFINE r == Settled(node[m], how)
<1>3. /\ Enter(If(h # Nothing, h))
      /\ node' = [node EXCEPT ![m] = r]
      /\ UNCHANGED <<queue, sending, settled, runs, failRuns, offLoop>>
  BY <1>1, <1>2 DEF LoopCalls, histVars
<1>4. /\ stack # <<>> /\ stack[1].op = how /\ stack[1].at = m /\ 1 \in 1..Len(stack)
      /\ stack[1] = Call(how, m) /\ m \in Nodes /\ Sound(stack[1])
  <2>1. stack # <<>> /\ Top.op = how
    BY DEF LoopCalls, At
  <2>2. stack[1] = Top /\ stack[1] \in Calls /\ 1 \in 1..Len(stack)
    BY <2>1, Inside
  <2> QED BY <1>1, <2>1, <2>2 DEF Calls, Call, Calling
<1>5. /\ r \in [mNext : Handlers, mFail : Handlers, mArg : BOOLEAN, mFailed : BOOLEAN, mLoop : BOOLEAN]
      /\ r.mLoop = node[m].mLoop
      /\ how = "resolve" =>
            /\ r.mNext = Nothing /\ r.mFail = node[m].mFail /\ r.mFailed = node[m].mFailed
            /\ r.mArg <=> node[m].mArg \/ h = Nothing
      /\ how = "reject" =>
            /\ r.mFail = Nothing /\ r.mNext = node[m].mNext /\ r.mArg = node[m].mArg
            /\ r.mFailed <=> node[m].mFailed \/ h = Nothing
  BY <1>2, <1>4, SettledFields DEF Handler
<1>6. \/ h = Nothing
      \/ m \in 1..S /\ h = IF how = "resolve" THEN Call("stage", m) ELSE Call("reject", m + 1)
      \/ m = N /\ how = "reject" /\ h = Call("failed", N)
      \/ \E k \in Thens : /\ m = Inner(k) /\ m \in Sources
                          /\ \/ h \in {Call("innerNext", k), Call("reject", k + 1)}
                             \/ h = Call("reject", Orphan(k))
  BY SMTT(20), <1>2, <1>4, AnyHooks
<1>7. h # Nothing =>
         /\ h \in Calls /\ h.op \in {"stage", "reject", "innerNext", "failed"}
         /\ h.op = "reject" => h.at \notin Sources
         /\ h.op = "innerNext" => h.at \in Thens
  <2>1. h \in Handlers
    BY <1>2, <1>4 DEF TypeOK, Handler
  <2>2. /\ m \in 1..S => Call("stage", m).op = "stage" /\ Call("reject", m + 1).op = "reject"
                        /\ Call("reject", m + 1).at \notin Sources
        /\ Call("failed", N).op = "failed"
    BY DEF Call
  <2>3. ASSUME NEW k \in Thens, h \in {Call("innerNext", k), Call("reject", k + 1), Call("reject", Orphan(k))}
        PROVE  /\ h.op \in {"reject", "innerNext"}
               /\ h.op = "reject" => h.at \notin Sources
               /\ h.op = "innerNext" => h.at \in Thens
    <3>1. k \in 1..S
      OBVIOUS
    <3> QED BY <2>3, <3>1 DEF Call
  <2> QED BY <1>6, <2>1, <2>2, <2>3 DEF Handlers
<1> HIDE DEF r
<1>8. /\ node'[m] = r
      /\ \A j \in Nodes : j # m => node'[j] = node[j]
  BY <1>3, <1>4, <1>5 DEF TypeOK
<1>9. /\ \A j \in 0..N : Built(j) /\ Built(j)' /\ Built(j)' = Built(j)
      /\ Shape' /\ stack' \in Seq(Calls)
      /\ {stack'[i] : i \in 1..Len(stack')}
            \subseteq {c \in {h} : c # Nothing} \cup {stack[i] : i \in 2..Len(stack)}
      /\ \A i \in 1..Len(stack') :
            /\ stack'[i].op # "innerThen"
            /\ stack'[i].op \in {"resolve", "reject"} => stack'[i].at \notin Sources
  <2>1. stack[1].op \notin {"build", "innerFail"} /\ UNCHANGED settled
    BY <1>3, <1>4
  <2>2. CASE h = Nothing
    <3>1. Enter(<<>>)
      BY <1>3, <2>2 DEF If
    <3>2. /\ \A j \in 0..N : Built(j) /\ Built(j)' /\ Built(j)' = Built(j)
          /\ Shape' /\ stack' \in Seq(Calls)
          /\ {stack'[i] : i \in 1..Len(stack')} \subseteq {stack[i] : i \in 2..Len(stack)}
          /\ \A i \in 1..Len(stack') :
                /\ stack'[i].op # "innerThen"
                /\ stack'[i].op \in {"resolve", "reject"} => stack'[i].at \notin Sources
      BY <1>4, <2>1, <3>1, ReplacedByNone
    <3> QED BY <3>2
  <2>3. CASE h # Nothing
    <3>1. Enter(<<h>>)
      BY <1>3, <2>3 DEF If
    <3>2. /\ \A j \in 0..N : Built(j) /\ Built(j)' /\ Built(j)' = Built(j)
          /\ Shape' /\ stack' \in Seq(Calls)
          /\ {stack'[i] : i \in 1..Len(stack')} \subseteq {h} \cup {stack[i] : i \in 2..Len(stack)}
          /\ \A i \in 1..Len(stack') :
                /\ stack'[i].op # "innerThen"
                /\ stack'[i].op \in {"resolve", "reject"} => stack'[i].at \notin Sources
      BY <1>4, <1>7, <2>1, <2>3, <3>1, ReplacedByOne
    <3> QED BY <2>3, <3>2
  <2> QED BY <2>2, <2>3
<1>10. TypeOK' /\ HandlersOnLoop'
  <2>1. node' \in [Nodes -> [mNext : Handlers, mFail : Handlers, mArg : BOOLEAN, mFailed : BOOLEAN, mLoop : BOOLEAN]]
    BY <1>3, <1>4, <1>5 DEF TypeOK
  <2> QED BY <1>3, <1>9, <2>1 DEF TypeOK, HandlersOnLoop
<1>11. \A j \in Nodes :
          /\ node'[j].mNext \in {Nothing, node[j].mNext}
          /\ node'[j].mFail \in {Nothing, node[j].mFail}
          /\ node'[j].mLoop = node[j].mLoop
  BY <1>5, <1>8
<1>12. Hooks'
  <2>1. \A j \in 1..S : j \in Nodes /\ Inner(j) \in Nodes /\ Orphan(j) \in Nodes
    OBVIOUS
  <2>2. /\ \A j \in 1..S :
              /\ node'[j].mNext \in {Nothing, Call("stage", j)}
              /\ node'[j].mFail \in {Nothing, Call("reject", j + 1)}
              /\ node'[Inner(j)].mNext \in {Nothing, Call("innerNext", j)}
              /\ node'[Inner(j)].mFail \in {Nothing, Call("reject", j + 1), Call("reject", Orphan(j))}
              /\ node'[Orphan(j)].mNext = Nothing /\ node'[Orphan(j)].mFail = Nothing
        /\ \A j \in (1..S) \ Thens : node'[Inner(j)].mNext = Nothing /\ node'[Inner(j)].mFail = Nothing
    <3>1. ASSUME NEW j \in 1..S
          PROVE  /\ node'[j].mNext \in {Nothing, Call("stage", j)}
                 /\ node'[j].mFail \in {Nothing, Call("reject", j + 1)}
      BY <1>11, <2>1 DEF Hooks
    <3>2. ASSUME NEW j \in 1..S
          PROVE  /\ node'[Inner(j)].mNext \in {Nothing, Call("innerNext", j)}
                 /\ node'[Inner(j)].mFail \in {Nothing, Call("reject", j + 1), Call("reject", Orphan(j))}
      BY <1>11, <2>1 DEF Hooks
    <3>3. ASSUME NEW j \in 1..S
          PROVE  node'[Orphan(j)].mNext = Nothing /\ node'[Orphan(j)].mFail = Nothing
      BY <1>11, <2>1 DEF Hooks
    <3>4. ASSUME NEW j \in (1..S) \ Thens
          PROVE  node'[Inner(j)].mNext = Nothing /\ node'[Inner(j)].mFail = Nothing
      BY <1>11, <2>1 DEF Hooks
    <3> QED BY <3>1, <3>2, <3>3, <3>4
  <2>3. N \in Nodes /\ \A j \in 1..N : j \in 0..N
    OBVIOUS
  <2>4. node'[N].mNext = Nothing /\ node'[N].mFail \in {Nothing, Call("failed", N)}
    BY <1>11, <2>3 DEF Hooks
  <2> QED BY <1>9, <2>2, <2>3, <2>4 DEF Hooks
<1>13. Posted'
  BY <1>3 DEF Posted
<1>14. ASSUME NEW n \in Sources, Open(n)' PROVE Open(n) /\ settled[n] = "no" /\ n # m
  <2>1. ~\E i \in 1..Len(stack') : stack'[i].op \in {"resolve", "reject"} /\ stack'[i].at = n
    BY <1>9
  <2>2. Open(n) /\ settled[n] = "no"
    BY <1>3, <1>14, <2>1 DEF Open
  <2>3. m \in Sources => settled[m] = how
    BY <1>4 DEF Shape
  <2> QED BY <2>2, <2>3
<1>15. Settlement'
  <2>1. ASSUME NEW n \in Sources, n = m
        PROVE  /\ node'[n].mArg => settled[n] = "resolve"
               /\ node'[n].mFailed => settled[n] = "reject"
    <3>1. settled[m] = how /\ Open(m)
      BY <1>4, <2>1 DEF Shape, Open
    <3>2. ~node[m].mArg /\ ~node[m].mFailed
      BY <2>1, <3>1 DEF Settlement
    <3> QED BY <1>5, <1>8, <2>1, <3>1, <3>2
  <2>2. ASSUME NEW n \in Sources, n # m
        PROVE  node'[n] = node[n]
    BY <1>8, <2>2
  <2>3. UNCHANGED <<sending, settled>>
    BY <1>3
  <2>4. ASSUME NEW n \in Sources
        PROVE  /\ Open(n)' => ~node'[n].mArg /\ ~node'[n].mFailed
               /\ node'[n].mArg => settled'[n] = "resolve"
               /\ node'[n].mFailed => settled'[n] = "reject"
               /\ settled'[n] = "no" => sending'[n] = Nothing
               /\ settled'[n] = "no" /\ (node'[n].mNext # Nothing \/ node'[n].mFail # Nothing) => node'[n].mLoop
    <3>1. CASE n = m
      <4>1. settled[n] # "no" /\ ~Open(n)'
        BY <1>4, <1>14, <3>1 DEF Shape
      <4> QED BY <2>1, <2>3, <3>1, <4>1
    <3>2. CASE n # m
      BY <1>14, <2>2, <2>3, <3>2 DEF Settlement
    <3> QED BY <3>1, <3>2
  <2> QED BY <2>4 DEF Settlement
<1>16. All' \subseteq {c \in {h} : c # Nothing} \cup Others
  BY <1>3, <1>9 DEF All, Others
<1>17. \A n \in Thens : ~(stack' # <<>> /\ stack'[1] = Call("innerThen", n))
  <2>1. stack' # <<>> => 1 \in 1..Len(stack')
    BY <1>9
  <2> QED BY <1>9, <2>1 DEF Call
<1>18. CASE m <= N
  <2>1. /\ m \in 1..N /\ m \in 0..N /\ Carries(stack[1]) /\ From(stack[1]) = m - 1
        /\ m - 1 \in 0..N /\ m - 1 < m
    BY <1>4, <1>18 DEF Carries, From, Call
  <2>2. /\ OneCarrier' /\ Reached(0)
        /\ \A j \in Thens : ~Awaits(j)
    BY <1>3, <1>4, <2>1, OnTop
  <2>3. Reached(m - 1) /\ ~Reached(m)
    <3>1. m - 1 < N /\ (m - 1) + 1 = m
      BY <2>1
    <3> QED BY <1>4, <2>1, <3>1 DEF Sound
  <2>4. /\ ~node[m].mArg /\ ~node[m].mFailed /\ node[m].mFail # Nothing
        /\ m # N => node[m].mNext # Nothing
        /\ \A j \in 0..N : j > m => ~Reached(j)
    <3>1. Built(m) /\ m # 0
      BY <1>9, <2>1
    <3>2. \A j \in 0..N : j > m => ~Reached(j)
      BY <2>1, <2>3 DEF Path
    <3> QED BY <2>3, <3>1, <3>2 DEF Reached
  <2>5. /\ m # N => m \in 1..S /\ h = IF how = "resolve" THEN Call("stage", m) ELSE Call("reject", m + 1)
        /\ m = N => h = IF how = "resolve" THEN Nothing ELSE Call("failed", N)
    <3>1. \A k \in Thens : m # Inner(k)
      <4>1. ASSUME NEW k \in Thens PROVE m # Inner(k)
        <5>1. k \in 1..S
          OBVIOUS
        <5> QED BY <2>1, <5>1
      <4> QED BY <4>1
    <3>2. m # N => h # Nothing
      BY <1>2, <2>4 DEF Handler
    <3>3. m = N => IF how = "resolve" THEN h = Nothing ELSE h # Nothing
      BY <1>2, <2>4 DEF Handler, Hooks
    <3>4. m = N => m \notin 1..S
      OBVIOUS
    <3> QED BY <1>6, <3>1, <3>2, <3>3, <3>4
  <2>6. Reached(m)'
    <3>1. Built(m)' /\ m # 0
      BY <1>9, <2>1
    <3>2. CASE how = "reject"
      BY <1>5, <1>8, <3>1, <3>2 DEF Reached
    <3>3. CASE how = "resolve" /\ m # N
      BY <1>5, <1>8, <3>1, <3>3 DEF Reached
    <3>4. CASE how = "resolve" /\ m = N
      BY <1>5, <1>8, <2>5, <3>1, <3>4 DEF Reached
    <3> QED BY <3>2, <3>3, <3>4
  <2>7. ASSUME NEW j \in 0..N, j # m PROVE Reached(j)' = Reached(j)
    <3>1. CASE j = 0
      BY <1>3, <3>1 DEF Reached
    <3>2. CASE j # 0
      <4>1. j \in Nodes /\ node'[j] = node[j] /\ Built(j)' /\ Built(j)
        BY <1>8, <1>9, <2>7, <3>2
      <4> QED BY <3>2, <4>1 DEF Reached
    <3> QED BY <3>1, <3>2
  <2>8. ASSUME h # Nothing PROVE Sound(h)'
    <3>1. Reached(m)' /\ Built(m)' /\ runs' = runs /\ failRuns' = failRuns
      BY <1>3, <1>9, <2>1, <2>6
    <3>2. CASE m # N
      <4>1. m \in 1..S /\ m + 1 \in 0..N /\ m + 1 # m /\ m + 1 > m
        BY <2>5, <3>2
      <4>2. ~Reached(m + 1)'
        BY <2>4, <2>7, <4>1
      <4>3. runs[m] = 0
        BY <2>3, <4>1 DEF Ran
      <4>4. how = "resolve" /\ m > 1 => runs[m - 1] = 1
        <5>1. m > 1 => m \in 2..N
          BY <4>1
        <5> QED BY <1>4, <5>1 DEF Sound
      <4>5. CASE how = "resolve"
        <5>1. h.op = "stage" /\ h.at = m /\ From(h) = m
          BY <2>5, <3>2, <4>5 DEF Call, From
        <5> QED BY <2>1, <3>1, <4>1, <4>2, <4>3, <4>4, <4>5, <5>1 DEF Sound
      <4>6. CASE how = "reject"
        <5>1. h.op = "reject" /\ h.at = m + 1 /\ From(h) = m
          BY <2>5, <3>2, <4>1, <4>6 DEF Call, From
        <5> QED BY <2>1, <3>1, <4>2, <5>1 DEF Sound
      <4> QED BY <4>5, <4>6
    <3>3. CASE m = N
      <4>1. how = "reject" /\ h.op = "failed" /\ h.at = N /\ From(h) = N
        BY <2>5, <2>8, <3>3 DEF Call, From
      <4>2. ~node'[N].mArg
        BY <1>5, <1>8, <2>4, <3>3, <4>1
      <4>3. failRuns = 0
        BY <2>3, <3>3 DEF Ran
      <4>4. Reached(N)' /\ Built(N)'
        BY <3>1, <3>3
      <4> QED BY <3>1, <4>1, <4>2, <4>3, <4>4 DEF Sound
    <3> QED BY <3>2, <3>3
  <2>9. Calling'
    <3>1. \A c \in Others : Sound(c)'
      BY <1>3, <1>4, <2>1, OthersSound
    <3> QED BY <1>16, <2>8, <3>1, AllCalling
  <2>10. Path'
    <3>1. ASSUME NEW i \in 0..N, NEW j \in 0..N, i < j, Reached(j)' PROVE Reached(i)'
      <4>1. CASE j = m
        <5>1. i <= m - 1 /\ i # m
          BY <2>1, <3>1, <4>1
        <5>2. Reached(i)
          BY <2>1, <2>3, <5>1 DEF Path
        <5> QED BY <2>7, <5>1, <5>2
      <4>2. CASE j # m
        <5>1. Reached(j)
          BY <2>7, <3>1, <4>2
        <5>2. Reached(i)
          BY <3>1, <5>1 DEF Path
        <5>3. i # m
          BY <2>3, <5>2
        <5> QED BY <2>7, <5>2, <5>3
      <4> QED BY <4>1, <4>2
    <3>2. Reached(0)'
      <4>1. 0 \in 0..N /\ 0 # m
        BY <2>1
      <4> QED BY <2>2, <2>7, <4>1
    <3>3. ASSUME NEW j \in 1..N PROVE ~(node'[j].mArg /\ node'[j].mFailed)
      <4>1. CASE j = m
        BY <1>5, <1>8, <2>4, <4>1
      <4>2. CASE j # m
        <5>1. j \in Nodes
          OBVIOUS
        <5> QED BY <1>8, <4>2, <5>1 DEF Path
      <4> QED BY <4>1, <4>2
    <3>4. \A j \in 1..N : j \in 0..N
      OBVIOUS
    <3> QED BY <1>9, <3>1, <3>2, <3>3, <3>4 DEF Path
  <2>11. Waits'
    <3>1. ASSUME NEW j \in Thens, Awaits(j)' PROVE FALSE
      <4>1. Inner(j) \in Sources /\ Inner(j) \in Nodes
        OBVIOUS
      <4>2. Open(Inner(j)) /\ Inner(j) # m
        BY <1>14, <1>17, <3>1, <4>1 DEF Awaits
      <4>3. node'[Inner(j)] = node[Inner(j)]
        BY <1>8, <4>1, <4>2
      <4>4. Awaits(j)
        BY <1>17, <3>1, <4>2, <4>3 DEF Awaits
      <4> QED BY <2>2, <4>4
    <3> QED BY <3>1 DEF Waits
  <2>12. Ran'
    <3>1. ASSUME NEW j \in 1..S PROVE ~Reached(j)' \/ ~Built(j)' => runs'[j] = 0
      <4>1. j \in 0..N
        OBVIOUS
      <4>2. ~Reached(j)' => ~Reached(j)
        BY <2>6, <2>7, <4>1
      <4> QED BY <1>3, <1>9, <4>1, <4>2 DEF Ran
    <3>2. \A j \in Thens : runs[j] = 0 => node'[Inner(j)].mNext = Nothing /\ node'[Inner(j)].mFail = Nothing
      <4>1. \A j \in Thens : Inner(j) \in Nodes
        OBVIOUS
      <4> QED BY <1>11, <4>1 DEF Ran
    <3>3. ASSUME NEW j \in 2..N, node'[j].mArg PROVE runs[j - 1] = 1
      <4>1. j \in Nodes
        OBVIOUS
      <4>2. CASE j # m
        BY <1>8, <3>3, <4>1, <4>2 DEF Ran
      <4>3. CASE j = m
        <5>1. how = "resolve"
          BY <1>5, <1>8, <2>4, <3>3, <4>3
        <5> QED BY <1>4, <4>3, <5>1 DEF Sound
      <4> QED BY <4>2, <4>3
    <3>4. ~Reached(N)' \/ ~Built(N)' \/ node'[N].mArg => failRuns = 0
      <4>1. CASE m = N
        BY <2>3, <4>1 DEF Ran
      <4>2. CASE m # N
        <5>1. N \in 0..N /\ N \in Nodes
          OBVIOUS
        <5>2. Reached(N)' = Reached(N) /\ Built(N)' /\ node'[N] = node[N]
          BY <1>8, <1>9, <2>7, <4>2, <5>1
        <5> QED BY <5>2 DEF Ran
      <4> QED BY <4>1, <4>2
    <3>5. UNCHANGED <<runs, failRuns>>
      BY <1>3
    <3> QED BY <3>1, <3>2, <3>3, <3>4, <3>5 DEF Ran
  <2> QED BY <1>9, <1>10, <1>12, <1>13, <1>15, <2>2, <2>9, <2>10, <2>11, <2>12
<1>19. CASE m > N
  <2>1. \A j \in 0..N : Reached(j)' = Reached(j)
    <3>1. \A j \in 1..N : j \in Nodes /\ j # m /\ j \in 0..N
      BY <1>19
    <3>2. \A j \in 1..N : node'[j] = node[j] /\ Built(j)' = Built(j)
      BY <1>8, <1>9, <3>1
    <3> QED BY <1>3, <3>2, SameReached
  <2>2. /\ \A j \in 1..N : j \in 0..N /\ node'[j] = node[j]
        /\ ~Carries(stack[1])
    BY <1>4, <1>8, <1>19 DEF Carries
  <2>3. ASSUME NEW j \in Thens, Awaits(j)' PROVE Awaits(j) /\ Inner(j) # m
    <3>1. Inner(j) \in Sources /\ Inner(j) \in Nodes
      OBVIOUS
    <3>2. Open(Inner(j)) /\ Inner(j) # m
      BY <1>14, <1>17, <2>3, <3>1 DEF Awaits
    <3>3. node'[Inner(j)] = node[Inner(j)]
      BY <1>8, <3>1, <3>2
    <3> QED BY <1>17, <2>3, <3>2, <3>3 DEF Awaits
  <2>4. Ran'
    <3>1. \A j \in Thens : Inner(j) \in Nodes
      OBVIOUS
    <3>2. \A j \in Thens : /\ runs[j] = 0
                           /\ node[Inner(j)].mNext = Nothing /\ node[Inner(j)].mFail = Nothing
                           => node'[Inner(j)].mNext = Nothing /\ node'[Inner(j)].mFail = Nothing
      BY <1>11, <3>1
    <3>3. \A j \in 1..N : node'[j].mArg = node[j].mArg /\ (Built(j) => Built(j)')
      BY <1>9, <2>2
    <3> QED BY <1>3, <2>1, <3>2, <3>3, SameRan
  <2>5. ASSUME NEW c \in Others PROVE Sound(c)'
    <3>1. Others \subseteq All
      <4>1. \A i \in 2..Len(stack) : i \in 1..Len(stack)
        OBVIOUS
      <4> QED BY <4>1 DEF All, Others
    <3>2. (c \in Calls \/ c = Nothing) /\ Sound(c)
      BY <2>5, <3>1, AllOf
    <3>3. node'[N].mArg = node[N].mArg /\ \A j \in 1..N : Built(j) => Built(j)'
      BY <1>9, <2>2
    <3> QED BY <1>3, <2>1, <3>2, <3>3, SameSound
  <2>6. CASE ~Carries(h) \/ h = Nothing
    <3>1. \A i \in 1..Len(stack') : ~Carries(stack'[i])
      <4>1. ASSUME NEW c \in {d \in {h} : d # Nothing} \cup {stack[i] : i \in 2..Len(stack)} PROVE ~Carries(c)
        BY <1>4, <2>6, Inside
      <4>2. ASSUME NEW i \in 1..Len(stack') PROVE ~Carries(stack'[i])
        <5>1. PICK c \in {d \in {h} : d # Nothing} \cup {stack[l] : l \in 2..Len(stack)} : c = stack'[i]
          BY <1>9
        <5> QED BY <4>1, <5>1
      <4> QED BY <4>2
    <3>2. OneCarrier' /\ (NoCarrier => NoCarrier')
      BY <1>3, <3>1, NoneAdded
    <3>3. h # Nothing => Sound(h)'
      <4>1. ASSUME h # Nothing PROVE Sound(h)'
        <5>1. h.op = "reject"
          BY <1>7, <2>6, <4>1 DEF Carries
        <5> QED BY <2>6, <4>1, <5>1 DEF Sound
      <4> QED BY <4>1
    <3>4. Calling'
      BY <1>16, <2>5, <3>3, AllCalling
    <3>5. Path'
      BY <1>9, <2>1, <2>2, <3>2, SamePath
    <3>6. Waits'
      <4>1. ASSUME NEW j \in Thens, Awaits(j)'
            PROVE  NoCarrier' /\ Reached(j)' /\ ~Reached(j + 1)' /\ runs'[j] = 1
        <5>1. j \in 0..N /\ j + 1 \in 0..N
          OBVIOUS
        <5>2. NoCarrier /\ Reached(j) /\ ~Reached(j + 1) /\ runs[j] = 1
          BY <2>3, <4>1 DEF Waits
        <5> QED BY <1>3, <2>1, <3>2, <5>1, <5>2
      <4> QED BY <4>1 DEF Waits
    <3> QED BY <1>9, <1>10, <1>12, <1>13, <1>15, <2>4, <3>2, <3>4, <3>5, <3>6
  <2>7. CASE Carries(h) /\ h # Nothing
    <3>1. PICK k \in Thens : m = Inner(k) /\ m \in Sources /\ h \in {Call("innerNext", k), Call("reject", k + 1)}
      <4>1. m \notin 1..S /\ m # N
        BY <1>19
      <4>2. \A k \in Thens : ~Carries(Call("reject", Orphan(k)))
        <5>1. ASSUME NEW k \in Thens PROVE ~Carries(Call("reject", Orphan(k)))
          <6>1. k \in 1..S
            OBVIOUS
          <6> QED BY <6>1 DEF Carries, Call
        <5> QED BY <5>1
      <4> QED BY <1>6, <2>7, <4>1, <4>2
    <3>2. NoCarrier /\ Reached(k) /\ ~Reached(k + 1) /\ runs[k] = 1
      <4>1. Open(m)
        BY <1>4 DEF Open
      <4>2. node[m].mNext # Nothing \/ node[m].mFail # Nothing
        BY <1>2, <2>7 DEF Handler
      <4>3. Awaits(k)
        BY <3>1, <4>1, <4>2 DEF Awaits
      <4> QED BY <4>3 DEF Waits
    <3>3. k \in 0..N /\ k + 1 \in 0..N /\ k < N /\ k \in 1..S
      <4>1. k \in 1..S
        OBVIOUS
      <4> QED BY <4>1
    <3>4. OneCarrier'
      <4>1. UNCHANGED <<queue, sending>>
        BY <1>3
      <4> QED BY <3>2, <4>1 DEF OneCarrier, NoCarrier
    <3>5. Sound(h)'
      <4>1. Reached(k)' /\ ~Reached(k + 1)' /\ runs'[k] = 1
        BY <1>3, <2>1, <3>2, <3>3
      <4>2. h.op \in {"innerNext", "reject"} /\ From(h) = k /\ (h.op = "innerNext" => h.at = k)
        BY <3>1, <3>3 DEF From, Call
      <4> QED BY <3>3, <4>1, <4>2 DEF Sound
    <3>6. Calling'
      BY <1>16, <2>5, <3>5, AllCalling
    <3>7. Path'
      <4>1. 0 \in 0..N /\ 0 < k
        BY <3>3
      <4>2. Reached(0)'
        BY <2>1, <3>2, <3>3, <4>1 DEF Path
      <4>3. \A j \in 1..N : ~(node'[j].mArg /\ node'[j].mFailed)
        BY <2>2 DEF Path
      <4> QED BY <1>9, <2>1, <2>2, <4>2, <4>3 DEF Path
    <3>8. Waits'
      <4>1. ASSUME NEW j \in Thens, Awaits(j)' PROVE FALSE
        <5>1. Reached(j) /\ ~Reached(j + 1) /\ j # k
          BY <2>3, <3>1, <4>1 DEF Waits
        <5>2. j \in 0..N
          OBVIOUS
        <5> QED BY <3>2, <3>3, <5>1, <5>2, OnePlace
      <4> QED BY <4>1 DEF Waits
    <3> QED BY <1>9, <1>10, <1>12, <1>13, <1>15, <2>4, <3>4, <3>6, <3>7, <3>8
  <2> QED BY <2>6, <2>7
<1> QED BY <1>4, <1>18, <1>19 DEF Nodes

-----------------------------------------------------------------------------
(* The theorems *)

LEMMA NextInv == IInv /\ [Next]_vars => IInv'
<1> SUFFICES ASSUME IInv, [Next]_vars PROVE IInv'
  OBVIOUS
<1>1. ASSUME NEW n \in Sources, NEW how \in {"resolve", "reject"}, WorkerSettles(n, how) PROVE IInv'
  BY <1>1, WorkerSettlesInv
<1>2. ASSUME NEW n \in Sources, NEW how \in {"resolve", "reject"}, LoopSettles(n, how) PROVE IInv'
  BY <1>2, LoopSettlesInv
<1>3. ASSUME NEW n \in Sources, WorkerSends(n) PROVE IInv'
  BY <1>3, WorkerSendsInv
<1>4. CASE RunNext
  BY <1>4, RunNextInv
<1>5. CASE BuildThen
  BY <1>5, BuildThenInv
<1>6. CASE BuildFail
  BY <1>6, BuildFailInv
<1>7. CASE StageReturns
  BY <1>7, StageReturnsInv
<1>8. CASE StageReturnsThen
  BY <1>8, StageReturnsThenInv
<1>9. CASE InnerFail
  BY <1>9, InnerFailInv
<1>10. CASE InnerThen
  BY <1>10, InnerThenInv
<1>11. CASE InnerNext
  BY <1>11, InnerNextInv
<1>12. CASE LoopCalls("resolve")
  BY <1>12, LoopCallsInv
<1>13. CASE LoopCalls("reject")
  BY <1>13, LoopCallsInv
<1>14. CASE Failed
  BY <1>14, FailedInv
<1>15. CASE UNCHANGED vars
  <2> USE <1>15 DEF vars
  <2>1. TypeOK' /\ HandlersOnLoop' /\ Shape' /\ Posted'
    BY DEF IInv, TypeOK, HandlersOnLoop, Shape, Posted
  <2>2. Hooks' /\ OneCarrier' /\ Ran'
    BY DEF IInv, Hooks, OneCarrier, Ran, Built, Reached
  <2>3. Settlement' /\ Waits'
    BY DEF IInv, Settlement, Waits, Open, Awaits, NoCarrier, Reached, Built
  <2>4. Calling'
    BY DEF IInv, Calling, Sound, Reached, Built
  <2>5. Path'
    BY DEF IInv, Path, NoCarrier, Reached, Built
  <2> QED BY <2>1, <2>2, <2>3, <2>4, <2>5 DEF IInv
<1> QED BY <1>1, <1>2, <1>3, <1>4, <1>5, <1>6, <1>7, <1>8, <1>9, <1>10, <1>11, <1>12, <1>13, <1>14, <1>15
        DEF Next, LoopStep

\* The outcome of a pipeline of any length and any kinds of stages is in one
\* place at a time, whichever thread settles the head and the inner Thens, and
\* whenever: mNext and mFail are taken, or called, once.
THEOREM Invariance == Spec => []IInv
<1>1. Init => IInv
  BY InitInv
<1>2. IInv /\ [Next]_vars => IInv'
  BY NextInv
<1> QED BY <1>1, <1>2, PTL DEF Spec

\* Orderly for every pipeline: no function given to then() or fail() runs twice,
\* none runs before the stage in front of it, fail()'s function does not run
\* when the last chain is resolved, and no handler runs on a worker's thread.
THEOREM PipelineIsOrderly == Spec => []Orderly
<1>1. IInv => Orderly
  <2> SUFFICES ASSUME IInv PROVE Orderly
    OBVIOUS
  <2>1. \A k \in 1..S : runs[k] <= 1 /\ (k > 1 => runs[k] <= runs[k - 1])
    BY DEF IInv, Ran
  <2>2. failRuns <= 1 /\ (node[N].mArg => failRuns = 0)
    BY DEF IInv, Ran
  <2> QED BY <2>1, <2>2 DEF IInv, Orderly, RunsOnce
<1> QED BY <1>1, Invariance, PTL

=============================================================================
