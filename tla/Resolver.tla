------------------------------ MODULE Resolver ------------------------------
(***************************************************************************)
(* net::Resolver (Resolver.h, Resolver.cpp): one thread for the program    *)
(* that asks c-ares for the addresses of hosts, the signals of a Response  *)
(* with which it answers (Signal.h), TcpSocket::connect(host), which asks, *)
(* and ~Loop, which stops the thread and joins it.                         *)
(*                                                                         *)
(* Every loop has a thread and a socket.  A Response is alive while        *)
(* mRequests, the resolver's vector or a socket has it; c-ares holds its   *)
(* address only.  c-ares is external: it answers every query once, from    *)
(* inside any of its functions, if only with an error or a timeout.        *)
(*                                                                         *)
(* Abstractions: a host is the number of the request for it; a query that  *)
(* succeeds gives one address; an attempt of a socket lasts until close(): *)
(* TcpSocket.tla has what becomes of it.  Undefined behaviour and the end  *)
(* of the program end the behaviour (failed).                              *)
(***************************************************************************)
EXTENDS Integers, SequencesExt, FiniteSets

CONSTANTS
    Loops,          \* the event loops, one for each of the program's threads
    Fickle,         \* bound: the loops whose thread closes its socket or lets go of it
    MaxRequests,    \* bound: requests made
    MaxFailures,    \* bound: times select() fails
    None

ASSUME ResolverAssumption ==
    /\ Fickle \subseteq Loops /\ None \notin Loops \cup Int
    /\ MaxRequests \in Nat /\ MaxFailures \in Nat

VARIABLES
    pc,             \* per loop: "run", "kept" by the resolver alone, "join" in ~Loop, "dead"
    queue,          \* per loop: the handlers posted to it
    socket,         \* per loop: its socket has not been destroyed
    mResolver,      \* per loop: its socket's Response
    attempt,        \* per loop and family: the request whose address is tried
    owner,          \* per request: the loop that made it
    mRequests,
    mStopped,
    joinable,       \* mThread.joinable()
    thread,         \* the resolver's thread: "wait", "work", "complete", "over"
    requests,       \* its vector
    queries,        \* what c-ares has not answered: request and family
    emits,          \* the signals this thread is about to emit
    lent,           \* the loop it has a strong pointer to
    failures,
    failed,         \* why the program has ended
    latest,         \* history, per loop: the last request
    done,           \* history: the requests whose end the socket has heard of
    abandoned       \* history: those the program did not wait for

loopVars    == <<pc, queue>>
socketVars  == <<socket, mResolver, attempt>>
lookupVars  == <<requests, queries>>
historyVars == <<latest, done, abandoned>>
vars == <<loopVars, socketVars, owner, mRequests, mStopped, joinable, thread, lookupVars, emits, lent,
          failures, failed, historyVars>>

Requests  == 1..MaxRequests
Addresses == {"ip4", "ip6"}
Signals   == [r : Requests, what : Addresses \cup {"error", "complete"}]
Made      == Cardinality({r \in Requests : owner[r] # None})

\* The Responses that somebody has.
Alive == Range(mRequests) \cup Range(requests) \cup {mResolver[l] : l \in Loops}

TypeOK ==
    /\ pc \in [Loops -> {"run", "kept", "join", "dead"}]
    /\ queue \in [Loops -> Seq(Signals)]
    /\ socket \in [Loops -> BOOLEAN]
    /\ mResolver \in [Loops -> Requests \cup {None}]
    /\ attempt \in [Loops -> [Addresses -> Requests \cup {None}]]
    /\ owner \in [Requests -> Loops \cup {None}]
    /\ mRequests \in Seq(Requests) /\ requests \in Seq(Requests)
    /\ {mStopped, joinable} \subseteq BOOLEAN
    /\ thread \in {"wait", "work", "complete", "over"}
    /\ queries \subseteq [r : Requests, what : Addresses]
    /\ emits \in Seq(Signals) /\ lent \in Loops \cup {None}
    /\ failures \in 0..MaxFailures
    /\ failed \in {"none", "dangling", "foreign", "self", "twice"}

\* The constructor's thread has set c-ares up, or could not and is over.
Init ==
    /\ pc = [l \in Loops |-> "run"] /\ queue = [l \in Loops |-> <<>>]
    /\ socket = [l \in Loops |-> TRUE]
    /\ mResolver = [l \in Loops |-> None]
    /\ attempt = [l \in Loops |-> [f \in Addresses |-> None]]
    /\ owner = [r \in Requests |-> None]
    /\ mRequests = <<>> /\ mStopped = FALSE /\ joinable = TRUE
    /\ thread \in {"wait", "over"}
    /\ requests = <<>> /\ queries = {}
    /\ emits = <<>> /\ lent = None
    /\ failures = 0 /\ failed = "none"
    /\ latest = mResolver /\ done = {} /\ abandoned = {}

-----------------------------------------------------------------------------
(* The threads of the loops *)

Runs(l) == failed = "none" /\ pc[l] = "run"

\* What the program asked for before is not waited for any more.
Abandon(l) == abandoned' = abandoned \cup ({latest[l]} \ (done \cup {None}))

\* TcpSocket::connect(host): the socket has another Response, and the resolver
\* gets it.
Connect(l) ==
    LET r == Made + 1 IN
    /\ Runs(l) /\ socket[l]
    /\ r \in Requests
    /\ owner' = [owner EXCEPT ![r] = l]
    /\ mResolver' = [mResolver EXCEPT ![l] = r]
    /\ mRequests' = Append(mRequests, r)
    /\ latest' = [latest EXCEPT ![l] = r]
    /\ Abandon(l)
    /\ UNCHANGED <<loopVars, socket, attempt, mStopped, joinable, thread, lookupVars, emits, lent,
                   failures, failed, done>>

\* What the socket does about a signal: connect(ip), unless there is an attempt
\* of that family; for the other two it lets go of its Response, whichever it is.
Handle(l, signal) ==
    /\ attempt' = IF socket[l] /\ signal.what \in Addresses
                  THEN [attempt EXCEPT ![l][signal.what] = IF @ = None THEN signal.r ELSE @]
                  ELSE attempt
    /\ mResolver' = IF socket[l] /\ signal.what \notin Addresses
                    THEN [mResolver EXCEPT ![l] = None] ELSE mResolver
    /\ done' = IF signal.what = "complete" THEN done \cup {signal.r} ELSE done

RunHandler(l) ==
    /\ Runs(l) /\ queue[l] # <<>>
    /\ Handle(l, Head(queue[l]))
    /\ queue' = [queue EXCEPT ![l] = Tail(@)]
    /\ UNCHANGED <<pc, socket, owner, mRequests, mStopped, joinable, thread, lookupVars, emits, lent,
                   failures, failed, latest, abandoned>>

\* TcpSocket::close(): mResolver is left alone.
Close(l) ==
    /\ Runs(l) /\ socket[l] /\ l \in Fickle
    /\ attempt' = [attempt EXCEPT ![l] = [f \in Addresses |-> None]]
    /\ Abandon(l)
    /\ UNCHANGED <<loopVars, socket, mResolver, owner, mRequests, mStopped, joinable, thread, lookupVars,
                   emits, lent, failures, failed, latest, done>>

\* The program lets go of its socket.
DropSocket(l) ==
    /\ failed = "none" /\ pc[l] # "join" /\ socket[l] /\ l \in Fickle
    /\ socket' = [socket EXCEPT ![l] = FALSE]
    /\ mResolver' = [mResolver EXCEPT ![l] = None]
    /\ attempt' = [attempt EXCEPT ![l] = [f \in Addresses |-> None]]
    /\ Abandon(l)
    /\ UNCHANGED <<loopVars, owner, mRequests, mStopped, joinable, thread, lookupVars, emits, lent,
                   failures, failed, latest, done>>

\* ~Loop and shutdown() up to the join: two threads must not be in it.
Release(l) ==
    /\ Runs(l)
    /\ queue' = [queue EXCEPT ![l] = <<>>]
    /\ IF lent = l
       THEN pc' = [pc EXCEPT ![l] = "kept"] /\ UNCHANGED <<mStopped, failed>>
       ELSE /\ pc' = [pc EXCEPT ![l] = IF joinable THEN "join" ELSE "dead"]
            /\ mStopped' = (mStopped \/ joinable)
            /\ failed' = IF joinable /\ \E k \in Loops : pc[k] = "join" THEN "twice" ELSE failed
    /\ UNCHANGED <<socketVars, owner, mRequests, joinable, thread, lookupVars, emits, lent, failures,
                   historyVars>>

\* Mutated Joined: the thread is detached.
JoinedAtOnce(l) ==
    /\ failed = "none" /\ pc[l] = "join"
    /\ joinable' = FALSE
    /\ pc' = [pc EXCEPT ![l] = "dead"]
    /\ UNCHANGED <<queue, socketVars, owner, mRequests, mStopped, thread, lookupVars, emits, lent,
                   failures, failed, historyVars>>

\* mThread.join() returns.
Joined(l) ==
    /\ failed = "none" /\ pc[l] = "join"
    /\ thread = "over"
    /\ joinable' = FALSE
    /\ pc' = [pc EXCEPT ![l] = "dead"]
    /\ UNCHANGED <<queue, socketVars, owner, mRequests, mStopped, thread, lookupVars, emits, lent,
                   failures, failed, historyVars>>

-----------------------------------------------------------------------------
(* The resolver's thread *)

Thread(where) == failed = "none" /\ thread = where /\ emits = <<>>

\* The locked section: what is queued when mStopped is seen stays there, and the
\* wait ends after a second at most, so that no notification is needed.  Then a
\* query for every address, two for every name.
Take ==
    /\ Thread("wait")
    /\ \/ mStopped /\ thread' = "over" /\ UNCHANGED <<mRequests, requests, queries>>
       \/ /\ ~mStopped /\ mRequests # <<>>
          /\ thread' = "work" /\ requests' = mRequests /\ mRequests' = <<>>
          /\ \E families \in [Range(mRequests) -> (SUBSET Addresses) \ {{}}] :
                queries' = queries \cup UNION {[r : {r}, what : families[r]] : r \in Range(mRequests)}
    /\ UNCHANGED <<loopVars, socketVars, owner, mStopped, joinable, emits, lent, failures, failed,
                   historyVars>>

\* Mutated Told: the end is told before the answer.
ToldLast(q, what) == <<[r |-> q.r, what |-> "complete"], [r |-> q.r, what |-> what]>>

\* An answer is a signal: mIPv4, mIPv6 or mError.
Told(q, what) == <<[r |-> q.r, what |-> what]>>

\* c-ares calls back, with an address or an error.  Its argument must be alive.
Answer ==
    /\ Thread("work")
    /\ \E q \in queries :
          /\ queries' = queries \ {q}
          /\ \/ /\ q.r \in Alive
                /\ \E what \in {q.what, "error"} : emits' = Told(q, what)
                /\ UNCHANGED failed
             \/ q.r \notin Alive /\ failed' = "dangling" /\ UNCHANGED emits
    /\ UNCHANGED <<loopVars, socketVars, owner, mRequests, mStopped, joinable, thread, requests,
                   lent, failures, historyVars>>

\* Mutated Completions: none after a failure.
CompletionsOfAnswered ==
    IF queries # {} THEN <<>> ELSE [i \in 1..Len(requests) |-> [r |-> requests[i], what |-> "complete"]]

\* mComplete of all, "done?" or not.
Completions == [i \in 1..Len(requests) |-> [r |-> requests[i], what |-> "complete"]]

\* All has been answered and ares_fds has no descriptors, or select() fails and
\* nobody tells c-ares.
Complete ==
    /\ Thread("work")
    /\ \/ queries = {} /\ UNCHANGED failures
       \/ queries # {} /\ failures < MaxFailures /\ failures' = failures + 1
    /\ emits' = Completions
    /\ thread' = "complete"
    /\ UNCHANGED <<loopVars, socketVars, owner, mRequests, mStopped, joinable, lookupVars, lent, failed,
                   historyVars>>

\* The vector goes, and the thread starts over.
PassEnds ==
    /\ Thread("complete")
    /\ requests' = <<>>
    /\ thread' = "wait"
    /\ UNCHANGED <<loopVars, socketVars, owner, mRequests, mStopped, joinable, queries, emits, lent,
                   failures, failed, historyVars>>

Emitting == failed = "none" /\ emits # <<>> /\ lent = None
Listener == owner[Head(emits).r]

\* ConnectionBase::invoke: the connection's loop, if it is there.
LockLoop ==
    /\ Emitting /\ pc[Listener] = "run"
    /\ lent' = Listener
    /\ UNCHANGED <<loopVars, socketVars, owner, mRequests, mStopped, joinable, thread, lookupVars, emits,
                   failures, failed, historyVars>>

\* loop->send(), and the strong pointer goes.  If it was the last one, ~Loop
\* runs here: the thread joins itself.
SendToLoop ==
    /\ failed = "none" /\ lent # None
    /\ queue' = [queue EXCEPT ![lent] = IF pc[lent] = "run" THEN Append(@, Head(emits)) ELSE @]
    /\ failed' = IF pc[lent] = "kept" THEN "self" ELSE failed
    /\ lent' = None
    /\ emits' = Tail(emits)
    /\ UNCHANGED <<pc, socketVars, owner, mRequests, mStopped, joinable, thread, lookupVars, failures,
                   historyVars>>

\* Without its loop the handler runs here, where there is no loop to add the
\* attempt's descriptor to.
HandleHere ==
    /\ Emitting /\ pc[Listener] \in {"join", "dead"}
    /\ Handle(Listener, Head(emits))
    /\ failed' = IF attempt' # attempt THEN "foreign" ELSE failed
    /\ emits' = Tail(emits)
    /\ UNCHANGED <<loopVars, socket, owner, mRequests, mStopped, joinable, thread, lookupVars, lent,
                   failures, latest, abandoned>>

ResolverThread ==
    \/ Take \/ Answer \/ Complete \/ PassEnds
    \/ LockLoop \/ SendToLoop \/ HandleHere

-----------------------------------------------------------------------------
Next ==
    \/ ResolverThread
    \/ \E l \in Loops :
        \/ Connect(l) \/ RunHandler(l) \/ Close(l) \/ DropSocket(l) \/ Release(l) \/ Joined(l)

Spec == Init /\ [][Next]_vars

\* All threads go on; c-ares answers.  Nobody has to let go of a loop.
LiveSpec ==
    /\ Spec
    /\ WF_vars(ResolverThread)
    /\ \A l \in Loops : WF_vars(RunHandler(l)) /\ WF_vars(Joined(l))

-----------------------------------------------------------------------------
(* Properties *)

\* As long as select() does not fail, what c-ares points to is alive, although
\* sockets let go of their Responses at any time; while it does not and no loop
\* is destroyed, nothing ends the program; and a loop is destroyed only after
\* the thread that posts to it is over.
ResolverSafe ==
    /\ TypeOK
    /\ failures = 0 => \A q \in queries : q.r \in Alive
    /\ failures = 0 /\ (\A l \in Loops : pc[l] = "run") => failed = "none"
    /\ \A l \in Loops : pc[l] = "dead" => thread = "over" /\ lent # l

\* A socket starts an attempt for the host it was asked for last, and before it
\* hears of the request's end.  The exceptions: after a failure of select() late
\* answers come; and an earlier host, or one asked for before close(), is
\* connected to if the program did not wait for that end.
AttemptsAreCurrent ==
    [][\A l \in Loops, f \in Addresses :
          LET r == attempt'[l][f]
          IN  r \notin {None, attempt[l][f]} /\ failures = 0 =>
                  r \notin done /\ (r = latest[l] \/ r \in abandoned)]_vars

\* The socket that made a request has its Response.
Waiting(r) == owner[r] # None /\ mResolver[owner[r]] = r

\* A socket's request comes to an end, answered or not, unless the thread is
\* over, which any loop's end brings about for all; and the end of a loop does
\* not wait for ever.
ResolverEnds ==
    /\ \A r \in Requests :
          Waiting(r) ~> ~Waiting(r) \/ thread = "over" \/ pc[owner[r]] # "run" \/ failed # "none"
    /\ \A l \in Loops : pc[l] = "join" ~> pc[l] = "dead" \/ failed # "none"

=============================================================================
