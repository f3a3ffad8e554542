-------------------------------- MODULE Jobs --------------------------------
(***************************************************************************)
(* The jobs of net::Fetch (Fetch.h) and image::Decoder (Decoder.h,         *)
(* Decoder.cpp), which come from a pool::Pool (Pool.h) each and own the    *)
(* then::Then that a request returns a reference to.  A job is the pool's  *)
(* again as soon as nobody else holds it, with its Then as it is.          *)
(*                                                                         *)
(* The loop's thread makes requests, ends transfers and runs what is       *)
(* posted; the decoder's thread decodes.  The Then is what Then.tla makes  *)
(* of a head with one stage, the transfer what HttpClient.tla promises.    *)
(*                                                                         *)
(* Abstractions: an outcome is the number of the request it belongs to,    *)
(* whether the file, the transfer or the picture was good or not: all of   *)
(* them resolve.  The program calls then() on the reference at once, or    *)
(* never.  A dangling reference that is used ends the behaviour.           *)
(***************************************************************************)
EXTENDS Integers, SequencesExt, FiniteSetsExt

CONSTANTS
    MaxRequests,    \* bound: requests made
    PoolSize        \* items of each pool

ASSUME JobsAssumption == MaxRequests \in Nat /\ PoolSize \in Nat \ {0}

Requests == 1..MaxRequests

VARIABLES
    kind,           \* per request: "file", "http", "decode", or "none" so far
    job,            \* per request: its job
    mArg,           \* per job: the outcome in its Then, None or Moved
    mNext,          \* per job: the request whose handler its Then holds, or None
    transfers,      \* the requests whose HttpClient is running
    mJobs,          \* the decoder's queue
    jobs,           \* what its thread has taken
    decoded,        \* how many of these it has done
    thread,         \* the decoder's thread: "wait", "work" or "over"
    mStopped,
    holding,        \* the request whose reference the program has in hand, or None
    pc,             \* the loop's thread: "loop", "join" or "undefined"
    posted,         \* the loop's queue: handlers and outcomes
    attached,       \* the requests that have a handler
    clean,          \* history: the requests whose job had nothing left in its Then
    answered        \* history, per request: what its handler was called with

thenVars    == <<mArg, mNext>>
decoderVars == <<mJobs, jobs, decoded, thread, mStopped>>
requestVars == <<kind, job, clean>>
vars == <<requestVars, thenVars, transfers, decoderVars, holding, pc, posted, attached, answered>>

None  == 0
Moved == -1         \* mArg has a value still, which has been moved from

\* The items of the pools, and a job of its own for each request that finds all
\* of them in use.
FetchItems   == 1..PoolSize
DecoderItems == PoolSize + 1..2 * PoolSize
Items        == FetchItems \cup DecoderItems
Fresh(r)     == 2 * PoolSize + r
AllJobs      == Items \cup {Fresh(r) : r \in Requests}

Made == Cardinality({r \in Requests : kind[r] # "none"})

TypeOK ==
    /\ kind \in [Requests -> {"none", "file", "http", "decode"}]
    /\ job \in [Requests -> AllJobs \cup {None}]
    /\ mArg \in [AllJobs -> Requests \cup {None, Moved}]
    /\ mNext \in [AllJobs -> Requests \cup {None}]
    /\ transfers \subseteq Requests /\ attached \subseteq Requests /\ clean \subseteq Requests
    /\ mJobs \in Seq(Requests) /\ jobs \in Seq(Requests) /\ decoded \in 0..Len(jobs)
    /\ thread \in {"wait", "work", "over"} /\ mStopped \in BOOLEAN
    /\ holding \in Requests \cup {None} /\ pc \in {"loop", "join", "undefined"}

Init ==
    /\ kind = [r \in Requests |-> "none"] /\ job = [r \in Requests |-> None]
    /\ mArg = [j \in AllJobs |-> None] /\ mNext = mArg
    /\ transfers = {} /\ attached = {} /\ clean = {}
    /\ mJobs = <<>> /\ jobs = <<>> /\ decoded = 0
    /\ thread = "wait" /\ mStopped = FALSE
    /\ holding = None /\ pc = "loop" /\ posted = <<>>
    /\ answered = [r \in Requests |-> <<>>]

-----------------------------------------------------------------------------
(* pool::Pool and then::Then *)

\* Mutated Holders: a transfer does not hold its job.
HoldersDecoder == Range(mJobs) \cup Range(jobs)

\* Mutated Holders: what the decoder's thread has taken is not held.
HoldersQueued == transfers \cup Range(mJobs)

\* The requests that hold their jobs: the functions connected to a client that
\* is running, the decoder's queue and its thread's vector.
Holders == transfers \cup Range(mJobs) \cup Range(jobs)
InUse(j) == \E r \in Holders : job[r] = j

\* Pool::get(): the first item that only the pool holds, or a new job.
Get(items, r) ==
    LET free == {j \in items : ~InUse(j)}
    IN  IF free # {} THEN Min(free) ELSE Fresh(r)

\* resolve(outcome) of a job's Then: to its handler, if there is one, in the
\* loop's thread; kept otherwise.
Kept(j, outcome) ==
    /\ mArg' = [mArg EXCEPT ![j] = IF mNext[j] = None THEN outcome ELSE @]
    /\ mNext' = [mNext EXCEPT ![j] = None]

Call(r, outcome) == [handler |-> r, outcome |-> outcome]
Runs(call) == answered' = [answered EXCEPT ![call.handler] = Append(@, call.outcome)]

-----------------------------------------------------------------------------
(* The loop's thread *)

Free == pc = "loop" /\ holding = None

\* The next request takes a job.  What an earlier one left in its Then matters
\* unless it is overwritten before anybody looks.
Takes(what, items) ==
    LET r == Made + 1
        j == Get(items, r)
    IN  /\ Free /\ r \in Requests
        /\ kind' = [kind EXCEPT ![r] = what]
        /\ job' = [job EXCEPT ![r] = j]
        /\ clean' = IF mNext[j] = None /\ (mArg[j] = None \/ what = "file")
                    THEN clean \cup {r} ELSE clean
        /\ holding' = r

\* fetch() of a path: resolved at once, and the job is let go of.
FetchFile ==
    /\ Takes("file", FetchItems)
    /\ LET j == job'[holding'] IN
          /\ Kept(j, holding')
          /\ IF mNext[j] = None THEN UNCHANGED answered ELSE Runs(Call(mNext[j], holding'))
    /\ UNCHANGED <<transfers, decoderVars, pc, posted, attached>>

\* fetch() of a URL: the client's signals hold the job.
FetchHttp ==
    /\ Takes("http", FetchItems)
    /\ transfers' = transfers \cup {holding'}
    /\ UNCHANGED <<thenVars, decoderVars, pc, posted, attached, answered>>

\* Decoder::decode()
Decode ==
    /\ ~mStopped
    /\ Takes("decode", DecoderItems)
    /\ mJobs' = Append(mJobs, holding')
    /\ UNCHANGED <<thenVars, transfers, jobs, decoded, thread, mStopped, pc, posted, attached, answered>>

\* Mutated Attach: an outcome that is already there is not looked for.
AttachBlind ==
    LET j == job[holding] IN
    /\ pc = "loop" /\ holding # None
    /\ attached' = attached \cup {holding}
    /\ mNext' = [mNext EXCEPT ![j] = holding]
    /\ holding' = None
    /\ UNCHANGED <<requestVars, mArg, transfers, decoderVars, pc, posted, answered>>

\* then() on the reference in hand: an outcome that is already there is posted
\* to the handler, moved from, and not reset.
Attach ==
    LET j == job[holding] IN
    /\ pc = "loop" /\ holding # None
    /\ attached' = attached \cup {holding}
    /\ IF ~(j \in Items \/ InUse(j))
       THEN pc' = "undefined" /\ UNCHANGED <<thenVars, posted, holding>>
       ELSE /\ IF mArg[j] = None
               THEN mNext' = [mNext EXCEPT ![j] = holding] /\ UNCHANGED <<mArg, posted>>
               ELSE /\ posted' = Append(posted, Call(holding, mArg[j]))
                    /\ mArg' = [mArg EXCEPT ![j] = Moved]
                    /\ mNext' = [mNext EXCEPT ![j] = None]
            /\ holding' = None
            /\ UNCHANGED pc
    /\ UNCHANGED <<requestVars, transfers, decoderVars, answered>>

\* The program does not care about the outcome.
Ignore ==
    /\ pc = "loop" /\ holding # None
    /\ holding' = None
    /\ UNCHANGED <<requestVars, thenVars, transfers, decoderVars, pc, posted, attached, answered>>

\* onComplete, whether the transfer has failed or not: the job's Then is
\* resolved, and the client and its functions let go of the job.
TransferEnds(r) ==
    /\ Free /\ r \in transfers
    /\ transfers' = transfers \ {r}
    /\ Kept(job[r], r)
    /\ IF mNext[job[r]] = None THEN UNCHANGED answered ELSE Runs(Call(mNext[job[r]], r))
    /\ UNCHANGED <<requestVars, decoderVars, holding, pc, posted, attached>>

\* The loop runs what is posted.
RunPosted ==
    /\ Free /\ posted # <<>>
    /\ Runs(Head(posted))
    /\ posted' = Tail(posted)
    /\ UNCHANGED <<requestVars, thenVars, transfers, decoderVars, holding, pc, attached>>

\* ~Decoder, up to the join and after it.
Stop ==
    /\ Free /\ ~mStopped
    /\ mStopped' = TRUE
    /\ pc' = "join"
    /\ UNCHANGED <<requestVars, thenVars, transfers, mJobs, jobs, decoded, thread, holding, posted,
                   attached, answered>>

Joined ==
    /\ pc = "join" /\ thread = "over"
    /\ pc' = "loop"
    /\ UNCHANGED <<requestVars, thenVars, transfers, decoderVars, holding, posted, attached, answered>>

-----------------------------------------------------------------------------
(* The decoder's thread *)

\* The locked section: what is queued is taken, and dropped if the decoder has
\* been stopped.
TakeJobs ==
    /\ thread = "wait"
    /\ mJobs # <<>> \/ mStopped
    /\ mJobs' = <<>>
    /\ IF mStopped THEN thread' = "over" /\ UNCHANGED jobs
                   ELSE thread' = "work" /\ jobs' = mJobs
    /\ UNCHANGED <<requestVars, thenVars, transfers, decoded, mStopped, holding, pc, posted, attached,
                   answered>>

\* The next picture: the job's Then is resolved, its handler sent to the loop.
DecodeNext ==
    LET r == jobs[decoded + 1]
        j == job[r]
    IN  /\ thread = "work" /\ decoded < Len(jobs)
        /\ Kept(j, r)
        /\ posted' = IF mNext[j] = None THEN posted ELSE Append(posted, Call(mNext[j], r))
        /\ decoded' = decoded + 1
        /\ UNCHANGED <<requestVars, transfers, mJobs, jobs, thread, mStopped, holding, pc, attached,
                       answered>>

\* The vector goes, and the jobs with it.
PassEnds ==
    /\ thread = "work" /\ decoded = Len(jobs)
    /\ jobs' = <<>> /\ decoded' = 0
    /\ thread' = "wait"
    /\ UNCHANGED <<requestVars, thenVars, transfers, mJobs, mStopped, holding, pc, posted, attached,
                   answered>>

DecoderThread == TakeJobs \/ DecodeNext \/ PassEnds

-----------------------------------------------------------------------------
Next ==
    \/ FetchFile \/ FetchHttp \/ Decode \/ Attach \/ Ignore
    \/ \E r \in Requests : TransferEnds(r)
    \/ RunPosted \/ Stop \/ Joined \/ DecoderThread

Spec == Init /\ [][Next]_vars

\* Both threads go on, and transfers come to an end, as HttpClient.tla shows of
\* those that curl ends.
LiveSpec ==
    /\ Spec
    /\ WF_vars(RunPosted) /\ WF_vars(Joined) /\ WF_vars(DecoderThread)
    /\ WF_vars(Attach \/ Ignore)
    /\ \A r \in Requests : WF_vars(TransferEnds(r))

-----------------------------------------------------------------------------
(* Properties *)

\* A handler is called once at most, with the outcome of its own request, if its
\* job had nothing left over.  Otherwise it may be given an earlier request's
\* outcome or an empty one.
OwnOutcome == \A r \in clean : answered[r] \in {<<>>, <<r>>}

\* The requests that have no outcome yet.
InProgress == transfers \cup Range(mJobs) \cup Range(SubSeq(jobs, decoded + 1, Len(jobs)))

\* Requests that are in progress never share a job; a reference dangles only
\* when every item of the pool was in use; what is left in an item of Fetch is
\* an outcome, never a handler.
JobsSafe ==
    /\ TypeOK
    /\ \A r, s \in InProgress : job[r] = job[s] => r = s
    /\ pc = "undefined" => job[holding] \notin Items
    /\ \A j \in FetchItems : mNext[j] # None => InUse(j)

\* A handler whose job had nothing left over is called in the end, also when the
\* transfer failed, unless the decoder is stopped before.
AnswerComes ==
    \A r \in Requests :
        r \in attached \cap clean ~>
            answered[r] # <<>> \/ pc = "undefined" \/ (kind[r] = "decode" /\ mStopped)

=============================================================================
