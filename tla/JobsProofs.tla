----------------------------- MODULE JobsProofs -----------------------------
(***************************************************************************)
(* Proofs about Jobs for any number of requests and any size of the pools. *)
(*                                                                         *)
(* A handler is in one place: in the Then of its job, among what is        *)
(* posted, or called (Handlers, Posted, Answers).  A job goes to one       *)
(* request at a time among those that may still resolve it (Apart), so     *)
(* what comes to a handler is its own outcome, unless the Then held        *)
(* something when the request got the job.                                 *)
(***************************************************************************)
EXTENDS Jobs, FiniteSetTheorems, SequenceTheorems, TLAPS

-----------------------------------------------------------------------------
(* The inductive invariant *)

Outcomes == Requests \cup {Moved}
Typed ==
    /\ TypeOK
    /\ posted \in Seq([handler : Requests, outcome : Outcomes])
    /\ answered \in [Requests -> Seq(Outcomes)]

\* Requests are numbered in the order in which they are made.
Numbered == \E n \in 0..MaxRequests : \A r \in Requests : kind[r] # "none" <=> r <= n

\* Files and transfers have the jobs of Fetch, pictures those of Decoder.
Kinds ==
    /\ \A r \in Requests :
          /\ kind[r] = "none" => job[r] = None
          /\ kind[r] \in {"file", "http"} => job[r] \in FetchItems \cup {Fresh(r)}
          /\ kind[r] = "decode" => job[r] \in DecoderItems \cup {Fresh(r)}
    /\ \A r \in transfers : kind[r] = "http"
    /\ \A r \in Range(mJobs) \cup Range(jobs) : kind[r] = "decode"
    /\ holding # None => kind[holding] # "none"
    /\ \A r \in attached \cup clean : kind[r] # "none"

\* The decoder's thread keeps nothing while it waits, and nothing is queued for a
\* thread that is over.
Thread ==
    /\ thread # "work" => jobs = <<>> /\ decoded = 0
    /\ thread = "over" => mStopped /\ mJobs = <<>>

\* Those that hold their jobs, or were given them last, have different ones.
Held(r) == r \in Holders \/ (r = holding /\ r # None)
Apart == \A r, s \in Requests : Held(r) /\ Held(s) /\ job[r] = job[s] => r = s

\* Only a job that belongs to no pool is gone when its reference is used.
Lost == pc = "undefined" => holding # None /\ job[holding] \notin Items

\* The request in hand has no handler yet, and its outcome, if it is there, is in
\* the Then where the handler will look for it.
InHand ==
    holding # None /\ pc # "undefined" =>
        LET j == job[holding]
        IN  /\ holding \notin attached
            /\ kind[holding] = "http" => holding \in transfers
            /\ kind[holding] = "file" => mArg[j] # None
            /\ kind[holding] = "decode" => ~mStopped
            /\ holding \in clean =>
                  /\ mNext[j] = None
                  /\ mArg[j] = holding \/ (mArg[j] = None /\ holding \in InProgress)

\* A handler in a Then: neither posted nor called, and its request is in progress
\* if nothing was left over for it.
Handlers ==
    \A j \in AllJobs, r \in Requests :
        mNext[j] = r =>
            /\ r \in attached /\ job[r] = j
            /\ answered[r] = <<>>
            /\ \A i \in 1..Len(posted) : posted[i].handler # r
            /\ r \in clean => r \in InProgress \/ (thread = "over" /\ kind[r] = "decode")
            /\ j \in FetchItems => \E s \in transfers : job[s] = j

\* A handler that is posted: not called yet, and posted once.
Posted ==
    \A i \in 1..Len(posted), r \in Requests :
        posted[i].handler = r =>
            /\ r \in attached /\ answered[r] = <<>>
            /\ r \in clean => posted[i].outcome = r
            /\ \A k \in 1..Len(posted) : posted[k].handler = r => i = k

\* A handler that was called: once, and with its own outcome.
Answers ==
    \A r \in Requests :
        /\ r \notin attached => answered[r] = <<>>
        /\ Len(answered[r]) <= 1
        /\ r \in clean => answered[r] \in {<<>>, <<r>>}

IInv == /\ Typed /\ Numbered /\ Kinds /\ Thread /\ Apart /\ Lost /\ InHand
        /\ Handlers /\ Posted /\ Answers

-----------------------------------------------------------------------------
(* Jobs and requests *)

LEMMA Ids ==
    /\ PoolSize \in Nat /\ PoolSize >= 1 /\ MaxRequests \in Nat
    /\ None \notin Requests /\ Moved \notin Requests /\ None # Moved
    /\ None \notin AllJobs /\ Items \subseteq AllJobs /\ Items \subseteq Nat
    /\ FetchItems \subseteq Items /\ DecoderItems \subseteq Items
    /\ \A j \in FetchItems : j \notin DecoderItems
    /\ \A r \in Requests : Fresh(r) \in AllJobs /\ Fresh(r) \notin Items
    /\ \A r, s \in Requests : Fresh(r) = Fresh(s) => r = s
<1>1. PoolSize \in Nat /\ PoolSize >= 1 /\ MaxRequests \in Nat
  BY JobsAssumption
<1>2. None \notin Requests /\ Moved \notin Requests /\ None # Moved
  BY <1>1 DEF None, Moved, Requests
<1>3. \A r \in Requests : r \in Nat /\ r >= 1
  BY <1>1 DEF Requests
<1>4. \A j \in Items : j \in Nat /\ j >= 1 /\ j <= 2 * PoolSize
  BY <1>1 DEF Items, FetchItems, DecoderItems
<1>5. \A r \in Requests : Fresh(r) \in AllJobs /\ Fresh(r) \in Nat /\ Fresh(r) > 2 * PoolSize
  BY <1>1, <1>3 DEF Fresh, AllJobs
<1>6. \A r \in Requests : Fresh(r) \notin Items
  BY <1>1, <1>4, <1>5
<1>7. None \notin AllJobs
  BY <1>1, <1>4, <1>5 DEF AllJobs, None
<1>8. \A j \in FetchItems : j \notin DecoderItems
  BY <1>1 DEF FetchItems, DecoderItems
<1>9. \A r, s \in Requests : Fresh(r) = Fresh(s) => r = s
  BY <1>1, <1>3 DEF Fresh
<1>10. Items \subseteq AllJobs /\ Items \subseteq Nat /\ FetchItems \subseteq Items /\ DecoderItems \subseteq Items
  BY <1>4 DEF AllJobs, Items
<1> QED BY <1>1, <1>2, <1>5, <1>6, <1>7, <1>8, <1>9, <1>10

\* Where an element of a sequence is.
LEMMA Somewhere ==
    ASSUME NEW T, NEW s \in Seq(T), NEW r
    PROVE  r \in Range(s) <=> \E i \in 1..Len(s) : s[i] = r
<1>1. DOMAIN s = 1..Len(s)
  OBVIOUS
<1> QED BY <1>1 DEF Range

\* What is left of a sequence.
LEMMA Rest ==
    ASSUME NEW T, NEW s \in Seq(T), NEW d \in 0..Len(s), NEW r
    PROVE  r \in Range(SubSeq(s, d + 1, Len(s))) <=> \E i \in 1..Len(s) : i > d /\ s[i] = r
<1> DEFINE rest == SubSeq(s, d + 1, Len(s))
<1>1. Len(s) \in Nat /\ d \in Nat /\ d <= Len(s)
  OBVIOUS
<1>2. /\ rest \in Seq(T) /\ Len(rest) = Len(s) - d
      /\ \A i \in 1..(Len(s) - d) : rest[i] = s[d + i]
  BY <1>1, SubSeqProperties
<1> HIDE DEF rest
<1>3. r \in Range(rest) <=> \E i \in 1..(Len(s) - d) : rest[i] = r
  BY <1>2, Somewhere
<1>4. ASSUME NEW i \in 1..(Len(s) - d), rest[i] = r
      PROVE  \E k \in 1..Len(s) : k > d /\ s[k] = r
  <2>1. d + i \in 1..Len(s) /\ d + i > d /\ s[d + i] = r
    BY <1>1, <1>2, <1>4
  <2> QED BY <2>1
<1>5. ASSUME NEW k \in 1..Len(s), k > d, s[k] = r
      PROVE  \E i \in 1..(Len(s) - d) : rest[i] = r
  <2>1. k - d \in 1..(Len(s) - d) /\ d + (k - d) = k
    BY <1>1, <1>5
  <2>2. rest[k - d] = r
    BY <1>2, <1>5, <2>1
  <2> QED BY <2>1, <2>2
<1> QED BY <1>3, <1>4, <1>5 DEF rest

\* The requests in progress, by the place where they wait.
LEMMA Progress ==
    ASSUME TypeOK, NEW r
    PROVE  r \in InProgress <=> \/ r \in transfers \/ r \in Range(mJobs)
                                \/ \E i \in 1..Len(jobs) : i > decoded /\ jobs[i] = r
<1>1. jobs \in Seq(Requests) /\ decoded \in 0..Len(jobs)
  BY DEF TypeOK
<1> QED BY <1>1, Rest DEF InProgress

\* What is in progress holds its job.
LEMMA ProgressHolds ==
    ASSUME TypeOK
    PROVE  \A q \in InProgress : q \in Holders /\ q \in Requests
<1>1. mJobs \in Seq(Requests) /\ jobs \in Seq(Requests)
  BY DEF TypeOK
<1>2. \A q \in Holders : q \in Requests
  BY <1>1, Somewhere DEF Holders, TypeOK
<1>3. \A q \in InProgress : q \in Holders
  BY <1>1, Progress, Somewhere DEF Holders
<1> QED BY <1>2, <1>3

\* Pool::get() returns an item that nobody else holds, or a job of its own.
LEMMA Gets ==
    ASSUME NEW items, items \subseteq Items, NEW r
    PROVE  (Get(items, r) \in items /\ ~InUse(Get(items, r))) \/ Get(items, r) = Fresh(r)
<1> DEFINE free == {j \in items : ~InUse(j)}
<1>1. CASE free # {}
  <2>1. free \subseteq Nat
    BY Ids
  <2>2. PICK m \in free : \A y \in free : ~ (<<y, m>> \in OpToRel(<, Nat))
    BY <1>1, <2>1, NatLessThanWellFounded, WFMin
  <2>3. \A y \in free : ~ (y < m)
    BY <2>1, <2>2 DEF OpToRel
  <2>4. \E k \in free : \A y \in free : k <= y
    BY <2>1, <2>3
  <2>5. Min(free) \in free
    BY <2>4 DEF Min
  <2>6. Get(items, r) = Min(free)
    BY <1>1 DEF Get
  <2> QED BY <2>5, <2>6
<1>2. CASE free = {}
  BY <1>2 DEF Get
<1> QED BY <1>1, <1>2

\* Made is the number of the last request.
LEMMA LastMade ==
    ASSUME Numbered
    PROVE  Made \in Nat /\ \A r \in Requests : kind[r] # "none" <=> r <= Made
<1>1. PICK n \in 0..MaxRequests : \A r \in Requests : kind[r] # "none" <=> r <= n
  BY DEF Numbered
<1>2. MaxRequests \in Nat /\ n \in Nat /\ n <= MaxRequests
  BY <1>1, Ids
<1>3. {r \in Requests : kind[r] # "none"} = 1..n
  BY <1>1, <1>2 DEF Requests
<1>4. Cardinality(1..n) = n
  BY <1>2, FS_Interval
<1>5. Made = n
  BY <1>3, <1>4 DEF Made
<1> QED BY <1>1, <1>2, <1>5

\* What pool::Pool promises a request that takes a job: nobody holds the job, and
\* nobody knows the request yet.
New(r, what) ==
    /\ r \in Requests /\ holding' = r /\ kind[r] = "none" /\ job[r] = None
    /\ kind' = [kind EXCEPT ![r] = what]
    /\ job' = [job EXCEPT ![r] = job'[r]] /\ job'[r] \in AllJobs /\ job'[r] # None
    /\ r \notin Holders /\ r \notin attached /\ r \notin clean /\ answered[r] = <<>>
    /\ \A s \in Holders : job[s] # job'[r]
    /\ clean' \in {clean, clean \cup {r}}
    /\ r \in clean' => mNext[job'[r]] = None /\ (mArg[job'[r]] = None \/ what = "file")

LEMMA TakesNew ==
    ASSUME IInv, NEW what \in {"file", "http", "decode"}, NEW items, items \subseteq Items,
           Takes(what, items)
    PROVE  \E r \in Requests :
              /\ New(r, what) /\ Numbered'
              /\ job'[r] \in items \/ job'[r] = Fresh(r)
<1> DEFINE r == Made + 1
           j == Get(items, r)
<1>1. /\ r \in Requests /\ holding' = r
      /\ kind' = [kind EXCEPT ![r] = what] /\ job' = [job EXCEPT ![r] = j]
      /\ clean' = IF mNext[j] = None /\ (mArg[j] = None \/ what = "file") THEN clean \cup {r} ELSE clean
  BY DEF Takes
<1>2. Made \in Nat /\ \A q \in Requests : kind[q] # "none" <=> q <= Made
  BY LastMade DEF IInv
<1> HIDE DEF j
<1>3. kind[r] = "none"
  BY <1>1, <1>2
<1>4. kind \in [Requests -> {"none", "file", "http", "decode"}] /\ job \in [Requests -> AllJobs \cup {None}]
  BY DEF IInv, Typed, TypeOK
<1>5. (j \in items /\ ~InUse(j)) \/ j = Fresh(r)
  BY Gets DEF j
<1> HIDE DEF r
<1>6. j \in AllJobs /\ j # None /\ job'[r] = j
  BY <1>1, <1>4, <1>5, Ids
<1>7. r \notin Holders /\ r \notin attached /\ r \notin clean /\ answered[r] = <<>> /\ job[r] = None
  BY <1>1, <1>3 DEF IInv, Kinds, Holders, Answers
<1>8. \A s \in Holders : s \in Requests /\ kind[s] \in {"http", "decode"}
  <2>1. transfers \subseteq Requests /\ mJobs \in Seq(Requests) /\ jobs \in Seq(Requests)
    BY DEF IInv, Typed, TypeOK
  <2>2. Range(mJobs) \subseteq Requests /\ Range(jobs) \subseteq Requests
    BY <2>1, Somewhere
  <2> QED BY <2>1, <2>2 DEF Holders, IInv, Kinds
<1>9. ASSUME NEW s \in Holders
      PROVE  job[s] # j
  <2>1. CASE j \in items /\ ~InUse(j)
    BY <2>1, <1>9 DEF InUse
  <2>2. CASE j = Fresh(r)
    <3>1. job[s] \in Items \/ job[s] = Fresh(s)
      BY <1>8, Ids DEF IInv, Kinds
    <3>2. s \in Requests /\ s # r
      BY <1>3, <1>8
    <3> QED BY <2>2, <3>1, <3>2, <1>1, Ids
  <2> QED BY <1>5, <2>1, <2>2
<1>10. Numbered'
  <2>1. ASSUME NEW q \in Requests
        PROVE  kind'[q] # "none" <=> q <= r
    <3>1. q \in Nat
      BY Ids DEF Requests
    <3>2. r = Made + 1
      BY DEF r
    <3>3. CASE q = r
      <4>1. kind'[q] = what
        BY <1>1, <1>4, <3>3
      <4> QED BY <3>1, <3>3, <4>1
    <3>4. CASE q # r
      <4>1. kind'[q] = kind[q]
        BY <1>1, <1>4, <3>4
      <4>2. kind[q] # "none" <=> q <= Made
        BY <1>2
      <4>3. q <= Made <=> q <= r
        BY <1>2, <3>1, <3>2, <3>4
      <4> QED BY <4>1, <4>2, <4>3
    <3> QED BY <3>3, <3>4
  <2>2. r \in 0..MaxRequests
    BY <1>1, Ids DEF Requests
  <2> QED BY <2>1, <2>2 DEF Numbered
<1>11. job' = [job EXCEPT ![r] = job'[r]]
  BY <1>1, <1>6
<1>12. clean' \in {clean, clean \cup {r}}
  BY <1>1
<1>13. r \in clean' => mNext[j] = None /\ (mArg[j] = None \/ what = "file")
  BY <1>1, <1>7
<1>14. New(r, what)
  BY <1>1, <1>3, <1>6, <1>7, <1>9, <1>11, <1>12, <1>13 DEF New
<1> QED BY <1>1, <1>5, <1>6, <1>10, <1>14

\* What a new request cannot disturb, whatever is asked for.
LEMMA NewIsApart ==
    ASSUME IInv, NEW what \in {"file", "http", "decode"}, NEW r \in Requests, New(r, what),
           what # "decode" => job'[r] \in FetchItems \cup {Fresh(r)},
           what = "decode" => job'[r] \in DecoderItems \cup {Fresh(r)},
           pc = "loop", pc' = "loop", thread' = thread, mNext' = mNext,
           posted' = posted, attached' = attached, answered' = answered,
           transfers \subseteq transfers', InProgress \subseteq InProgress',
           Holders' \subseteq Holders \cup {r},
           \A q \in transfers' : q \in transfers \/ (q = r /\ what = "http"),
           \A q \in (Range(mJobs) \cup Range(jobs))' :
              q \in Range(mJobs) \cup Range(jobs) \/ (q = r /\ what = "decode")
    PROVE  Kinds' /\ Apart' /\ Lost' /\ Handlers' /\ Posted' /\ Answers'
<1>1. /\ kind \in [Requests -> {"none", "file", "http", "decode"}]
      /\ job \in [Requests -> AllJobs \cup {None}]
      /\ transfers \subseteq Requests /\ attached \subseteq Requests
  BY DEF IInv, Typed, TypeOK
<1>2. /\ kind'[r] = what
      /\ \A q \in Requests : q # r => kind'[q] = kind[q] /\ job'[q] = job[q]
  BY <1>1 DEF New
<1>3. \A q \in Holders \cup attached : q # r
  BY DEF New
<1>4. \A q \in Requests : q \in clean' => q \in clean \/ q = r
  BY DEF New
<1>5. \A q \in Holders : q \in Requests
  <2>1. mJobs \in Seq(Requests) /\ jobs \in Seq(Requests)
    BY DEF IInv, Typed, TypeOK
  <2> QED BY <1>1, <2>1, Somewhere DEF Holders
<1>6. r \in Requests /\ r # None /\ holding' = r
  BY Ids DEF New
<1>7. Kinds'
  <2>1. \A q \in Requests :
           /\ kind'[q] = "none" => job'[q] = None
           /\ kind'[q] \in {"file", "http"} => job'[q] \in FetchItems \cup {Fresh(q)}
           /\ kind'[q] = "decode" => job'[q] \in DecoderItems \cup {Fresh(q)}
    <3> TAKE q \in Requests
    <3>1. CASE q = r
      BY <1>2, <3>1
    <3>2. CASE q # r
      BY <1>2, <3>2 DEF IInv, Kinds
    <3> QED BY <3>1, <3>2
  <2>2. \A q \in transfers' : kind'[q] = "http"
    <3> TAKE q \in transfers'
    <3>1. CASE q = r /\ what = "http"
      BY <1>2, <3>1
    <3>2. CASE q \in transfers
      BY <1>1, <1>2, <1>3, <3>2 DEF IInv, Kinds, Holders
    <3> QED BY <3>1, <3>2
  <2>3. \A q \in (Range(mJobs) \cup Range(jobs))' : kind'[q] = "decode"
    <3> TAKE q \in (Range(mJobs) \cup Range(jobs))'
    <3>1. CASE q = r /\ what = "decode"
      BY <1>2, <3>1
    <3>2. CASE q \in Range(mJobs) \cup Range(jobs)
      <4>1. q \in Holders
        BY <3>2 DEF Holders
      <4>2. kind'[q] = kind[q]
        BY <1>2, <1>3, <1>5, <4>1
      <4> QED BY <3>2, <4>2 DEF IInv, Kinds
    <3> QED BY <3>1, <3>2
  <2>4. kind'[holding'] # "none"
    BY <1>2, <1>6
  <2>5. \A q \in attached \cup clean' : kind'[q] # "none"
    <3>1. clean \subseteq Requests
      BY DEF IInv, Typed, TypeOK
    <3>2. \A q \in attached \cup clean : kind'[q] # "none"
      BY <1>1, <1>2, <1>3, <3>1 DEF IInv, Kinds, New
    <3> QED BY <1>2, <1>4, <3>1, <3>2 DEF New
  <2> QED BY <2>1, <2>2, <2>3, <2>4, <2>5 DEF Kinds
<1>8. Apart'
  <2>1. \A q \in Requests : Held(q)' => q \in Holders \/ q = r
    BY <1>6 DEF Held
  <2>2. \A q \in Holders : job'[q] = job[q] /\ job'[q] # job'[r]
    BY <1>2, <1>3, <1>5 DEF New
  <2>3. \A q, s \in Holders : job[q] = job[s] => q = s
    BY <1>5 DEF IInv, Apart, Held
  <2>4. SUFFICES ASSUME NEW q \in Requests, NEW s \in Requests,
                        Held(q)', Held(s)', job'[q] = job'[s]
                 PROVE  q = s
    BY DEF Apart, Held
  <2> QED BY <2>1, <2>2, <2>3, <2>4
<1>9. Lost'
  BY DEF Lost
<1>10. Handlers'
  <2> SUFFICES ASSUME NEW j \in AllJobs, NEW q \in Requests, mNext[j] = q
               PROVE  /\ q \in attached /\ job'[q] = j
                      /\ answered[q] = <<>>
                      /\ \A i \in 1..Len(posted) : posted[i].handler # q
                      /\ q \in clean' => q \in InProgress' \/ (thread = "over" /\ kind'[q] = "decode")
                      /\ j \in FetchItems => \E s \in transfers' : job'[s] = j
    BY DEF Handlers
  <2>1. /\ q \in attached /\ job[q] = j
        /\ answered[q] = <<>>
        /\ \A i \in 1..Len(posted) : posted[i].handler # q
        /\ q \in clean => q \in InProgress \/ (thread = "over" /\ kind[q] = "decode")
        /\ j \in FetchItems => \E s \in transfers : job[s] = j
    BY DEF IInv, Handlers
  <2>2. q # r /\ job'[q] = job[q] /\ kind'[q] = kind[q]
    BY <1>2, <1>3, <2>1
  <2>3. \A s \in transfers : s \in transfers' /\ job'[s] = job[s]
    BY <1>1, <1>2, <1>3 DEF Holders
  <2> QED BY <1>4, <2>1, <2>2, <2>3
<1>11. Posted'
  BY <1>3, <1>4 DEF IInv, Posted
<1>12. Answers'
  <2>1. answered[r] = <<>>
    BY DEF New
  <2> QED BY <1>4, <2>1 DEF IInv, Answers
<1> QED BY <1>7, <1>8, <1>9, <1>10, <1>11, <1>12

\* A job of Fetch that nobody holds has no handler.
LEMMA NoHandler ==
    ASSUME IInv, NEW what, NEW r \in Requests, New(r, what), job'[r] \in FetchItems \cup {Fresh(r)}
    PROVE  mNext[job'[r]] = None
<1> DEFINE j == job'[r]
<1>1. j \in AllJobs /\ mNext \in [AllJobs -> Requests \cup {None}] /\ j \in FetchItems \cup {Fresh(r)}
  BY DEF New, IInv, Typed, TypeOK
<1>2. kind[r] = "none" /\ r \notin attached /\ \A s \in Holders : job[s] # j
  BY DEF New
<1> HIDE DEF j
<1>3. SUFFICES ASSUME NEW q \in Requests, mNext[j] = q PROVE FALSE
  BY <1>1 DEF j
<1>4. q \in attached /\ job[q] = j /\ (j \in FetchItems => \E s \in transfers : job[s] = j)
  BY <1>1, <1>3 DEF IInv, Handlers
<1>5. j \notin FetchItems
  BY <1>2, <1>4 DEF Holders
<1>6. j = Fresh(r)
  BY <1>1, <1>5
<1>7. job[q] \in Items \/ job[q] = Fresh(q)
  <2>1. kind[q] \in {"none", "file", "http", "decode"}
    BY DEF IInv, Typed, TypeOK
  <2>2. kind[q] # "none"
    BY <1>4 DEF IInv, Kinds
  <2> QED BY <2>1, <2>2, Ids DEF IInv, Kinds
<1>8. q = r
  BY <1>4, <1>6, <1>7, Ids
<1> QED BY <1>2, <1>4, <1>8

-----------------------------------------------------------------------------
(* The requests *)

LEMMA FetchFileInv == ASSUME IInv, FetchFile PROVE IInv'
<1>1. /\ Takes("file", FetchItems) /\ Kept(job'[holding'], holding')
      /\ IF mNext[job'[holding']] = None THEN UNCHANGED answered
                                         ELSE Runs(Call(mNext[job'[holding']], holding'))
      /\ UNCHANGED <<transfers, mJobs, jobs, decoded, thread, mStopped, pc, posted, attached>>
  BY DEF FetchFile, decoderVars
<1>2. PICK r \in Requests : New(r, "file") /\ Numbered' /\ job'[r] \in FetchItems \cup {Fresh(r)}
  <2>1. FetchItems \subseteq Items
    BY Ids
  <2> QED BY <1>1, <2>1, TakesNew
<1>3. holding' = r /\ pc = "loop"
  BY <1>1, <1>2 DEF New, Takes, Free
<1>4. mNext[job'[r]] = None
  BY <1>2, NoHandler
<1>5. TypeOK /\ job'[r] \in AllJobs
  BY <1>2 DEF IInv, Typed, New
<1>6. mArg' = [mArg EXCEPT ![job'[r]] = r] /\ mNext' = mNext /\ answered' = answered
  BY <1>1, <1>3, <1>4, <1>5 DEF Kept, TypeOK
<1>7. InProgress' = InProgress /\ Holders' = Holders
  BY <1>1 DEF InProgress, Holders
<1>8. Kinds' /\ Apart' /\ Lost' /\ Handlers' /\ Posted' /\ Answers'
  <2>1. (Range(mJobs) \cup Range(jobs))' = Range(mJobs) \cup Range(jobs)
    BY <1>1
  <2> QED BY <1>1, <1>2, <1>3, <1>6, <1>7, <2>1, NewIsApart
<1>9. Typed'
  <2>1. kind' \in [Requests -> {"none", "file", "http", "decode"}] /\ job' \in [Requests -> AllJobs \cup {None}]
    BY <1>2, <1>5 DEF New, TypeOK
  <2>2. mArg' \in [AllJobs -> Requests \cup {None, Moved}]
    BY <1>5, <1>6 DEF TypeOK
  <2>3. clean' \subseteq Requests
    BY <1>2, <1>5 DEF New, TypeOK
  <2> QED BY <1>1, <1>3, <1>5, <1>6, <2>1, <2>2, <2>3 DEF TypeOK, Typed, IInv
<1>10. Thread'
  BY <1>1 DEF IInv, Thread
<1>11. InHand'
  <2>1. r \notin attached /\ kind'[r] = "file"
    BY <1>2, <1>5 DEF New, TypeOK
  <2>2. mArg'[job'[r]] = r /\ r # None
    BY <1>5, <1>6, Ids DEF TypeOK
  <2> QED BY <1>1, <1>3, <1>4, <1>6, <2>1, <2>2 DEF InHand
<1> QED BY <1>2, <1>8, <1>9, <1>10, <1>11 DEF IInv

LEMMA FetchHttpInv == ASSUME IInv, FetchHttp PROVE IInv'
<1>1. /\ Takes("http", FetchItems) /\ transfers' = transfers \cup {holding'}
      /\ UNCHANGED <<mArg, mNext, mJobs, jobs, decoded, thread, mStopped, pc, posted, attached, answered>>
  BY DEF FetchHttp, thenVars, decoderVars
<1>2. PICK r \in Requests : New(r, "http") /\ Numbered' /\ job'[r] \in FetchItems \cup {Fresh(r)}
  <2>1. FetchItems \subseteq Items
    BY Ids
  <2> QED BY <1>1, <2>1, TakesNew
<1>3. holding' = r /\ pc = "loop" /\ transfers' = transfers \cup {r}
  BY <1>1, <1>2 DEF New, Takes, Free
<1>4. mNext[job'[r]] = None
  BY <1>2, NoHandler
<1>5. TypeOK /\ job'[r] \in AllJobs
  BY <1>2 DEF IInv, Typed, New
<1>6. InProgress' = InProgress \cup {r} /\ Holders' = Holders \cup {r}
  BY <1>1, <1>3 DEF InProgress, Holders
<1>7. Kinds' /\ Apart' /\ Lost' /\ Handlers' /\ Posted' /\ Answers'
  <2>1. (Range(mJobs) \cup Range(jobs))' = Range(mJobs) \cup Range(jobs)
    BY <1>1
  <2> QED BY <1>1, <1>2, <1>3, <1>6, <2>1, NewIsApart
<1>8. Typed'
  <2>1. kind' \in [Requests -> {"none", "file", "http", "decode"}] /\ job' \in [Requests -> AllJobs \cup {None}]
    BY <1>2, <1>5 DEF New, TypeOK
  <2>2. clean' \subseteq Requests
    BY <1>2, <1>5 DEF New, TypeOK
  <2> QED BY <1>1, <1>3, <1>5, <2>1, <2>2 DEF TypeOK, Typed, IInv
<1>9. Thread'
  BY <1>1 DEF IInv, Thread
<1>10. InHand'
  <2>1. r \notin attached /\ kind'[r] = "http"
    BY <1>2, <1>5 DEF New, TypeOK
  <2>2. r \in clean' => mArg[job'[r]] = None
    BY <1>2 DEF New
  <2> QED BY <1>1, <1>3, <1>4, <1>6, <2>1, <2>2 DEF InHand
<1> QED BY <1>2, <1>7, <1>8, <1>9, <1>10 DEF IInv

LEMMA DecodeInv == ASSUME IInv, Decode PROVE IInv'
<1>1. /\ ~mStopped /\ Takes("decode", DecoderItems) /\ mJobs' = Append(mJobs, holding')
      /\ UNCHANGED <<mArg, mNext, transfers, jobs, decoded, thread, mStopped, pc, posted, attached, answered>>
  BY DEF Decode, thenVars
<1>2. PICK r \in Requests : New(r, "decode") /\ Numbered' /\ job'[r] \in DecoderItems \cup {Fresh(r)}
  <2>1. DecoderItems \subseteq Items
    BY Ids
  <2> QED BY <1>1, <2>1, TakesNew
<1>3. holding' = r /\ pc = "loop" /\ mJobs' = Append(mJobs, r)
  BY <1>1, <1>2 DEF New, Takes, Free
<1>4. TypeOK /\ job'[r] \in AllJobs
  BY <1>2 DEF IInv, Typed, New
<1>5. mJobs' \in Seq(Requests) /\ \A q : q \in Range(mJobs') <=> q \in Range(mJobs) \/ q = r
  <2>1. mJobs \in Seq(Requests)
    BY <1>4 DEF TypeOK
  <2>2. /\ mJobs' \in Seq(Requests) /\ Len(mJobs') = Len(mJobs) + 1
        /\ \A i \in 1..Len(mJobs) : mJobs'[i] = mJobs[i]
        /\ mJobs'[Len(mJobs) + 1] = r
    BY <1>3, <2>1, AppendProperties
  <2>3. Len(mJobs) \in Nat
    BY <2>1
  <2>4. \A q : q \in Range(mJobs') <=> \E i \in 1..Len(mJobs') : mJobs'[i] = q
    BY <2>2, Somewhere
  <2>5. \A q : q \in Range(mJobs) <=> \E i \in 1..Len(mJobs) : mJobs[i] = q
    BY <2>1, Somewhere
  <2>6. ASSUME NEW q, q \in Range(mJobs')
        PROVE  q \in Range(mJobs) \/ q = r
    <3>1. PICK i \in 1..Len(mJobs') : mJobs'[i] = q
      BY <2>4, <2>6
    <3>2. i \in 1..Len(mJobs) \/ i = Len(mJobs) + 1
      BY <2>2, <2>3
    <3> QED BY <2>2, <2>5, <3>1, <3>2
  <2>7. ASSUME NEW q, q \in Range(mJobs)
        PROVE  q \in Range(mJobs')
    <3>1. PICK i \in 1..Len(mJobs) : mJobs[i] = q
      BY <2>5, <2>7
    <3>2. i \in 1..Len(mJobs') /\ mJobs'[i] = q
      BY <2>2, <2>3, <3>1
    <3> QED BY <2>4, <3>2
  <2>8. r \in Range(mJobs')
    <3>1. Len(mJobs) + 1 \in 1..Len(mJobs')
      BY <2>2, <2>3
    <3> QED BY <2>2, <2>4, <3>1
  <2> QED BY <2>2, <2>6, <2>7, <2>8
<1>6. InProgress \subseteq InProgress' /\ r \in InProgress' /\ Holders' \subseteq Holders \cup {r}
  BY <1>1, <1>5 DEF InProgress, Holders
<1>7. Kinds' /\ Apart' /\ Lost' /\ Handlers' /\ Posted' /\ Answers'
  <2>1. \A q \in (Range(mJobs) \cup Range(jobs))' : q \in Range(mJobs) \cup Range(jobs) \/ q = r
    BY <1>1, <1>5
  <2> QED BY <1>1, <1>2, <1>3, <1>6, <2>1, NewIsApart
<1>8. Typed'
  <2>1. kind' \in [Requests -> {"none", "file", "http", "decode"}] /\ job' \in [Requests -> AllJobs \cup {None}]
    BY <1>2, <1>4 DEF New, TypeOK
  <2>2. clean' \subseteq Requests
    BY <1>2, <1>4 DEF New, TypeOK
  <2> QED BY <1>1, <1>3, <1>4, <1>5, <2>1, <2>2 DEF TypeOK, Typed, IInv
<1>9. Thread'
  BY <1>1 DEF IInv, Thread
<1>10. InHand'
  <2>1. r \notin attached /\ kind'[r] = "decode"
    BY <1>2, <1>4 DEF New, TypeOK
  <2>2. r \in clean' => mNext[job'[r]] = None /\ mArg[job'[r]] = None
    BY <1>2 DEF New
  <2> QED BY <1>1, <1>3, <1>6, <2>1, <2>2 DEF InHand
<1> QED BY <1>2, <1>7, <1>8, <1>9, <1>10 DEF IInv

-----------------------------------------------------------------------------
(* The reference in hand *)

\* A request that leaves the program's hand makes nothing less apart.
LEMMA ApartStays ==
    ASSUME IInv, \A q \in Requests : Held(q)' => Held(q), job' = job
    PROVE  Apart'
<1> SUFFICES ASSUME NEW q \in Requests, NEW s \in Requests, Held(q)', Held(s)', job'[q] = job'[s]
             PROVE  q = s
  BY DEF Apart, Held
<1> QED BY DEF IInv, Apart

LEMMA IgnoreInv == ASSUME IInv, Ignore PROVE IInv'
<1>1. /\ holding' = None /\ pc = "loop" /\ holding # None
      /\ UNCHANGED <<kind, job, clean, mArg, mNext, transfers, mJobs, jobs, decoded, thread, mStopped, pc,
                     posted, attached, answered>>
  BY DEF Ignore, requestVars, thenVars, decoderVars
<1>2. InProgress' = InProgress /\ Holders' = Holders
  BY <1>1 DEF InProgress, Holders
<1>3. Typed'
  BY <1>1 DEF IInv, Typed, TypeOK
<1>4. Numbered' /\ Kinds' /\ Thread'
  BY <1>1 DEF IInv, Numbered, Kinds, Thread
<1>5. Apart'
  BY <1>1, <1>2, ApartStays DEF Held
<1>6. Lost' /\ InHand'
  BY <1>1 DEF Lost, InHand
<1>7. Handlers'
  BY <1>1, <1>2 DEF IInv, Handlers
<1>8. Posted' /\ Answers'
  BY <1>1 DEF IInv, Posted, Answers
<1> QED BY <1>3, <1>4, <1>5, <1>6, <1>7, <1>8 DEF IInv

\* A handler that is in no other place is posted.
LEMMA CallIsPosted ==
    ASSUME IInv, NEW h \in Requests, NEW o \in Outcomes, posted' = Append(posted, Call(h, o)),
           answered' = answered, clean' = clean, attached \subseteq attached',
           h \in attached', answered[h] = <<>>, h \in clean => o = h,
           \A i \in 1..Len(posted) : posted[i].handler # h
    PROVE  /\ posted' \in Seq([handler : Requests, outcome : Outcomes])
           /\ Posted'
           /\ \A q \in Requests : q # h /\ (\A i \in 1..Len(posted) : posted[i].handler # q) =>
                                  \A i \in 1..Len(posted') : posted'[i].handler # q
<1> DEFINE call == Call(h, o)
<1>1. call \in [handler : Requests, outcome : Outcomes] /\ call.handler = h /\ call.outcome = o
  BY DEF Call
<1> HIDE DEF call
<1>2. /\ posted' \in Seq([handler : Requests, outcome : Outcomes])
      /\ Len(posted) \in Nat /\ Len(posted') = Len(posted) + 1
      /\ \A i \in 1..Len(posted) : posted'[i] = posted[i]
      /\ posted'[Len(posted) + 1] = call
  <2>1. posted \in Seq([handler : Requests, outcome : Outcomes]) /\ posted' = Append(posted, call)
    BY DEF IInv, Typed, call
  <2> QED BY <1>1, <2>1, AppendProperties
<1>3. \A i \in 1..Len(posted') : i \in 1..Len(posted) \/ i = Len(posted) + 1
  BY <1>2
<1>4. Posted'
  <2> SUFFICES ASSUME NEW i \in 1..Len(posted'), NEW q \in Requests, posted'[i].handler = q
               PROVE  /\ q \in attached' /\ answered[q] = <<>>
                      /\ q \in clean => posted'[i].outcome = q
                      /\ \A k \in 1..Len(posted') : posted'[k].handler = q => i = k
    BY DEF Posted
  <2>1. CASE i \in 1..Len(posted)
    <3>1. /\ q \in attached /\ answered[q] = <<>>
          /\ q \in clean => posted[i].outcome = q
          /\ \A k \in 1..Len(posted) : posted[k].handler = q => i = k
      BY <1>2, <2>1 DEF IInv, Posted
    <3>2. posted'[i] = posted[i] /\ q # h
      BY <1>2, <2>1
    <3>3. ASSUME NEW k \in 1..Len(posted'), posted'[k].handler = q
          PROVE  i = k
      <4>1. k # Len(posted) + 1
        BY <1>1, <1>2, <3>2, <3>3
      <4>2. k \in 1..Len(posted)
        BY <1>3, <4>1
      <4> QED BY <1>2, <3>1, <3>3, <4>2
    <3> QED BY <3>1, <3>2, <3>3
  <2>2. CASE i = Len(posted) + 1
    <3>1. q = h /\ posted'[i].outcome = o
      BY <1>1, <1>2, <2>2
    <3>2. ASSUME NEW k \in 1..Len(posted'), posted'[k].handler = q
          PROVE  i = k
      <4>1. k \notin 1..Len(posted)
        BY <1>2, <3>1, <3>2
      <4> QED BY <1>3, <2>2, <4>1
    <3> QED BY <3>1, <3>2
  <2> QED BY <1>3, <2>1, <2>2
<1>5. ASSUME NEW q \in Requests, q # h, \A i \in 1..Len(posted) : posted[i].handler # q,
             NEW i \in 1..Len(posted')
      PROVE  posted'[i].handler # q
  <2>1. CASE i \in 1..Len(posted)
    BY <1>2, <1>5, <2>1
  <2>2. CASE i = Len(posted) + 1
    BY <1>1, <1>2, <1>5, <2>2
  <2> QED BY <1>3, <2>1, <2>2
<1> QED BY <1>2, <1>4, <1>5

LEMMA AttachInv == ASSUME IInv, Attach PROVE IInv'
<1> DEFINE h == holding
           j == job[h]
<1>1. /\ pc = "loop" /\ h # None /\ attached' = attached \cup {h}
      /\ UNCHANGED <<kind, job, clean, transfers, mJobs, jobs, decoded, thread, mStopped, answered>>
  BY DEF Attach, requestVars, decoderVars
<1>2. InProgress' = InProgress /\ Holders' = Holders
  BY <1>1 DEF InProgress, Holders
<1>3. Typed
  BY DEF IInv
<1>4. h \in Requests /\ h \notin attached /\ kind[h] # "none" /\ answered[h] = <<>>
  <2>1. h \in Requests /\ h \notin attached /\ kind[h] # "none"
    BY <1>1, <1>3 DEF IInv, InHand, Kinds, Typed, TypeOK
  <2> QED BY <2>1 DEF IInv, Answers
<1>5. kind[h] \in {"file", "http", "decode"}
  BY <1>3, <1>4 DEF Typed, TypeOK
<1>6. j \in AllJobs
  <2>1. h \in Requests
    BY <1>4
  <2>2. job[h] \in FetchItems \cup DecoderItems \cup {Fresh(h)}
    BY <1>5, <2>1 DEF IInv, Kinds
  <2>3. Fresh(h) \in AllJobs /\ FetchItems \subseteq AllJobs /\ DecoderItems \subseteq AllJobs
    BY <2>1, Ids
  <2> QED BY <2>2, <2>3
<1>7. \A i \in 1..Len(posted) : posted[i].handler # h
  BY <1>4 DEF IInv, Posted
<1>8. /\ kind[h] = "http" => h \in transfers
      /\ kind[h] = "file" => mArg[j] # None
      /\ h \in clean => mNext[j] = None /\ (mArg[j] = h \/ (mArg[j] = None /\ h \in InProgress))
  BY <1>1 DEF IInv, InHand
<1>9. Numbered' /\ Kinds' /\ Thread' /\ Answers'
  <2>1. Numbered' /\ Thread'
    BY <1>1 DEF IInv, Numbered, Thread
  <2>2. holding' # None => kind'[holding'] # "none"
    BY <1>1, <1>4 DEF Attach
  <2>3. Kinds'
    BY <1>1, <1>4, <2>2 DEF IInv, Kinds
  <2>4. Answers'
    BY <1>1 DEF IInv, Answers
  <2> QED BY <2>1, <2>3, <2>4
<1>10. Apart'
  <2>1. holding' \in {h, None}
    BY DEF Attach
  <2> QED BY <1>1, <1>2, <2>1, ApartStays DEF Held
<1> HIDE DEF h, j
<1>11. CASE ~(j \in Items \/ InUse(j))
  <2>1. pc' = "undefined" /\ UNCHANGED <<mArg, mNext, posted, holding>>
    BY <1>11 DEF Attach, thenVars, h, j
  <2>2. Typed'
    BY <1>1, <1>3, <1>4, <2>1 DEF Typed, TypeOK
  <2>3. Lost'
    BY <1>1, <1>11, <2>1 DEF Lost, h, j
  <2>4. InHand'
    BY <2>1 DEF InHand
  <2>5. Handlers'
    BY <1>1, <1>2, <2>1 DEF IInv, Handlers
  <2>6. Posted'
    BY <1>1, <2>1 DEF IInv, Posted
  <2> QED BY <1>9, <1>10, <2>2, <2>3, <2>4, <2>5, <2>6 DEF IInv
<1>12. CASE (j \in Items \/ InUse(j)) /\ mArg[j] = None
  <2>1. /\ mNext' = [mNext EXCEPT ![j] = h] /\ holding' = None
        /\ UNCHANGED <<mArg, posted, pc>>
    BY <1>12 DEF Attach, h, j
  <2>2. Typed'
    <3>1. mNext' \in [AllJobs -> Requests \cup {None}]
      BY <1>3, <1>4, <2>1 DEF Typed, TypeOK
    <3> QED BY <1>1, <1>3, <1>4, <2>1, <3>1 DEF Typed, TypeOK
  <2>3. Lost' /\ InHand'
    BY <1>1, <2>1 DEF Lost, InHand
  <2>4. Handlers'
    <3> SUFFICES ASSUME NEW i \in AllJobs, NEW q \in Requests, mNext'[i] = q
                 PROVE  /\ q \in attached' /\ job[q] = i
                        /\ answered[q] = <<>>
                        /\ \A k \in 1..Len(posted) : posted[k].handler # q
                        /\ q \in clean => q \in InProgress \/ (thread = "over" /\ kind[q] = "decode")
                        /\ i \in FetchItems => \E s \in transfers : job[s] = i
      BY <1>1, <1>2, <2>1 DEF Handlers
    <3>1. CASE i # j
      <4>1. mNext[i] = q
        BY <1>3, <2>1, <3>1 DEF Typed, TypeOK
      <4> QED BY <1>1, <4>1 DEF IInv, Handlers
    <3>2. CASE i = j
      <4>1. q = h
        BY <1>3, <1>6, <2>1, <3>2 DEF Typed, TypeOK
      <4>2. q \in clean => q \in InProgress
        <5>1. h # None
          BY <1>4, Ids
        <5> QED BY <1>8, <1>12, <4>1, <5>1
      <4>3. i \in FetchItems => \E s \in transfers : job[s] = i
        <5>1. SUFFICES ASSUME i \in FetchItems PROVE \E s \in transfers : job[s] = i
          OBVIOUS
        <5>2. i \in Items /\ i \notin DecoderItems /\ i # Fresh(h)
          BY <1>4, <5>1, Ids
        <5>3. kind[h] # "decode"
          BY <1>4, <3>2, <5>2 DEF IInv, Kinds, j
        <5>4. kind[h] = "http"
          BY <1>5, <1>8, <1>12, <5>3
        <5> QED BY <1>8, <3>2, <5>4 DEF j
      <4> QED BY <1>1, <1>4, <1>7, <3>2, <4>1, <4>2, <4>3 DEF j
    <3> QED BY <3>1, <3>2
  <2>5. Posted'
    BY <1>1, <2>1 DEF IInv, Posted
  <2> QED BY <1>9, <1>10, <2>2, <2>3, <2>4, <2>5 DEF IInv
<1>13. CASE (j \in Items \/ InUse(j)) /\ mArg[j] # None
  <2>1. /\ mNext' = [mNext EXCEPT ![j] = None] /\ mArg' = [mArg EXCEPT ![j] = Moved]
        /\ holding' = None /\ posted' = Append(posted, Call(h, mArg[j])) /\ pc' = pc
    BY <1>13 DEF Attach, h, j
  <2>2. mArg[j] \in Outcomes
    BY <1>3, <1>6, <1>13 DEF Typed, TypeOK, Outcomes
  <2>3. /\ posted' \in Seq([handler : Requests, outcome : Outcomes])
        /\ Posted'
        /\ \A q \in Requests : q # h /\ (\A i \in 1..Len(posted) : posted[i].handler # q) =>
                               \A i \in 1..Len(posted') : posted'[i].handler # q
    <3>1. h \in clean => mArg[j] = h
      BY <1>8, <1>13
    <3> QED BY <1>1, <1>4, <1>7, <2>1, <2>2, <3>1, CallIsPosted
  <2>4. Typed'
    <3>1. mNext' \in [AllJobs -> Requests \cup {None}] /\ mArg' \in [AllJobs -> Requests \cup {None, Moved}]
      BY <1>3, <2>1 DEF Typed, TypeOK
    <3> QED BY <1>1, <1>3, <1>4, <2>1, <2>3, <3>1 DEF Typed, TypeOK
  <2>5. Lost' /\ InHand'
    BY <1>1, <2>1 DEF Lost, InHand
  <2>6. Handlers'
    <3> SUFFICES ASSUME NEW i \in AllJobs, NEW q \in Requests, mNext'[i] = q
                 PROVE  /\ q \in attached' /\ job[q] = i
                        /\ answered[q] = <<>>
                        /\ \A k \in 1..Len(posted') : posted'[k].handler # q
                        /\ q \in clean => q \in InProgress \/ (thread = "over" /\ kind[q] = "decode")
                        /\ i \in FetchItems => \E s \in transfers : job[s] = i
      BY <1>1, <1>2, <2>1 DEF Handlers
    <3>1. i # j
      BY <1>3, <1>6, <2>1, Ids DEF Typed, TypeOK
    <3>2. mNext[i] = q
      BY <1>3, <2>1, <3>1 DEF Typed, TypeOK
    <3>3. /\ q \in attached /\ job[q] = i
          /\ answered[q] = <<>>
          /\ \A k \in 1..Len(posted) : posted[k].handler # q
          /\ q \in clean => q \in InProgress \/ (thread = "over" /\ kind[q] = "decode")
          /\ i \in FetchItems => \E s \in transfers : job[s] = i
      BY <3>2 DEF IInv, Handlers
    <3>4. q # h
      BY <1>4, <3>3
    <3>5. \A k \in 1..Len(posted') : posted'[k].handler # q
      BY <2>3, <3>3, <3>4
    <3> QED BY <1>1, <3>3, <3>5
  <2> QED BY <1>9, <1>10, <2>3, <2>4, <2>5, <2>6 DEF IInv
<1> QED BY <1>11, <1>12, <1>13

-----------------------------------------------------------------------------
(* What the loop runs *)

\* A handler that is in no other place is called.
LEMMA CallIsAnswered ==
    ASSUME IInv, NEW h \in Requests, NEW o \in Outcomes, Runs(Call(h, o)), attached' = attached,
           clean' = clean, h \in attached, answered[h] = <<>>, h \in clean => o = h
    PROVE  /\ Answers' /\ answered' \in [Requests -> Seq(Outcomes)]
           /\ \A q \in Requests : q # h => answered'[q] = answered[q]
<1>1. answered \in [Requests -> Seq(Outcomes)]
  BY DEF IInv, Typed
<1>2. answered' = [answered EXCEPT ![h] = <<o>>]
  BY <1>1 DEF Runs, Call
<1>3. answered' \in [Requests -> Seq(Outcomes)]
  <2>1. <<o>> \in Seq(Outcomes)
    OBVIOUS
  <2> QED BY <1>1, <1>2, <2>1
<1>4. answered'[h] = <<o>> /\ \A q \in Requests : q # h => answered'[q] = answered[q]
  BY <1>1, <1>2
<1>5. Answers'
  <2> SUFFICES ASSUME NEW q \in Requests
               PROVE  /\ q \notin attached => answered'[q] = <<>>
                      /\ Len(answered'[q]) <= 1
                      /\ q \in clean => answered'[q] \in {<<>>, <<q>>}
    BY DEF Answers
  <2>1. CASE q = h
    <3>1. Len(<<o>>) <= 1
      OBVIOUS
    <3>2. q \in clean => <<o>> = <<q>>
      BY <2>1
    <3>3. answered'[q] = <<o>> /\ q \in attached
      BY <1>4, <2>1
    <3> QED BY <3>1, <3>2, <3>3
  <2>2. CASE q # h
    BY <1>4, <2>2 DEF IInv, Answers
  <2> QED BY <2>1, <2>2
<1> QED BY <1>3, <1>4, <1>5

LEMMA TransferEndsInv == ASSUME IInv, NEW r \in Requests, TransferEnds(r) PROVE IInv'
<1> DEFINE j == job[r]
<1>1. /\ pc = "loop" /\ holding = None /\ r \in transfers /\ transfers' = transfers \ {r}
      /\ Kept(j, r)
      /\ IF mNext[j] = None THEN UNCHANGED answered ELSE Runs(Call(mNext[j], r))
      /\ UNCHANGED <<kind, job, clean, mJobs, jobs, decoded, thread, mStopped, holding, pc, posted, attached>>
  BY DEF TransferEnds, Free, requestVars, decoderVars
<1>2. Typed
  BY DEF IInv
<1>3. kind[r] = "http" /\ j \in AllJobs /\ j \in FetchItems \cup {Fresh(r)}
  <2>1. r \in Requests /\ kind[r] = "http"
    BY <1>1 DEF IInv, Kinds, Typed, TypeOK
  <2>2. job[r] \in FetchItems \cup {Fresh(r)}
    BY <2>1 DEF IInv, Kinds
  <2>3. Fresh(r) \in AllJobs /\ FetchItems \subseteq AllJobs
    BY <2>1, Ids
  <2> QED BY <2>1, <2>2, <2>3
<1>4. r \in Holders /\ Held(r) /\ r # None
  BY <1>1, Ids DEF Holders, Held
<1>5. \A q \in InProgress : q # r => q \in InProgress'
  BY <1>1 DEF InProgress
<1>6. \A q \in InProgress : q \in Holders /\ q \in Requests
  BY <1>2, ProgressHolds DEF Typed
<1> HIDE DEF j
<1>7. Numbered' /\ Kinds' /\ Thread'
  BY <1>1 DEF IInv, Numbered, Kinds, Thread
<1>8. Apart'
  BY <1>1, ApartStays DEF Held, Holders
<1>9. Lost' /\ InHand'
  BY <1>1 DEF Lost, InHand
<1>10. /\ mArg' \in [AllJobs -> Requests \cup {None, Moved}]
       /\ mNext' = [mNext EXCEPT ![j] = None] /\ mNext' \in [AllJobs -> Requests \cup {None}]
       /\ mNext'[j] = None
  BY <1>1, <1>2, <1>3 DEF Kept, Typed, TypeOK
<1>11. /\ Typed' /\ Posted' /\ Answers'
       /\ \A q \in Requests : q # mNext[j] => answered'[q] = answered[q]
  <2>1. TypeOK'
    BY <1>1, <1>2, <1>10 DEF Typed, TypeOK
  <2>2. CASE mNext[j] = None
    <3>1. answered' = answered
      BY <1>1, <2>2
    <3> QED BY <1>1, <1>2, <2>1, <3>1 DEF IInv, Typed, Posted, Answers
  <2>3. CASE mNext[j] # None
    <3> DEFINE q == mNext[j]
    <3>1. q \in Requests
      BY <1>2, <1>3, <2>3 DEF Typed, TypeOK
    <3>2. /\ q \in attached /\ job[q] = j /\ answered[q] = <<>>
          /\ \A i \in 1..Len(posted) : posted[i].handler # q
          /\ q \in clean => q \in InProgress \/ (thread = "over" /\ kind[q] = "decode")
      BY <1>3, <3>1 DEF IInv, Handlers
    <3>3. q \in clean => r = q
      <4>1. SUFFICES ASSUME q \in clean PROVE r = q
        OBVIOUS
      <4>2. CASE q \in InProgress
        <5>1. Held(q)
          BY <1>6, <4>2 DEF Held
        <5> QED BY <1>4, <3>1, <3>2, <5>1 DEF IInv, Apart, j
      <4>3. CASE kind[q] = "decode"
        <5>1. j \in DecoderItems \cup {Fresh(q)}
          BY <3>1, <3>2, <4>3 DEF IInv, Kinds
        <5> QED BY <1>3, <3>1, <5>1, Ids
      <4> QED BY <3>2, <4>1, <4>2, <4>3
    <3>4. Runs(Call(q, r)) /\ r \in Outcomes
      BY <1>1, <2>3 DEF Outcomes
    <3> HIDE DEF q
    <3>5. /\ Answers' /\ answered' \in [Requests -> Seq(Outcomes)]
          /\ \A s \in Requests : s # q => answered'[s] = answered[s]
      BY <1>1, <3>1, <3>2, <3>3, <3>4, CallIsAnswered
    <3>6. Posted'
      BY <1>1, <3>2, <3>5 DEF IInv, Posted
    <3> QED BY <1>1, <1>2, <2>1, <3>5, <3>6 DEF Typed, q
  <2> QED BY <2>2, <2>3
<1>12. Handlers'
  <2> SUFFICES ASSUME NEW i \in AllJobs, NEW q \in Requests, mNext'[i] = q
               PROVE  /\ q \in attached /\ job[q] = i
                      /\ answered'[q] = <<>>
                      /\ \A k \in 1..Len(posted) : posted[k].handler # q
                      /\ q \in clean => q \in InProgress' \/ (thread = "over" /\ kind[q] = "decode")
                      /\ i \in FetchItems => \E s \in transfers' : job[s] = i
    BY <1>1 DEF Handlers
  <2>1. i # j
    BY <1>10, Ids
  <2>2. mNext[i] = q
    BY <1>2, <1>10, <2>1 DEF Typed, TypeOK
  <2>3. /\ q \in attached /\ job[q] = i
        /\ answered[q] = <<>>
        /\ \A k \in 1..Len(posted) : posted[k].handler # q
        /\ q \in clean => q \in InProgress \/ (thread = "over" /\ kind[q] = "decode")
        /\ i \in FetchItems => \E s \in transfers : job[s] = i
    BY <2>2 DEF IInv, Handlers
  <2>4. q # r
    BY <2>1, <2>3 DEF j
  <2>5. answered'[q] = answered[q]
    <3>1. q # mNext[j]
      BY <1>3, <2>1, <2>3 DEF IInv, Handlers
    <3> QED BY <1>11, <3>1
  <2>6. \A s \in transfers : job[s] = i => s \in transfers'
    BY <1>1, <2>1 DEF j
  <2> QED BY <1>5, <2>3, <2>4, <2>5, <2>6
<1> QED BY <1>7, <1>8, <1>9, <1>11, <1>12 DEF IInv

LEMMA RunPostedInv == ASSUME IInv, RunPosted PROVE IInv'
<1> DEFINE call == Head(posted)
<1>1. /\ pc = "loop" /\ holding = None /\ posted # <<>> /\ Runs(call) /\ posted' = Tail(posted)
      /\ UNCHANGED <<kind, job, clean, mArg, mNext, transfers, mJobs, jobs, decoded, thread, mStopped,
                     holding, pc, attached>>
  BY DEF RunPosted, Free, requestVars, thenVars, decoderVars
<1>2. InProgress' = InProgress /\ Holders' = Holders
  BY <1>1 DEF InProgress, Holders
<1>3. posted \in Seq([handler : Requests, outcome : Outcomes])
  BY DEF IInv, Typed
<1>4. /\ posted' \in Seq([handler : Requests, outcome : Outcomes])
      /\ Len(posted) \in Nat /\ Len(posted) >= 1 /\ Len(posted') = Len(posted) - 1
      /\ \A i \in 1..Len(posted') : i + 1 \in 1..Len(posted) /\ posted'[i] = posted[i + 1]
      /\ call = posted[1] /\ call \in [handler : Requests, outcome : Outcomes] /\ 1 \in 1..Len(posted)
  <2>1. Len(posted) \in Nat /\ Len(posted) >= 1 /\ call = posted[1] /\ 1 \in 1..Len(posted)
    BY <1>1, <1>3
  <2>2. /\ call \in [handler : Requests, outcome : Outcomes]
        /\ Tail(posted) \in Seq([handler : Requests, outcome : Outcomes])
        /\ Len(Tail(posted)) = Len(posted) - 1
        /\ \A i \in 1..Len(Tail(posted)) : Tail(posted)[i] = posted[i + 1]
    BY <1>1, <1>3, HeadTailProperties
  <2>3. \A i \in 1..Len(posted') : i + 1 \in 1..Len(posted)
    BY <1>1, <2>1, <2>2
  <2> QED BY <1>1, <2>1, <2>2, <2>3
<1> DEFINE h == call.handler
           o == call.outcome
<1>5. h \in Requests /\ o \in Outcomes /\ Runs(Call(h, o)) /\ posted[1].handler = h /\ posted[1].outcome = o
  BY <1>1, <1>4 DEF Call, Runs
<1> HIDE DEF call, h, o
<1>6. /\ h \in attached /\ answered[h] = <<>> /\ (h \in clean => o = h)
      /\ \A k \in 1..Len(posted) : posted[k].handler = h => k = 1
  BY <1>4, <1>5 DEF IInv, Posted
<1>7. /\ Answers' /\ answered' \in [Requests -> Seq(Outcomes)]
      /\ \A q \in Requests : q # h => answered'[q] = answered[q]
  BY <1>1, <1>5, <1>6, CallIsAnswered
<1>8. Typed'
  BY <1>1, <1>4, <1>7 DEF IInv, Typed, TypeOK
<1>9. Numbered' /\ Kinds' /\ Thread'
  BY <1>1 DEF IInv, Numbered, Kinds, Thread
<1>10. Apart'
  BY <1>1, <1>2, ApartStays DEF Held
<1>11. Lost' /\ InHand'
  BY <1>1 DEF Lost, InHand
<1>12. Handlers'
  <2> SUFFICES ASSUME NEW i \in AllJobs, NEW q \in Requests, mNext[i] = q
               PROVE  /\ q \in attached /\ job[q] = i
                      /\ answered'[q] = <<>>
                      /\ \A k \in 1..Len(posted') : posted'[k].handler # q
                      /\ q \in clean => q \in InProgress \/ (thread = "over" /\ kind[q] = "decode")
                      /\ i \in FetchItems => \E s \in transfers : job[s] = i
    BY <1>1, <1>2 DEF Handlers
  <2>1. /\ q \in attached /\ job[q] = i
        /\ answered[q] = <<>>
        /\ \A k \in 1..Len(posted) : posted[k].handler # q
        /\ q \in clean => q \in InProgress \/ (thread = "over" /\ kind[q] = "decode")
        /\ i \in FetchItems => \E s \in transfers : job[s] = i
    BY DEF IInv, Handlers
  <2>2. q # h
    BY <1>4, <1>5, <2>1
  <2> QED BY SMTT(20), <1>4, <1>7, <2>1, <2>2
<1>13. Posted'
  <2> SUFFICES ASSUME NEW i \in 1..Len(posted'), NEW q \in Requests, posted'[i].handler = q
               PROVE  /\ q \in attached /\ answered'[q] = <<>>
                      /\ q \in clean => posted'[i].outcome = q
                      /\ \A k \in 1..Len(posted') : posted'[k].handler = q => i = k
    BY <1>1 DEF Posted
  <2>1. i + 1 \in 1..Len(posted) /\ posted[i + 1].handler = q /\ posted'[i] = posted[i + 1]
    BY <1>4
  <2>2. /\ q \in attached /\ answered[q] = <<>>
        /\ q \in clean => posted[i + 1].outcome = q
        /\ \A k \in 1..Len(posted) : posted[k].handler = q => i + 1 = k
    BY <2>1 DEF IInv, Posted
  <2>3. q # h
    <3>1. i \in Nat /\ i >= 1
      BY <1>4
    <3> QED BY <1>6, <2>1, <3>1
  <2>4. ASSUME NEW k \in 1..Len(posted'), posted'[k].handler = q
        PROVE  i = k
    <3>1. k + 1 \in 1..Len(posted) /\ posted[k + 1].handler = q
      BY <1>4, <2>4
    <3>2. i + 1 = k + 1
      BY <2>2, <3>1
    <3>3. i \in Nat /\ k \in Nat
      BY <1>4
    <3> QED BY <3>2, <3>3
  <2> QED BY <1>7, <2>1, <2>2, <2>3, <2>4
<1> QED BY <1>7, <1>8, <1>9, <1>10, <1>11, <1>12, <1>13 DEF IInv

LEMMA StopInv == ASSUME IInv, Stop \/ Joined PROVE IInv'
<1>1. /\ pc' # "undefined" /\ pc' \in {"loop", "join"} /\ pc # "undefined"
      /\ mStopped' \in BOOLEAN /\ (mStopped => mStopped') /\ (holding # None => mStopped' = mStopped)
      /\ UNCHANGED <<kind, job, clean, mArg, mNext, transfers, mJobs, jobs, decoded, thread, holding, posted,
                     attached, answered>>
  <2>1. mStopped \in BOOLEAN
    BY DEF IInv, Typed, TypeOK
  <2>2. CASE Stop
    BY <2>2 DEF Stop, Free, requestVars, thenVars
  <2>3. CASE Joined
    BY <2>1, <2>3 DEF Joined, requestVars, thenVars, decoderVars
  <2> QED BY <2>2, <2>3
<1>2. InProgress' = InProgress /\ Holders' = Holders
  BY <1>1 DEF InProgress, Holders
<1>3. Typed'
  BY <1>1 DEF IInv, Typed, TypeOK
<1>4. Numbered' /\ Kinds' /\ Thread'
  BY <1>1 DEF IInv, Numbered, Kinds, Thread
<1>5. Apart'
  BY <1>1, <1>2, ApartStays DEF Held
<1>6. Lost'
  BY <1>1 DEF Lost
<1>7. InHand'
  BY <1>1, <1>2 DEF IInv, InHand
<1>8. Handlers'
  BY <1>1, <1>2 DEF IInv, Handlers
<1>9. Posted' /\ Answers'
  BY <1>1 DEF IInv, Posted, Answers
<1> QED BY <1>3, <1>4, <1>5, <1>6, <1>7, <1>8, <1>9 DEF IInv

-----------------------------------------------------------------------------
(* The decoder's thread *)

\* The elements of no sequence, and of a sequence that is handed over.
LEMMA NoElements == Range(<<>>) = {}
<1>1. <<>> \in Seq(Requests) /\ Len(<<>>) = 0
  OBVIOUS
<1>2. \A r : r \in Range(<<>>) <=> \E i \in 1..Len(<<>>) : <<>>[i] = r
  BY <1>1, Somewhere
<1> QED BY <1>1, <1>2

LEMMA TakeJobsInv == ASSUME IInv, TakeJobs PROVE IInv'
<1>1. /\ thread = "wait" /\ mJobs' = <<>>
      /\ IF mStopped THEN thread' = "over" /\ jobs' = jobs ELSE thread' = "work" /\ jobs' = mJobs
      /\ UNCHANGED <<kind, job, clean, mArg, mNext, transfers, decoded, mStopped, holding, pc, posted,
                     attached, answered>>
  BY DEF TakeJobs, requestVars, thenVars
<1>2. jobs = <<>> /\ decoded = 0
  BY <1>1 DEF IInv, Thread
<1>3. TypeOK /\ mJobs \in Seq(Requests)
  BY DEF IInv, Typed, TypeOK
<1>4. TypeOK'
  <2>1. <<>> \in Seq(Requests)
    OBVIOUS
  <2>2. jobs' \in Seq(Requests)
    BY <1>1, <1>2, <1>3, <2>1
  <2>3. decoded' \in 0..Len(jobs')
    <3>1. Len(jobs') \in Nat
      BY <2>2
    <3> QED BY <1>1, <1>2, <3>1
  <2>4. thread' \in {"wait", "work", "over"}
    BY <1>1
  <2> QED BY <1>1, <1>3, <2>1, <2>2, <2>3, <2>4 DEF TypeOK
<1>5. Holders' = IF mStopped THEN transfers ELSE Holders
  BY <1>1, <1>2, NoElements DEF Holders
<1>6. \A q : q \in InProgress' <=> q \in transfers \/ (~mStopped /\ q \in Range(mJobs))
  <2> TAKE q
  <2>1. q \in InProgress' <=> \/ q \in transfers \/ q \in Range(mJobs')
                              \/ \E i \in 1..Len(jobs') : i > decoded /\ jobs'[i] = q
    <3>1. q \in InProgress' <=> \/ q \in transfers' \/ q \in Range(mJobs')
                                \/ \E i \in 1..Len(jobs') : i > decoded' /\ jobs'[i] = q
      <4>1. jobs' \in Seq(Requests) /\ decoded' \in 0..Len(jobs')
        BY <1>4 DEF TypeOK
      <4> QED BY <4>1, Rest DEF InProgress
    <3> QED BY <1>1, <3>1
  <2>2. CASE mStopped
    <3>1. Len(jobs') = 0
      BY <1>1, <1>2, <2>2
    <3> QED BY <1>1, <2>1, <2>2, <3>1, NoElements
  <2>3. CASE ~mStopped
    <3>1. q \in Range(mJobs) <=> \E i \in 1..Len(mJobs) : mJobs[i] = q
      BY <1>3, Somewhere
    <3>2. \A i \in 1..Len(mJobs) : i > 0
      OBVIOUS
    <3> QED BY <1>1, <1>2, <2>1, <2>3, <3>1, <3>2, NoElements
  <2> QED BY <2>2, <2>3
<1>7. \A q : q \in InProgress <=> q \in transfers \/ q \in Range(mJobs)
  <2>1. Len(jobs) = 0
    BY <1>2
  <2> QED BY <1>3, <2>1, Progress
<1>8. Typed'
  BY <1>1, <1>4 DEF IInv, Typed
<1>9. Numbered' /\ Kinds'
  BY <1>1, <1>2, NoElements DEF IInv, Numbered, Kinds
<1>10. Thread'
  BY <1>1, <1>2 DEF Thread
<1>11. Apart'
  BY <1>1, <1>5, ApartStays DEF Held, Holders
<1>12. Lost'
  BY <1>1 DEF IInv, Lost
<1>13. InHand'
  <2>1. SUFFICES ASSUME holding # None, pc # "undefined"
                 PROVE  /\ holding \notin attached
                        /\ kind[holding] = "http" => holding \in transfers
                        /\ kind[holding] = "file" => mArg[job[holding]] # None
                        /\ kind[holding] = "decode" => ~mStopped
                        /\ holding \in clean =>
                              /\ mNext[job[holding]] = None
                              /\ \/ mArg[job[holding]] = holding
                                 \/ mArg[job[holding]] = None /\ holding \in InProgress'
    BY <1>1 DEF InHand
  <2>2. /\ holding \notin attached
        /\ kind[holding] = "http" => holding \in transfers
        /\ kind[holding] = "file" => mArg[job[holding]] # None
        /\ kind[holding] = "decode" => ~mStopped
        /\ holding \in clean =>
              /\ mNext[job[holding]] = None
              /\ \/ mArg[job[holding]] = holding
                 \/ mArg[job[holding]] = None /\ holding \in InProgress
    BY <2>1 DEF IInv, InHand
  <2>3. holding \in InProgress => holding \in InProgress'
    <3>1. holding \in Range(mJobs) => kind[holding] = "decode"
      BY DEF IInv, Kinds
    <3> QED BY <1>6, <1>7, <2>2, <3>1
  <2> QED BY <2>2, <2>3
<1>14. Handlers'
  <2> SUFFICES ASSUME NEW i \in AllJobs, NEW q \in Requests, mNext[i] = q
               PROVE  /\ q \in attached /\ job[q] = i
                      /\ answered[q] = <<>>
                      /\ \A k \in 1..Len(posted) : posted[k].handler # q
                      /\ q \in clean => q \in InProgress' \/ (thread' = "over" /\ kind[q] = "decode")
                      /\ i \in FetchItems => \E s \in transfers : job[s] = i
    BY <1>1 DEF Handlers
  <2>1. /\ q \in attached /\ job[q] = i
        /\ answered[q] = <<>>
        /\ \A k \in 1..Len(posted) : posted[k].handler # q
        /\ q \in clean => q \in InProgress
        /\ i \in FetchItems => \E s \in transfers : job[s] = i
    BY <1>1 DEF IInv, Handlers
  <2>2. q \in InProgress => q \in InProgress' \/ (thread' = "over" /\ kind[q] = "decode")
    <3>1. q \in Range(mJobs) => kind[q] = "decode"
      BY DEF IInv, Kinds
    <3> QED BY <1>1, <1>6, <1>7, <3>1
  <2> QED BY <2>1, <2>2
<1>15. Posted' /\ Answers'
  BY <1>1 DEF IInv, Posted, Answers
<1> QED BY <1>8, <1>9, <1>10, <1>11, <1>12, <1>13, <1>14, <1>15 DEF IInv

LEMMA PassEndsInv == ASSUME IInv, PassEnds PROVE IInv'
<1>1. /\ thread = "work" /\ decoded = Len(jobs) /\ jobs' = <<>> /\ decoded' = 0 /\ thread' = "wait"
      /\ UNCHANGED <<kind, job, clean, mArg, mNext, transfers, mJobs, mStopped, holding, pc, posted,
                     attached, answered>>
  BY DEF PassEnds, requestVars, thenVars
<1>2. TypeOK /\ Len(jobs) \in Nat
  BY DEF IInv, Typed, TypeOK
<1>3. TypeOK'
  <2>1. <<>> \in Seq(Requests) /\ 0 \in 0..Len(<<>>)
    OBVIOUS
  <2> QED BY <1>1, <1>2, <2>1 DEF TypeOK
<1>4. InProgress' = InProgress
  <2>1. \A q : q \in InProgress <=> q \in transfers \/ q \in Range(mJobs)
    <3>1. \A i \in 1..Len(jobs) : ~(i > decoded)
      BY <1>1, <1>2
    <3> QED BY <1>2, <3>1, Progress
  <2>2. \A q : q \in InProgress' <=> q \in transfers \/ q \in Range(mJobs)
    <3> TAKE q
    <3>1. q \in InProgress' <=> \/ q \in transfers' \/ q \in Range(mJobs')
                                \/ \E i \in 1..Len(jobs') : i > decoded' /\ jobs'[i] = q
      <4>1. jobs' \in Seq(Requests) /\ decoded' \in 0..Len(jobs')
        BY <1>3 DEF TypeOK
      <4> QED BY <4>1, Rest DEF InProgress
    <3>2. Len(jobs') = 0
      BY <1>1
    <3> QED BY <1>1, <3>1, <3>2
  <2> QED BY <2>1, <2>2
<1>5. Holders' \subseteq Holders
  BY <1>1, NoElements DEF Holders
<1>6. Typed'
  BY <1>1, <1>3 DEF IInv, Typed
<1>7. Numbered' /\ Kinds' /\ Thread'
  BY <1>1, NoElements DEF IInv, Numbered, Kinds, Thread
<1>8. Apart'
  BY <1>1, <1>5, ApartStays DEF Held
<1>9. Lost' /\ InHand'
  BY <1>1, <1>4 DEF IInv, Lost, InHand
<1>10. Handlers'
  BY <1>1, <1>4 DEF IInv, Handlers
<1>11. Posted' /\ Answers'
  BY <1>1 DEF IInv, Posted, Answers
<1> QED BY <1>6, <1>7, <1>8, <1>9, <1>10, <1>11 DEF IInv

LEMMA DecodeNextInv == ASSUME IInv, DecodeNext PROVE IInv'
<1> DEFINE r == jobs[decoded + 1]
           j == job[r]
<1>1. /\ thread = "work" /\ decoded < Len(jobs) /\ decoded' = decoded + 1 /\ Kept(j, r)
      /\ posted' = IF mNext[j] = None THEN posted ELSE Append(posted, Call(mNext[j], r))
      /\ UNCHANGED <<kind, job, clean, transfers, mJobs, jobs, thread, mStopped, holding, pc, attached,
                     answered>>
  BY DEF DecodeNext, requestVars
<1>2. Typed /\ TypeOK /\ jobs \in Seq(Requests) /\ Len(jobs) \in Nat /\ decoded \in 0..Len(jobs)
  BY DEF IInv, Typed, TypeOK
<1>3. decoded + 1 \in 1..Len(jobs) /\ decoded' \in 0..Len(jobs')
  BY <1>1, <1>2
<1>4. r \in Requests /\ r \in Range(jobs)
  BY <1>2, <1>3, Somewhere
<1>5. kind[r] = "decode" /\ j \in AllJobs /\ Held(r)
  <2>1. kind[r] = "decode"
    BY <1>4 DEF IInv, Kinds
  <2>2. job[r] \in DecoderItems \cup {Fresh(r)}
    BY <1>4, <2>1 DEF IInv, Kinds
  <2>3. Fresh(r) \in AllJobs /\ DecoderItems \subseteq AllJobs
    BY <1>4, Ids
  <2>4. r \in Holders
    BY <1>4 DEF Holders
  <2>5. Held(r)
    BY <1>4, <2>1, <2>4 DEF Held
  <2> QED BY <2>1, <2>2, <2>3, <2>5
<1>6. \A q \in InProgress : q # r => q \in InProgress'
  <2> TAKE q \in InProgress
  <2>1. SUFFICES ASSUME q # r PROVE q \in InProgress'
    OBVIOUS
  <2>2. \/ q \in transfers \/ q \in Range(mJobs)
        \/ \E i \in 1..Len(jobs) : i > decoded /\ jobs[i] = q
    BY <1>2, Progress
  <2>3. CASE q \in transfers \/ q \in Range(mJobs)
    BY <1>1, <2>3 DEF InProgress
  <2>4. CASE \E i \in 1..Len(jobs) : i > decoded /\ jobs[i] = q
    <3>1. PICK i \in 1..Len(jobs) : i > decoded /\ jobs[i] = q
      BY <2>4
    <3>2. i # decoded + 1
      BY <2>1, <3>1
    <3>3. i > decoded + 1
      BY <1>2, <3>1, <3>2
    <3>4. jobs' \in Seq(Requests)
      BY <1>1, <1>2
    <3>5. q \in Range(SubSeq(jobs', decoded' + 1, Len(jobs')))
      BY <1>1, <1>3, <3>1, <3>3, <3>4, Rest
    <3> QED BY <3>5 DEF InProgress
  <2> QED BY <2>2, <2>3, <2>4
<1> HIDE DEF r, j
<1>7. Holders' = Holders
  BY <1>1 DEF Holders
<1>8. Numbered' /\ Kinds' /\ Thread'
  BY <1>1 DEF IInv, Numbered, Kinds, Thread
<1>9. Apart'
  BY <1>1, <1>7, ApartStays DEF Held
<1>10. Lost' /\ Answers'
  BY <1>1 DEF IInv, Lost, Answers
<1>11. /\ mArg' = [mArg EXCEPT ![j] = IF mNext[j] = None THEN r ELSE @]
       /\ mNext' = [mNext EXCEPT ![j] = None]
       /\ mArg' \in [AllJobs -> Requests \cup {None, Moved}]
       /\ mNext' \in [AllJobs -> Requests \cup {None}]
       /\ \A i \in AllJobs : i # j => mNext'[i] = mNext[i] /\ mArg'[i] = mArg[i]
       /\ mNext'[j] = None
  BY <1>1, <1>2, <1>4, <1>5 DEF Kept, TypeOK
<1>12. mNext[j] = None \/ mNext[j] \in Requests
  BY <1>2, <1>5 DEF TypeOK
<1>13. ASSUME NEW q \in Requests, mNext[j] = q
       PROVE  /\ q \in attached /\ job[q] = j /\ answered[q] = <<>>
              /\ \A k \in 1..Len(posted) : posted[k].handler # q
              /\ q \in clean => r = q
  <2>1. /\ q \in attached /\ job[q] = j /\ answered[q] = <<>>
        /\ \A k \in 1..Len(posted) : posted[k].handler # q
        /\ q \in clean => q \in InProgress
    BY <1>1, <1>5, <1>13 DEF IInv, Handlers
  <2>2. q \in InProgress => q = r
    <3>1. q \in InProgress => Held(q)
      BY <1>2, ProgressHolds DEF Held
    <3> QED BY <1>4, <1>5, <2>1, <3>1 DEF IInv, Apart, j
  <2> QED BY <2>1, <2>2
<1>14. /\ posted' \in Seq([handler : Requests, outcome : Outcomes]) /\ Posted'
       /\ \A q \in Requests : q # mNext[j] /\ (\A i \in 1..Len(posted) : posted[i].handler # q) =>
                              \A i \in 1..Len(posted') : posted'[i].handler # q
  <2>1. CASE mNext[j] = None
    <3>1. posted' = posted
      BY <1>1, <2>1
    <3>2. UNCHANGED <<attached, answered, job, clean>> /\ Typed /\ Posted
      BY <1>1, <1>2 DEF IInv
    <3> QED BY <1>1, <3>1, <3>2 DEF Typed, Posted
  <2>2. CASE mNext[j] # None
    <3> DEFINE h == mNext[j]
    <3>1. h \in Requests /\ posted' = Append(posted, Call(h, r)) /\ r \in Outcomes
      BY <1>1, <1>4, <1>12, <2>2 DEF Outcomes
    <3>2. /\ h \in attached /\ answered[h] = <<>> /\ (h \in clean => r = h)
          /\ \A k \in 1..Len(posted) : posted[k].handler # h
      BY <1>13, <3>1
    <3> HIDE DEF h
    <3>3. /\ posted' \in Seq([handler : Requests, outcome : Outcomes]) /\ Posted'
          /\ \A q \in Requests : q # h /\ (\A i \in 1..Len(posted) : posted[i].handler # q) =>
                                 \A i \in 1..Len(posted') : posted'[i].handler # q
      BY <1>1, <3>1, <3>2, CallIsPosted
    <3> QED BY <3>3 DEF h
  <2> QED BY <2>1, <2>2
<1>15. Typed'
  BY <1>1, <1>2, <1>3, <1>11, <1>14 DEF Typed, TypeOK
<1>16. InHand'
  <2> DEFINE h == holding
             i == job[h]
  <2>1. SUFFICES ASSUME h # None, pc # "undefined"
                 PROVE  /\ h \notin attached
                        /\ kind[h] = "http" => h \in transfers
                        /\ kind[h] = "file" => mArg'[i] # None
                        /\ kind[h] = "decode" => ~mStopped
                        /\ h \in clean => /\ mNext'[i] = None
                                          /\ \/ mArg'[i] = h
                                             \/ mArg'[i] = None /\ h \in InProgress'
    BY <1>1 DEF InHand
  <2>2. /\ h \notin attached
        /\ kind[h] = "http" => h \in transfers
        /\ kind[h] = "file" => mArg[i] # None
        /\ kind[h] = "decode" => ~mStopped
        /\ h \in clean => /\ mNext[i] = None
                          /\ mArg[i] = h \/ (mArg[i] = None /\ h \in InProgress)
    BY <2>1 DEF IInv, InHand
  <2>3. h \in Requests /\ kind[h] # "none" /\ kind[h] \in {"none", "file", "http", "decode"}
    BY <1>2, <2>1 DEF IInv, Kinds, TypeOK
  <2>4. i \in AllJobs
    BY <2>3, Ids DEF IInv, Kinds
  <2>5. i = j => h = r
    <3>1. Held(h)
      BY <2>1 DEF Held
    <3> QED BY <1>4, <1>5, <2>3, <3>1 DEF IInv, Apart, j
  <2>6. CASE i # j
    <3>1. mNext'[i] = mNext[i] /\ mArg'[i] = mArg[i] /\ h # r
      BY <1>11, <2>4, <2>6 DEF j
    <3> QED BY <1>6, <2>2, <3>1
  <2>7. CASE i = j
    <3>1. h = r /\ mNext'[i] = None /\ kind[h] = "decode"
      BY <1>5, <1>11, <2>5, <2>7
    <3>2. h \in clean => mArg'[i] = h
      <4>1. SUFFICES ASSUME h \in clean PROVE mArg'[i] = h
        OBVIOUS
      <4>2. mNext[j] = None
        BY <2>2, <2>7, <4>1
      <4>3. mArg'[j] = r
        BY <1>2, <1>5, <1>11, <4>2 DEF TypeOK
      <4> QED BY <2>7, <3>1, <4>3
    <3> QED BY <2>2, <3>1, <3>2
  <2> QED BY <2>6, <2>7
<1>17. Handlers'
  <2> SUFFICES ASSUME NEW i \in AllJobs, NEW q \in Requests, mNext'[i] = q
               PROVE  /\ q \in attached /\ job[q] = i
                      /\ answered[q] = <<>>
                      /\ \A k \in 1..Len(posted') : posted'[k].handler # q
                      /\ q \in clean => q \in InProgress' \/ (thread = "over" /\ kind[q] = "decode")
                      /\ i \in FetchItems => \E s \in transfers : job[s] = i
    BY <1>1 DEF Handlers
  <2>1. i # j
    BY <1>11, Ids
  <2>2. mNext[i] = q
    BY <1>11, <2>1
  <2>3. /\ q \in attached /\ job[q] = i
        /\ answered[q] = <<>>
        /\ \A k \in 1..Len(posted) : posted[k].handler # q
        /\ q \in clean => q \in InProgress \/ (thread = "over" /\ kind[q] = "decode")
        /\ i \in FetchItems => \E s \in transfers : job[s] = i
    BY <2>2 DEF IInv, Handlers
  <2>4. q # r
    BY <2>1, <2>3 DEF j
  <2>5. q # mNext[j]
    BY <1>13, <2>1, <2>3
  <2> QED BY <1>6, <1>14, <2>3, <2>4, <2>5
<1> QED BY <1>8, <1>9, <1>10, <1>14, <1>15, <1>16, <1>17 DEF IInv

-----------------------------------------------------------------------------
(* The theorems *)

LEMMA InitInv == ASSUME Init PROVE IInv
<1>1. /\ kind = [r \in Requests |-> "none"] /\ job = [r \in Requests |-> None]
      /\ mArg = [j \in AllJobs |-> None] /\ mNext = mArg
      /\ transfers = {} /\ attached = {} /\ clean = {}
      /\ mJobs = <<>> /\ jobs = <<>> /\ decoded = 0
      /\ thread = "wait" /\ mStopped = FALSE
      /\ holding = None /\ pc = "loop" /\ posted = <<>>
      /\ answered = [r \in Requests |-> <<>>]
  BY DEF Init
<1>2. <<>> \in Seq(Requests) /\ <<>> \in Seq(Outcomes) /\ Len(<<>>) = 0
      /\ <<>> \in Seq([handler : Requests, outcome : Outcomes])
  OBVIOUS
<1>3. Typed
  <2>1. decoded \in 0..Len(jobs)
    BY <1>1, <1>2
  <2>2. answered \in [Requests -> Seq(Outcomes)]
    BY <1>1, <1>2
  <2> QED BY <1>1, <1>2, <2>1, <2>2 DEF Typed, TypeOK
<1>4. Numbered
  <2>1. 0 \in 0..MaxRequests /\ \A r \in Requests : ~(r <= 0)
    BY Ids DEF Requests
  <2>2. \A r \in Requests : kind[r] = "none"
    BY <1>1
  <2> QED BY <2>1, <2>2 DEF Numbered
<1>5. Kinds
  BY <1>1, NoElements DEF Kinds
<1>6. Apart
  BY <1>1, NoElements DEF Apart, Held, Holders
<1>7. Thread /\ Lost /\ InHand
  BY <1>1 DEF Thread, Lost, InHand
<1>8. Handlers
  BY <1>1, Ids DEF Handlers
<1>9. Posted /\ Answers
  <2>1. \A i \in 1..Len(posted) : FALSE
    BY <1>1, <1>2
  <2> QED BY <1>1, <1>2, <2>1 DEF Posted, Answers
<1> QED BY <1>3, <1>4, <1>5, <1>6, <1>7, <1>8, <1>9 DEF IInv

LEMMA StutterInv == ASSUME IInv, UNCHANGED vars PROVE IInv'
<1>1. UNCHANGED <<kind, job, clean, mArg, mNext, transfers, mJobs, jobs, decoded, thread, mStopped,
                  holding, pc, posted, attached, answered>>
  BY DEF vars, requestVars, thenVars, decoderVars
<1>2. InProgress' = InProgress /\ Holders' = Holders
  BY <1>1 DEF InProgress, Holders
<1>3. Typed' /\ Numbered' /\ Kinds' /\ Thread'
  BY <1>1 DEF IInv, Typed, TypeOK, Numbered, Kinds, Thread
<1>4. Apart'
  BY <1>1, <1>2, ApartStays DEF Held
<1>5. Lost' /\ InHand'
  BY <1>1, <1>2 DEF IInv, Lost, InHand
<1>6. Handlers' /\ Posted' /\ Answers'
  BY <1>1, <1>2 DEF IInv, Handlers, Posted, Answers
<1> QED BY <1>3, <1>4, <1>5, <1>6 DEF IInv

LEMMA NextInv == ASSUME IInv, [Next]_vars PROVE IInv'
<1>1. CASE FetchFile
  BY <1>1, FetchFileInv
<1>2. CASE FetchHttp
  BY <1>2, FetchHttpInv
<1>3. CASE Decode
  BY <1>3, DecodeInv
<1>4. CASE Attach
  BY <1>4, AttachInv
<1>5. CASE Ignore
  BY <1>5, IgnoreInv
<1>6. CASE \E r \in Requests : TransferEnds(r)
  BY <1>6, TransferEndsInv
<1>7. CASE RunPosted
  BY <1>7, RunPostedInv
<1>8. CASE Stop \/ Joined
  BY <1>8, StopInv
<1>9. CASE DecoderThread
  BY <1>9, TakeJobsInv, DecodeNextInv, PassEndsInv DEF DecoderThread
<1>10. CASE UNCHANGED vars
  BY <1>10, StutterInv
<1> QED BY <1>1, <1>2, <1>3, <1>4, <1>5, <1>6, <1>7, <1>8, <1>9, <1>10 DEF Next

\* In every state that Fetch and the Decoder reach, however many requests are made and
\* whatever the size of the pools, a handler is in one place at most (the Then of its
\* job, the loop's queue, or called), and requests that still need their jobs have
\* different ones.
THEOREM Invariance == Spec => []IInv
<1> QED BY InitInv, NextInv, PTL DEF Spec

\* A job never goes to a request while another one that is in progress has it, a
\* reference dangles only when its job is none of the pool's, and no item of Fetch is
\* given out with a handler in it: Pool::get() (Pool.h) by use_count() alone is enough
\* for that.
THEOREM JobsAreSafe == Spec => []JobsSafe
<1>1. ASSUME IInv PROVE JobsSafe
  <2>1. TypeOK
    BY <1>1 DEF IInv, Typed
  <2>2. \A r, s \in InProgress : job[r] = job[s] => r = s
    <3>1. \A r \in InProgress : Held(r) /\ r \in Requests
      BY <2>1, ProgressHolds DEF Held
    <3> QED BY <1>1, <3>1 DEF IInv, Apart
  <2>3. pc = "undefined" => job[holding] \notin Items
    BY <1>1 DEF IInv, Lost
  <2>4. ASSUME NEW j \in FetchItems, mNext[j] # None
        PROVE  InUse(j)
    <3>1. j \in AllJobs /\ mNext[j] \in Requests
      BY <2>1, <2>4, Ids DEF TypeOK
    <3>2. \E s \in transfers : job[s] = j
      BY <1>1, <3>1 DEF IInv, Handlers
    <3> QED BY <3>2 DEF InUse, Holders
  <2> QED BY <2>1, <2>2, <2>3, <2>4 DEF JobsSafe
<1> QED BY <1>1, Invariance, PTL

\* What a handler is called with is the outcome of its own request, once at most, if
\* the job had nothing left over in its Then.
THEOREM OutcomesAreOwn == Spec => []OwnOutcome
<1>1. ASSUME IInv PROVE OwnOutcome
  BY <1>1 DEF IInv, Typed, TypeOK, Answers, OwnOutcome
<1> QED BY <1>1, Invariance, PTL
=============================================================================
