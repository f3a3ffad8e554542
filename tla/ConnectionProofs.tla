-------------------------- MODULE ConnectionProofs --------------------------
(***************************************************************************)
(* Proofs about the two halves of making a connection: Resolver for any    *)
(* number of loops, requests and failures of select(), and TcpTls for any  *)
(* handshake and any number of attempts, writes and records.               *)
(*                                                                         *)
(* ResolverSafe is not inductive: that a Response in a query is alive      *)
(* rests on who has it (Asked: while select() works, every query is of a   *)
(* request in the thread's vector), and that no loop is destroyed under    *)
(* the thread's feet on what the thread has borrowed (Borrowed).           *)
(* AttemptsAreCurrent rests on the order of signals: each request is in    *)
(* one place only between the socket's thread and the resolver's           *)
(* (Underway), and nothing of a request follows its end (Ordered).         *)
(*                                                                         *)
(* What TcpTls asks of the moments between two callbacks depends on what   *)
(* is left to do in one, the stack: who will write what is pending         *)
(* (Sending), who will read what has come (Readers), which steps are next  *)
(* to each other (Steps) and how far the attempt has come when they are    *)
(* taken (Stages).  A handshake ends because the flights come one by one,  *)
(* each after the one before has been read (Handshake).                    *)
(* Beside the attempt that has the session there is another one only when  *)
(* it began later, or is removed before the handshake goes on (Aside).     *)
(***************************************************************************)
EXTENDS Resolver, TcpTls, FiniteSetTheorems, SequenceTheorems, TLAPS

-----------------------------------------------------------------------------
(* The inductive invariant *)

\* A strong pointer is taken to emit a signal, and keeps the loop's pc where
\* only the thread can end it; the thread ends between two signals.
Borrowed ==
    /\ thread \in {"wait", "over"} => emits = <<>>
    /\ ~joinable => thread = "over"
    /\ \A l \in Loops : pc[l] = "dead" => thread = "over"
    /\ lent # None => emits # <<>> /\ pc[lent] \in {"run", "kept"}

\* Everything on its way to or from c-ares is a request that a loop has made.
Owned ==
    /\ \A i \in 1..Len(mRequests) : owner[mRequests[i]] # None
    /\ \A i \in 1..Len(requests) : owner[requests[i]] # None
    /\ \A q \in queries : owner[q.r] # None
    /\ \A i \in 1..Len(emits) : owner[emits[i].r] # None

\* While select() works, c-ares is asked about the requests in the thread's
\* vector, and only until they are completed.
Asked ==
    failures = 0 => \A q \in queries : thread = "work" /\ q.r \in Range(requests)

\* While select() works and no loop ends, nothing ends the program.
GoesOn == failures = 0 /\ (\A l \in Loops : pc[l] = "run") => failed = "none"

IInv == TypeOK /\ Borrowed /\ Owned /\ Asked /\ GoesOn

-----------------------------------------------------------------------------
(* The order of signals *)

\* The requests from which the thread may still emit a signal.
Pending(r) ==
    \/ \E i \in 1..Len(mRequests) : mRequests[i] = r
    \/ thread = "work" /\ \E i \in 1..Len(requests) : requests[i] = r
    \/ \E i \in 1..Len(emits) : emits[i].r = r

\* Requests get numbers in the order in which they are made, and a signal goes
\* to the loop whose request it is about.
Numbered ==
    /\ \A r, s \in Requests : owner[r] # None /\ s < r => owner[s] # None
    /\ \A r \in done : r \in Requests /\ owner[r] # None
    /\ \A l \in Loops : \A i \in 1..Len(queue[l]) : owner[queue[l][i].r] = l
    /\ lent # None => owner[emits[1].r] = lent

\* A request that is neither its loop's last one nor over has been given up; a
\* loop that does not run has nothing queued.
Accounted ==
    /\ latest \in [Loops -> Requests \cup {None}]
    /\ \A r \in Requests : owner[r] # None => r = latest[owner[r]] \/ r \in abandoned \/ r \in done
    /\ \A l \in Loops : queue[l] # <<>> => pc[l] = "run"

\* A request is queued once, taken once, and completed once, after its answers.
Underway ==
    /\ \A i, j \in 1..Len(mRequests) : mRequests[i] = mRequests[j] => i = j
    /\ thread = "work" =>
          /\ \A i, j \in 1..Len(requests) : requests[i] = requests[j] => i = j
          /\ \A i \in 1..Len(mRequests), j \in 1..Len(requests) : mRequests[i] # requests[j]
          /\ \A i \in 1..Len(emits) :
                emits[i].what # "complete" /\ \E j \in 1..Len(requests) : requests[j] = emits[i].r
    /\ thread = "complete" =>
          /\ \A i \in 1..Len(emits) : emits[i].what = "complete"
          /\ \A i, j \in 1..Len(emits) : emits[i].r = emits[j].r => i = j
          /\ \A i \in 1..Len(mRequests), j \in 1..Len(emits) : mRequests[i] # emits[j].r

\* Nothing of a request comes after its end.
Ordered ==
    /\ \A r \in done : ~Pending(r)
    /\ \A l \in Loops : \A i \in 1..Len(queue[l]) :
          /\ queue[l][i].r \notin done
          /\ queue[l][i].what = "complete" =>
                /\ ~Pending(queue[l][i].r)
                /\ \A j \in 1..Len(queue[l]) : i < j => queue[l][j].r # queue[l][i].r

OrderInv == Numbered /\ Accounted /\ (failures = 0 => Underway /\ Ordered)

-----------------------------------------------------------------------------
(* The invariant holds *)

\* No request is made, and nothing asked, before the program starts.
LEMMA InitInv == Init => IInv
<1> SUFFICES ASSUME Init PROVE IInv
  OBVIOUS
<1> USE ResolverAssumption DEF Init
<1>1. TypeOK
  <2>1. <<>> \in Seq(Signals) /\ <<>> \in Seq(Requests) /\ 0 \in 0..MaxFailures
    OBVIOUS
  <2>2. {mStopped, joinable} \subseteq BOOLEAN
    OBVIOUS
  <2>3. /\ pc \in [Loops -> {"run", "kept", "join", "dead"}]
        /\ queue \in [Loops -> Seq(Signals)]
        /\ attempt \in [Loops -> [Addresses -> Requests \cup {None}]]
    BY <2>1
  <2> QED BY <2>1, <2>2, <2>3 DEF TypeOK
<1>2. Borrowed /\ Owned /\ Asked /\ GoesOn
  BY DEF Borrowed, Owned, Asked, GoesOn
<1> QED BY <1>1, <1>2 DEF IInv

LEMMA ConnectInv ==
    ASSUME IInv, NEW l \in Loops, Connect(l)
    PROVE  IInv'
<1> USE ResolverAssumption DEF IInv, Connect, Abandon, loopVars, lookupVars
<1>1. TypeOK'
  BY DEF TypeOK
<1>2. Borrowed' /\ GoesOn'
  BY DEF Borrowed, GoesOn
<1>3. Owned'
  BY DEF TypeOK, Owned
<1>4. Asked'
  BY DEF Asked
<1> QED BY <1>1, <1>2, <1>3, <1>4

\* Whatever the signal, the socket's state keeps its type.
LEMMA HandleType ==
    ASSUME TypeOK, NEW l \in Loops, NEW signal \in Signals, Handle(l, signal)
    PROVE  /\ attempt' \in [Loops -> [Addresses -> Requests \cup {None}]]
           /\ mResolver' \in [Loops -> Requests \cup {None}]
<1> USE DEF Handle
<1>1. signal.r \in Requests
  BY DEF Signals
<1>2. attempt[l] \in [Addresses -> Requests \cup {None}]
  BY DEF TypeOK
<1> DEFINE tried == [attempt[l] EXCEPT ![signal.what] = IF @ = None THEN signal.r ELSE @]
<1>3. tried \in [Addresses -> Requests \cup {None}]
  BY <1>1, <1>2
<1>4. attempt' = attempt \/ attempt' = [attempt EXCEPT ![l] = tried]
  OBVIOUS
<1>5. mResolver' \in [Loops -> Requests \cup {None}]
  BY DEF TypeOK
<1> QED BY <1>3, <1>4, <1>5 DEF TypeOK

LEMMA RunHandlerInv ==
    ASSUME IInv, NEW l \in Loops, RunHandler(l)
    PROVE  IInv'
<1> USE ResolverAssumption DEF IInv, RunHandler, lookupVars
<1>1. TypeOK'
  <2>1. Head(queue[l]) \in Signals /\ Tail(queue[l]) \in Seq(Signals)
    BY DEF TypeOK, Runs
  <2> QED BY <2>1, HandleType DEF TypeOK
<1>2. Borrowed' /\ GoesOn' /\ Owned' /\ Asked'
  BY DEF Borrowed, GoesOn, Owned, Asked
<1> QED BY <1>1, <1>2

LEMMA CloseInv ==
    ASSUME IInv, NEW l \in Loops, Close(l) \/ DropSocket(l)
    PROVE  IInv'
<1> USE ResolverAssumption DEF IInv, Close, DropSocket, Abandon, loopVars, lookupVars
<1>1. TypeOK'
  <2>1. [f \in Addresses |-> None] \in [Addresses -> Requests \cup {None}]
    OBVIOUS
  <2>2. attempt' \in [Loops -> [Addresses -> Requests \cup {None}]]
    BY <2>1 DEF TypeOK
  <2>3. CASE Close(l)       BY <2>2, <2>3 DEF TypeOK
  <2>4. CASE DropSocket(l)  BY <2>2, <2>4 DEF TypeOK
  <2> QED BY <2>3, <2>4
<1>2. Borrowed' /\ GoesOn' /\ Owned' /\ Asked'
  BY DEF Borrowed, GoesOn, Owned, Asked
<1> QED BY <1>1, <1>2

LEMMA ReleaseInv ==
    ASSUME IInv, NEW l \in Loops, Release(l)
    PROVE  IInv'
<1> USE ResolverAssumption DEF IInv, Release, Runs, socketVars, lookupVars, historyVars
<1>1. TypeOK'
  <2>1. <<>> \in Seq(Signals)
    OBVIOUS
  <2>2. /\ queue' \in [Loops -> Seq(Signals)]
        /\ pc' \in [Loops -> {"run", "kept", "join", "dead"}]
    BY <2>1 DEF TypeOK
  <2>3. {mStopped, joinable}' \subseteq BOOLEAN
    BY DEF TypeOK
  <2> QED BY <2>2, <2>3 DEF TypeOK
<1>2. Borrowed'
  BY DEF TypeOK, Borrowed
<1>3. GoesOn' /\ Owned' /\ Asked'
  BY DEF TypeOK, GoesOn, Owned, Asked
<1> QED BY <1>1, <1>2, <1>3

LEMMA JoinedInv ==
    ASSUME IInv, NEW l \in Loops, Joined(l)
    PROVE  IInv'
<1> USE ResolverAssumption DEF IInv, Joined, socketVars, lookupVars, historyVars
<1>1. TypeOK'
  BY DEF TypeOK
<1>2. Borrowed'
  BY DEF TypeOK, Borrowed
<1>3. GoesOn' /\ Owned' /\ Asked'
  BY DEF TypeOK, GoesOn, Owned, Asked
<1> QED BY <1>1, <1>2, <1>3

LEMMA TakeInv ==
    ASSUME IInv, Take
    PROVE  IInv'
<1> USE ResolverAssumption DEF IInv, Take, Thread, loopVars, socketVars, historyVars
<1>1. CASE mStopped /\ thread' = "over" /\ UNCHANGED <<mRequests, requests, queries>>
  BY <1>1 DEF TypeOK, Borrowed, Owned, Asked, GoesOn
<1>2. CASE ~mStopped
  <2>1. PICK families \in [Range(mRequests) -> (SUBSET Addresses) \ {{}}] :
           queries' = queries \cup UNION {[r : {r}, what : families[r]] : r \in Range(mRequests)}
    BY <1>2
  <2>2. \A q \in queries' : q \in queries \/ (q \in [r : Requests, what : Addresses] /\ q.r \in Range(mRequests))
    <3>1. Range(mRequests) \subseteq Requests
      BY DEF TypeOK, Range
    <3> HIDE DEF Take
    <3>2. ASSUME NEW q \in queries', q \notin queries
          PROVE  \E r \in Range(mRequests) : q \in [r : {r}, what : families[r]]
      BY <2>1, <3>2
    <3>3. \A r \in Range(mRequests) : families[r] \subseteq Addresses
      BY <2>1
    <3> QED BY <3>1, <3>2, <3>3
  <2>3. TypeOK'
    <3>1. queries' \subseteq [r : Requests, what : Addresses]
      BY <2>2 DEF TypeOK
    <3>2. /\ thread' = "work" /\ requests' = mRequests /\ mRequests' = <<>>
          /\ UNCHANGED <<loopVars, socketVars, owner, mStopped, joinable, emits, lent, failures, failed>>
      BY <1>2
    <3> HIDE DEF Take
    <3> QED BY <3>1, <3>2 DEF TypeOK
  <2>4. Asked'
    BY <1>2, <2>2 DEF TypeOK, Asked
  <2>5. Owned'
    BY <1>2, <2>2 DEF TypeOK, Owned, Range
  <2> QED BY <1>2, <2>3, <2>4, <2>5 DEF Borrowed, GoesOn
<1> QED BY <1>1, <1>2

LEMMA AnswerInv ==
    ASSUME IInv, Answer
    PROVE  IInv'
<1> USE ResolverAssumption DEF IInv, Answer, Thread, Told, loopVars, socketVars, historyVars
<1>1. PICK q \in queries :
         /\ queries' = queries \ {q}
         /\ \/ /\ q.r \in Alive
               /\ \E what \in {q.what, "error"} : emits' = Told(q, what)
               /\ UNCHANGED failed
            \/ q.r \notin Alive /\ failed' = "dangling" /\ UNCHANGED emits
  OBVIOUS
<1>2. q.r \in Requests /\ q.what \in Addresses
  BY DEF TypeOK
<1>3. emits' \in Seq(Signals)
  <2>1. \A what \in {q.what, "error"} : [r |-> q.r, what |-> what] \in Signals
    BY <1>2 DEF Signals
  <2>2. CASE UNCHANGED emits
    BY <2>2 DEF TypeOK
  <2>3. ASSUME NEW what \in {q.what, "error"}, emits' = Told(q, what)
        PROVE  emits' \in Seq(Signals)
    BY <2>1, <2>3
  <2> QED BY <1>1, <2>2, <2>3
<1>4. TypeOK'
  BY <1>1, <1>3 DEF TypeOK
<1>5. Borrowed' /\ Asked'
  BY <1>1 DEF Borrowed, Asked
<1>6. Owned'
  <2>1. CASE emits' = emits
    BY <1>1, <2>1 DEF TypeOK, Owned
  <2>2. ASSUME NEW what, emits' = Told(q, what)
        PROVE  \A i \in 1..Len(emits') : emits'[i].r = q.r
    BY <2>2
  <2> QED BY <1>1, <2>1, <2>2 DEF Owned
<1>7. GoesOn'
  BY <1>1 DEF GoesOn, Asked, Alive
<1> QED BY <1>4, <1>5, <1>6, <1>7

LEMMA CompleteInv ==
    ASSUME IInv, Complete
    PROVE  IInv'
<1> USE ResolverAssumption DEF IInv, Complete, Thread, Completions, loopVars, socketVars, lookupVars, historyVars
<1>1. /\ emits' \in Seq(Signals)
      /\ \A i \in 1..Len(emits') : emits'[i].r = requests[i]
      /\ Len(emits') = Len(requests)
  BY DEF TypeOK, Signals
<1>2. failures' \in 0..MaxFailures /\ failures' \in Nat /\ (failures' = 0 => failures = 0 /\ queries = {})
  BY DEF TypeOK
<1>3. TypeOK'
  BY <1>1, <1>2 DEF TypeOK
<1>4. Borrowed' /\ Asked' /\ GoesOn'
  BY <1>2 DEF Borrowed, Asked, GoesOn
<1>5. Owned'
  BY <1>1 DEF TypeOK, Owned
<1> QED BY <1>3, <1>4, <1>5

LEMMA PassEndsInv ==
    ASSUME IInv, PassEnds
    PROVE  IInv'
<1> USE ResolverAssumption DEF IInv, PassEnds, Thread, loopVars, socketVars, historyVars
<1>1. TypeOK'
  BY DEF TypeOK
<1>2. Borrowed' /\ Owned' /\ Asked' /\ GoesOn'
  BY DEF TypeOK, Borrowed, Owned, Asked, GoesOn
<1> QED BY <1>1, <1>2

\* The signal the thread is about to emit is of a request that a loop has made.
LEMMA HeadOwned ==
    ASSUME TypeOK, Owned, emits # <<>>
    PROVE  /\ Head(emits) \in Signals /\ Tail(emits) \in Seq(Signals)
           /\ Len(Tail(emits)) = Len(emits) - 1
           /\ \A i \in 1..Len(Tail(emits)) : i + 1 \in 1..Len(emits) /\ Tail(emits)[i] = emits[i + 1]
           /\ Listener \in Loops
<1>1. emits \in Seq(Signals)
  BY DEF TypeOK
<1>2. Head(emits) = emits[1] /\ 1 \in 1..Len(emits)
  BY <1>1
<1>3. emits[1] \in Signals
  BY <1>1, <1>2
<1>4. owner[emits[1].r] # None /\ emits[1].r \in Requests
  BY <1>2, <1>3 DEF Owned, Signals
<1>5. Listener \in Loops
  BY <1>2, <1>4 DEF TypeOK, Listener
<1> QED BY <1>1, <1>2, <1>3, <1>5

LEMMA LockLoopInv ==
    ASSUME IInv, LockLoop
    PROVE  IInv'
<1> USE ResolverAssumption
    DEF IInv, LockLoop, Emitting, loopVars, socketVars, lookupVars, historyVars
<1>1. Listener \in Loops
  BY HeadOwned
<1>2. TypeOK'
  BY <1>1 DEF TypeOK
<1>3. Borrowed' /\ Owned' /\ Asked' /\ GoesOn'
  BY <1>1 DEF TypeOK, Borrowed, Owned, Asked, GoesOn
<1> QED BY <1>2, <1>3

LEMMA SendToLoopInv ==
    ASSUME IInv, SendToLoop
    PROVE  IInv'
<1> USE ResolverAssumption DEF IInv, SendToLoop, socketVars, lookupVars, historyVars
<1>1. emits # <<>>
  BY DEF Borrowed
<1>2. TypeOK'
  BY <1>1, HeadOwned DEF TypeOK
<1>3. Borrowed' /\ Asked' /\ GoesOn'
  BY DEF TypeOK, Borrowed, Asked, GoesOn
<1>4. Owned'
  BY <1>1, HeadOwned DEF Owned
<1> QED BY <1>2, <1>3, <1>4

LEMMA HandleHereInv ==
    ASSUME IInv, HandleHere
    PROVE  IInv'
<1> USE ResolverAssumption DEF IInv, HandleHere, Emitting, loopVars, lookupVars
<1>1. Head(emits) \in Signals /\ Tail(emits) \in Seq(Signals) /\ Listener \in Loops
  BY HeadOwned
<1>2. TypeOK'
  BY <1>1, HandleType DEF TypeOK
<1>3. Borrowed' /\ Asked' /\ GoesOn'
  BY <1>1 DEF TypeOK, Borrowed, Asked, GoesOn
<1>4. Owned'
  BY <1>1, HeadOwned DEF Owned
<1> QED BY <1>2, <1>3, <1>4

LEMMA NextInv == IInv /\ [Next]_vars => IInv'
<1> SUFFICES ASSUME IInv, [Next]_vars PROVE IInv'
  OBVIOUS
<1>1. CASE ResolverThread
  BY <1>1, TakeInv, AnswerInv, CompleteInv, PassEndsInv, LockLoopInv, SendToLoopInv, HandleHereInv
     DEF ResolverThread
<1>2. CASE \E l \in Loops : Connect(l) \/ RunHandler(l) \/ Close(l) \/ DropSocket(l)
  BY <1>2, ConnectInv, RunHandlerInv, CloseInv
<1>3. CASE \E l \in Loops : Release(l) \/ Joined(l)
  BY <1>3, ReleaseInv, JoinedInv
<1>4. CASE UNCHANGED vars
  BY <1>4 DEF vars, loopVars, socketVars, lookupVars, historyVars, IInv, TypeOK, Borrowed, Owned,
              Asked, GoesOn
<1> QED BY <1>1, <1>2, <1>3, <1>4 DEF Next

\* The invariant holds throughout, for any loops, requests and failures.
THEOREM Invariance == Spec => []IInv
<1> QED BY InitInv, NextInv, PTL DEF Spec

\* While select() works, c-ares never calls back for a Response that is gone;
\* while no loop ends either, nothing ends the program; and no loop is destroyed
\* before the thread that posts to it is over.
THEOREM ResolverIsSafe == Spec => []ResolverSafe
<1>1. IInv => ResolverSafe
  <2> SUFFICES ASSUME IInv PROVE ResolverSafe
    OBVIOUS
  <2>1. failures = 0 => \A q \in queries : q.r \in Alive
    BY DEF IInv, Asked, Alive
  <2>2. ASSUME NEW l \in Loops, pc[l] = "dead" PROVE thread = "over" /\ lent # l
    BY <2>2, ResolverAssumption DEF IInv, TypeOK, Borrowed
  <2> QED BY <2>1, <2>2 DEF IInv, GoesOn, ResolverSafe
<1> QED BY <1>1, Invariance, PTL

-----------------------------------------------------------------------------
(* Nothing of a request comes after its end *)

\* The number of requests made is the number of the last one.
LEMMA NextNumber ==
    ASSUME TypeOK, Numbered, Made + 1 \in Requests
    PROVE  /\ owner[Made + 1] = None
           /\ \A s \in Requests : s < Made + 1 => owner[s] # None
<1> DEFINE M == {r \in Requests : owner[r] # None}
<1>1. MaxRequests \in Nat
  BY ResolverAssumption
<1>2. IsFiniteSet(M) /\ Cardinality(M) \in Nat
  <2>1. IsFiniteSet(Requests) /\ M \in SUBSET Requests
    BY <1>1, FS_Interval DEF Requests
  <2> QED BY <2>1, FS_Subset, FS_CardinalityType
<1>3. Made = Cardinality(M)
  BY DEF Made
<1>4. ASSUME owner[Made + 1] # None PROVE FALSE
  <2>1. 1..Made + 1 \in SUBSET M
    <3>1. Made \in Nat /\ Made + 1 \in Nat
      BY <1>2, <1>3
    <3> HIDE DEF M
    <3>2. ASSUME NEW s \in 1..Made + 1 PROVE s \in Requests /\ owner[s] # None
      BY <1>1, <1>4, <3>1 DEF Numbered, Requests
    <3> QED BY <3>2 DEF M
  <2>2. Cardinality(1..Made + 1) <= Cardinality(M)
    BY <1>2, <2>1, FS_Subset
  <2>3. Cardinality(1..Made + 1) = Made + 1
    BY <1>2, <1>3, FS_Interval
  <2> QED BY <1>2, <1>3, <2>2, <2>3
<1>5. ASSUME NEW s \in Requests, s < Made + 1, owner[s] = None PROVE FALSE
  <2>1. M \in SUBSET (1..s - 1)
    BY <1>1, <1>5 DEF Numbered, Requests
  <2>2. Cardinality(M) <= Cardinality(1..s - 1) 
    <3>1. IsFiniteSet(1..s - 1)
      BY <1>1, FS_Interval DEF Requests
    <3> QED BY <2>1, <3>1, FS_Subset
  <2>3. Cardinality(1..s - 1) = s - 1
    BY FS_Interval DEF Requests
  <2> QED BY <1>2, <1>3, <1>5, <2>2, <2>3 DEF Requests
<1> QED BY <1>4, <1>5

LEMMA InitOrder == Init => OrderInv
<1> SUFFICES ASSUME Init PROVE OrderInv
  OBVIOUS
<1> QED BY ResolverAssumption DEF Init, OrderInv, Numbered, Accounted, Underway, Ordered, Pending

LEMMA ConnectOrder ==
    ASSUME IInv, OrderInv, NEW l \in Loops, Connect(l)
    PROVE  OrderInv'
<1> USE ResolverAssumption DEF IInv, OrderInv, Connect, Abandon, loopVars, lookupVars
<1> DEFINE r == Made + 1
<1>1. r \in Requests /\ owner[r] = None /\ \A s \in Requests : s < r => owner[s] # None
  BY NextNumber
<1>2. /\ owner' = [owner EXCEPT ![r] = l] /\ l # None
      /\ mRequests' = Append(mRequests, r)
      /\ latest' = [latest EXCEPT ![l] = r]
  OBVIOUS
<1> HIDE DEF r
<1>3. Numbered'
  <2>1. \A s \in Requests : owner'[s] = IF s = r THEN l ELSE owner[s]
    BY <1>2 DEF TypeOK
  <2>2. r \in Requests /\ \A s \in Requests : s < r => owner[s] # None
    BY <1>1
  <2>3. ASSUME NEW s \in Requests, NEW q \in Requests, owner'[s] # None, q < s
        PROVE  owner'[q] # None
    <3>1. Numbered
      OBVIOUS
    <3> HIDE DEF IInv, OrderInv, Connect, Abandon, loopVars, lookupVars
    <3>2. CASE s = r
      BY <2>1, <2>2, <2>3, <3>2, <1>2
    <3>3. CASE s # r
      BY <2>1, <2>3, <3>1, <3>3, <1>2 DEF Numbered
    <3> QED BY <3>2, <3>3
  <2>4. UNCHANGED <<done, queue, lent, emits>> /\ Numbered
    OBVIOUS
  <2>5. /\ \A k \in Loops : queue[k] \in Seq(Signals)
        /\ emits \in Seq(Signals) /\ (lent # None => emits # <<>>)
    BY DEF TypeOK, Borrowed
  <2> HIDE DEF IInv, OrderInv, Connect, Abandon, loopVars, lookupVars
  <2>6. \A s \in done' : s \in Requests /\ owner'[s] # None
    BY <1>2, <2>1, <2>4, <2>5 DEF Numbered
  <2>7. ASSUME NEW k \in Loops, NEW i \in 1..Len(queue[k])
        PROVE  owner'[queue[k][i].r] = k
    <3>1. queue[k][i].r \in Requests /\ owner[queue[k][i].r] = k
      <4>1. queue[k][i] \in Signals
        BY <2>5
      <4> QED BY <2>4, <4>1 DEF Numbered, Signals
    <3>2. k # None
      BY ResolverAssumption
    <3> QED BY <1>1, <2>1, <3>1, <3>2
  <2>8. ASSUME lent # None PROVE owner'[emits[1].r] = lent
    <3>1. emits[1].r \in Requests /\ owner[emits[1].r] = lent
      <4>1. emits[1] \in Signals
        BY <2>5, <2>8
      <4> QED BY <2>4, <2>8, <4>1 DEF Numbered, Signals
    <3> QED BY <1>1, <2>1, <2>8, <3>1
  <2> QED BY <2>3, <2>4, <2>6, <2>7, <2>8 DEF Numbered
<1>4. Accounted'
  <2>1. latest' \in [Loops -> Requests \cup {None}]
    BY <1>1, <1>2 DEF Accounted
  <2>2. ASSUME NEW s \in Requests, owner'[s] # None
        PROVE  s = latest'[owner'[s]] \/ s \in abandoned' \/ s \in done'
    <3>1. CASE s = r
      BY <1>1, <1>2, <3>1 DEF TypeOK, Accounted
    <3>2. CASE s # r /\ owner[s] = l
      <4>1. s # None /\ (s = latest[l] \/ s \in abandoned \/ s \in done)
        BY <1>1, <3>2 DEF Accounted, Requests
      <4> QED BY <4>1
    <3>3. CASE s # r /\ owner[s] # l
      BY <1>1, <1>2, <2>2, <3>3 DEF TypeOK, Accounted
    <3> QED BY <3>1, <3>2, <3>3
  <2> QED BY <2>1, <2>2 DEF Accounted
<1>5. ASSUME failures = 0 PROVE Underway' /\ Ordered'
  <2> USE <1>5
  <2>1. /\ mRequests \in Seq(Requests) /\ Len(mRequests') = Len(mRequests) + 1
        /\ \A i \in 1..Len(mRequests) : mRequests'[i] = mRequests[i]
        /\ mRequests'[Len(mRequests) + 1] = r
    BY <1>1, <1>2 DEF TypeOK
  <2>2. ~Pending(r)
    BY <1>1 DEF Owned, Pending
  <2>3. r \notin done /\ \A k \in Loops : \A i \in 1..Len(queue[k]) : queue[k][i].r # r
    BY <1>1 DEF Numbered
  <2>4. ASSUME NEW s, s # r, ~Pending(s) PROVE ~Pending(s)'
    BY <2>1, <2>4 DEF Pending
  <2>5. Underway'
    BY <2>1, <2>2 DEF Underway, Pending
  <2>6. Ordered'
    <3>1. UNCHANGED <<queue, done>> /\ Ordered
      OBVIOUS
    <3> HIDE DEF IInv, OrderInv, Connect, Abandon, loopVars, lookupVars
    <3>2. \A s \in done' : ~Pending(s)'
      BY <2>3, <2>4, <3>1, Zenon DEF Ordered
    <3>3. \A k \in Loops : \A i \in 1..Len(queue[k]) :
             queue[k][i].what = "complete" => ~Pending(queue[k][i].r)'
      BY <2>3, <2>4, <3>1, Zenon DEF Ordered
    <3> QED BY <3>1, <3>2, <3>3 DEF Ordered
  <2> QED BY <2>5, <2>6
<1> QED BY <1>3, <1>4, <1>5

LEMMA RunHandlerOrder ==
    ASSUME IInv, OrderInv, NEW l \in Loops, RunHandler(l)
    PROVE  OrderInv'
<1> USE ResolverAssumption DEF IInv, OrderInv, RunHandler, Handle, Runs, lookupVars
<1> DEFINE signal == Head(queue[l])
<1>1. /\ queue[l] \in Seq(Signals) /\ queue[l] # <<>>
      /\ signal = queue[l][1] /\ signal \in Signals /\ 1 \in 1..Len(queue[l])
      /\ queue'[l] \in Seq(Signals) /\ Len(queue'[l]) = Len(queue[l]) - 1
      /\ \A i \in 1..Len(queue'[l]) : i + 1 \in 1..Len(queue[l]) /\ queue'[l][i] = queue[l][i + 1]
  BY DEF TypeOK
<1>2. \A k \in Loops : k # l => queue'[k] = queue[k]
  BY DEF TypeOK
<1>3. done' = done \/ (signal.what = "complete" /\ done' = done \cup {signal.r})
  OBVIOUS
<1>4. owner[signal.r] = l
  BY <1>1 DEF Numbered
<1> HIDE DEF signal
<1>5. \A k \in Loops : \A i \in 1..Len(queue[k]) : owner[queue[k][i].r] = k
  BY DEF Numbered
<1>6. Numbered'
  <2>1. signal.r \in Requests /\ owner[signal.r] # None
    BY <1>1, <1>4, ResolverAssumption DEF Signals
  <2>2. Numbered /\ UNCHANGED <<owner, lent, emits>>
    OBVIOUS
  <2> HIDE DEF IInv, OrderInv, RunHandler, Handle, Runs, lookupVars
  <2>3. \A r \in done' : r \in Requests /\ owner'[r] # None
    BY <1>3, <2>1, <2>2 DEF Numbered
  <2>4. ASSUME NEW k \in Loops, NEW i \in 1..Len(queue'[k]) PROVE owner'[queue'[k][i].r] = k
    <3>1. CASE k = l
      <4>1. i + 1 \in 1..Len(queue[l]) /\ queue'[k][i] = queue[l][i + 1]
        BY <1>1, <3>1
      <4> QED BY <1>5, <2>2, <3>1, <4>1
    <3>2. CASE k # l
      BY <1>2, <1>5, <2>2, <3>2
    <3> QED BY <3>1, <3>2
  <2> QED BY <2>2, <2>3, <2>4 DEF Numbered
<1>7. Accounted'
  BY <1>1, <1>2, <1>3 DEF Accounted
<1>8. ASSUME failures = 0 PROVE Underway' /\ Ordered'
  <2>1. UNCHANGED <<mRequests, thread, requests, emits>>
    OBVIOUS
  <2>2. Underway /\ Ordered
    BY <1>8
  <2> HIDE DEF IInv, OrderInv, RunHandler, Handle, Runs, lookupVars
  <2>3. \A r : Pending(r)' = Pending(r)
    BY <2>1 DEF Pending
  <2>4. Underway'
    BY <2>1, <2>2 DEF Underway
  <2>5. \A r \in done : ~Pending(r)
    BY <2>2 DEF Ordered
  <2>6. \A k \in Loops : \A i \in 1..Len(queue[k]) :
           /\ queue[k][i].r \notin done
           /\ queue[k][i].what = "complete" => ~Pending(queue[k][i].r)
    BY <2>2 DEF Ordered
  <2>7. \A k \in Loops : \A i, j \in 1..Len(queue[k]) :
           queue[k][i].what = "complete" /\ i < j => queue[k][j].r # queue[k][i].r
    BY <2>2 DEF Ordered
  <2>8. \A r \in done' : ~Pending(r)'
    BY <1>1, <1>3, <2>3, <2>5, <2>6
  <2>9. ASSUME NEW k \in Loops, NEW i \in 1..Len(queue'[k])
        PROVE  /\ queue'[k][i].r \notin done'
               /\ queue'[k][i].what = "complete" => ~Pending(queue'[k][i].r)
    <3>1. CASE k = l
      <4>1. queue'[k][i] = queue[l][i + 1] /\ i + 1 \in 1..Len(queue[l]) /\ 1 < i + 1
        BY <1>1, <3>1
      <4>2. queue'[k][i].r \notin done'
        BY <1>1, <1>3, <2>6, <2>7, <4>1
      <4> QED BY <2>6, <4>1, <4>2
    <3>2. CASE k # l
      <4>1. queue'[k] = queue[k]
        BY <1>2, <3>2
      <4>2. queue[k][i].r # signal.r
        BY <1>4, <1>5, <3>2, <4>1
      <4>3. queue[k][i].r \notin done'
        BY <1>3, <2>6, <4>1, <4>2
      <4> QED BY <2>6, <4>1, <4>3
    <3> QED BY <3>1, <3>2
  <2>10. ASSUME NEW k \in Loops, NEW i \in 1..Len(queue'[k]), NEW j \in 1..Len(queue'[k]),
                queue'[k][i].what = "complete", i < j
         PROVE  queue'[k][j].r # queue'[k][i].r
    <3>1. CASE k = l
      <4>1. /\ queue'[k][i] = queue[l][i + 1] /\ queue'[k][j] = queue[l][j + 1]
            /\ i + 1 \in 1..Len(queue[l]) /\ j + 1 \in 1..Len(queue[l]) /\ i + 1 < j + 1
        BY <1>1, <2>10, <3>1
      <4> QED BY <2>7, <2>10, <4>1
    <3>2. CASE k # l
      <4>1. queue'[k] = queue[k]
        BY <1>2, <3>2
      <4> QED BY <2>7, <2>10, <4>1
    <3> QED BY <3>1, <3>2
  <2>11. Ordered'
    <3>1. ASSUME NEW k \in Loops, NEW i \in 1..Len(queue'[k]), queue'[k][i].what = "complete"
          PROVE  ~Pending(queue[k][i].r)'
      BY <2>3, <2>9, <3>1
    <3> QED BY <2>8, <2>9, <2>10, <3>1 DEF Ordered
  <2> QED BY <2>4, <2>11
<1> QED BY <1>6, <1>7, <1>8

LEMMA CloseOrder ==
    ASSUME IInv, OrderInv, NEW l \in Loops, Close(l) \/ DropSocket(l)
    PROVE  OrderInv'
<1> USE DEF OrderInv, Close, DropSocket, Abandon, loopVars, lookupVars
<1>1. Numbered' /\ Accounted'
  BY DEF Numbered, Accounted
<1>2. ASSUME failures = 0 PROVE Underway' /\ Ordered'
  <2>1. UNCHANGED <<queue, mRequests, thread, requests, emits, done>>
    OBVIOUS
  <2>2. \A r : Pending(r)' = Pending(r)
    BY <2>1 DEF Pending
  <2>3. Underway'
    BY <1>2, <2>1 DEF Underway
  <2> HIDE DEF Close, DropSocket
  <2>4. Ordered'
    BY <1>2, <2>1, <2>2 DEF Ordered
  <2> QED BY <2>3, <2>4
<1> QED BY <1>1, <1>2

LEMMA ReleaseOrder ==
    ASSUME IInv, OrderInv, NEW l \in Loops, Release(l)
    PROVE  OrderInv'
<1> USE DEF IInv, OrderInv, Release, Runs, socketVars, lookupVars, historyVars
<1>1. queue' = [queue EXCEPT ![l] = <<>>] /\ \A k \in Loops \ {l} : pc'[k] = pc[k]
  BY DEF TypeOK
<1>2. Numbered' /\ Accounted'
  BY <1>1 DEF TypeOK, Numbered, Accounted
<1>3. failures = 0 => Underway' /\ Ordered'
  BY <1>1 DEF TypeOK, Underway, Ordered, Pending
<1> QED BY <1>2, <1>3

LEMMA JoinedOrder ==
    ASSUME IInv, OrderInv, NEW l \in Loops, Joined(l)
    PROVE  OrderInv'
<1> USE DEF IInv, OrderInv, Joined, socketVars, lookupVars, historyVars
<1>1. Numbered' /\ Accounted'
  BY DEF TypeOK, Numbered, Accounted
<1>2. failures = 0 => Underway' /\ Ordered'
  BY DEF Underway, Ordered, Pending
<1> QED BY <1>1, <1>2

LEMMA TakeOrder ==
    ASSUME IInv, OrderInv, Take
    PROVE  OrderInv'
<1> USE DEF IInv, OrderInv, Take, Thread, loopVars, socketVars, historyVars
<1>1. Numbered' /\ Accounted'
  BY DEF Numbered, Accounted
<1>2. ASSUME failures = 0 PROVE Underway' /\ Ordered'
  <2> USE <1>2
  <2>1. emits = <<>> /\ emits' = <<>> /\ Len(emits) = 0 /\ UNCHANGED <<queue, done>>
    OBVIOUS
  <2>2. \/ mRequests' = mRequests /\ thread' = "over"
        \/ mRequests' = <<>> /\ Len(mRequests') = 0 /\ requests' = mRequests /\ thread' = "work"
    OBVIOUS
  <2> HIDE DEF Take
  <2>3. \A r : Pending(r)' => Pending(r)
    BY <2>1, <2>2 DEF Pending
  <2>4. Underway'
    BY <2>1, <2>2 DEF Underway
  <2>5. Ordered'
    BY <2>1, <2>3 DEF Ordered
  <2> QED BY <2>4, <2>5
<1> QED BY <1>1, <1>2

LEMMA AnswerOrder ==
    ASSUME IInv, OrderInv, Answer
    PROVE  OrderInv'
<1> USE DEF IInv, OrderInv, Answer, Thread, Told, loopVars, socketVars, historyVars
<1>1. Numbered' /\ Accounted'
  <2>1. lent = None /\ lent' = None
    BY DEF Borrowed
  <2> QED BY <2>1 DEF Numbered, Accounted
<1>2. ASSUME failures = 0 PROVE Underway' /\ Ordered'
  <2> USE <1>2
  <2>1. /\ thread = "work" /\ Len(emits) = 0
        /\ UNCHANGED <<queue, done, mRequests, thread, requests>>
    OBVIOUS
  <2>2. \A i \in 1..Len(emits') :
           emits'[i].what # "complete" /\ \E j \in 1..Len(requests) : requests[j] = emits'[i].r
    <3>1. CASE emits' = emits
      BY <3>1
    <3>2. ASSUME NEW q \in queries, NEW what \in {q.what, "error"}, emits' = Told(q, what)
          PROVE  \A i \in 1..Len(emits') : emits'[i].what # "complete" /\ emits'[i].r = q.r
      <4> HIDE DEF Answer
      <4>1. q.what # "complete"
        BY DEF TypeOK, Addresses
      <4> QED BY <3>2, <4>1
    <3>3. PICK q \in queries : \/ emits' = emits
                               \/ \E what \in {q.what, "error"} : emits' = Told(q, what)
      OBVIOUS
    <3> HIDE DEF Answer
    <3>4. requests \in Seq(Requests) /\ q.r \in Range(requests)
      BY DEF TypeOK, Asked
    <3>5. \E j \in 1..Len(requests) : requests[j] = q.r
      BY <3>4 DEF Range
    <3> QED BY <3>1, <3>2, <3>3, <3>5
  <2> HIDE DEF Answer
  <2>3. \A r : Pending(r)' => Pending(r)
    BY <2>1, <2>2 DEF Pending
  <2>4. Underway'
    BY <2>1, <2>2 DEF Underway
  <2>5. Ordered'
    BY <2>1, <2>3 DEF Ordered
  <2> QED BY <2>4, <2>5
<1> QED BY <1>1, <1>2

LEMMA CompleteOrder ==
    ASSUME IInv, OrderInv, Complete
    PROVE  OrderInv'
<1> USE DEF IInv, OrderInv, Complete, Thread, loopVars, socketVars, lookupVars, historyVars
<1>1. Numbered' /\ Accounted'
  <2>1. lent = None /\ lent' = None
    BY DEF Borrowed
  <2> QED BY <2>1 DEF Numbered, Accounted
<1>2. ASSUME failures' = 0 PROVE Underway' /\ Ordered'
  <2>1. failures = 0
    BY <1>2, ResolverAssumption DEF TypeOK
  <2>2. /\ Len(emits') = Len(requests)
        /\ \A i \in 1..Len(requests) : emits'[i].r = requests[i] /\ emits'[i].what = "complete"
    BY DEF TypeOK, Completions
  <2>3. /\ thread = "work" /\ thread' = "complete"
        /\ UNCHANGED <<queue, done, mRequests, requests>>
    OBVIOUS
  <2> HIDE DEF Complete
  <2>4. \A r : Pending(r)' => Pending(r)
    BY <2>2, <2>3 DEF Pending
  <2>5. Underway'
    BY <2>1, <2>2, <2>3 DEF Underway
  <2>6. Ordered'
    BY <2>1, <2>3, <2>4 DEF Ordered
  <2> QED BY <2>5, <2>6
<1> QED BY <1>1, <1>2

LEMMA PassEndsOrder ==
    ASSUME IInv, OrderInv, PassEnds \/ LockLoop
    PROVE  OrderInv'
<1> USE DEF IInv, OrderInv, PassEnds, LockLoop, Thread, loopVars, socketVars, lookupVars, historyVars
<1>1. Numbered' /\ Accounted'
  <2>1. CASE PassEnds
    BY <2>1 DEF Numbered, Accounted
  <2>2. CASE LockLoop
    <3>1. lent' = owner[emits[1].r]
      BY <2>2, HeadOwned DEF Emitting, Listener
    <3> QED BY <2>2, <3>1 DEF Numbered, Accounted
  <2> QED BY <2>1, <2>2
<1>2. ASSUME failures = 0 PROVE Underway' /\ Ordered'
  <2>1. /\ UNCHANGED <<queue, done, mRequests, emits>>
        /\ UNCHANGED <<thread, requests>> \/ (thread' = "wait" /\ thread = "complete")
    OBVIOUS
  <2> HIDE DEF PassEnds, LockLoop
  <2>2. \A r : Pending(r)' => Pending(r)
    BY <2>1 DEF Pending
  <2>3. Underway'
    BY <1>2, <2>1 DEF Underway
  <2>4. Ordered'
    BY <1>2, <2>1, <2>2 DEF Ordered
  <2> QED BY <2>3, <2>4
<1> QED BY <1>1, <1>2

\* What remains to be emitted after a signal is in order; nothing of its request
\* remains if it was the end.
LEMMA TailUnderway ==
    ASSUME IInv, Underway, emits # <<>>, emits' = Tail(emits),
           UNCHANGED <<mRequests, requests, thread>>,
           NEW signal, signal = Head(emits)
    PROVE  /\ Underway'
           /\ \A r : Pending(r)' => Pending(r)
           /\ Pending(signal.r)
           /\ signal.what = "complete" => ~Pending(signal.r)'
<1> USE DEF IInv
<1>1. /\ 1 \in 1..Len(emits) /\ signal = emits[1] /\ Len(emits') = Len(emits) - 1
      /\ \A i \in 1..Len(emits') : i + 1 \in 1..Len(emits) /\ emits'[i] = emits[i + 1] /\ i + 1 # 1
  BY HeadOwned DEF TypeOK
<1>2. Underway'
  BY <1>1 DEF Underway
<1>3. \A r : Pending(r)' => Pending(r)
  BY <1>1 DEF Pending
<1>4. Pending(signal.r)
  BY <1>1 DEF Pending
<1>5. ASSUME signal.what = "complete" PROVE ~Pending(signal.r)'
  <2>1. thread = "complete"
    BY <1>1, <1>5 DEF Underway, TypeOK, Borrowed
  <2>2. \A i \in 1..Len(emits') : emits'[i].r # signal.r
    BY <1>1, <1>5, <2>1 DEF Underway
  <2>3. \A i \in 1..Len(mRequests') : mRequests'[i] # signal.r
    BY <1>1, <1>5, <2>1 DEF Underway
  <2> QED BY <2>1, <2>2, <2>3 DEF Pending
<1> QED BY <1>2, <1>3, <1>4, <1>5

LEMMA SendToLoopOrder ==
    ASSUME IInv, OrderInv, SendToLoop
    PROVE  OrderInv'
<1> USE DEF IInv, OrderInv, SendToLoop, socketVars, lookupVars, historyVars
<1>1. PICK signal : signal = Head(emits)
  OBVIOUS
<1>2. /\ emits # <<>> /\ lent \in Loops /\ signal \in Signals /\ lent' = None
      /\ emits' = Tail(emits)
      /\ UNCHANGED <<mRequests, requests, thread, done, owner, pc, latest, abandoned, failures>>
  BY <1>1, HeadOwned DEF TypeOK, Borrowed
<1>3. owner[signal.r] = lent
  BY <1>1, <1>2, HeadOwned DEF Numbered, Listener, TypeOK
<1>4. queue'[lent] = queue[lent] \/ (queue'[lent] = Append(queue[lent], signal) /\ pc[lent] = "run")
  BY <1>1, <1>2 DEF TypeOK
<1>5. \A k \in Loops : k # lent => queue'[k] = queue[k]
  BY DEF TypeOK
<1>6. \A k \in Loops : queue[k] \in Seq(Signals)
  BY DEF TypeOK
<1> HIDE DEF SendToLoop
<1>7. ASSUME NEW k \in Loops, NEW i \in 1..Len(queue'[k])
      PROVE  \/ i \in 1..Len(queue[k]) /\ queue'[k][i] = queue[k][i]
             \/ k = lent /\ i = Len(queue[k]) + 1 /\ queue'[k][i] = signal
  BY <1>2, <1>4, <1>5, <1>6
<1>8. Numbered'
  BY <1>2, <1>3, <1>7 DEF Numbered
<1>9. Accounted'
  BY <1>2, <1>4, <1>5 DEF Accounted
<1>10. ASSUME failures' = 0 PROVE Underway' /\ Ordered'
  <2>1. failures = 0
    BY <1>2, <1>10
  <2>2. /\ Underway'
        /\ \A r : Pending(r)' => Pending(r)
        /\ Pending(signal.r)
        /\ signal.what = "complete" => ~Pending(signal.r)'
    BY <1>1, <1>2, <2>1, TailUnderway
  <2>3. \A r \in done' : ~Pending(r)'
    BY <1>2, <2>1, <2>2 DEF Ordered
  <2>4. ASSUME NEW k \in Loops, NEW i \in 1..Len(queue'[k])
        PROVE  queue'[k][i].r \notin done'
    BY <1>2, <1>7, <2>1, <2>2 DEF Ordered
  <2>5. ASSUME NEW k \in Loops, NEW i \in 1..Len(queue'[k]), queue'[k][i].what = "complete"
        PROVE  ~Pending(queue[k][i].r)'
    BY <1>2, <1>7, <2>1, <2>2, <2>5 DEF Ordered
  <2>6. ASSUME NEW k \in Loops, NEW i \in 1..Len(queue'[k]), queue'[k][i].what = "complete",
               NEW j \in 1..Len(queue'[k]), i < j
        PROVE  queue'[k][j].r # queue'[k][i].r
    <3>1. i \in 1..Len(queue[k]) /\ queue'[k][i] = queue[k][i]
      BY <1>6, <1>7, <2>6
    <3>2. ~Pending(queue[k][i].r)
      BY <2>1, <2>6, <3>1 DEF Ordered
    <3>3. CASE j \in 1..Len(queue[k]) /\ queue'[k][j] = queue[k][j]
      BY <2>1, <2>6, <3>1, <3>3 DEF Ordered
    <3>4. CASE queue'[k][j] = signal
      BY <2>2, <3>1, <3>2, <3>4
    <3> QED BY <1>7, <3>3, <3>4
  <2> QED BY <2>2, <2>3, <2>4, <2>5, <2>6 DEF Ordered
<1> QED BY <1>8, <1>9, <1>10

LEMMA HandleHereOrder ==
    ASSUME IInv, OrderInv, HandleHere
    PROVE  OrderInv'
<1> USE DEF IInv, OrderInv, HandleHere, Emitting, loopVars, lookupVars
<1>1. PICK signal : signal = Head(emits)
  OBVIOUS
<1>2. /\ signal \in Signals /\ Listener \in Loops /\ emits # <<>> /\ emits' = Tail(emits)
      /\ owner[signal.r] = Listener /\ lent = None
      /\ UNCHANGED <<mRequests, requests, thread, owner, pc, queue, latest, abandoned, failures, lent>>
  BY <1>1, HeadOwned DEF TypeOK, Listener
<1>3. done' = done \/ (signal.what = "complete" /\ done' = done \cup {signal.r})
  BY <1>1 DEF Handle
<1>4. queue[Listener] = <<>>
  BY <1>2 DEF Accounted
<1> HIDE DEF HandleHere
<1>5. \A k \in Loops : \A i \in 1..Len(queue[k]) : queue[k][i].r # signal.r
  <2>1. ASSUME NEW k \in Loops, NEW i \in 1..Len(queue[k]), queue[k][i].r = signal.r PROVE FALSE
    <3>1. k = Listener
      BY <1>2, <2>1 DEF Numbered
    <3> QED BY <1>4, <3>1
  <2> QED BY <2>1
<1>6. Numbered'
  <2>1. signal.r \in Requests /\ owner[signal.r] # None
    BY <1>2, ResolverAssumption DEF Signals
  <2> QED BY <1>2, <1>3, <2>1 DEF Numbered
<1>7. Accounted'
  BY <1>2, <1>3 DEF Accounted
<1>8. ASSUME failures' = 0 PROVE Underway' /\ Ordered'
  <2>1. failures = 0
    BY <1>2, <1>8
  <2>2. /\ Underway'
        /\ \A r : Pending(r)' => Pending(r)
        /\ signal.what = "complete" => ~Pending(signal.r)'
    BY <1>1, <1>2, <2>1, TailUnderway
  <2>3. \A r \in done' : ~Pending(r)'
    BY <1>3, <2>1, <2>2 DEF Ordered
  <2>4. ASSUME NEW k \in Loops, NEW i \in 1..Len(queue[k])
        PROVE  queue[k][i].r \notin done'
    BY <1>3, <1>5, <2>1 DEF Ordered
  <2> QED BY <1>2, <2>1, <2>2, <2>3, <2>4 DEF Ordered
<1> QED BY <1>6, <1>7, <1>8

LEMMA NextOrder == IInv /\ OrderInv /\ [Next]_vars => OrderInv'
<1> SUFFICES ASSUME IInv, OrderInv, [Next]_vars PROVE OrderInv'
  OBVIOUS
<1>1. CASE ResolverThread
  BY <1>1, TakeOrder, AnswerOrder, CompleteOrder, PassEndsOrder, SendToLoopOrder, HandleHereOrder
     DEF ResolverThread
<1>2. CASE \E l \in Loops : Connect(l) \/ RunHandler(l) \/ Close(l) \/ DropSocket(l)
  BY <1>2, ConnectOrder, RunHandlerOrder, CloseOrder
<1>3. CASE \E l \in Loops : Release(l) \/ Joined(l)
  BY <1>3, ReleaseOrder, JoinedOrder
<1>4. CASE UNCHANGED vars
  <2>1. UNCHANGED <<queue, mRequests, thread, requests, emits, done, owner, lent, latest, abandoned, pc, failures>>
    BY <1>4 DEF vars, loopVars, socketVars, lookupVars, historyVars
  <2>2. \A r : Pending(r)' = Pending(r)
    BY <2>1 DEF Pending
  <2>3. Numbered' = Numbered
    BY <2>1 DEF Numbered
  <2>4. Accounted' = Accounted
    BY <2>1 DEF Accounted
  <2>5. Underway' = Underway
    BY <2>1 DEF Underway
  <2>6. Ordered => Ordered'
    BY <2>1, <2>2 DEF Ordered
  <2>7. failures' = failures
    BY <2>1
  <2> QED BY <2>3, <2>4, <2>5, <2>6, <2>7 DEF OrderInv
<1> QED BY <1>1, <1>2, <1>3, <1>4 DEF Next

\* Each request is on its way once, and nothing of it follows its end.
THEOREM SignalsInOrder == Spec => []OrderInv
<1> QED BY InitOrder, NextOrder, Invariance, PTL DEF Spec

\* A socket starts an attempt for the host it was asked for last, or for one the
\* program has given up, and never for a request whose end it has heard of, as
\* long as select() works.
THEOREM AttemptsStayCurrent == Spec => AttemptsAreCurrent
<1> DEFINE Good ==
      \A l \in Loops, f \in Addresses :
          LET r == attempt'[l][f]
          IN  r \notin {None, attempt[l][f]} /\ failures = 0 =>
                  r \notin done /\ (r = latest[l] \/ r \in abandoned)
<1>1. IInv /\ OrderInv /\ [Next]_vars => [Good]_vars
  <2> SUFFICES ASSUME IInv, OrderInv, Next, NEW l \in Loops, NEW f \in Addresses,
                      attempt'[l][f] \notin {None, attempt[l][f]}, failures = 0
               PROVE  /\ attempt'[l][f] \notin done
                      /\ attempt'[l][f] = latest[l] \/ attempt'[l][f] \in abandoned
    OBVIOUS
  <2>1. ASSUME NEW k \in Loops, NEW signal \in Signals, Handle(k, signal)
        PROVE  k = l /\ attempt'[l][f] = signal.r
    BY <2>1 DEF Handle, IInv, TypeOK
  <2>2. ASSUME NEW r \in Requests, owner[r] = l, r \notin done, attempt'[l][f] = r
        PROVE  attempt'[l][f] = latest[l] \/ attempt'[l][f] \in abandoned
    BY <2>2, ResolverAssumption DEF OrderInv, Accounted
  <2>3. CASE \E k \in Loops : RunHandler(k)
    <3>1. PICK k \in Loops : RunHandler(k)
      BY <2>3
    <3>2. /\ Head(queue[k]) \in Signals /\ Head(queue[k]) = queue[k][1] /\ 1 \in 1..Len(queue[k])
          /\ Handle(k, Head(queue[k]))
      BY <3>1 DEF RunHandler, IInv, TypeOK
    <3>3. k = l /\ attempt'[l][f] = queue[k][1].r
      BY <2>1, <3>2
    <3>4. owner[queue[k][1].r] = l /\ queue[k][1].r \notin done
      BY <3>2, <3>3 DEF OrderInv, Numbered, Ordered
    <3> QED BY <2>2, <3>2, <3>3, <3>4 DEF Signals
  <2>4. CASE HandleHere
    <3>1. Listener \in Loops /\ Head(emits) \in Signals /\ Handle(Listener, Head(emits))
          /\ Head(emits) = emits[1] /\ 1 \in 1..Len(emits)
      BY <2>4, HeadOwned DEF HandleHere, Emitting, IInv, TypeOK
    <3>2. Listener = l /\ attempt'[l][f] = emits[1].r
      BY <2>1, <3>1
    <3>3. owner[emits[1].r] = l /\ Pending(emits[1].r) /\ emits[1].r \notin done
      BY <3>1, <3>2 DEF Listener, OrderInv, Ordered, Pending
    <3> QED BY <2>2, <3>1, <3>2, <3>3 DEF Signals
  <2>5. CASE ~(\E k \in Loops : RunHandler(k)) /\ ~HandleHere
    <3>1. attempt'[l][f] = attempt[l][f] \/ attempt'[l][f] = None
      BY <2>5 DEF Next, ResolverThread, Take, Answer, Complete, PassEnds, LockLoop, SendToLoop,
                  Connect, Close, DropSocket, Release, Joined, socketVars, IInv, TypeOK
    <3> QED BY <3>1
  <2> QED BY <2>3, <2>4, <2>5
<1> QED BY <1>1, Invariance, SignalsInOrder, PTL DEF Spec, AttemptsAreCurrent

-----------------------------------------------------------------------------
(* The TLS session *)

ReadWaits == {"SSLReadWaitingForRead", "SSLReadWaitingForWrite"}
OpNames   == {"watch", "drop", "dropOther", "startTLS", "connectTLS", "afterConnect", "close",
              "fdRead", "fdWrite", "read", "reads", "retryWrite", "mayWrite", "write",
              "onState", "onData"}

\* The types of the variables but those below.
TlsTyped ==
    /\ mState \in {"Idle", "Connecting", "Handshaking", "Connected", "Closed", "Error"}
    /\ connects \in 0..MaxConnects /\ mFd \in 0..connects /\ bio \in 0..connects
    /\ readWaitState \in {"SSLNotWaiting"} \cup ReadWaits /\ writeWaitState \in Waits
    /\ stack \in Seq(Ops) /\ tlsFailed \in {"none", "session", "wait", "no fd", "two"}
    /\ hs \in Nat /\ flights \in 0..Flights
    /\ conn \in {"none"} \cup Conns
    /\ inbox \in Seq({"flight", "data"}) /\ want \in SUBSET {"in", "out"}

\* The session comes and goes with the mode.
Flags ==
    /\ mMode \in {"Plain", "TLS"} /\ session \in BOOLEAN /\ (session <=> mMode = "TLS")
    /\ room \in BOOLEAN /\ ready \in BOOLEAN /\ asked \in BOOLEAN
    /\ resent \in BOOLEAN /\ unread \in BOOLEAN /\ crowded \in BOOLEAN
    /\ closed \in BOOLEAN /\ inside \in BOOLEAN /\ late \in BOOLEAN

\* Buffers are numbered as they are written.
WriteLists ==
    /\ writes \in 0..MaxWrites
    /\ mPendingWrites \in Seq(1..writes) /\ wpend \in 0..writes
    /\ out \in Seq(1..writes) /\ plain \in Seq(1..writes)

\* What goes when the descriptor goes, and what begins with a session.
Descriptor ==
    /\ mFd = 0 => conn = "none" /\ inbox = <<>> /\ want = {} /\ ~ready
    /\ mFd # 0 => session
    /\ bio = 0 => hs = 0 /\ flights = 0 /\ ~asked /\ inbox = <<>>
    /\ ~session => bio = 0
    /\ connects = 0 => mState = "Idle" /\ stack = <<>>

\* The flights of a handshake: each comes after the one before has been read.
Handshake ==
    /\ hs <= flights
    /\ asked => flights < Flights
    /\ conn = "reset" => inbox = <<>>
    /\ Live /\ conn # "reset" =>
         \/ /\ inbox # <<>> /\ inbox[1] = "flight" /\ hs + 1 = flights /\ ~asked
            /\ \A i \in 2..Len(inbox) : inbox[i] = "data"
            /\ Len(inbox) > 1 => flights = Flights
         \/ /\ \A i \in 1..Len(inbox) : inbox[i] = "data"
            /\ hs = flights
            /\ inbox # <<>> => flights = Flights

\* An attempt that no call of the program has disturbed: only the first one is
\* sure of its place when close() was called.
Fresh == ~closed \/ connects <= 1

\* A step that is to be taken at once, or after the program is told.
Soon(i) == i <= 2 /\ (i = 2 => stack[1].op = "onState")

\* connectTLS goes on with a handshake.
TakesTLS ==
    /\ mState # "Connected"
    /\ Fresh => mState = "Handshaking"
    /\ ~closed => Live

\* What is to be done with the descriptor is done soon.
Prompt(i) ==
    /\ Fresh /\ stack[i].op = "startTLS" => Soon(i) /\ mState = "Handshaking"
    /\ ~closed =>
          /\ stack[i].op = "startTLS" => Soon(i) /\ mFd # 0 /\ (late \/ bio = 0)
          /\ stack[i].op = "drop" => Soon(i) /\ mFd # 0 /\ bio = 0
          /\ stack[i].op = "close" => Soon(i) /\ mFd # 0 /\ mState \in {"Closed", "Error"}
          /\ stack[i].op = "drop" => mState = "Error"

Steps ==
    /\ \A i \in 2..Len(stack) : stack[i].op \notin {"fdRead", "connectTLS", "read"}
    /\ stack # <<>> /\ stack[1].op = "connectTLS" => TakesTLS
    /\ \A i \in 1..Len(stack) : Prompt(i)

\* How far the attempt has come.
Stages ==
    /\ session /\ bio = 0 => mState # "Connected"
    /\ ~closed =>
          /\ mFd = 0 => mState \in {"Idle", "Closed", "Error"} /\ bio = 0
          /\ bio \in {0, mFd} /\ (mState = "Connecting" => bio = 0)
          /\ mState = "Handshaking" /\ bio = 0 => \E i \in 1..Len(stack) : stack[i].op = "startTLS"

\* A write waits as a read does, and what the failed assertion has found.
WaitStates ==
    /\ mState = "Connected" => writeWaitState \in {"SSLNotWaiting"} \cup ReadWaits
    /\ writeWaitState \in ReadWaits => writes > 0
    /\ tlsFailed = "session" => closed \/ late
    /\ tlsFailed = "wait" => mState = "Connected" /\ writeWaitState # "SSLNotWaiting"
    /\ tlsFailed = "no fd" => closed

\* What has been sent and what is pending, and who goes on with it.
Sending ==
    /\ ~resent /\ plain = <<>> => out \o mPendingWrites = [i \in 1..writes |-> i]
    /\ mState = "Connected" /\ mFd # 0 /\ mPendingWrites # <<>> =>
          writeWaitState \in ReadWaits \/ \E i \in 1..Len(stack) : stack[i].op = "write"

\* In the first connection, a session that has been given up without close().
GivenUp ==
    ~closed /\ connects <= 1 =>
      /\ plain # <<>> => mFd = 0 /\ mState = "Error"
      /\ \A i \in 1..Len(stack) :
          /\ stack[i].op \in {"retryWrite", "mayWrite"} => mState = "Connected" \/ mFd = 0
          /\ stack[i].op = "write" /\ stack[i].fd # 0 =>
              /\ mState \in {"Connected", "Error"}
              /\ \A j \in 1..Len(stack) : j < i => stack[j].op \in {"onState", "onData", "write"}

\* What a read finds.
Reads ==
    /\ mState = "Connected" /\ mFd # 0 => bio = mFd /\ hs = Flights
    /\ ~crowded => Len(inbox) <= 1 /\ (conn = "shut" => inbox = <<>>)
    /\ connects <= 1 /\ (mState \in {"Idle", "Connecting", "Handshaking"} \/ unread) =>
          /\ readWaitState = "SSLNotWaiting"
          /\ \A i \in 1..Len(stack) : stack[i].op \notin {"read", "reads"}
    /\ mState = "Connected" /\ mFd # 0 /\ readWaitState = "SSLReadWaitingForWrite" /\ connects <= 1
         => "out" \in want \/ (stack # <<>> /\ stack[1].op = "read")

\* Who will read what is there.
Readers ==
   mState = "Connected" /\ ~ready /\ ~unread /\ ~crowded /\ (inbox # <<>> \/ conn = "shut") =>
     \/ /\ readWaitState = "SSLReadWaitingForWrite"
        /\ \/ ~room \/ connects > 1
           \/ \E i \in 1..Len(stack) : stack[i].op = "fdWrite" /\ stack[i].fd = mFd
           \/ stack # <<>> /\ stack[1].op = "read"
     \/ /\ readWaitState = "SSLReadWaitingForRead"
        /\ stack # <<>> /\ stack[1].op \in {"fdRead", "read"}
     \/ /\ readWaitState = "SSLNotWaiting"
        /\ stack # <<>>
        /\ stack[1].op = "fdRead" \/ \E i \in 1..Len(stack) : stack[i].op = "reads"

\* What is known of the first attempt, or of the one that has the session.
SessionInv ==
    TlsTyped /\ Flags /\ WriteLists /\ Descriptor /\ Handshake /\ Steps /\ Stages /\ WaitStates
    /\ Sending /\ GivenUp /\ Reads /\ Readers

\* The attempt of the other family, which is there beside one of the first.
Others ==
    \/ other = NoOther
    \/ /\ other \in [fd : 1..connects, conn : Conns, want : SUBSET {"in", "out"}, ready : BOOLEAN]
       /\ mFd # 0 /\ other.fd # mFd /\ connects >= 2

\* The other attempt is about to be removed.
Leaves == \E i \in 1..Len(stack) : stack[i].op = "dropOther"

\* Beside the attempt that has the session it is about to be removed, before the
\* handshake has begun, unless it was the later one.
Aside ==
    /\ other # NoOther /\ bio # 0 /\ ~late => Leaves
    /\ other # NoOther => \A i \in 1..Len(stack) :
          /\ stack[i].op # "drop"
          /\ stack[i].op \in {"read", "reads"} => late
          /\ stack[i].op = "startTLS" => late \/ Leaves
    /\ Leaves =>
          /\ mState # "Connected"
          /\ stack[1].op = "connectTLS" => flights = 0 /\ ~asked
          /\ \A i \in 1..Len(stack) : stack[i].op \notin {"fdRead", "fdWrite"}
    /\ tlsFailed = "two" => other # NoOther /\ late

\* What is known of a socket whose handshake has not begun.
Unbegun ==
    /\ mState = "Idle" => connects = 0
    /\ mState = "Connecting" => bio = 0 /\ \A i \in 1..Len(stack) : stack[i].op # "startTLS"
    /\ \A i \in 1..Len(stack) : stack[i].op = "fdWrite" => stack[i].fd # 0

OtherInv == Others /\ Aside /\ Unbegun

\* A descriptor has a connection, or what has become of it.
Known == mFd # 0 => conn # "none"

TlsInv == SessionInv /\ OtherInv /\ Known

-----------------------------------------------------------------------------
(* The stack *)

\* What is assumed of the constants.
LEMMA TlsBounds ==
    MaxConnects \in Nat /\ MaxWrites \in Nat /\ Flights \in Nat \ {0}
BY TcpTlsAssumption

\* Sequences of two and of three.
LEMMA PairIs ==
    ASSUME NEW x, NEW y
    PROVE  <<x>> \o <<y>> = <<x, y>>
<1> DEFINE T == {x, y}
           s == <<x>> \o <<y>>
           t == <<x, y>>
<1>1. s \in Seq(T) /\ Len(s) = 2 /\ s[1] = x /\ s[2] = y
  OBVIOUS
<1>2. t \in Seq(T) /\ Len(t) = 2 /\ t[1] = x /\ t[2] = y
  OBVIOUS
<1> HIDE DEF T, s, t
<1>3. \A i \in 1..Len(s) : s[i] = t[i]
  BY <1>1, <1>2
<1>4. s = t
  BY <1>1, <1>2, <1>3, SeqEqual
<1> QED BY <1>4 DEF s, t

LEMMA TripleIs ==
    ASSUME NEW x, NEW y, NEW z
    PROVE  <<x>> \o <<y, z>> = <<x, y, z>>
<1> DEFINE T == {x, y, z}
           s == <<x>> \o <<y, z>>
           t == <<x, y, z>>
<1>1. s \in Seq(T) /\ Len(s) = 3 /\ s[1] = x /\ s[2] = y /\ s[3] = z
  OBVIOUS
<1>2. t \in Seq(T) /\ Len(t) = 3 /\ t[1] = x /\ t[2] = y /\ t[3] = z
  OBVIOUS
<1> HIDE DEF T, s, t
<1>3. \A i \in 1..Len(s) : s[i] = t[i]
  BY <1>1, <1>2
<1>4. s = t
  BY <1>1, <1>2, <1>3, SeqEqual
<1> QED BY <1>4 DEF s, t

\* What was below the first step is now below n steps.
Placed(n) ==
    /\ stack # <<>> /\ Len(stack) \in Nat \ {0}
    /\ stack' \in Seq(Ops) /\ Len(stack') = n + Len(stack) - 1
    /\ \A i \in (n + 1)..(n + Len(stack) - 1) : stack'[i] = stack[i - n + 1]

\* A sequence without its first element.
LEMMA TailIs ==
    ASSUME NEW T, NEW s \in Seq(T), s # <<>>
    PROVE  /\ Tail(s) \in Seq(T) /\ Len(Tail(s)) = Len(s) - 1 /\ Len(s) \in Nat /\ Len(s) >= 1
           /\ \A i \in 1..(Len(s) - 1) : Tail(s)[i] = s[i + 1]
           /\ Head(s) = s[1] /\ s[1] \in T
<1>1. Len(s) \in Nat /\ Len(s) # 0 /\ \A i \in 1..Len(s) : s[i] \in T
  BY EmptySeq, LenProperties, ElementOfSeq
<1>2. Head(s) = s[1]
  OBVIOUS
<1> QED BY <1>1, <1>2, HeadTailProperties

\* And with others in its place.
LEMMA InPlaceOf ==
    ASSUME NEW T, NEW s \in Seq(T), s # <<>>, NEW p \in Seq(T)
    PROVE  /\ p \o Tail(s) \in Seq(T) /\ Len(p \o Tail(s)) = Len(p) + Len(s) - 1
           /\ \A i \in 1..Len(p) : (p \o Tail(s))[i] = p[i]
           /\ \A i \in (Len(p) + 1)..(Len(p) + Len(s) - 1) : (p \o Tail(s))[i] = s[i - Len(p) + 1]
<1> DEFINE r == Tail(s)
<1>1. /\ r \in Seq(T) /\ Len(r) = Len(s) - 1 /\ Len(s) \in Nat /\ Len(s) >= 1 /\ Len(p) \in Nat
      /\ \A i \in 1..(Len(s) - 1) : r[i] = s[i + 1]
  BY TailIs, LenProperties
<1> HIDE DEF r
<1>2. /\ p \o r \in Seq(T) /\ Len(p \o r) = Len(p) + Len(r)
      /\ \A i \in 1..(Len(p) + Len(r)) : (p \o r)[i] = IF i <= Len(p) THEN p[i] ELSE r[i - Len(p)]
  BY <1>1, ConcatProperties
<1>3. \A i \in 1..Len(p) : (p \o r)[i] = p[i]
  BY <1>1, <1>2
<1>4. ASSUME NEW i \in (Len(p) + 1)..(Len(p) + Len(s) - 1) PROVE (p \o r)[i] = s[i - Len(p) + 1]
  <2>1. i \in 1..(Len(p) + Len(r)) /\ ~(i <= Len(p)) /\ i - Len(p) \in 1..(Len(s) - 1)
    BY <1>1
  <2>2. (p \o r)[i] = r[i - Len(p)]
    BY <1>2, <2>1
  <2>3. r[i - Len(p)] = s[i - Len(p) + 1]
    BY <1>1, <2>1
  <2> QED BY <2>2, <2>3
<1> QED BY <1>1, <1>2, <1>3, <1>4 DEF r

\* The descriptor of the callback is one of the attempts'.
LEMMA FdIs ==
    ASSUME TlsTyped, Others
    PROVE  Fd \in 0..MaxConnects /\ (mFd = 0 => Fd = 0)
<1>1. connects \in 0..MaxConnects /\ mFd \in 0..connects
  BY DEF TlsTyped
<1>2. CASE other = NoOther
  BY <1>1, <1>2, TlsBounds DEF Fd, NoOther
<1>3. CASE other # NoOther
  <2>1. other.fd \in 1..connects /\ mFd # 0
    BY <1>3 DEF Others
  <2> QED BY <1>1, <2>1, TlsBounds DEF Fd
<1> QED BY <1>2, <1>3

\* These have taken the place of the first step.
LEMMA ThenIs ==
    ASSUME TlsTyped, Others, stack # <<>>, NEW ops \in Seq(OpNames), Then(ops)
    PROVE  /\ stack' \in Seq(Ops) /\ Len(stack') = Len(ops) + Len(stack) - 1
           /\ \A i \in 1..Len(ops) : stack'[i].op = ops[i] /\ stack'[i].fd = Fd
           /\ \A i \in (Len(ops) + 1)..(Len(ops) + Len(stack) - 1) : stack'[i] = stack[i - Len(ops) + 1]
<1> DEFINE p == [i \in 1..Len(ops) |-> [op |-> ops[i], fd |-> Fd]]
<1>1. Len(ops) \in Nat /\ \A i \in 1..Len(ops) : ops[i] \in OpNames
  BY LenProperties, ElementOfSeq
<1>2. Fd \in 0..MaxConnects /\ stack \in Seq(Ops)
  BY FdIs DEF TlsTyped
<1>3. \A i \in 1..Len(ops) : p[i] = [op |-> ops[i], fd |-> Fd]
  OBVIOUS
<1>4. \A i \in 1..Len(ops) : p[i] \in Ops
  BY <1>1, <1>2, <1>3 DEF Ops, OpNames
<1>5. p \in Seq(Ops) /\ Len(p) = Len(ops)
  <2>1. p \in [1..Len(ops) -> Ops]
    BY <1>4
  <2> QED BY <1>1, <2>1, SeqDef, LenProperties
<1>6. stack' = p \o Tail(stack)
  BY DEF Then
<1>8. \A i \in 1..Len(ops) : p[i].op = ops[i] /\ p[i].fd = Fd
  OBVIOUS
<1> HIDE DEF p
<1>7. /\ stack' \in Seq(Ops) /\ Len(stack') = Len(p) + Len(stack) - 1
      /\ \A i \in 1..Len(p) : stack'[i] = p[i]
      /\ \A i \in (Len(p) + 1)..(Len(p) + Len(stack) - 1) : stack'[i] = stack[i - Len(p) + 1]
  <2>1. stack \in Seq(Ops) /\ stack # <<>> /\ p \in Seq(Ops)
    BY <1>2, <1>5
  <2>2. /\ p \o Tail(stack) \in Seq(Ops) /\ Len(p \o Tail(stack)) = Len(p) + Len(stack) - 1
        /\ \A i \in 1..Len(p) : (p \o Tail(stack))[i] = p[i]
        /\ \A i \in (Len(p) + 1)..(Len(p) + Len(stack) - 1) :
              (p \o Tail(stack))[i] = stack[i - Len(p) + 1]
    BY <2>1, InPlaceOf
  <2> QED BY <1>6, <2>2
<1> QED BY <1>5, <1>7, <1>8

\* The same for no step, one, two and three of them.
LEMMA ThenNone ==
    ASSUME TlsTyped, Others, stack # <<>>, Then(<<>>)
    PROVE  Placed(0)
<1>2. Len(stack) \in Nat /\ Len(stack) >= 1
  BY TailIs DEF TlsTyped
<1> DEFINE e == <<>>
<1>3. e \in Seq(OpNames) /\ Len(e) = 0 /\ Then(e)
  OBVIOUS
<1> HIDE DEF e
<1>4. /\ stack' \in Seq(Ops) /\ Len(stack') = Len(e) + Len(stack) - 1
      /\ \A i \in (Len(e) + 1)..(Len(e) + Len(stack) - 1) : stack'[i] = stack[i - Len(e) + 1]
  BY <1>3, ThenIs
<1> QED BY <1>2, <1>3, <1>4 DEF Placed

LEMMA ThenOne ==
    ASSUME TlsTyped, Others, stack # <<>>, NEW a \in OpNames, Then(<<a>>)
    PROVE  Placed(1) /\ stack'[1].op = a /\ stack'[1].fd = Fd
<1> DEFINE e == <<a>>
<1>1. e \in Seq(OpNames) /\ Len(e) = 1 /\ e[1] = a /\ Then(e)
  OBVIOUS
<1>2. Len(stack) \in Nat /\ Len(stack) >= 1
  BY TailIs DEF TlsTyped
<1> HIDE DEF e
<1>3. /\ stack' \in Seq(Ops) /\ Len(stack') = Len(e) + Len(stack) - 1
      /\ \A i \in 1..Len(e) : stack'[i].op = e[i] /\ stack'[i].fd = Fd
      /\ \A i \in (Len(e) + 1)..(Len(e) + Len(stack) - 1) : stack'[i] = stack[i - Len(e) + 1]
  BY <1>1, ThenIs
<1> QED BY <1>1, <1>2, <1>3 DEF Placed

LEMMA ThenTwo ==
    ASSUME TlsTyped, Others, stack # <<>>, NEW a \in OpNames, NEW b \in OpNames, Then(<<a, b>>)
    PROVE  /\ Placed(2)
           /\ stack'[1].op = a /\ stack'[1].fd = Fd /\ stack'[2].op = b /\ stack'[2].fd = Fd
<1> DEFINE e == <<a, b>>
<1>1. e \in Seq(OpNames) /\ Len(e) = 2 /\ e[1] = a /\ e[2] = b /\ Then(e)
  OBVIOUS
<1>2. Len(stack) \in Nat /\ Len(stack) >= 1
  BY TailIs DEF TlsTyped
<1> HIDE DEF e
<1>3. /\ stack' \in Seq(Ops) /\ Len(stack') = Len(e) + Len(stack) - 1
      /\ \A i \in 1..Len(e) : stack'[i].op = e[i] /\ stack'[i].fd = Fd
      /\ \A i \in (Len(e) + 1)..(Len(e) + Len(stack) - 1) : stack'[i] = stack[i - Len(e) + 1]
  BY <1>1, ThenIs
<1> QED BY <1>1, <1>2, <1>3 DEF Placed

LEMMA ThenThree ==
    ASSUME TlsTyped, Others, stack # <<>>, NEW a \in OpNames, NEW b \in OpNames, NEW c \in OpNames,
           Then(<<a, b, c>>)
    PROVE  /\ Placed(3)
           /\ stack'[1].op = a /\ stack'[1].fd = Fd /\ stack'[2].op = b /\ stack'[2].fd = Fd
           /\ stack'[3].op = c /\ stack'[3].fd = Fd
<1> DEFINE e == <<a, b, c>>
<1>1. e \in Seq(OpNames) /\ Len(e) = 3 /\ e[1] = a /\ e[2] = b /\ e[3] = c /\ Then(e)
  OBVIOUS
<1>2. Len(stack) \in Nat /\ Len(stack) >= 1
  BY TailIs DEF TlsTyped
<1> HIDE DEF e
<1>3. /\ stack' \in Seq(Ops) /\ Len(stack') = Len(e) + Len(stack) - 1
      /\ \A i \in 1..Len(e) : stack'[i].op = e[i] /\ stack'[i].fd = Fd
      /\ \A i \in (Len(e) + 1)..(Len(e) + Len(stack) - 1) : stack'[i] = stack[i - Len(e) + 1]
  BY <1>1, ThenIs
<1> QED BY <1>1, <1>2, <1>3 DEF Placed

\* A step is one of the new ones, or was there.
LEMMA Below ==
    ASSUME NEW n \in 0..3, Placed(n), NEW j \in 1..Len(stack')
    PROVE  \/ j \in 1..n
           \/ /\ j \notin 1..n /\ j - n + 1 \in 2..Len(stack) /\ j - n + 1 \in 1..Len(stack)
              /\ stack'[j] = stack[j - n + 1]
<1>1. Len(stack) \in Nat \ {0} /\ Len(stack') = n + Len(stack) - 1
  BY DEF Placed
<1>2. j \in 1..n \/ j \in (n + 1)..(n + Len(stack) - 1)
  BY <1>1
<1>3. j \in (n + 1)..(n + Len(stack) - 1)
      => j \notin 1..n /\ j - n + 1 \in 2..Len(stack) /\ j - n + 1 \in 1..Len(stack)
  BY <1>1
<1>4. j \in (n + 1)..(n + Len(stack) - 1) => stack'[j] = stack[j - n + 1]
  BY DEF Placed
<1> QED BY <1>2, <1>3, <1>4

\* And what was there, but the first, is.
LEMMA StillThere ==
    ASSUME NEW n \in 0..3, Placed(n), NEW k \in 2..Len(stack)
    PROVE  \E i \in 1..Len(stack') : stack'[i] = stack[k]
<1>1. Len(stack) \in Nat \ {0} /\ Len(stack') = n + Len(stack) - 1
  BY DEF Placed
<1> DEFINE i == k + n - 1
<1>2. i \in (n + 1)..(n + Len(stack) - 1) /\ i \in 1..Len(stack') /\ i - n + 1 = k
  BY <1>1
<1> HIDE DEF i
<1>3. stack'[i] = stack[i - n + 1]
  BY <1>2 DEF Placed
<1> QED BY <1>2, <1>3

\* These are on top of the stack.
LEMMA OnTop ==
    ASSUME TlsTyped, NEW p \in Seq(Ops), stack' = p \o stack
    PROVE  /\ stack' \in Seq(Ops) /\ Len(stack) \in Nat /\ Len(stack') = Len(p) + Len(stack)
           /\ \A i \in 1..Len(p) : stack'[i] = p[i]
           /\ \A i \in (Len(p) + 1)..(Len(p) + Len(stack)) : stack'[i] = stack[i - Len(p)]
<1>1. stack \in Seq(Ops) /\ Len(p) \in Nat /\ Len(stack) \in Nat
  BY LenProperties DEF TlsTyped
<1>2. /\ p \o stack \in Seq(Ops) /\ Len(p \o stack) = Len(p) + Len(stack)
      /\ \A i \in 1..(Len(p) + Len(stack)) :
            (p \o stack)[i] = IF i <= Len(p) THEN p[i] ELSE stack[i - Len(p)]
  BY <1>1, ConcatProperties
<1> QED BY <1>1, <1>2

-----------------------------------------------------------------------------
(* What a step that replaces the first one keeps *)

\* What was to be done soon is still to be done so.
LEMMA StepsMoved ==
    ASSUME Steps, NEW n \in 0..3, Placed(n), UNCHANGED <<closed, late, connects>>,
           stack[1].op = "onState" => n = 0 /\ UNCHANGED <<mState, bio, mFd>>,
           \A i \in 1..n : stack'[i].op # "fdRead" /\ Prompt(i)',
           \A i \in 2..n : stack'[i].op \notin {"read", "connectTLS"},
           n # 0 /\ stack'[1].op = "connectTLS" => TakesTLS'
    PROVE  Steps'
<1>1. Len(stack) \in Nat \ {0} /\ Len(stack') = n + Len(stack) - 1
  BY DEF Placed
<1>2. ASSUME NEW i \in 1..Len(stack')
      PROVE  i \in 1..n \/ (i \notin 1..n /\ i - n + 1 \in 2..Len(stack) /\ stack'[i] = stack[i - n + 1])
  <2>1. i \in 1..n \/ i \in (n + 1)..(n + Len(stack) - 1)
    BY <1>1
  <2>2. i \in (n + 1)..(n + Len(stack) - 1) => i \notin 1..n /\ i - n + 1 \in 2..Len(stack)
    BY <1>1
  <2>3. i \in (n + 1)..(n + Len(stack) - 1) => stack'[i] = stack[i - n + 1]
    BY DEF Placed
  <2> QED BY <2>1, <2>2, <2>3
<1>3. Fresh' <=> Fresh
  BY DEF Fresh
<1>4. ASSUME NEW i \in 2..Len(stack')
      PROVE  stack'[i].op \notin {"fdRead", "connectTLS", "read"}
  <2>1. i \in 1..Len(stack') /\ (i \in 1..n => i \in 2..n)
    BY <1>1
  <2> QED BY <1>2, <2>1 DEF Steps
<1>5. stack' # <<>> /\ stack'[1].op = "connectTLS" => TakesTLS'
  <2> SUFFICES ASSUME stack' # <<>>, stack'[1].op = "connectTLS" PROVE TakesTLS'
    OBVIOUS
  <2>1. 1 \in 1..Len(stack')
    <3>1. Len(stack') # 0
      BY EmptySeq DEF Placed
    <3> QED BY <1>1, <3>1
  <2>2. 1 \in 1..n
    BY <1>2, <2>1 DEF Steps
  <2> QED BY <2>2
<1>6. ASSUME NEW i \in 1..Len(stack'), i \notin 1..n PROVE Prompt(i)'
  <2>1. i - n + 1 \in 2..Len(stack) /\ stack'[i] = stack[i - n + 1]
    BY <1>2, <1>6
  <2> DEFINE k == i - n + 1
  <2>2. k \in 1..Len(stack) /\ k \in 2..Len(stack) /\ k = i - n + 1 /\ stack'[i] = stack[k]
    BY <1>1, <2>1
  <2> HIDE DEF k
  <2>3. Prompt(k) /\ (Soon(k) => k = 2 /\ stack[1].op = "onState")
    BY <2>2 DEF Steps, Soon
  <2>4. CASE ~Soon(k)
    BY <1>3, <2>2, <2>3, <2>4 DEF Prompt
  <2>5. CASE Soon(k)
    <3>1. k = 2 /\ n = 0 /\ UNCHANGED <<mState, bio, mFd>>
      BY <2>3, <2>5
    <3>2. i = 1
      BY <1>1, <2>2, <3>1
    <3> QED BY <1>3, <2>2, <2>3, <2>5, <3>1, <3>2 DEF Prompt, Soon
  <2> QED BY <2>4, <2>5
<1> QED BY <1>4, <1>5, <1>6 DEF Steps

\* Nothing new begins: what was to be done soon is still to be done so.
LEMMA StepsKept ==
    ASSUME Steps, NEW n \in 0..3, Placed(n),
           stack[1].op = "onState" => n = 0 /\ UNCHANGED <<mState, bio, mFd>>,
           \A i \in 1..n : stack'[i].op \notin {"fdRead", "connectTLS", "startTLS", "drop", "close"},
           \A i \in 2..n : stack'[i].op # "read",
           UNCHANGED <<closed, late, connects>>
    PROVE  Steps'
<1>1. \A i \in 1..n : stack'[i].op # "fdRead" /\ Prompt(i)'
  BY DEF Prompt
<1>2. \A i \in 2..n : stack'[i].op \notin {"read", "connectTLS"}
  BY Z3
<1>3. n # 0 => stack'[1].op # "connectTLS"
  OBVIOUS
<1> QED BY <1>1, <1>2, <1>3, StepsMoved

\* How far the attempt has come.
LEMMA StagesKept ==
    ASSUME Stages, NEW n \in 0..3, Placed(n), stack[1].op # "startTLS",
           UNCHANGED <<mState, closed, mFd, bio, session>>
    PROVE  Stages'
<1>1. ASSUME NEW i \in 1..Len(stack), stack[i].op = "startTLS"
      PROVE  \E k \in 1..Len(stack') : stack'[k].op = "startTLS"
  <2>1. i \in 2..Len(stack) /\ i + n - 1 \in (n + 1)..(n + Len(stack) - 1)
    BY <1>1 DEF Placed
  <2>2. i + n - 1 \in 1..Len(stack') /\ stack'[i + n - 1] = stack[(i + n - 1) - n + 1] /\ (i + n - 1) - n + 1 = i
    BY <2>1 DEF Placed
  <2> QED BY <1>1, <2>2
<1> QED BY <1>1 DEF Stages

\* The writes that are left to do.
LEMMA SendingKept ==
    ASSUME Sending, NEW n \in 0..3, Placed(n), stack[1].op # "write",
           UNCHANGED <<resent, plain, out, mPendingWrites, writes>>,
           mState' = "Connected" /\ mFd' # 0 => mState = "Connected" /\ mFd # 0,
           writeWaitState' = writeWaitState
    PROVE  Sending'
<1>1. ASSUME NEW i \in 1..Len(stack), stack[i].op = "write"
      PROVE  \E k \in 1..Len(stack') : stack'[k].op = "write"
  <2>1. i \in 2..Len(stack) /\ i + n - 1 \in (n + 1)..(n + Len(stack) - 1)
    BY <1>1 DEF Placed
  <2>2. i + n - 1 \in 1..Len(stack') /\ stack'[i + n - 1] = stack[(i + n - 1) - n + 1] /\ (i + n - 1) - n + 1 = i
    BY <2>1 DEF Placed
  <2> QED BY <1>1, <2>2
<1> QED BY <1>1 DEF Sending

\* The steps above a write of a session that has been given up.
Handling == {"onState", "onData", "write"}

\* The steps of a session that may have been given up.
LEMMA GivenUpMoved ==
    ASSUME GivenUp, NEW n \in 0..3, Placed(n), UNCHANGED <<closed, connects>>,
           \A i \in 1..n : stack'[i].op # "write",
           ~closed /\ connects <= 1 =>
             \A i \in 1..n : stack'[i].op \in {"retryWrite", "mayWrite"} => mState' = "Connected" \/ mFd' = 0,
           stack[1].op \notin Handling \/ \A i \in 1..n : stack'[i].op \in Handling,
           ~closed /\ connects <= 1 =>
             /\ plain' # <<>> => mFd' = 0 /\ mState' = "Error"
             /\ mState = "Connected" \/ mFd = 0 => mState' = "Connected" \/ mFd' = 0
             /\ stack[1].op \in Handling /\ mState \in {"Connected", "Error"} => mState' \in {"Connected", "Error"}
    PROVE  GivenUp'
<1> SUFFICES ASSUME ~closed, connects <= 1, NEW i \in 1..Len(stack')
             PROVE  /\ stack'[i].op \in {"retryWrite", "mayWrite"} => mState' = "Connected" \/ mFd' = 0
                    /\ stack'[i].op = "write" /\ stack'[i].fd # 0 =>
                         /\ mState' \in {"Connected", "Error"}
                         /\ \A j \in 1..Len(stack') : j < i => stack'[j].op \in Handling
  BY DEF GivenUp, Handling
<1>1. Len(stack) \in Nat \ {0} /\ Len(stack') = n + Len(stack) - 1
  BY DEF Placed
<1>2. ASSUME NEW j \in 1..Len(stack')
      PROVE  j \in 1..n \/ (j \notin 1..n /\ j - n + 1 \in 2..Len(stack) /\ stack'[j] = stack[j - n + 1])
  <2>1. j \in 1..n \/ j \in (n + 1)..(n + Len(stack) - 1)
    BY <1>1
  <2>2. j \in (n + 1)..(n + Len(stack) - 1) => j \notin 1..n /\ j - n + 1 \in 2..Len(stack)
    BY <1>1
  <2>3. j \in (n + 1)..(n + Len(stack) - 1) => stack'[j] = stack[j - n + 1]
    BY DEF Placed
  <2> QED BY <2>1, <2>2, <2>3
<1>3. CASE i \in 1..n
  BY <1>3
<1>4. CASE i \notin 1..n
  <2> DEFINE k == i - n + 1
  <2>1. k \in 1..Len(stack) /\ k \in 2..Len(stack) /\ stack'[i] = stack[k] /\ k = i - n + 1
    BY <1>1, <1>2, <1>4
  <2> HIDE DEF k
  <2>2. stack'[i].op \in {"retryWrite", "mayWrite"} => mState' = "Connected" \/ mFd' = 0
    BY <2>1 DEF GivenUp
  <2>3. ASSUME stack'[i].op = "write", stack'[i].fd # 0
        PROVE  /\ mState' \in {"Connected", "Error"}
               /\ \A j \in 1..Len(stack') : j < i => stack'[j].op \in Handling
    <3>1. /\ mState \in {"Connected", "Error"}
          /\ \A j \in 1..Len(stack) : j < k => stack[j].op \in Handling
      BY <2>1, <2>3 DEF GivenUp, Handling
    <3>2. stack[1].op \in Handling
      BY <1>1, <2>1, <3>1
    <3>3. ASSUME NEW j \in 1..Len(stack'), j < i PROVE stack'[j].op \in Handling
      <4>1. CASE j \in 1..n
        BY <3>2, <4>1
      <4>2. CASE j \notin 1..n
        <5>1. j - n + 1 \in 1..Len(stack) /\ j - n + 1 < k /\ stack'[j] = stack[j - n + 1]
          BY <1>1, <1>2, <2>1, <3>3, <4>2
        <5> QED BY <3>1, <5>1
      <4> QED BY <4>1, <4>2
    <3> QED BY <3>1, <3>2, <3>3
  <2> QED BY <2>2, <2>3
<1> QED BY <1>3, <1>4

\* The same when nothing of the session changes.
LEMMA GivenUpKept ==
    ASSUME GivenUp, NEW n \in 0..3, Placed(n),
           \A i \in 1..n : stack'[i].op \notin {"retryWrite", "mayWrite", "write"},
           stack[1].op \notin Handling \/ \A i \in 1..n : stack'[i].op \in Handling,
           UNCHANGED <<closed, connects, plain, mFd, mState>>
    PROVE  GivenUp'
<1>1. ~closed /\ connects <= 1 /\ plain # <<>> => mFd = 0 /\ mState = "Error"
  BY DEF GivenUp
<1> QED BY <1>1, GivenUpMoved

\* What a read finds, when nothing is read.
LEMMA ReadsKept ==
    ASSUME Reads, NEW n \in 0..3, Placed(n), stack[1].op # "read",
           \A i \in 1..n : stack'[i].op \notin {"read", "reads"},
           UNCHANGED <<mState, mFd, bio, hs, crowded, inbox, conn, connects, readWaitState>>,
           unread' => unread, "out" \in want => "out" \in want'
    PROVE  Reads'
<1>1. ASSUME \A i \in 1..Len(stack) : stack[i].op \notin {"read", "reads"}, NEW j \in 1..Len(stack')
      PROVE  stack'[j].op \notin {"read", "reads"}
  <2>1. CASE j \in 1..n
    BY <2>1, Zenon
  <2>2. CASE j - n + 1 \in 1..Len(stack) /\ stack'[j] = stack[j - n + 1]
    BY <1>1, <2>2, Zenon
  <2> QED BY <2>1, <2>2, Below, Zenon
<1> QED BY <1>1 DEF Reads

\* Who will read, when nothing comes.
LEMMA ReadersKept ==
    ASSUME Readers, NEW n \in 0..3, Placed(n), stack[1].op \notin {"fdRead", "read", "reads"},
           stack[1].op = "fdWrite" => stack[1].fd # mFd,
           UNCHANGED <<mState, unread, crowded, inbox, conn, mFd, connects, readWaitState>>,
           room' => room, ready => ready', ready \in BOOLEAN, ready' \in BOOLEAN
    PROVE  Readers'
<1>1. ASSUME NEW i \in 1..Len(stack), stack[i] # stack[1]
      PROVE  \E k \in 1..Len(stack') : stack'[k] = stack[i]
  <2>1. i \in 2..Len(stack) /\ i + n - 1 \in (n + 1)..(n + Len(stack) - 1)
    BY <1>1 DEF Placed
  <2>2. i + n - 1 \in 1..Len(stack') /\ stack'[i + n - 1] = stack[(i + n - 1) - n + 1] /\ (i + n - 1) - n + 1 = i
    BY <2>1 DEF Placed
  <2> QED BY <2>2
<1>2. (\E i \in 1..Len(stack) : stack[i].op = "fdWrite" /\ stack[i].fd = mFd)
      => \E k \in 1..Len(stack') : stack'[k].op = "fdWrite" /\ stack'[k].fd = mFd
  BY <1>1
<1>3. (\E i \in 1..Len(stack) : stack[i].op = "reads")
      => stack' # <<>> /\ \E k \in 1..Len(stack') : stack'[k].op = "reads"
  <2> SUFFICES ASSUME NEW i \in 1..Len(stack), stack[i].op = "reads"
               PROVE  stack' # <<>> /\ \E k \in 1..Len(stack') : stack'[k].op = "reads"
    OBVIOUS
  <2>1. PICK k \in 1..Len(stack') : stack'[k] = stack[i]
    BY <1>1
  <2>2. stack' # <<>>
    <3>1. Len(stack') # 0 /\ stack' \in Seq(Ops)
      BY <2>1 DEF Placed
    <3> QED BY <3>1, EmptySeq
  <2> QED BY <2>1, <2>2
<1> QED BY <1>2, <1>3 DEF Readers

-----------------------------------------------------------------------------
(* Steps that only decide what comes next *)

\* All but the stack and what is watched; FdRead may have come.
Still ==
    /\ UNCHANGED <<mState, tlsFailed, mFd, conn, inbox, room, mMode, session, bio, hs, wpend, asked, flights,
                   readWaitState, writeWaitState, odd, mPendingWrites, out, plain, resent, crowded, data,
                   closed, inside, late, connects, writes>>
    /\ unread' \in BOOLEAN /\ (unread' => unread)

Unmoved == Still /\ UNCHANGED unread

Watches ==
    /\ want' \in SUBSET {"in", "out"} /\ ready' \in BOOLEAN
    /\ mFd = 0 => want' = want /\ ready' = ready

\* Such a step: all but what the steps of reading and writing look at.
LEMMA QuietMoved ==
    ASSUME TlsInv, Still, Watches, NEW n \in 0..3, Placed(n),
           stack[1].op \notin {"startTLS", "write"}, n = 0 \/ stack[1].op # "onState",
           \A i \in 1..n : stack'[i].op # "fdRead" /\ Prompt(i)',
           \A i \in 2..n : stack'[i].op \notin {"read", "connectTLS"},
           n # 0 /\ stack'[1].op = "connectTLS" => TakesTLS'
    PROVE  /\ TlsTyped' /\ Flags' /\ WriteLists' /\ Descriptor' /\ Handshake' /\ Steps' /\ Stages'
           /\ WaitStates' /\ Sending'
<1> USE DEF TlsInv, SessionInv, OtherInv
<1>1. TlsTyped'
  <2>1. stack' \in Seq(Ops)
    BY DEF Placed
  <2> QED BY <2>1 DEF TlsTyped, Still, Watches
<1>0. Flags'
  BY DEF Flags, Still, Watches
<1>2. WriteLists'
  BY DEF WriteLists, Still
<1>3. Descriptor'
  <2>1. connects # 0
    BY DEF Descriptor, Placed
  <2> QED BY <2>1 DEF Descriptor, Still, Watches
<1>4. Handshake'
  BY DEF Handshake, Live, Still
<1>5. Steps'
  <2>1. UNCHANGED <<mState, bio, mFd>> /\ UNCHANGED <<closed, late, connects>>
    BY DEF Still
  <2> QED BY <2>1, StepsMoved
<1>6. Stages'
  <2>1. UNCHANGED <<mState, closed, mFd, bio, session>>
    BY DEF Still
  <2> QED BY <2>1, StagesKept
<1>7. WaitStates'
  BY DEF WaitStates, Still
<1>8. Sending'
  <2>1. /\ UNCHANGED <<resent, plain, out, mPendingWrites, writes>> /\ writeWaitState' = writeWaitState
        /\ mState' = mState /\ mFd' = mFd
    BY DEF Still
  <2> QED BY <2>1, SendingKept
<1> QED BY <1>0, <1>1, <1>2, <1>3, <1>4, <1>5, <1>6, <1>7, <1>8

\* And the rest of it.
LEMMA QuietStep ==
    ASSUME TlsInv, Unmoved, Watches, NEW n \in 0..3, Placed(n),
           stack[1].op \notin {"startTLS", "write"}, n = 0 \/ stack[1].op # "onState",
           \A i \in 1..n : stack'[i].op \notin {"fdRead", "connectTLS", "startTLS", "drop", "close"},
           \A i \in 2..n : stack'[i].op # "read"
    PROVE  /\ TlsTyped' /\ Flags' /\ WriteLists' /\ Descriptor' /\ Handshake' /\ Steps' /\ Stages'
           /\ WaitStates' /\ Sending'
<1>1. \A i \in 1..n : stack'[i].op # "fdRead" /\ Prompt(i)'
  BY DEF Prompt
<1>2. \A i \in 2..n : stack'[i].op \notin {"read", "connectTLS"}
  BY Z3
<1>3. n # 0 => stack'[1].op # "connectTLS"
  OBVIOUS
<1> QED BY <1>1, <1>2, <1>3, QuietMoved DEF Unmoved

\* Where the loop's thread is.
LEMMA RunningIs ==
    ASSUME TlsTyped, NEW op, Running(op)
    PROVE  tlsFailed = "none" /\ stack # <<>> /\ stack[1].op = op
BY TailIs DEF Running, Top, TlsTyped

\* Goes(ops) in the words of the lemmas.
LEMMA GoesIs ==
    ASSUME TlsTyped, Flags, stack # <<>>, NEW ops, Goes(ops)
    PROVE  Then(ops) /\ Unmoved /\ Watches
BY DEF Goes, Unmoved, Still, Watches, fdVars, sslVars, waitVars, writeVars, quietVars, programVars, TlsTyped, Flags

\* A step, not of reading or writing, that is followed by none.
LEMMA NothingMore ==
    ASSUME TlsInv, Unmoved, Watches, Placed(0), "out" \in want => "out" \in want', ready => ready',
           stack[1].op \notin {"startTLS", "write", "fdRead", "read", "reads"},
           stack[1].op = "fdWrite" => stack[1].fd # mFd
    PROVE  SessionInv'
<1> USE DEF TlsInv, SessionInv, OtherInv
<1>1. /\ TlsTyped' /\ Flags' /\ WriteLists' /\ Descriptor' /\ Handshake' /\ Steps' /\ Stages'
      /\ WaitStates' /\ Sending'
  BY QuietStep
<1>2. GivenUp'
  <2>1. UNCHANGED <<closed, connects, plain, mFd, mState>>
    BY DEF Unmoved, Still
  <2> QED BY <2>1, GivenUpKept
<1>3. Reads'
  <2>1. UNCHANGED <<mState, mFd, bio, hs, crowded, inbox, conn, connects, readWaitState, unread>>
    BY DEF Unmoved, Still
  <2> QED BY <2>1, ReadsKept
<1>4. Readers'
  <2>1. UNCHANGED <<mState, unread, crowded, inbox, conn, mFd, connects, readWaitState>> /\ room' = room
        /\ ready \in BOOLEAN /\ ready' \in BOOLEAN
    BY DEF Unmoved, Still, Watches, TlsTyped, Flags
  <2> QED BY <2>1, ReadersKept
<1> QED BY <1>1, <1>2, <1>3, <1>4

\* connect() goes on with the descriptor's registration.
LEMMA WatchConnectStep ==
    ASSUME TlsInv, WatchConnect
    PROVE  SessionInv'
<1> USE DEF TlsInv, SessionInv, OtherInv
<1>1. stack # <<>> /\ stack[1].op = "watch"
  BY RunningIs DEF WatchConnect
<1>2. Unmoved /\ Watches /\ ("out" \in want => "out" \in want') /\ (ready => ready')
  BY DEF WatchConnect, Watch, Unmoved, Still, Watches, sslVars, waitVars, writeVars, quietVars, programVars, TlsTyped, Flags
<1>3. Placed(0)
  BY <1>1, ThenNone DEF WatchConnect
<1> QED BY <1>1, <1>2, <1>3, NothingMore

\* A handler returns.
LEMMA ReturnsStep ==
    ASSUME TlsInv, Returns
    PROVE  SessionInv'
<1> USE DEF TlsInv, SessionInv, OtherInv
<1>1. stack # <<>> /\ stack[1].op \in {"onState", "onData"}
  BY RunningIs DEF Returns
<1>2. Then(<<>>) /\ Unmoved /\ Watches
  BY <1>1, GoesIs DEF Returns
<1>3. UNCHANGED <<want, ready>>
  BY DEF Returns, Goes, fdVars
<1>4. Placed(0)
  BY <1>1, <1>2, ThenNone
<1> QED BY <1>1, <1>2, <1>3, <1>4, NothingMore

\* The next step writes.
LEMMA WriteNext ==
    ASSUME TlsInv, Unmoved, UNCHANGED <<want, ready>>, Placed(1), stack'[1].op = "write", mFd = 0 => stack'[1].fd = 0,
           stack[1].op \in {"afterConnect", "retryWrite", "mayWrite"},
           stack[1].op = "afterConnect" => mState = "Connected"
    PROVE  SessionInv'
<1> USE DEF TlsInv, SessionInv, OtherInv
<1>0. 1 \in 0..3 /\ \A i \in 1..1 : i = 1
  OBVIOUS
<1>1. /\ TlsTyped' /\ Flags' /\ WriteLists' /\ Descriptor' /\ Handshake' /\ Steps' /\ Stages'
      /\ WaitStates' /\ Sending'
  <2>1. Watches
    BY DEF Watches, TlsTyped, Flags
  <2> QED BY <1>0, <2>1, QuietStep
<1>2. GivenUp'
  <2> SUFFICES ASSUME ~closed, connects <= 1, NEW i \in 1..Len(stack')
               PROVE  /\ stack'[i].op \in {"retryWrite", "mayWrite"} => mState = "Connected" \/ mFd = 0
                      /\ stack'[i].op = "write" /\ stack'[i].fd # 0 =>
                           /\ mState \in {"Connected", "Error"}
                           /\ \A j \in 1..Len(stack') : j < i => stack'[j].op \in Handling
    BY DEF GivenUp, Handling, Unmoved, Still
  <2>1. CASE i = 1
    <3>1. 1 \in 1..Len(stack)
      BY DEF Placed
    <3>2. mState = "Connected" \/ mFd = 0
      BY <3>1 DEF GivenUp
    <3> QED BY <2>1, <3>2
  <2>2. CASE i # 1
    <3>1. /\ i \in 2..Len(stack) /\ stack'[i] = stack[i] /\ 1 \in 1..Len(stack) /\ i \in 1..Len(stack)
          /\ 1 < i
      BY <2>2 DEF Placed
    <3>2. ~(stack[i].op = "write" /\ stack[i].fd # 0)
      BY <3>1 DEF GivenUp
    <3> QED BY <3>1, <3>2 DEF GivenUp
  <2> QED BY <2>1, <2>2
<1>3. Reads'
  <2>1. UNCHANGED <<mState, mFd, bio, hs, crowded, inbox, conn, connects, readWaitState, unread>>
    BY DEF Unmoved, Still
  <2> QED BY <1>0, <2>1, ReadsKept
<1>4. Readers'
  <2>1. UNCHANGED <<mState, unread, crowded, inbox, conn, mFd, connects, readWaitState>> /\ room' = room
        /\ ready \in BOOLEAN /\ ready' \in BOOLEAN
    BY DEF Unmoved, Still, Flags
  <2> QED BY <1>0, <2>1, ReadersKept
<1> QED BY <1>1, <1>2, <1>3, <1>4

\* FdWrite of a descriptor that is gone.
LEMMA FdWriteGoneStep ==
    ASSUME TlsInv, FdWriteGone
    PROVE  SessionInv'
<1> USE DEF TlsInv, SessionInv, OtherInv
<1>1. stack # <<>> /\ stack[1].op = "fdWrite" /\ stack[1].fd # mFd
  BY RunningIs, TailIs DEF FdWriteGone, Top, TlsTyped
<1>2. Then(<<>>) /\ Unmoved /\ Watches
  BY <1>1, GoesIs DEF FdWriteGone
<1>3. UNCHANGED <<want, ready>>
  BY DEF FdWriteGone, Goes, fdVars
<1>4. Placed(0)
  BY <1>1, <1>2, ThenNone
<1> QED BY <1>1, <1>2, <1>3, <1>4, NothingMore

\* An assertion fails.
LEMMA AssertionFails ==
    ASSUME TlsInv, tlsFailed' \in {"session", "wait", "two"},
           tlsFailed' = "session" => closed \/ late,
           tlsFailed' = "wait" => mState = "Connected" /\ writeWaitState # "SSLNotWaiting",
           UNCHANGED <<mState, stack, fdVars, sslVars, waitVars, writeVars, unread, odd, quietVars>>
    PROVE  SessionInv'
<1> USE DEF TlsInv, SessionInv, OtherInv
<1>1. UNCHANGED <<mState, mFd, conn, inbox, room, mMode, session, bio, hs, wpend, asked, flights,
                  readWaitState, writeWaitState, unread, odd, mPendingWrites, out, plain, resent,
                  crowded, data, closed, inside, late, connects, writes, stack, want, ready>>
  BY DEF fdVars, sslVars, waitVars, writeVars, quietVars, programVars
<1>2. TlsTyped'
  BY <1>1 DEF TlsTyped
<1>3. Flags' /\ WriteLists'
  BY <1>1 DEF Flags, WriteLists
<1>4. Descriptor' /\ Handshake'
  BY <1>1 DEF Descriptor, Handshake, Live
<1>5. Steps' /\ Stages'
  BY <1>1 DEF Steps, TakesTLS, Prompt, Stages, Soon, Fresh, Live
<1>6. WaitStates'
  BY <1>1 DEF WaitStates
<1>7. Sending' /\ GivenUp' /\ Reads' /\ Readers'
  BY <1>1 DEF Sending, GivenUp, Reads, Readers
<1> QED BY <1>2, <1>3, <1>4, <1>5, <1>6, <1>7

\* After the handshake: the assertion, then the pending writes.
LEMMA AfterConnectStep ==
    ASSUME TlsInv, AfterConnect
    PROVE  SessionInv'
<1> USE DEF TlsInv, SessionInv, OtherInv
<1>1. stack # <<>> /\ stack[1].op = "afterConnect"
  BY RunningIs DEF AfterConnect
<1>2. CASE Goes(<<>>)
  <2>1. Then(<<>>) /\ Unmoved /\ Watches
    BY <1>1, <1>2, GoesIs
  <2>2. UNCHANGED <<want, ready>>
    BY <1>2 DEF Goes, fdVars
  <2>3. Placed(0)
    BY <1>1, <2>1, ThenNone
  <2> QED BY <1>1, <2>1, <2>2, <2>3, NothingMore
<1>3. CASE mState = "Connected" /\ Goes(<<"write">>)
  <2>1. Then(<<"write">>) /\ Unmoved
    BY <1>1, <1>3, GoesIs
  <2>2. UNCHANGED <<want, ready>>
    BY <1>3 DEF Goes, fdVars
  <2>3. Placed(1) /\ stack'[1].op = "write" /\ (mFd = 0 => stack'[1].fd = 0)
    BY <1>1, <2>1, ThenOne, FdIs DEF OpNames
  <2> QED BY <1>1, <1>3, <2>1, <2>2, <2>3, WriteNext
<1>4. CASE /\ mState = "Connected" /\ writeWaitState # "SSLNotWaiting" /\ tlsFailed' = "wait"
           /\ UNCHANGED <<mState, stack, fdVars, sslVars, waitVars, writeVars, unread, odd, quietVars>>
  BY <1>4, AssertionFails
<1> QED BY <1>2, <1>3, <1>4 DEF AfterConnect

\* Writes that waited for a read.
LEMMA RetryWriteStep ==
    ASSUME TlsInv, RetryWrite
    PROVE  SessionInv'
<1> USE DEF TlsInv, SessionInv, OtherInv
<1>1. stack # <<>> /\ stack[1].op \in {"retryWrite", "mayWrite"}
  BY RunningIs DEF RetryWrite
<1>2. Goes(<<"write">>) \/ Goes(<<>>)
  BY DEF RetryWrite
<1>3. CASE Goes(<<>>)
  <2>1. Then(<<>>) /\ Unmoved /\ Watches
    BY <1>1, <1>3, GoesIs
  <2>2. UNCHANGED <<want, ready>>
    BY <1>3 DEF Goes, fdVars
  <2>3. Placed(0)
    BY <1>1, <2>1, ThenNone
  <2> QED BY <1>1, <2>1, <2>2, <2>3, NothingMore
<1>4. CASE Goes(<<"write">>)
  <2>1. Then(<<"write">>) /\ Unmoved
    BY <1>1, <1>4, GoesIs
  <2>2. UNCHANGED <<want, ready>>
    BY <1>4 DEF Goes, fdVars
  <2>3. Placed(1) /\ stack'[1].op = "write" /\ (mFd = 0 => stack'[1].fd = 0)
    BY <1>1, <2>1, ThenOne, FdIs DEF OpNames
  <2> QED BY <1>1, <2>1, <2>2, <2>3, WriteNext
<1> QED BY <1>2, <1>3, <1>4

\* processRead() with a session.
LEMMA ReadingIs ==
    ASSUME TlsTyped, Reading
    PROVE  /\ tlsFailed = "none" /\ stack # <<>> /\ stack[1].op \in {"read", "reads"}
           /\ stack[1].op = "reads" => readWaitState = "SSLNotWaiting"
BY RunningIs DEF Reading

\* It is over: a read waits, or the handler has had the descriptor closed.
LEMMA ReadsOverStep ==
    ASSUME TlsInv, ReadsOver
    PROVE  SessionInv'
<1> USE DEF TlsInv, SessionInv, OtherInv
<1>1. /\ stack # <<>> /\ stack[1].op \in {"read", "reads"}
      /\ mFd = 0 \/ (stack[1].op = "reads" /\ readWaitState # "SSLNotWaiting")
  BY RunningIs, ReadingIs DEF ReadsOver
<1>2. Then(<<>>) /\ Unmoved /\ Watches
  BY <1>1, GoesIs DEF ReadsOver
<1>3. UNCHANGED <<want, ready>>
  BY DEF ReadsOver, Goes, fdVars
<1>4. Placed(0)
  BY <1>1, <1>2, ThenNone
<1>5. /\ TlsTyped' /\ Flags' /\ WriteLists' /\ Descriptor' /\ Handshake' /\ Steps' /\ Stages'
      /\ WaitStates' /\ Sending'
  BY <1>1, <1>2, <1>4, QuietStep
<1>6. GivenUp'
  <2>1. UNCHANGED <<closed, connects, plain, mFd, mState>>
    BY <1>2 DEF Unmoved, Still
  <2> QED BY <1>4, <2>1, GivenUpKept
<1>7. CASE mFd = 0
  <2>1. mFd' = 0 /\ inbox' = <<>> /\ conn' = "none"
    BY <1>2, <1>7 DEF Unmoved, Still, Descriptor
  <2>2. Readers'
    BY <2>1 DEF Readers
  <2>3. Reads'
    <3>1. ASSUME \A i \in 1..Len(stack) : stack[i].op \notin {"read", "reads"}, NEW j \in 1..Len(stack')
          PROVE  stack'[j].op \notin {"read", "reads"}
      BY <1>4, <3>1 DEF Placed
    <3>2. UNCHANGED <<mState, mFd, bio, hs, crowded, inbox, conn, connects, readWaitState, unread>>
      BY <1>2 DEF Unmoved, Still
    <3> QED BY <2>1, <3>1, <3>2 DEF Reads
  <2> QED BY <1>5, <1>6, <2>2, <2>3
<1>8. CASE stack[1].op = "reads" /\ readWaitState # "SSLNotWaiting"
  <2>1. Reads'
    <3>1. UNCHANGED <<mState, mFd, bio, hs, crowded, inbox, conn, connects, readWaitState, unread>>
      BY <1>2 DEF Unmoved, Still
    <3> QED BY <1>3, <1>4, <1>8, <3>1, ReadsKept
  <2>2. Readers'
    <3>1. UNCHANGED <<mState, unread, crowded, inbox, conn, mFd, connects, readWaitState, ready, room>>
      BY <1>2, <1>3 DEF Unmoved, Still
    <3>2. \A i \in 2..Len(stack) : i - 1 \in 1..Len(stack') /\ stack'[i - 1] = stack[i]
      BY <1>4 DEF Placed
    <3>3. (\E i \in 1..Len(stack) : stack[i].op = "fdWrite" /\ stack[i].fd = mFd)
          => \E k \in 1..Len(stack') : stack'[k].op = "fdWrite" /\ stack'[k].fd = mFd
      <4> SUFFICES ASSUME NEW i \in 1..Len(stack), stack[i].op = "fdWrite", stack[i].fd = mFd
                   PROVE  \E k \in 1..Len(stack') : stack'[k].op = "fdWrite" /\ stack'[k].fd = mFd
        OBVIOUS
      <4>1. i \in 2..Len(stack)
        BY <1>4, <1>8 DEF Placed
      <4> QED BY <3>2, <4>1
    <3> QED BY <1>8, <3>1, <3>3 DEF Readers
  <2> QED BY <1>5, <1>6, <2>1, <2>2
<1> QED BY <1>1, <1>7, <1>8

-----------------------------------------------------------------------------
(* The kernel and the server *)

\* What neither the kernel nor the server touches.
LEMMA NetworkKeeps ==
    ASSUME TlsInv, Network
    PROVE  /\ WriteLists' /\ Steps' /\ Stages' /\ WaitStates' /\ Sending' /\ GivenUp'
           /\ UNCHANGED <<mState, stack, tlsFailed, mFd, want, mMode, session, bio, hs, readWaitState,
                          writeWaitState, unread, connects, closed, inside, late, resent>>
<1> USE DEF TlsInv, SessionInv, OtherInv, Network, waitVars, writeVars, programVars
<1>1. WriteLists'
  BY DEF WriteLists
<1>2. Steps' /\ Stages'
  BY DEF Steps, TakesTLS, Prompt, Stages, Soon, Fresh, Live
<1>3. WaitStates'
  BY DEF WaitStates
<1>4. Sending' /\ GivenUp'
  BY DEF Sending, GivenUp
<1> QED BY <1>1, <1>2, <1>3, <1>4

\* connect() is answered, and the connection ends or breaks.
LEMMA ChangesStep ==
    ASSUME TlsInv, Network, NEW from \in {"connecting", "up", "shut"},
           NEW to \in {"up", "refused", "shut", "reset"}, Changes(from, to)
    PROVE  SessionInv'
<1> USE DEF TlsInv, SessionInv, OtherInv
<1>1. /\ conn = from /\ conn' = to /\ (inbox' = inbox \/ inbox' = <<>>)
      /\ to = "reset" \/ inbox' = inbox
      /\ room' = (room \/ to = "up") /\ ready' = TRUE /\ crowded' = (crowded \/ inbox # <<>>)
      /\ UNCHANGED <<asked, flights, data>>
  BY DEF Changes
<1>2. /\ WriteLists' /\ Steps' /\ Stages' /\ WaitStates' /\ Sending' /\ GivenUp'
      /\ UNCHANGED <<mState, stack, tlsFailed, mFd, want, mMode, session, bio, hs, readWaitState,
                     writeWaitState, unread, connects, closed, inside, late, resent>>
  BY NetworkKeeps
<1>3. TlsTyped'
  <2>1. inbox' \in Seq({"flight", "data"})
    <3>1. inbox \in Seq({"flight", "data"})
      BY DEF TlsTyped
    <3>2. <<>> \in Seq({"flight", "data"})
      OBVIOUS
    <3> QED BY <1>1, <3>1, <3>2, Zenon
  <2> QED BY <1>1, <1>2, <2>1 DEF TlsTyped, Conns
<1>4. Flags'
  BY <1>1, <1>2 DEF Flags
<1>5. Descriptor'
  <2>1. mFd # 0
    BY <1>1 DEF Descriptor
  <2>2. inbox = <<>> => inbox' = <<>>
    BY <1>1
  <2> QED BY <1>1, <1>2, <2>1, <2>2 DEF Descriptor
<1>6. Handshake'
  <2>1. conn # "reset"
    BY <1>1
  <2>2. IF conn' = "reset" THEN inbox' = <<>> ELSE inbox' = inbox
    BY DEF Changes
  <2> QED BY <1>1, <1>2, <2>1, <2>2 DEF Handshake, Live
<1>7. Reads'
  <2>1. ~crowded' => inbox' = <<>>
    BY <1>1
  <2>2. inbox' = <<>> => Len(inbox') <= 1
    OBVIOUS
  <2> QED BY <1>2, <2>1, <2>2 DEF Reads
<1>8. Readers'
  BY <1>1 DEF Readers
<1> QED BY <1>2, <1>3, <1>4, <1>5, <1>6, <1>7, <1>8

\* The kernel has room again.
LEMMA RoomComesStep ==
    ASSUME TlsInv, RoomComes
    PROVE  SessionInv'
<1> USE DEF TlsInv, SessionInv, OtherInv
<1>1. /\ Network /\ conn \in {"up", "shut"} /\ ~room /\ room' = TRUE
      /\ ready' = (ready \/ "out" \in want)
      /\ UNCHANGED <<conn, inbox, asked, flights, crowded, data>>
  BY DEF RoomComes
<1>2. /\ WriteLists' /\ Steps' /\ Stages' /\ WaitStates' /\ Sending' /\ GivenUp'
      /\ UNCHANGED <<mState, stack, tlsFailed, mFd, want, mMode, session, bio, hs, readWaitState,
                     writeWaitState, unread, connects, closed, inside, late, resent>>
  BY <1>1, NetworkKeeps
<1>3. TlsTyped'
  BY <1>1, <1>2 DEF TlsTyped
<1>4. Flags'
  BY <1>1, <1>2 DEF Flags
<1>5. Descriptor'
  BY <1>1, <1>2 DEF Descriptor
<1>6. Handshake'
  BY <1>1, <1>2 DEF Handshake, Live
<1>7. Reads'
  BY <1>1, <1>2 DEF Reads
<1>8. Readers'
  <2>1. mFd # 0
    BY <1>1 DEF Descriptor
  <2>2. mState = "Connected" /\ ~ready' /\ readWaitState = "SSLReadWaitingForWrite" /\ connects <= 1
        => stack # <<>> /\ stack[1].op = "read"
    BY <1>1, <2>1 DEF Reads
  <2>3. connects <= 1 \/ connects > 1
    <3>1. connects \in 0..MaxConnects
      BY DEF TlsTyped
    <3> QED BY <3>1, TlsBounds
  <2> QED BY <1>1, <1>2, <2>2, <2>3 DEF Readers
<1> QED BY <1>2, <1>3, <1>4, <1>5, <1>6, <1>7, <1>8

\* A record comes, behind those that are there.
LEMMA ArrivesIs ==
    ASSUME TlsTyped, NEW record \in {"flight", "data"}, Arrives(record)
    PROVE  /\ inbox' \in Seq({"flight", "data"}) /\ Len(inbox) \in Nat /\ Len(inbox') = Len(inbox) + 1
           /\ \A i \in 1..Len(inbox) : inbox'[i] = inbox[i]
           /\ inbox'[Len(inbox) + 1] = record /\ inbox' # <<>>
           /\ inbox = <<>> => Len(inbox) = 0
           /\ inbox # <<>> => Len(inbox) >= 1
           /\ ready' = TRUE /\ crowded' = (crowded \/ inbox # <<>>)
<1> DEFINE s == inbox
           T == {"flight", "data"}
<1>1. s \in Seq(T) /\ record \in T /\ inbox' = Append(s, record)
  BY DEF TlsTyped, Arrives
<1>2. s = <<>> => Len(s) = 0
  OBVIOUS
<1>3. ready' = TRUE /\ crowded' = (crowded \/ inbox # <<>>)
  BY DEF Arrives
<1> HIDE DEF T
<1>4. /\ Append(s, record) \in Seq(T) /\ Len(Append(s, record)) = Len(s) + 1 /\ Len(s) \in Nat
      /\ \A i \in 1..Len(s) : Append(s, record)[i] = s[i]
      /\ Append(s, record)[Len(s) + 1] = record /\ Append(s, record) # <<>>
  BY <1>1, AppendProperties, LenProperties
<1>5. s # <<>> => Len(s) # 0
  BY <1>1, EmptySeq
<1>6. s # <<>> => Len(s) >= 1
  BY <1>4, <1>5
<1> QED BY <1>1, <1>2, <1>3, <1>4, <1>6 DEF T

\* The server takes its turn in the handshake.
LEMMA FlightComesStep ==
    ASSUME TlsInv, FlightComes
    PROVE  SessionInv'
<1> USE DEF TlsInv, SessionInv, OtherInv
<1>1. /\ Network /\ conn = "up" /\ asked /\ Arrives("flight")
      /\ flights' = flights + 1 /\ asked' = FALSE /\ UNCHANGED <<conn, room, data>>
  BY DEF FlightComes
<1>2. /\ WriteLists' /\ Steps' /\ Stages' /\ WaitStates' /\ Sending' /\ GivenUp'
      /\ UNCHANGED <<mState, stack, tlsFailed, mFd, want, mMode, session, bio, hs, readWaitState,
                     writeWaitState, unread, connects, closed, inside, late, resent>>
  BY <1>1, NetworkKeeps
<1>3. /\ inbox' \in Seq({"flight", "data"}) /\ Len(inbox) \in Nat /\ Len(inbox') = Len(inbox) + 1
      /\ \A i \in 1..Len(inbox) : inbox'[i] = inbox[i]
      /\ inbox'[Len(inbox) + 1] = "flight" /\ inbox' # <<>>
      /\ inbox = <<>> => Len(inbox) = 0
      /\ inbox # <<>> => Len(inbox) >= 1
      /\ ready' = TRUE /\ crowded' = (crowded \/ inbox # <<>>)
  BY <1>1, ArrivesIs
<1>4. flights < Flights /\ flights \in Nat /\ Flights \in Nat /\ hs \in Nat
  <2>1. asked => flights < Flights
    BY DEF Handshake
  <2>2. flights \in 0..Flights /\ hs \in Nat
    BY DEF TlsTyped
  <2> QED BY <1>1, <2>1, <2>2, TlsBounds
<1>5. TlsTyped'
  <2>1. flights' \in 0..Flights
    BY <1>1, <1>4
  <2> QED BY <1>1, <1>2, <1>3, <2>1 DEF TlsTyped
<1>6. Flags'
  BY <1>1, <1>2, <1>3 DEF Flags
<1>7. Descriptor'
  <2>1. mFd # 0 /\ bio # 0
    BY <1>1 DEF Descriptor
  <2> QED BY <1>2, <2>1 DEF Descriptor
<1>8. Handshake'
  <2>1. hs' <= flights' /\ ~asked'
    BY <1>1, <1>2, <1>4 DEF Handshake
  <2>2. ASSUME Live
        PROVE  /\ inbox'[1] = "flight" /\ hs + 1 = flights'
               /\ \A i \in 2..Len(inbox') : inbox'[i] = "data"
               /\ ~(Len(inbox') > 1)
    <3>1. hs = flights /\ inbox = <<>>
      BY <1>1, <1>4, <2>2 DEF Handshake
    <3>2. Len(inbox) = 0 /\ Len(inbox') = 1
      BY <1>3, <3>1
    <3> QED BY <1>1, <1>3, <3>1, <3>2
  <2>3. Live' = Live
    BY <1>2 DEF Live
  <2> QED BY <1>1, <1>2, <1>3, <2>1, <2>2, <2>3 DEF Handshake
<1>9. Reads'
  <2>1. ~crowded' => Len(inbox') <= 1
    <3>1. ~crowded' => inbox = <<>>
      BY <1>3, Zenon
    <3> QED BY <1>3, <3>1
  <2> QED BY <1>1, <1>2, <2>1 DEF Reads
<1>10. Readers'
  BY <1>3 DEF Readers
<1> QED BY <1>2, <1>5, <1>6, <1>7, <1>8, <1>9, <1>10

\* The server sends data.
LEMMA DataComesStep ==
    ASSUME TlsInv, DataComes
    PROVE  SessionInv'
<1> USE DEF TlsInv, SessionInv, OtherInv
<1>1. /\ Network /\ conn = "up" /\ flights = Flights /\ Arrives("data")
      /\ UNCHANGED <<conn, room, asked, flights>>
  BY DEF DataComes
<1>2. /\ WriteLists' /\ Steps' /\ Stages' /\ WaitStates' /\ Sending' /\ GivenUp'
      /\ UNCHANGED <<mState, stack, tlsFailed, mFd, want, mMode, session, bio, hs, readWaitState,
                     writeWaitState, unread, connects, closed, inside, late, resent>>
  BY <1>1, NetworkKeeps
<1>3. /\ inbox' \in Seq({"flight", "data"}) /\ Len(inbox) \in Nat /\ Len(inbox') = Len(inbox) + 1
      /\ \A i \in 1..Len(inbox) : inbox'[i] = inbox[i]
      /\ inbox'[Len(inbox) + 1] = "data" /\ inbox' # <<>>
      /\ inbox = <<>> => Len(inbox) = 0
      /\ inbox # <<>> => Len(inbox) >= 1
      /\ ready' = TRUE /\ crowded' = (crowded \/ inbox # <<>>)
  BY <1>1, ArrivesIs
<1>4. TlsTyped'
  BY <1>1, <1>2, <1>3 DEF TlsTyped
<1>5. Flags'
  BY <1>1, <1>2, <1>3 DEF Flags
<1>6. Descriptor'
  <2>1. mFd # 0 /\ bio # 0
    BY <1>1, TlsBounds DEF Descriptor
  <2> QED BY <1>2, <2>1 DEF Descriptor
<1>7. Handshake'
  <2>1. Live' = Live
    BY <1>2 DEF Live
  <2>2. CASE ~Live
    BY <1>1, <1>2, <2>1, <2>2 DEF Handshake
  <2>3. CASE /\ inbox # <<>> /\ inbox[1] = "flight" /\ hs + 1 = flights /\ ~asked
             /\ \A i \in 2..Len(inbox) : inbox[i] = "data"
    <3>1. inbox'[1] = "flight"
      BY <1>3, <2>3
    <3>2. ASSUME NEW i \in 2..Len(inbox') PROVE inbox'[i] = "data"
      <4>1. i \in 2..Len(inbox) \/ i = Len(inbox) + 1
        BY <1>3
      <4> QED BY <1>3, <2>3, <4>1
    <3> QED BY <1>1, <1>2, <1>3, <2>3, <3>1, <3>2 DEF Handshake
  <2>4. CASE hs = flights /\ \A i \in 1..Len(inbox) : inbox[i] = "data"
    <3>1. ASSUME NEW i \in 1..Len(inbox') PROVE inbox'[i] = "data"
      <4>1. i \in 1..Len(inbox) \/ i = Len(inbox) + 1
        BY <1>3
      <4> QED BY <1>3, <2>4, <4>1
    <3> QED BY <1>1, <1>2, <2>4, <3>1 DEF Handshake
  <2> QED BY <1>1, <2>2, <2>3, <2>4 DEF Handshake
<1>8. Reads'
  <2>1. ~crowded' => Len(inbox') <= 1
    <3>1. ~crowded' => inbox = <<>>
      BY <1>3, Zenon
    <3> QED BY <1>3, <3>1
  <2> QED BY <1>1, <1>2, <2>1 DEF Reads
<1>9. Readers'
  BY <1>3 DEF Readers
<1> QED BY <1>2, <1>4, <1>5, <1>6, <1>7, <1>8, <1>9

-----------------------------------------------------------------------------
(* The program *)

\* The program calls between two callbacks or in a handler.
LEMMA ProgramRunsIs ==
    ASSUME TlsTyped, ProgramRuns
    PROVE  tlsFailed = "none" /\ (stack = <<>> \/ stack[1].op \in {"onState", "onData"})
BY RunningIs DEF ProgramRuns, Idle

\* A step that is not to be taken while the program runs.
LEMMA NotWaitingSteps ==
    ASSUME TlsInv, ProgramRuns, NEW i \in 1..Len(stack)
    PROVE  /\ stack[i].op \notin {"fdRead", "connectTLS", "read"}
           /\ stack # <<>> /\ connects # 0
           /\ ~closed /\ mFd = 0 => stack[i].op \notin {"startTLS", "drop", "close"}
<1> USE DEF TlsInv, SessionInv, OtherInv
<1>1. stack = <<>> \/ stack[1].op \in {"onState", "onData"}
  BY ProgramRunsIs
<1>2. stack # <<>> /\ Len(stack) \in Nat /\ stack \in Seq(Ops)
  <2>1. stack \in Seq(Ops) /\ Len(stack) \in Nat
    BY LenProperties DEF TlsTyped
  <2>2. Len(stack) # 0
    BY <2>1
  <2> QED BY <2>1, <2>2
<1>3. i = 1 \/ i \in 2..Len(stack)
  BY <1>2
<1>4. stack[i].op \notin {"fdRead", "connectTLS", "read"}
  BY <1>1, <1>2, <1>3 DEF Steps, TakesTLS, Prompt
<1>5. connects # 0
  BY <1>2 DEF Descriptor
<1> QED BY <1>2, <1>4, <1>5 DEF Steps, TakesTLS, Prompt

\* What connect() puts on top.
ConnectSteps(p) ==
    /\ p \in Seq(Ops) /\ Len(p) \in {1, 2} /\ p[1].op \in {"onState", "watch"}
    /\ Len(p) = 2 => p[1].op = "onState" /\ p[2].op \in {"startTLS", "watch", "drop"}

\* What connect() leaves to do is on top.
LEMMA ConnectStack ==
    ASSUME TlsInv, ProgramRuns, NEW p, ConnectSteps(p), stack' = p \o stack
    PROVE  /\ stack' \in Seq(Ops) /\ stack' # <<>> /\ stack'[1] = p[1]
           /\ Len(p) = 2 => stack'[2] = p[2] /\ 2 \in 1..Len(stack')
           /\ \A i \in 1..Len(stack') :
                 \/ i = 1
                 \/ i = 2 /\ Len(p) = 2
                 \/ i \in 2..Len(stack') /\ \E k \in 1..Len(stack) : stack'[i] = stack[k]
           /\ \A i \in 1..Len(stack') : stack'[i].op \notin {"fdRead", "connectTLS", "read"}
<1> USE DEF TlsInv, SessionInv, OtherInv
<1>1. /\ stack' \in Seq(Ops) /\ Len(stack) \in Nat /\ Len(stack') = Len(p) + Len(stack)
      /\ \A i \in 1..Len(p) : stack'[i] = p[i]
      /\ \A i \in (Len(p) + 1)..(Len(p) + Len(stack)) : stack'[i] = stack[i - Len(p)]
  BY OnTop DEF ConnectSteps
<1>2. Len(p) \in {1, 2}
  BY DEF ConnectSteps
<1>3. stack' # <<>>
  <2>1. Len(stack') # 0
    BY <1>1, <1>2
  <2> QED BY <2>1
<1>4. stack'[1] = p[1] /\ (Len(p) = 2 => stack'[2] = p[2] /\ 2 \in 1..Len(stack'))
  BY <1>1, <1>2
<1>5. ASSUME NEW i \in 1..Len(stack')
      PROVE  \/ i = 1
             \/ i = 2 /\ Len(p) = 2
             \/ i \in 2..Len(stack') /\ \E k \in 1..Len(stack) : stack'[i] = stack[k]
  <2>1. i \in 1..Len(p) \/ i \in (Len(p) + 1)..(Len(p) + Len(stack))
    BY <1>1, <1>2
  <2>2. CASE i \in 1..Len(p)
    BY <1>2, <2>2
  <2>3. CASE i \in (Len(p) + 1)..(Len(p) + Len(stack))
    <3> DEFINE n == Len(p)
               m == Len(stack)
               o == Len(stack')
    <3>2. n \in {1, 2} /\ m \in Nat /\ o = n + m /\ i \in (n + 1)..(n + m)
      BY <1>1, <1>2, <2>3
    <3> HIDE DEF n, m, o
    <3>3. i - n \in 1..m /\ i \in 2..o
      BY <3>2
    <3>1. i - Len(p) \in 1..Len(stack) /\ i \in 2..Len(stack')
      BY <3>3 DEF n, m, o
    <3> QED BY <1>1, <2>3, <3>1
  <2> QED BY <2>1, <2>2, <2>3
<1>6. ASSUME NEW i \in 1..Len(stack')
      PROVE  stack'[i].op \notin {"fdRead", "connectTLS", "read"}
  BY <1>4, <1>5, NotWaitingSteps DEF ConnectSteps
<1> QED BY <1>1, <1>3, <1>4, <1>5, <1>6

\* An attempt begins, whatever the kernel says at once.
LEMMA ConnectKeeps ==
    ASSUME TlsInv, ProgramRuns, mFd = 0, mState # "Connected", connects < MaxConnects,
           connects' = connects + 1, mFd' = connects + 1, mMode' = "TLS", session' = TRUE,
           inside' \in BOOLEAN, inbox' = <<>>, want' = {"in"}, room' \in BOOLEAN, ready' = FALSE,
           conn' \in {"up", "connecting", "refused"},
           UNCHANGED <<mPendingWrites, bio, hs, wpend, asked, flights, closed, late, writes>>, Calls,
           NEW p, ConnectSteps(p), stack' = p \o stack,
           mState' \in {"Connecting", "Handshaking", "Closed", "Error"},
           p[Len(p)].op = "startTLS" => mState' = "Handshaking",
           p[Len(p)].op = "drop" => mState' = "Error",
           mState' = "Handshaking" => mState = "Handshaking" \/ p[Len(p)].op = "startTLS"
    PROVE  SessionInv'
<1> USE DEF TlsInv, SessionInv, OtherInv
<1>1. /\ stack' \in Seq(Ops) /\ stack' # <<>> /\ stack'[1] = p[1]
      /\ Len(p) = 2 => stack'[2] = p[2] /\ 2 \in 1..Len(stack')
      /\ \A i \in 1..Len(stack') :
            \/ i = 1
            \/ i = 2 /\ Len(p) = 2
            \/ i \in 2..Len(stack') /\ \E k \in 1..Len(stack) : stack'[i] = stack[k]
      /\ \A i \in 1..Len(stack') : stack'[i].op \notin {"fdRead", "connectTLS", "read"}
  BY ConnectStack
<1>2. Len(p) \in {1, 2} /\ p[1].op \in {"onState", "watch"}
      /\ (Len(p) = 2 => p[1].op = "onState" /\ p[2].op \in {"startTLS", "watch", "drop"})
  BY DEF ConnectSteps
<1>3. UNCHANGED <<tlsFailed, readWaitState, writeWaitState, out, plain, resent, unread, crowded, data, odd>>
  BY DEF Calls, waitVars
<1>4. /\ connects \in Nat /\ bio \in 0..connects /\ connects' \in 0..MaxConnects /\ mFd' \in 0..connects'
      /\ bio' \in 0..connects' /\ mFd' # 0 /\ connects' # 0 /\ bio # mFd'
      /\ connects' <= 1 => connects = 0
  <2>1. connects \in 0..MaxConnects /\ bio \in 0..connects
    BY DEF TlsTyped
  <2> QED BY <2>1, TlsBounds
<1>5. TlsTyped'
  <2>1. inbox' \in Seq({"flight", "data"})
    OBVIOUS
  <2> QED BY <1>1, <1>3, <1>4, <2>1 DEF TlsTyped, Conns
<1>6. Flags'
  BY <1>3 DEF Flags
<1>7. WriteLists'
  BY <1>3 DEF WriteLists
<1>8. Descriptor'
  BY <1>4 DEF Descriptor
<1>9. Handshake'
  <2>1. ~Live'
    BY <1>4 DEF Live
  <2> QED BY <2>1 DEF Handshake
<1>10. ASSUME Fresh' \/ ~closed, NEW i \in 1..Len(stack'), stack'[i].op \in {"startTLS", "drop", "close"}
       PROVE  i = 2 /\ Len(p) = 2 /\ stack'[2] = p[2] /\ stack'[1].op = "onState" /\ Soon(i)'
  <2>1. i # 1
    BY <1>1, <1>2, <1>10
  <2>2. ASSUME NEW k \in 1..Len(stack), stack'[i] = stack[k]
        PROVE  FALSE
    <3>1. connects # 0 /\ ~(connects' <= 1)
      BY <1>4, NotWaitingSteps
    <3>2. ~closed
      BY <1>10, <3>1 DEF Fresh
    <3> QED BY <1>10, <2>2, <3>2, NotWaitingSteps
  <2>3. i = 2 /\ Len(p) = 2
    BY <1>1, <2>1, <2>2
  <2> QED BY <1>1, <1>2, <2>3 DEF Soon
<1>11. ~closed => bio = 0 /\ mState \in {"Idle", "Closed", "Error"}
  BY DEF Stages
<1>12. Steps'
  <2>1. \A i \in 2..Len(stack') : stack'[i].op \notin {"fdRead", "connectTLS", "read"}
    <3>1. Len(stack') \in Nat
      BY <1>1, LenProperties
    <3> QED BY <1>1, <3>1
  <2>2. stack'[1].op # "connectTLS"
    BY <1>1, <1>2
  <2>3. Fresh' => \A i \in 1..Len(stack') :
                     stack'[i].op = "startTLS" => Soon(i)' /\ mState' = "Handshaking"
    BY <1>2, <1>10
  <2>4. ~closed => \A i \in 1..Len(stack') :
          /\ stack'[i].op = "startTLS" => Soon(i)' /\ mFd' # 0 /\ bio' = 0
          /\ stack'[i].op = "drop" => Soon(i)' /\ mFd' # 0 /\ bio' = 0
          /\ stack'[i].op = "close" => Soon(i)' /\ mFd' # 0 /\ mState' \in {"Closed", "Error"}
          /\ stack'[i].op = "drop" => mState' = "Error"
    BY <1>2, <1>4, <1>10, <1>11
  <2> QED BY <2>1, <2>2, <2>3, <2>4 DEF Steps, TakesTLS, Prompt
<1>13. Stages'
  <2>1. ~closed /\ mState' = "Handshaking" => \E i \in 1..Len(stack') : stack'[i].op = "startTLS"
    <3> SUFFICES ASSUME ~closed, mState' = "Handshaking"
                 PROVE  \E i \in 1..Len(stack') : stack'[i].op = "startTLS"
      OBVIOUS
    <3>1. p[Len(p)].op = "startTLS"
      BY <1>11
    <3>2. Len(p) = 2
      BY <1>2, <3>1
    <3> QED BY <1>1, <3>1, <3>2
  <2> QED BY <1>4, <1>11, <2>1 DEF Stages
<1>14. WaitStates'
  BY <1>3 DEF WaitStates
<1>15. Sending'
  BY <1>3 DEF Sending
<1>16. ASSUME connects' <= 1
       PROVE  /\ mState = "Idle"
              /\ \A i \in 1..Len(stack') : stack'[i].op \in {"onState", "startTLS", "watch", "drop"}
  <2>1. mState = "Idle"
    BY <1>4, <1>16 DEF Descriptor
  <2>2. ASSUME NEW i \in 1..Len(stack')
        PROVE  stack'[i].op \in {"onState", "startTLS", "watch", "drop"}
    <3>1. ~\E k \in 1..Len(stack) : stack'[i] = stack[k]
      BY <1>4, <1>16, NotWaitingSteps
    <3> QED BY <1>1, <1>2, <3>1
  <2> QED BY <2>1, <2>2
<1>17. GivenUp'
  <2> SUFFICES ASSUME ~closed, connects' <= 1 PROVE plain = <<>>
    BY <1>3, <1>16 DEF GivenUp
  <2>1. connects <= 1
    BY <1>4
  <2> QED BY <1>16, <2>1 DEF GivenUp
<1>18. Reads'
  <2>1. Len(inbox') <= 1
    OBVIOUS
  <2>2. connects' <= 1 => readWaitState = "SSLNotWaiting"
    <3>1. connects = 0 => connects <= 1
      OBVIOUS
    <3> QED BY <1>4, <1>16, <3>1 DEF Reads
  <2> QED BY <1>3, <1>16, <2>1, <2>2 DEF Reads
<1>19. Readers'
  BY DEF Readers
<1> QED BY <1>5, <1>6, <1>7, <1>8, <1>9, <1>12, <1>13, <1>14, <1>15, <1>17, <1>18, <1>19

\* The steps that connect() leaves to do.
LEMMA ConnectStepsAre ==
    ASSUME TlsTyped, NEW a \in {"onState", "watch"}, NEW b \in {"startTLS", "watch", "drop"},
           NEW fd \in 0..MaxConnects
    PROVE  /\ ConnectSteps(<<[op |-> a, fd |-> fd]>>)
           /\ a = "onState" => ConnectSteps(<<[op |-> a, fd |-> fd], [op |-> b, fd |-> fd]>>)
<1> DEFINE x == [op |-> a, fd |-> fd]
           y == [op |-> b, fd |-> fd]
<1>1. x \in Ops /\ y \in Ops /\ x.op = a /\ y.op = b
  BY DEF Ops
<1> HIDE DEF x, y
<1>2. /\ <<x>> \in Seq(Ops) /\ Len(<<x>>) = 1 /\ <<x>>[1] = x
      /\ <<x, y>> \in Seq(Ops) /\ Len(<<x, y>>) = 2 /\ <<x, y>>[1] = x /\ <<x, y>>[2] = y
  BY <1>1
<1>3. ConnectSteps(<<x>>)
  BY <1>1, <1>2 DEF ConnectSteps
<1>4. a = "onState" => ConnectSteps(<<x, y>>)
  BY <1>1, <1>2 DEF ConnectSteps
<1> QED BY <1>3, <1>4 DEF x, y

\* connect().
LEMMA TlsConnectStep ==
    ASSUME TlsInv, TlsConnect
    PROVE  SessionInv'
<1> DEFINE Do(op) == [op |-> op, fd |-> connects + 1]
<1>1. /\ ProgramRuns /\ mFd = 0 /\ mState # "Connected" /\ connects < MaxConnects
      /\ connects' = connects + 1 /\ mFd' = connects + 1
      /\ mMode' = "TLS" /\ session' = TRUE /\ inside' = (inside \/ stack # <<>>)
      /\ inbox' = <<>> /\ want' = {"in"}
      /\ UNCHANGED <<mPendingWrites, bio, hs, wpend, asked, flights, closed, late, writes>>
      /\ Calls
  BY DEF TlsConnect
<1>2. \/ /\ conn' = "up" /\ room' = TRUE /\ ready' = FALSE /\ mState' = "Handshaking"
         /\ stack' = <<Do("onState"), Do("startTLS")>> \o stack
      \/ /\ conn' = "connecting" /\ room' = FALSE /\ ready' = FALSE
         /\ mState' = IF mState = "Idle" THEN "Connecting" ELSE mState
         /\ stack' = (IF mState = "Idle" THEN <<Do("onState")>> ELSE <<>>) \o <<Do("watch")>> \o stack
      \/ /\ conn' = "refused" /\ room' = FALSE /\ ready' = FALSE /\ mState' = "Error"
         /\ stack' = <<Do("onState"), Do("drop")>> \o stack
  BY DEF TlsConnect
<1>3. TlsTyped /\ inside' \in BOOLEAN
  BY <1>1 DEF TlsInv, SessionInv, Flags
<1>4. connects + 1 \in 0..MaxConnects
  <2>1. connects \in 0..MaxConnects
    BY <1>3 DEF TlsTyped
  <2> QED BY <1>1, <2>1, TlsBounds
<1>5. mState \in {"Idle", "Connecting", "Handshaking", "Closed", "Error"}
  BY <1>1, <1>3 DEF TlsTyped
<1>6. /\ ConnectSteps(<<Do("watch")>>) /\ ConnectSteps(<<Do("onState"), Do("startTLS")>>)
      /\ ConnectSteps(<<Do("onState"), Do("watch")>>) /\ ConnectSteps(<<Do("onState"), Do("drop")>>)
  BY <1>3, <1>4, ConnectStepsAre
<1>7. ASSUME NEW b
      PROVE  LET p == <<Do("onState"), Do(b)>> IN p[Len(p)].op = b
  OBVIOUS
<1>8. CASE /\ conn' = "up" /\ room' = TRUE /\ ready' = FALSE /\ mState' = "Handshaking"
           /\ stack' = <<Do("onState"), Do("startTLS")>> \o stack
  <2> DEFINE p == <<Do("onState"), Do("startTLS")>>
  <2>1. ConnectSteps(p) /\ p[Len(p)].op = "startTLS" /\ stack' = p \o stack
    BY <1>6, <1>8
  <2> HIDE DEF p, Do
  <2> QED BY <1>1, <1>3, <1>8, <2>1, ConnectKeeps
<1>9. CASE /\ conn' = "refused" /\ room' = FALSE /\ ready' = FALSE /\ mState' = "Error"
           /\ stack' = <<Do("onState"), Do("drop")>> \o stack
  <2> DEFINE p == <<Do("onState"), Do("drop")>>
  <2>1. ConnectSteps(p) /\ p[Len(p)].op = "drop" /\ stack' = p \o stack
    BY <1>6, <1>9
  <2> HIDE DEF p, Do
  <2> QED BY <1>1, <1>3, <1>9, <2>1, ConnectKeeps
<1>10. CASE /\ conn' = "connecting" /\ room' = FALSE /\ ready' = FALSE
            /\ mState' = IF mState = "Idle" THEN "Connecting" ELSE mState
            /\ stack' = (IF mState = "Idle" THEN <<Do("onState")>> ELSE <<>>) \o <<Do("watch")>> \o stack
  <2> DEFINE p == IF mState = "Idle" THEN <<Do("onState"), Do("watch")>> ELSE <<Do("watch")>>
  <2>1. ConnectSteps(p) /\ p[Len(p)].op = "watch"
    <3>1. CASE mState = "Idle"
      BY <1>6, <3>1
    <3>2. CASE mState # "Idle"
      BY <1>6, <3>2
    <3> QED BY <3>1, <3>2
  <2>2. stack' = p \o stack
    <3>1. CASE mState = "Idle"
      <4>1. stack' = (<<Do("onState")>> \o <<Do("watch")>>) \o stack
        BY <1>10, <3>1
      <4>2. <<Do("onState")>> \o <<Do("watch")>> = <<Do("onState"), Do("watch")>>
        BY PairIs
      <4> QED BY <3>1, <4>1, <4>2
    <3>2. CASE mState # "Idle"
      <4>1. stack' = (<<>> \o <<Do("watch")>>) \o stack
        BY <1>10, <3>2
      <4>2. <<>> \o <<Do("watch")>> = <<Do("watch")>>
        OBVIOUS
      <4> QED BY <3>2, <4>1, <4>2
    <3> QED BY <3>1, <3>2
  <2> HIDE DEF p, Do
  <2>3. mState' \in {"Connecting", "Handshaking", "Closed", "Error"} /\ (mState' = "Handshaking" => mState = "Handshaking")
    BY <1>5, <1>10
  <2> QED BY <1>1, <1>3, <1>10, <2>1, <2>2, <2>3, ConnectKeeps
<1> QED BY <1>2, <1>8, <1>9, <1>10

\* close(), which leaves the steps that are under way.
LEMMA TlsCloseStep ==
    ASSUME TlsInv, TlsClose
    PROVE  SessionInv'
<1> USE DEF TlsInv, SessionInv, OtherInv
<1>1. /\ ProgramRuns /\ ~closed /\ closed' = TRUE
      /\ mFd' = 0 /\ conn' = "none" /\ inbox' = <<>> /\ room' = FALSE /\ want' = {} /\ ready' = FALSE
      /\ mMode' = "Plain" /\ session' = FALSE /\ bio' = 0
      /\ hs' = 0 /\ wpend' = 0 /\ asked' = FALSE /\ flights' = 0
  BY DEF TlsClose, Closes, Removes
<1>2. UNCHANGED <<mState, stack, mPendingWrites, inside, late, connects, writes, tlsFailed, readWaitState,
                  writeWaitState, out, plain, resent, unread, crowded>>
  BY DEF TlsClose, Calls, waitVars
<1>3. tlsFailed = "none" /\ (stack = <<>> \/ stack[1].op \in {"onState", "onData"})
  BY <1>1, ProgramRunsIs
<1>4. TlsTyped'
  <2>1. connects \in Nat /\ 0 \in 0..connects /\ 0 \in 0..Flights /\ <<>> \in Seq({"flight", "data"})
    <3>1. connects \in 0..MaxConnects
      BY DEF TlsTyped
    <3> QED BY <3>1, TlsBounds
  <2> QED BY <1>1, <1>2, <2>1 DEF TlsTyped
<1>5. Flags'
  BY <1>1, <1>2 DEF Flags
<1>6. WriteLists'
  <2>1. 0 \in 0..writes
    <3>1. writes \in 0..MaxWrites
      BY DEF WriteLists
    <3> QED BY <3>1, TlsBounds
  <2> QED BY <1>1, <1>2, <2>1 DEF WriteLists
<1>7. Descriptor' /\ Handshake'
  BY <1>1, <1>2 DEF Descriptor, Handshake, Live
<1>8. Steps'
  BY <1>1, <1>2, <1>3 DEF Steps, TakesTLS, Prompt, Soon, Fresh
<1>9. Stages' /\ GivenUp'
  BY <1>1 DEF Stages, GivenUp
<1>10. WaitStates'
  BY <1>1, <1>2, <1>3 DEF WaitStates
<1>11. Sending'
  BY <1>1, <1>2 DEF Sending
<1>12. Reads'
  <2>1. Len(inbox') <= 1
    BY <1>1
  <2> QED BY <1>1, <1>2, <2>1 DEF Reads
<1>13. Readers'
  BY <1>1 DEF Readers
<1> QED BY <1>4, <1>5, <1>6, <1>7, <1>8, <1>9, <1>10, <1>11, <1>12, <1>13

-----------------------------------------------------------------------------
(* The loop's callback *)

\* What epoll reports of a descriptor: reading before writing.
LEMMA EventsAre ==
    ASSUME NEW filled \in BOOLEAN, NEW c, NEW events, NEW space \in BOOLEAN,
           NEW s, s = Events(filled, c, events, space)
    PROVE  /\ s \in Seq({"fdRead", "fdWrite"}) /\ Len(s) \in 0..2
           /\ filled \/ c = "shut" => s # <<>> /\ s[1] = "fdRead"
           /\ "out" \in events /\ space => \E i \in 1..Len(s) : s[i] = "fdWrite"
           /\ \A i \in 2..Len(s) : s[i] = "fdWrite"
<1> DEFINE a == filled \/ c = "shut" \/ c \in Broken
           b == "out" \in events /\ (space \/ c \in Broken)
           p == IF a THEN <<"fdRead">> ELSE <<>>
           q == IF b THEN <<"fdWrite">> ELSE <<>>
<1>1. s = p \o q
  BY DEF Events
<1> HIDE DEF a, b
<1>2. CASE a /\ b
  <2>1. s = <<"fdRead", "fdWrite">>
    BY <1>1, <1>2, PairIs
  <2> QED BY <2>1
<1>3. CASE a /\ ~b
  <2>1. s = <<"fdRead">>
    BY <1>1, <1>3
  <2> QED BY <1>3, <2>1 DEF b
<1>4. CASE ~a /\ b
  <2>1. s = <<"fdWrite">>
    BY <1>1, <1>4
  <2> QED BY <1>4, <2>1 DEF a
<1>5. CASE ~a /\ ~b
  <2>1. s = <<>>
    BY <1>1, <1>5
  <2> QED BY <1>5, <2>1 DEF a, b
<1> QED BY <1>2, <1>3, <1>4, <1>5

LEMMA ReportsAre ==
    ASSUME room \in BOOLEAN
    PROVE  /\ Reports \in Seq({"fdRead", "fdWrite"}) /\ Len(Reports) \in 0..2
           /\ inbox # <<>> \/ conn = "shut" => Reports # <<>> /\ Reports[1] = "fdRead"
           /\ "out" \in want /\ room => \E i \in 1..Len(Reports) : Reports[i] = "fdWrite"
           /\ \A i \in 2..Len(Reports) : Reports[i] = "fdWrite"
<1> DEFINE filled == inbox # <<>>
<1>1. filled \in BOOLEAN /\ Reports = Events(filled, conn, want, room)
  BY DEF Reports
<1> HIDE DEF filled
<1>2. /\ filled \/ conn = "shut" => Reports # <<>> /\ Reports[1] = "fdRead"
      /\ Reports \in Seq({"fdRead", "fdWrite"}) /\ Len(Reports) \in 0..2
      /\ "out" \in want /\ room => \E i \in 1..Len(Reports) : Reports[i] = "fdWrite"
      /\ \A i \in 2..Len(Reports) : Reports[i] = "fdWrite"
  BY <1>1, EventsAre
<1> QED BY <1>2 DEF filled

\* The steps of a callback about a descriptor.
LEMMA CallbackStack ==
    ASSUME NEW s \in Seq({"fdRead", "fdWrite"}), Len(s) \in 0..2, s # <<>>,
           \A i \in 2..Len(s) : s[i] = "fdWrite", NEW fd \in 0..MaxConnects,
           stack' = [i \in 1..Len(s) |-> [op |-> s[i], fd |-> fd]]
    PROVE  /\ stack' \in Seq(Ops) /\ Len(stack') = Len(s) /\ stack' # <<>> /\ Len(s) \in 1..2
           /\ \A i \in 1..Len(s) : /\ stack'[i].op = s[i] /\ stack'[i].fd = fd
                                   /\ stack'[i].op \in {"fdRead", "fdWrite"}
           /\ \A i \in 2..Len(stack') : stack'[i].op = "fdWrite"
<1> DEFINE n == Len(s)
<1>1. n \in 1..2 /\ \A i \in 1..n : s[i] \in {"fdRead", "fdWrite"}
  <2>1. n # 0
    BY EmptySeq
  <2> QED BY <2>1, ElementOfSeq
<1>2. stack' \in [1..n -> Ops]
  <2>1. \A i \in 1..n : [op |-> s[i], fd |-> fd] \in Ops
    BY <1>1 DEF Ops
  <2> QED BY <2>1
<1>3. stack' \in Seq(Ops) /\ Len(stack') = n
  BY <1>1, <1>2, SeqDef, LenProperties
<1>4. stack' # <<>>
  BY <1>1, <1>3
<1>5. \A i \in 1..n : stack'[i].op = s[i] /\ stack'[i].fd = fd
  OBVIOUS
<1> HIDE DEF n
<1>6. \A i \in 2..n : i \in 1..n
  BY <1>1
<1> QED BY <1>1, <1>3, <1>4, <1>5, <1>6 DEF n

\* The loop calls back with it.
LEMMA CallbackStep ==
    ASSUME TlsInv, Callback
    PROVE  SessionInv'
<1> USE DEF TlsInv, SessionInv, OtherInv
<1> DEFINE n == Len(Reports)
<1>1. /\ Idle /\ mFd # 0 /\ Reports # <<>> /\ ready' = FALSE
      /\ stack' = [i \in 1..Len(Reports) |-> [op |-> Reports[i], fd |-> mFd]]
      /\ UNCHANGED <<mState, tlsFailed, mFd, conn, inbox, room, want, mMode, session, bio, hs, wpend, asked,
                     flights, readWaitState, writeWaitState, unread, mPendingWrites, out, plain, resent,
                     crowded, data, closed, inside, late, connects, writes>>
  BY DEF Callback, sslVars, waitVars, writeVars, quietVars, programVars
<1>2. stack = <<>> /\ tlsFailed = "none" /\ Len(stack) = 0
  BY <1>1 DEF Idle
<1>3. /\ stack' \in Seq(Ops) /\ Len(stack') = n /\ stack' # <<>> /\ n \in 1..2
      /\ \A i \in 1..n : stack'[i].op = Reports[i] /\ stack'[i].fd = mFd /\ stack'[i].op \in {"fdRead", "fdWrite"}
      /\ \A i \in 2..Len(stack') : stack'[i].op = "fdWrite"
  <2>1. /\ Reports \in Seq({"fdRead", "fdWrite"}) /\ Len(Reports) \in 0..2
        /\ \A i \in 2..Len(Reports) : Reports[i] = "fdWrite"
    BY ReportsAre DEF Flags
  <2>2. mFd \in 0..MaxConnects
    <3>1. connects \in 0..MaxConnects /\ mFd \in 0..connects
      BY DEF TlsTyped
    <3> QED BY <3>1, TlsBounds
  <2> DEFINE s == Reports
  <2>3. /\ s \in Seq({"fdRead", "fdWrite"}) /\ Len(s) \in 0..2 /\ s # <<>>
        /\ \A i \in 2..Len(s) : s[i] = "fdWrite"
        /\ stack' = [i \in 1..Len(s) |-> [op |-> s[i], fd |-> mFd]]
    BY <1>1, <2>1
  <2> HIDE DEF s
  <2>4. /\ stack' \in Seq(Ops) /\ Len(stack') = Len(s) /\ stack' # <<>> /\ Len(s) \in 1..2
        /\ \A i \in 1..Len(s) : /\ stack'[i].op = s[i] /\ stack'[i].fd = mFd
                                /\ stack'[i].op \in {"fdRead", "fdWrite"}
        /\ \A i \in 2..Len(stack') : stack'[i].op = "fdWrite"
    BY <2>2, <2>3, CallbackStack
  <2> QED BY <2>4 DEF s
<1>4. /\ stack' \in Seq(Ops) /\ Len(stack') = n /\ stack' # <<>>
      /\ \A i \in 1..n : stack'[i].op = Reports[i] /\ stack'[i].fd = mFd
  BY <1>3
<1>5. /\ inbox # <<>> \/ conn = "shut" => Reports[1] = "fdRead"
      /\ "out" \in want /\ room => \E i \in 1..n : Reports[i] = "fdWrite"
      /\ \A i \in 2..n : Reports[i] = "fdWrite"
  BY ReportsAre DEF Flags
<1> HIDE DEF n
<1>6. 1 \in 1..n /\ \A i \in 1..n : stack'[i].op \in {"fdRead", "fdWrite"}
  BY <1>3, <1>4
<1>7. TlsTyped' /\ Flags' /\ WriteLists'
  <2>1. TlsTyped'
    BY <1>1, <1>4 DEF TlsTyped
  <2>2. Flags'
    BY <1>1 DEF Flags
  <2> QED BY <1>1, <2>1, <2>2 DEF WriteLists
<1>8. Descriptor'
  <2>1. connects # 0
    <3>1. connects \in 0..MaxConnects /\ mFd \in 0..connects
      BY DEF TlsTyped
    <3> QED BY <1>1, <3>1, TlsBounds
  <2> QED BY <1>1, <2>1 DEF Descriptor
<1>9. Handshake'
  BY <1>1 DEF Handshake, Live
<1>10. Steps'
  <2>1. \A i \in 2..Len(stack') : stack'[i].op = "fdWrite"
    <3>1. \A i \in 2..n : i \in 1..n
      BY <1>3 DEF n
    <3> QED BY <1>4, <1>5, <3>1
  <2> QED BY <1>4, <1>6, <2>1 DEF Steps, TakesTLS, Prompt
<1>11. Stages'
  <2>1. ~closed => ~(mState = "Handshaking" /\ bio = 0)
    BY <1>2 DEF Stages
  <2> QED BY <1>1, <2>1 DEF Stages
<1>12. WaitStates'
  BY <1>1 DEF WaitStates
<1>13. Sending' /\ GivenUp'
  <2>1. ~(\E i \in 1..Len(stack) : stack[i].op = "write")
    BY <1>2
  <2> QED BY <1>1, <1>4, <1>6, <2>1 DEF Sending, GivenUp
<1>14. Reads'
  BY <1>1, <1>2, <1>4, <1>6 DEF Reads
<1>15. Readers'
  <2> SUFFICES ASSUME mState = "Connected", ~unread, ~crowded, inbox # <<>> \/ conn = "shut"
               PROVE  /\ stack'[1].op = "fdRead"
                      /\ readWaitState = "SSLReadWaitingForWrite" =>
                           \/ ~room \/ connects > 1
                           \/ \E i \in 1..Len(stack') : stack'[i].op = "fdWrite" /\ stack'[i].fd = mFd
    <3>1. readWaitState \in {"SSLNotWaiting", "SSLReadWaitingForRead", "SSLReadWaitingForWrite"}
      BY DEF TlsTyped, ReadWaits
    <3> QED BY <1>1, <1>4, <3>1 DEF Readers
  <2>1. stack'[1].op = "fdRead"
    BY <1>4, <1>5, <1>6
  <2>2. ASSUME readWaitState = "SSLReadWaitingForWrite", room, ~(connects > 1)
        PROVE  \E i \in 1..Len(stack') : stack'[i].op = "fdWrite" /\ stack'[i].fd = mFd
    <3>1. connects <= 1
      <4>1. connects \in 0..MaxConnects
        BY DEF TlsTyped
      <4> QED BY <2>2, <4>1, TlsBounds
    <3>2. "out" \in want
      BY <1>1, <1>2, <2>2, <3>1 DEF Reads
    <3> QED BY <1>4, <1>5, <2>2, <3>2
  <2> QED BY <2>1, <2>2
<1> QED BY <1>7, <1>8, <1>9, <1>10, <1>11, <1>12, <1>13, <1>14, <1>15

\* The loop calls back with the other attempt.
LEMMA OtherReported ==
    ASSUME TlsInv, OtherCallback
    PROVE  /\ other # NoOther /\ other.fd \in 1..connects /\ connects > 1
           /\ stack' \in Seq(Ops) /\ stack' # <<>>
           /\ \A i \in 1..Len(stack') : stack'[i].op \in {"fdRead", "fdWrite"} /\ stack'[i].fd = other.fd
           /\ \A i \in 2..Len(stack') : stack'[i].op = "fdWrite"
<1> USE DEF TlsInv, SessionInv, OtherInv
<1>1. other # NoOther
  BY DEF OtherCallback, NoOther
<1>2. other.fd \in 1..connects /\ connects > 1 /\ other.fd \in 0..MaxConnects
  <2>1. other.fd \in 1..connects /\ connects >= 2 /\ connects \in 0..MaxConnects
    BY <1>1 DEF Others, TlsTyped
  <2> QED BY <2>1, TlsBounds
<1> DEFINE space == other.conn \in {"up", "shut"}
           filled == FALSE
           s == OtherReports
<1>3. space \in BOOLEAN /\ filled \in BOOLEAN /\ s = Events(filled, other.conn, other.want, space)
  BY DEF OtherReports
<1>4. s # <<>> /\ stack' = [i \in 1..Len(s) |-> [op |-> s[i], fd |-> other.fd]]
  BY DEF OtherCallback
<1> HIDE DEF space, filled, s
<1>5. /\ s \in Seq({"fdRead", "fdWrite"}) /\ Len(s) \in 0..2
      /\ \A i \in 2..Len(s) : s[i] = "fdWrite"
  BY <1>3, EventsAre
<1>6. /\ stack' \in Seq(Ops) /\ Len(stack') = Len(s) /\ stack' # <<>>
      /\ \A i \in 1..Len(s) : stack'[i].fd = other.fd /\ stack'[i].op \in {"fdRead", "fdWrite"}
      /\ \A i \in 2..Len(stack') : stack'[i].op = "fdWrite"
  BY <1>2, <1>4, <1>5, CallbackStack
<1> QED BY <1>1, <1>2, <1>6

LEMMA OtherCallbackStep ==
    ASSUME TlsInv, OtherCallback
    PROVE  SessionInv'
<1> USE DEF TlsInv, SessionInv, OtherInv
<1>1. /\ connects > 1 /\ stack' \in Seq(Ops) /\ stack' # <<>>
      /\ \A i \in 1..Len(stack') : stack'[i].op \in {"fdRead", "fdWrite"}
      /\ \A i \in 2..Len(stack') : stack'[i].op = "fdWrite"
  BY OtherReported
<1>2. /\ Idle
      /\ UNCHANGED <<mState, tlsFailed, mFd, conn, inbox, room, want, ready, mMode, session, bio, hs, wpend, asked,
                     flights, readWaitState, writeWaitState, unread, mPendingWrites, out, plain, resent,
                     crowded, data, closed, inside, late, connects, writes>>
  BY DEF OtherCallback, sslVars, waitVars, writeVars, quietVars, programVars
<1>3. stack = <<>> /\ 1..Len(stack) = {} /\ ~(connects <= 1) /\ connects # 0
  <2>1. connects \in Nat
    <3>1. connects \in 0..MaxConnects
      BY DEF TlsTyped
    <3> QED BY <3>1, TlsBounds
  <2> QED BY <1>1, <1>2, <2>1 DEF Idle
<1>4. stack'[1].op \in {"fdRead", "fdWrite"}
  <2>1. 1 \in 1..Len(stack')
    BY <1>1, TailIs
  <2> QED BY <1>1, <2>1
<1>5. TlsTyped' /\ WriteLists'
  BY <1>1, <1>2 DEF TlsTyped, WriteLists
<1>6. Flags'
  BY <1>2, Zenon DEF Flags
<1>7. Descriptor' /\ Handshake'
  BY <1>2, <1>3 DEF Descriptor, Handshake, Live
<1>8. Steps'
  BY <1>1, <1>4 DEF Steps, Prompt
<1>9. Stages'
  <2>1. ~closed => ~(mState = "Handshaking" /\ bio = 0)
    BY <1>3 DEF Stages
  <2> QED BY <1>2, <2>1 DEF Stages
<1>10. WaitStates' /\ GivenUp' /\ Reads'
  BY <1>2, <1>3 DEF WaitStates, GivenUp, Reads
<1>11. Sending'
  BY <1>2, <1>3 DEF Sending
<1>12. Readers'
  BY <1>1, <1>2, <1>3 DEF Readers
<1> QED BY <1>5, <1>6, <1>7, <1>8, <1>9, <1>10, <1>11, <1>12

-----------------------------------------------------------------------------
(* write() *)

\* A sequence of the first numbers is one of more of them.
LEMMA WiderSeq ==
    ASSUME NEW n \in Nat, NEW s \in Seq(1..n)
    PROVE  s \in Seq(1..(n + 1))
<1>1. \A i \in 1..Len(s) : s[i] \in 1..(n + 1)
  <2>1. \A i \in 1..Len(s) : s[i] \in 1..n
    BY ElementOfSeq
  <2> QED BY <2>1
<1>2. Len(s) \in Nat /\ s = [i \in 1..Len(s) |-> s[i]]
  BY LenProperties
<1>3. s \in [1..Len(s) -> 1..(n + 1)]
  BY <1>1, <1>2
<1> QED BY <1>2, <1>3, SeqDef

\* The numbers in order: what has been sent, and then what is pending.
LEMMA OneMoreWrite ==
    ASSUME NEW n \in Nat, NEW a \in Seq(1..n), NEW b \in Seq(1..n), a \o b = [i \in 1..n |-> i]
    PROVE  a \o Append(b, n + 1) = [i \in 1..(n + 1) |-> i]
<1> DEFINE T == 1..(n + 1)
           c == Append(b, n + 1)
           s == a \o c
           f == [i \in 1..(n + 1) |-> i]
           k == Len(a)
           m == Len(b)
<1>1. a \in Seq(T) /\ b \in Seq(T) /\ n + 1 \in T
  BY WiderSeq
<1>2. k \in Nat /\ m \in Nat
  BY LenProperties
<1>3. Len(a \o b) = k + m /\ \A i \in 1..(k + m) : (a \o b)[i] = IF i <= k THEN a[i] ELSE b[i - k]
  <2>1. a \in Seq(1..n) /\ b \in Seq(1..n)
    OBVIOUS
  <2> QED BY ONLY <2>1, ConcatProperties
<1>4. k + m = n
  <2>1. DOMAIN (a \o b) = 1..(k + m)
    BY <1>3, <1>2, ConcatProperties, LenProperties
  <2>2. DOMAIN (a \o b) = 1..n
    OBVIOUS
  <2>3. 1..(k + m) = 1..n
    BY <2>1, <2>2
  <2> HIDE DEF k, m
  <2> QED BY <1>2, <2>3
<1>5. \A i \in 1..n : i = IF i <= k THEN a[i] ELSE b[i - k]
  BY <1>3, <1>4
<1> HIDE DEF T
<1>6. /\ c \in Seq(T) /\ Len(c) = m + 1 /\ c[m + 1] = n + 1
      /\ \A i \in 1..m : c[i] = b[i]
  BY <1>1, AppendProperties
<1> HIDE DEF c
<1>7. /\ s \in Seq(T) /\ Len(s) = k + (m + 1)
      /\ \A i \in 1..(k + (m + 1)) : s[i] = IF i <= k THEN a[i] ELSE c[i - k]
  <2>1. /\ a \o c \in Seq(T) /\ Len(a \o c) = Len(a) + Len(c)
        /\ \A i \in 1..(Len(a) + Len(c)) : (a \o c)[i] = IF i <= Len(a) THEN a[i] ELSE c[i - Len(a)]
    BY <1>1, <1>6, ConcatProperties
  <2> QED BY <1>6, <2>1
<1> HIDE DEF s, k, m
<1>8. ASSUME NEW i \in 1..(n + 1) PROVE s[i] = i
  <2>1. i \in 1..(k + (m + 1))
    BY <1>2, <1>4
  <2>2. CASE i <= k
    <3>1. i \in 1..n
      BY <1>2, <1>4, <2>2
    <3> QED BY <1>5, <1>7, <2>1, <2>2, <3>1
  <2>3. CASE ~(i <= k) /\ i <= n
    <3>1. i \in 1..n /\ i - k \in 1..m
      BY <1>2, <1>4, <2>3
    <3>2. s[i] = c[i - k] /\ c[i - k] = b[i - k] /\ i = b[i - k]
      BY <1>5, <1>6, <1>7, <2>1, <2>3, <3>1
    <3> QED BY <3>2
  <2>4. CASE i = n + 1
    <3>1. ~(i <= k) /\ i - k = m + 1
      BY <1>2, <1>4, <2>4
    <3> QED BY <1>6, <1>7, <2>1, <2>4, <3>1
  <2> QED BY <2>2, <2>3, <2>4
<1>9. Len(s) = n + 1
  BY <1>2, <1>4, <1>7
<1>10. s = [i \in 1..(n + 1) |-> s[i]]
  BY <1>7, <1>9, LenProperties
<1>11. s = f
  BY <1>8, <1>10
<1> QED BY <1>11 DEF s, c

\* write().
LEMMA WriteStep ==
    ASSUME TlsInv, Write
    PROVE  SessionInv'
<1> USE DEF TlsInv, SessionInv, OtherInv
<1>1. /\ ProgramRuns /\ writes < MaxWrites /\ writes' = writes + 1
      /\ mPendingWrites' = Append(mPendingWrites, writes + 1)
      /\ stack' = (IF mState = "Connected" THEN <<[op |-> "write", fd |-> mFd]>> ELSE <<>>) \o stack
      /\ tlsFailed' = IF mState # "Connected" THEN tlsFailed
                     ELSE IF mFd = 0 THEN "no fd" ELSE IF other # NoOther THEN "two" ELSE tlsFailed
      /\ UNCHANGED <<mState, mFd, conn, inbox, room, want, ready, mMode, session, bio, hs, wpend, asked,
                     flights, readWaitState, writeWaitState, out, plain, resent, unread, crowded, data,
                     odd, closed, inside, late, connects>>
  BY DEF Write, fdVars, sslVars, waitVars
<1>2. tlsFailed = "none" /\ (stack = <<>> \/ stack[1].op \in {"onState", "onData"})
  BY <1>1, ProgramRunsIs
<1>3. /\ writes \in Nat /\ writes' \in 0..MaxWrites /\ mPendingWrites \in Seq(1..writes) /\ wpend \in 0..writes
      /\ out \in Seq(1..writes) /\ plain \in Seq(1..writes) /\ writes' > 0
  <2>1. writes \in 0..MaxWrites
    BY DEF WriteLists
  <2>3. writes < MaxWrites /\ writes' = writes + 1
    BY <1>1
  <2>2. writes \in Nat /\ writes' \in 0..MaxWrites /\ writes' > 0
    BY <2>1, <2>3, TlsBounds
  <2> QED BY <2>2 DEF WriteLists
<1>4. WriteLists'
  <2>1. /\ out \in Seq(1..(writes + 1)) /\ plain \in Seq(1..(writes + 1))
        /\ mPendingWrites \in Seq(1..(writes + 1))
    BY <1>3, WiderSeq
  <2>2. writes + 1 \in 1..(writes + 1)
    BY <1>3
  <2>3. mPendingWrites' \in Seq(1..(writes + 1))
    BY <1>1, <2>1, <2>2, AppendProperties
  <2>4. wpend' \in 0..(writes + 1)
    <3>1. wpend \in 0..writes /\ writes \in Nat /\ wpend' = wpend
      BY <1>1, <1>3
    <3> QED BY <3>1
  <2> QED BY <1>1, <1>3, <2>1, <2>3, <2>4 DEF WriteLists
<1>5. Flags' /\ Handshake'
  <2>1. Flags'
    BY <1>1 DEF Flags
  <2> QED BY <1>1, <2>1 DEF Handshake, Live
<1>6. ~resent /\ plain = <<>> => (out \o mPendingWrites = [i \in 1..writes |-> i])'
  <2> SUFFICES ASSUME ~resent, plain = <<>>
               PROVE  out' \o mPendingWrites' = [i \in 1..writes' |-> i]
    OBVIOUS
  <2>1. out \o mPendingWrites = [i \in 1..writes |-> i]
    BY DEF Sending
  <2>2. out \o Append(mPendingWrites, writes + 1) = [i \in 1..(writes + 1) |-> i]
    BY <1>3, <2>1, OneMoreWrite
  <2> QED BY <1>1, <2>2
<1>7. CASE mState # "Connected"
  <2>1. stack' = stack /\ tlsFailed' = tlsFailed
    <3>1. stack' = <<>> \o stack /\ tlsFailed' = tlsFailed
      BY <1>1, <1>7
    <3>2. stack \in Seq(Ops)
      BY DEF TlsTyped
    <3>3. <<>> \o stack = stack
      BY <3>2, ConcatEmptySeq
    <3> QED BY <3>1, <3>3
  <2>2. TlsTyped'
    BY <1>1, <2>1 DEF TlsTyped
  <2>3. Descriptor' /\ Steps' /\ Stages'
    BY <1>1, <2>1 DEF Descriptor, Steps, TakesTLS, Prompt, Soon, Fresh, Live, Stages
  <2>4. WaitStates'
    BY <1>1, <1>3, <2>1 DEF WaitStates
  <2>5. Sending'
    BY <1>1, <1>6, <1>7 DEF Sending
  <2>6. GivenUp' /\ Reads' /\ Readers'
    BY <1>1, <2>1 DEF GivenUp, Reads, Readers
  <2> QED BY <1>4, <1>5, <2>2, <2>3, <2>4, <2>5, <2>6
<1>8. CASE mState = "Connected"
  <2> DEFINE w == [op |-> "write", fd |-> mFd]
  <2>1. w \in Ops /\ w.op = "write"
    <3>1. mFd \in 0..MaxConnects
      <4>1. connects \in 0..MaxConnects /\ mFd \in 0..connects
        BY DEF TlsTyped
      <4> QED BY <4>1, TlsBounds
    <3> QED BY <3>1 DEF Ops
  <2>2. stack' = <<w>> \o stack
    BY <1>1, <1>8
  <2> HIDE DEF w
  <2>3. /\ stack' \in Seq(Ops) /\ Len(stack) \in Nat /\ Len(stack') = 1 + Len(stack)
        /\ stack'[1] = w /\ \A i \in 2..(1 + Len(stack)) : stack'[i] = stack[i - 1]
    <3> DEFINE p == <<w>>
    <3>1. p \in Seq(Ops) /\ Len(p) = 1 /\ p[1] = w /\ stack' = p \o stack
      BY <2>1, <2>2
    <3> HIDE DEF p
    <3>2. /\ stack' \in Seq(Ops) /\ Len(stack) \in Nat /\ Len(stack') = Len(p) + Len(stack)
          /\ \A i \in 1..Len(p) : stack'[i] = p[i]
          /\ \A i \in (Len(p) + 1)..(Len(p) + Len(stack)) : stack'[i] = stack[i - Len(p)]
      BY <3>1, OnTop
    <3> QED BY <3>1, <3>2
  <2>4. stack' # <<>> /\ stack'[1].op = "write" /\ 1 \in 1..Len(stack')
    <3>1. Len(stack') # 0
      BY <2>3
    <3> QED BY <2>1, <2>3, <3>1
  <2>5. ASSUME NEW i \in 1..Len(stack')
        PROVE  i = 1 \/ (i \in 2..Len(stack') /\ i - 1 \in 1..Len(stack) /\ stack'[i] = stack[i - 1])
    <3>1. i = 1 \/ i \in 2..(1 + Len(stack))
      BY <2>3
    <3>2. i \in 2..(1 + Len(stack)) => i - 1 \in 1..Len(stack)
      BY <2>3
    <3> QED BY <2>3, <3>1, <3>2
  <2>6. ASSUME NEW k \in 1..Len(stack)
        PROVE  \E i \in 1..Len(stack') : stack'[i] = stack[k]
    <3>1. k + 1 \in 2..(1 + Len(stack)) /\ k + 1 \in 1..Len(stack') /\ (k + 1) - 1 = k
      BY <2>3
    <3> QED BY <2>3, <3>1
  <2>7. tlsFailed' \in {"none", "no fd", "two"} /\ (tlsFailed' = "no fd" => mFd = 0)
    BY <1>1, <1>2
  <2>8. TlsTyped'
    BY <1>1, <2>3, <2>7 DEF TlsTyped
  <2>9. Descriptor'
    BY <1>1, <1>8 DEF Descriptor
  <2>10. ASSUME NEW i \in 1..Len(stack')
         PROVE  /\ stack'[i].op \notin {"fdRead", "connectTLS", "read"}
                /\ Fresh \/ ~closed => stack'[i].op # "startTLS"
                /\ ~closed => stack'[i].op \notin {"drop", "close"}
    <3>1. CASE i = 1
      BY <2>4, <3>1
    <3>2. CASE i # 1
      <4>1. i - 1 \in 1..Len(stack) /\ stack'[i] = stack[i - 1]
        BY <2>5, <3>2
      <4>2. stack[i - 1].op \notin {"fdRead", "connectTLS", "read"}
        BY <1>1, <4>1, NotWaitingSteps
      <4> QED BY <1>8, <4>1, <4>2 DEF Steps, TakesTLS, Prompt, Fresh
    <3> QED BY <3>1, <3>2
  <2>11. Steps'
    <3>1. \A i \in 2..Len(stack') : i \in 1..Len(stack')
      BY <2>3
    <3> QED BY <1>1, <2>4, <2>10, <3>1 DEF Steps, TakesTLS, Prompt, Fresh
  <2>12. Stages'
    BY <1>1, <1>8 DEF Stages
  <2>13. WaitStates'
    BY <1>1, <1>3, <1>8, <2>7 DEF WaitStates, Stages
  <2>14. Sending'
    BY <1>1, <1>6, <2>4 DEF Sending
  <2>15. GivenUp'
    <3> SUFFICES ASSUME ~closed, connects <= 1
                 PROVE  /\ plain = <<>> \/ (mFd = 0 /\ mState = "Error")
                        /\ \A i \in 1..Len(stack') :
                             stack'[i].op = "write" /\ stack'[i].fd # 0 =>
                               \A j \in 1..Len(stack') : j < i => stack'[j].op \in Handling
      BY <1>1, <1>8 DEF GivenUp, Handling
    <3>1. plain = <<>> \/ (mFd = 0 /\ mState = "Error")
      BY DEF GivenUp
    <3>2. ASSUME NEW i \in 1..Len(stack'), stack'[i].op = "write", stack'[i].fd # 0,
                 NEW j \in 1..Len(stack'), j < i
          PROVE  stack'[j].op \in Handling
      <4>1. CASE j = 1
        BY <2>4, <4>1 DEF Handling
      <4>2. CASE j # 1
        <5>1. /\ i - 1 \in 1..Len(stack) /\ stack'[i] = stack[i - 1]
              /\ j - 1 \in 1..Len(stack) /\ stack'[j] = stack[j - 1] /\ j - 1 < i - 1
          <6>1. i # 1 /\ j \in 2..Len(stack')
            BY <2>3, <3>2, <4>2
          <6>2. j - 1 < i - 1
            BY <2>3, <3>2
          <6> QED BY <2>5, <4>2, <6>1, <6>2
        <5> QED BY <3>2, <5>1 DEF GivenUp, Handling
      <4> QED BY <4>1, <4>2
    <3> QED BY <3>1, <3>2
  <2>16. Reads'
    <3>1. ~(stack # <<>> /\ stack[1].op = "read")
      BY <1>2
    <3>2. ASSUME \A i \in 1..Len(stack) : stack[i].op \notin {"read", "reads"}, NEW i \in 1..Len(stack')
          PROVE  stack'[i].op \notin {"read", "reads"}
      BY <2>4, <2>5, <3>2
    <3> QED BY <1>1, <1>8, <3>1, <3>2 DEF Reads
  <2>17. Readers'
    <3>1. stack # <<>> => stack[1].op \notin {"fdRead", "read"}
      BY <1>2
    <3>2. (\E i \in 1..Len(stack) : stack[i].op = "reads") => \E i \in 1..Len(stack') : stack'[i].op = "reads"
      BY <2>6
    <3>3. (\E i \in 1..Len(stack) : stack[i].op = "fdWrite" /\ stack[i].fd = mFd)
          => \E i \in 1..Len(stack') : stack'[i].op = "fdWrite" /\ stack'[i].fd = mFd
      BY <2>6
    <3> QED BY <1>1, <2>4, <3>1, <3>2, <3>3 DEF Readers
  <2> QED BY <1>4, <1>5, <2>8, <2>9, <2>11, <2>12, <2>13, <2>14, <2>15, <2>16, <2>17
<1> QED BY <1>7, <1>8

-----------------------------------------------------------------------------
(* The descriptor goes *)

\* A step that gives up the descriptor, with its session or without.
LEMMA GoneStep ==
    ASSUME TlsInv, NEW n \in {0, 1}, Placed(n), n = 1 => stack'[1].op = "onState", Removes, tlsFailed = "none",
           stack[1].op \notin {"onState", "onData"}, stack[1].op # "write" \/ mState' = "Error",
           mState' \in {"Closed", "Error"} \/ (n = 0 /\ mState' = mState),
           ~closed => mState' \in {"Closed", "Error"} /\ (mFd # 0 \/ mState' = "Error"),
           \/ UNCHANGED <<mMode, session, bio, hs, wpend, asked, flights>> /\ (~closed => bio = 0)
           \/ mMode' = "Plain" /\ session' = FALSE /\ bio' = 0 /\ hs' = 0 /\ wpend' = 0 /\ asked' = FALSE
              /\ flights' = 0,
           UNCHANGED <<tlsFailed, waitVars, unread, odd, writeVars, quietVars>>
    PROVE  SessionInv'
<1> USE DEF TlsInv, SessionInv, OtherInv
<1>1. mFd' = 0 /\ conn' = "none" /\ inbox' = <<>> /\ room' = FALSE /\ want' = {} /\ ready' = FALSE
  BY DEF Removes
<1>2. UNCHANGED <<tlsFailed, readWaitState, writeWaitState, unread, mPendingWrites, out, plain, resent,
                  crowded, closed, inside, late, connects, writes>>
  BY DEF waitVars, writeVars, quietVars, programVars
<1>3. bio' = bio \/ bio' = 0
  OBVIOUS
<1>4. n \in 0..3 /\ \A i \in 1..n : i = 1
  OBVIOUS
<1>5. \A i \in 1..n : stack'[i].op = "onState"
  BY <1>4
<1>6. mState' = mState \/ mState' \in {"Closed", "Error"}
  OBVIOUS
<1>7. connects # 0
  BY DEF Descriptor, Placed
<1>8. TlsTyped'
  <2>1. connects \in Nat /\ 0 \in 0..connects /\ 0 \in 0..Flights /\ <<>> \in Seq({"flight", "data"})
    <3>1. connects \in 0..MaxConnects
      BY DEF TlsTyped
    <3> QED BY <3>1, TlsBounds
  <2>2. stack' \in Seq(Ops)
    BY DEF Placed
  <2>3. bio' \in 0..connects /\ hs' \in Nat /\ flights' \in 0..Flights
    <3>1. bio \in 0..connects /\ hs \in Nat /\ flights \in 0..Flights
      BY DEF TlsTyped
    <3>2. bio' \in {bio, 0} /\ hs' \in {hs, 0} /\ flights' \in {flights, 0}
      OBVIOUS
    <3> QED BY <2>1, <3>1, <3>2
  <2> QED BY <1>1, <1>2, <1>6, <2>1, <2>2, <2>3 DEF TlsTyped
<1>9. Flags'
  <2>1. /\ mMode' \in {"Plain", "TLS"} /\ session' \in BOOLEAN /\ (session' <=> mMode' = "TLS")
        /\ asked' \in BOOLEAN
    <3>1. CASE UNCHANGED <<mMode, session, asked>>
      BY <3>1 DEF Flags
    <3>2. CASE mMode' = "Plain" /\ session' = FALSE /\ asked' = FALSE
      BY <3>2
    <3> QED BY <3>1, <3>2
  <2> QED BY <1>1, <1>2, <2>1 DEF Flags
<1>10. WriteLists'
  <2>1. 0 \in 0..writes
    <3>1. writes \in 0..MaxWrites
      BY DEF WriteLists
    <3> QED BY <3>1, TlsBounds
  <2>2. wpend' \in 0..writes
    BY <2>1 DEF WriteLists
  <2> QED BY <1>2, <2>2 DEF WriteLists
<1>11. Descriptor'
  BY <1>1, <1>2, <1>7 DEF Descriptor
<1>12. Handshake'
  <2>1. ~Live'
    BY <1>1 DEF Live
  <2>2. hs' <= flights' /\ (asked' => flights' < Flights)
    BY DEF Handshake
  <2> QED BY <1>1, <2>1, <2>2 DEF Handshake
<1>13. Steps'
  BY <1>2, <1>4, <1>5, StepsKept
<1>14. Stages'
  <2>1. session' /\ bio' = 0 => mState' # "Connected"
    BY <1>6 DEF Stages
  <2> QED BY <1>1, <1>2, <2>1 DEF Stages
<1>15. WaitStates'
  BY <1>2, <1>6 DEF WaitStates
<1>16. Sending'
  BY <1>1, <1>2 DEF Sending
<1>17. GivenUp'
  <2>1. ~closed /\ connects <= 1 =>
          /\ plain' # <<>> => mFd' = 0 /\ mState' = "Error"
          /\ mState = "Connected" \/ mFd = 0 => mState' = "Connected" \/ mFd' = 0
          /\ stack[1].op \in Handling /\ mState \in {"Connected", "Error"} => mState' \in {"Connected", "Error"}
    <3>1. ~closed /\ connects <= 1 /\ plain # <<>> => mFd = 0
      BY DEF GivenUp
    <3>2. stack[1].op \in Handling => mState' = "Error"
      BY DEF Handling
    <3> QED BY <1>1, <1>2, <3>1, <3>2
  <2> QED BY <1>2, <1>4, <1>5, <2>1, GivenUpMoved DEF Handling
<1>18. Reads'
  <2>1. ASSUME connects <= 1, mState' \in {"Idle", "Connecting", "Handshaking"} \/ unread'
        PROVE  /\ readWaitState = "SSLNotWaiting"
               /\ \A j \in 1..Len(stack') : stack'[j].op \notin {"read", "reads"}
    <3>1. mState \in {"Idle", "Connecting", "Handshaking"} \/ unread
      BY <1>2, <2>1
    <3>2. /\ readWaitState = "SSLNotWaiting"
          /\ \A i \in 1..Len(stack) : stack[i].op \notin {"read", "reads"}
      BY <2>1, <3>1 DEF Reads
    <3>3. ASSUME NEW j \in 1..Len(stack')
          PROVE  j \in 1..n \/ (j - n + 1 \in 1..Len(stack) /\ stack'[j] = stack[j - n + 1])
      BY DEF Placed
    <3> QED BY <1>5, <3>2, <3>3
  <2>2. Len(inbox') <= 1
    BY <1>1
  <2> QED BY <1>1, <1>2, <2>1, <2>2 DEF Reads
<1>19. Readers'
  BY <1>1 DEF Readers
<1> QED BY <1>8, <1>9, <1>10, <1>11, <1>12, <1>13, <1>14, <1>15, <1>16, <1>17, <1>18, <1>19

\* The descriptor of a failed attempt is closed.
LEMMA DropFdStep ==
    ASSUME TlsInv, DropFd
    PROVE  SessionInv'
<1> USE DEF TlsInv, SessionInv, OtherInv
<1>1. stack # <<>> /\ stack[1].op = "drop"
  BY RunningIs DEF DropFd
<1>2. Placed(0)
  BY <1>1, ThenNone DEF DropFd
<1>3. /\ Removes /\ mState' = mState
      /\ UNCHANGED <<mMode, session, bio, hs, wpend, asked, flights>>
      /\ UNCHANGED <<tlsFailed, waitVars, unread, odd, writeVars, quietVars>>
  BY DEF DropFd, sslVars
<1>4. ~closed => mState = "Error" /\ mFd # 0 /\ bio = 0
  <2>1. 1 \in 1..Len(stack)
    BY <1>2 DEF Placed
  <2> QED BY <1>1, <2>1 DEF Steps, TakesTLS, Prompt
<1>5. /\ mState' \in {"Closed", "Error"} \/ (0 = 0 /\ mState' = mState)
      /\ ~closed => mState' \in {"Closed", "Error"} /\ (mFd # 0 \/ mState' = "Error")
  BY <1>3, <1>4
<1>6. stack[1].op \notin {"onState", "onData"} /\ stack[1].op # "write" /\ tlsFailed = "none"
  BY <1>1, RunningIs DEF DropFd
<1>7. 0 \in {0, 1} /\ 0 # 1
  OBVIOUS
<1> QED BY <1>2, <1>3, <1>4, <1>5, <1>6, <1>7, GoneStep

\* The descriptor goes after the program was told of the end.
LEMMA CloseToldStep ==
    ASSUME TlsInv, CloseTold
    PROVE  SessionInv'
<1> USE DEF TlsInv, SessionInv, OtherInv
<1>1. stack # <<>> /\ stack[1].op = "close"
  BY RunningIs DEF CloseTold
<1>2. Placed(0)
  BY <1>1, ThenNone DEF CloseTold
<1>3. /\ Removes /\ mState' = mState
      /\ mMode' = "Plain" /\ session' = FALSE /\ bio' = 0 /\ hs' = 0 /\ wpend' = 0 /\ asked' = FALSE
      /\ flights' = 0
      /\ UNCHANGED <<tlsFailed, waitVars, unread, odd, writeVars, quietVars>>
  BY DEF CloseTold, Closes
<1>4. ~closed => mState \in {"Closed", "Error"} /\ mFd # 0
  <2>1. 1 \in 1..Len(stack)
    BY <1>2 DEF Placed
  <2> QED BY <1>1, <2>1 DEF Steps, TakesTLS, Prompt
<1>5. /\ mState' \in {"Closed", "Error"} \/ (0 = 0 /\ mState' = mState)
      /\ ~closed => mState' \in {"Closed", "Error"} /\ (mFd # 0 \/ mState' = "Error")
  BY <1>3, <1>4
<1>6. stack[1].op \notin {"onState", "onData"} /\ stack[1].op # "write" /\ tlsFailed = "none"
  BY <1>1, RunningIs DEF CloseTold
<1>7. 0 \in {0, 1} /\ 0 # 1
  OBVIOUS
<1> QED BY <1>2, <1>3, <1>4, <1>5, <1>6, <1>7, GoneStep

\* A read that ends the connection.
LEMMA ReadEndsStep ==
    ASSUME TlsInv, ReadEnds
    PROVE  SessionInv'
<1> USE DEF TlsInv, SessionInv, OtherInv
<1>1. stack # <<>> /\ stack[1].op \in {"read", "reads"} /\ mFd # 0 /\ tlsFailed = "none"
  BY ReadingIs DEF ReadEnds, ReadingOne
<1>2. PICK state \in EndStates : Ends(state)
  BY DEF ReadEnds
<1>3. mState' \in {"Closed", "Error"}
  BY <1>2 DEF EndStates, Ends
<1>4. Placed(1) /\ stack'[1].op = "onState"
  BY <1>1, <1>2, ThenOne DEF Ends, OpNames
<1>5. /\ Removes
      /\ mMode' = "Plain" /\ session' = FALSE /\ bio' = 0 /\ hs' = 0 /\ wpend' = 0 /\ asked' = FALSE
      /\ flights' = 0
      /\ UNCHANGED <<tlsFailed, waitVars, unread, odd, writeVars, quietVars>>
  BY <1>2 DEF ReadEnds, Ends, Closes
<1> QED BY <1>1, <1>3, <1>4, <1>5, GoneStep

\* A write that fails.
LEMMA WriteFailsStep ==
    ASSUME TlsInv, WriteFails
    PROVE  SessionInv'
<1> USE DEF TlsInv, SessionInv, OtherInv
<1>1. stack # <<>> /\ stack[1].op = "write" /\ tlsFailed = "none"
  BY RunningIs DEF WriteFails
<1>2. Ends("Error")
  BY DEF WriteFails
<1>3. mState' = "Error"
  BY <1>2 DEF Ends
<1>4. Placed(1) /\ stack'[1].op = "onState"
  BY <1>1, <1>2, ThenOne DEF Ends, OpNames
<1>5. /\ Removes
      /\ mMode' = "Plain" /\ session' = FALSE /\ bio' = 0 /\ hs' = 0 /\ wpend' = 0 /\ asked' = FALSE
      /\ flights' = 0
      /\ UNCHANGED <<tlsFailed, waitVars, unread, odd, writeVars, quietVars>>
  BY <1>2 DEF WriteFails, Ends, Closes
<1> QED BY <1>1, <1>3, <1>4, <1>5, GoneStep

-----------------------------------------------------------------------------
(* The handshake *)

\* The session gets the descriptor.
LEMMA StartTLSStep ==
    ASSUME TlsInv, StartTLS
    PROVE  SessionInv'
<1> USE DEF TlsInv, SessionInv, OtherInv
<1>1. /\ stack # <<>> /\ stack[1].op = "startTLS"
      /\ UNCHANGED <<mState, fdVars, mMode, session, hs, wpend, asked, flights, waitVars, unread, odd,
                     writeVars, quietVars>>
  BY RunningIs DEF StartTLS
<1>2. UNCHANGED <<mState, mFd, conn, inbox, room, want, ready, mMode, session, hs, wpend, asked, flights,
                  readWaitState, writeWaitState, unread, odd, mPendingWrites, out, plain, resent,
                  crowded, data, closed, inside, late, connects, writes>>
  BY <1>1 DEF fdVars, waitVars, writeVars, quietVars, programVars
<1>3. Prompt(1) /\ connects # 0
  <2>1. 1 \in 1..Len(stack)
    <3>1. Len(stack) \in Nat /\ Len(stack) >= 1
      BY <1>1, TailIs DEF TlsTyped
    <3> QED BY <3>1
  <2>2. connects # 0
    BY <1>1 DEF Descriptor
  <2> QED BY <2>1, <2>2 DEF Steps
<1>4. CASE session /\ bio = 0 /\ bio' = mFd /\ Then(<<"connectTLS">>) /\ UNCHANGED tlsFailed
  <2>1. Placed(1) /\ stack'[1].op = "connectTLS" /\ stack' # <<>> /\ stack' \in Seq(Ops)
    <3>1. Placed(1) /\ stack'[1].op = "connectTLS"
      BY <1>1, <1>4, ThenOne DEF OpNames
    <3>2. stack' \in Seq(Ops) /\ Len(stack') # 0
      BY <3>1 DEF Placed
    <3> QED BY <3>1, <3>2
  <2>2. mState # "Connected"
    BY <1>4 DEF Stages
  <2>3. 1 \in 0..3 /\ \A i \in 1..1 : i = 1
    OBVIOUS
  <2>4. TlsTyped'
    BY <1>2, <1>4, <2>1 DEF TlsTyped
  <2>5. Flags' /\ WriteLists'
    BY <1>2, <1>4 DEF Flags, WriteLists
  <2>6. Descriptor'
    BY <1>2, <1>3, <1>4, <2>1 DEF Descriptor
  <2>7. Handshake'
    <3>1. hs = 0 /\ flights = 0 /\ ~asked /\ inbox = <<>>
      BY <1>4 DEF Descriptor
    <3> QED BY <1>2, <3>1 DEF Handshake
  <2>8. Steps'
    <3>1. TakesTLS'
      BY <1>1, <1>2, <1>3, <1>4, <2>2 DEF TakesTLS, Prompt, Fresh, Live
    <3>2. Prompt(1)'
      BY <2>1 DEF Prompt
    <3> QED BY <1>1, <1>2, <2>1, <2>3, <3>1, <3>2, StepsMoved
  <2>9. Stages'
    BY <1>1, <1>2, <1>3, <1>4, <2>2 DEF Stages, Prompt, Fresh
  <2>10. WaitStates'
    BY <1>2, <1>4 DEF WaitStates
  <2>11. Sending'
    BY <1>1, <1>2, <2>1, <2>3, SendingKept
  <2>12. GivenUp'
    BY <1>1, <1>2, <2>1, <2>3, GivenUpKept DEF Handling
  <2>13. Reads'
    <3>1. ASSUME \A i \in 1..Len(stack) : stack[i].op \notin {"read", "reads"}, NEW j \in 1..Len(stack')
          PROVE  stack'[j].op \notin {"read", "reads"}
      <4>1. j = 1 \/ (j \in 1..Len(stack) /\ stack'[j] = stack[j])
        BY <2>1 DEF Placed
      <4> QED BY <2>1, <3>1, <4>1
    <3> QED BY <1>2, <2>2, <3>1 DEF Reads
  <2>14. Readers'
    BY <1>2, <2>2 DEF Readers
  <2> QED BY <2>4, <2>5, <2>6, <2>7, <2>8, <2>9, <2>10, <2>11, <2>12, <2>13, <2>14
<1>5. CASE ~(session /\ bio = 0) /\ tlsFailed' = "session" /\ UNCHANGED <<bio, stack>>
  <2>1. closed \/ late
    BY <1>1, <1>3, <1>5 DEF Prompt, Descriptor
  <2>2. UNCHANGED <<mState, stack, fdVars, sslVars, waitVars, writeVars, unread, odd, quietVars>>
    BY <1>1, <1>5 DEF sslVars
  <2> QED BY <1>5, <2>1, <2>2, AssertionFails
<1> QED BY <1>4, <1>5 DEF StartTLS

\* The flight that is there is read, and then it is the client's turn or data comes.
LEMMA FlightRead ==
    ASSUME TlsInv, ReadsFlight
    PROVE  /\ Live /\ mFd # 0 /\ bio # 0 /\ hs' \in Nat /\ hs' <= flights /\ flights \in Nat
           /\ inbox' \in Seq({"flight", "data"})
           /\ Len(inbox') \in Nat /\ Len(inbox) \in Nat /\ Len(inbox') <= Len(inbox)
           /\ inbox = <<>> => inbox' = <<>>
           /\ hs' = Got /\ (hs = Flights => hs' = Flights /\ inbox' = inbox)
           /\ conn = "reset" => inbox' = <<>>
           /\ conn # "reset" =>
                /\ hs' = flights
                /\ \A i \in 1..Len(inbox') : inbox'[i] = "data"
                /\ inbox' # <<>> => flights = Flights
           /\ UNCHANGED <<mFd, conn, mMode, session, bio, wpend, flights>>
<1> USE DEF TlsInv, SessionInv, OtherInv
<1>1. /\ Live /\ hs' = Got /\ inbox' = (IF FlightIn THEN Tail(inbox) ELSE inbox)
      /\ UNCHANGED <<mFd, conn, mMode, session, bio, wpend, flights>>
  BY DEF ReadsFlight
<1>2. mFd # 0 /\ bio # 0
  BY <1>1 DEF Live
<1>3. hs \in Nat /\ flights \in 0..Flights /\ inbox \in Seq({"flight", "data"}) /\ Len(inbox) \in Nat
  BY LenProperties DEF TlsTyped
<1>4. flights \in Nat /\ Flights \in Nat /\ flights <= Flights /\ hs <= flights
  <2>1. hs <= flights
    BY DEF Handshake
  <2> QED BY <1>3, <2>1, TlsBounds
<1>5. CASE FlightIn
  <2>1. inbox # <<>> /\ Head(inbox) = "flight"
    BY <1>5 DEF FlightIn
  <2>2. /\ Tail(inbox) \in Seq({"flight", "data"}) /\ Len(Tail(inbox)) = Len(inbox) - 1 /\ Len(inbox) >= 1
        /\ \A i \in 1..(Len(inbox) - 1) : Tail(inbox)[i] = inbox[i + 1]
        /\ Head(inbox) = inbox[1]
    BY <1>3, <2>1, TailIs
  <2>3. hs' = hs + 1 /\ inbox' = Tail(inbox)
    BY <1>1, <1>5 DEF Got
  <2>4. conn # "reset"
    BY <2>1 DEF Handshake
  <2>5. /\ hs + 1 = flights /\ (Len(inbox) > 1 => flights = Flights)
        /\ \A i \in 2..Len(inbox) : inbox[i] = "data"
    <3>1. 1 \in 1..Len(inbox) /\ inbox[1] # "data"
      BY <1>3, <2>1, <2>2
    <3> QED BY <1>1, <2>1, <2>4, <3>1 DEF Handshake
  <2>6. ASSUME NEW i \in 1..Len(inbox') PROVE inbox'[i] = "data"
    <3>1. i \in 1..(Len(inbox) - 1) /\ i + 1 \in 2..Len(inbox)
      BY <1>3, <2>2, <2>3
    <3> QED BY <2>2, <2>3, <2>5, <3>1
  <2>7. inbox' # <<>> => flights = Flights
    <3>1. inbox' # <<>> => Len(inbox') # 0
      BY <2>2, <2>3, EmptySeq
    <3>2. Len(inbox') # 0 => Len(inbox) > 1
      BY <1>3, <2>2, <2>3
    <3> QED BY <2>5, <3>1, <3>2
  <2>8. /\ hs' \in Nat /\ hs' <= flights /\ hs # Flights /\ hs' = flights
    BY <1>3, <1>4, <2>3, <2>5
  <2>9. /\ inbox' \in Seq({"flight", "data"}) /\ Len(inbox') \in Nat /\ Len(inbox') <= Len(inbox)
    BY <1>3, <2>2, <2>3
  <2> QED BY <1>1, <1>2, <1>3, <1>4, <2>1, <2>4, <2>6, <2>7, <2>8, <2>9
<1>6. CASE ~FlightIn
  <2>1. hs' = hs /\ inbox' = inbox
    <3>1. hs' = hs + 0 /\ inbox' = inbox
      BY <1>1, <1>6 DEF Got
    <3> QED BY <1>3, <3>1
  <2>2. inbox = <<>> \/ inbox[1] # "flight"
    BY <1>3, <1>6, TailIs DEF FlightIn
  <2>3. conn = "reset" => inbox = <<>>
    BY DEF Handshake
  <2>4. conn # "reset" =>
          /\ hs = flights
          /\ \A i \in 1..Len(inbox) : inbox[i] = "data"
          /\ inbox # <<>> => flights = Flights
    BY <1>1, <2>2 DEF Handshake
  <2>5. /\ hs' \in Nat /\ hs' <= flights /\ inbox' \in Seq({"flight", "data"})
        /\ Len(inbox') \in Nat /\ Len(inbox') <= Len(inbox)
    BY <1>3, <1>4, <2>1
  <2> QED BY <1>1, <1>2, <1>3, <1>4, <2>1, <2>3, <2>4, <2>5
<1> QED BY <1>5, <1>6

\* The flights stay in their order.
LEMMA FlightReadKeeps ==
    ASSUME TlsInv, ReadsFlight, asked' => flights < Flights
    PROVE  Handshake'
<1>1. /\ bio # 0 /\ hs' <= flights /\ flights \in Nat
      /\ conn = "reset" => inbox' = <<>>
      /\ conn # "reset" =>
           /\ hs' = flights
           /\ \A i \in 1..Len(inbox') : inbox'[i] = "data"
           /\ inbox' # <<>> => flights = Flights
      /\ UNCHANGED <<mFd, conn, bio, flights>>
  BY FlightRead
<1> QED BY <1>1 DEF Handshake

\* The handshake waits: for its turn, or for room.
LEMMA WantsIs ==
    ASSUME TlsInv, NEW event \in {"read", "write"}, HandshakeWants(event)
    PROVE  /\ ReadsFlight /\ Handshake' /\ asked' \in BOOLEAN /\ room' \in BOOLEAN
           /\ hs' \in Nat /\ hs' < Flights /\ hs # Flights
           /\ event = "write" => ~room'
           /\ event = "read" => conn = "up" /\ room' = room
           /\ room' => room
<1> USE DEF TlsInv, SessionInv, OtherInv
<1>1. ReadsFlight /\ Got < Flights
  BY DEF HandshakeWants
<1>2. \/ event = "write" /\ room' = FALSE /\ UNCHANGED asked
      \/ event = "read" /\ conn = "up" /\ asked' = TRUE /\ room' = room
  BY DEF HandshakeWants
<1>3. /\ hs' \in Nat /\ hs' = Got /\ (hs = Flights => hs' = Flights)
      /\ conn # "reset" => hs' = flights
  BY <1>1, FlightRead
<1>4. hs' < Flights /\ hs # Flights
  <2>1. hs' < Flights
    BY <1>1, <1>3
  <2> QED BY <1>3, <2>1, TlsBounds
<1>5. asked' => flights < Flights
  <2>1. asked => flights < Flights
    BY DEF Handshake
  <2>2. conn = "up" => flights < Flights
    BY <1>3, <1>4
  <2> QED BY <1>2, <2>1, <2>2
<1>6. Handshake'
  BY <1>1, <1>5, FlightReadKeeps
<1>7. asked' \in BOOLEAN /\ room' \in BOOLEAN
  BY <1>2 DEF Flags
<1>8. event = "write" => ~room'
  BY <1>2
<1>9. event = "read" => conn = "up" /\ room' = room
  BY <1>2
<1> QED BY <1>1, <1>3, <1>4, <1>6, <1>7, <1>8, <1>9

\* A read of the handshake's flight leaves these.
LEMMA FlightReadTyped ==
    ASSUME TlsInv, ReadsFlight, asked' \in BOOLEAN, room' \in BOOLEAN, ready' \in BOOLEAN,
           want' \in SUBSET {"in", "out"}, stack' \in Seq(Ops), stack # <<>>,
           mState' \in {mState, "Connected"}, unread' \in {unread, TRUE},
           readWaitState' \in {readWaitState} \cup ReadWaits, writeWaitState' \in Waits,
           UNCHANGED <<tlsFailed, writeVars, quietVars>>
    PROVE  TlsTyped' /\ Flags' /\ WriteLists' /\ Descriptor'
<1> USE DEF TlsInv, SessionInv, OtherInv
<1>1. UNCHANGED <<tlsFailed, mPendingWrites, out, plain, resent, crowded, data, closed, inside, late, connects, writes>>
  BY DEF writeVars, quietVars, programVars
<1>2. /\ Live /\ mFd # 0 /\ bio # 0 /\ hs' \in Nat /\ inbox' \in Seq({"flight", "data"})
      /\ UNCHANGED <<mFd, conn, mMode, session, bio, wpend, flights>>
  BY FlightRead
<1>3. TlsTyped'
  <2>1. mState' \in {"Idle", "Connecting", "Handshaking", "Connected", "Closed", "Error"}
    BY DEF TlsTyped
  <2>2. readWaitState' \in {"SSLNotWaiting"} \cup ReadWaits
    BY DEF TlsTyped
  <2> QED BY <1>1, <1>2, <2>1, <2>2 DEF TlsTyped
<1>4. Flags'
  <2>1. unread' \in BOOLEAN
    BY DEF Flags
  <2> QED BY <1>1, <1>2, <2>1 DEF Flags
<1>5. WriteLists'
  BY <1>1, <1>2 DEF WriteLists
<1>6. Descriptor'
  <2>1. connects # 0 /\ session
    BY <1>2 DEF Descriptor
  <2> QED BY <1>1, <1>2, <2>1 DEF Descriptor
<1> QED BY <1>3, <1>4, <1>5, <1>6

\* connectTLS is called while there is a handshake to go on with.
LEMMA ConnectTLSIs ==
    ASSUME TlsInv, stack # <<>>, stack[1].op = "connectTLS"
    PROVE  TakesTLS /\ connects # 0
<1> USE DEF TlsInv, SessionInv, OtherInv
<1>1. TakesTLS
  BY DEF Steps
<1>2. connects # 0
  BY DEF Descriptor
<1> QED BY <1>1, <1>2

\* connectTLS ends the handshake.
LEMMA ConnectedStep ==
    ASSUME TlsInv, stack # <<>>, stack[1].op = "connectTLS", tlsFailed = "none",
           HandshakeDone, mState' = "Connected", writeWaitState' = WhenConnected, unread' = TRUE,
           Then(<<"onState", "write">>), UNCHANGED <<want, ready>>,
           UNCHANGED <<readWaitState, tlsFailed, writeVars, quietVars>>
    PROVE  SessionInv'
<1> USE DEF TlsInv, SessionInv, OtherInv
<1>1. ReadsFlight /\ Got = Flights /\ UNCHANGED <<asked, room>>
  BY DEF HandshakeDone
<1>2. /\ Live /\ mFd # 0 /\ bio # 0 /\ hs' = Flights
      /\ Len(inbox') \in Nat /\ Len(inbox) \in Nat /\ Len(inbox') <= Len(inbox)
      /\ inbox = <<>> => inbox' = <<>>
      /\ UNCHANGED <<mFd, conn, mMode, session, bio, wpend, flights>>
  BY <1>1, FlightRead
<1>3. UNCHANGED <<tlsFailed, mPendingWrites, out, plain, resent, crowded, data, closed, inside, late, connects, writes>>
  BY DEF writeVars, quietVars, programVars
<1>4. /\ Placed(2) /\ stack'[1].op = "onState" /\ stack'[2].op = "write" /\ stack' \in Seq(Ops)
      /\ 2 \in 1..Len(stack') /\ 2 \in 0..3 /\ \A i \in 1..2 : i = 1 \/ i = 2
  <2>1. Placed(2) /\ stack'[1].op = "onState" /\ stack'[2].op = "write"
    BY ThenTwo DEF OpNames
  <2>2. stack' \in Seq(Ops) /\ 2 \in 1..Len(stack')
    BY <2>1 DEF Placed
  <2> QED BY <2>1, <2>2
<1>5. TakesTLS
  BY ConnectTLSIs
<1>6. connects <= 1 => mState = "Handshaking"
  BY <1>5 DEF TakesTLS, Fresh
<1>7. TlsTyped' /\ Flags' /\ WriteLists' /\ Descriptor'
  <2>1. asked' \in BOOLEAN /\ room' \in BOOLEAN /\ ready' \in BOOLEAN
    BY <1>1 DEF Flags
  <2>2. want' \in SUBSET {"in", "out"} /\ writeWaitState' \in Waits
    BY DEF TlsTyped, WhenConnected, Waits
  <2> QED BY <1>1, <1>4, <2>1, <2>2, FlightReadTyped
<1>8. Handshake'
  <2>1. asked' => flights < Flights
    BY <1>1 DEF Handshake
  <2> QED BY <1>1, <2>1, FlightReadKeeps
<1>9. Steps'
  <2>1. \A i \in 1..2 : stack'[i].op \notin {"fdRead", "connectTLS", "startTLS", "drop", "close"}
    BY <1>4
  <2>2. \A i \in 2..2 : stack'[i].op # "read"
    BY <1>4
  <2> QED BY <1>3, <1>4, <2>1, <2>2, StepsKept
<1>10. Stages'
  BY <1>2, <1>3 DEF Stages
<1>11. WaitStates'
  BY <1>3 DEF WaitStates, WhenConnected, ReadWaits
<1>12. Sending'
  BY <1>3, <1>4 DEF Sending
<1>13. GivenUp'
  <2> SUFFICES ASSUME ~closed, connects <= 1
               PROVE  /\ plain = <<>>
                      /\ \A i \in 1..Len(stack') : stack'[i].op = "write" /\ stack'[i].fd # 0 =>
                            \A j \in 1..Len(stack') : j < i => stack'[j].op \in Handling
    BY <1>3 DEF GivenUp, Handling
  <2>1. plain = <<>>
    BY <1>6 DEF GivenUp
  <2>2. ASSUME NEW i \in 1..Len(stack'), stack'[i].op = "write", stack'[i].fd # 0
        PROVE  i \in {1, 2}
    <3> SUFFICES ASSUME i \notin {1, 2} PROVE FALSE
      OBVIOUS
    <3>1. i - 2 + 1 \in 1..Len(stack) /\ stack'[i] = stack[i - 2 + 1]
      BY <1>4 DEF Placed
    <3> QED BY <1>6, <2>2, <3>1 DEF GivenUp
  <2>3. ASSUME NEW i \in {1, 2}, NEW j \in 1..Len(stack'), j < i PROVE stack'[j].op \in Handling
    <3>1. j = 1
      BY <1>4, <2>3 DEF Placed
    <3> QED BY <1>4, <3>1 DEF Handling
  <2> QED BY <2>1, <2>2, <2>3
<1>14. Reads'
  <2>1. mFd' # 0 => bio' = mFd' /\ hs' = Flights
    BY <1>2 DEF Live
  <2>2. ~crowded' => Len(inbox') <= 1 /\ (conn' = "shut" => inbox' = <<>>)
    <3>1. ~crowded => Len(inbox) <= 1 /\ (conn = "shut" => inbox = <<>>)
      BY DEF Reads
    <3>2. Len(inbox) <= 1 => Len(inbox') <= 1
      BY <1>2
    <3> QED BY <1>2, <1>3, <3>1, <3>2
  <2>3. connects <= 1 =>
          /\ readWaitState = "SSLNotWaiting"
          /\ \A i \in 1..Len(stack) : stack[i].op \notin {"read", "reads"}
    BY <1>6 DEF Reads
  <2>4. ASSUME connects <= 1, NEW j \in 1..Len(stack') PROVE stack'[j].op \notin {"read", "reads"}
    BY <1>4, <2>3, <2>4, Below
  <2> QED BY <1>3, <2>1, <2>2, <2>3, <2>4 DEF Reads
<1>15. Readers'
  BY DEF Readers
<1> QED BY <1>7, <1>8, <1>9, <1>10, <1>11, <1>12, <1>13, <1>14, <1>15

\* connectTLS waits.
LEMMA HandshakeWaitsStep ==
    ASSUME TlsInv, stack # <<>>, stack[1].op = "connectTLS", tlsFailed = "none",
           NEW event \in {"read", "write"}, HandshakeWants(event), writeWaitState' = WaitState(event),
           IF event = "write" THEN Watch(Top.fd, {"in", "out"}) ELSE UNCHANGED <<want, ready, other>>,
           Then(<<>>), UNCHANGED <<mState, unread>>,
           UNCHANGED <<readWaitState, tlsFailed, writeVars, quietVars>>
    PROVE  SessionInv'
<1> USE DEF TlsInv, SessionInv, OtherInv
<1>1. ReadsFlight /\ Handshake' /\ asked' \in BOOLEAN /\ room' \in BOOLEAN
  BY WantsIs
<1>2. /\ Live /\ mFd # 0 /\ bio # 0
      /\ Len(inbox') \in Nat /\ Len(inbox) \in Nat /\ Len(inbox') <= Len(inbox)
      /\ inbox = <<>> => inbox' = <<>>
      /\ UNCHANGED <<mFd, conn, mMode, session, bio, wpend, flights>>
  BY <1>1, FlightRead
<1>3. UNCHANGED <<tlsFailed, mPendingWrites, out, plain, resent, crowded, data, closed, inside, late, connects, writes>>
  BY DEF writeVars, quietVars, programVars
<1>4. Placed(0) /\ stack' \in Seq(Ops)
  <2>1. Placed(0)
    BY ThenNone
  <2> QED BY <2>1 DEF Placed
<1>5. mState # "Connected"
  BY ConnectTLSIs DEF TakesTLS
<1>6. ready' \in BOOLEAN /\ want' \in SUBSET {"in", "out"}
  <2>1. ready \in BOOLEAN /\ want \in SUBSET {"in", "out"}
    BY DEF TlsTyped, Flags
  <2>2. CASE UNCHANGED <<want, ready>>
    BY <2>1, <2>2
  <2>3. CASE Watch(Top.fd, {"in", "out"})
    BY <2>1, <2>3 DEF Watch
  <2> QED BY <2>2, <2>3
<1>7. writeWaitState' \in Waits /\ writeWaitState' \notin ReadWaits
  BY DEF WaitState, Waits, ReadWaits
<1>8. TlsTyped' /\ Flags' /\ WriteLists' /\ Descriptor'
  <2>1. writeWaitState' \in Waits
    BY <1>7
  <2> QED BY <1>1, <1>4, <1>6, <2>1, FlightReadTyped
<1>9. Steps' /\ Stages'
  <2>1. UNCHANGED <<mState, closed, late, mFd, bio, session, connects>>
    BY <1>2, <1>3
  <2> QED BY <1>4, <2>1, StepsKept, StagesKept
<1>10. WaitStates'
  BY <1>3, <1>5, <1>7 DEF WaitStates
<1>11. Sending'
  BY <1>3, <1>5 DEF Sending
<1>12. GivenUp'
  <2>1. UNCHANGED <<closed, connects, plain, mFd, mState>>
    BY <1>2, <1>3
  <2> QED BY <1>4, <2>1, GivenUpKept DEF Handling
<1>13. Reads'
  <2>1. ~crowded' => Len(inbox') <= 1 /\ (conn' = "shut" => inbox' = <<>>)
    <3>1. ~crowded => Len(inbox) <= 1 /\ (conn = "shut" => inbox = <<>>)
      BY DEF Reads
    <3>2. Len(inbox) <= 1 => Len(inbox') <= 1
      BY <1>2
    <3> QED BY <1>2, <1>3, <3>1, <3>2
  <2>2. ASSUME \A i \in 1..Len(stack) : stack[i].op \notin {"read", "reads"}, NEW j \in 1..Len(stack')
        PROVE  stack'[j].op \notin {"read", "reads"}
    BY <1>4, <2>2 DEF Placed
  <2> QED BY <1>3, <1>5, <2>1, <2>2 DEF Reads
<1>14. Readers'
  BY <1>5 DEF Readers
<1> QED BY <1>1, <1>8, <1>9, <1>10, <1>11, <1>12, <1>13, <1>14

\* connectTLS fails.
LEMMA HandshakeFailsStep ==
    ASSUME TlsInv, stack # <<>>, stack[1].op = "connectTLS", tlsFailed = "none",
           HandshakeFails, mState' \in EndStates, Then(<<"onState", "close">>),
           UNCHANGED <<writeWaitState, fdVars, sslVars, unread, odd>>,
           UNCHANGED <<readWaitState, tlsFailed, writeVars, quietVars>>
    PROVE  SessionInv'
<1> USE DEF TlsInv, SessionInv, OtherInv
<1>1. UNCHANGED <<mFd, conn, inbox, room, want, ready, mMode, session, bio, hs, wpend, asked, flights,
                  readWaitState, writeWaitState, unread, tlsFailed, mPendingWrites, out, plain, resent,
                  crowded, closed, inside, late, connects, writes>>
  BY DEF fdVars, sslVars, writeVars, quietVars, programVars
<1>2. mState' \in {"Closed", "Error"}
  BY DEF EndStates
<1>3. /\ Placed(2) /\ stack'[1].op = "onState" /\ stack'[2].op = "close" /\ stack' \in Seq(Ops)
      /\ 2 \in 1..Len(stack') /\ 2 \in 0..3 /\ \A i \in 1..2 : i = 1 \/ i = 2
  <2>1. Placed(2) /\ stack'[1].op = "onState" /\ stack'[2].op = "close"
    BY ThenTwo DEF OpNames
  <2>2. stack' \in Seq(Ops) /\ 2 \in 1..Len(stack')
    BY <2>1 DEF Placed
  <2> QED BY <2>1, <2>2
<1>4. TakesTLS /\ connects # 0
  BY ConnectTLSIs
<1>5. TlsTyped'
  BY <1>1, <1>2, <1>3 DEF TlsTyped
<1>6. Flags' /\ WriteLists'
  BY <1>1 DEF Flags, WriteLists
<1>7. Descriptor' /\ Handshake'
  BY <1>1, <1>4 DEF Descriptor, Handshake, Live
<1>8. Steps'
  <2>1. Prompt(1)'
    BY <1>3 DEF Prompt
  <2>2. Prompt(2)'
    <3>1. Soon(2)'
      BY <1>3 DEF Soon
    <3>2. ~closed => mFd # 0
      BY <1>4 DEF TakesTLS, Live
    <3> QED BY <1>1, <1>2, <1>3, <3>1, <3>2 DEF Prompt
  <2>3. \A i \in 1..2 : stack'[i].op # "fdRead" /\ Prompt(i)'
    <3>1. stack'[1].op # "fdRead" /\ Prompt(1)' /\ stack'[2].op # "fdRead" /\ Prompt(2)'
      BY <1>3, <2>1, <2>2
    <3> HIDE DEF Prompt
    <3> QED BY <1>3, <3>1
  <2>4. \A i \in 2..2 : stack'[i].op \notin {"read", "connectTLS"}
    BY <1>3
  <2> QED BY <1>1, <1>3, <2>3, <2>4, StepsMoved
<1>9. Stages'
  BY <1>1, <1>2, <1>4 DEF Stages, TakesTLS, Live
<1>10. WaitStates'
  BY <1>1, <1>2 DEF WaitStates
<1>11. Sending'
  BY <1>1, <1>2 DEF Sending
<1>12. GivenUp'
  <2>1. ~closed /\ connects <= 1 => mState = "Handshaking" /\ mFd # 0
    BY <1>4 DEF TakesTLS, Fresh, Live
  <2>2. ~closed /\ connects <= 1 /\ mState = "Handshaking" => plain = <<>>
    BY DEF GivenUp
  <2>3. \A i \in 1..2 : stack'[i].op \notin {"retryWrite", "mayWrite", "write"}
    BY <1>3
  <2>4. UNCHANGED <<closed, connects, plain>>
    BY <1>1
  <2> QED BY <1>3, <2>1, <2>2, <2>3, <2>4, GivenUpMoved DEF Handling
<1>13. Reads'
  <2>1. ASSUME \A i \in 1..Len(stack) : stack[i].op \notin {"read", "reads"}, NEW j \in 1..Len(stack')
        PROVE  stack'[j].op \notin {"read", "reads"}
    BY <1>3, <2>1, Below
  <2> QED BY <1>1, <1>2, <2>1 DEF Reads
<1>14. Readers'
  BY <1>2 DEF Readers
<1> QED BY <1>5, <1>6, <1>7, <1>8, <1>9, <1>10, <1>11, <1>12, <1>13, <1>14

\* connectTLS().
LEMMA ConnectTLSStep ==
    ASSUME TlsInv, ConnectTLS
    PROVE  SessionInv'
<1>1. stack # <<>> /\ stack[1].op = "connectTLS" /\ tlsFailed = "none"
  BY RunningIs DEF ConnectTLS, TlsInv, SessionInv
<1>2. UNCHANGED <<readWaitState, tlsFailed, writeVars, quietVars>>
  BY DEF ConnectTLS
<1>3. CASE /\ HandshakeDone /\ mState' = "Connected" /\ writeWaitState' = WhenConnected
           /\ unread' = TRUE /\ Then(<<"onState", "write">>) /\ UNCHANGED <<want, ready>>
  BY <1>1, <1>2, <1>3, ConnectedStep
<1>4. ASSUME NEW event \in {"write", "read"}, HandshakeWants(event), writeWaitState' = WaitState(event),
             IF event = "write" THEN Watch(Top.fd, {"in", "out"}) ELSE UNCHANGED <<want, ready, other>>,
             Then(<<>>), UNCHANGED <<mState, unread>>
      PROVE  SessionInv'
  BY <1>1, <1>2, <1>4, HandshakeWaitsStep
<1>5. CASE /\ HandshakeFails /\ mState' \in EndStates /\ Then(<<"onState", "close">>)
           /\ UNCHANGED <<writeWaitState, fdVars, sslVars, unread, odd>>
  BY <1>1, <1>2, <1>5, HandshakeFailsStep
<1> QED BY <1>3, <1>4, <1>5 DEF ConnectTLS

-----------------------------------------------------------------------------
(* socketCallback *)

\* An event comes for a handshake that goes on.
LEMMA TakesHandshake ==
    ASSUME TlsInv, stack # <<>>, stack[1].op \in {"fdRead", "fdWrite"}, mState = "Handshaking"
    PROVE  TakesTLS
<1> USE DEF TlsInv, SessionInv, OtherInv
<1>1. ASSUME ~closed PROVE Live
  <2>1. mFd # 0 /\ bio \in {0, mFd}
    BY <1>1 DEF Stages
  <2>2. ASSUME NEW i \in 1..Len(stack), stack[i].op = "startTLS" PROVE FALSE
    <3>1. Soon(i)
      BY <1>1, <2>2 DEF Steps, Prompt, Fresh
    <3>2. Len(stack) \in Nat
      BY LenProperties DEF TlsTyped
    <3>3. i = 1 \/ i = 2
      BY <3>1, <3>2 DEF Soon
    <3> QED BY <2>2, <3>1, <3>3 DEF Soon
  <2>3. bio # 0
    BY <1>1, <2>2 DEF Stages
  <2> QED BY <2>1, <2>3 DEF Live
<1> QED BY <1>1 DEF TakesTLS

\* FdRead goes on with these steps.
LEMMA FdReadTo ==
    ASSUME TlsInv, tlsFailed = "none", stack[1].op = "fdRead", Still, UNCHANGED <<want, ready>>,
           unread' = (unread /\ mState # "Connected"), NEW n \in 0..3, Placed(n),
           \A i \in 1..n : stack'[i].op \in {"connectTLS", "afterConnect", "read", "retryWrite", "reads"},
           \A i \in 2..n : stack'[i].op \notin {"read", "connectTLS"},
           n # 0 /\ stack'[1].op = "connectTLS" => TakesTLS,
           mState # "Connected" => \A i \in 1..n : stack'[i].op \notin {"read", "reads", "retryWrite"},
           mState = "Connected" =>
             /\ \E i \in 1..n : stack'[i].op = "reads"
             /\ readWaitState = "SSLReadWaitingForRead" => stack'[1].op = "read"
    PROVE  SessionInv'
<1> USE DEF TlsInv, SessionInv, OtherInv
<1>1. UNCHANGED <<mState, mFd, bio, hs, crowded, inbox, conn, connects, closed, plain, readWaitState, want,
                  ready, room>>
  BY DEF Still
<1>2. /\ TlsTyped' /\ Flags' /\ WriteLists' /\ Descriptor' /\ Handshake' /\ Steps' /\ Stages'
      /\ WaitStates' /\ Sending'
  <2>1. \A i \in 1..n : stack'[i].op # "fdRead" /\ Prompt(i)'
    BY DEF Prompt
  <2>2. TakesTLS' = TakesTLS
    BY <1>1 DEF TakesTLS, Fresh, Live
  <2>3. Watches
    BY DEF Watches, TlsTyped, Flags
  <2> QED BY <2>1, <2>2, <2>3, QuietMoved
<1>3. GivenUp'
  <2>1. ~closed /\ connects <= 1 /\ plain # <<>> => mFd = 0 /\ mState = "Error"
    BY DEF GivenUp
  <2> QED BY <1>1, <2>1, GivenUpMoved DEF Handling
<1>4. connects <= 1 /\ (mState \in {"Idle", "Connecting", "Handshaking"} \/ unread) =>
        /\ readWaitState = "SSLNotWaiting"
        /\ \A i \in 1..Len(stack) : stack[i].op \notin {"read", "reads"}
  BY DEF Reads
<1>5. Reads'
  <2>1. ASSUME connects <= 1, mState \in {"Idle", "Connecting", "Handshaking"} \/ unread', NEW j \in 1..Len(stack')
        PROVE  stack'[j].op \notin {"read", "reads"}
    <3>2. unread' => unread /\ mState # "Connected"
      OBVIOUS
    <3>1. mState # "Connected" /\ (mState \in {"Idle", "Connecting", "Handshaking"} \/ unread)
      BY <2>1, <3>2
    <3>3. \A i \in 1..n : stack'[i].op \notin {"read", "reads"}
      BY <3>1
    <3>4. \A i \in 1..Len(stack) : stack[i].op \notin {"read", "reads"}
      BY <1>4, <2>1, <3>1
    <3>5. CASE j \in 1..n
      BY <3>3, <3>5
    <3>6. CASE j - n + 1 \in 1..Len(stack) /\ stack'[j] = stack[j - n + 1]
      BY <3>4, <3>6
    <3> QED BY <3>5, <3>6, Below
  <2>2. unread' => unread
    BY DEF Still
  <2> QED BY <1>1, <1>4, <2>1, <2>2 DEF Reads
<1>6. Readers'
  <2> SUFFICES ASSUME mState = "Connected", ~ready, ~crowded, inbox # <<>> \/ conn = "shut"
               PROVE  \/ /\ readWaitState = "SSLReadWaitingForWrite"
                         /\ \/ ~room \/ connects > 1
                            \/ \E i \in 1..Len(stack') : stack'[i].op = "fdWrite" /\ stack'[i].fd = mFd
                      \/ /\ readWaitState = "SSLReadWaitingForRead"
                         /\ stack' # <<>> /\ stack'[1].op = "read"
                      \/ /\ readWaitState = "SSLNotWaiting"
                         /\ stack' # <<>> /\ \E i \in 1..Len(stack') : stack'[i].op = "reads"
    BY <1>1 DEF Readers
  <2>1. PICK r \in 1..n : stack'[r].op = "reads"
    OBVIOUS
  <2>2. r \in 1..Len(stack') /\ stack' # <<>>
    <3>1. r \in 1..Len(stack') /\ Len(stack') # 0
      BY DEF Placed
    <3> QED BY <3>1
  <2>3. CASE readWaitState = "SSLReadWaitingForWrite"
    <3> SUFFICES ASSUME room, ~(connects > 1)
                 PROVE  \E i \in 1..Len(stack') : stack'[i].op = "fdWrite" /\ stack'[i].fd = mFd
      BY <2>3
    <3>1. connects <= 1
      <4>1. connects \in 0..MaxConnects
        BY DEF TlsTyped
      <4> QED BY <4>1, TlsBounds
    <3>2. ~unread
      BY <1>4, <2>3, <3>1
    <3>3. PICK k \in 1..Len(stack) : stack[k].op = "fdWrite" /\ stack[k].fd = mFd
      BY <2>3, <3>2 DEF Readers
    <3>4. k \in 2..Len(stack)
      <4>1. Len(stack) \in Nat
        BY DEF Placed
      <4>2. k # 1
        BY <3>3
      <4> QED BY <4>1, <4>2
    <3> QED BY <3>3, <3>4, StillThere
  <2>4. readWaitState \in {"SSLNotWaiting", "SSLReadWaitingForRead", "SSLReadWaitingForWrite"}
    BY DEF TlsTyped, ReadWaits
  <2> QED BY <2>1, <2>2, <2>3, <2>4
<1> QED BY <1>2, <1>3, <1>5, <1>6

\* FdRead, for each state and what waits for it.
LEMMA FdReadStep ==
    ASSUME TlsInv, FdRead
    PROVE  SessionInv'
<1> USE DEF TlsInv, SessionInv, OtherInv
<1>1. stack # <<>> /\ stack[1].op = "fdRead" /\ tlsFailed = "none"
  BY RunningIs DEF FdRead
<1>2. Still /\ UNCHANGED <<want, ready>> /\ unread' = (unread /\ mState # "Connected")
  <2>1. unread' = (unread /\ mState # "Connected")
    BY DEF FdRead
  <2>2. unread' \in BOOLEAN /\ (unread' => unread)
    BY <2>1
  <2> QED BY <2>1, <2>2 DEF FdRead, Still, fdVars, sslVars, waitVars, writeVars, quietVars, programVars
<1>3. \/ mState = "Handshaking" /\ Then(<<"connectTLS">> \o <<"afterConnect">>)
      \/ mState = "Handshaking" /\ Then(<<>> \o <<"afterConnect">>)
      \/ /\ mState = "Connected" /\ readWaitState = "SSLReadWaitingForRead"
         /\ Then(<<"read">> \o <<"retryWrite", "reads">>)
      \/ /\ mState = "Connected" /\ readWaitState # "SSLReadWaitingForRead"
         /\ Then(<<>> \o <<"retryWrite", "reads">>)
      \/ mState \notin {"Handshaking", "Connected"} /\ Then(<<>>)
  BY DEF FdRead, RetryRead
<1>4. CASE mState = "Handshaking" /\ Then(<<"connectTLS">> \o <<"afterConnect">>)
  <2>1. Then(<<"connectTLS", "afterConnect">>)
    BY <1>4, PairIs
  <2>2. Placed(2) /\ stack'[1].op = "connectTLS" /\ stack'[2].op = "afterConnect"
    BY <1>1, <2>1, ThenTwo DEF OpNames
  <2>3. TakesTLS
    BY <1>1, <1>4, TakesHandshake
  <2>4. 2 \in 0..3 /\ \A i \in 1..2 : i = 1 \/ i = 2
    OBVIOUS
  <2> QED BY <1>1, <1>2, <1>4, <2>2, <2>3, <2>4, FdReadTo
<1>5. CASE mState = "Handshaking" /\ Then(<<>> \o <<"afterConnect">>)
  <2>1. Then(<<"afterConnect">>)
    BY <1>5
  <2>2. Placed(1) /\ stack'[1].op = "afterConnect"
    BY <1>1, <2>1, ThenOne DEF OpNames
  <2>4. 1 \in 0..3 /\ \A i \in 1..1 : i = 1
    OBVIOUS
  <2> QED BY <1>1, <1>2, <1>5, <2>2, <2>4, FdReadTo
<1>6. CASE /\ mState = "Connected" /\ readWaitState = "SSLReadWaitingForRead"
           /\ Then(<<"read">> \o <<"retryWrite", "reads">>)
  <2>1. Then(<<"read", "retryWrite", "reads">>)
    BY <1>6, TripleIs
  <2>2. Placed(3) /\ stack'[1].op = "read" /\ stack'[2].op = "retryWrite" /\ stack'[3].op = "reads"
    <3>1. {"read", "retryWrite", "reads"} \subseteq OpNames
      BY DEF OpNames
    <3>2. TlsTyped /\ stack # <<>> /\ Then(<<"read", "retryWrite", "reads">>)
      BY <1>1, <2>1
    <3>3. "read" \in OpNames /\ "retryWrite" \in OpNames /\ "reads" \in OpNames
      BY <3>1
    <3> QED BY <3>2, <3>3, ThenThree, Zenon
  <2>4. 3 \in 0..3 /\ \A i \in 1..3 : i = 1 \/ i = 2 \/ i = 3
    OBVIOUS
  <2>5. 3 \in 1..3
    OBVIOUS
  <2> QED BY <1>1, <1>2, <1>6, <2>2, <2>4, <2>5, FdReadTo
<1>7. CASE /\ mState = "Connected" /\ readWaitState # "SSLReadWaitingForRead"
           /\ Then(<<>> \o <<"retryWrite", "reads">>)
  <2>1. Then(<<"retryWrite", "reads">>)
    BY <1>7
  <2>2. Placed(2) /\ stack'[1].op = "retryWrite" /\ stack'[2].op = "reads"
    BY <1>1, <2>1, ThenTwo DEF OpNames
  <2>4. 2 \in 0..3 /\ 2 \in 1..2 /\ \A i \in 1..2 : i = 1 \/ i = 2
    OBVIOUS
  <2> QED BY <1>1, <1>2, <1>7, <2>2, <2>4, FdReadTo
<1>8. CASE mState \notin {"Handshaking", "Connected"} /\ Then(<<>>)
  <2>2. Placed(0)
    BY <1>1, <1>8, ThenNone
  <2> QED BY <1>1, <1>2, <1>8, <2>2, FdReadTo
<1> QED BY <1>3, <1>4, <1>5, <1>6, <1>7, <1>8

\* FdWrite goes on with these steps.
LEMMA FdWriteTo ==
    ASSUME TlsInv, tlsFailed = "none", stack[1].op = "fdWrite", Unmoved, Watches,
           ready' \/ mFd = 0 \/ (connects > 1 /\ ready' = ready), NEW n \in 0..3, Placed(n),
           \A i \in 1..n : stack'[i].op \in {"connectTLS", "afterConnect", "read", "mayWrite"},
           \A i \in 2..n : stack'[i].op \notin {"read", "connectTLS"},
           n # 0 /\ stack'[1].op = "connectTLS" => TakesTLS,
           \A i \in 1..n : stack'[i].op \in {"read", "mayWrite"} => mState = "Connected",
           n # 0 /\ stack'[1].op = "read" => readWaitState = "SSLReadWaitingForWrite",
           mState = "Connected" /\ readWaitState = "SSLReadWaitingForWrite" => n # 0 /\ stack'[1].op = "read"
    PROVE  SessionInv'
<1> USE DEF TlsInv, SessionInv, OtherInv
<1>1. UNCHANGED <<mState, mFd, bio, hs, crowded, inbox, conn, connects, closed, plain, readWaitState, unread>>
  BY DEF Unmoved, Still
<1>2. /\ TlsTyped' /\ Flags' /\ WriteLists' /\ Descriptor' /\ Handshake' /\ Steps' /\ Stages'
      /\ WaitStates' /\ Sending'
  <2>1. \A i \in 1..n : stack'[i].op # "fdRead" /\ Prompt(i)'
    BY DEF Prompt
  <2>2. TakesTLS' = TakesTLS
    BY <1>1 DEF TakesTLS, Fresh, Live
  <2>3. Still
    BY DEF Unmoved
  <2> QED BY <2>1, <2>2, <2>3, QuietMoved
<1>3. GivenUp'
  <2>1. ~closed /\ connects <= 1 /\ plain # <<>> => mFd = 0 /\ mState = "Error"
    BY DEF GivenUp
  <2> QED BY <1>1, <2>1, GivenUpMoved DEF Handling
<1>4. Reads'
  <2>1. ASSUME connects <= 1, mState \in {"Idle", "Connecting", "Handshaking"} \/ unread, NEW j \in 1..Len(stack')
        PROVE  stack'[j].op \notin {"read", "reads"}
    <3>1. /\ readWaitState = "SSLNotWaiting"
          /\ \A i \in 1..Len(stack) : stack[i].op \notin {"read", "reads"}
      BY <2>1 DEF Reads
    <3>2. CASE j \in 1..n
      <4>1. j = 1 \/ j \in 2..n
        BY <3>2
      <4> QED BY <3>1, <3>2, <4>1
    <3>3. CASE j - n + 1 \in 1..Len(stack) /\ stack'[j] = stack[j - n + 1]
      BY <3>1, <3>3
    <3> QED BY <3>2, <3>3, Below
  <2>2. n # 0 => stack' # <<>>
    <3>1. n # 0 => Len(stack') # 0
      BY DEF Placed
    <3> QED BY <3>1
  <2> QED BY <1>1, <2>1, <2>2 DEF Reads
<1>5. Readers'
  <2>1. mFd = 0 => inbox = <<>> /\ conn = "none"
    BY DEF Descriptor
  <2>2. CASE ready' \/ mFd = 0
    BY <1>1, <2>1, <2>2 DEF Readers
  <2>3. CASE connects > 1 /\ ready' = ready
    <3>1. (\E i \in 1..Len(stack) : stack[i].op = "reads")
          => stack' # <<>> /\ \E i \in 1..Len(stack') : stack'[i].op = "reads"
      <4> SUFFICES ASSUME NEW i \in 1..Len(stack), stack[i].op = "reads"
                   PROVE  stack' # <<>> /\ \E k \in 1..Len(stack') : stack'[k].op = "reads"
        OBVIOUS
      <4>1. i \in 2..Len(stack)
        BY DEF Placed
      <4>2. PICK k \in 1..Len(stack') : stack'[k] = stack[i]
        BY <4>1, StillThere
      <4>3. stack' # <<>>
        <5>1. Len(stack') # 0
          BY <4>2 DEF Placed
        <5> QED BY <5>1
      <4> QED BY <4>2, <4>3
    <3> QED BY <1>1, <2>3, <3>1 DEF Readers
  <2> QED BY <2>2, <2>3
<1> QED BY <1>2, <1>3, <1>4, <1>5

\* connect() is answered, and the program told; or one of two attempts goes on.
LEMMA AnsweredTo ==
    ASSUME TlsInv, tlsFailed = "none", stack # <<>>, stack[1].op = "fdWrite", mState = "Connecting", mFd # 0,
           UNCHANGED <<tlsFailed, sslVars, waitVars, unread, odd, writeVars, quietVars>>,
           want' \in SUBSET {"in", "out"}, ready' \in BOOLEAN, room' \in BOOLEAN,
           \/ UNCHANGED <<mFd, conn, inbox>>
           \/ mFd' \in 1..connects /\ conn' \in Conns /\ inbox' = <<>>,
           NEW n \in {0, 2}, Placed(n), NEW step \in {"drop", "startTLS"},
           n = 0 => mState' = mState,
           n = 2 => stack'[1].op = "onState" /\ stack'[2].op = step,
           n = 2 => (step = "drop" /\ mState' = "Error") \/ (step = "startTLS" /\ mState' = "Handshaking")
    PROVE  SessionInv'
<1> USE DEF TlsInv, SessionInv, OtherInv
<1>1. UNCHANGED <<mMode, session, bio, hs, wpend, asked, flights, readWaitState,
                  writeWaitState, unread, tlsFailed, mPendingWrites, out, plain, resent, crowded, closed,
                  inside, late, connects, writes>>
  BY DEF sslVars, waitVars, writeVars, quietVars, programVars
<1>2. mState' \in {"Connecting", "Handshaking", "Error"} /\ (n = 2 => mState' \in {"Handshaking", "Error"})
  OBVIOUS
<1>3. /\ Placed(n) /\ n \in 0..3 /\ stack' \in Seq(Ops) /\ \A i \in 1..n : i = 1 \/ i = 2
      /\ \A i \in 1..n : stack'[i].op \in {"onState", "drop", "startTLS"}
      /\ n = 2 => 2 \in 1..Len(stack')
  <2>1. stack' \in Seq(Ops) /\ (n = 2 => 2 \in 1..Len(stack'))
    BY DEF Placed
  <2>2. \A i \in 1..n : n = 2 /\ (i = 1 \/ i = 2)
    OBVIOUS
  <2>3. \A i \in 1..n : stack'[i].op \in {"onState", "drop", "startTLS"}
    BY <2>2
  <2> QED BY <2>1, <2>2, <2>3
<1>4. connects # 0 /\ mFd' # 0 /\ bio = 0
  <2>1. mFd' # 0
    OBVIOUS
  <2> QED BY <2>1 DEF Descriptor, Unbegun
<1>6. TlsTyped'
  <2>1. mFd' \in 0..connects /\ conn' \in {"none"} \cup Conns /\ inbox' \in Seq({"flight", "data"})
    <3>1. <<>> \in Seq({"flight", "data"})
      OBVIOUS
    <3>2. \A i \in 1..connects : i \in 0..connects
      BY DEF TlsTyped
    <3> QED BY <3>1, <3>2 DEF TlsTyped
  <2> QED BY <1>1, <1>2, <1>3, <2>1 DEF TlsTyped
<1>7. Flags' /\ WriteLists'
  BY <1>1 DEF Flags, WriteLists
<1>8. Descriptor' /\ Handshake'
  <2>1. session /\ hs = 0 /\ flights = 0 /\ ~asked /\ inbox = <<>>
    BY <1>4 DEF Descriptor
  <2>2. inbox' = <<>>
    BY <2>1
  <2>3. Descriptor'
    BY <1>1, <1>4, <2>1, <2>2 DEF Descriptor
  <2> QED BY <1>1, <1>4, <2>1, <2>2, <2>3 DEF Handshake, Live
<1>9. Steps'
  <2>1. ASSUME NEW i \in 1..n PROVE stack'[i].op # "fdRead" /\ Prompt(i)'
    <3>1. i = 2 => Soon(2)'
      BY <2>1 DEF Soon
    <3>2. n = 2 /\ (i = 1 \/ i = 2)
      BY <1>3, <2>1
    <3> QED BY <1>1, <1>4, <3>1, <3>2 DEF Prompt
  <2>2. \A i \in 2..n : stack'[i].op \notin {"read", "connectTLS"}
    BY <1>3
  <2>3. n # 0 => stack'[1].op # "connectTLS"
    OBVIOUS
  <2> QED BY <1>1, <1>3, <2>1, <2>2, <2>3, StepsMoved
<1>10. Stages'
  BY <1>1, <1>2, <1>3, <1>4 DEF Stages
<1>11. WaitStates'
  BY <1>1, <1>2 DEF WaitStates
<1>12. Sending'
  BY <1>1, <1>2 DEF Sending
<1>13. GivenUp'
  <2>1. ~closed /\ connects <= 1 => plain = <<>> /\ mFd # 0
    BY DEF GivenUp
  <2>2. \A i \in 1..n : stack'[i].op \notin {"retryWrite", "mayWrite", "write"}
    BY <1>3
  <2> QED BY <1>1, <1>3, <2>1, <2>2, GivenUpMoved DEF Handling
<1>14. Reads'
  <2>1. ASSUME \A i \in 1..Len(stack) : stack[i].op \notin {"read", "reads"}, NEW j \in 1..Len(stack')
        PROVE  stack'[j].op \notin {"read", "reads"}
    BY <1>3, <2>1, Below
  <2>2. Len(inbox') <= 1 \/ (inbox' = inbox /\ conn' = conn)
    OBVIOUS
  <2>3. inbox' = <<>> \/ (inbox' = inbox /\ conn' = conn)
    OBVIOUS
  <2> QED BY <1>1, <1>2, <2>1, <2>2, <2>3 DEF Reads
<1>15. Readers'
  BY <1>2 DEF Readers
<1> QED BY <1>6, <1>7, <1>8, <1>9, <1>10, <1>11, <1>12, <1>13, <1>14, <1>15

\* The answer to a connection in progress.
LEMMA AnsweredStep ==
    ASSUME TlsInv, Answered
    PROVE  SessionInv'
<1> USE DEF TlsInv, SessionInv, OtherInv
<1>1. stack # <<>> /\ stack[1].op = "fdWrite" /\ tlsFailed = "none" /\ Top = stack[1]
  BY RunningIs, TailIs DEF Answered, Top, TlsTyped
<1>2. /\ mState = "Connecting"
      /\ UNCHANGED <<tlsFailed, sslVars, waitVars, unread, odd, writeVars, quietVars>>
  BY DEF Answered
<1>3. mFd # 0
  <2>1. 1 \in 1..Len(stack)
    <3>1. Len(stack) \in Nat /\ Len(stack) >= 1
      BY <1>1, TailIs DEF TlsTyped
    <3> QED BY <3>1
  <2>2. Top.fd # 0
    BY <1>1, <2>1 DEF Unbegun
  <2>3. other # NoOther => mFd # 0
    BY DEF Others
  <2>4. other = NoOther => other.fd = 0
    BY DEF NoOther
  <2> QED BY <2>2, <2>3, <2>4 DEF Answered
<1>4. /\ want \in SUBSET {"in", "out"} /\ ready \in BOOLEAN /\ room \in BOOLEAN /\ connects \in Nat
      /\ other # NoOther => /\ other.fd \in 1..connects /\ other.conn \in Conns
                            /\ other.want \in SUBSET {"in", "out"} /\ other.ready \in BOOLEAN
  <2>1. connects \in 0..MaxConnects /\ MaxConnects \in Nat
    BY TlsBounds DEF TlsTyped
  <2>2. other # NoOther => /\ other.fd \in 1..connects /\ other.conn \in Conns
                            /\ other.want \in SUBSET {"in", "out"} /\ other.ready \in BOOLEAN
    BY DEF Others
  <2>3. want \in SUBSET {"in", "out"}
    BY DEF TlsTyped
  <2>4. ready \in BOOLEAN /\ room \in BOOLEAN
    BY DEF Flags
  <2>5. connects \in Nat
    BY <2>1
  <2> QED BY <2>2, <2>3, <2>4, <2>5
<1>5. ASSUME NEW events, NEW edge, other # NoOther, Takes(events, edge),
             events \in SUBSET {"in", "out"}, edge \in BOOLEAN
      PROVE  /\ mFd' \in 1..connects /\ conn' \in Conns /\ inbox' = <<>>
             /\ want' \in SUBSET {"in", "out"} /\ ready' \in BOOLEAN /\ room' \in BOOLEAN
  BY <1>4, <1>5 DEF Takes
<1>6. ASSUME NEW step \in {"drop", "startTLS"}, Then(<<"onState", step>>)
      PROVE  Placed(2) /\ stack'[1].op = "onState" /\ stack'[2].op = step
  BY <1>1, <1>6, ThenTwo DEF OpNames
<1>7. ASSUME Then(<<>>) PROVE Placed(0)
  BY <1>1, <1>7, ThenNone
<1>8. ASSUME conn \notin Broken, mState' = "Handshaking", want' = {"in"}, ready' = TRUE,
             UNCHANGED <<mFd, conn, inbox, room>>, Then(<<"onState", "startTLS">>)
      PROVE  SessionInv'
  BY <1>1, <1>2, <1>3, <1>4, <1>6, <1>8, AnsweredTo
<1>9. ASSUME Top.fd = other.fd, mState' = "Handshaking", Takes({"in"}, TRUE), Then(<<"onState", "startTLS">>)
      PROVE  SessionInv'
  <2>1. other # NoOther
    <3>1. 1 \in 1..Len(stack)
      <4>1. Len(stack) \in Nat /\ Len(stack) >= 1
        BY <1>1, TailIs DEF TlsTyped
      <4> QED BY <4>1
    <3>2. Top.fd # 0
      BY <1>1, <3>1 DEF Unbegun
    <3> QED BY <1>9, <3>2 DEF NoOther
  <2>2. /\ mFd' \in 1..connects /\ conn' \in Conns /\ inbox' = <<>>
        /\ want' \in SUBSET {"in", "out"} /\ ready' \in BOOLEAN /\ room' \in BOOLEAN
    BY <1>5, <1>9, <2>1
  <2> QED BY <1>1, <1>2, <1>3, <1>6, <1>9, <2>2, AnsweredTo
<1>10. ASSUME mState' = "Error", Watch(mFd, {"in"}), UNCHANGED <<mFd, conn, inbox, room>>,
              Then(<<"onState", "drop">>)
       PROVE  SessionInv'
  <2>1. want' \in SUBSET {"in", "out"} /\ ready' \in BOOLEAN
    BY <1>4, <1>10 DEF Watch
  <2> QED BY <1>1, <1>2, <1>3, <1>4, <1>6, <1>10, <2>1, AnsweredTo
<1>11. ASSUME other # NoOther, Takes(other.want, other.ready), UNCHANGED mState, Then(<<>>)
       PROVE  SessionInv'
  <2>1. /\ mFd' \in 1..connects /\ conn' \in Conns /\ inbox' = <<>>
        /\ want' \in SUBSET {"in", "out"} /\ ready' \in BOOLEAN /\ room' \in BOOLEAN
    BY <1>4, <1>5, <1>11
  <2>2. 0 \in {0, 2} /\ Placed(0) /\ "drop" \in {"drop", "startTLS"} /\ 0 # 2
    BY <1>7, <1>11
  <2> QED BY <1>1, <1>2, <1>3, <1>11, <2>1, <2>2, AnsweredTo
<1>12. ASSUME UNCHANGED <<mState, mFd, conn, inbox, room, want, ready>>, Then(<<>>)
       PROVE  SessionInv'
  <2>2. 0 \in {0, 2} /\ Placed(0) /\ "drop" \in {"drop", "startTLS"} /\ 0 # 2
    BY <1>7, <1>12
  <2> QED BY <1>1, <1>2, <1>3, <1>4, <1>12, <2>2, AnsweredTo
<1> QED BY <1>8, <1>9, <1>10, <1>11, <1>12 DEF Answered

\* FdWrite of a handshake, or of a connection.
LEMMA FdWriteStep ==
    ASSUME TlsInv, FdWrite
    PROVE  SessionInv'
<1> USE DEF TlsInv, SessionInv, OtherInv
<1>1. stack # <<>> /\ stack[1].op = "fdWrite" /\ tlsFailed = "none"
  BY RunningIs DEF FdWrite
<1>2. /\ Watches /\ (ready' \/ mFd = 0 \/ (connects > 1 /\ ready' = ready))
      /\ UNCHANGED <<mState, tlsFailed, mFd, conn, inbox, room, sslVars, waitVars, unread, odd, writeVars, quietVars>>
  <2>1. Watch(Top.fd, {"in"}) /\ Top.fd \in {mFd, other.fd}
    BY DEF FdWrite
  <2>2. ready \in BOOLEAN /\ want \in SUBSET {"in", "out"}
    BY DEF TlsTyped, Flags
  <2>3. Watches
    BY <2>1, <2>2 DEF Watch, Watches
  <2>4. CASE Top.fd = mFd /\ mFd # 0
    <3>1. ready' = (ready \/ (Top.fd = mFd /\ mFd # 0))
      BY <2>1 DEF Watch
    <3> QED BY <2>3, <2>4, <3>1 DEF FdWrite
  <2>5. CASE mFd = 0
    BY <2>3, <2>5 DEF FdWrite
  <2>6. CASE Top.fd # mFd /\ mFd # 0
    <3>1. Top.fd = other.fd
      BY <2>1, <2>6
    <3>2. other # NoOther
      <4>1. 1 \in 1..Len(stack) /\ Top = stack[1]
        BY <1>1, TailIs DEF TlsTyped, Top
      <4>2. Top.fd # 0
        BY <1>1, <4>1 DEF Unbegun
      <4> QED BY <3>1, <4>2 DEF NoOther
    <3>3. connects > 1
      <4>1. connects >= 2 /\ connects \in 0..MaxConnects
        BY <3>2 DEF Others, TlsTyped
      <4> QED BY <4>1, TlsBounds
    <3>4. ready' = (ready \/ (Top.fd = mFd /\ mFd # 0))
      BY <2>1 DEF Watch
    <3>5. ready' = ready
      BY <2>2, <2>6, <3>4, Zenon
    <3> QED BY <2>3, <3>3, <3>5 DEF FdWrite
  <2> QED BY <2>4, <2>5, <2>6
<1>4. \/ mState = "Handshaking" /\ Then(<<"connectTLS">> \o <<"afterConnect">>)
      \/ mState = "Handshaking" /\ Then(<<>> \o <<"afterConnect">>)
      \/ /\ mState = "Connected" /\ readWaitState = "SSLReadWaitingForWrite"
         /\ Then(<<"read">> \o <<"mayWrite">>)
      \/ mState = "Connected" /\ readWaitState # "SSLReadWaitingForWrite" /\ Then(<<>> \o <<"mayWrite">>)
      \/ mState \notin {"Connecting", "Handshaking", "Connected"} /\ Then(<<>>)
  BY DEF FdWrite, RetryRead
<1>5. Unmoved
  <2>1. unread' = unread /\ unread \in BOOLEAN
    BY <1>2 DEF Flags
  <2> QED BY <1>2, <2>1 DEF Unmoved, Still, sslVars, waitVars, writeVars, quietVars, programVars
<1>7. CASE mState = "Handshaking" /\ Then(<<"connectTLS">> \o <<"afterConnect">>)
  <2>1. Then(<<"connectTLS", "afterConnect">>)
    BY <1>7, PairIs
  <2>2. Placed(2) /\ stack'[1].op = "connectTLS" /\ stack'[2].op = "afterConnect"
    BY <1>1, <2>1, ThenTwo DEF OpNames
  <2>3. TakesTLS
    BY <1>1, <1>7, TakesHandshake
  <2>4. 2 \in 0..3 /\ \A i \in 1..2 : i = 1 \/ i = 2
    OBVIOUS
  <2>5. Unmoved /\ Watches /\ (ready' \/ mFd = 0 \/ (connects > 1 /\ ready' = ready))
    BY <1>2, <1>5, <1>7
  <2> QED BY <1>1, <1>7, <2>2, <2>5, <2>3, <2>4, FdWriteTo
<1>8. CASE mState = "Handshaking" /\ Then(<<>> \o <<"afterConnect">>)
  <2>1. Then(<<"afterConnect">>)
    BY <1>8
  <2>2. Placed(1) /\ stack'[1].op = "afterConnect"
    BY <1>1, <2>1, ThenOne DEF OpNames
  <2>4. 1 \in 0..3 /\ \A i \in 1..1 : i = 1
    OBVIOUS
  <2>5. Unmoved /\ Watches /\ (ready' \/ mFd = 0 \/ (connects > 1 /\ ready' = ready))
    BY <1>2, <1>5, <1>8
  <2> QED BY <1>1, <1>8, <2>2, <2>5, <2>4, FdWriteTo
<1>9. CASE /\ mState = "Connected" /\ readWaitState = "SSLReadWaitingForWrite"
           /\ Then(<<"read">> \o <<"mayWrite">>)
  <2>1. Then(<<"read", "mayWrite">>)
    BY <1>9, PairIs
  <2>2. Placed(2) /\ stack'[1].op = "read" /\ stack'[2].op = "mayWrite"
    BY <1>1, <2>1, ThenTwo DEF OpNames
  <2>4. 2 \in 0..3 /\ \A i \in 1..2 : i = 1 \/ i = 2
    OBVIOUS
  <2>5. Unmoved /\ Watches /\ (ready' \/ mFd = 0 \/ (connects > 1 /\ ready' = ready))
    BY <1>2, <1>5, <1>9
  <2> QED BY <1>1, <1>9, <2>2, <2>5, <2>4, FdWriteTo
<1>10. CASE mState = "Connected" /\ readWaitState # "SSLReadWaitingForWrite" /\ Then(<<>> \o <<"mayWrite">>)
  <2>1. Then(<<"mayWrite">>)
    BY <1>10
  <2>2. Placed(1) /\ stack'[1].op = "mayWrite"
    BY <1>1, <2>1, ThenOne DEF OpNames
  <2>4. 1 \in 0..3 /\ \A i \in 1..1 : i = 1
    OBVIOUS
  <2>5. Unmoved /\ Watches /\ (ready' \/ mFd = 0 \/ (connects > 1 /\ ready' = ready))
    BY <1>2, <1>5, <1>10
  <2> QED BY <1>1, <1>10, <2>2, <2>5, <2>4, FdWriteTo
<1>11. CASE mState \notin {"Connecting", "Handshaking", "Connected"} /\ Then(<<>>)
  <2>2. Placed(0)
    BY <1>1, <1>11, ThenNone
  <2>5. Unmoved /\ Watches /\ (ready' \/ mFd = 0 \/ (connects > 1 /\ ready' = ready))
    BY <1>2, <1>5, <1>11
  <2> QED BY <1>1, <1>11, <2>2, <2>5, FdWriteTo
<1> QED BY <1>4, <1>7, <1>8, <1>9, <1>10, <1>11

-----------------------------------------------------------------------------
(* read() *)

\* There is a read to do: the first connection has come so far.
LEMMA ReadsBegun ==
    ASSUME TlsInv, stack # <<>>, stack[1].op \in {"read", "reads"}
    PROVE  ~(connects <= 1 /\ (mState \in {"Idle", "Connecting", "Handshaking"} \/ unread))
<1>1. 1 \in 1..Len(stack)
  <2>1. Len(stack) \in Nat /\ Len(stack) >= 1
    BY TailIs DEF TlsInv, SessionInv, TlsTyped
  <2> QED BY <2>1
<1> QED BY <1>1 DEF TlsInv, SessionInv, Reads

\* A record is read, and the program is told.
LEMMA ReadDataStep ==
    ASSUME TlsInv, ReadData
    PROVE  SessionInv'
<1> USE DEF TlsInv, SessionInv, OtherInv
<1>1. /\ stack # <<>> /\ stack[1].op \in {"read", "reads"} /\ tlsFailed = "none"
      /\ mFd # 0 /\ Live /\ hs = Flights /\ inbox # <<>> /\ inbox' = Tail(inbox)
  BY ReadingIs DEF ReadData, ReadingOne
<1>2. UNCHANGED <<mState, tlsFailed, mFd, conn, room, mMode, session, bio, hs, wpend, asked, flights,
                  readWaitState, writeWaitState, unread, odd, mPendingWrites, out, plain, resent, crowded,
                  data, closed, inside, late, connects, writes>>
  BY DEF ReadData, sslVars, waitVars, writeVars, quietVars, programVars
<1>3. /\ Tail(inbox) \in Seq({"flight", "data"}) /\ Len(Tail(inbox)) = Len(inbox) - 1
      /\ Len(inbox) \in Nat /\ Len(inbox) >= 1
      /\ \A i \in 1..(Len(inbox) - 1) : Tail(inbox)[i] = inbox[i + 1]
  BY <1>1, TailIs DEF TlsTyped
<1>4. /\ ready' \in BOOLEAN /\ want' \in SUBSET {"in", "out"}
      /\ readWaitState = "SSLReadWaitingForWrite" => "out" \in want'
  <2>1. ready \in BOOLEAN /\ want \in SUBSET {"in", "out"}
    BY DEF TlsTyped, Flags
  <2>2. IF readWaitState = "SSLReadWaitingForWrite" THEN Watch(mFd, {"in", "out"}) ELSE UNCHANGED <<want, ready, other>>
    BY DEF ReadData
  <2> QED BY <1>1, <2>1, <2>2 DEF Watch
<1>5. PICK n \in 0..3 :
        /\ Placed(n) /\ \A i \in 1..n : stack'[i].op \in {"onData", "reads"}
  <2>1. CASE Then(<<"onData", "reads">>)
    <3>1. Placed(2) /\ stack'[1].op = "onData" /\ stack'[2].op = "reads"
      BY <1>1, <2>1, ThenTwo DEF OpNames
    <3>2. 2 \in 0..3 /\ \A i \in 1..2 : i = 1 \/ i = 2
      OBVIOUS
    <3> QED BY <3>1, <3>2
  <2>2. CASE Then(<<"onData">>)
    <3>1. Placed(1) /\ stack'[1].op = "onData"
      BY <1>1, <2>2, ThenOne DEF OpNames
    <3>2. 1 \in 0..3 /\ \A i \in 1..1 : i = 1
      OBVIOUS
    <3> QED BY <3>1, <3>2
  <2> QED BY <2>1, <2>2 DEF ReadData
<1>6. /\ conn # "reset" /\ flights = Flights
      /\ \A i \in 1..Len(inbox) : inbox[i] = "data"
  <2>1. conn # "reset"
    BY <1>1 DEF Handshake
  <2>2. hs + 1 # flights
    <3>1. flights \in 0..Flights
      BY DEF TlsTyped
    <3> QED BY <1>1, <3>1, TlsBounds
  <2> QED BY <1>1, <2>1, <2>2 DEF Handshake
<1>7. TlsTyped' /\ Flags' /\ WriteLists'
  <2>1. TlsTyped'
    <3>1. stack' \in Seq(Ops) /\ inbox' \in Seq({"flight", "data"})
      BY <1>1, <1>3, <1>5 DEF Placed
    <3> QED BY <1>2, <1>4, <3>1 DEF TlsTyped
  <2>2. Flags'
    BY <1>2, <1>4 DEF Flags
  <2> QED BY <1>2, <2>1, <2>2 DEF WriteLists
<1>8. Descriptor'
  <2>1. bio # 0 /\ connects # 0
    BY <1>1 DEF Live, Descriptor
  <2> QED BY <1>1, <1>2, <2>1 DEF Descriptor
<1>9. Handshake'
  <2>1. ASSUME NEW i \in 1..Len(inbox') PROVE inbox'[i] = "data"
    <3>1. i \in 1..(Len(inbox) - 1) /\ i + 1 \in 1..Len(inbox)
      BY <1>1, <1>3
    <3> QED BY <1>1, <1>3, <1>6, <3>1
  <2>2. hs = flights
    BY <1>1, <1>6
  <2> QED BY <1>2, <1>6, <2>1, <2>2 DEF Handshake
<1>10. Steps' /\ Stages'
  <2>1. UNCHANGED <<mState, closed, late, mFd, bio, session, connects>>
    BY <1>2
  <2>2. \A i \in 1..n : stack'[i].op \notin {"fdRead", "connectTLS", "startTLS", "drop", "close", "read"}
    BY <1>5
  <2>3. \A i \in 2..n : i \in 1..n
    OBVIOUS
  <2> QED BY <1>1, <1>5, <2>1, <2>2, <2>3, StepsKept, StagesKept
<1>11. WaitStates'
  BY <1>2 DEF WaitStates
<1>12. Sending' /\ GivenUp'
  <2>1. \A i \in 1..n : stack'[i].op \notin {"retryWrite", "mayWrite", "write"}
    BY <1>5
  <2>2. /\ UNCHANGED <<resent, plain, out, mPendingWrites, writes>> /\ writeWaitState' = writeWaitState
        /\ mState' = mState /\ mFd' = mFd /\ UNCHANGED <<closed, connects, plain, mFd, mState>>
    BY <1>2
  <2>3. Sending'
    BY <1>1, <1>5, <2>2, SendingKept
  <2>4. GivenUp'
    BY <1>1, <1>5, <2>1, <2>2, GivenUpKept DEF Handling
  <2> QED BY <2>3, <2>4
<1>13. ~crowded => Len(inbox) <= 1 /\ conn # "shut"
  BY <1>1 DEF Reads
<1>14. ~crowded => inbox' = <<>> /\ Len(inbox') <= 1
  <2> SUFFICES ASSUME ~crowded PROVE inbox' = <<>> /\ Len(inbox') <= 1
    OBVIOUS
  <2>1. Len(inbox') = 0
    BY <1>1, <1>3, <1>13
  <2>2. inbox' \in Seq({"flight", "data"})
    BY <1>1, <1>3
  <2> QED BY <2>1, <2>2, EmptySeq
<1>15. Reads'
  <2>1. ~(connects <= 1 /\ (mState \in {"Idle", "Connecting", "Handshaking"} \/ unread))
    BY <1>1, ReadsBegun
  <2>2. mState = "Connected" => bio = mFd /\ hs = Flights
    BY <1>1 DEF Live
  <2> QED BY <1>2, <1>4, <1>13, <1>14, <2>1, <2>2 DEF Reads
<1>16. Readers'
  BY <1>2, <1>13, <1>14 DEF Readers
<1> QED BY <1>7, <1>8, <1>9, <1>10, <1>11, <1>12, <1>15, <1>16

\* What SSL_read does when it wants something, but for what it has done with the
\* session.
LEMMA ReadWantsKeeps ==
    ASSUME TlsInv, ReadWants
    PROVE  /\ stack # <<>> /\ stack[1].op \in {"read", "reads"} /\ tlsFailed = "none" /\ mFd # 0
           /\ UNCHANGED <<mState, tlsFailed, mFd, conn, mMode, session, bio, wpend, flights, writeWaitState,
                          unread, mPendingWrites, out, plain, resent, crowded, data, closed, inside, late,
                          connects, writes>>
           /\ readWaitState' \in ReadWaits /\ ready' \in BOOLEAN /\ want' \in SUBSET {"in", "out"}
           /\ readWaitState' = "SSLReadWaitingForWrite" => "out" \in want'
           /\ Placed(0) /\ stack' \in Seq(Ops)
           /\ Steps' /\ Stages' /\ WaitStates' /\ Sending' /\ GivenUp'
<1> USE DEF TlsInv, SessionInv, OtherInv
<1>1. stack # <<>> /\ stack[1].op \in {"read", "reads"} /\ tlsFailed = "none" /\ mFd # 0
  BY ReadingIs DEF ReadWants, ReadingOne
<1>2. UNCHANGED <<mState, tlsFailed, mFd, conn, mMode, session, bio, wpend, flights, writeWaitState,
                  unread, mPendingWrites, out, plain, resent, crowded, data, closed, inside, late, connects, writes>>
  <2>1. UNCHANGED <<mFd, conn, mMode, session, bio, wpend, flights>>
    BY DEF ReadWants, HandshakeWants, ReadsFlight, sslVars
  <2> QED BY <2>1 DEF ReadWants, writeVars, quietVars, programVars
<1>3. readWaitState' \in ReadWaits
  BY DEF ReadWants, ReadWaits
<1>4. /\ ready' \in BOOLEAN /\ want' \in SUBSET {"in", "out"}
      /\ readWaitState' = "SSLReadWaitingForWrite" => "out" \in want'
  <2>1. ready \in BOOLEAN /\ want \in SUBSET {"in", "out"}
    BY DEF TlsTyped, Flags
  <2>2. IF readWaitState' = "SSLReadWaitingForWrite" THEN Watch(mFd, {"in", "out"}) ELSE UNCHANGED <<want, ready, other>>
    BY DEF ReadWants
  <2> QED BY <1>1, <2>1, <2>2 DEF Watch
<1>5. Placed(0) /\ stack' \in Seq(Ops)
  <2>1. Placed(0)
    BY <1>1, ThenNone DEF ReadWants
  <2> QED BY <2>1 DEF Placed
<1>6. Steps' /\ Stages'
  <2>1. UNCHANGED <<mState, closed, late, mFd, bio, session, connects>>
    BY <1>2
  <2> QED BY <1>1, <1>5, <2>1, StepsKept, StagesKept
<1>7. WaitStates'
  BY <1>2 DEF WaitStates
<1>8. Sending' /\ GivenUp'
  <2>1. /\ UNCHANGED <<resent, plain, out, mPendingWrites, writes>> /\ writeWaitState' = writeWaitState
        /\ mState' = mState /\ mFd' = mFd /\ UNCHANGED <<closed, connects, plain, mFd, mState>>
    BY <1>2
  <2> QED BY <1>1, <1>5, <2>1, SendingKept, GivenUpKept DEF Handling
<1> QED BY <1>1, <1>2, <1>3, <1>4, <1>5, <1>6, <1>7, <1>8

\* A read waits: the next event goes on with it, or has come already.
LEMMA ReadWantsStep ==
    ASSUME TlsInv, ReadWants
    PROVE  SessionInv'
<1> USE DEF TlsInv, SessionInv, OtherInv
<1>1. /\ stack # <<>> /\ stack[1].op \in {"read", "reads"} /\ tlsFailed = "none" /\ mFd # 0
      /\ UNCHANGED <<mState, tlsFailed, mFd, conn, mMode, session, bio, wpend, flights, writeWaitState,
                     unread, mPendingWrites, out, plain, resent, crowded, data, closed, inside, late,
                     connects, writes>>
      /\ readWaitState' \in ReadWaits /\ ready' \in BOOLEAN /\ want' \in SUBSET {"in", "out"}
      /\ readWaitState' = "SSLReadWaitingForWrite" => "out" \in want'
      /\ Placed(0) /\ stack' \in Seq(Ops)
  BY ReadWantsKeeps
<1>2. Steps' /\ Stages' /\ WaitStates' /\ Sending' /\ GivenUp'
  BY ReadWantsKeeps
<1>3. ~(connects <= 1 /\ (mState \in {"Idle", "Connecting", "Handshaking"} \/ unread))
  BY <1>1, ReadsBegun
<1>4. WriteLists'
  BY <1>1 DEF WriteLists
<1>5. ASSUME NEW event \in {"read", "write"}, hs < Flights, HandshakeWants(event) PROVE SessionInv'
  <2>1. /\ ReadsFlight /\ Handshake' /\ asked' \in BOOLEAN /\ room' \in BOOLEAN /\ hs # Flights
    BY <1>5, WantsIs
  <2>2. /\ Live /\ mFd # 0 /\ bio # 0
        /\ Len(inbox') \in Nat /\ Len(inbox) \in Nat /\ Len(inbox') <= Len(inbox)
        /\ inbox = <<>> => inbox' = <<>>
    BY <2>1, FlightRead
  <2>3. mState # "Connected"
    BY <1>1, <2>1 DEF Reads
  <2>4. TlsTyped' /\ Flags' /\ Descriptor'
    <3>1. writeWaitState' \in Waits
      BY <1>1 DEF TlsTyped
    <3>2. UNCHANGED <<tlsFailed, writeVars, quietVars>>
      BY DEF ReadWants
    <3>3. mState' = mState /\ unread' = unread
      BY <1>1
    <3> QED BY <1>1, <2>1, <3>1, <3>2, <3>3, FlightReadTyped
  <2>5. Reads'
    <3>1. ~crowded' => Len(inbox') <= 1 /\ (conn' = "shut" => inbox' = <<>>)
      <4>1. ~crowded => Len(inbox) <= 1 /\ (conn = "shut" => inbox = <<>>)
        BY DEF Reads
      <4>2. Len(inbox) <= 1 => Len(inbox') <= 1
        BY <2>2
      <4> QED BY <1>1, <2>2, <4>1, <4>2
    <3> QED BY <1>1, <1>3, <2>3, <3>1 DEF Reads
  <2>6. Readers'
    BY <1>1, <2>3 DEF Readers
  <2> QED BY <1>2, <1>4, <2>1, <2>4, <2>5, <2>6
<1>6. ASSUME Live, hs = Flights, conn = "up", UNCHANGED <<inbox, hs, asked>>, room' \in BOOLEAN,
             inbox = <<>> \/ (readWaitState' = "SSLReadWaitingForWrite" /\ ~room')
      PROVE  SessionInv'
  <2>1. TlsTyped' /\ Flags'
    <3>1. TlsTyped'
      BY <1>1, <1>6 DEF TlsTyped
    <3>2. Flags'
      BY <1>1, <1>6 DEF Flags
    <3> QED BY <3>1, <3>2
  <2>2. Descriptor' /\ Handshake'
    <3>1. connects # 0
      BY <1>1 DEF Descriptor
    <3>2. Descriptor'
      BY <1>1, <1>6, <3>1 DEF Descriptor
    <3>3. Handshake'
      BY <1>1, <1>6 DEF Handshake, Live
    <3> QED BY <3>2, <3>3
  <2>3. Reads'
    BY <1>1, <1>3, <1>6 DEF Reads
  <2>4. Readers'
    BY <1>1, <1>6 DEF Readers
  <2> QED BY <1>2, <1>4, <2>1, <2>2, <2>3, <2>4
<1>7. \/ \E event \in {"read", "write"} : hs < Flights /\ HandshakeWants(event)
      \/ Live /\ hs = Flights /\ inbox = <<>> /\ conn = "up" /\ UNCHANGED <<inbox, room, hs, asked>>
      \/ /\ Live /\ hs = Flights /\ conn = "up" /\ readWaitState' = "SSLReadWaitingForWrite" /\ room' = FALSE
         /\ UNCHANGED <<inbox, hs, asked>>
  BY DEF ReadWants, sslVars
<1>8. CASE Live /\ hs = Flights /\ inbox = <<>> /\ conn = "up" /\ UNCHANGED <<inbox, room, hs, asked>>
  <2>1. room' \in BOOLEAN
    BY <1>8 DEF Flags
  <2> QED BY <1>6, <1>8, <2>1
<1>9. CASE /\ Live /\ hs = Flights /\ conn = "up" /\ readWaitState' = "SSLReadWaitingForWrite" /\ room' = FALSE
           /\ UNCHANGED <<inbox, hs, asked>>
  <2>1. room' \in BOOLEAN /\ ~room'
    BY <1>9
  <2> QED BY <1>6, <1>9, <2>1
<1> QED BY <1>5, <1>7, <1>8, <1>9

-----------------------------------------------------------------------------
(* processWrite() *)

\* A handshake ends inside of a read or a write.
LEMMA HandshakeInsideStep ==
    ASSUME TlsInv, HandshakeInside
    PROVE  SessionInv'
<1> USE DEF TlsInv, SessionInv, OtherInv
<1>1. /\ hs < Flights /\ ReadsFlight /\ Got = Flights /\ stack # <<>>
      /\ UNCHANGED <<asked, room, odd, mState, stack, tlsFailed, want, ready, readWaitState, writeWaitState,
                     unread, mPendingWrites, out, plain, resent, crowded, data, closed, inside, late, connects, writes>>
  <2>1. stack # <<>>
    BY RunningIs, ReadingIs DEF HandshakeInside, ReadingOne
  <2> QED BY <2>1 DEF HandshakeInside, HandshakeDone, waitVars, writeVars, quietVars, programVars
<1>2. /\ Live /\ mFd # 0 /\ bio # 0
      /\ Len(inbox') \in Nat /\ Len(inbox) \in Nat /\ Len(inbox') <= Len(inbox)
      /\ inbox = <<>> => inbox' = <<>>
      /\ UNCHANGED <<mFd, conn, mMode, session, bio, wpend, flights>>
  BY <1>1, FlightRead
<1>3. mState # "Connected"
  <2>1. hs # Flights
    <3>1. hs \in Nat
      BY DEF TlsTyped
    <3> QED BY <1>1, <3>1, TlsBounds
  <2> QED BY <1>2, <2>1 DEF Reads
<1>4. TlsTyped' /\ Flags' /\ WriteLists' /\ Descriptor'
  <2>1. /\ asked' \in BOOLEAN /\ room' \in BOOLEAN /\ ready' \in BOOLEAN
        /\ want' \in SUBSET {"in", "out"} /\ stack' \in Seq(Ops) /\ writeWaitState' \in Waits
    BY <1>1 DEF TlsTyped, Flags
  <2>2. /\ UNCHANGED <<tlsFailed, writeVars, quietVars>> /\ mState' = mState /\ unread' = unread
        /\ readWaitState' = readWaitState
    BY <1>1 DEF writeVars, quietVars, programVars
  <2> QED BY <1>1, <2>1, <2>2, FlightReadTyped
<1>5. Handshake'
  <2>1. asked' => flights < Flights
    BY <1>1 DEF Handshake
  <2> QED BY <1>1, <2>1, FlightReadKeeps
<1>6. Steps' /\ Stages'
  BY <1>1, <1>2 DEF Steps, TakesTLS, Prompt, Stages, Soon, Fresh, Live
<1>7. WaitStates'
  BY <1>1 DEF WaitStates
<1>8. Sending' /\ GivenUp'
  BY <1>1, <1>2 DEF Sending, GivenUp
<1>9. Reads'
  <2>1. ~crowded' => Len(inbox') <= 1 /\ (conn' = "shut" => inbox' = <<>>)
    <3>1. ~crowded => Len(inbox) <= 1 /\ (conn = "shut" => inbox = <<>>)
      BY DEF Reads
    <3>2. Len(inbox) <= 1 => Len(inbox') <= 1
      BY <1>2
    <3> QED BY <1>1, <1>2, <3>1, <3>2
  <2> QED BY <1>1, <1>3, <2>1 DEF Reads
<1>10. Readers'
  BY <1>1, <1>3 DEF Readers
<1> QED BY <1>4, <1>5, <1>6, <1>7, <1>8, <1>9, <1>10

\* A write is done with: what holds whatever came of it.
LEMMA WriteDone ==
    ASSUME TlsInv, stack # <<>>, stack[1].op = "write", Then(<<>>),
           UNCHANGED <<mState, mFd, bio, session, closed, late, connects>>
    PROVE  Placed(0) /\ stack' \in Seq(Ops) /\ Steps' /\ Stages' /\ connects # 0
<1> USE DEF TlsInv, SessionInv, OtherInv
<1>1. Placed(0)
  BY ThenNone
<1>2. Steps' /\ Stages'
  BY <1>1, StepsKept, StagesKept
<1> QED BY <1>1, <1>2 DEF Placed, Descriptor

\* The list of what is to be written.
LEMMA PendingIs ==
    ASSUME TlsInv, mPendingWrites # <<>>
    PROVE  /\ writes \in Nat /\ writes > 0 /\ mPendingWrites \in Seq(1..writes)
           /\ Len(mPendingWrites) \in Nat /\ Len(mPendingWrites) >= 1
<1>1. mPendingWrites \in Seq(1..writes) /\ writes \in 0..MaxWrites
  BY DEF TlsInv, SessionInv, WriteLists
<1>2. Len(mPendingWrites) \in Nat /\ Len(mPendingWrites) >= 1 /\ mPendingWrites[1] \in 1..writes
  BY <1>1, TailIs
<1> QED BY <1>1, <1>2, TlsBounds

\* Everything is written, and the list is cleared.
LEMMA WriteAllStep ==
    ASSUME TlsInv, WriteAll
    PROVE  SessionInv'
<1> USE DEF TlsInv, SessionInv, OtherInv
<1>1. stack # <<>> /\ stack[1].op = "write" /\ tlsFailed = "none" /\ Then(<<>>)
  BY RunningIs DEF WriteAll
<1>2. UNCHANGED <<mState, tlsFailed, mFd, conn, inbox, room, want, ready, mMode, session, bio, hs, asked,
                  flights, readWaitState, writeWaitState, unread, odd, plain, resent, crowded, data, closed,
                  inside, late, connects, writes>>
  BY DEF WriteAll, fdVars, waitVars, writeVars, quietVars, programVars
<1>3. Placed(0) /\ stack' \in Seq(Ops) /\ Steps' /\ Stages' /\ connects # 0
  BY <1>1, <1>2, WriteDone
<1>4. /\ mPendingWrites' = <<>> /\ wpend' \in {0, wpend}
      /\ out' = out \o mPendingWrites
  <2>1. out \in Seq(1..writes)
    BY DEF WriteLists
  <2>2. out = out \o <<>>
    BY <2>1, ConcatEmptySeq
  <2> QED BY <2>2 DEF WriteAll, writeVars, Written
<1>5. out \in Seq(1..writes) /\ mPendingWrites \in Seq(1..writes) /\ writes \in Nat /\ wpend \in 0..writes
  <2>1. writes \in 0..MaxWrites
    BY DEF WriteLists
  <2> QED BY <2>1, TlsBounds DEF WriteLists
<1>6. out' \in Seq(1..writes) /\ out' \o mPendingWrites' = out \o mPendingWrites
  <2> DEFINE s == out \o mPendingWrites
  <2>1. s \in Seq(1..writes)
    BY <1>5, ConcatProperties
  <2>2. s \o <<>> = s
    BY <2>1, ConcatEmptySeq
  <2> QED BY <1>4, <2>1, <2>2
<1>7. TlsTyped' /\ Flags' /\ WriteLists'
  <2>1. TlsTyped'
    BY <1>2, <1>3 DEF TlsTyped
  <2>2. Flags'
    BY <1>2 DEF Flags
  <2>3. WriteLists'
    <3>1. wpend' \in 0..writes /\ <<>> \in Seq(1..writes)
      BY <1>4, <1>5
    <3> QED BY <1>2, <1>4, <1>6, <3>1 DEF WriteLists
  <2> QED BY <2>1, <2>2, <2>3
<1>8. Descriptor' /\ Handshake'
  BY <1>2, <1>3 DEF Descriptor, Handshake, Live
<1>9. WaitStates'
  BY <1>2 DEF WaitStates
<1>10. Sending'
  BY <1>2, <1>4, <1>6 DEF Sending
<1>11. GivenUp' /\ Reads'
  BY <1>1, <1>2, <1>3, GivenUpKept, ReadsKept
<1>12. Readers'
  <2>1. ready \in BOOLEAN /\ ready' \in BOOLEAN
    BY <1>2 DEF Flags
  <2> QED BY <1>1, <1>2, <1>3, <2>1, ReadersKept
<1> QED BY <1>3, <1>7, <1>8, <1>9, <1>10, <1>11, <1>12

\* The list is kept, and the wait state says that it is.
LEMMA WriteSomeStep ==
    ASSUME TlsInv, WriteSome
    PROVE  SessionInv'
<1> USE DEF TlsInv, SessionInv, OtherInv
<1>1. /\ stack # <<>> /\ stack[1].op = "write" /\ tlsFailed = "none" /\ Then(<<>>)
      /\ mPendingWrites # <<>>
  BY RunningIs DEF WriteSome
<1>2. UNCHANGED <<mState, tlsFailed, mFd, conn, inbox, mMode, session, bio, hs, asked, flights, readWaitState,
                  mPendingWrites, unread, plain, crowded, data, closed, inside, late, connects, writes>>
  BY DEF WriteSome, quietVars, programVars
<1>3. Placed(0) /\ stack' \in Seq(Ops) /\ Steps' /\ Stages' /\ connects # 0
  BY <1>1, <1>2, WriteDone
<1>4. /\ writes \in Nat /\ writes > 0 /\ mPendingWrites \in Seq(1..writes)
      /\ Len(mPendingWrites) \in Nat /\ Len(mPendingWrites) >= 1
  BY <1>1, PendingIs
<1>5. PICK n \in 0..(IF room THEN Len(mPendingWrites) - 1 ELSE 0) :
        /\ out' = out \o Sends(n) /\ resent' = (resent \/ n > 0)
        /\ \/ /\ writeWaitState' = "SSLReadWaitingForWrite"
              /\ room' = FALSE /\ wpend' = mPendingWrites[n + 1]
           \/ writeWaitState' = "SSLReadWaitingForRead" /\ wpend' = 0 /\ UNCHANGED room
  BY DEF WriteSome
<1>6. n \in 0..(Len(mPendingWrites) - 1)
  BY <1>4, <1>5
<1>7. writeWaitState' \in ReadWaits /\ resent' \in BOOLEAN /\ room' \in BOOLEAN /\ (room' => room)
  <2>1. room \in BOOLEAN /\ resent \in BOOLEAN
    BY DEF Flags
  <2>2. writeWaitState' \in ReadWaits
    BY <1>5, Zenon DEF ReadWaits
  <2>3. resent' = (resent \/ n > 0)
    BY <1>5, Zenon
  <2>4. resent' \in BOOLEAN
    BY <2>3
  <2>5. room' = FALSE \/ room' = room
    BY <1>5, Zenon
  <2>6. room' \in BOOLEAN
    BY <2>1, <2>5, Zenon
  <2>7. room' => room
    <3>1. CASE room' = FALSE
      BY <3>1, Zenon
    <3>2. CASE room' = room
      <4>1. room = TRUE \/ room = FALSE
        BY <2>1
      <4>2. CASE room = TRUE
        BY <4>2, Zenon
      <4>3. CASE room = FALSE
        <5>1. room' = FALSE
          BY <3>2, <4>3, Zenon
        <5> QED BY <5>1, Zenon
      <4> QED BY <4>1, <4>2, <4>3, Zenon
    <3> QED BY <2>5, <3>1, <3>2, Zenon
  <2> QED BY <2>2, <2>4, <2>6, <2>7
<1>8. wpend' \in 0..writes
  <2>1. n + 1 \in 1..Len(mPendingWrites)
    BY <1>4, <1>6
  <2>2. mPendingWrites[n + 1] \in 1..writes
    BY <1>4, <2>1, ElementOfSeq
  <2>3. wpend' = mPendingWrites[n + 1] \/ wpend' = 0
    BY <1>5
  <2> QED BY <1>4, <2>2, <2>3
<1>9. out' \in Seq(1..writes) /\ (~resent' => out' = out)
  <2>1. out \in Seq(1..writes)
    BY DEF WriteLists
  <2>2. Sends(n) \in Seq(1..writes)
    <3>1. \A i \in 1..n : mPendingWrites[i] \in 1..writes
      <4>1. \A i \in 1..n : i \in 1..Len(mPendingWrites)
        BY <1>4, <1>6
      <4> QED BY <1>4, <4>1, ElementOfSeq
    <3>2. 1 \in Nat /\ n \in Nat
      BY <1>4, <1>6
    <3> QED BY <1>4, <1>6, <3>1, <3>2, SubSeqProperties DEF Sends
  <2>3. n = 0 => Sends(n) = <<>>
    BY <1>4 DEF Sends
  <2>4. out' \in Seq(1..writes)
    BY <1>5, <2>1, <2>2, ConcatProperties
  <2>5. ~resent' => n = 0
    <3>1. ~resent' => ~(n > 0)
      BY <1>5
    <3> QED BY <1>4, <1>6, <3>1
  <2>6. out \o <<>> = out
    BY <2>1, ConcatEmptySeq
  <2> QED BY <1>5, <2>3, <2>4, <2>5, <2>6
<1>10. /\ ready' \in BOOLEAN /\ want' \in SUBSET {"in", "out"} /\ (ready => ready')
       /\ "out" \in want => "out" \in want'
  <2>1. ready \in BOOLEAN /\ want \in SUBSET {"in", "out"}
    BY DEF TlsTyped, Flags
  <2>2. Watch(Top.fd, {"in", "out"})
    BY DEF WriteSome
  <2> QED BY <2>1, <2>2 DEF Watch
<1>11. TlsTyped' /\ Flags' /\ WriteLists'
  <2>1. TlsTyped'
    <3>1. writeWaitState' \in Waits
      BY <1>7 DEF ReadWaits, Waits
    <3> QED BY <1>2, <1>3, <1>10, <3>1 DEF TlsTyped
  <2>2. Flags'
    BY <1>2, <1>7, <1>10 DEF Flags
  <2>3. WriteLists'
    BY <1>2, <1>8, <1>9 DEF WriteLists
  <2> QED BY <2>1, <2>2, <2>3
<1>12. Descriptor' /\ Handshake'
  <2>1. mFd # 0
    BY DEF WriteSome, Live
  <2>2. Descriptor'
    BY <1>2, <1>3, <2>1 DEF Descriptor
  <2> QED BY <1>2, <2>2 DEF Handshake, Live
<1>13. WaitStates'
  BY <1>1, <1>2, <1>4, <1>7 DEF WaitStates
<1>14. Sending'
  <2>1. ~resent' => ~resent
    BY <1>5
  <2> QED BY <1>2, <1>7, <1>9, <2>1 DEF Sending
<1>15. GivenUp' /\ Reads'
  BY <1>1, <1>2, <1>3, <1>10, GivenUpKept, ReadsKept
<1>16. Readers'
  <2>1. ready \in BOOLEAN
    BY DEF Flags
  <2> QED BY <1>1, <1>2, <1>3, <1>7, <1>10, <2>1, ReadersKept
<1> QED BY <1>3, <1>11, <1>12, <1>13, <1>14, <1>15, <1>16

\* A write goes on with the handshake.
LEMMA WriteHandshakesStep ==
    ASSUME TlsInv, WriteHandshakes
    PROVE  SessionInv'
<1> USE DEF TlsInv, SessionInv, OtherInv
<1>1. /\ stack # <<>> /\ stack[1].op = "write" /\ tlsFailed = "none" /\ Then(<<>>)
      /\ mPendingWrites # <<>>
      /\ UNCHANGED <<mState, tlsFailed, readWaitState, unread, writeVars, quietVars>>
  BY RunningIs DEF WriteHandshakes
<1>2. PICK event \in {"read", "write"} :
        /\ HandshakeWants(event)
        /\ writeWaitState' = IF event = "read" THEN "SSLReadWaitingForRead" ELSE "SSLReadWaitingForWrite"
  BY DEF WriteHandshakes
<1>3. ReadsFlight /\ Handshake' /\ asked' \in BOOLEAN /\ room' \in BOOLEAN /\ hs # Flights /\ (room' => room)
  BY <1>2, WantsIs
<1>4. /\ Live /\ mFd # 0 /\ bio # 0
      /\ Len(inbox') \in Nat /\ Len(inbox) \in Nat /\ Len(inbox') <= Len(inbox)
      /\ inbox = <<>> => inbox' = <<>>
      /\ UNCHANGED <<mFd, conn, mMode, session, bio, wpend, flights>>
  BY <1>3, FlightRead
<1>5. UNCHANGED <<tlsFailed, mPendingWrites, out, plain, resent, crowded, data, closed, inside, late, connects, writes>>
  BY <1>1 DEF writeVars, quietVars, programVars
<1>6. Placed(0) /\ stack' \in Seq(Ops) /\ Steps' /\ Stages' /\ connects # 0
  BY <1>1, <1>4, <1>5, WriteDone
<1>7. mState # "Connected"
  BY <1>3, <1>4 DEF Reads
<1>8. writeWaitState' \in ReadWaits
  BY <1>2 DEF ReadWaits
<1>9. ready' \in BOOLEAN /\ want' \in SUBSET {"in", "out"}
  <2>1. ready \in BOOLEAN /\ want \in SUBSET {"in", "out"}
    BY DEF TlsTyped, Flags
  <2>2. Watch(Top.fd, {"in", "out"})
    BY DEF WriteHandshakes
  <2> QED BY <2>1, <2>2 DEF Watch
<1>10. TlsTyped' /\ Flags' /\ WriteLists' /\ Descriptor'
  <2>1. writeWaitState' \in Waits
    BY <1>8 DEF ReadWaits, Waits
  <2> QED BY <1>1, <1>3, <1>6, <1>9, <2>1, FlightReadTyped
<1>11. WaitStates'
  <2>1. writes > 0
    BY <1>1, PendingIs
  <2> QED BY <1>1, <1>5, <1>7, <2>1 DEF WaitStates
<1>12. Sending'
  BY <1>1, <1>5, <1>7 DEF Sending
<1>13. GivenUp'
  BY <1>1, <1>4, <1>5, <1>6, GivenUpKept
<1>14. Reads'
  <2>1. ~crowded' => Len(inbox') <= 1 /\ (conn' = "shut" => inbox' = <<>>)
    <3>1. ~crowded => Len(inbox) <= 1 /\ (conn = "shut" => inbox = <<>>)
      BY DEF Reads
    <3>2. Len(inbox) <= 1 => Len(inbox') <= 1
      BY <1>4
    <3> QED BY <1>4, <1>5, <3>1, <3>2
  <2>2. ASSUME \A i \in 1..Len(stack) : stack[i].op \notin {"read", "reads"}, NEW j \in 1..Len(stack')
        PROVE  stack'[j].op \notin {"read", "reads"}
    BY <1>6, <2>2, Below
  <2> QED BY <1>1, <1>5, <1>7, <2>1, <2>2 DEF Reads
<1>15. Readers'
  BY <1>1, <1>7 DEF Readers
<1> QED BY <1>3, <1>6, <1>10, <1>11, <1>12, <1>13, <1>14, <1>15

\* Without a session the buffers go out as they are: only after close(), or when an
\* earlier write has failed.
LEMMA WritePlainStep ==
    ASSUME TlsInv, WritePlain
    PROVE  SessionInv'
<1> USE DEF TlsInv, SessionInv, OtherInv
<1>1. /\ stack # <<>> /\ stack[1].op = "write" /\ tlsFailed = "none" /\ Then(<<>>)
      /\ mPendingWrites # <<>> /\ ~session /\ stack[1].fd # 0
  BY RunningIs, TailIs DEF WritePlain, Top, TlsTyped
<1>2. UNCHANGED <<mState, tlsFailed, mFd, conn, inbox, room, want, ready, mMode, session, bio, hs, wpend,
                  asked, flights, readWaitState, writeWaitState, unread, odd, out, crowded, data, closed,
                  inside, late, connects, writes>>
  BY DEF WritePlain, fdVars, sslVars, waitVars, quietVars, programVars
<1>3. Placed(0) /\ stack' \in Seq(Ops) /\ Steps' /\ Stages' /\ connects # 0
  BY <1>1, <1>2, WriteDone
<1>4. /\ writes \in Nat /\ mPendingWrites \in Seq(1..writes)
      /\ Len(mPendingWrites) \in Nat /\ Len(mPendingWrites) >= 1
  BY <1>1, PendingIs
<1>5. mFd = 0
  BY <1>1 DEF Descriptor
<1>6. PICK n \in 0..Len(mPendingWrites) :
        /\ plain' = plain \o Sends(n)
        /\ mPendingWrites' = IF n = Len(mPendingWrites) THEN <<>> ELSE mPendingWrites
        /\ resent' = (resent \/ (n > 0 /\ n < Len(mPendingWrites)))
  BY DEF WritePlain
<1>7. /\ Sends(n) \in Seq(1..writes) /\ Len(Sends(n)) = n /\ plain \in Seq(1..writes)
  <2>1. \A i \in 1..n : mPendingWrites[i] \in 1..writes
    <3>1. \A i \in 1..n : i \in 1..Len(mPendingWrites)
      BY <1>4
    <3> QED BY <1>4, <3>1, ElementOfSeq
  <2>2. 1 \in Nat /\ n \in Nat
    BY <1>4
  <2>3. Sends(n) \in Seq(1..writes) /\ Len(Sends(n)) = n
    BY <1>4, <2>1, <2>2, SubSeqProperties DEF Sends
  <2> QED BY <2>3 DEF WriteLists
<1>8. /\ plain' \in Seq(1..writes) /\ Len(plain') = Len(plain) + n /\ Len(plain) \in Nat
  BY <1>6, <1>7, ConcatProperties, LenProperties
<1>9. mPendingWrites' \in Seq(1..writes) /\ resent' \in BOOLEAN
  <2>1. <<>> \in Seq(1..writes)
    OBVIOUS
  <2>2. mPendingWrites' \in {<<>>, mPendingWrites}
    BY <1>6
  <2>3. resent' \in BOOLEAN
    BY <1>6
  <2> QED BY <1>4, <2>1, <2>2, <2>3
<1>10. TlsTyped' /\ Flags' /\ WriteLists'
  <2>1. TlsTyped'
    BY <1>2, <1>3 DEF TlsTyped
  <2>2. Flags'
    BY <1>2, <1>9 DEF Flags
  <2>3. WriteLists'
    BY <1>2, <1>8, <1>9 DEF WriteLists
  <2> QED BY <2>1, <2>2, <2>3
<1>11. Descriptor' /\ Handshake'
  BY <1>2, <1>3 DEF Descriptor, Handshake, Live
<1>12. WaitStates'
  BY <1>2 DEF WaitStates
<1>13. Sending'
  <2>1. ASSUME ~resent', plain' = <<>>
        PROVE  ~resent /\ plain = <<>> /\ mPendingWrites' = mPendingWrites
    <3>1. Len(plain') = 0
      BY <2>1
    <3>2. n = 0 /\ Len(plain) = 0
      <4> DEFINE old == Len(plain)
                 new == Len(plain')
      <4>3. n \in Nat
        BY <1>4
      <4>4. old \in Nat /\ new = old + n
        BY <1>8, Zenon
      <4>5. new = 0
        BY <3>1, Zenon
      <4>1. n \in Nat /\ old \in Nat /\ new = old + n /\ new = 0
        BY <4>3, <4>4, <4>5, Zenon
      <4> HIDE DEF old, new
      <4>2. n = 0 /\ old = 0
        BY <4>1
      <4> QED BY <4>2 DEF old
    <3>3. n # Len(mPendingWrites)
      BY <1>4, <3>2
    <3>4. plain = <<>>
      BY <1>7, <3>2, EmptySeq
    <3>5. ~resent
      BY <1>6, <2>1
    <3> QED BY <1>6, <3>3, <3>4, <3>5
  <2> QED BY <1>2, <1>5, <2>1 DEF Sending
<1>14. GivenUp'
  <2>1. ~closed /\ connects <= 1 => mState = "Error"
    <3>1. 1 \in 1..Len(stack)
      BY <1>3 DEF Placed
    <3>2. ~closed /\ connects <= 1 => mState \in {"Connected", "Error"}
      BY <1>1, <3>1 DEF GivenUp
    <3>3. ~closed => mState \in {"Idle", "Closed", "Error"}
      BY <1>5 DEF Stages
    <3> QED BY <3>2, <3>3
  <2> QED BY <1>2, <1>3, <1>5, <2>1, GivenUpMoved
<1>15. Reads'
  BY <1>1, <1>2, <1>3, ReadsKept
<1>16. Readers'
  <2>1. ready \in BOOLEAN /\ ready' \in BOOLEAN
    BY <1>2 DEF Flags
  <2> QED BY <1>1, <1>2, <1>3, <2>1, ReadersKept
<1> QED BY <1>3, <1>10, <1>11, <1>12, <1>13, <1>14, <1>15, <1>16

-----------------------------------------------------------------------------
(* The attempt of the other family *)

\* What has nothing to do with it.
Settled ==
    UNCHANGED <<mState, stack, mFd, conn, inbox, room, want, ready, mMode, session, bio, hs, wpend,
                asked, flights, readWaitState, writeWaitState, mPendingWrites, out, plain, resent, unread,
                crowded, closed, inside, late, connects, writes>>

LEMMA SettledKeeps ==
    ASSUME TlsInv, Settled, tlsFailed' = tlsFailed
    PROVE  SessionInv'
<1> USE DEF TlsInv, SessionInv, OtherInv, Settled
<1>1. TlsTyped'
  BY DEF TlsTyped
<1>2. Flags'
  BY Zenon DEF Flags
<1>3. WriteLists' /\ Descriptor'
  BY DEF WriteLists, Descriptor
<1>4. Handshake'
  BY DEF Handshake, Live
<1>5. Steps' /\ Stages' /\ WaitStates'
  BY DEF Steps, Prompt, TakesTLS, Soon, Fresh, Live, Stages, WaitStates
<1>6. Sending' /\ GivenUp' /\ Reads' /\ Readers'
  BY DEF Sending, GivenUp, Reads, Readers
<1> QED BY <1>1, <1>2, <1>3, <1>4, <1>5, <1>6

\* It is answered.
LEMMA OtherSettlesStep ==
    ASSUME TlsInv, OtherSettles
    PROVE  SessionInv'
<1>1. Settled /\ tlsFailed' = tlsFailed
  BY DEF OtherSettles, Settled, sslVars, waitVars, writeVars, quietVars, programVars
<1> QED BY <1>1, SettledKeeps

\* It is removed.
LEMMA DropOtherStep ==
    ASSUME TlsInv, DropOther
    PROVE  SessionInv'
<1> USE DEF TlsInv, SessionInv, OtherInv
<1>1. stack # <<>> /\ stack[1].op = "dropOther"
  BY RunningIs DEF DropOther
<1>2. Unmoved /\ Watches /\ UNCHANGED <<want, ready>>
  BY DEF DropOther, Unmoved, Still, Watches, sslVars, waitVars, writeVars, quietVars, programVars, TlsTyped, Flags
<1>3. Placed(0)
  BY <1>1, ThenNone DEF DropOther
<1> QED BY <1>1, <1>2, <1>3, NothingMore

\* A read finds it there.
LEMMA ReadAssertsStep ==
    ASSUME TlsInv, ReadAsserts
    PROVE  SessionInv'
BY AssertionFails DEF ReadAsserts

\* connect() of the other family, whatever the kernel says at once.
LEMMA OtherConnectKeeps ==
    ASSUME TlsInv, Idle, mFd # 0, mState # "Connected", connects < MaxConnects, connects' = connects + 1,
           UNCHANGED <<sslVars, mPendingWrites, closed, inside, writes>>, Calls,
           late' \in BOOLEAN, late => late',
           room' \in BOOLEAN, ready' \in BOOLEAN, want' \in SUBSET {"in", "out"}, inbox' = inbox,
           \/ mFd' = mFd /\ conn' = conn
           \/ bio = 0 /\ mFd' = connects + 1 /\ conn' = "up",
           stack' \in Seq(Ops),
           \A i \in 1..Len(stack') : stack'[i].op \in {"watch", "onState", "startTLS", "dropOther"},
           \/ mState' = mState /\ \A i \in 1..Len(stack') : stack'[i].op # "startTLS"
           \/ /\ mState' = "Handshaking" /\ (bio = 0 \/ late') /\ stack'[1].op = "onState"
              /\ \A i \in 1..Len(stack') : stack'[i].op = "startTLS" => i = 2
              /\ \E i \in 1..Len(stack') : stack'[i].op = "startTLS"
    PROVE  SessionInv'
<1> USE DEF TlsInv, SessionInv, OtherInv
<1>1. stack = <<>> /\ 1..Len(stack) = {} /\ tlsFailed = "none"
  BY DEF Idle
<1>2. UNCHANGED <<mMode, session, bio, hs, wpend, asked, flights, mPendingWrites, closed, inside, writes, tlsFailed,
                  readWaitState, writeWaitState, out, plain, resent, unread, crowded>>
  BY DEF Calls, sslVars, waitVars
<1>3. /\ connects \in Nat /\ connects # 0 /\ connects' \in 0..MaxConnects /\ connects' # 0 /\ ~(connects' <= 1)
      /\ mFd' \in 0..connects' /\ mFd' # 0 /\ bio' \in 0..connects' /\ session /\ session \in BOOLEAN
  <2>1. connects \in 0..MaxConnects /\ mFd \in 0..connects /\ bio \in 0..connects /\ MaxConnects \in Nat
    BY TlsBounds DEF TlsTyped
  <2>2. connects # 0
    BY <2>1
  <2>3. session /\ session \in BOOLEAN
    BY DEF Descriptor, Flags
  <2>4. mFd' = mFd \/ mFd' = connects + 1
    OBVIOUS
  <2> QED BY <1>2, <2>1, <2>2, <2>3, <2>4
<1>4. mState' \in {"Idle", "Connecting", "Handshaking", "Closed", "Error"}
  BY DEF TlsTyped
<1>5. TlsTyped'
  BY <1>2, <1>3, <1>4 DEF TlsTyped, Conns
<1>6. Flags'
  BY <1>2 DEF Flags
<1>7. WriteLists'
  BY <1>2 DEF WriteLists
<1>8. Descriptor'
  BY <1>2, <1>3 DEF Descriptor
<1>9. Handshake'
  <2>1. Live' => Live /\ conn' = conn
    BY <1>2, <1>3 DEF Live
  <2>2. conn' = "reset" => conn' = conn
    OBVIOUS
  <2> QED BY <1>2, <2>1, <2>2 DEF Handshake
<1>10. Steps'
  <2>1. \A i \in 1..Len(stack') : stack'[i].op \notin {"fdRead", "connectTLS", "read", "drop", "close"}
    OBVIOUS
  <2>2. stack' # <<>> => 1 \in 1..Len(stack')
    BY TailIs
  <2>3. \A i \in 2..Len(stack') : i \in 1..Len(stack')
    BY LenProperties
  <2>4. \A i \in 1..Len(stack') : Prompt(i)'
    <3> SUFFICES ASSUME NEW i \in 1..Len(stack') PROVE Prompt(i)'
      OBVIOUS
    <3>1. stack'[i].op = "startTLS" => i = 2 /\ mState' = "Handshaking" /\ (bio' = 0 \/ late') /\ stack'[1].op = "onState"
      BY <1>2
    <3>2. stack'[i].op = "startTLS" => Soon(i)'
      BY <3>1 DEF Soon
    <3> QED BY <1>3, <2>1, <3>1, <3>2 DEF Prompt
  <2> QED BY <2>1, <2>2, <2>3, <2>4 DEF Steps
<1>11. Stages'
  <2>1. ~closed => bio \in {0, mFd} /\ (mState = "Connecting" => bio = 0) /\ ~(mState = "Handshaking" /\ bio = 0)
    BY <1>1 DEF Stages
  <2> QED BY <1>2, <1>3, <1>4, <2>1 DEF Stages
<1>12. WaitStates'
  BY <1>1, <1>2, <1>4 DEF WaitStates
<1>13. Sending'
  BY <1>2, <1>4 DEF Sending
<1>14. GivenUp'
  BY <1>3 DEF GivenUp
<1>15. Reads'
  <2>1. bio = 0 => inbox = <<>>
    BY DEF Descriptor
  <2>2. ~crowded => Len(inbox) <= 1 /\ (conn' = "shut" => inbox = <<>>)
    BY DEF Reads
  <2> QED BY <1>2, <1>3, <1>4, <2>2 DEF Reads
<1>16. Readers'
  BY <1>4 DEF Readers
<1> QED BY <1>5, <1>6, <1>7, <1>8, <1>9, <1>10, <1>11, <1>12, <1>13, <1>14, <1>15, <1>16

\* The three steps of one that is connected at once.
LEMMA AtOnceIs ==
    ASSUME NEW fd \in 0..MaxConnects,
           stack' = <<[op |-> "onState", fd |-> fd], [op |-> "startTLS", fd |-> fd], [op |-> "dropOther", fd |-> fd]>>
    PROVE  /\ stack' \in Seq(Ops) /\ stack'[1].op = "onState"
           /\ \A i \in 1..Len(stack') : stack'[i].op \in {"watch", "onState", "startTLS", "dropOther"}
           /\ \A i \in 1..Len(stack') : stack'[i].op = "startTLS" => i = 2
           /\ \E i \in 1..Len(stack') : stack'[i].op = "startTLS"
           /\ \E i \in 1..Len(stack') : stack'[i].op = "dropOther"
<1> DEFINE Do(op) == [op |-> op, fd |-> fd]
           x == Do("onState")
           y == Do("startTLS")
           z == Do("dropOther")
<1>1. /\ x \in Ops /\ y \in Ops /\ z \in Ops /\ x.op = "onState" /\ y.op = "startTLS" /\ z.op = "dropOther"
      /\ stack' = <<x, y, z>>
  BY DEF Ops
<1> HIDE DEF x, y, z, Do
<1>2. /\ <<x, y, z>> \in Seq(Ops) /\ Len(<<x, y, z>>) = 3 /\ <<x, y, z>>[1] = x /\ <<x, y, z>>[2] = y
      /\ <<x, y, z>>[3] = z
  BY <1>1
<1>3. stack' \in Seq(Ops) /\ Len(stack') = 3 /\ stack'[1] = x /\ stack'[2] = y /\ stack'[3] = z
  BY <1>1, <1>2
<1>4. \A i \in 1..Len(stack') : i = 1 \/ i = 2 \/ i = 3
  BY <1>3
<1>5. 2 \in 1..Len(stack') /\ 3 \in 1..Len(stack')
  BY <1>3
<1> QED BY <1>1, <1>3, <1>4, <1>5

\* What connect() of the other family does.
LEMMA OtherConnectIs ==
    ASSUME TlsInv, OtherConnect
    PROVE  /\ stack' \in Seq(Ops)
           /\ \A i \in 1..Len(stack') : stack'[i].op \in {"watch", "onState", "startTLS", "dropOther"}
           /\ \/ /\ mState' = "Handshaking" /\ stack'[1].op = "onState"
                 /\ \A i \in 1..Len(stack') : stack'[i].op = "startTLS" => i = 2
                 /\ \E i \in 1..Len(stack') : stack'[i].op = "startTLS"
                 /\ \E i \in 1..Len(stack') : stack'[i].op = "dropOther"
                 /\ \/ /\ bio = 0 /\ mFd' = connects + 1 /\ conn' = "up" /\ room' = TRUE /\ want' = {"in"}
                       /\ ready' = FALSE
                       /\ other' = [fd |-> mFd, conn |-> conn, want |-> want, ready |-> ready]
                       /\ UNCHANGED <<inbox, late>>
                    \/ /\ bio # 0 /\ late' = TRUE
                       /\ other' = [fd |-> connects + 1, conn |-> "up", want |-> {"in"}, ready |-> FALSE]
                       /\ UNCHANGED <<mFd, conn, inbox, room, want, ready>>
              \/ /\ \A i \in 1..Len(stack') : stack'[i].op \notin {"startTLS", "dropOther"}
                 /\ late' = (late \/ bio # 0)
                 /\ other' = [fd |-> connects + 1, conn |-> "connecting", want |-> {"in"}, ready |-> FALSE]
                 /\ UNCHANGED <<mState, mFd, conn, inbox, room, want, ready>>
              \/ stack' = <<>> /\ UNCHANGED <<mState, fdVars, late>>
<1> USE DEF TlsInv, SessionInv, OtherInv
<1> DEFINE n == connects + 1
<1>1. n \in 0..MaxConnects
  <2>1. connects \in 0..MaxConnects /\ connects < MaxConnects
    BY DEF TlsTyped, OtherConnect
  <2> QED BY <2>1, TlsBounds
<1>2. stack = <<>>
  BY DEF OtherConnect, Idle
<1>3. ASSUME stack' = <<[op |-> "watch", fd |-> n]>>
      PROVE  /\ stack' \in Seq(Ops)
             /\ \A i \in 1..Len(stack') : stack'[i].op = "watch"
  <2> DEFINE x == [op |-> "watch", fd |-> n]
  <2>1. x \in Ops /\ x.op = "watch" /\ stack' = <<x>>
    BY <1>1, <1>3 DEF Ops
  <2> HIDE DEF x
  <2> QED BY <2>1
<1>4. ASSUME stack' = <<>>
      PROVE  stack' \in Seq(Ops) /\ 1..Len(stack') = {}
  BY <1>4
<1>5. ASSUME stack' = <<[op |-> "onState", fd |-> n], [op |-> "startTLS", fd |-> n], [op |-> "dropOther", fd |-> n]>>
      PROVE  /\ stack' \in Seq(Ops) /\ stack'[1].op = "onState"
             /\ \A i \in 1..Len(stack') : stack'[i].op \in {"watch", "onState", "startTLS", "dropOther"}
             /\ \A i \in 1..Len(stack') : stack'[i].op = "startTLS" => i = 2
             /\ \E i \in 1..Len(stack') : stack'[i].op = "startTLS"
             /\ \E i \in 1..Len(stack') : stack'[i].op = "dropOther"
  BY <1>1, <1>5, AtOnceIs
<1>6. \/ /\ mState' = "Handshaking"
         /\ stack' = <<[op |-> "onState", fd |-> n], [op |-> "startTLS", fd |-> n], [op |-> "dropOther", fd |-> n]>>
         /\ \/ /\ bio = 0 /\ mFd' = n /\ conn' = "up" /\ room' = TRUE /\ want' = {"in"} /\ ready' = FALSE
               /\ other' = [fd |-> mFd, conn |-> conn, want |-> want, ready |-> ready]
               /\ UNCHANGED <<inbox, late>>
            \/ /\ bio # 0 /\ late' = TRUE
               /\ other' = [fd |-> n, conn |-> "up", want |-> {"in"}, ready |-> FALSE]
               /\ UNCHANGED <<mFd, conn, inbox, room, want, ready>>
      \/ /\ stack' = <<[op |-> "watch", fd |-> n]>>
         /\ late' = (late \/ bio # 0)
         /\ other' = [fd |-> n, conn |-> "connecting", want |-> {"in"}, ready |-> FALSE]
         /\ UNCHANGED <<mState, mFd, conn, inbox, room, want, ready>>
      \/ stack' = <<>> /\ UNCHANGED <<mState, fdVars, late>>
  BY <1>2 DEF OtherConnect
<1> HIDE DEF n
<1>7. CASE /\ mState' = "Handshaking"
           /\ stack' = <<[op |-> "onState", fd |-> n], [op |-> "startTLS", fd |-> n], [op |-> "dropOther", fd |-> n]>>
  BY <1>5, <1>6, <1>7, EmptySeq DEF n
<1>8. CASE stack' = <<[op |-> "watch", fd |-> n]>>
  BY <1>3, <1>6, <1>8 DEF n
<1>9. CASE stack' = <<>>
  BY <1>4, <1>6, <1>9
<1> QED BY <1>6, <1>7, <1>8, <1>9

LEMMA OtherConnectStep ==
    ASSUME TlsInv, OtherConnect
    PROVE  SessionInv'
<1> USE DEF TlsInv, SessionInv, OtherInv
<1>1. /\ Idle /\ mFd # 0 /\ mState # "Connected" /\ connects < MaxConnects /\ connects' = connects + 1
      /\ UNCHANGED <<sslVars, mPendingWrites, closed, inside, writes>> /\ Calls
  BY DEF OtherConnect
<1>2. late \in BOOLEAN /\ room \in BOOLEAN /\ ready \in BOOLEAN /\ want \in SUBSET {"in", "out"}
  BY DEF Flags, TlsTyped
<1>3. /\ late' \in BOOLEAN /\ (late => late')
      /\ room' \in BOOLEAN /\ ready' \in BOOLEAN /\ want' \in SUBSET {"in", "out"} /\ inbox' = inbox
      /\ \/ mFd' = mFd /\ conn' = conn
         \/ bio = 0 /\ mFd' = connects + 1 /\ conn' = "up"
  BY <1>2, OtherConnectIs DEF fdVars
<1>4. /\ stack' \in Seq(Ops)
      /\ \A i \in 1..Len(stack') : stack'[i].op \in {"watch", "onState", "startTLS", "dropOther"}
      /\ \/ mState' = mState /\ \A i \in 1..Len(stack') : stack'[i].op # "startTLS"
         \/ /\ mState' = "Handshaking" /\ (bio = 0 \/ late') /\ stack'[1].op = "onState"
            /\ \A i \in 1..Len(stack') : stack'[i].op = "startTLS" => i = 2
            /\ \E i \in 1..Len(stack') : stack'[i].op = "startTLS"
  <2>1. stack' = <<>> => 1..Len(stack') = {}
    OBVIOUS
  <2> QED BY <2>1, OtherConnectIs
<1> QED BY <1>1, <1>3, <1>4, OtherConnectKeeps

-----------------------------------------------------------------------------
(* What is known of the two attempts together *)

\* The other attempt is left alone, or watched, or answered.
Beside ==
    \/ other' = other
    \/ /\ other # NoOther
       /\ other' \in [fd : {other.fd}, conn : Conns, want : SUBSET {"in", "out"}, ready : BOOLEAN]

LEMMA BesideKept ==
    ASSUME TlsInv, Beside, UNCHANGED <<mFd, connects>>
    PROVE  Others' /\ (other' # NoOther => other # NoOther)
<1> USE DEF TlsInv, SessionInv, OtherInv
<1>1. CASE other' = other
  BY <1>1 DEF Others
<1>2. CASE /\ other # NoOther
           /\ other' \in [fd : {other.fd}, conn : Conns, want : SUBSET {"in", "out"}, ready : BOOLEAN]
  <2>1. other.fd \in 1..connects /\ mFd # 0 /\ other.fd # mFd /\ connects >= 2
    BY <1>2 DEF Others
  <2>2. other'.fd = other.fd
    BY <1>2
  <2>3. other' \in [fd : 1..connects, conn : Conns, want : SUBSET {"in", "out"}, ready : BOOLEAN]
    BY <1>2, <2>1
  <2> QED BY <1>2, <2>1, <2>2, <2>3 DEF Others
<1> QED BY <1>1, <1>2 DEF Beside

LEMMA WatchBeside ==
    ASSUME TlsInv, NEW fd, NEW events \in SUBSET {"in", "out"}, Watch(fd, events)
    PROVE  Beside
<1> USE DEF TlsInv, SessionInv, OtherInv
<1>1. CASE fd = other.fd /\ other.fd # 0
  <2>1. other # NoOther
    BY <1>1 DEF NoOther
  <2>2. other.conn \in Conns /\ other \in [fd : 1..connects, conn : Conns, want : SUBSET {"in", "out"}, ready : BOOLEAN]
    BY <2>1 DEF Others
  <2>3. other' = [other EXCEPT !.want = events, !.ready = TRUE]
    BY <1>1 DEF Watch
  <2>4. other' \in [fd : {other.fd}, conn : Conns, want : SUBSET {"in", "out"}, ready : BOOLEAN]
    BY <2>2, <2>3
  <2> QED BY <2>1, <2>4 DEF Beside
<1>2. CASE ~(fd = other.fd /\ other.fd # 0)
  BY <1>2 DEF Watch, Beside
<1> QED BY <1>1, <1>2

\* None is watched when there is none.
LEMMA WatchNone ==
    ASSUME other = NoOther, NEW fd, NEW events, Watch(fd, events)
    PROVE  other' = NoOther
BY DEF Watch, NoOther

\* A step of the callback: what takes the place of the first step left.
LEMMA AsideKept ==
    ASSUME TlsInv, tlsFailed' = "none", UNCHANGED <<late, connects>>, NEW n \in 0..3, Placed(n),
           \A i \in 1..n : stack'[i].op \notin {"dropOther", "fdRead", "fdWrite"},
           \/ other' = NoOther
           \/ /\ Beside /\ mFd' = mFd /\ stack[1].op # "dropOther"
              /\ bio' = bio \/ late \/ Leaves
              /\ \A i \in 1..n : stack'[i].op \notin {"drop", "startTLS"}
              /\ late \/ \A i \in 1..n : stack'[i].op \notin {"read", "reads"},
           Leaves => /\ mState' # "Connected"
                     /\ \A i \in 1..n : stack'[i].op = "connectTLS" => flights' = 0 /\ ~asked',
           mState' = "Idle" => mState = "Idle",
           mState' = "Connecting" => mState = "Connecting" /\ bio' = 0 /\ \A i \in 1..n : stack'[i].op # "startTLS"
    PROVE  OtherInv'
<1> USE DEF TlsInv, SessionInv, OtherInv
<1>1. ASSUME NEW i \in 1..Len(stack')
      PROVE  i \in 1..n \/ \E k \in 2..Len(stack) : k \in 1..Len(stack) /\ stack'[i] = stack[k]
  BY Below
<1>2. Leaves' => Leaves
  <2> SUFFICES ASSUME NEW i \in 1..Len(stack'), stack'[i].op = "dropOther" PROVE Leaves
    BY DEF Leaves
  <2>1. i \notin 1..n
    OBVIOUS
  <2>2. PICK k \in 1..Len(stack) : stack'[i] = stack[k]
    BY <1>1, <2>1
  <2> QED BY <2>2 DEF Leaves
<1>3. Leaves /\ stack[1].op # "dropOther" => Leaves'
  <2> SUFFICES ASSUME stack[1].op # "dropOther", NEW i \in 1..Len(stack), stack[i].op = "dropOther" PROVE Leaves'
    BY DEF Leaves
  <2>1. i \in 2..Len(stack)
    BY DEF Placed
  <2>2. PICK k \in 1..Len(stack') : stack'[k] = stack[i]
    BY <2>1, StillThere
  <2> QED BY <2>2 DEF Leaves
<1>4. Others'
  BY BesideKept DEF Others
<1>5. ASSUME other' # NoOther
      PROVE  /\ bio' # 0 /\ ~late => Leaves'
             /\ \A i \in 1..Len(stack') :
                  /\ stack'[i].op # "drop"
                  /\ stack'[i].op \in {"read", "reads"} => late
                  /\ stack'[i].op = "startTLS" => late \/ Leaves'
  <2>1. /\ Beside /\ mFd' = mFd /\ stack[1].op # "dropOther" /\ (bio' = bio \/ late \/ Leaves)
        /\ \A i \in 1..n : stack'[i].op \notin {"drop", "startTLS"}
        /\ late \/ \A i \in 1..n : stack'[i].op \notin {"read", "reads"}
    BY <1>5
  <2>2. other # NoOther
    BY <1>5, <2>1, BesideKept
  <2>3. bio' # 0 /\ ~late => Leaves'
    BY <1>3, <2>1, <2>2 DEF Aside
  <2>4. ASSUME NEW i \in 1..Len(stack')
        PROVE  /\ stack'[i].op # "drop"
               /\ stack'[i].op \in {"read", "reads"} => late
               /\ stack'[i].op = "startTLS" => late \/ Leaves'
    <3>1. CASE i \in 1..n
      BY <2>1, <3>1, Zenon
    <3>2. ASSUME NEW k \in 1..Len(stack), stack'[i] = stack[k]
          PROVE  /\ stack'[i].op # "drop"
                 /\ stack'[i].op \in {"read", "reads"} => late
                 /\ stack'[i].op = "startTLS" => late \/ Leaves'
      <4>1. /\ stack[k].op # "drop"
            /\ stack[k].op \in {"read", "reads"} => late
            /\ stack[k].op = "startTLS" => late \/ Leaves
        BY <2>2, <3>2 DEF Aside
      <4> QED BY <1>3, <2>1, <3>2, <4>1, Zenon
    <3> QED BY <1>1, <3>1, <3>2
  <2> QED BY <2>3, <2>4
<1>6. ASSUME Leaves'
      PROVE  /\ mState' # "Connected"
             /\ stack'[1].op = "connectTLS" => flights' = 0 /\ ~asked'
             /\ \A i \in 1..Len(stack') : stack'[i].op \notin {"fdRead", "fdWrite"}
  <2>1. Leaves
    BY <1>2, <1>6
  <2>2. ASSUME NEW i \in 1..Len(stack') PROVE stack'[i].op \notin {"fdRead", "fdWrite"}
    <3>1. ASSUME NEW k \in 1..Len(stack), stack'[i] = stack[k] PROVE stack'[i].op \notin {"fdRead", "fdWrite"}
      BY <2>1, <3>1 DEF Aside
    <3> QED BY <1>1, <3>1
  <2>3. ASSUME stack'[1].op = "connectTLS" PROVE 1 \in 1..n
    <3>1. 1 \in 1..Len(stack')
      BY <1>6 DEF Leaves, Placed
    <3>2. ASSUME NEW k \in 2..Len(stack), stack'[1] = stack[k] PROVE FALSE
      BY <2>3, <3>2 DEF Steps
    <3> QED BY <1>1, <3>1, <3>2
  <2> QED BY <2>1, <2>2, <2>3
<1>7. Aside'
  BY <1>5, <1>6 DEF Aside
<1>8. Unbegun'
  <2>1. mState' = "Idle" => connects' = 0
    BY DEF Unbegun
  <2>2. ASSUME mState' = "Connecting", NEW i \in 1..Len(stack') PROVE stack'[i].op # "startTLS"
    <3>1. ASSUME NEW k \in 1..Len(stack), stack'[i] = stack[k] PROVE stack'[i].op # "startTLS"
      BY <2>2, <3>1 DEF Unbegun
    <3> QED BY <1>1, <2>2, <3>1
  <2>3. ASSUME NEW i \in 1..Len(stack'), stack'[i].op = "fdWrite" PROVE stack'[i].fd # 0
    <3>1. ASSUME NEW k \in 1..Len(stack), stack'[i] = stack[k] PROVE stack'[i].fd # 0
      BY <2>3, <3>1 DEF Unbegun
    <3> QED BY <1>1, <2>3, <3>1
  <2> QED BY <2>1, <2>2, <2>3 DEF Unbegun
<1> QED BY <1>4, <1>7, <1>8

\* The same when the state of the socket does not change.
LEMMA AsideQuiet ==
    ASSUME TlsInv, tlsFailed' = "none", UNCHANGED <<mState, mFd, bio, late, connects>>, Beside,
           stack[1].op # "dropOther", NEW n \in 0..3, Placed(n),
           \A i \in 1..n : stack'[i].op \notin {"dropOther", "fdRead", "fdWrite", "drop", "startTLS", "connectTLS"},
           late \/ other' = NoOther \/ \A i \in 1..n : stack'[i].op \notin {"read", "reads"}
    PROVE  OtherInv'
<1>1. Leaves => mState' # "Connected"
  BY DEF TlsInv, OtherInv, Aside
<1>2. mState' = "Connecting" => mState = "Connecting" /\ bio' = 0
  BY DEF TlsInv, OtherInv, Unbegun
<1>3. /\ \A i \in 1..n : stack'[i].op \notin {"dropOther", "fdRead", "fdWrite"}
      /\ \A i \in 1..n : stack'[i].op \notin {"drop", "startTLS"}
      /\ \A i \in 1..n : stack'[i].op # "connectTLS"
      /\ \A i \in 1..n : stack'[i].op # "startTLS"
  OBVIOUS
<1>4. \/ other' = NoOther
      \/ /\ Beside /\ mFd' = mFd /\ stack[1].op # "dropOther"
         /\ bio' = bio \/ late \/ Leaves
         /\ \A i \in 1..n : stack'[i].op \notin {"drop", "startTLS"}
         /\ late \/ \A i \in 1..n : stack'[i].op \notin {"read", "reads"}
  BY <1>3
<1> QED BY <1>1, <1>2, <1>3, <1>4, AsideKept

\* A step that leaves the stack alone.
LEMMA AsideSame ==
    ASSUME TlsInv, UNCHANGED <<stack, mState, late, connects>>,
           other' = NoOther \/ (Beside /\ UNCHANGED <<mFd, bio>>), bio' \in {0, bio},
           tlsFailed' = "two" => other' # NoOther /\ late,
           flights = 0 /\ ~asked => flights' = 0 /\ ~asked'
    PROVE  OtherInv'
<1> USE DEF TlsInv, SessionInv, OtherInv
<1>1. Others' /\ (other' # NoOther => other # NoOther /\ bio' = bio)
  BY BesideKept DEF Others
<1>2. Leaves' <=> Leaves
  BY DEF Leaves
<1>3. Aside'
  <2>1. other' # NoOther /\ bio' # 0 /\ ~late' => Leaves'
    BY <1>1, <1>2 DEF Aside
  <2>2. other' # NoOther => \A i \in 1..Len(stack') :
          /\ stack'[i].op # "drop"
          /\ stack'[i].op \in {"read", "reads"} => late'
          /\ stack'[i].op = "startTLS" => late' \/ Leaves'
    BY <1>1, <1>2 DEF Aside
  <2>3. Leaves' =>
          /\ mState' # "Connected"
          /\ stack'[1].op = "connectTLS" => flights' = 0 /\ ~asked'
          /\ \A i \in 1..Len(stack') : stack'[i].op \notin {"fdRead", "fdWrite"}
    BY <1>2 DEF Aside
  <2> QED BY <2>1, <2>2, <2>3 DEF Aside
<1>4. Unbegun'
  BY DEF Unbegun
<1> QED BY <1>1, <1>3, <1>4

\* The kernel and the server.
LEMMA NetworkAside ==
    ASSUME TlsInv, Settles \/ Breaks \/ RoomComes \/ FlightComes \/ DataComes
    PROVE  OtherInv'
<1>1. /\ tlsFailed = "none"
      /\ UNCHANGED <<stack, mState, tlsFailed, other, mFd, bio, late, connects>>
  BY DEF Settles, Breaks, RoomComes, FlightComes, DataComes, Network, programVars
<1>2. ASSUME flights = 0, ~asked PROVE flights' = 0 /\ ~asked'
  BY <1>2 DEF Settles, Breaks, RoomComes, FlightComes, DataComes, Changes
<1>3. Beside
  BY <1>1 DEF Beside
<1> QED BY <1>1, <1>2, <1>3, AsideSame

LEMMA OtherSettlesAside ==
    ASSUME TlsInv, OtherSettles
    PROVE  OtherInv'
<1> USE DEF TlsInv, SessionInv, OtherInv
<1>1. /\ tlsFailed = "none" /\ other.conn = "connecting"
      /\ UNCHANGED <<stack, mState, tlsFailed, mFd, bio, late, connects, flights, asked>>
  BY DEF OtherSettles, sslVars, quietVars, programVars
<1>2. other # NoOther
  BY <1>1 DEF NoOther
<1>3. other \in [fd : 1..connects, conn : Conns, want : SUBSET {"in", "out"}, ready : BOOLEAN]
  BY <1>2 DEF Others
<1>4. PICK answer \in {"up", "refused"} : other' = [other EXCEPT !.conn = answer, !.ready = TRUE]
  BY DEF OtherSettles
<1>5. other' \in [fd : {other.fd}, conn : Conns, want : SUBSET {"in", "out"}, ready : BOOLEAN]
  BY <1>3, <1>4 DEF Conns
<1>6. Beside
  BY <1>2, <1>5 DEF Beside
<1> QED BY <1>1, <1>6, AsideSame

\* The program.
LEMMA TlsConnectAside ==
    ASSUME TlsInv, TlsConnect
    PROVE  OtherInv'
<1> USE DEF TlsInv, SessionInv, OtherInv
<1> DEFINE Do(op) == [op |-> op, fd |-> connects + 1]
<1>1. /\ ProgramRuns /\ mFd = 0 /\ connects < MaxConnects /\ connects' = connects + 1
      /\ UNCHANGED <<other, bio, late, tlsFailed>>
  BY DEF TlsConnect, Calls
<1>2. other' = NoOther /\ tlsFailed = "none"
  BY <1>1, ProgramRunsIs DEF Others
<1>3. connects \in Nat /\ connects + 1 \in 0..MaxConnects /\ (connects = 0 => bio = 0)
  <2>1. connects \in 0..MaxConnects /\ bio \in 0..connects
    BY DEF TlsTyped
  <2> QED BY <1>1, <2>1, TlsBounds
<1>4. ASSUME NEW p, ConnectSteps(p), stack' = p \o stack
      PROVE  /\ stack'[1].op \in {"onState", "watch"}
             /\ \A i \in 1..Len(stack') :
                  \/ stack'[i].op \in {"onState", "watch", "drop"}
                  \/ stack'[i].op = "startTLS" /\ (Len(p) = 2 /\ p[2].op = "startTLS")
                  \/ \E k \in 1..Len(stack) : stack'[i] = stack[k]
             /\ \A i \in 1..Len(stack') : stack'[i].op # "fdRead"
  <2>1. /\ stack'[1] = p[1] /\ (Len(p) = 2 => stack'[2] = p[2])
        /\ \A i \in 1..Len(stack') :
              \/ i = 1
              \/ i = 2 /\ Len(p) = 2
              \/ i \in 2..Len(stack') /\ \E k \in 1..Len(stack) : stack'[i] = stack[k]
        /\ \A i \in 1..Len(stack') : stack'[i].op \notin {"fdRead", "connectTLS", "read"}
    BY <1>1, <1>4, ConnectStack
  <2> QED BY <1>4, <2>1 DEF ConnectSteps
<1>5. /\ mState' # "Idle" /\ mState' # "Connected"
      /\ \E p : /\ ConnectSteps(p) /\ stack' = p \o stack
                /\ mState' = "Connecting" =>
                      mState \in {"Idle", "Connecting"} /\ ~(Len(p) = 2 /\ p[2].op = "startTLS")
  <2>1. \A op : Do(op).op = op
    OBVIOUS
  <2>2. /\ ConnectSteps(<<Do("watch")>>) /\ ConnectSteps(<<Do("onState"), Do("startTLS")>>)
        /\ ConnectSteps(<<Do("onState"), Do("watch")>>) /\ ConnectSteps(<<Do("onState"), Do("drop")>>)
    BY <1>3, ConnectStepsAre
  <2>3. \/ mState' = "Handshaking" /\ stack' = <<Do("onState"), Do("startTLS")>> \o stack
        \/ mState' = "Error" /\ stack' = <<Do("onState"), Do("drop")>> \o stack
        \/ /\ mState = "Idle" /\ mState' = "Connecting"
           /\ stack' = (<<Do("onState")>> \o <<Do("watch")>>) \o stack
        \/ mState # "Idle" /\ mState # "Connected" /\ mState' = mState /\ stack' = (<<>> \o <<Do("watch")>>) \o stack
    BY DEF TlsConnect
  <2>4. <<Do("onState")>> \o <<Do("watch")>> = <<Do("onState"), Do("watch")>>
    BY PairIs
  <2>5. <<>> \o <<Do("watch")>> = <<Do("watch")>>
    OBVIOUS
  <2>6. \A x, y : Len(<<x, y>>) = 2 /\ <<x, y>>[2] = y
    OBVIOUS
  <2>7. \A x : Len(<<x>>) = 1
    OBVIOUS
  <2> HIDE DEF Do
  <2>8. CASE mState' = "Handshaking" /\ stack' = <<Do("onState"), Do("startTLS")>> \o stack
    BY <2>2, <2>8
  <2>9. CASE mState' = "Error" /\ stack' = <<Do("onState"), Do("drop")>> \o stack
    BY <2>2, <2>9
  <2>10. CASE /\ mState = "Idle" /\ mState' = "Connecting"
              /\ stack' = (<<Do("onState")>> \o <<Do("watch")>>) \o stack
    <3>1. stack' = <<Do("onState"), Do("watch")>> \o stack
      BY <2>4, <2>10
    <3>2. <<Do("onState"), Do("watch")>>[2].op = "watch"
      BY <2>1, <2>6
    <3> QED BY <2>2, <2>10, <3>1, <3>2
  <2>11. CASE /\ mState # "Idle" /\ mState # "Connected" /\ mState' = mState
              /\ stack' = (<<>> \o <<Do("watch")>>) \o stack
    <3>1. stack' = <<Do("watch")>> \o stack
      BY <2>5, <2>11
    <3>2. Len(<<Do("watch")>>) # 2
      BY <2>7
    <3> QED BY <2>2, <2>11, <3>1, <3>2
  <2> QED BY <2>3, <2>8, <2>9, <2>10, <2>11
<1>6. PICK p : /\ ConnectSteps(p) /\ stack' = p \o stack
               /\ mState' = "Connecting" =>
                     mState \in {"Idle", "Connecting"} /\ ~(Len(p) = 2 /\ p[2].op = "startTLS")
  BY <1>5
<1>7. /\ stack'[1].op \in {"onState", "watch"}
      /\ \A i \in 1..Len(stack') :
           \/ stack'[i].op \in {"onState", "watch", "drop"}
           \/ stack'[i].op = "startTLS" /\ (Len(p) = 2 /\ p[2].op = "startTLS")
           \/ \E k \in 1..Len(stack) : stack'[i] = stack[k]
      /\ \A i \in 1..Len(stack') : stack'[i].op # "fdRead"
  BY <1>4, <1>6
<1>8. Leaves' => Leaves
  BY <1>7 DEF Leaves
<1>9. Aside'
  <2>1. ASSUME Leaves, NEW i \in 1..Len(stack') PROVE stack'[i].op # "fdWrite"
    BY <1>7, <2>1 DEF Aside
  <2> QED BY <1>1, <1>2, <1>5, <1>7, <1>8, <2>1 DEF Aside
<1>10. Unbegun'
  <2>1. ASSUME mState' = "Connecting" PROVE bio = 0 /\ \A i \in 1..Len(stack') : stack'[i].op # "startTLS"
    <3>1. mState \in {"Idle", "Connecting"} /\ ~(Len(p) = 2 /\ p[2].op = "startTLS")
      BY <1>6, <2>1
    <3>2. mState = "Idle" => connects = 0 /\ stack = <<>>
      BY DEF Unbegun, Descriptor
    <3>3. ASSUME NEW k \in 1..Len(stack) PROVE stack[k].op # "startTLS"
      <4>1. mState # "Idle"
        BY <1>1, <3>2, <3>3
      <4> QED BY <3>1, <4>1 DEF Unbegun
    <3> QED BY <1>3, <1>7, <3>1, <3>2, <3>3 DEF Unbegun
  <2>2. ASSUME NEW i \in 1..Len(stack'), stack'[i].op = "fdWrite" PROVE stack'[i].fd # 0
    BY <1>7, <2>2 DEF Unbegun
  <2> QED BY <1>1, <1>5, <2>1, <2>2 DEF Unbegun
<1>11. Others'
  BY <1>2 DEF Others
<1> QED BY <1>9, <1>10, <1>11

LEMMA OtherConnectAside ==
    ASSUME TlsInv, OtherConnect
    PROVE  OtherInv'
<1> USE DEF TlsInv, SessionInv, OtherInv
<1>1. /\ mFd # 0 /\ other = NoOther /\ connects' = connects + 1 /\ bio' = bio /\ tlsFailed' = "none" /\ stack = <<>>
      /\ connects < MaxConnects
  BY DEF OtherConnect, Calls, Idle, sslVars
<1>2. /\ connects \in Nat /\ mFd \in 1..connects /\ connects >= 1
  <2>1. connects \in 0..MaxConnects /\ mFd \in 0..connects
    BY DEF TlsTyped
  <2> QED BY <1>1, <2>1, TlsBounds
<1>3. mFd \in 1..connects' /\ connects' >= 2 /\ connects + 1 \in 1..connects' /\ mFd # connects + 1 /\ connects' # 0
  BY <1>1, <1>2
<1>4. conn \in Conns /\ want \in SUBSET {"in", "out"} /\ ready \in BOOLEAN
  <2>1. conn \in {"none"} \cup Conns /\ want \in SUBSET {"in", "out"} /\ ready \in BOOLEAN
    BY DEF TlsTyped, Flags
  <2> QED BY <1>1, <2>1 DEF TlsInv, Known
<1>5. mState # "Idle"
  <2>1. connects # 0
    BY <1>2
  <2> QED BY <2>1 DEF Unbegun
<1>6. CASE /\ mState' = "Handshaking" /\ stack'[1].op = "onState"
           /\ \E i \in 1..Len(stack') : stack'[i].op = "dropOther"
           /\ bio = 0 /\ mFd' = connects + 1
           /\ other' = [fd |-> mFd, conn |-> conn, want |-> want, ready |-> ready]
           /\ UNCHANGED late
  <2>1. Others'
    BY <1>1, <1>3, <1>4, <1>6 DEF Others
  <2>2. Leaves'
    BY <1>6 DEF Leaves
  <2>3. \A i \in 1..Len(stack') : stack'[i].op \in {"watch", "onState", "startTLS", "dropOther"}
    BY OtherConnectIs
  <2>4. Aside'
    BY <1>1, <1>6, <2>2, <2>3 DEF Aside
  <2> QED BY <1>6, <2>1, <2>3, <2>4 DEF Unbegun
<1>7. CASE /\ mState' = "Handshaking" /\ stack'[1].op = "onState"
           /\ \E i \in 1..Len(stack') : stack'[i].op = "dropOther"
           /\ late' = TRUE /\ mFd' = mFd
           /\ other' = [fd |-> connects + 1, conn |-> "up", want |-> {"in"}, ready |-> FALSE]
  <2>1. Others'
    <3>1. other' \in [fd : 1..connects', conn : Conns, want : SUBSET {"in", "out"}, ready : BOOLEAN]
      BY <1>3, <1>7 DEF Conns
    <3> QED BY <1>1, <1>3, <1>7, <3>1 DEF Others
  <2>2. Leaves'
    BY <1>7 DEF Leaves
  <2>3. \A i \in 1..Len(stack') : stack'[i].op \in {"watch", "onState", "startTLS", "dropOther"}
    BY OtherConnectIs
  <2>4. Aside'
    BY <1>1, <1>7, <2>2, <2>3 DEF Aside
  <2> QED BY <1>7, <2>1, <2>3, <2>4 DEF Unbegun
<1>8. CASE /\ \A i \in 1..Len(stack') : stack'[i].op \notin {"startTLS", "dropOther"}
           /\ late' = (late \/ bio # 0) /\ UNCHANGED <<mState, mFd>>
           /\ other' = [fd |-> connects + 1, conn |-> "connecting", want |-> {"in"}, ready |-> FALSE]
  <2>1. Others'
    <3>1. other' \in [fd : 1..connects', conn : Conns, want : SUBSET {"in", "out"}, ready : BOOLEAN]
      BY <1>3, <1>8 DEF Conns
    <3> QED BY <1>1, <1>3, <1>8, <3>1 DEF Others
  <2>2. ~Leaves'
    BY <1>8 DEF Leaves
  <2>3. \A i \in 1..Len(stack') : stack'[i].op \in {"watch", "onState", "startTLS", "dropOther"}
    BY OtherConnectIs
  <2>4. Aside'
    BY <1>1, <1>8, <2>2, <2>3 DEF Aside
  <2>5. Unbegun'
    BY <1>1, <1>5, <1>8, <2>3 DEF Unbegun
  <2> QED BY <2>1, <2>4, <2>5
<1>9. CASE stack' = <<>> /\ UNCHANGED <<mState, fdVars, late>>
  <2>1. other' = NoOther /\ 1..Len(stack') = {}
    BY <1>1, <1>9 DEF fdVars
  <2> QED BY <1>1, <1>5, <1>9, <2>1 DEF Others, Aside, Leaves, Unbegun
<1> QED BY <1>6, <1>7, <1>8, <1>9, OtherConnectIs

LEMMA WriteAside ==
    ASSUME TlsInv, Write
    PROVE  OtherInv'
<1> USE DEF TlsInv, SessionInv, OtherInv
<1>1. /\ UNCHANGED <<mState, mFd, other, bio, flights, asked, late, connects>> /\ ProgramRuns
      /\ tlsFailed' = "two" => tlsFailed = "two" \/ (mState = "Connected" /\ mFd # 0 /\ other # NoOther)
  BY DEF Write, fdVars, sslVars
<1>2. tlsFailed = "none"
  BY <1>1, ProgramRunsIs
<1>3. ASSUME mState = "Connected", mFd # 0, other # NoOther PROVE late
  <2>1. ~Leaves
    BY <1>3 DEF Aside
  <2> QED BY <1>3, <2>1 DEF Aside, Reads
<1>4. tlsFailed' = "two" => other' # NoOther /\ late
  BY <1>1, <1>2, <1>3
<1>5. CASE mState # "Connected"
  <2>1. stack' = stack
    <3>1. stack' = <<>> \o stack /\ stack \in Seq(Ops)
      BY <1>5 DEF Write, TlsTyped
    <3> QED BY <3>1
  <2> QED BY <1>1, <1>4, <2>1, AsideSame DEF Beside
<1>6. CASE mState = "Connected"
  <2> DEFINE x == [op |-> "write", fd |-> mFd]
             p == <<x>>
  <2>1. p \in Seq(Ops) /\ Len(p) = 1 /\ p[1] = x /\ x.op = "write" /\ stack' = p \o stack
    <3>1. mFd \in 0..MaxConnects
      <4>1. connects \in 0..MaxConnects /\ mFd \in 0..connects
        BY DEF TlsTyped
      <4> QED BY <4>1, TlsBounds
    <3>2. x \in Ops
      BY <3>1 DEF Ops
    <3>3. stack' = p \o stack
      <4>1. stack' = (IF mState = "Connected" THEN p ELSE <<>>) \o stack
        BY DEF Write
      <4> QED BY <1>6, <4>1
    <3> QED BY <3>2, <3>3
  <2> HIDE DEF x, p
  <2>2. /\ Len(stack) \in Nat /\ Len(stack') = 1 + Len(stack) /\ stack'[1] = x
        /\ \A i \in 2..(1 + Len(stack)) : stack'[i] = stack[i - 1]
    <3>1. /\ Len(stack) \in Nat /\ Len(stack') = Len(p) + Len(stack)
          /\ \A i \in 1..Len(p) : stack'[i] = p[i]
          /\ \A i \in (Len(p) + 1)..(Len(p) + Len(stack)) : stack'[i] = stack[i - Len(p)]
      BY <2>1, OnTop
    <3> QED BY <2>1, <3>1
  <2>3. ASSUME NEW i \in 1..Len(stack')
        PROVE  stack'[i].op = "write" \/ \E k \in 1..Len(stack) : stack'[i] = stack[k]
    <3>1. i = 1 \/ (i \in 2..(1 + Len(stack)) /\ i - 1 \in 1..Len(stack))
      BY <2>2
    <3> QED BY <2>1, <2>2, <3>1
  <2>4. ~Leaves
    BY <1>6 DEF Aside
  <2>5. ~Leaves'
    BY <2>3, <2>4 DEF Leaves
  <2>6. Others'
    BY <1>1, BesideKept DEF Beside
  <2>7. Aside'
    <3>1. other' # NoOther /\ bio' # 0 => late
      BY <1>1, <2>4 DEF Aside
    <3>2. ASSUME other' # NoOther, NEW i \in 1..Len(stack')
          PROVE  /\ stack'[i].op # "drop"
                 /\ stack'[i].op \in {"read", "reads", "startTLS"} => late
      BY <1>1, <2>3, <2>4, <3>2 DEF Aside
    <3> QED BY <1>1, <1>4, <2>5, <3>1, <3>2 DEF Aside
  <2>8. Unbegun'
    BY <1>1, <1>6, <2>3 DEF Unbegun
  <2> QED BY <2>6, <2>7, <2>8
<1> QED BY <1>5, <1>6

LEMMA TlsCloseAside ==
    ASSUME TlsInv, TlsClose
    PROVE  OtherInv'
<1>1. /\ UNCHANGED <<stack, mState, late, connects, tlsFailed>> /\ other' = NoOther
      /\ bio' = 0 /\ flights' = 0 /\ ~asked' /\ ProgramRuns
  BY DEF TlsClose, Closes, Calls
<1>2. tlsFailed = "none"
  BY <1>1, ProgramRunsIs DEF TlsInv, SessionInv
<1> QED BY <1>1, <1>2, AsideSame

\* The loop's callbacks.
LEMMA CallbackAside ==
    ASSUME TlsInv, Callback \/ OtherCallback
    PROVE  OtherInv'
<1> USE DEF TlsInv, SessionInv, OtherInv
<1>1. /\ stack = <<>> /\ tlsFailed' = "none" /\ UNCHANGED <<mState, mFd, bio, late, connects>>
  BY DEF Callback, OtherCallback, Idle, sslVars, quietVars, programVars
<1>2. /\ Beside
      /\ \A i \in 1..Len(stack') : stack'[i].op \in {"fdRead", "fdWrite"} /\ stack'[i].fd # 0
  <2>1. CASE Callback
    <3> DEFINE s == Reports
    <3>1. /\ s \in Seq({"fdRead", "fdWrite"}) /\ Len(s) \in 0..2 /\ \A i \in 2..Len(s) : s[i] = "fdWrite"
      BY ReportsAre DEF Flags
    <3>2. /\ s # <<>> /\ stack' = [i \in 1..Len(s) |-> [op |-> s[i], fd |-> mFd]] /\ mFd # 0 /\ other' = other
      BY <2>1 DEF Callback
    <3> HIDE DEF s
    <3>3. mFd \in 0..MaxConnects
      <4>1. connects \in 0..MaxConnects /\ mFd \in 0..connects
        BY DEF TlsTyped
      <4> QED BY <4>1, TlsBounds
    <3>4. \A i \in 1..Len(stack') : stack'[i].op \in {"fdRead", "fdWrite"} /\ stack'[i].fd = mFd
      <4>1. /\ Len(stack') = Len(s)
            /\ \A i \in 1..Len(s) : stack'[i].fd = mFd /\ stack'[i].op \in {"fdRead", "fdWrite"}
        BY <3>1, <3>2, <3>3, CallbackStack
      <4> QED BY <4>1
    <3> QED BY <3>2, <3>4 DEF Beside
  <2>2. CASE OtherCallback
    <3>1. /\ other # NoOther /\ other.fd \in 1..connects
          /\ \A i \in 1..Len(stack') : stack'[i].op \in {"fdRead", "fdWrite"} /\ stack'[i].fd = other.fd
      BY <2>2, OtherReported
    <3>2. other.fd # 0
      BY <3>1
    <3>3. other \in [fd : 1..connects, conn : Conns, want : SUBSET {"in", "out"}, ready : BOOLEAN]
      BY <3>1 DEF Others
    <3>4. other' = [other EXCEPT !.ready = FALSE]
      BY <2>2 DEF OtherCallback
    <3>5. other' \in [fd : {other.fd}, conn : Conns, want : SUBSET {"in", "out"}, ready : BOOLEAN]
      BY <3>3, <3>4
    <3> QED BY <3>1, <3>2, <3>5 DEF Beside
  <2> QED BY <2>1, <2>2
<1>3. Others' /\ (other' # NoOther => other # NoOther)
  BY <1>1, <1>2, BesideKept
<1>4. ~Leaves /\ ~Leaves'
  BY <1>1, <1>2 DEF Leaves
<1>5. Aside'
  BY <1>1, <1>2, <1>3, <1>4 DEF Aside
<1>6. Unbegun'
  BY <1>1, <1>2 DEF Unbegun
<1> QED BY <1>3, <1>5, <1>6

\* A descriptor that is taken over is one of the other attempt.
LEMMA KnownKept ==
    ASSUME TlsInv, TlsNext
    PROVE  Known'
<1> USE DEF TlsInv, SessionInv, OtherInv
<1>1. ASSUME UNCHANGED <<mFd, conn>> PROVE Known'
  BY <1>1 DEF Known
<1>2. ASSUME mFd' = 0 PROVE Known'
  BY <1>2 DEF Known
<1>3. ASSUME conn' # "none" PROVE Known'
  BY <1>3 DEF Known
<1>4. ASSUME NEW events, NEW edge, other # NoOther, Takes(events, edge) PROVE conn' # "none"
  BY <1>4 DEF Takes, Others, Conns
<1>5. CASE Settles \/ Breaks
  BY <1>3, <1>5 DEF Settles, Breaks, Changes
<1>6. CASE RoomComes \/ FlightComes \/ DataComes \/ OtherSettles
  BY <1>1, <1>6 DEF RoomComes, FlightComes, DataComes, OtherSettles, Network
<1>7. CASE TlsConnect
  BY <1>3, <1>7 DEF TlsConnect
<1>8. CASE OtherConnect
  BY <1>1, <1>3, <1>8 DEF OtherConnect, fdVars
<1>9. CASE Write \/ Callback \/ OtherCallback
  BY <1>1, <1>9 DEF Write, Callback, OtherCallback, fdVars
<1>10. CASE TlsClose \/ DropFd \/ CloseTold \/ ReadEnds \/ WriteFails
  BY <1>2, <1>10 DEF TlsClose, DropFd, CloseTold, ReadEnds, WriteFails, Ends, Closes, Removes
<1>11. CASE \/ WatchConnect \/ DropOther \/ StartTLS \/ AfterConnect \/ FdRead \/ FdWrite \/ FdWriteGone
            \/ ReadsOver \/ ReadAsserts \/ ReadData \/ RetryWrite \/ Returns
  BY <1>1, <1>11 DEF WatchConnect, DropOther, StartTLS, AfterConnect, FdRead, FdWrite, FdWriteGone, ReadsOver,
     ReadAsserts, ReadData, RetryWrite, Returns, Goes, fdVars
<1>12. CASE ConnectTLS
  BY <1>1, <1>12 DEF ConnectTLS, HandshakeDone, HandshakeWants, ReadsFlight, fdVars
<1>13. CASE ReadWants
  BY <1>1, <1>13 DEF ReadWants, HandshakeWants, ReadsFlight
<1>14. CASE WriteAll \/ WriteSome \/ WriteHandshakes \/ WritePlain \/ HandshakeInside
  BY <1>1, <1>14 DEF WriteAll, WriteSome, WriteHandshakes, WritePlain, HandshakeInside, HandshakeDone,
     HandshakeWants, ReadsFlight, fdVars
<1>15. CASE Answered
  <2>1. ASSUME Top.fd = other.fd PROVE other # NoOther
    <3>1. stack # <<>> /\ stack[1].op = "fdWrite" /\ Top = stack[1] /\ 1 \in 1..Len(stack)
      <4>1. stack # <<>> /\ stack[1].op = "fdWrite"
        BY <1>15, RunningIs DEF Answered
      <4>2. Len(stack) \in Nat /\ Len(stack) >= 1 /\ Head(stack) = stack[1]
        BY <4>1, TailIs DEF TlsTyped
      <4> QED BY <4>1, <4>2 DEF Top
    <3>2. Top.fd # 0
      BY <3>1 DEF Unbegun
    <3> QED BY <2>1, <3>2 DEF NoOther
  <2>2. \/ UNCHANGED <<mFd, conn>>
        \/ other # NoOther /\ Takes({"in"}, TRUE)
        \/ other # NoOther /\ Takes(other.want, other.ready)
    BY <1>15, <2>1 DEF Answered
  <2> QED BY <1>1, <1>3, <1>4, <2>2
<1> QED BY <1>5, <1>6, <1>7, <1>8, <1>9, <1>10, <1>11, <1>12, <1>13, <1>14, <1>15 DEF TlsNext, Step

\* Nothing or one step more comes.
LEMMA GoesAside ==
    ASSUME TlsInv, WatchConnect \/ AfterConnect \/ RetryWrite \/ ReadsOver \/ Returns \/ FdWriteGone
    PROVE  OtherInv'
<1> USE DEF TlsInv, SessionInv, OtherInv
<1>1. CASE WatchConnect
  <2>1. stack # <<>> /\ stack[1].op = "watch" /\ tlsFailed = "none"
    BY <1>1, RunningIs DEF WatchConnect
  <2>2. Placed(0)
    BY <1>1, <2>1, ThenNone DEF WatchConnect
  <2>3. Beside
    BY <1>1, WatchBeside DEF WatchConnect
  <2>4. tlsFailed' = "none" /\ UNCHANGED <<mState, mFd, bio, late, connects>>
    BY <1>1, <2>1 DEF WatchConnect, sslVars, quietVars, programVars
  <2> QED BY <2>1, <2>2, <2>3, <2>4, AsideQuiet
<1>2. ASSUME stack # <<>>, stack[1].op # "dropOther", tlsFailed = "none", Goes(<<>>) \/ Goes(<<"write">>)
      PROVE  OtherInv'
  <2>1. /\ tlsFailed' = "none" /\ UNCHANGED <<mState, mFd, bio, late, connects, other>>
        /\ Then(<<>>) \/ Then(<<"write">>)
    BY <1>2 DEF Goes, fdVars, sslVars, quietVars, programVars
  <2>2. Beside
    BY <2>1 DEF Beside
  <2>3. CASE Then(<<>>)
    BY <1>2, <2>1, <2>2, <2>3, ThenNone, AsideQuiet
  <2>4. CASE Then(<<"write">>)
    <3>1. Placed(1) /\ stack'[1].op = "write" /\ 1 \in 0..3 /\ \A i \in 1..1 : i = 1
      BY <1>2, <2>4, ThenOne DEF OpNames
    <3> QED BY <1>2, <2>1, <2>2, <3>1, AsideQuiet
  <2> QED BY <2>1, <2>3, <2>4
<1>3. CASE AfterConnect
  <2>1. stack # <<>> /\ stack[1].op = "afterConnect" /\ tlsFailed = "none"
    BY <1>3, RunningIs DEF AfterConnect
  <2>2. CASE /\ tlsFailed' = "wait"
             /\ UNCHANGED <<mState, stack, fdVars, sslVars, waitVars, unread, odd, writeVars, quietVars>>
    BY <2>2, AsideSame DEF Beside, fdVars, sslVars, quietVars, programVars
  <2>3. Goes(<<>>) \/ Goes(<<"write">>) \/ (/\ tlsFailed' = "wait"
             /\ UNCHANGED <<mState, stack, fdVars, sslVars, waitVars, unread, odd, writeVars, quietVars>>)
    BY <1>3 DEF AfterConnect
  <2> QED BY <1>2, <2>1, <2>2, <2>3
<1>4. CASE RetryWrite
  <2>1. stack # <<>> /\ stack[1].op \in {"retryWrite", "mayWrite"} /\ tlsFailed = "none"
    BY <1>4, RunningIs DEF RetryWrite
  <2> QED BY <1>2, <1>4, <2>1 DEF RetryWrite
<1>5. CASE ReadsOver
  <2>1. stack # <<>> /\ stack[1].op \in {"read", "reads"} /\ tlsFailed = "none"
    BY <1>5, RunningIs, ReadingIs DEF ReadsOver
  <2> QED BY <1>2, <1>5, <2>1 DEF ReadsOver
<1>6. CASE Returns
  <2>1. stack # <<>> /\ stack[1].op \in {"onState", "onData"} /\ tlsFailed = "none"
    BY <1>6, RunningIs DEF Returns
  <2> QED BY <1>2, <1>6, <2>1 DEF Returns
<1>7. CASE FdWriteGone
  <2>1. stack # <<>> /\ stack[1].op = "fdWrite" /\ tlsFailed = "none"
    BY <1>7, RunningIs DEF FdWriteGone
  <2> QED BY <1>2, <1>7, <2>1 DEF FdWriteGone
<1> QED BY <1>1, <1>3, <1>4, <1>5, <1>6, <1>7

\* An attempt is removed.
LEMMA DropsAside ==
    ASSUME TlsInv, DropFd \/ DropOther \/ CloseTold \/ ReadEnds \/ WriteFails
    PROVE  OtherInv'
<1> USE DEF TlsInv, SessionInv, OtherInv
<1>1. ASSUME tlsFailed' = "none", UNCHANGED <<late, connects>>, other' = NoOther, stack # <<>>,
             Then(<<>>) \/ Then(<<"onState">>), bio' \in {0, bio}, mState' \in {mState, "Closed", "Error"}
      PROVE  OtherInv'
  <2>1. Leaves => mState' # "Connected"
    BY <1>1 DEF Aside
  <2>2. mState' = "Connecting" => mState = "Connecting" /\ bio' = 0
    BY <1>1 DEF Unbegun
  <2>3. CASE Then(<<>>)
    <3>1. Placed(0) /\ 0 \in 0..3 /\ 1..0 = {}
      BY <1>1, <2>3, ThenNone
    <3> QED BY <1>1, <2>1, <2>2, <3>1, AsideKept
  <2>4. CASE Then(<<"onState">>)
    <3>1. Placed(1) /\ stack'[1].op = "onState" /\ 1 \in 0..3 /\ \A i \in 1..1 : i = 1
      BY <1>1, <2>4, ThenOne DEF OpNames
    <3> QED BY <1>1, <2>1, <2>2, <3>1, AsideKept
  <2> QED BY <1>1, <2>3, <2>4
<1>2. CASE DropFd
  <2>1. stack # <<>> /\ stack[1].op = "drop" /\ tlsFailed = "none" /\ 1 \in 1..Len(stack)
    <3>1. stack # <<>> /\ stack[1].op = "drop" /\ tlsFailed = "none"
      BY <1>2, RunningIs DEF DropFd
    <3>2. Len(stack) \in Nat /\ Len(stack) >= 1
      BY <3>1, TailIs DEF TlsTyped
    <3> QED BY <3>1, <3>2
  <2>2. other = NoOther
    BY <2>1 DEF Aside
  <2>3. /\ tlsFailed' = "none" /\ UNCHANGED <<late, connects, other, bio, mState>> /\ Then(<<>>)
    BY <1>2, <2>1 DEF DropFd, sslVars, quietVars, programVars
  <2> QED BY <1>1, <2>1, <2>2, <2>3
<1>3. CASE DropOther
  <2>1. stack # <<>> /\ tlsFailed = "none"
    BY <1>3, RunningIs DEF DropOther
  <2>2. /\ tlsFailed' = "none" /\ UNCHANGED <<late, connects, bio, mState>> /\ Then(<<>>) /\ other' = NoOther
    BY <1>3, <2>1 DEF DropOther, sslVars, quietVars, programVars
  <2> QED BY <1>1, <2>1, <2>2
<1>4. CASE CloseTold
  <2>1. stack # <<>> /\ tlsFailed = "none"
    BY <1>4, RunningIs DEF CloseTold
  <2>2. /\ tlsFailed' = "none" /\ UNCHANGED <<late, connects, mState>> /\ Then(<<>>) /\ other' = NoOther /\ bio' = 0
    BY <1>4, <2>1 DEF CloseTold, Closes, quietVars, programVars
  <2> QED BY <1>1, <2>1, <2>2
<1>5. CASE ReadEnds
  <2>1. stack # <<>> /\ tlsFailed = "none"
    BY <1>5, ReadingIs DEF ReadEnds, ReadingOne
  <2>2. /\ tlsFailed' = "none" /\ UNCHANGED <<late, connects>> /\ Then(<<"onState">>) /\ other' = NoOther /\ bio' = 0
        /\ mState' \in {"Closed", "Error"}
    BY <1>5, <2>1 DEF ReadEnds, Ends, EndStates, Closes, quietVars, programVars
  <2> QED BY <1>1, <2>1, <2>2
<1>6. CASE WriteFails
  <2>1. stack # <<>> /\ tlsFailed = "none"
    BY <1>6, RunningIs DEF WriteFails
  <2>2. /\ tlsFailed' = "none" /\ UNCHANGED <<late, connects>> /\ Then(<<"onState">>) /\ other' = NoOther /\ bio' = 0
        /\ mState' = "Error"
    BY <1>6, <2>1 DEF WriteFails, Ends, Closes, quietVars, programVars
  <2> QED BY <1>1, <2>1, <2>2
<1> QED BY <1>2, <1>3, <1>4, <1>5, <1>6

\* The session gets a descriptor: the other attempt is the later one, or leaves.
LEMMA StartTLSAside ==
    ASSUME TlsInv, StartTLS
    PROVE  OtherInv'
<1> USE DEF TlsInv, SessionInv, OtherInv
<1>1. /\ stack # <<>> /\ stack[1].op = "startTLS" /\ tlsFailed = "none" /\ 1 \in 1..Len(stack)
  <2>1. stack # <<>> /\ stack[1].op = "startTLS" /\ tlsFailed = "none"
    BY RunningIs DEF StartTLS
  <2>2. Len(stack) \in Nat /\ Len(stack) >= 1
    BY <2>1, TailIs DEF TlsTyped
  <2> QED BY <2>1, <2>2
<1>2. UNCHANGED <<mState, mFd, other, asked, flights, late, connects>>
  BY DEF StartTLS, fdVars, quietVars, programVars
<1>3. Beside /\ mState # "Connecting"
  BY <1>1, <1>2 DEF Beside, Unbegun
<1>4. CASE /\ session /\ bio = 0 /\ Then(<<"connectTLS">>) /\ UNCHANGED tlsFailed
  <2>1. Placed(1) /\ stack'[1].op = "connectTLS" /\ 1 \in 0..3 /\ \A i \in 1..1 : i = 1
    BY <1>1, <1>4, ThenOne DEF OpNames
  <2>2. flights' = 0 /\ ~asked'
    BY <1>2, <1>4 DEF Descriptor
  <2>3. other # NoOther => late \/ Leaves
    BY <1>1 DEF Aside
  <2>4. Leaves => mState' # "Connected"
    BY <1>2 DEF Aside
  <2>5. \/ other' = NoOther
        \/ /\ Beside /\ mFd' = mFd /\ stack[1].op # "dropOther"
           /\ bio' = bio \/ late \/ Leaves
           /\ \A i \in 1..1 : stack'[i].op \notin {"drop", "startTLS"}
           /\ late \/ \A i \in 1..1 : stack'[i].op \notin {"read", "reads"}
    BY <1>1, <1>2, <1>3, <2>1, <2>3
  <2>6. /\ \A i \in 1..1 : stack'[i].op \notin {"dropOther", "fdRead", "fdWrite"}
        /\ Leaves => /\ mState' # "Connected"
                     /\ \A i \in 1..1 : stack'[i].op = "connectTLS" => flights' = 0 /\ ~asked'
    BY <2>1, <2>2, <2>4
  <2>7. tlsFailed' = "none" /\ mState' = mState /\ mState' # "Connecting" /\ UNCHANGED <<late, connects>>
    BY <1>1, <1>2, <1>3, <1>4
  <2> QED BY <2>1, <2>5, <2>6, <2>7, AsideKept
<1>5. CASE tlsFailed' = "session" /\ UNCHANGED <<bio, stack>>
  BY <1>2, <1>3, <1>5, AsideSame
<1> QED BY <1>4, <1>5 DEF StartTLS

\* The handshake ends only when the other attempt has left, or is the later one.
LEMMA ConnectTLSAside ==
    ASSUME TlsInv, ConnectTLS
    PROVE  OtherInv'
<1> USE DEF TlsInv, SessionInv, OtherInv
<1>1. /\ stack # <<>> /\ stack[1].op = "connectTLS" /\ tlsFailed = "none"
      /\ tlsFailed' = "none" /\ UNCHANGED <<late, connects>>
  BY RunningIs DEF ConnectTLS, quietVars, programVars
<1>2. CASE /\ HandshakeDone /\ mState' = "Connected" /\ Then(<<"onState", "write">>) /\ UNCHANGED other
  <2>1. Placed(2) /\ stack'[1].op = "onState" /\ stack'[2].op = "write" /\ 2 \in 0..3 /\ \A i \in 1..2 : i = 1 \/ i = 2
    <3>1. Placed(2) /\ stack'[1].op = "onState" /\ stack'[2].op = "write"
      BY <1>1, <1>2, ThenTwo DEF OpNames
    <3> QED BY <3>1
  <2>2. ReadsFlight /\ Got = Flights
    BY <1>2 DEF HandshakeDone
  <2>3. hs' = Got /\ hs' \in Nat /\ hs' <= flights /\ flights \in Nat /\ UNCHANGED <<mFd, bio>>
    BY <2>2, FlightRead
  <2>4. ~Leaves
    <3>1. Flights # 0 /\ Flights \in Nat
      BY TlsBounds
    <3>2. flights # 0
      BY <2>2, <2>3, <3>1
    <3> QED BY <1>1, <3>2 DEF Aside
  <2>5. Beside
    BY <1>2 DEF Beside
  <2>6. /\ \A i \in 1..2 : stack'[i].op \notin {"dropOther", "fdRead", "fdWrite"}
        /\ \A i \in 1..2 : stack'[i].op \notin {"drop", "startTLS"}
        /\ \A i \in 1..2 : stack'[i].op \notin {"read", "reads"}
    BY <2>1
  <2>7. mState' # "Idle" /\ mState' # "Connecting"
    BY <1>2
  <2> QED BY <1>1, <2>1, <2>3, <2>4, <2>5, <2>6, <2>7, AsideKept
<1>3. ASSUME NEW event \in {"write", "read"}, HandshakeWants(event),
             IF event = "write" THEN Watch(Top.fd, {"in", "out"}) ELSE UNCHANGED <<want, ready, other>>,
             Then(<<>>), UNCHANGED mState
      PROVE  OtherInv'
  <2>1. Placed(0) /\ 0 \in 0..3 /\ 1..0 = {}
    BY <1>1, <1>3, ThenNone
  <2>2. UNCHANGED <<mFd, bio>>
    BY <1>3 DEF HandshakeWants, ReadsFlight
  <2>3. Beside
    <3>1. CASE event = "write"
      BY <1>3, <3>1, WatchBeside
    <3>2. CASE event = "read"
      BY <1>3, <3>2 DEF Beside
    <3> QED BY <3>1, <3>2
  <2> QED BY <1>1, <1>3, <2>1, <2>2, <2>3, AsideQuiet
<1>4. CASE mState' \in EndStates /\ Then(<<"onState", "close">>) /\ UNCHANGED <<fdVars, sslVars>>
  <2>1. Placed(2) /\ stack'[1].op = "onState" /\ stack'[2].op = "close" /\ 2 \in 0..3 /\ \A i \in 1..2 : i = 1 \/ i = 2
    <3>1. Placed(2) /\ stack'[1].op = "onState" /\ stack'[2].op = "close"
      BY <1>1, <1>4, ThenTwo DEF OpNames
    <3> QED BY <3>1
  <2>2. mState' \in {"Closed", "Error"}
    BY <1>4 DEF EndStates
  <2>3. Beside /\ UNCHANGED <<mFd, bio>>
    BY <1>4 DEF Beside, fdVars, sslVars
  <2>4. /\ \A i \in 1..2 : stack'[i].op \notin {"dropOther", "fdRead", "fdWrite", "connectTLS"}
        /\ \A i \in 1..2 : stack'[i].op \notin {"drop", "startTLS"}
        /\ \A i \in 1..2 : stack'[i].op \notin {"read", "reads"}
    BY <2>1
  <2>5. mState' # "Idle" /\ mState' # "Connecting" /\ mState' # "Connected"
    BY <2>2
  <2> QED BY <1>1, <2>1, <2>3, <2>4, <2>5, AsideKept
<1> QED BY <1>2, <1>3, <1>4 DEF ConnectTLS

\* Connected, the session's descriptor has the later attempt beside it or none.
LEMMA LaterOne ==
    ASSUME TlsInv, mState = "Connected", ~Leaves, other # NoOther
    PROVE  late
<1>1. mFd # 0
  BY DEF TlsInv, OtherInv, Others
<1>2. bio # 0
  BY <1>1 DEF TlsInv, SessionInv, Reads
<1> QED BY <1>2 DEF TlsInv, OtherInv, Aside

\* socketCallback.
LEMMA FdReadAside ==
    ASSUME TlsInv, FdRead \/ FdWrite
    PROVE  OtherInv'
<1> USE DEF TlsInv, SessionInv, OtherInv
<1>1. stack # <<>> /\ stack[1].op \in {"fdRead", "fdWrite"} /\ tlsFailed = "none"
  BY RunningIs DEF FdRead, FdWrite
<1>2. ~Leaves
  <2>1. 1 \in 1..Len(stack)
    <3>1. Len(stack) \in Nat /\ Len(stack) >= 1
      BY <1>1, TailIs DEF TlsTyped
    <3> QED BY <3>1
  <2> QED BY <1>1, <2>1 DEF Aside
<1>3. /\ tlsFailed' = "none" /\ UNCHANGED <<mState, mFd, bio, late, connects>>
  BY <1>1 DEF FdRead, FdWrite, fdVars, sslVars, quietVars, programVars
<1>4. Beside
  <2>1. CASE FdRead
    BY <2>1 DEF FdRead, fdVars, Beside
  <2>2. CASE FdWrite
    <3>1. Watch(Top.fd, {"in"}) /\ {"in"} \in SUBSET {"in", "out"}
      BY <2>2 DEF FdWrite
    <3> QED BY <3>1, WatchBeside
  <2> QED BY <2>1, <2>2
<1>5. mState = "Connected" => late \/ other' = NoOther
  BY <1>2, <1>3, <1>4, LaterOne, BesideKept
<1>6. mState = "Connecting" => bio' = 0
  BY <1>3 DEF Unbegun
<1>7. ASSUME NEW n \in 0..3, Placed(n), mState # "Connected" \/ late \/ other' = NoOther,
             \A i \in 1..n : stack'[i].op \in {"connectTLS", "afterConnect", "read", "reads", "retryWrite", "mayWrite"},
             mState = "Connected" \/ \A i \in 1..n : stack'[i].op \notin {"read", "reads"}
      PROVE  OtherInv'
  <2>1. /\ \A i \in 1..n : stack'[i].op \notin {"dropOther", "fdRead", "fdWrite"}
        /\ \A i \in 1..n : stack'[i].op \notin {"drop", "startTLS"}
        /\ \A i \in 1..n : stack'[i].op # "startTLS"
    BY <1>7
  <2>2. \/ other' = NoOther
        \/ /\ Beside /\ mFd' = mFd /\ stack[1].op # "dropOther" /\ bio' = bio
           /\ late \/ \A i \in 1..n : stack'[i].op \notin {"read", "reads"}
    BY <1>1, <1>3, <1>4, <1>7
  <2> QED BY <1>2, <1>3, <1>6, <1>7, <2>1, <2>2, AsideKept
<1>8. \/ mState = "Connected" /\ Then(<<"read">> \o <<"retryWrite", "reads">>)
      \/ mState = "Connected" /\ Then(<<>> \o <<"retryWrite", "reads">>)
      \/ mState = "Connected" /\ Then(<<"read">> \o <<"mayWrite">>)
      \/ mState = "Connected" /\ Then(<<>> \o <<"mayWrite">>)
      \/ mState # "Connected" /\ Then(<<"connectTLS">> \o <<"afterConnect">>)
      \/ mState # "Connected" /\ Then(<<>> \o <<"afterConnect">>)
      \/ mState # "Connected" /\ Then(<<>>)
  BY DEF FdRead, FdWrite, RetryRead
<1>9. /\ \A a, b, c : <<a>> \o <<b, c>> = <<a, b, c>>
      /\ \A a, b : <<a>> \o <<b>> = <<a, b>>
  BY PairIs, TripleIs
<1>10. /\ <<>> \o <<"retryWrite", "reads">> = <<"retryWrite", "reads">>
       /\ <<>> \o <<"mayWrite">> = <<"mayWrite">> /\ <<>> \o <<"afterConnect">> = <<"afterConnect">>
  OBVIOUS
<1>11. /\ 0 \in 0..3 /\ 1..0 = {} /\ 1 \in 0..3 /\ 2 \in 0..3 /\ 3 \in 0..3
       /\ \A i \in 1..1 : i = 1
       /\ \A i \in 1..2 : i = 1 \/ i = 2
       /\ \A i \in 1..3 : i = 1 \/ i = 2 \/ i = 3
  OBVIOUS
<1>12. CASE mState = "Connected" /\ Then(<<"read">> \o <<"retryWrite", "reads">>)
  <2>1. Then(<<"read", "retryWrite", "reads">>)
    BY <1>9, <1>12
  <2>2. Placed(3) /\ stack'[1].op = "read" /\ stack'[2].op = "retryWrite" /\ stack'[3].op = "reads"
    BY <1>1, <2>1, ThenThree DEF OpNames
  <2> QED BY <1>5, <1>7, <1>11, <1>12, <2>2
<1>13. CASE mState = "Connected" /\ Then(<<>> \o <<"retryWrite", "reads">>)
  <2>1. Then(<<"retryWrite", "reads">>)
    BY <1>10, <1>13
  <2>2. Placed(2) /\ stack'[1].op = "retryWrite" /\ stack'[2].op = "reads"
    BY <1>1, <2>1, ThenTwo DEF OpNames
  <2> QED BY <1>5, <1>7, <1>11, <1>13, <2>2
<1>14. CASE mState = "Connected" /\ Then(<<"read">> \o <<"mayWrite">>)
  <2>1. Then(<<"read", "mayWrite">>)
    BY <1>9, <1>14
  <2>2. Placed(2) /\ stack'[1].op = "read" /\ stack'[2].op = "mayWrite"
    BY <1>1, <2>1, ThenTwo DEF OpNames
  <2> QED BY <1>5, <1>7, <1>11, <1>14, <2>2
<1>15. CASE mState = "Connected" /\ Then(<<>> \o <<"mayWrite">>)
  <2>1. Then(<<"mayWrite">>)
    BY <1>10, <1>15
  <2>2. Placed(1) /\ stack'[1].op = "mayWrite"
    BY <1>1, <2>1, ThenOne DEF OpNames
  <2> QED BY <1>5, <1>7, <1>11, <1>15, <2>2
<1>16. CASE mState # "Connected" /\ Then(<<"connectTLS">> \o <<"afterConnect">>)
  <2>1. Then(<<"connectTLS", "afterConnect">>)
    BY <1>9, <1>16
  <2>2. Placed(2) /\ stack'[1].op = "connectTLS" /\ stack'[2].op = "afterConnect"
    BY <1>1, <2>1, ThenTwo DEF OpNames
  <2>3. \A i \in 1..2 : stack'[i].op \notin {"read", "reads"}
    BY <1>11, <2>2
  <2>4. \A i \in 1..2 : stack'[i].op \in {"connectTLS", "afterConnect", "read", "reads", "retryWrite", "mayWrite"}
    BY <1>11, <2>2
  <2> QED BY <1>7, <1>11, <1>16, <2>2, <2>3, <2>4
<1>17. CASE mState # "Connected" /\ Then(<<>> \o <<"afterConnect">>)
  <2>1. Then(<<"afterConnect">>)
    BY <1>10, <1>17
  <2>2. Placed(1) /\ stack'[1].op = "afterConnect"
    BY <1>1, <2>1, ThenOne DEF OpNames
  <2> QED BY <1>7, <1>11, <1>17, <2>2
<1>18. CASE mState # "Connected" /\ Then(<<>>)
  <2>1. Placed(0)
    BY <1>1, <1>18, ThenNone
  <2> QED BY <1>7, <1>11, <1>18, <2>1
<1> QED BY <1>8, <1>12, <1>13, <1>14, <1>15, <1>16, <1>17, <1>18

\* The answer to a connection in progress.
LEMMA AnsweredAside ==
    ASSUME TlsInv, Answered
    PROVE  OtherInv'
<1> USE DEF TlsInv, SessionInv, OtherInv
<1>1. /\ stack # <<>> /\ stack[1].op = "fdWrite" /\ tlsFailed = "none" /\ mState = "Connecting"
      /\ tlsFailed' = "none" /\ UNCHANGED <<bio, late, connects>>
  BY RunningIs DEF Answered, sslVars, quietVars, programVars
<1>2. ~Leaves /\ bio = 0
  <2>1. 1 \in 1..Len(stack)
    <3>1. Len(stack) \in Nat /\ Len(stack) >= 1
      BY <1>1, TailIs DEF TlsTyped
    <3> QED BY <3>1
  <2> QED BY <1>1, <2>1 DEF Aside, Unbegun
<1>3. other' = NoOther
  BY WatchNone DEF Answered, Takes
<1>4. \/ mState' = "Handshaking" /\ Then(<<"onState", "startTLS">>)
      \/ mState' = "Error" /\ Then(<<"onState", "drop">>)
      \/ mState' = mState /\ Then(<<>>)
  BY DEF Answered
<1>5. ASSUME NEW step \in {"startTLS", "drop"}, mState' \in {"Handshaking", "Error"}, Then(<<"onState", step>>)
      PROVE  OtherInv'
  <2>1. Placed(2) /\ stack'[1].op = "onState" /\ stack'[2].op = step /\ 2 \in 0..3 /\ \A i \in 1..2 : i = 1 \/ i = 2
    <3>1. Placed(2) /\ stack'[1].op = "onState" /\ stack'[2].op = step
      BY <1>1, <1>5, ThenTwo DEF OpNames
    <3> QED BY <3>1
  <2>2. \A i \in 1..2 : stack'[i].op \notin {"dropOther", "fdRead", "fdWrite"}
    BY <2>1
  <2>3. mState' # "Idle" /\ mState' # "Connecting"
    BY <1>5
  <2> QED BY <1>1, <1>2, <1>3, <2>1, <2>2, <2>3, AsideKept
<1>6. ASSUME mState' = mState, Then(<<>>) PROVE OtherInv'
  <2>1. Placed(0) /\ 0 \in 0..3 /\ 1..0 = {}
    BY <1>1, <1>6, ThenNone
  <2>2. mState' # "Idle" /\ bio' = 0
    BY <1>1, <1>2, <1>6
  <2> QED BY <1>1, <1>2, <1>3, <1>6, <2>1, <2>2, AsideKept
<1> QED BY <1>4, <1>5, <1>6

\* read(), which asserts that the session's attempt is the only one.
LEMMA ReadAside ==
    ASSUME TlsInv, ReadAsserts \/ ReadData \/ ReadWants
    PROVE  OtherInv'
<1> USE DEF TlsInv, SessionInv, OtherInv
<1>1. Reading
  BY DEF ReadAsserts, ReadData, ReadWants, ReadingOne
<1>2. stack # <<>> /\ stack[1].op \in {"read", "reads"} /\ tlsFailed = "none" /\ 1 \in 1..Len(stack)
  <2>1. stack # <<>> /\ stack[1].op \in {"read", "reads"} /\ tlsFailed = "none"
    BY <1>1, ReadingIs
  <2>2. Len(stack) \in Nat /\ Len(stack) >= 1
    BY <2>1, TailIs DEF TlsTyped
  <2> QED BY <2>1, <2>2
<1>3. CASE ReadAsserts
  <2>1. other # NoOther /\ UNCHANGED <<mState, stack, mFd, other, bio, flights, asked, late, connects>>
    BY <1>3 DEF ReadAsserts, fdVars, sslVars, quietVars, programVars
  <2>2. late
    BY <1>2, <2>1 DEF Aside
  <2> QED BY <2>1, <2>2, AsideSame DEF Beside
<1>4. ASSUME ReadData \/ ReadWants
      PROVE  other' = NoOther /\ tlsFailed' = "none" /\ UNCHANGED <<mState, mFd, bio, late, connects>> /\ Beside
  <2>1. other = NoOther
    BY <1>4 DEF ReadData, ReadWants, ReadingOne
  <2>2. other' = NoOther
    BY <1>4, <2>1, WatchNone DEF ReadData, ReadWants
  <2>3. tlsFailed' = "none" /\ UNCHANGED <<mState, late, connects>>
    BY <1>2, <1>4 DEF ReadData, ReadWants, quietVars, programVars
  <2>4. UNCHANGED <<mFd, bio>>
    BY <1>4 DEF ReadData, ReadWants, HandshakeWants, ReadsFlight, sslVars
  <2> QED BY <2>1, <2>2, <2>3, <2>4 DEF Beside
<1>5. CASE ReadData
  <2>1. Then(<<"onData", "reads">>) \/ Then(<<"onData">>)
    BY <1>5 DEF ReadData
  <2>2. CASE Then(<<"onData", "reads">>)
    <3>1. Placed(2) /\ stack'[1].op = "onData" /\ stack'[2].op = "reads" /\ 2 \in 0..3 /\ \A i \in 1..2 : i = 1 \/ i = 2
      <4>1. Placed(2) /\ stack'[1].op = "onData" /\ stack'[2].op = "reads"
        BY <1>2, <2>2, ThenTwo DEF OpNames
      <4> QED BY <4>1
    <3> QED BY <1>2, <1>4, <1>5, <3>1, AsideQuiet
  <2>3. CASE Then(<<"onData">>)
    <3>1. Placed(1) /\ stack'[1].op = "onData" /\ 1 \in 0..3 /\ \A i \in 1..1 : i = 1
      BY <1>2, <2>3, ThenOne DEF OpNames
    <3> QED BY <1>2, <1>4, <1>5, <3>1, AsideQuiet
  <2> QED BY <2>1, <2>2, <2>3
<1>6. CASE ReadWants
  <2>1. Placed(0) /\ 0 \in 0..3 /\ 1..0 = {}
    BY <1>2, <1>6, ThenNone DEF ReadWants
  <2> QED BY <1>2, <1>4, <1>6, <2>1, AsideQuiet
<1> QED BY <1>3, <1>5, <1>6

\* processWrite().
LEMMA WritesAside ==
    ASSUME TlsInv, WriteAll \/ WriteSome \/ WriteHandshakes \/ WritePlain
    PROVE  OtherInv'
<1> USE DEF TlsInv, SessionInv, OtherInv
<1>1. stack # <<>> /\ stack[1].op = "write" /\ tlsFailed = "none"
  BY RunningIs DEF WriteAll, WriteSome, WriteHandshakes, WritePlain
<1>2. Then(<<>>)
  BY DEF WriteAll, WriteSome, WriteHandshakes, WritePlain
<1>3. Placed(0) /\ 0 \in 0..3 /\ 1..0 = {}
  BY <1>1, <1>2, ThenNone
<1>4. tlsFailed' = "none" /\ UNCHANGED <<mState, late, connects>>
  BY <1>1 DEF WriteAll, WriteSome, WriteHandshakes, WritePlain, quietVars, programVars
<1>5. UNCHANGED <<mFd, bio>>
  BY DEF WriteAll, WriteSome, WriteHandshakes, WritePlain, HandshakeWants, ReadsFlight, fdVars, sslVars
<1>6. Beside
  <2>1. other' = other \/ Watch(Top.fd, {"in", "out"})
    BY DEF WriteAll, WriteSome, WriteHandshakes, WritePlain, fdVars
  <2> QED BY <2>1, WatchBeside DEF Beside
<1> QED BY <1>1, <1>3, <1>4, <1>5, <1>6, AsideQuiet

LEMMA HandshakeInsideAside ==
    ASSUME TlsInv, HandshakeInside
    PROVE  OtherInv'
<1>1. UNCHANGED <<mState, stack, tlsFailed, other, late, connects, mFd, bio, flights, asked>>
  BY DEF HandshakeInside, HandshakeDone, ReadsFlight, quietVars, programVars
<1>2. tlsFailed = "none"
  BY DEF HandshakeInside, Running, ReadingOne, Reading
<1> QED BY <1>1, <1>2, AsideSame DEF Beside

-----------------------------------------------------------------------------
(* The specification *)

\* A socket that has not been connected.
LEMMA TlsInvInit == TlsInit => TlsInv
<1> SUFFICES ASSUME TlsInit PROVE TlsInv
  OBVIOUS
<1> USE DEF TlsInit
<1>1. MaxConnects \in Nat /\ MaxWrites \in Nat /\ Flights \in Nat
  BY TlsBounds
<1>2. stack = <<>> /\ inbox = <<>> /\ Len(stack) = 0 /\ Len(inbox) = 0
  OBVIOUS
<1>3. stack \in Seq(Ops) /\ inbox \in Seq({"flight", "data"})
  OBVIOUS
<1>4. /\ mPendingWrites = <<>> /\ out = <<>> /\ plain = <<>> /\ writes = 0
      /\ mPendingWrites \in Seq(1..writes) /\ out \in Seq(1..writes) /\ plain \in Seq(1..writes)
  OBVIOUS
<1>5. TlsTyped
  BY <1>1, <1>3 DEF TlsTyped, Waits
<1>6. Flags
  BY DEF Flags
<1>7. WriteLists
  <2>1. writes \in 0..MaxWrites /\ wpend \in 0..writes
    BY <1>1
  <2> QED BY <1>4, <2>1 DEF WriteLists
<1>8. Descriptor /\ Handshake
  BY <1>1 DEF Descriptor, Handshake, Live
<1>9. Steps
  <2>1. 1..Len(stack) = {} /\ 2..Len(stack) = {}
    BY <1>2
  <2> QED BY <1>2, <2>1 DEF Steps
<1>10. Stages /\ WaitStates
  BY DEF Stages, WaitStates, ReadWaits
<1>11. Sending
  <2>1. out \o mPendingWrites = <<>>
    BY <1>4
  <2>2. <<>> = [i \in 1..writes |-> i]
    <3> DEFINE e == [i \in 1..0 |-> i]
    <3>1. e \in Seq(Nat) /\ Len(e) = 0
      OBVIOUS
    <3>2. e = <<>>
      BY <3>1, EmptySeq
    <3> QED BY <3>2
  <2> QED BY <1>4, <2>1, <2>2 DEF Sending
<1>12. GivenUp /\ Reads /\ Readers
  <2>1. 1..Len(stack) = {}
    BY <1>2
  <2> QED BY <1>2, <1>4, <2>1 DEF GivenUp, Reads, Readers
<1>13. SessionInv
  BY <1>5, <1>6, <1>7, <1>8, <1>9, <1>10, <1>11, <1>12 DEF SessionInv
<1>14. OtherInv /\ Known
  <2>1. 1..Len(stack) = {} /\ other = NoOther
    BY <1>2
  <2> QED BY <2>1 DEF OtherInv, Others, Aside, Leaves, Unbegun, Known
<1> QED BY <1>13, <1>14 DEF TlsInv

\* The kernel and the server.
LEMMA NetworkSteps ==
    ASSUME TlsInv, Settles \/ OtherSettles \/ Breaks \/ RoomComes \/ FlightComes \/ DataComes
    PROVE  SessionInv' /\ OtherInv'
<1>1. ASSUME Settles PROVE SessionInv'
  <2>1. Network /\ (Changes("connecting", "up") \/ Changes("connecting", "refused"))
    BY <1>1 DEF Settles
  <2> QED BY <2>1, ChangesStep
<1>2. ASSUME Breaks PROVE SessionInv'
  <2>1. Network /\ (Changes("up", "shut") \/ Changes("up", "reset") \/ Changes("shut", "reset"))
    BY <1>2 DEF Breaks
  <2> QED BY <2>1, ChangesStep
<1>3. SessionInv'
  BY <1>1, <1>2, OtherSettlesStep, RoomComesStep, FlightComesStep, DataComesStep
<1>4. OtherInv'
  BY NetworkAside, OtherSettlesAside
<1> QED BY <1>3, <1>4

\* What the loop's thread does.
LEMMA SocketSteps ==
    ASSUME TlsInv, Step
    PROVE  SessionInv' /\ OtherInv'
<1>1. CASE WatchConnect \/ AfterConnect \/ RetryWrite \/ ReadsOver \/ Returns \/ FdWriteGone
  <2>1. SessionInv'
    BY <1>1, WatchConnectStep, AfterConnectStep, RetryWriteStep, ReadsOverStep, ReturnsStep, FdWriteGoneStep
  <2> QED BY <1>1, <2>1, GoesAside
<1>2. CASE DropFd \/ DropOther \/ CloseTold \/ ReadEnds \/ WriteFails
  <2>1. SessionInv'
    BY <1>2, DropFdStep, DropOtherStep, CloseToldStep, ReadEndsStep, WriteFailsStep
  <2> QED BY <1>2, <2>1, DropsAside
<1>3. CASE StartTLS \/ ConnectTLS
  BY <1>3, StartTLSStep, ConnectTLSStep, StartTLSAside, ConnectTLSAside
<1>4. CASE FdRead \/ FdWrite \/ Answered
  BY <1>4, FdReadStep, FdWriteStep, AnsweredStep, FdReadAside, AnsweredAside
<1>5. CASE ReadAsserts \/ ReadData \/ ReadWants
  BY <1>5, ReadAssertsStep, ReadDataStep, ReadWantsStep, ReadAside
<1>6. CASE WriteAll \/ WriteSome \/ WriteHandshakes \/ WritePlain
  <2>1. SessionInv'
    BY <1>6, WriteAllStep, WriteSomeStep, WriteHandshakesStep, WritePlainStep
  <2> QED BY <1>6, <2>1, WritesAside
<1>7. CASE HandshakeInside
  BY <1>7, HandshakeInsideStep, HandshakeInsideAside
<1> QED BY <1>1, <1>2, <1>3, <1>4, <1>5, <1>6, <1>7 DEF Step

\* Any of them, and what the program calls.
LEMMA TlsSteps ==
    ASSUME TlsInv, TlsNext
    PROVE  SessionInv' /\ OtherInv'
<1>1. CASE Settles \/ OtherSettles \/ Breaks \/ RoomComes \/ FlightComes \/ DataComes
  BY <1>1, NetworkSteps
<1>2. CASE TlsConnect \/ OtherConnect \/ Write \/ TlsClose
  <2>1. SessionInv'
    BY <1>2, TlsConnectStep, OtherConnectStep, WriteStep, TlsCloseStep
  <2> QED BY <1>2, <2>1, TlsConnectAside, OtherConnectAside, WriteAside, TlsCloseAside
<1>3. CASE Callback \/ OtherCallback
  BY <1>3, CallbackStep, OtherCallbackStep, CallbackAside
<1>4. CASE Step
  BY <1>4, SocketSteps
<1> QED BY <1>1, <1>2, <1>3, <1>4 DEF TlsNext

\* A step that changes nothing.
LEMMA TlsStutters ==
    ASSUME TlsInv, UNCHANGED tlsVars
    PROVE  TlsInv'
<1>1. Settled /\ UNCHANGED <<tlsFailed, other>>
  BY DEF Settled, tlsVars, fdVars, sslVars, waitVars, writeVars, quietVars, programVars
<1>2. SessionInv'
  BY <1>1, SettledKeeps
<1>3. OtherInv' /\ Known'
  BY <1>1 DEF Settled, TlsInv, OtherInv, Others, Aside, Leaves, Unbegun, Known
<1> QED BY <1>2, <1>3 DEF TlsInv

\* Whatever the program calls between two callbacks and in its handlers, and in
\* whatever order the kernel, the server and OpenSSL answer, a TLS socket's
\* callbacks keep this invariant.
THEOREM TlsInvariance == TlsSpec => []TlsInv
<1>1. TlsInit => TlsInv
  BY TlsInvInit
<1>2. TlsInv /\ [TlsNext]_tlsVars => TlsInv'
  <2> SUFFICES ASSUME TlsInv, [TlsNext]_tlsVars PROVE TlsInv'
    OBVIOUS
  <2>1. ASSUME TlsNext PROVE TlsInv'
    BY <2>1, TlsSteps, KnownKept DEF TlsInv
  <2>2. CASE UNCHANGED tlsVars
    BY <2>2, TlsStutters
  <2> QED BY <2>1, <2>2
<1> QED BY <1>1, <1>2, PTL DEF TlsSpec

\* The types and assertions that the run checks.
LEMMA SafeFollows == TlsInv => TlsSafe
<1> SUFFICES ASSUME TlsInv PROVE TlsSafe
  OBVIOUS
<1> USE DEF TlsInv, SessionInv, OtherInv
<1>1. /\ connects \in 0..MaxConnects /\ mFd \in 0..connects /\ bio \in 0..connects
      /\ hs \in Nat /\ flights \in 0..Flights /\ hs <= flights /\ MaxConnects \in Nat /\ Flights \in Nat
  BY TlsBounds DEF TlsTyped, Handshake
<1>2. mFd \in 0..MaxConnects /\ bio \in 0..MaxConnects /\ hs \in 0..flights
  BY <1>1
<1>3. mPendingWrites \in Seq(1..MaxWrites) /\ wpend \in 0..MaxWrites
  <2>1. writes \in 0..MaxWrites /\ wpend \in 0..writes /\ mPendingWrites \in Seq(1..writes) /\ MaxWrites \in Nat
    BY TlsBounds DEF WriteLists
  <2>2. writes \in Nat /\ writes <= MaxWrites /\ wpend \in 0..MaxWrites
    BY <2>1
  <2> QED BY <2>1, <2>2, WiderSeq
<1>4. TlsTypeOK
  <2>1. {readWaitState, writeWaitState} \subseteq Waits
    BY DEF TlsTyped, Waits, ReadWaits
  <2>2. {session, room, ready, asked, resent, unread, crowded, closed, inside, late} \subseteq BOOLEAN
    BY DEF Flags
  <2>3. /\ mMode \in {"Plain", "TLS"} /\ (session <=> mMode = "TLS")
        /\ (mFd = 0 => conn = "none" /\ want = {} /\ ~ready /\ other = NoOther)
    BY Zenon DEF Flags, Descriptor, Others
  <2>5. other = NoOther \/ other \in [fd : 1..MaxConnects, conn : Conns, want : SUBSET {"in", "out"}, ready : BOOLEAN]
    <3>1. 1..connects \subseteq 1..MaxConnects
      BY <1>1
    <3> QED BY <3>1 DEF Others
  <2>4. /\ mState \in {"Idle", "Connecting", "Handshaking", "Connected", "Closed", "Error"}
        /\ stack \in Seq(Ops) /\ tlsFailed \in {"none", "session", "wait", "no fd", "two"}
        /\ flights \in 0..Flights /\ conn \in {"none"} \cup Conns
        /\ inbox \in Seq({"flight", "data"}) /\ want \in SUBSET {"in", "out"}
    BY Zenon DEF TlsTyped
  <2> QED BY <1>2, <1>3, <2>1, <2>2, <2>3, <2>4, <2>5, Zenon DEF TlsTypeOK
<1>5. TlsAsserts
  BY DEF TlsAsserts, WaitStates, ReadWaits, Aside
<1>6. Idle /\ mFd = 0 /\ ~closed => mState \in {"Idle", "Closed", "Error"}
  BY Zenon DEF Stages
<1> QED BY <1>4, <1>5, <1>6, Zenon DEF TlsSafe

\* The assertions of connectTLS, of the wait states, of read() and of write() fail only
\* after close(), because a write did not get through at once, or because connect() of
\* the other family began an attempt beside the one that has the session; and a socket
\* without a descriptor has told the program so, unless close() was called.
THEOREM SessionIsSafe == TlsSpec => []TlsSafe
<1>1. TlsSpec => []TlsInv
  BY TlsInvariance
<1>2. TlsInv => TlsSafe
  BY SafeFollows
<1> QED BY <1>1, <1>2, PTL

\* However SSL_write takes them, the buffers of write() go out in order and once, but
\* for a list that processWrite kept after it had sent some of it; none goes out
\* without a session in a first connection that was neither closed nor has failed;
\* and what is left between two callbacks has a wait state of writeTLS.
THEOREM TlsWritesAreKept == TlsSpec => []WritesKept
<1>1. TlsInv => WritesKept
  <2> SUFFICES ASSUME TlsInv PROVE WritesKept
    OBVIOUS
  <2>1. plain # <<>> => closed \/ mState = "Error" \/ connects > 1
    <3>1. connects \in Nat
      <4>1. connects \in 0..MaxConnects
        BY DEF TlsInv, SessionInv, TlsTyped
      <4> QED BY <4>1, TlsBounds
    <3> QED BY <3>1 DEF TlsInv, SessionInv, GivenUp
  <2>2. ASSUME Idle, mState = "Connected", mFd # 0, mPendingWrites # <<>>
        PROVE  writeWaitState \in ReadWaits
    <3>1. 1..Len(stack) = {}
      BY <2>2 DEF Idle
    <3> QED BY <2>2, <3>1 DEF TlsInv, SessionInv, Sending
  <2> QED BY <2>1, <2>2 DEF WritesKept, ReadWaits, TlsInv, SessionInv, Sending
<1> QED BY <1>1, TlsInvariance, PTL

\* Between two callbacks no record and no end of the peer lies unread with nobody to
\* read it, but in the three cases of an edge-triggered epoll that UnreadExplained
\* names.
THEOREM UnreadIsExplained == TlsSpec => []UnreadExplained
<1>1. TlsInv => UnreadExplained
  <2> SUFFICES ASSUME TlsInv, Idle, mState = "Connected", ~ready, inbox # <<>> \/ conn = "shut",
                      ~unread, ~crowded
               PROVE  readWaitState = "SSLReadWaitingForWrite" /\ (~room \/ connects > 1)
    BY DEF UnreadExplained
  <2>1. stack = <<>> /\ 1..Len(stack) = {}
    BY DEF Idle
  <2> QED BY <2>1 DEF TlsInv, SessionInv, Readers
<1> QED BY <1>1, TlsInvariance, PTL

=============================================================================
