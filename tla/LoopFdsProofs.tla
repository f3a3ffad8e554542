---------------------------- MODULE LoopFdsProofs ----------------------------
(***************************************************************************)
(* Proofs about LoopFds for any set of descriptors and any number of       *)
(* calls.                                                                  *)
(*                                                                         *)
(* While only the loop's thread calls, a registered descriptor is open     *)
(* and what epoll watches is what is registered, once the lists are        *)
(* merged and the removed descriptors closed (Opened, Watched); the events *)
(* last asked for are those of the last update, or those epoll has         *)
(* (Wanted).  That a descriptor is in one list once at most (Distinct) is  *)
(* what makes removing the first of its entries enough.                    *)
(***************************************************************************)
EXTENDS LoopFds, SequenceTheorems, NaturalsInduction, WellFoundedInduction,
        FiniteSetTheorems, TLAPS

-----------------------------------------------------------------------------
(* The inductive invariant *)

\* Errors are reported of descriptors only, never of the wakeup pipe.
Reported == {r \in [fd : Fds \cup {WakeFd}, ev : SUBSET {"in", "out", "err"}] :
                "err" \in r.ev => r.fd \in Fds}
Typed ==
    /\ TypeOK /\ batch \in Seq(Reported)
    /\ cur.kind = "error" => cur.fd \in Fds

Once(s) == \A i, k \in 1..Len(s) : s[i] = s[k] => i = k

\* A descriptor is in one list, once, and a registered one has an FD.
Distinct ==
    /\ Once(mFds) /\ Once(mPendingFds) /\ Once(mRemovedFds)
    /\ Range(mFds) \cap Range(mPendingFds) = {}
    /\ Registered \subseteq held
    /\ held \cap Range(mRemovedFds) = {}

\* The lists are empty after their locked section, but for what other threads
\* put there and wake the loop for.
Flushed ==
    ~wake \/ ~threaded =>
        /\ phase \in {"add", "update", "close", "wait"} => mPendingFds = <<>>
        /\ phase \in {"close", "wait"} => mUpdateFds = <<>> /\ mRemovedFds = <<>>

\* The local list: new descriptors, then removed ones.
Local ==
    /\ phase \notin {"add", "close"} => fds = <<>>
    /\ ~threaded /\ phase = "add" => Range(fds) \subseteq Range(mFds)
    /\ ~threaded /\ phase = "close" => Range(fds) \cap held = {}

\* What is registered is open.
Opened == ~threaded => Registered \ failed \subseteq open

\* What has a callback is watched, or will be next; what is watched is
\* registered, or will be closed.
Watched ==
    ~threaded =>
        /\ \A fd \in Range(mFds) \ failed :
              fd \in inEpoll \/ (phase = "add" /\ fd \in Range(fds))
        /\ \A fd \in inEpoll \ failed :
              \/ fd \in Registered \/ fd \in Range(mRemovedFds)
              \/ phase = "close" /\ fd \in Range(fds)

Untouched(updates, fd) == \A i \in 1..Len(updates) : updates[i][1] # fd
LastUpdate(updates, fd, flags) ==
    \E i \in 1..Len(updates) :
        /\ updates[i] = <<fd, flags>>
        /\ \A k \in i + 1..Len(updates) : updates[k][1] # fd

\* The events last asked for are in the last update, or else epoll has them, or
\* will be given them with the descriptor.
Wanted ==
    ~threaded =>
        \A fd \in Registered \ (failed \cup readded) :
            \/ LastUpdate(mUpdateFds, fd, requested[fd])
            \/ /\ Untouched(mUpdateFds, fd)
               /\ IF fd \in inEpoll THEN mask[fd] = requested[fd] ELSE requested[fd] = {"in"}

IInv == Typed /\ Distinct /\ Flushed /\ Local /\ Opened /\ Watched /\ Wanted

-----------------------------------------------------------------------------
(* Sequences *)

\* Where an element of a sequence is.
LEMMA Somewhere ==
    ASSUME NEW T, NEW s \in Seq(T), NEW e
    PROVE  e \in Range(s) <=> \E i \in 1..Len(s) : s[i] = e
<1>1. DOMAIN s = 1..Len(s)
  OBVIOUS
<1> QED BY <1>1 DEF Range

LEMMA NoElements == Range(<<>>) = {} /\ Once(<<>>)
<1>1. <<>> \in Seq({}) /\ Len(<<>>) = 0
  OBVIOUS
<1>2. 1..Len(<<>>) = {}
  BY <1>1
<1>3. Once(<<>>)
  BY <1>2 DEF Once
<1>4. \A e : e \notin Range(<<>>)
  BY <1>1, <1>2, Somewhere
<1> QED BY <1>3, <1>4

LEMMA Least ==
    ASSUME NEW B \in SUBSET Nat, B # {}
    PROVE  Min(B) \in B /\ \A y \in B : Min(B) <= y
<1>1. PICK m \in B : \A y \in B : ~ (<<y, m>> \in OpToRel(<, Nat))
  BY NatLessThanWellFounded, WFMin
<1>2. \A y \in B : ~ (y < m)
  BY <1>1 DEF OpToRel
<1>3. \A y \in B : y \in Nat
  OBVIOUS
<1>4. \A y \in B : m <= y
  BY <1>2, <1>3
<1> QED BY <1>4 DEF Min

LEMMA Greatest ==
    ASSUME NEW n \in Nat, NEW B \in SUBSET (1..n), B # {}
    PROVE  Max(B) \in B /\ \A y \in B : y <= Max(B)
<1> DEFINE C == {n - b : b \in B}
<1>1. \A b \in B : b \in Nat /\ b <= n
  OBVIOUS
<1>2. C \in SUBSET Nat /\ C # {}
  <2>1. \A b \in B : n - b \in Nat
    BY <1>1
  <2> QED BY <2>1
<1>3. Min(C) \in C /\ \A y \in C : Min(C) <= y
  BY <1>2, Least
<1>4. PICK b \in B : Min(C) = n - b
  BY <1>3
<1>5. \A y \in B : n - b <= n - y
  BY <1>3, <1>4
<1>6. \A y \in B : y <= b
  BY <1>1, <1>5
<1> QED BY <1>6 DEF Max

\* A sequence without the entry at k.
LEMMA WithoutOne ==
    ASSUME NEW T, NEW s \in Seq(T), NEW k \in 1..Len(s)
    PROVE  /\ RemoveAt(s, k) \in Seq(T) /\ Len(RemoveAt(s, k)) = Len(s) - 1
           /\ \A i \in 1..(k - 1) : RemoveAt(s, k)[i] = s[i]
           /\ \A i \in k..(Len(s) - 1) : RemoveAt(s, k)[i] = s[i + 1]
<1> DEFINE a == SubSeq(s, 1, k - 1)
           b == SubSeq(s, k + 1, Len(s))
<1>1. Len(s) \in Nat /\ k \in Nat /\ 1 <= k /\ k <= Len(s)
  OBVIOUS
<1>2. /\ a \in Seq(T) /\ Len(a) = k - 1
      /\ \A i \in 1..(k - 1) : a[i] = s[i]
  <2>1. \A i \in 1..(k - 1) : s[i] \in T
    BY <1>1
  <2> QED BY <1>1, <2>1, SubSeqProperties
<1>3. /\ b \in Seq(T) /\ Len(b) = Len(s) - k
      /\ \A i \in 1..(Len(s) - k) : b[i] = s[k + i]
  <2>1. \A i \in (k + 1)..Len(s) : s[i] \in T
    BY <1>1
  <2> QED BY <1>1, <2>1, SubSeqProperties
<1>4. RemoveAt(s, k) = a \o b
  BY DEF RemoveAt
<1> HIDE DEF a, b
<1>5. /\ a \o b \in Seq(T) /\ Len(a \o b) = Len(a) + Len(b)
      /\ \A i \in 1..(Len(a) + Len(b)) : (a \o b)[i] = IF i <= Len(a) THEN a[i] ELSE b[i - Len(a)]
  BY <1>2, <1>3, ConcatProperties
<1>6. Len(a \o b) = Len(s) - 1
  BY <1>1, <1>2, <1>3, <1>5
<1>7. \A i \in 1..(k - 1) : (a \o b)[i] = s[i]
  <2> TAKE i \in 1..(k - 1)
  <2>1. i \in 1..(Len(a) + Len(b)) /\ i <= Len(a)
    BY <1>1, <1>2, <1>3
  <2> QED BY <1>2, <1>5, <2>1
<1>8. \A i \in k..(Len(s) - 1) : (a \o b)[i] = s[i + 1]
  <2> TAKE i \in k..(Len(s) - 1)
  <2>1. i \in 1..(Len(a) + Len(b)) /\ ~(i <= Len(a)) /\ i - Len(a) = i - k + 1
    BY <1>1, <1>2, <1>3
  <2>2. i - k + 1 \in 1..(Len(s) - k) /\ k + (i - k + 1) = i + 1
    BY <1>1
  <2>3. (a \o b)[i] = b[i - k + 1]
    BY <1>5, <2>1
  <2> QED BY <1>3, <2>2, <2>3
<1> QED BY <1>4, <1>5, <1>6, <1>7, <1>8

\* What RemoveFirst does to a sequence in which everything is once.
LEMMA Removed ==
    ASSUME NEW T, NEW s \in Seq(T), Once(s), NEW e
    PROVE  /\ RemoveFirst(s, e) \in Seq(T)
           /\ Range(RemoveFirst(s, e)) = Range(s) \ {e}
           /\ Once(RemoveFirst(s, e))
<1>1. CASE ~ \E i \in 1..Len(s) : s[i] = e
  <2>1. RemoveFirst(s, e) = s
    BY <1>1 DEF RemoveFirst
  <2>2. e \notin Range(s)
    BY <1>1, Somewhere
  <2> QED BY <2>1, <2>2
<1>2. CASE \E i \in 1..Len(s) : s[i] = e
  <2> DEFINE k == SelectInSeq(s, LAMBDA v : v = e)
             I == {i \in 1..Len(s) : s[i] = e}
             w == RemoveAt(s, k)
  <2>1. I # {} /\ I \in SUBSET Nat
    BY <1>2
  <2>2. Min(I) \in I
    BY <2>1, Least
  <2>3. k = Min(I)
    BY <2>1 DEF SelectInSeq
  <2>4. k \in 1..Len(s) /\ s[k] = e
    BY <2>2, <2>3
  <2>5. RemoveFirst(s, e) = w
    BY <1>2 DEF RemoveFirst
  <2> HIDE DEF k, I
  <2>6. /\ w \in Seq(T) /\ Len(w) = Len(s) - 1
        /\ \A i \in 1..(k - 1) : w[i] = s[i]
        /\ \A i \in k..(Len(s) - 1) : w[i] = s[i + 1]
    BY <2>4, WithoutOne
  <2>7. Len(s) \in Nat /\ k \in Nat /\ 1 <= k /\ k <= Len(s)
    BY <2>4
  <2> DEFINE old(i) == IF i < k THEN i ELSE i + 1
  <2>8. \A i \in 1..Len(w) : old(i) \in 1..Len(s) /\ old(i) # k /\ w[i] = s[old(i)]
    <3> TAKE i \in 1..Len(w)
    <3>1. CASE i < k
      BY <2>6, <2>7, <3>1
    <3>2. CASE ~(i < k)
      BY <2>6, <2>7, <3>2
    <3> QED BY <3>1, <3>2
  <2>9. \A i, m \in 1..Len(w) : old(i) = old(m) => i = m
    BY <2>6, <2>7
  <2>10. \A n \in 1..Len(s) : n # k => \E i \in 1..Len(w) : old(i) = n
    <3> SUFFICES ASSUME NEW n \in 1..Len(s), n # k PROVE \E i \in 1..Len(w) : old(i) = n
      OBVIOUS
    <3>1. CASE n < k
      <4>1. n \in 1..Len(w) /\ old(n) = n
        BY <2>6, <2>7, <3>1
      <4> QED BY <4>1
    <3>2. CASE n > k
      <4>1. n - 1 \in 1..Len(w) /\ old(n - 1) = n
        BY <2>6, <2>7, <3>2
      <4> QED BY <4>1
    <3> QED BY <2>7, <3>1, <3>2
  <2> HIDE DEF old, w
  <2>11. \A x : x \in Range(w) <=> \E i \in 1..Len(w) : w[i] = x
    BY <2>6, Somewhere
  <2>12. \A x : x \in Range(s) <=> \E i \in 1..Len(s) : s[i] = x
    BY Somewhere
  <2>13. ASSUME NEW x, x \in Range(w)
         PROVE  x \in Range(s) \ {e}
    <3>1. PICK i \in 1..Len(w) : w[i] = x
      BY <2>11, <2>13
    <3>2. old(i) \in 1..Len(s) /\ old(i) # k /\ s[old(i)] = x
      BY <2>8, <3>1
    <3>3. x # e
      BY <2>4, <3>2 DEF Once
    <3> QED BY <2>12, <3>2, <3>3
  <2>14. ASSUME NEW x, x \in Range(s), x # e
         PROVE  x \in Range(w)
    <3>1. PICK n \in 1..Len(s) : s[n] = x
      BY <2>12, <2>14
    <3>2. n # k
      BY <2>4, <2>14, <3>1
    <3>3. PICK i \in 1..Len(w) : old(i) = n
      BY <2>10, <3>2
    <3> QED BY <2>8, <2>11, <3>1, <3>3
  <2>15. Once(w)
    <3> SUFFICES ASSUME NEW i \in 1..Len(w), NEW m \in 1..Len(w), w[i] = w[m] PROVE i = m
      BY DEF Once
    <3>1. old(i) \in 1..Len(s) /\ old(m) \in 1..Len(s) /\ s[old(i)] = s[old(m)]
      BY <2>8
    <3>2. old(i) = old(m)
      BY <3>1 DEF Once
    <3> QED BY <2>9, <3>2
  <2> QED BY <2>5, <2>6, <2>13, <2>14, <2>15
<1> QED BY <1>1, <1>2

\* Two sequences in a row.
LEMMA Joined ==
    ASSUME NEW T, NEW s \in Seq(T), NEW t \in Seq(T)
    PROVE  /\ s \o t \in Seq(T)
           /\ Range(s \o t) = Range(s) \cup Range(t)
           /\ Once(s) /\ Once(t) /\ Range(s) \cap Range(t) = {} => Once(s \o t)
<1> DEFINE w == s \o t
<1>1. /\ w \in Seq(T) /\ Len(w) = Len(s) + Len(t)
      /\ \A i \in 1..(Len(s) + Len(t)) : w[i] = IF i <= Len(s) THEN s[i] ELSE t[i - Len(s)]
  BY ConcatProperties
<1> HIDE DEF w
<1>2. Len(s) \in Nat /\ Len(t) \in Nat
  OBVIOUS
<1>3. \A x : x \in Range(w) <=> \E i \in 1..Len(w) : w[i] = x
  BY <1>1, Somewhere
<1>4. \A x : x \in Range(s) <=> \E i \in 1..Len(s) : s[i] = x
  BY Somewhere
<1>5. \A x : x \in Range(t) <=> \E i \in 1..Len(t) : t[i] = x
  BY Somewhere
<1>6. \A i \in 1..Len(w) : \/ i \in 1..Len(s) /\ w[i] = s[i]
                           \/ i > Len(s) /\ i - Len(s) \in 1..Len(t) /\ w[i] = t[i - Len(s)]
  BY <1>1, <1>2
<1>7. \A i \in 1..Len(s) : i \in 1..Len(w) /\ w[i] = s[i]
  BY <1>1, <1>2
<1>8. \A i \in 1..Len(t) : i + Len(s) \in 1..Len(w) /\ w[i + Len(s)] = t[i]
  <2> TAKE i \in 1..Len(t)
  <2>1. i + Len(s) \in 1..(Len(s) + Len(t)) /\ ~(i + Len(s) <= Len(s)) /\ (i + Len(s)) - Len(s) = i
    BY <1>2
  <2> QED BY <1>1, <2>1
<1>9. ASSUME NEW x PROVE x \in Range(w) <=> x \in Range(s) \/ x \in Range(t)
  <2>1. x \in Range(w) => x \in Range(s) \/ x \in Range(t)
    BY <1>3, <1>4, <1>5, <1>6
  <2>2. x \in Range(s) => x \in Range(w)
    BY <1>3, <1>4, <1>7
  <2>3. x \in Range(t) => x \in Range(w)
    BY <1>3, <1>5, <1>8
  <2> QED BY <2>1, <2>2, <2>3
<1>10. ASSUME Once(s), Once(t), Range(s) \cap Range(t) = {}
       PROVE  Once(w)
  <2> SUFFICES ASSUME NEW i \in 1..Len(w), NEW m \in 1..Len(w), w[i] = w[m] PROVE i = m
    BY DEF Once
  <2>1. CASE i \in 1..Len(s) /\ w[i] = s[i] /\ m \in 1..Len(s) /\ w[m] = s[m]
    BY <1>10, <2>1 DEF Once
  <2>2. CASE /\ i - Len(s) \in 1..Len(t) /\ w[i] = t[i - Len(s)]
             /\ m - Len(s) \in 1..Len(t) /\ w[m] = t[m - Len(s)]
    <3>1. i - Len(s) = m - Len(s)
      BY <1>10, <2>2 DEF Once
    <3> QED BY <1>1, <1>2, <3>1
  <2>3. CASE i \in 1..Len(s) /\ w[i] = s[i] /\ m - Len(s) \in 1..Len(t) /\ w[m] = t[m - Len(s)]
    BY <1>4, <1>5, <1>10, <2>3
  <2>4. CASE m \in 1..Len(s) /\ w[m] = s[m] /\ i - Len(s) \in 1..Len(t) /\ w[i] = t[i - Len(s)]
    BY <1>4, <1>5, <1>10, <2>4
  <2> QED BY <1>6, <2>1, <2>2, <2>3, <2>4
<1> QED BY <1>1, <1>9, <1>10 DEF w

\* A sequence and one more.
LEMMA OneMore ==
    ASSUME NEW T, NEW s \in Seq(T), NEW e \in T
    PROVE  /\ Append(s, e) \in Seq(T)
           /\ Range(Append(s, e)) = Range(s) \cup {e}
           /\ Once(s) /\ e \notin Range(s) => Once(Append(s, e))
<1>1. <<e>> \in Seq(T) /\ Len(<<e>>) = 1 /\ <<e>>[1] = e
  OBVIOUS
<1>2. Range(<<e>>) = {e} /\ Once(<<e>>)
  <2>1. \A x : x \in Range(<<e>>) <=> \E i \in 1..1 : <<e>>[i] = x
    BY <1>1, Somewhere
  <2> QED BY <1>1, <2>1 DEF Once
<1>3. Append(s, e) = s \o <<e>>
  BY AppendIsConcat
<1> DEFINE t == <<e>>
<1>4. t \in Seq(T) /\ Range(t) = {e} /\ Once(t) /\ Append(s, e) = s \o t
  BY <1>1, <1>2, <1>3
<1> HIDE DEF t
<1>5. /\ s \o t \in Seq(T)
      /\ Range(s \o t) = Range(s) \cup Range(t)
      /\ Once(s) /\ Once(t) /\ Range(s) \cap Range(t) = {} => Once(s \o t)
  BY <1>4, Joined
<1>6. Range(s) \cap Range(t) = {} <=> e \notin Range(s)
  BY <1>4
<1> QED BY <1>4, <1>5, <1>6

-----------------------------------------------------------------------------
(* Updates and the merge *)

Updates == Seq(Fds \X Flags)

\* An update more, and an update less of a descriptor, as in removeFd.
LEMMA UpdateMore ==
    ASSUME NEW s \in Updates, NEW fd \in Fds, NEW flags \in Flags
    PROVE  /\ Append(s, <<fd, flags>>) \in Updates
           /\ LastUpdate(Append(s, <<fd, flags>>), fd, flags)
           /\ \A q : q # fd =>
                 /\ Untouched(s, q) => Untouched(Append(s, <<fd, flags>>), q)
                 /\ \A f : LastUpdate(s, q, f) => LastUpdate(Append(s, <<fd, flags>>), q, f)
<1> DEFINE e == <<fd, flags>>
           w == Append(s, e)
<1>1. e \in Fds \X Flags /\ e[1] = fd
  OBVIOUS
<1> HIDE DEF e
<1>2. /\ w \in Updates /\ Len(s) \in Nat /\ Len(w) = Len(s) + 1
      /\ \A i \in 1..Len(s) : w[i] = s[i]
      /\ w[Len(s) + 1] = e
  BY <1>1, AppendProperties DEF Updates
<1> HIDE DEF w
<1>3. LastUpdate(w, fd, flags)
  <2>1. Len(s) + 1 \in 1..Len(w) /\ w[Len(s) + 1] = <<fd, flags>>
    BY <1>2 DEF e
  <2>2. \A k \in (Len(s) + 1) + 1..Len(w) : w[k][1] # fd
    BY <1>2
  <2> QED BY <2>1, <2>2 DEF LastUpdate
<1>4. ASSUME NEW q, q # fd, Untouched(s, q)
      PROVE  Untouched(w, q)
  <2> SUFFICES ASSUME NEW i \in 1..Len(w) PROVE w[i][1] # q
    BY DEF Untouched
  <2>1. i \in 1..Len(s) \/ i = Len(s) + 1
    BY <1>2
  <2> QED BY <1>1, <1>2, <1>4, <2>1 DEF Untouched
<1>5. ASSUME NEW q, q # fd, NEW f, LastUpdate(s, q, f)
      PROVE  LastUpdate(w, q, f)
  <2>1. PICK i \in 1..Len(s) : s[i] = <<q, f>> /\ \A k \in i + 1..Len(s) : s[k][1] # q
    BY <1>5 DEF LastUpdate
  <2>2. i \in 1..Len(w) /\ w[i] = <<q, f>>
    BY <1>2, <2>1
  <2>3. ASSUME NEW k \in i + 1..Len(w)
        PROVE  w[k][1] # q
    <3>1. (k \in i + 1..Len(s) /\ k \in 1..Len(s)) \/ k = Len(s) + 1
      BY <1>2
    <3> QED BY <1>1, <1>2, <1>5, <2>1, <3>1
  <2> QED BY <2>2, <2>3 DEF LastUpdate
<1> QED BY <1>2, <1>3, <1>4, <1>5 DEF w, e

WithoutUpdate(s, fd) == LET ofFd(update) == update[1] = fd IN RemoveFirstMatch(s, ofFd)

LEMMA UpdateLess ==
    ASSUME NEW s \in Updates, NEW fd, NEW w, w = WithoutUpdate(s, fd)
    PROVE  /\ w \in Updates
           /\ \A q : q # fd =>
                 /\ Untouched(s, q) => Untouched(w, q)
                 /\ \A f : LastUpdate(s, q, f) => LastUpdate(w, q, f)
<1>1. CASE ~ \E i \in 1..Len(s) : s[i][1] = fd
  <2>1. w = s
    BY <1>1 DEF WithoutUpdate, RemoveFirstMatch
  <2> QED BY <2>1
<1>2. CASE \E i \in 1..Len(s) : s[i][1] = fd
  <2> DEFINE k == SelectInSeq(s, LAMBDA update : update[1] = fd)
             I == {i \in 1..Len(s) : s[i][1] = fd}
  <2>1. I # {} /\ I \in SUBSET Nat
    BY <1>2
  <2>2. Min(I) \in I
    BY <2>1, Least
  <2>3. k = Min(I)
    BY <2>1 DEF SelectInSeq
  <2>4. k \in 1..Len(s) /\ s[k][1] = fd
    BY <2>2, <2>3
  <2>5. w = RemoveAt(s, k)
    BY <1>2 DEF WithoutUpdate, RemoveFirstMatch
  <2> HIDE DEF k, I
  <2>6. /\ w \in Updates /\ Len(w) = Len(s) - 1
        /\ \A i \in 1..(k - 1) : w[i] = s[i]
        /\ \A i \in k..(Len(s) - 1) : w[i] = s[i + 1]
    BY <2>4, <2>5, WithoutOne DEF Updates
  <2>7. Len(s) \in Nat /\ k \in Nat /\ 1 <= k /\ k <= Len(s)
    BY <2>4 DEF Updates
  <2>8. ASSUME NEW q, q # fd, Untouched(s, q)
        PROVE  Untouched(w, q)
    <3> SUFFICES ASSUME NEW i \in 1..Len(w) PROVE w[i][1] # q
      BY DEF Untouched
    <3>1. CASE i < k
      <4>1. i \in 1..(k - 1) /\ i \in 1..Len(s)
        BY <2>6, <2>7, <3>1
      <4> QED BY <2>6, <2>8, <4>1 DEF Untouched
    <3>2. CASE ~(i < k)
      <4>1. i \in k..(Len(s) - 1) /\ i + 1 \in 1..Len(s)
        BY <2>6, <2>7, <3>2
      <4> QED BY <2>6, <2>8, <4>1 DEF Untouched
    <3> QED BY <3>1, <3>2
  <2>9. ASSUME NEW q, q # fd, NEW f, LastUpdate(s, q, f)
        PROVE  LastUpdate(w, q, f)
    <3>1. PICK i \in 1..Len(s) : s[i] = <<q, f>> /\ \A n \in i + 1..Len(s) : s[n][1] # q
      BY <2>9 DEF LastUpdate
    <3>2. i # k
      BY <2>4, <2>9, <3>1
    <3>3. CASE i < k
      <4>1. i \in 1..Len(w) /\ w[i] = <<q, f>>
        <5>1. i \in 1..(k - 1) /\ i \in 1..Len(w)
          BY <2>6, <2>7, <3>3
        <5> QED BY <2>6, <3>1, <5>1
      <4>2. ASSUME NEW n \in i + 1..Len(w)
            PROVE  w[n][1] # q
        <5>1. CASE n < k
          <6>1. n \in 1..(k - 1) /\ n \in i + 1..Len(s)
            BY <2>6, <2>7, <5>1
          <6> QED BY <2>6, <3>1, <6>1
        <5>2. CASE ~(n < k)
          <6>1. n \in k..(Len(s) - 1) /\ n + 1 \in i + 1..Len(s)
            BY <2>6, <2>7, <5>2
          <6> QED BY <2>6, <3>1, <6>1
        <5> QED BY <5>1, <5>2
      <4> QED BY <4>1, <4>2 DEF LastUpdate
    <3>4. CASE i > k
      <4>1. i - 1 \in 1..Len(w) /\ i - 1 \in k..(Len(s) - 1) /\ (i - 1) + 1 = i
        BY <2>6, <2>7, <3>4
      <4>2. w[i - 1] = <<q, f>>
        BY <2>6, <3>1, <4>1
      <4>3. ASSUME NEW n \in (i - 1) + 1..Len(w)
            PROVE  w[n][1] # q
        <5>1. n + 1 \in i + 1..Len(s) /\ n \in k..(Len(s) - 1)
          BY <2>6, <2>7, <3>4
        <5> QED BY <2>6, <3>1, <5>1
      <4> QED BY <4>1, <4>2, <4>3 DEF LastUpdate
    <3> QED BY <2>7, <3>2, <3>3, <3>4
  <2> QED BY <2>6, <2>8, <2>9
<1> QED BY <1>1, <1>2

\* Which update the last one of a descriptor is.
LEMMA LastSelected ==
    ASSUME NEW s \in Updates, NEW fd, NEW at, at = SelectLastInSeq(s, LAMBDA update : update[1] = fd)
    PROVE  /\ at # 0 => at \in 1..Len(s) /\ s[at] \in Fds \X Flags
           /\ Untouched(s, fd) => at = 0
           /\ \A flags : LastUpdate(s, fd, flags) => at # 0 /\ s[at][2] = flags
<1> DEFINE I == {i \in 1..Len(s) : s[i][1] = fd}
<1>1. at = IF I # {} THEN Max(I) ELSE 0
  BY DEF SelectLastInSeq
<1>2. Len(s) \in Nat /\ \A i \in 1..Len(s) : s[i] \in Fds \X Flags
  BY DEF Updates
<1>3. I # {} => Max(I) \in I /\ \A i \in I : i <= Max(I)
  BY <1>2, Greatest
<1>4. at # 0 => at \in 1..Len(s) /\ s[at] \in Fds \X Flags
  BY <1>1, <1>2, <1>3
<1>5. Untouched(s, fd) => at = 0
  BY <1>1 DEF Untouched
<1>6. ASSUME NEW flags, LastUpdate(s, fd, flags)
      PROVE  at # 0 /\ s[at][2] = flags
  <2>1. PICK i \in 1..Len(s) : s[i] = <<fd, flags>> /\ \A k \in i + 1..Len(s) : s[k][1] # fd
    BY <1>6 DEF LastUpdate
  <2>2. i \in I
    BY <2>1
  <2>3. at \in I /\ i <= at
    BY <1>1, <1>3, <2>2
  <2>4. at = i
    BY <1>2, <2>1, <2>3
  <2> QED BY <1>2, <2>1, <2>4
<1> QED BY <1>4, <1>5, <1>6

\* Nothing that is registered is compared equal with what is pending: the merge
\* takes nothing away.
LEMMA KeptAll ==
    ASSUME TypeOK, mPendingFds # <<>>, Range(mFds) \cap Range(mPendingFds) = {}
    PROVE  Kept = mFds
<1> DEFINE n == Len(mFds)
           P == Len(mPendingFds)
<1>1. mFds \in Seq(Fds) /\ mPendingFds \in Seq(Fds) /\ n \in Nat /\ P \in Nat /\ P # 0
  BY DEF TypeOK
<1>2. ASSUME NEW i \in 1..n
      PROVE  mFds[i] # Compared(i)
  <2>1. i - 1 \in Nat
    BY <1>1
  <2>2. (i - 1) % P \in 0..P - 1
    BY <1>1, <2>1
  <2>3. ((i - 1) % P) + 1 \in 1..P
    BY <1>1, <2>2
  <2>4. Compared(i) \in Range(mPendingFds)
    BY <1>1, <2>3, Somewhere DEF Compared
  <2>5. mFds[i] \in Range(mFds)
    BY <1>1, Somewhere
  <2> QED BY <2>4, <2>5
<1>3. Stays = 1..n
  BY <1>2 DEF Stays
<1>4. \A i \in 1..n : Cardinality(1..i) = i
  <2> TAKE i \in 1..n
  <2>1. i \in Nat /\ i >= 1
    BY <1>1
  <2> QED BY <2>1, FS_Interval
<1>5. Cardinality(1..n) = n
  <2> HIDE DEF n
  <2>1. n \in Int /\ 1 \in Int
    BY <1>1
  <2>2. Cardinality(1..n) = IF 1 > n THEN 0 ELSE n - 1 + 1
    BY <2>1, FS_Interval
  <2> QED BY <1>1, <2>2
<1> DEFINE place(k) == CHOOSE i \in Stays : Cardinality(Stays \cap 1..i) = k
<1>6. ASSUME NEW k \in 1..n
      PROVE  place(k) = k
  <2>1. \A i \in 1..n : Stays \cap 1..i = 1..i
    BY <1>1, <1>3
  <2>2. \A i \in 1..n : Cardinality(Stays \cap 1..i) = i
    BY <1>4, <2>1
  <2> QED BY <1>3, <2>2
<1>7. Kept = [k \in 1..n |-> mFds[place(k)]]
  BY <1>3, <1>5 DEF Kept
<1> HIDE DEF place, n
<1>8. Kept = [k \in 1..n |-> mFds[k]]
  BY <1>6, <1>7
<1> QED BY <1>1, <1>8 DEF n

-----------------------------------------------------------------------------
(* The API *)

\* Who calls: the loop's thread between two rounds or in a callback, or another
\* thread, at any time, with a wakeup.
LEMMA Callers ==
    ASSUME IInv, threaded' = threaded, NEW foreign, Called(foreign), phase' = phase, fds' = fds
    PROVE  /\ calls' \in 0..MaxCalls /\ wake' \in BOOLEAN
           /\ ~threaded => phase \in {"work", "callback"}
           /\ Flushed' /\ Local'
<1>1. /\ calls' = calls + 1 /\ calls < MaxCalls
      /\ (threaded /\ wake' = TRUE) \/ (phase \in {"work", "callback"} /\ wake' = wake)
  BY DEF Called
<1>2. TypeOK /\ MaxCalls \in Nat
  BY FdsAssumption DEF IInv, Typed
<1>3. calls' \in 0..MaxCalls /\ wake' \in BOOLEAN
  <2>1. calls \in 0..MaxCalls /\ wake \in BOOLEAN
    BY <1>2 DEF TypeOK
  <2>2. calls' \in 0..MaxCalls
    BY <1>1, <1>2, <2>1
  <2>3. wake' \in BOOLEAN
    BY <1>1, <2>1
  <2> QED BY <2>2, <2>3
<1>4. CASE threaded /\ wake' = TRUE
  <2>1. Flushed'
    BY <1>4 DEF Flushed
  <2>2. Local'
    BY <1>4 DEF IInv, Local
  <2> QED BY <1>3, <1>4, <2>1, <2>2
<1>5. CASE phase \in {"work", "callback"}
  <2>1. Flushed'
    BY <1>5 DEF Flushed
  <2>2. Local'
    BY <1>5 DEF IInv, Local
  <2> QED BY <1>3, <1>5, <2>1, <2>2
<1> QED BY <1>1, <1>4, <1>5

LEMMA AddFdInv ==
    ASSUME IInv, threaded' = threaded, NEW foreign, NEW fd \in Fds, NEW flags \in Flags,
           AddFd(foreign, fd, flags)
    PROVE  IInv'
<1>1. /\ Called(foreign) /\ fd \in open /\ fd \notin Registered
      /\ mPendingFds' = Append(mPendingFds, fd)
      /\ mUpdateFds' = IF "out" \in flags THEN Append(mUpdateFds, <<fd, flags>>) ELSE mUpdateFds
      /\ mRemovedFds' = RemoveFirst(mRemovedFds, fd)
      /\ requested' = [requested EXCEPT ![fd] = flags]
      /\ readded' = IF HasPast(fd) THEN readded \cup {fd} ELSE readded \ {fd}
      /\ held' = held \cup {fd}
      /\ UNCHANGED <<mFds, fds, phase, open, inEpoll, mask, batch, cur, failed>>
  BY DEF AddFd, kernelVars
<1>2. Typed /\ TypeOK /\ Distinct
  BY DEF IInv, Typed
<1>3. /\ calls' \in 0..MaxCalls /\ wake' \in BOOLEAN /\ Flushed' /\ Local'
      /\ ~threaded => phase \in {"work", "callback"}
  BY <1>1, Callers
<1>4. /\ mPendingFds' \in Seq(Fds) /\ Range(mPendingFds') = Range(mPendingFds) \cup {fd} /\ Once(mPendingFds')
  BY <1>1, <1>2, OneMore DEF TypeOK, Distinct, Registered
<1>5. /\ mRemovedFds' \in Seq(Fds) /\ Range(mRemovedFds') = Range(mRemovedFds) \ {fd} /\ Once(mRemovedFds')
  BY <1>1, <1>2, Removed DEF TypeOK, Distinct
<1>6. mUpdateFds \in Updates
  BY <1>2 DEF TypeOK, Updates
<1>7. /\ mUpdateFds' \in Updates
      /\ \A q : q # fd =>
            /\ Untouched(mUpdateFds, q) => Untouched(mUpdateFds', q)
            /\ \A f : LastUpdate(mUpdateFds, q, f) => LastUpdate(mUpdateFds', q, f)
      /\ "out" \in flags => LastUpdate(mUpdateFds', fd, flags)
      /\ "out" \notin flags => mUpdateFds' = mUpdateFds
  <2>1. CASE "out" \in flags
    BY <1>1, <1>6, <2>1, UpdateMore
  <2>2. CASE "out" \notin flags
    BY <1>1, <1>6, <2>2
  <2> QED BY <2>1, <2>2
<1>8. requested' \in [Fds -> Flags] /\ requested'[fd] = flags
      /\ \A q \in Fds : q # fd => requested'[q] = requested[q]
  BY <1>1, <1>2 DEF TypeOK
<1>9. Registered' = Registered \cup {fd}
  BY <1>1, <1>4 DEF Registered
<1>10. readded' \subseteq Fds /\ \A q : q # fd => (q \in readded' <=> q \in readded)
  BY <1>1, <1>2 DEF TypeOK
<1>11. Typed'
  <2>1. mUpdateFds' \in Seq(Fds \X Flags)
    BY <1>7 DEF Updates
  <2> QED BY <1>1, <1>2, <1>3, <1>4, <1>5, <1>8, <1>10, <2>1 DEF Typed, TypeOK
<1>12. Distinct'
  <2>1. Range(mFds') \cap Range(mPendingFds') = {}
    BY <1>1, <1>2, <1>4 DEF Distinct, Registered
  <2>2. Registered' \subseteq held' /\ held' \cap Range(mRemovedFds') = {}
    BY <1>1, <1>2, <1>5, <1>9 DEF Distinct
  <2> QED BY <1>1, <1>2, <1>4, <1>5, <2>1, <2>2 DEF Distinct
<1>13. Opened'
  BY <1>1, <1>9 DEF IInv, Opened
<1>14. Watched'
  BY <1>1, <1>3, <1>5, <1>9 DEF IInv, Watched
<1>15. Wanted'
  <2> SUFFICES ASSUME ~threaded, NEW q \in Registered' \ (failed' \cup readded')
               PROVE  \/ LastUpdate(mUpdateFds', q, requested'[q])
                      \/ /\ Untouched(mUpdateFds', q)
                         /\ IF q \in inEpoll' THEN mask'[q] = requested'[q] ELSE requested'[q] = {"in"}
    BY DEF Wanted
  <2>1. CASE q # fd
    <3>1. q \in Registered \ (failed \cup readded) /\ q \in Fds
      <4>1. q \in Registered \ (failed \cup readded)
        BY <1>1, <1>9, <1>10, <2>1
      <4>2. Registered \subseteq Fds
        BY <1>2 DEF Distinct, TypeOK
      <4> QED BY <4>1, <4>2
    <3>2. \/ LastUpdate(mUpdateFds, q, requested[q])
          \/ /\ Untouched(mUpdateFds, q)
             /\ IF q \in inEpoll THEN mask[q] = requested[q] ELSE requested[q] = {"in"}
      BY <3>1 DEF IInv, Wanted
    <3> QED BY <1>1, <1>7, <1>8, <2>1, <3>1, <3>2
  <2>2. CASE q = fd
    <3>1. ~HasPast(fd)
      BY <1>1, <2>2
    <3>2. fd \notin inEpoll /\ Untouched(mUpdateFds, fd)
      <4>1. \A i \in 1..Len(mUpdateFds) : mUpdateFds[i] \in Range(mUpdateFds)
        BY <1>6, Somewhere DEF Updates
      <4> QED BY <3>1, <4>1 DEF HasPast, Untouched
    <3>3. CASE "out" \in flags
      BY <1>7, <1>8, <2>2, <3>3
    <3>4. CASE "out" \notin flags
      <4>1. flags = {"in"}
        BY <3>4 DEF Flags
      <4> QED BY <1>1, <1>7, <1>8, <2>2, <3>2, <3>4, <4>1
    <3> QED BY <3>3, <3>4
  <2> QED BY <2>1, <2>2
<1> QED BY <1>3, <1>11, <1>12, <1>13, <1>14, <1>15 DEF IInv

LEMMA UpdateFdInv ==
    ASSUME IInv, threaded' = threaded, NEW foreign, NEW fd \in Fds, NEW flags \in Flags,
           UpdateFd(foreign, fd, flags)
    PROVE  IInv'
<1>1. /\ Called(foreign)
      /\ mUpdateFds' = Append(mUpdateFds, <<fd, flags>>)
      /\ requested' = [requested EXCEPT ![fd] = flags]
      /\ readded' = readded \ {fd}
      /\ UNCHANGED <<mFds, mPendingFds, mRemovedFds, fds, phase, open, inEpoll, mask, batch, cur, held, failed>>
  BY DEF UpdateFd, kernelVars
<1>2. Typed /\ TypeOK /\ Distinct
  BY DEF IInv, Typed
<1>3. /\ calls' \in 0..MaxCalls /\ wake' \in BOOLEAN /\ Flushed' /\ Local'
      /\ ~threaded => phase \in {"work", "callback"}
  BY <1>1, Callers
<1>4. mUpdateFds \in Updates
  BY <1>2 DEF TypeOK, Updates
<1>5. /\ mUpdateFds' \in Updates
      /\ \A q : q # fd =>
            /\ Untouched(mUpdateFds, q) => Untouched(mUpdateFds', q)
            /\ \A f : LastUpdate(mUpdateFds, q, f) => LastUpdate(mUpdateFds', q, f)
      /\ LastUpdate(mUpdateFds', fd, flags)
  BY <1>1, <1>4, UpdateMore
<1>6. requested' \in [Fds -> Flags] /\ requested'[fd] = flags
      /\ \A q \in Fds : q # fd => requested'[q] = requested[q]
  BY <1>1, <1>2 DEF TypeOK
<1>7. Registered' = Registered /\ Registered \subseteq Fds
  BY <1>1, <1>2 DEF Registered, Distinct, TypeOK
<1>8. Typed'
  <2>1. mUpdateFds' \in Seq(Fds \X Flags)
    BY <1>5 DEF Updates
  <2> QED BY <1>1, <1>2, <1>3, <1>6, <2>1 DEF Typed, TypeOK
<1>9. Distinct' /\ Opened' /\ Watched'
  BY <1>1, <1>7 DEF IInv, Distinct, Opened, Watched
<1>10. Wanted'
  <2> SUFFICES ASSUME ~threaded, NEW q \in Registered' \ (failed' \cup readded')
               PROVE  \/ LastUpdate(mUpdateFds', q, requested'[q])
                      \/ /\ Untouched(mUpdateFds', q)
                         /\ IF q \in inEpoll' THEN mask'[q] = requested'[q] ELSE requested'[q] = {"in"}
    BY DEF Wanted
  <2>1. CASE q # fd
    <3>1. q \in Registered \ (failed \cup readded) /\ q \in Fds
      BY <1>1, <1>7, <2>1
    <3>2. \/ LastUpdate(mUpdateFds, q, requested[q])
          \/ /\ Untouched(mUpdateFds, q)
             /\ IF q \in inEpoll THEN mask[q] = requested[q] ELSE requested[q] = {"in"}
      BY <3>1 DEF IInv, Wanted
    <3> QED BY <1>1, <1>5, <1>6, <2>1, <3>1, <3>2
  <2>2. CASE q = fd
    BY <1>5, <1>6, <2>2
  <2> QED BY <2>1, <2>2
<1> QED BY <1>3, <1>8, <1>9, <1>10 DEF IInv

LEMMA RemoveFdInv ==
    ASSUME IInv, threaded' = threaded, NEW foreign, NEW fd \in Fds, RemoveFd(foreign, fd)
    PROVE  IInv'
<1>1. /\ Called(foreign) /\ fd \in held /\ held' = held \ {fd}
      /\ mFds' = RemoveFirst(mFds, fd) /\ mPendingFds' = RemoveFirst(mPendingFds, fd)
      /\ mUpdateFds' = WithoutUpdate(mUpdateFds, fd)
      /\ mRemovedFds' = Append(mRemovedFds, fd)
      /\ UNCHANGED <<fds, phase, open, inEpoll, mask, batch, cur, requested, failed, readded>>
  BY DEF RemoveFd, kernelVars, WithoutUpdate
<1>2. Typed /\ TypeOK /\ Distinct
  BY DEF IInv, Typed
<1>3. /\ calls' \in 0..MaxCalls /\ wake' \in BOOLEAN /\ Flushed' /\ Local'
      /\ ~threaded => phase \in {"work", "callback"}
  BY <1>1, Callers
<1>4. /\ mFds' \in Seq(Fds) /\ Range(mFds') = Range(mFds) \ {fd} /\ Once(mFds')
      /\ mPendingFds' \in Seq(Fds) /\ Range(mPendingFds') = Range(mPendingFds) \ {fd} /\ Once(mPendingFds')
  BY <1>1, <1>2, Removed DEF TypeOK, Distinct
<1>5. /\ mRemovedFds' \in Seq(Fds) /\ Range(mRemovedFds') = Range(mRemovedFds) \cup {fd} /\ Once(mRemovedFds')
  <2>1. fd \notin Range(mRemovedFds)
    BY <1>1, <1>2 DEF Distinct
  <2> QED BY <1>1, <1>2, <2>1, OneMore DEF TypeOK, Distinct
<1>6. mUpdateFds \in Updates
  BY <1>2 DEF TypeOK, Updates
<1>7. /\ mUpdateFds' \in Updates
      /\ \A q : q # fd =>
            /\ Untouched(mUpdateFds, q) => Untouched(mUpdateFds', q)
            /\ \A f : LastUpdate(mUpdateFds, q, f) => LastUpdate(mUpdateFds', q, f)
  BY <1>1, <1>6, UpdateLess
<1>8. Registered' = Registered \ {fd}
  BY <1>4 DEF Registered
<1>9. Typed'
  <2>1. mUpdateFds' \in Seq(Fds \X Flags)
    BY <1>7 DEF Updates
  <2> QED BY <1>1, <1>2, <1>3, <1>4, <1>5, <2>1 DEF Typed, TypeOK
<1>10. Distinct'
  <2>1. Range(mFds') \cap Range(mPendingFds') = {}
    BY <1>2, <1>4 DEF Distinct
  <2>2. Registered' \subseteq held' /\ held' \cap Range(mRemovedFds') = {}
    BY <1>1, <1>2, <1>5, <1>8 DEF Distinct
  <2> QED BY <1>4, <1>5, <2>1, <2>2 DEF Distinct
<1>11. Opened'
  BY <1>1, <1>8 DEF IInv, Opened
<1>12. Watched'
  BY <1>1, <1>3, <1>4, <1>5, <1>8 DEF IInv, Watched
<1>13. Wanted'
  <2> SUFFICES ASSUME ~threaded, NEW q \in Registered' \ (failed' \cup readded')
               PROVE  \/ LastUpdate(mUpdateFds', q, requested'[q])
                      \/ /\ Untouched(mUpdateFds', q)
                         /\ IF q \in inEpoll' THEN mask'[q] = requested'[q] ELSE requested'[q] = {"in"}
    BY DEF Wanted
  <2>1. q \in Registered \ (failed \cup readded) /\ q # fd
    BY <1>1, <1>8
  <2>2. \/ LastUpdate(mUpdateFds, q, requested[q])
        \/ /\ Untouched(mUpdateFds, q)
           /\ IF q \in inEpoll THEN mask[q] = requested[q] ELSE requested[q] = {"in"}
    BY <2>1 DEF IInv, Wanted
  <2> QED BY <1>1, <1>7, <2>1, <2>2
<1> QED BY <1>3, <1>9, <1>10, <1>11, <1>12, <1>13 DEF IInv

\* Steps that leave the lists and epoll alone.
LEMMA Quiet ==
    ASSUME IInv, threaded' = threaded,
           UNCHANGED <<mFds, mPendingFds, mUpdateFds, mRemovedFds, fds, inEpoll, mask, requested, held,
                       failed, readded>>,
           open \subseteq open',
           \/ phase \notin {"add", "close"} /\ phase' \in {"work", "dispatch", "callback"}
           \/ phase' = phase /\ (wake' = wake \/ wake')
    PROVE  Distinct' /\ Flushed' /\ Local' /\ Opened' /\ Watched' /\ Wanted'
<1>1. Registered' = Registered
  BY DEF Registered
<1>2. Distinct' /\ Opened' /\ Wanted'
  BY <1>1 DEF IInv, Distinct, Opened, Wanted
<1>3. CASE phase \notin {"add", "close"} /\ phase' \in {"work", "dispatch", "callback"}
  <2>1. phase' \notin {"add", "update", "close", "wait"}
    BY <1>3
  <2>2. Flushed'
    BY <2>1 DEF Flushed
  <2>3. Local' /\ Watched'
    BY <1>1, <1>3, <2>1 DEF IInv, Local, Watched
  <2> QED BY <1>2, <2>2, <2>3
<1>4. CASE phase' = phase /\ (wake' = wake \/ wake')
  <2>1. Flushed'
    BY <1>4 DEF IInv, Flushed
  <2>2. Local' /\ Watched'
    BY <1>1, <1>4 DEF IInv, Local, Watched
  <2> QED BY <1>2, <2>1, <2>2
<1> QED BY <1>3, <1>4

LEMMA OpenFdInv == ASSUME IInv, threaded' = threaded, NEW fd \in Fds, OpenFd(fd) PROVE IInv'
<1>1. /\ open' = open \cup {fd}
      /\ UNCHANGED <<mFds, mPendingFds, mUpdateFds, mRemovedFds, fds, phase, inEpoll, mask, batch, cur, wake,
                     requested, held, failed, readded, calls>>
  BY DEF OpenFd, listVars, histVars
<1>2. Typed'
  BY <1>1 DEF IInv, Typed, TypeOK
<1> QED BY <1>1, <1>2, Quiet DEF IInv

LEMMA PostInv == ASSUME IInv, threaded' = threaded, Post PROVE IInv'
<1>1. /\ wake' = TRUE
      /\ UNCHANGED <<mFds, mPendingFds, mUpdateFds, mRemovedFds, fds, phase, open, inEpoll, mask, batch, cur,
                     requested, held, failed, readded, calls>>
  BY DEF Post, listVars, kernelVars, histVars
<1>2. Typed'
  BY <1>1 DEF IInv, Typed, TypeOK
<1> QED BY <1>1, <1>2, Quiet DEF IInv

-----------------------------------------------------------------------------
(* Before epoll_wait *)

LEMMA MergeInv == ASSUME IInv, threaded' = threaded, Merge PROVE IInv'
<1>1. /\ phase = "work"
      /\ UNCHANGED <<mUpdateFds, mRemovedFds, open, inEpoll, mask, batch, cur, wake,
                     requested, held, failed, readded, calls>>
  BY DEF Merge, kernelVars, histVars
<1>2. Typed /\ TypeOK /\ Distinct /\ fds = <<>>
  BY <1>1 DEF IInv, Typed, Local
<1>3. CASE mPendingFds = <<>> \/ Overruns
  <2>1. /\ UNCHANGED <<mFds, mPendingFds, fds>>
        /\ (phase' = "add" /\ mPendingFds = <<>>) \/ phase' = "crashed"
    BY <1>3 DEF Merge
  <2>2. Typed'
    BY <1>1, <1>2, <2>1 DEF Typed, TypeOK, Phases
  <2>3. Registered' = Registered
    BY <2>1 DEF Registered
  <2>4. Distinct' /\ Opened' /\ Wanted'
    BY <1>1, <2>1, <2>3 DEF IInv, Distinct, Opened, Wanted
  <2>5. Flushed'
    BY <2>1 DEF Flushed
  <2>6. Local'
    <3>1. Range(fds') = {}
      BY <1>2, <2>1, NoElements
    <3> QED BY <1>2, <2>1, <3>1 DEF Local
  <2>7. Watched'
    BY <1>1, <2>1, <2>3 DEF IInv, Watched
  <2> QED BY <2>2, <2>4, <2>5, <2>6, <2>7 DEF IInv
<1>4. CASE ~(mPendingFds = <<>> \/ Overruns)
  <2>1. /\ mFds' = Kept \o mPendingFds /\ fds' = mPendingFds
        /\ mPendingFds' = <<>> /\ phase' = "add"
    BY <1>4 DEF Merge
  <2>2. Kept = mFds
    BY <1>2, <1>4, KeptAll DEF Distinct
  <2>3. mFds' \in Seq(Fds) /\ Range(mFds') = Range(mFds) \cup Range(mPendingFds) /\ Once(mFds')
    BY <1>2, <2>1, <2>2, Joined DEF TypeOK, Distinct
  <2>4. Range(mPendingFds') = {} /\ Once(mPendingFds') /\ mPendingFds' \in Seq(Fds)
    BY <2>1, NoElements
  <2>5. Registered' = Registered /\ Range(fds') \subseteq Range(mFds')
    BY <2>1, <2>3, <2>4 DEF Registered
  <2>6. Typed'
    BY <1>1, <1>2, <2>1, <2>3, <2>4 DEF Typed, TypeOK, Phases
  <2>7. Distinct'
    <3>1. Registered' \subseteq held' /\ held' \cap Range(mRemovedFds') = {} /\ Once(mRemovedFds')
      BY <1>1, <1>2, <2>5 DEF Distinct
    <3> QED BY <2>3, <2>4, <3>1 DEF Distinct
  <2>8. Flushed'
    BY <2>1 DEF Flushed
  <2>9. Local'
    BY <2>1, <2>5 DEF Local
  <2>10. Opened' /\ Wanted'
    BY <1>1, <2>5 DEF IInv, Opened, Wanted
  <2>11. Watched'
    BY <1>1, <2>1, <2>3, <2>5 DEF IInv, Watched
  <2> QED BY <2>6, <2>7, <2>8, <2>9, <2>10, <2>11 DEF IInv
<1> QED BY <1>3, <1>4

LEMMA AddToEpollInv == ASSUME IInv, threaded' = threaded, AddToEpoll PROVE IInv'
<1> DEFINE new == (Range(fds) \cap open) \ inEpoll
<1>1. /\ phase = "add" /\ inEpoll' = inEpoll \cup new
      /\ mask' = [fd \in Fds |-> IF fd \in new THEN {"in"} ELSE mask[fd]]
      /\ fds' = <<>> /\ phase' = "update"
      /\ UNCHANGED <<mFds, mPendingFds, mUpdateFds, mRemovedFds, open, batch, cur, wake,
                     requested, held, failed, readded, calls>>
  BY DEF AddToEpoll, listVars, histVars
<1>2. Typed /\ TypeOK /\ Distinct
  BY DEF IInv, Typed
<1> HIDE DEF new
<1>3. {"in"} \in Flags /\ mask' \in [Fds -> Flags] /\ inEpoll' \subseteq open
  <2>1. {"in"} \in Flags
    BY DEF Flags
  <2>2. mask' \in [Fds -> Flags]
    BY <1>1, <1>2, <2>1 DEF TypeOK
  <2>3. inEpoll' \subseteq open
    BY <1>1, <1>2 DEF TypeOK, new
  <2> QED BY <2>1, <2>2, <2>3
<1>4. Registered' = Registered /\ Registered \subseteq Fds /\ inEpoll \subseteq inEpoll'
  BY <1>1, <1>2 DEF Registered, Distinct, TypeOK
<1>5. Typed'
  BY <1>1, <1>2, <1>3 DEF Typed, TypeOK, Phases
<1>6. Distinct' /\ Opened'
  BY <1>1, <1>4 DEF IInv, Distinct, Opened
<1>7. Flushed' /\ Local'
  BY <1>1 DEF IInv, Flushed, Local
<1>8. Watched'
  <2> SUFFICES ASSUME ~threaded PROVE Watched'
    BY DEF Watched
  <2>1. Range(fds) \subseteq Range(mFds)
    BY <1>1 DEF IInv, Local
  <2>2. ASSUME NEW fd \in Range(mFds') \ failed'
        PROVE  fd \in inEpoll'
    <3>1. fd \in open
      BY <1>1, <2>2 DEF IInv, Opened, Registered
    <3>2. fd \in inEpoll \/ fd \in Range(fds)
      BY <1>1, <2>2 DEF IInv, Watched
    <3> QED BY <1>1, <3>1, <3>2 DEF new
  <2>3. ASSUME NEW fd \in inEpoll' \ failed'
        PROVE  fd \in Registered' \/ fd \in Range(mRemovedFds')
    <3>1. CASE fd \in inEpoll
      BY <1>1, <1>4, <2>3, <3>1 DEF IInv, Watched
    <3>2. CASE fd \in new
      BY <1>4, <2>1, <3>2 DEF new, Registered
    <3> QED BY <1>1, <2>3, <3>1, <3>2
  <2> QED BY <1>1, <2>2, <2>3 DEF Watched
<1>9. Wanted'
  <2> SUFFICES ASSUME ~threaded, NEW q \in Registered \ (failed \cup readded)
               PROVE  \/ LastUpdate(mUpdateFds, q, requested[q])
                      \/ /\ Untouched(mUpdateFds, q)
                         /\ IF q \in inEpoll' THEN mask'[q] = requested[q] ELSE requested[q] = {"in"}
    BY <1>1, <1>4 DEF Wanted
  <2>1. \/ LastUpdate(mUpdateFds, q, requested[q])
        \/ /\ Untouched(mUpdateFds, q)
           /\ IF q \in inEpoll THEN mask[q] = requested[q] ELSE requested[q] = {"in"}
    BY DEF IInv, Wanted
  <2>2. q \in Fds
    BY <1>4
  <2>3. CASE q \in new
    <3>1. q \notin inEpoll /\ q \in inEpoll' /\ mask'[q] = {"in"}
      BY <1>1, <2>2, <2>3 DEF new
    <3> QED BY <2>1, <3>1
  <2>4. CASE q \notin new
    <3>1. mask'[q] = mask[q] /\ (q \in inEpoll' <=> q \in inEpoll)
      BY <1>1, <2>2, <2>4
    <3> QED BY <2>1, <3>1
  <2> QED BY <2>3, <2>4
<1> QED BY <1>5, <1>6, <1>7, <1>8, <1>9 DEF IInv

LEMMA UpdateInv == ASSUME IInv, threaded' = threaded, Update PROVE IInv'
<1> DEFINE at(fd) == SelectLastInSeq(mUpdateFds, LAMBDA update : update[1] = fd)
<1>1. /\ phase = "update"
      /\ mask' = [fd \in Fds |-> IF fd \in inEpoll /\ at(fd) # 0 THEN mUpdateFds[at(fd)][2] ELSE mask[fd]]
      /\ fds' = mRemovedFds /\ mRemovedFds' = <<>> /\ mUpdateFds' = <<>>
      /\ phase' = "close"
      /\ UNCHANGED <<mFds, mPendingFds, open, inEpoll, batch, cur, wake,
                     requested, held, failed, readded, calls>>
  BY DEF Update, histVars
<1>2. Typed /\ TypeOK /\ Distinct
  BY DEF IInv, Typed
<1>3. mUpdateFds \in Updates
  BY <1>2 DEF TypeOK, Updates
<1>4. \A fd \in Fds :
         /\ at(fd) # 0 => at(fd) \in 1..Len(mUpdateFds) /\ mUpdateFds[at(fd)] \in Fds \X Flags
         /\ Untouched(mUpdateFds, fd) => at(fd) = 0
         /\ \A flags : LastUpdate(mUpdateFds, fd, flags) => at(fd) # 0 /\ mUpdateFds[at(fd)][2] = flags
  BY <1>3, LastSelected
<1> HIDE DEF at
<1>5. mask' \in [Fds -> Flags]
  <2>1. \A fd \in Fds : at(fd) # 0 => mUpdateFds[at(fd)][2] \in Flags
    BY <1>4
  <2>2. \A fd \in Fds : mask[fd] \in Flags
    BY <1>2 DEF TypeOK
  <2> QED BY <1>1, <2>1, <2>2
<1>6. Registered' = Registered /\ Registered \subseteq Fds
  BY <1>1, <1>2 DEF Registered, Distinct, TypeOK
<1>7. mRemovedFds' \in Seq(Fds) /\ Range(mRemovedFds') = {} /\ Once(mRemovedFds')
      /\ mUpdateFds' \in Seq(Fds \X Flags)
  BY <1>1, NoElements
<1>8. Typed'
  BY <1>1, <1>2, <1>5, <1>7 DEF Typed, TypeOK, Phases
<1>9. Distinct'
  BY <1>1, <1>2, <1>6, <1>7 DEF Distinct
<1>10. Opened'
  BY <1>1, <1>6 DEF IInv, Opened
<1>11. Flushed'
  BY <1>1 DEF IInv, Flushed
<1>12. Local'
  <2>1. Range(fds') \cap held' = {}
    BY <1>1, <1>2 DEF Distinct
  <2> QED BY <1>1, <2>1 DEF Local
<1>13. Watched'
  BY <1>1, <1>6 DEF IInv, Watched
<1>14. Wanted'
  <2> SUFFICES ASSUME ~threaded, NEW q \in Registered \ (failed \cup readded)
               PROVE  /\ Untouched(mUpdateFds', q)
                      /\ IF q \in inEpoll THEN mask'[q] = requested[q] ELSE requested[q] = {"in"}
    BY <1>1, <1>6 DEF Wanted
  <2>1. \/ LastUpdate(mUpdateFds, q, requested[q])
        \/ /\ Untouched(mUpdateFds, q)
           /\ IF q \in inEpoll THEN mask[q] = requested[q] ELSE requested[q] = {"in"}
    BY DEF IInv, Wanted
  <2>2. Untouched(mUpdateFds', q)
    BY <1>1 DEF Untouched
  <2>3. q \in inEpoll
    <3>1. mPendingFds = <<>>
      BY <1>1 DEF IInv, Flushed
    <3>2. q \in Range(mFds)
      BY <3>1, NoElements DEF Registered
    <3> QED BY <1>1, <3>2 DEF IInv, Watched
  <2>4. mask'[q] = IF at(q) # 0 THEN mUpdateFds[at(q)][2] ELSE mask[q]
    BY <1>1, <1>6, <2>3
  <2> QED BY <1>4, <1>6, <2>1, <2>2, <2>3, <2>4
<1> QED BY <1>8, <1>9, <1>10, <1>11, <1>12, <1>13, <1>14 DEF IInv

LEMMA CloseRemovedInv == ASSUME IInv, threaded' = threaded, CloseRemoved PROVE IInv'
<1>1. /\ phase = "close"
      /\ inEpoll' = inEpoll \ Range(fds) /\ open' = open \ Range(fds)
      /\ fds' = <<>> /\ phase' = "wait"
      /\ UNCHANGED <<mFds, mPendingFds, mUpdateFds, mRemovedFds, mask, batch, cur, wake,
                     requested, held, failed, readded, calls>>
  BY DEF CloseRemoved, listVars, histVars
<1>2. Registered' = Registered /\ Registered \subseteq held
  BY <1>1 DEF Registered, IInv, Distinct
<1>3. ~threaded => Range(fds) \cap held = {}
  BY <1>1 DEF IInv, Local
<1>4. Typed'
  BY <1>1 DEF IInv, Typed, TypeOK, Phases
<1>5. Distinct'
  BY <1>1, <1>2 DEF IInv, Distinct
<1>6. Flushed' /\ Local'
  BY <1>1 DEF IInv, Flushed, Local
<1>7. Opened'
  BY <1>1, <1>2, <1>3 DEF IInv, Opened
<1>8. Watched'
  BY <1>1, <1>2, <1>3 DEF IInv, Watched, Registered
<1>9. Wanted'
  <2>1. \A q \in Registered : ~threaded => (q \in inEpoll' <=> q \in inEpoll)
    BY <1>1, <1>2, <1>3
  <2> QED BY <1>1, <1>2, <2>1 DEF IInv, Wanted
<1> QED BY <1>4, <1>5, <1>6, <1>7, <1>8, <1>9 DEF IInv

-----------------------------------------------------------------------------
(* From epoll_wait on *)

LEMMA WaitInv == ASSUME IInv, threaded' = threaded, Wait PROVE IInv'
<1> DEFINE ready == (UNION {Reports(fd) : fd \in inEpoll}) \cup (IF wake THEN {WakeEvent} ELSE {})
           pairs == {b \in ready \X ready : b[1].fd # b[2].fd}
<1>1. /\ phase = "wait" /\ phase' = "dispatch"
      /\ batch' \in {<<>>} \cup {<<r>> : r \in ready} \cup pairs
      /\ UNCHANGED <<mFds, mPendingFds, mUpdateFds, mRemovedFds, fds, open, inEpoll, mask, cur, wake,
                     requested, held, failed, readded, calls>>
  BY DEF Wait, listVars, kernelVars, histVars
<1>2. Typed /\ TypeOK
  BY DEF IInv, Typed
<1>3. \A fd \in inEpoll : Reports(fd) \subseteq Reported
  <2> SUFFICES ASSUME NEW fd \in inEpoll, NEW r \in Reports(fd) PROVE r \in Reported
    OBVIOUS
  <2>1. fd \in Fds /\ mask[fd] \in Flags
    BY <1>2 DEF TypeOK
  <2>2. mask[fd] \subseteq {"in", "out"}
    BY <2>1 DEF Flags
  <2>3. PICK ev : r = [fd |-> fd, ev |-> ev] /\ (ev \subseteq {"in", "out"} \/ ev = {"err"})
    BY <2>2 DEF Reports
  <2>4. ev \in SUBSET {"in", "out", "err"}
    BY <2>3
  <2> QED BY <2>1, <2>3, <2>4 DEF Reported
<1>4. WakeEvent \in Reported
  <2>1. {"in"} \in SUBSET {"in", "out", "err"} /\ "err" \notin {"in"}
    OBVIOUS
  <2> QED BY <2>1 DEF WakeEvent, Reported
<1>5. ready \subseteq Reported
  <2> SUFFICES ASSUME NEW r \in ready PROVE r \in Reported
    OBVIOUS
  <2>1. r \in UNION {Reports(fd) : fd \in inEpoll} \/ r \in (IF wake THEN {WakeEvent} ELSE {})
    OBVIOUS
  <2> HIDE DEF ready
  <2>2. CASE r \in UNION {Reports(fd) : fd \in inEpoll}
    BY <1>3, <2>2
  <2>3. CASE r \in (IF wake THEN {WakeEvent} ELSE {})
    <3>1. r = WakeEvent
      BY <2>3
    <3> QED BY <1>4, <3>1
  <2> QED BY <2>1, <2>2, <2>3
<1> HIDE DEF ready
<1>6. batch' \in Seq(Reported)
  <2>1. CASE batch' = <<>>
    BY <2>1
  <2>2. CASE \E r \in ready : batch' = <<r>>
    BY <1>5, <2>2
  <2>3. CASE batch' \in pairs
    <3>1. PICK r \in ready, q \in ready : batch' = <<r, q>>
      BY <2>3
    <3>2. r \in Reported /\ q \in Reported
      BY <1>5
    <3> QED BY <3>1, <3>2
  <2> QED BY <1>1, <2>1, <2>2, <2>3
<1>7. Typed'
  BY <1>1, <1>2, <1>6 DEF Typed, TypeOK, Phases
<1>8. phase \notin {"add", "close"} /\ phase' \in {"work", "dispatch", "callback"}
  BY <1>1
<1> QED BY <1>1, <1>7, <1>8, Quiet DEF IInv

LEMMA EndBatchInv == ASSUME IInv, threaded' = threaded, EndBatch PROVE IInv'
<1>1. /\ phase = "dispatch" /\ phase' = "work"
      /\ UNCHANGED <<mFds, mPendingFds, mUpdateFds, mRemovedFds, fds, open, inEpoll, mask, batch, cur, wake,
                     requested, held, failed, readded, calls>>
  BY DEF EndBatch, listVars, kernelVars, histVars
<1>2. Typed'
  BY <1>1 DEF IInv, Typed, TypeOK, Phases
<1>3. phase \notin {"add", "close"} /\ phase' \in {"work", "dispatch", "callback"}
  BY <1>1
<1> QED BY <1>1, <1>2, <1>3, Quiet DEF IInv

LEMMA DispatchWakeInv == ASSUME IInv, threaded' = threaded, DispatchWake PROVE IInv'
<1>1. /\ phase = "dispatch" /\ phase' = phase /\ batch' = <<>> /\ wake' = FALSE
      /\ UNCHANGED <<mFds, mPendingFds, mUpdateFds, mRemovedFds, fds, open, inEpoll, mask, cur,
                     requested, held, failed, readded, calls>>
  BY DEF DispatchWake, listVars, kernelVars, histVars
<1>2. Typed'
  <2>1. batch' \in Seq(Reported)
    BY <1>1
  <2>2. wake' \in BOOLEAN
    BY <1>1
  <2> QED BY <1>1, <2>1, <2>2 DEF IInv, Typed, TypeOK
<1>3. phase \notin {"add", "close"} /\ phase' \in {"work", "dispatch", "callback"}
  BY <1>1
<1> QED BY <1>1, <1>2, <1>3, Quiet DEF IInv

LEMMA DispatchInv ==
    ASSUME IInv, threaded' = threaded, NEW kind \in {"read", "write"}, NEW event, Dispatch(kind, event)
    PROVE  IInv'
<1> DEFINE report == Head(batch)
<1>1. /\ phase = "dispatch" /\ batch # <<>>
      /\ batch' = IF report.ev = {event} THEN Tail(batch) ELSE [batch EXCEPT ![1].ev = @ \ {event}]
      /\ IF report.fd \in Range(mFds)
         THEN phase' = "callback" /\ cur' = [fd |-> report.fd, owner |-> report.fd, kind |-> kind]
         ELSE phase' = phase /\ cur' = cur
      /\ UNCHANGED <<mFds, mPendingFds, mUpdateFds, mRemovedFds, fds, open, inEpoll, mask, wake,
                     requested, held, failed, readded, calls>>
  BY DEF Dispatch, listVars, kernelVars, histVars
<1>2. Typed /\ TypeOK /\ batch \in Seq(Reported)
  BY DEF IInv, Typed
<1>3. report \in Reported /\ report = batch[1] /\ Tail(batch) \in Seq(Reported) /\ 1 \in 1..Len(batch)
  BY <1>1, <1>2
<1>4. batch' \in Seq(Reported)
  <2>1. [batch EXCEPT ![1].ev = @ \ {event}] \in Seq(Reported)
    <3> DEFINE r == [batch[1] EXCEPT !.ev = @ \ {event}]
    <3>1. r \in Reported
      <4>1. /\ batch[1] \in [fd : Fds \cup {WakeFd}, ev : SUBSET {"in", "out", "err"}]
            /\ "err" \in batch[1].ev => batch[1].fd \in Fds
        BY <1>3 DEF Reported
      <4>2. r = [fd |-> batch[1].fd, ev |-> batch[1].ev \ {event}]
        BY <4>1
      <4> QED BY <4>1, <4>2 DEF Reported
    <3>2. [batch EXCEPT ![1].ev = @ \ {event}] = [batch EXCEPT ![1] = r]
      OBVIOUS
    <3> HIDE DEF r
    <3>3. [batch EXCEPT ![1] = r] \in Seq(Reported)
      BY <1>2, <1>3, <3>1
    <3> QED BY <3>2, <3>3
  <2> QED BY <1>1, <1>3, <2>1
<1>5. cur' \in [fd : Fds \cup {WakeFd}, owner : Fds \cup {WakeFd}, kind : {"none", "read", "write", "error"}]
  <2>1. Range(mFds) \subseteq Fds
    BY <1>2 DEF TypeOK, IInv, Distinct, Registered
  <2>2. CASE report.fd \in Range(mFds)
    BY <1>1, <2>1, <2>2
  <2>3. CASE report.fd \notin Range(mFds)
    BY <1>1, <1>2, <2>3 DEF TypeOK
  <2> QED BY <2>2, <2>3
<1>6. phase \notin {"add", "close"} /\ phase' \in {"work", "dispatch", "callback"}
  BY <1>1
<1>7. Typed'
  <2>1. cur'.kind = "error" => cur'.fd \in Fds
    <3>1. CASE report.fd \in Range(mFds)
      <4>1. cur'.kind = kind
        BY <1>1, <3>1
      <4> QED BY <4>1
    <3>2. CASE report.fd \notin Range(mFds)
      BY <1>1, <1>2, <3>2 DEF Typed
    <3> QED BY <3>1, <3>2
  <2> QED BY <1>1, <1>2, <1>4, <1>5, <1>6, <2>1 DEF Typed, TypeOK, Phases
<1> QED BY <1>1, <1>6, <1>7, Quiet DEF IInv

\* A descriptor that is out of epoll and has no callback any more, or whose number
\* has been closed, is nobody's.
LEMMA Failing ==
    ASSUME IInv, threaded' = threaded, NEW fd \in Fds, phase \in {"dispatch", "callback"},
           phase' \in {"dispatch", "callback", "crashed"},
           UNCHANGED <<mPendingFds, mUpdateFds, mRemovedFds, fds, mask, requested, held, readded>>,
           inEpoll' = inEpoll \ {fd}, mFds' \in Seq(Fds), Once(mFds'),
           \/ Range(mFds') = Range(mFds) \ {fd} /\ fd \in Range(mFds) /\ open' = open /\ failed' = failed
           \/ Range(mFds') = Range(mFds) /\ open' = open \ {fd} /\ failed' = failed \cup {fd}
    PROVE  Distinct' /\ Flushed' /\ Local' /\ Opened' /\ Watched' /\ Wanted'
<1>1. Registered' \subseteq Registered
  BY DEF Registered
<1>2. fd \in Registered' => fd \in failed'
  BY DEF Registered, IInv, Distinct
<1>3. \A q : q # fd => /\ q \in Range(mFds') <=> q \in Range(mFds)
                       /\ q \in Registered' <=> q \in Registered
                       /\ q \in inEpoll' <=> q \in inEpoll
                       /\ q \in open' <=> q \in open
                       /\ q \in failed' <=> q \in failed
  BY DEF Registered
<1>4. Distinct'
  <2>1. Range(mFds') \cap Range(mPendingFds') = {}
    BY DEF IInv, Distinct
  <2> QED BY <1>1, <2>1 DEF IInv, Distinct
<1>5. Flushed'
  BY DEF Flushed
<1>6. Local'
  BY DEF IInv, Local
<1>7. Opened'
  BY <1>2, <1>3 DEF IInv, Opened
<1>8. Watched'
  BY <1>2, <1>3 DEF IInv, Watched, Registered
<1>9. Wanted'
  <2> SUFFICES ASSUME ~threaded, NEW q \in Registered' \ (failed' \cup readded)
               PROVE  \/ LastUpdate(mUpdateFds, q, requested[q])
                      \/ /\ Untouched(mUpdateFds, q)
                         /\ IF q \in inEpoll' THEN mask[q] = requested[q] ELSE requested[q] = {"in"}
    BY DEF Wanted
  <2>1. q # fd
    BY <1>2
  <2> QED BY <1>3, <2>1 DEF IInv, Wanted
<1> QED BY <1>4, <1>5, <1>6, <1>7, <1>8, <1>9

\* Where an error goes: to the entry that has taken the place of the erased one.
LEMMA NextEntry ==
    ASSUME IInv, NEW fd \in Range(mFds), NEW owner \in ErrorOwners(fd)
    PROVE  owner \in Fds \cup {WakeFd}
<1> DEFINE at == SelectInSeq(mFds, LAMBDA entry : entry = fd)
           I == {i \in 1..Len(mFds) : mFds[i] = fd}
<1>1. mFds \in Seq(Fds) /\ Len(mFds) \in Nat
  BY DEF IInv, Typed, TypeOK
<1>2. I # {} /\ I \in SUBSET Nat
  BY <1>1, Somewhere
<1>3. Min(I) \in I
  BY <1>2, Least
<1>4. at = Min(I)
  BY <1>2 DEF SelectInSeq
<1>5. at \in 1..Len(mFds) /\ mFds[at] = fd
  BY <1>3, <1>4
<1>6. owner \in IF at = Len(mFds) THEN {fd, WakeFd} ELSE {mFds[at + 1]}
  BY DEF ErrorOwners
<1> HIDE DEF at, I
<1>7. CASE at = Len(mFds)
  <2>1. fd \in Fds
    BY <1>1, <1>5
  <2> QED BY <1>6, <1>7, <2>1
<1>8. CASE at # Len(mFds)
  <2>1. at + 1 \in 1..Len(mFds)
    BY <1>1, <1>5, <1>8
  <2>2. mFds[at + 1] \in Fds
    BY <1>1, <2>1
  <2> QED BY <1>6, <1>8, <2>2
<1> QED BY <1>7, <1>8

LEMMA DispatchErrorInv == ASSUME IInv, threaded' = threaded, DispatchError PROVE IInv'
<1> DEFINE fd == Head(batch).fd
<1>1. /\ phase = "dispatch" /\ batch # <<>> /\ Head(batch).ev = {"err"}
      /\ inEpoll' = inEpoll \ {fd} /\ mFds' = RemoveFirst(mFds, fd)
      /\ UNCHANGED <<mPendingFds, mUpdateFds, mRemovedFds, fds, mask, wake, requested, held, readded, calls>>
      /\ \/ /\ fd \notin Range(mFds)
            /\ open' = open \ {fd} /\ batch' = <<>> /\ failed' = failed \cup {fd}
            /\ phase' = phase /\ cur' = cur
         \/ /\ fd \in Range(mFds)
            /\ \E owner \in ErrorOwners(fd) : cur' = [fd |-> fd, owner |-> owner, kind |-> "error"]
            /\ phase' = IF cur'.owner = WakeFd THEN "crashed" ELSE "callback"
            /\ open' = open /\ batch' = batch /\ failed' = failed
  BY DEF DispatchError
<1>2. Typed /\ TypeOK /\ Distinct /\ batch \in Seq(Reported)
  BY DEF IInv, Typed
<1>3. fd \in Fds
  <2>1. Head(batch) \in Reported
    BY <1>1, <1>2
  <2>2. "err" \in Head(batch).ev
    BY <1>1
  <2> QED BY <2>1, <2>2 DEF Reported
<1>4. mFds' \in Seq(Fds) /\ Range(mFds') = Range(mFds) \ {fd} /\ Once(mFds')
  BY <1>1, <1>2, Removed DEF TypeOK, Distinct
<1> HIDE DEF fd
<1>5. CASE fd \notin Range(mFds)
  <2>1. /\ open' = open \ {fd} /\ batch' = <<>> /\ failed' = failed \cup {fd}
        /\ phase' = phase /\ cur' = cur
    BY <1>1, <1>5
  <2>2. Typed'
    BY <1>1, <1>2, <1>3, <1>4, <2>1 DEF Typed, TypeOK
  <2>3. Range(mFds') = Range(mFds)
    BY <1>4, <1>5
  <2>4. phase \in {"dispatch", "callback"} /\ phase' \in {"dispatch", "callback", "crashed"}
    BY <1>1, <2>1
  <2> QED BY <1>1, <1>3, <1>4, <2>1, <2>2, <2>3, <2>4, Failing DEF IInv
<1>6. CASE fd \in Range(mFds)
  <2>1. /\ open' = open /\ batch' = batch /\ failed' = failed
        /\ phase' \in {"crashed", "callback"}
    BY <1>1, <1>6
  <2>2. PICK owner \in ErrorOwners(fd) : cur' = [fd |-> fd, owner |-> owner, kind |-> "error"]
    BY <1>1, <1>6
  <2>3. owner \in Fds \cup {WakeFd}
    BY <1>6, NextEntry
  <2>4. Typed'
    BY <1>1, <1>2, <1>3, <1>4, <2>1, <2>2, <2>3 DEF Typed, TypeOK, Phases
  <2>5. phase \in {"dispatch", "callback"} /\ phase' \in {"dispatch", "callback", "crashed"}
    BY <1>1, <2>1
  <2> QED BY <1>1, <1>3, <1>4, <1>6, <2>1, <2>4, <2>5, Failing DEF IInv
<1> QED BY <1>5, <1>6

LEMMA EndCallbackInv == ASSUME IInv, threaded' = threaded, EndCallback PROVE IInv'
<1>1. /\ phase = "callback" /\ phase' = "dispatch" /\ cur' = NoCallback
      /\ UNCHANGED <<mFds, mPendingFds, mUpdateFds, mRemovedFds, fds, mask, wake, requested, held, readded, calls>>
  BY DEF EndCallback, listVars
<1>2. Typed /\ TypeOK /\ Distinct
  BY DEF IInv, Typed
<1>3. CASE cur.kind = "error"
  <2>1. open' = open \ {cur.fd} /\ inEpoll' = inEpoll \ {cur.fd} /\ batch' = <<>> /\ failed' = failed \cup {cur.fd}
    BY <1>3 DEF EndCallback
  <2>2. cur.fd \in Fds
    BY <1>2, <1>3 DEF Typed
  <2>3. Typed'
    BY <1>1, <1>2, <2>1, <2>2 DEF Typed, TypeOK, Phases, NoCallback
  <2>4. phase \in {"dispatch", "callback"} /\ phase' \in {"dispatch", "callback", "crashed"}
    BY <1>1
  <2>5. mFds' \in Seq(Fds) /\ Once(mFds') /\ Range(mFds') = Range(mFds)
    BY <1>1, <1>2 DEF Distinct, TypeOK
  <2> DEFINE fd == cur.fd
  <2>6. /\ fd \in Fds /\ inEpoll' = inEpoll \ {fd}
        /\ open' = open \ {fd} /\ failed' = failed \cup {fd}
    BY <2>1, <2>2
  <2> HIDE DEF fd
  <2> QED BY <1>1, <2>3, <2>4, <2>5, <2>6, Failing DEF IInv
<1>4. CASE cur.kind # "error"
  <2>1. UNCHANGED <<open, inEpoll, batch, failed>>
    BY <1>4 DEF EndCallback
  <2>2. Typed'
    BY <1>1, <1>2, <2>1 DEF Typed, TypeOK, Phases, NoCallback
  <2>3. phase \notin {"add", "close"} /\ phase' \in {"work", "dispatch", "callback"}
    BY <1>1
  <2> QED BY <1>1, <2>1, <2>2, <2>3, Quiet DEF IInv
<1> QED BY <1>3, <1>4

-----------------------------------------------------------------------------
(* The theorems *)

LEMMA InitInv == ASSUME Init PROVE IInv
<1>1. /\ mFds = <<>> /\ mPendingFds = <<>> /\ mUpdateFds = <<>> /\ mRemovedFds = <<>>
      /\ fds = <<>> /\ batch = <<>> /\ cur = NoCallback /\ phase = "work"
      /\ open = {} /\ inEpoll = {} /\ mask = [fd \in Fds |-> {"in"}] /\ requested = mask
      /\ wake = FALSE /\ calls = 0 /\ threaded \in BOOLEAN
      /\ held = {} /\ failed = {} /\ readded = {}
  BY DEF Init
<1>2. {"in"} \in Flags /\ 0 \in 0..MaxCalls
  BY FdsAssumption DEF Flags
<1>3. Registered = {} /\ Range(mRemovedFds) = {} /\ Range(mFds) = {} /\ Range(mPendingFds) = {}
  BY <1>1, NoElements DEF Registered
<1>4. TypeOK
  <2>1. /\ mFds \in Seq(Fds) /\ mPendingFds \in Seq(Fds) /\ mRemovedFds \in Seq(Fds) /\ fds \in Seq(Fds)
        /\ mUpdateFds \in Seq(Fds \X Flags)
    BY <1>1
  <2>2. mask \in [Fds -> Flags] /\ requested \in [Fds -> Flags]
    BY <1>1, <1>2
  <2>3. cur \in [fd : Fds \cup {WakeFd}, owner : Fds \cup {WakeFd}, kind : {"none", "read", "write", "error"}]
    BY <1>1 DEF NoCallback
  <2>4. wake \in BOOLEAN /\ threaded \in BOOLEAN /\ calls \in 0..MaxCalls
    BY <1>1, <1>2
  <2> QED BY <1>1, <2>1, <2>2, <2>3, <2>4 DEF TypeOK, Phases
<1>5. Typed
  BY <1>1, <1>4 DEF Typed, NoCallback
<1>6. Distinct
  BY <1>1, <1>3, NoElements DEF Distinct
<1>7. Flushed /\ Local /\ Opened /\ Watched /\ Wanted
  BY <1>1, <1>3 DEF Flushed, Local, Opened, Watched, Wanted
<1> QED BY <1>5, <1>6, <1>7 DEF IInv

LEMMA StutterInv == ASSUME IInv, UNCHANGED vars PROVE IInv'
<1>1. UNCHANGED <<mFds, mPendingFds, mUpdateFds, mRemovedFds, fds, phase, open, inEpoll, mask, batch, cur,
                  wake, threaded, requested, held, failed, readded, calls>>
  BY DEF vars
<1>2. Typed'
  BY <1>1 DEF IInv, Typed, TypeOK
<1> QED BY <1>1, <1>2, Quiet DEF IInv

LEMMA NextInv == ASSUME IInv, [Next]_vars PROVE IInv'
<1>1. CASE UNCHANGED vars
  BY <1>1, StutterInv
<1>2. CASE Next
  <2>1. threaded' = threaded
    BY <1>2 DEF Next
  <2>2. CASE \E foreign \in BOOLEAN, fd \in Fds :
                \/ RemoveFd(foreign, fd)
                \/ \E flags \in Flags : AddFd(foreign, fd, flags) \/ UpdateFd(foreign, fd, flags)
    BY <2>1, <2>2, RemoveFdInv, AddFdInv, UpdateFdInv
  <2>3. CASE \E fd \in Fds : OpenFd(fd)
    BY <2>1, <2>3, OpenFdInv
  <2>4. CASE Post
    BY <2>1, <2>4, PostInv
  <2>5. CASE LoopStep
    <3>1. CASE Merge
      BY <2>1, <3>1, MergeInv
    <3>2. CASE AddToEpoll
      BY <2>1, <3>2, AddToEpollInv
    <3>3. CASE Update
      BY <2>1, <3>3, UpdateInv
    <3>4. CASE CloseRemoved
      BY <2>1, <3>4, CloseRemovedInv
    <3>5. CASE Wait
      BY <2>1, <3>5, WaitInv
    <3>6. CASE EndBatch
      BY <2>1, <3>6, EndBatchInv
    <3>7. CASE DispatchWake
      BY <2>1, <3>7, DispatchWakeInv
    <3>8. CASE Dispatch("read", "in")
      BY <2>1, <3>8, DispatchInv
    <3>9. CASE Dispatch("write", "out")
      BY <2>1, <3>9, DispatchInv
    <3>10. CASE DispatchError
      BY <2>1, <3>10, DispatchErrorInv
    <3>11. CASE EndCallback
      BY <2>1, <3>11, EndCallbackInv
    <3> QED BY <2>5, <3>1, <3>2, <3>3, <3>4, <3>5, <3>6, <3>7, <3>8, <3>9, <3>10, <3>11 DEF LoopStep
  <2> QED BY <1>2, <2>2, <2>3, <2>4, <2>5 DEF Next
<1> QED BY <1>1, <1>2

\* Whatever is called, by whichever thread and in whatever order, a descriptor is in
\* one of the loop's lists at most; and while only the loop's thread calls, the lists,
\* epoll and the open descriptors stay related in every phase of execute().
THEOREM Invariance == Spec => []IInv
<1> QED BY InitInv, NextInv, PTL DEF Spec

\* For any number of descriptors and calls: epoll watches what is registered, for the
\* events last asked for, when the loop goes to sleep, and what is registered is open,
\* but for what the loop has closed itself and for the calls of other threads.
THEOREM DescriptorsIntact == Spec => []Intact
<1>1. ASSUME IInv PROVE Intact
  <2>1. TypeOK /\ RegisteredIsOpen
    BY <1>1 DEF IInv, Typed, Opened, RegisteredIsOpen
  <2>2. InterestMatches
    <3>1. SUFFICES ASSUME phase = "wait", ~threaded
                   PROVE  /\ inEpoll \ failed = Range(mFds) \ failed
                          /\ \A fd \in Range(mFds) \ failed : fd \in readded \/ mask[fd] = requested[fd]
      BY DEF InterestMatches
    <3>2. mPendingFds = <<>> /\ mUpdateFds = <<>> /\ mRemovedFds = <<>>
      BY <1>1, <3>1 DEF IInv, Flushed
    <3>3. Registered = Range(mFds) /\ Range(mRemovedFds) = {}
      BY <3>2, NoElements DEF Registered
    <3>4. inEpoll \ failed = Range(mFds) \ failed
      BY <1>1, <3>1, <3>3 DEF IInv, Watched
    <3>5. ASSUME NEW fd \in Range(mFds) \ failed, fd \notin readded
          PROVE  mask[fd] = requested[fd]
      <4>1. ~LastUpdate(mUpdateFds, fd, requested[fd])
        BY <3>2 DEF LastUpdate
      <4>2. fd \in inEpoll
        BY <3>4, <3>5
      <4> QED BY <1>1, <3>1, <3>3, <3>5, <4>1, <4>2 DEF IInv, Wanted
    <3> QED BY <3>4, <3>5
  <2> QED BY <2>1, <2>2 DEF Intact
<1> QED BY <1>1, Invariance, PTL

\* A call between the two locked sections of a round is taken up in the next one, for
\* which it leaves a wakeup behind.
THEOREM NothingLeftBehind == Spec => []ListsFlushed
<1>1. ASSUME IInv PROVE ListsFlushed
  BY <1>1 DEF IInv, Flushed, ListsFlushed
<1> QED BY <1>1, Invariance, PTL

=============================================================================
