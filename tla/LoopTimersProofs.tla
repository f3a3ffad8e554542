-------------------------- MODULE LoopTimersProofs --------------------------
(***************************************************************************)
(* Proofs about LoopTimers for any timers, threads, timeouts, clock        *)
(* resolution and width of int.                                            *)
(*                                                                         *)
(* The list is sorted because an entry's mNext changes only where the      *)
(* whole list is sorted again; what a timer is due at is a timeout after   *)
(* it was armed (Armed); and the sleep is short enough for every timer of  *)
(* the list, not for its first alone (Sleeping), so that stop() of the     *)
(* first needs no wakeup.                                                  *)
(***************************************************************************)
EXTENDS LoopTimers, FiniteSetTheorems, SequenceTheorems, TLAPS

-----------------------------------------------------------------------------
(* The inductive invariant *)

\* A timer is added by one thread at a time, and only while it is not in the list.
Adding ==
    \A t \in Timers :
        /\ Active(t) => \A th \in Threads : adding[th] # t
        /\ \A th, o \in Threads : adding[th] = t /\ adding[o] = t => th = o

\* What is in the list, or about to be, is due a timeout after it was armed.
Armed ==
    \A t \in Timers :
        /\ armedAt[t] <= now
        /\ ~Untouched(t) => mNext[t] = armedAt[t] + Ticks(mTimeout[t])

\* A single shot in the list has a call of addTimer left.
Credits ==
    \A t \in Timers : credit[t] >= 0 /\ (Active(t) /\ Flag[t] = "Timeout" => credit[t] >= 1)

\* epoll_wait ends by the time that any timer of the list is due, not the first
\* alone: whoever is stopped, the next in the list is served.
Later(a, b) == IF a > b THEN a ELSE b
Sleeping ==
    /\ phase # "sleep" => sleepUntil = Forever
    /\ phase = "sleep" /\ ~wake /\ ExecuteFits =>
          \A t \in Timers :
              Active(t) /\ Fits(t) =>
                  sleepUntil # Forever /\ sleepUntil <= Later(mNext[t], now)

\* executeTimeout is what is left of the timeout, as of startTime.
Executing ==
    /\ hasTimeout <=> entered.timeout # -1
    /\ ~hasTimeout => executeTimeout = IntMax
    /\ entered.at <= now /\ startTime <= Ms(now)
    /\ hasTimeout /\ ExecuteFits /\ phase # "idle" =>
          /\ executeTimeout >= 0
          /\ executeTimeout = entered.timeout - (startTime - Ms(entered.at))

IInv == TypeOK /\ TimersSorted /\ Adding /\ Armed /\ Credits /\ Sleeping /\ Executing

-----------------------------------------------------------------------------
(* Arithmetic *)

\* Ticks is linear.
LEMMA Products ==
    ASSUME NEW m \in Int, NEW n \in Int
    PROVE  /\ Ticks(m) \in Int
           /\ Ticks(m + n) = Ticks(m) + Ticks(n)
           /\ Ticks(m - n) = Ticks(m) - Ticks(n)
           /\ m <= n => Ticks(m) <= Ticks(n)
           /\ m >= 0 => Ticks(m) >= 0
<1>1. TicksPerMs \in Nat /\ TicksPerMs > 0
  BY TimersAssumption
<1>2. Ticks(m) \in Int
  BY <1>1 DEF Ticks
<1>3. Ticks(m + n) = Ticks(m) + Ticks(n)
  BY <1>1 DEF Ticks
<1>4. Ticks(m - n) = Ticks(m) - Ticks(n)
  BY <1>1 DEF Ticks
<1>5. m <= n => Ticks(m) <= Ticks(n)
  BY <1>1 DEF Ticks
<1>6. m >= 0 => Ticks(m) >= 0
  BY <1>1 DEF Ticks
<1> QED BY <1>2, <1>3, <1>4, <1>5, <1>6

\* Ms rounds down.
LEMMA Quotients ==
    ASSUME NEW x \in Nat
    PROVE  Ms(x) \in Nat /\ Ticks(Ms(x)) <= x /\ x < Ticks(Ms(x) + 1)
<1>1. TicksPerMs \in Nat /\ TicksPerMs > 0
  BY TimersAssumption
<1>2. x \div TicksPerMs \in Nat
  BY <1>1
<1>3. (x \div TicksPerMs) * TicksPerMs <= x
  BY <1>1
<1>4. x < (x \div TicksPerMs + 1) * TicksPerMs
  BY <1>1
<1> QED BY <1>2, <1>3, <1>4 DEF Ms, Ticks

LEMMA Monotone ==
    ASSUME NEW x \in Nat, NEW y \in Nat, x <= y
    PROVE  Ms(x) <= Ms(y)
<1>1. Ms(x) \in Nat /\ Ms(y) \in Nat
  BY Quotients
<1>2. Ms(y) + 1 \in Int /\ Ms(x) \in Int
  BY <1>1
<1>3. Ticks(Ms(x)) <= x /\ y < Ticks(Ms(y) + 1)
  BY Quotients
<1>4. Ticks(Ms(x)) \in Int /\ Ticks(Ms(y) + 1) \in Int
  BY <1>2, Products
<1>5. Ms(y) + 1 <= Ms(x) => Ticks(Ms(y) + 1) <= Ticks(Ms(x))
  BY <1>2, Products
<1>6. ~(Ticks(Ms(y) + 1) <= Ticks(Ms(x)))
  BY <1>3, <1>4
<1> QED BY <1>1, <1>5, <1>6

\* What fits an int is converted to itself.
LEMMA Conversion ==
    /\ \A n \in Int : ToInt(n) \in Int
    /\ \A n \in 0..IntMax : ToInt(n) = n
<1>1. IntMax \in Nat
  BY TimersAssumption
<1>2. ASSUME NEW n \in Int PROVE ToInt(n) \in Int
  BY <1>1 DEF ToInt
<1>3. ASSUME NEW n \in 0..IntMax PROVE ToInt(n) = n
  <2>1. (n + IntMax + 1) % (2 * (IntMax + 1)) = n + IntMax + 1
    BY <1>1
  <2> QED BY <1>1, <2>1 DEF ToInt
<1> QED BY <1>2, <1>3

-----------------------------------------------------------------------------
(* Lists *)

\* The first of some positions.
LEMMA First ==
    ASSUME NEW n \in Nat, NEW B \in SUBSET (1..n)
    PROVE  \E k \in 0..n : (\A i \in 1..k : i \notin B) /\ (k < n => k + 1 \in B)
<1>1. CASE B = {}
  <2>1. n \in 0..n
    OBVIOUS
  <2> QED BY <1>1, <2>1
<1>2. CASE B # {}
  <2>1. B \subseteq Nat
    OBVIOUS
  <2>2. PICK m \in B : \A y \in B : ~ (<<y, m>> \in OpToRel(<, Nat))
    BY <1>2, <2>1, NatLessThanWellFounded, WFMin
  <2>3. \A y \in B : ~ (y < m)
    BY <2>1, <2>2 DEF OpToRel
  <2>4. m - 1 \in 0..n
    OBVIOUS
  <2>5. \A i \in 1..(m - 1) : i \notin B
    BY <2>3
  <2> QED BY <2>4, <2>5
<1> QED BY <1>1, <1>2

\* DOMAIN and Len of the list.
LEMMA Places ==
    ASSUME TypeOK
    PROVE  /\ DOMAIN mTimers = 1..Len(mTimers) /\ Len(mTimers) \in Nat
           /\ \A i \in 1..Len(mTimers) : mTimers[i] \in Timers
           /\ \A t \in Timers : Active(t) <=> \E i \in 1..Len(mTimers) : mTimers[i] = t
<1>1. mTimers \in Seq(Timers)
  BY DEF TypeOK
<1>2. DOMAIN mTimers = 1..Len(mTimers) /\ Len(mTimers) \in Nat
  BY <1>1
<1> QED BY <1>1, <1>2 DEF Active, Range

LEMMA LowerBoundExists ==
    ASSUME TypeOK, NEW t \in Timers, NEW next \in [Timers -> Nat]
    PROVE  /\ LowerBound(t, next) \in 0..Len(mTimers)
           /\ \A i \in 1..LowerBound(t, next) : next[mTimers[i]] < next[t]
           /\ LowerBound(t, next) < Len(mTimers) => next[mTimers[LowerBound(t, next) + 1]] >= next[t]
<1> DEFINE B == {i \in 1..Len(mTimers) : ~(next[mTimers[i]] < next[t])}
<1>1. Len(mTimers) \in Nat /\ B \in SUBSET (1..Len(mTimers))
  BY Places
<1>2. PICK k \in 0..Len(mTimers) : (\A i \in 1..k : i \notin B) /\ (k < Len(mTimers) => k + 1 \in B)
  BY <1>1, First
<1>3. \A i \in 1..Len(mTimers) : next[mTimers[i]] \in Nat /\ next[t] \in Nat
  BY Places
<1>4. \A i \in 1..k : i \in 1..Len(mTimers)
  BY <1>1
<1>5. \A i \in 1..k : next[mTimers[i]] < next[t]
  BY <1>2, <1>4
<1>6. k < Len(mTimers) => next[mTimers[k + 1]] >= next[t]
  BY <1>2, <1>3
<1> QED BY <1>2, <1>5, <1>6 DEF LowerBound

\* A timer inserted where lower_bound says leaves the list sorted.
LEMMA Inserted ==
    ASSUME TypeOK, NEW t \in Timers, ~Active(t), NEW next \in [Timers -> Nat],
           Sorted(mTimers, next), IsInjective(mTimers)
    PROVE  LET list == Insert(t, next)
           IN  /\ list \in Seq(Timers) /\ list # <<>>
               /\ Sorted(list, next) /\ IsInjective(list)
               /\ \A s \in Timers : (\E i \in 1..Len(list) : list[i] = s) <=> s = t \/ Active(s)
<1> DEFINE n == LowerBound(t, next)
           L == Len(mTimers)
           left == SubSeq(mTimers, 1, n)
           right == SubSeq(mTimers, n + 1, L)
           list == Insert(t, next)
<1>1. L \in Nat /\ n \in 0..L /\ mTimers \in Seq(Timers)
  BY Places, LowerBoundExists DEF TypeOK
<1>2. /\ left \in Seq(Timers) /\ Len(left) = n /\ \A i \in 1..n : left[i] = mTimers[i]
  BY <1>1, SubSeqProperties
<1>3. /\ right \in Seq(Timers) /\ Len(right) = L - n /\ \A i \in 1..(L - n) : right[i] = mTimers[n + i]
  BY <1>1, SubSeqProperties
<1>4. /\ left \o <<t>> \in Seq(Timers) /\ Len(left \o <<t>>) = n + 1
      /\ \A i \in 1..(n + 1) : (left \o <<t>>)[i] = IF i <= n THEN mTimers[i] ELSE t
  BY <1>1, <1>2
<1>5. list = (left \o <<t>>) \o right
  BY DEF Insert
<1> HIDE DEF list, n, L, left, right
<1>6. /\ list \in Seq(Timers) /\ Len(list) = L + 1
      /\ \A i \in 1..(L + 1) :
            list[i] = IF i <= n THEN mTimers[i] ELSE IF i = n + 1 THEN t ELSE mTimers[i - 1]
  <2>1. PICK first : first = left \o <<t>>
    OBVIOUS
  <2>2. /\ list \in Seq(Timers) /\ Len(list) = (n + 1) + (L - n)
        /\ \A i \in 1..((n + 1) + (L - n)) : list[i] = IF i <= n + 1 THEN first[i] ELSE right[i - (n + 1)]
    BY SMTT(20), <1>3, <1>4, <1>5, <2>1, ConcatProperties
  <2>3. (n + 1) + (L - n) = L + 1
    BY <1>1
  <2>4. ASSUME NEW i \in 1..(L + 1)
        PROVE  list[i] = IF i <= n THEN mTimers[i] ELSE IF i = n + 1 THEN t ELSE mTimers[i - 1]
    <3>1. CASE i <= n + 1
      BY <1>1, <1>4, <2>1, <2>2, <2>3, <3>1
    <3>2. CASE i > n + 1
      <4>1. i - (n + 1) \in 1..(L - n) /\ n + (i - (n + 1)) = i - 1
        BY <1>1, <3>2
      <4>2. list[i] = right[i - (n + 1)]
        BY <1>1, <2>2, <2>3, <3>2
      <4>3. right[i - (n + 1)] = mTimers[n + (i - (n + 1))]
        BY <1>3, <4>1
      <4> QED BY <1>1, <3>2, <4>1, <4>2, <4>3
    <3> QED BY <1>1, <3>1, <3>2
  <2> QED BY <2>2, <2>3, <2>4
<1>7. /\ \A i \in 1..n : next[mTimers[i]] < next[t]
      /\ n < L => next[mTimers[n + 1]] >= next[t]
  BY LowerBoundExists DEF n, L
<1>8. /\ \A i \in 1..L : mTimers[i] \in Timers /\ next[mTimers[i]] \in Nat /\ mTimers[i] # t
      /\ \A i, j \in 1..L : i < j => next[mTimers[i]] <= next[mTimers[j]]
      /\ \A i, j \in 1..L : mTimers[i] = mTimers[j] => i = j
      /\ next[t] \in Nat
  BY Places DEF Sorted, IsInjective, L
<1>9. \A i \in 1..L : i > n => next[t] <= next[mTimers[i]]
  <2>1. ASSUME NEW i \in 1..L, i > n PROVE next[t] <= next[mTimers[i]]
    <3>1. n + 1 \in 1..L /\ (n + 1 < i \/ n + 1 = i)
      BY <1>1, <2>1
    <3> QED BY <1>1, <1>7, <1>8, <2>1, <3>1
  <2> QED BY <2>1
<1>10. DOMAIN list = 1..(L + 1)
  BY <1>6
<1>11. ASSUME NEW i \in 1..(L + 1), NEW j \in 1..(L + 1), i < j
       PROVE  next[list[i]] <= next[list[j]] /\ list[i] # list[j]
  <2>1. CASE j <= n
    <3>1. i \in 1..L /\ j \in 1..L /\ list[i] = mTimers[i] /\ list[j] = mTimers[j]
      BY SMTT(20), <1>1, <1>6, <1>11, <2>1
    <3> QED BY <1>8, <1>11, <3>1
  <2>2. CASE j = n + 1
    <3>1. list[j] = t /\ i \in 1..n /\ i \in 1..L /\ list[i] = mTimers[i]
      BY <1>1, <1>6, <1>11, <2>2
    <3>2. next[mTimers[i]] < next[t] /\ mTimers[i] # t
      BY <1>7, <1>8, <3>1
    <3> QED BY <1>8, <3>1, <3>2
  <2>3. CASE j > n + 1
    <3>1. list[j] = mTimers[j - 1] /\ j - 1 \in 1..L /\ j - 1 > n
      BY SMTT(20), <1>1, <1>6, <2>3
    <3>2. CASE i <= n
      <4>1. i \in 1..L /\ i < j - 1
        BY <1>1, <3>1, <3>2
      <4>2. list[i] = mTimers[i]
        BY <1>6, <3>2
      <4> QED BY <1>8, <3>1, <4>1, <4>2
    <3>3. CASE i = n + 1
      BY <1>1, <1>6, <1>8, <1>9, <3>1, <3>3
    <3>4. CASE i > n + 1
      <4>1. list[i] = mTimers[i - 1] /\ i - 1 \in 1..L /\ i - 1 < j - 1
        BY <1>1, <1>6, <1>11, <3>4
      <4> QED BY <1>8, <3>1, <4>1
    <3> QED BY <1>1, <3>2, <3>3, <3>4
  <2> QED BY <1>1, <2>1, <2>2, <2>3
<1>12. Sorted(list, next)
  BY <1>10, <1>11 DEF Sorted
<1>13. IsInjective(list)
  <2>1. ASSUME NEW i \in 1..(L + 1), NEW j \in 1..(L + 1), list[i] = list[j] PROVE i = j
    <3>1. ~(i < j) /\ ~(j < i)
      BY <1>11, <2>1
    <3> QED BY <1>1, <3>1
  <2> QED BY <1>10, <2>1 DEF IsInjective
<1>14. \A s \in Timers : (\E i \in 1..(L + 1) : list[i] = s) <=> s = t \/ Active(s)
  <2>1. ASSUME NEW i \in 1..(L + 1) PROVE list[i] = t \/ (list[i] \in Timers /\ Active(list[i]))
    <3>1. CASE i <= n
      <4>1. i \in 1..L
        BY <1>1, <3>1
      <4> QED BY <1>6, <1>8, <3>1, <4>1, Places DEF L
    <3>2. CASE i = n + 1
      BY <1>1, <1>6, <3>2
    <3>3. CASE i > n + 1
      <4>1. i - 1 \in 1..L
        BY <1>1, <3>3
      <4>2. list[i] = mTimers[i - 1]
        <5>1. ~(i <= n) /\ i # n + 1
          BY <1>1, <3>3
        <5> QED BY <1>6, <5>1
      <4> QED BY <1>8, <4>1, <4>2, Places DEF L
    <3> QED BY <1>1, <3>1, <3>2, <3>3
  <2>2. n + 1 \in 1..(L + 1) /\ list[n + 1] = t
    BY <1>1, <1>6
  <2>3. ASSUME NEW s \in Timers, Active(s) PROVE \E i \in 1..(L + 1) : list[i] = s
    <3>1. PICK i \in 1..L : mTimers[i] = s
      BY <2>3, Places DEF L
    <3>2. CASE i <= n
      BY <1>1, <1>6, <3>1, <3>2
    <3>3. CASE i > n
      <4>1. i + 1 \in 1..(L + 1) /\ (i + 1) - 1 = i /\ ~(i + 1 <= n) /\ i + 1 # n + 1
        BY <1>1, <3>3
      <4>2. list[i + 1] = s
        BY <1>6, <3>1, <4>1
      <4> QED BY <4>1, <4>2
    <3> QED BY <1>1, <3>2, <3>3
  <2> QED BY <2>1, <2>2, <2>3
<1> QED BY <1>1, <1>6, <1>10, <1>12, <1>13, <1>14 DEF list

\* A list without one of its timers.
LEMMA Removed ==
    ASSUME TypeOK, NEW k \in 1..Len(mTimers), Sorted(mTimers, mNext), IsInjective(mTimers)
    PROVE  LET list == SubSeq(mTimers, 1, k - 1) \o SubSeq(mTimers, k + 1, Len(mTimers))
           IN  /\ list \in Seq(Timers)
               /\ Sorted(list, mNext) /\ IsInjective(list)
               /\ \A i \in 1..Len(list) : Active(list[i]) /\ list[i] # mTimers[k]
<1> DEFINE L == Len(mTimers)
           left == SubSeq(mTimers, 1, k - 1)
           right == SubSeq(mTimers, k + 1, L)
           list == left \o right
<1>1. L \in Nat /\ k \in 1..L /\ mTimers \in Seq(Timers)
  BY Places DEF TypeOK
<1>2. /\ left \in Seq(Timers) /\ Len(left) = k - 1 /\ \A i \in 1..(k - 1) : left[i] = mTimers[i]
  BY <1>1, SubSeqProperties
<1>3. /\ right \in Seq(Timers) /\ Len(right) = L - k /\ \A i \in 1..(L - k) : right[i] = mTimers[k + i]
  BY <1>1, SubSeqProperties
<1> DEFINE From(i) == IF i < k THEN i ELSE i + 1
<1> HIDE DEF L, left, right
<1>4. /\ list \in Seq(Timers) /\ Len(list) = L - 1
      /\ \A i \in 1..(L - 1) : list[i] = mTimers[From(i)]
  <2>1. /\ list \in Seq(Timers) /\ Len(list) = (k - 1) + (L - k)
        /\ \A i \in 1..((k - 1) + (L - k)) : list[i] = IF i <= k - 1 THEN left[i] ELSE right[i - (k - 1)]
    <3>1. /\ left \o right \in Seq(Timers) /\ Len(left \o right) = Len(left) + Len(right)
          /\ \A i \in 1..(Len(left) + Len(right)) :
                (left \o right)[i] = IF i <= Len(left) THEN left[i] ELSE right[i - Len(left)]
      BY <1>2, <1>3, ConcatProperties
    <3>2. Len(left) = k - 1 /\ Len(right) = L - k
      BY <1>2, <1>3
    <3> QED BY <3>1, <3>2
  <2>2. (k - 1) + (L - k) = L - 1
    BY <1>1
  <2>3. ASSUME NEW i \in 1..(L - 1) PROVE list[i] = mTimers[From(i)]
    <3>1. CASE i <= k - 1
      BY <1>1, <1>2, <2>1, <2>2, <3>1
    <3>2. CASE i > k - 1
      <4>1. i - (k - 1) \in 1..(L - k) /\ k + (i - (k - 1)) = i + 1 /\ ~(i < k)
        BY <1>1, <3>2
      <4>2. list[i] = right[i - (k - 1)]
        BY <1>1, <2>1, <2>2, <3>2
      <4>3. right[i - (k - 1)] = mTimers[i + 1]
        BY <1>3, <4>1
      <4> QED BY <4>1, <4>2, <4>3
    <3>3. i <= k - 1 \/ i > k - 1
      BY <1>1
    <3> QED BY <3>1, <3>2, <3>3
  <2> QED BY <2>1, <2>2, <2>3
<1>5. \A i \in 1..(L - 1) : From(i) \in 1..L /\ From(i) # k
  BY <1>1
<1>6. \A i, j \in 1..(L - 1) : (i < j => From(i) < From(j)) /\ (From(i) = From(j) => i = j)
  BY <1>1
<1>7. /\ \A i \in 1..L : mTimers[i] \in Timers /\ Active(mTimers[i])
      /\ \A i, j \in 1..L : i < j => mNext[mTimers[i]] <= mNext[mTimers[j]]
      /\ \A i, j \in 1..L : mTimers[i] = mTimers[j] => i = j
  BY Places DEF Sorted, IsInjective, L
<1>8. DOMAIN list = 1..(L - 1)
  BY <1>4
<1> HIDE DEF list, From
<1>9. Sorted(list, mNext)
  BY <1>4, <1>5, <1>6, <1>7, <1>8 DEF Sorted
<1>10. IsInjective(list)
  BY <1>4, <1>5, <1>6, <1>7, <1>8 DEF IsInjective
<1>11. \A i \in 1..(L - 1) : Active(list[i]) /\ list[i] # mTimers[k]
  BY <1>1, <1>4, <1>5, <1>7
<1> QED BY <1>4, <1>9, <1>10, <1>11 DEF list, left, right, L

\* What is collected, and what is left.
LEMMA Due ==
    ASSUME TypeOK, Sorted(mTimers, mNext)
    PROVE  LET due  == SubSeq(mTimers, 1, DuePrefix)
               rest == SubSeq(mTimers, DuePrefix + 1, Len(mTimers))
           IN  /\ due \in Seq(Timers)
               /\ \A t \in Range(due) : t \in Timers /\ Active(t) /\ IsDue(t)
               /\ \A t \in Range(rest) : t \in Timers /\ Active(t) /\ ~IsDue(t)
<1> DEFINE L == Len(mTimers)
           B == {i \in 1..L : ~IsDue(mTimers[i])}
           due == SubSeq(mTimers, 1, DuePrefix)
           rest == SubSeq(mTimers, DuePrefix + 1, L)
<1>1. L \in Nat /\ mTimers \in Seq(Timers) /\ B \in SUBSET (1..L)
  BY Places DEF TypeOK
<1>2. PICK k \in 0..L : (\A i \in 1..k : i \notin B) /\ (k < L => k + 1 \in B)
  BY <1>1, First
<1>3. /\ \A i \in 1..k : IsDue(mTimers[i])
      /\ k < L => ~IsDue(mTimers[k + 1])
  <2>1. \A i \in 1..k : i \in 1..L
    BY <1>1
  <2> QED BY <1>2, <2>1
<1>4. /\ DuePrefix \in 0..L
      /\ \A i \in 1..DuePrefix : IsDue(mTimers[i])
      /\ DuePrefix < L => ~IsDue(mTimers[DuePrefix + 1])
  BY <1>2, <1>3 DEF DuePrefix
<1>5. PICK n \in 0..L : n = DuePrefix
  BY <1>4
<1>6. /\ due \in Seq(Timers) /\ Len(due) = n /\ \A i \in 1..n : due[i] = mTimers[i]
  BY <1>1, <1>5, SubSeqProperties
<1>7. /\ rest \in Seq(Timers) /\ Len(rest) = L - n /\ \A i \in 1..(L - n) : rest[i] = mTimers[n + i]
  BY <1>1, <1>5, SubSeqProperties
<1>8. \A i \in 1..L : mTimers[i] \in Timers /\ Active(mTimers[i]) /\ mNext[mTimers[i]] \in Nat
  BY Places DEF L, TypeOK
<1> HIDE DEF L, due, rest
<1>9. ASSUME NEW t \in Range(due) PROVE t \in Timers /\ Active(t) /\ IsDue(t)
  <2>1. PICK i \in 1..n : t = mTimers[i]
    BY <1>6, <1>9 DEF Range
  <2>2. i \in 1..L
    BY <1>1, <1>5
  <2> QED BY <1>4, <1>5, <1>8, <2>1, <2>2
<1>10. ASSUME NEW t \in Range(rest) PROVE t \in Timers /\ Active(t) /\ ~IsDue(t)
  <2>1. PICK i \in 1..(L - n) : t = mTimers[n + i]
    BY <1>7, <1>10 DEF Range
  <2>2. n + i \in 1..L /\ n + 1 \in 1..L /\ n < L /\ (n + 1 < n + i \/ n + 1 = n + i)
    BY <1>1, <1>5
  <2>3. mNext[mTimers[n + 1]] <= mNext[t]
    <3>1. \A i1, i2 \in 1..L : i1 < i2 => mNext[mTimers[i1]] <= mNext[mTimers[i2]]
      BY Places DEF Sorted, L
    <3>2. mNext[mTimers[n + 1]] \in Nat
      BY <1>8, <2>2
    <3> QED BY <2>1, <2>2, <3>1, <3>2
  <2>4. ~(mNext[mTimers[n + 1]] <= now)
    BY <1>4, <1>5, <2>2 DEF IsDue
  <2>5. now \in Int
    BY TimersAssumption DEF TypeOK
  <2> QED BY <1>8, <2>1, <2>2, <2>3, <2>4, <2>5 DEF IsDue
<1> QED BY <1>6, <1>9, <1>10 DEF due, rest, L

\* What is sorted again is a list.
LEMMA Resorted ==
    ASSUME TypeOK, NEW set, \A t \in set : t \in Timers /\ Active(t), NEW next,
           NEW list \in Resort(set, next)
    PROVE  /\ list \in Seq(Timers) /\ Sorted(list, next) /\ IsInjective(list)
           /\ \A i \in 1..Len(list) : list[i] \in set
           /\ Range(list) \subseteq set
<1>1. Len(mTimers) \in Nat /\ mTimers \in [1..Len(mTimers) -> Range(mTimers)]
  BY Places DEF Range, TypeOK
<1>2. mTimers \in Surjection(1..Len(mTimers), Range(mTimers))
  BY <1>1 DEF Surjection, Range
<1>3. IsFiniteSet(1..Len(mTimers))
  BY <1>1, FS_Interval
<1>4. IsFiniteSet(Range(mTimers))
  BY <1>2, <1>3, FS_Surjection
<1>5. set \in SUBSET Range(mTimers)
  BY DEF Active
<1>6. Cardinality(set) \in Nat
  BY <1>4, <1>5, FS_Subset, FS_CardinalityType
<1>7. list \in [1..Cardinality(set) -> set] /\ IsInjective(list) /\ Sorted(list, next)
  BY DEF Resort
<1>8. list \in Seq(set)
  BY <1>6, <1>7, IsASeq
<1>9. list \in Seq(Timers)
  BY <1>8, SeqMonotonic
<1>10. Range(list) \subseteq set /\ \A i \in 1..Len(list) : list[i] \in set
  <2>1. DOMAIN list = 1..Len(list)
    BY <1>8
  <2>2. \A i \in 1..Len(list) : list[i] \in set
    BY <1>8
  <2> QED BY <2>1, <2>2 DEF Range
<1> QED BY <1>7, <1>9, <1>10

-----------------------------------------------------------------------------
(* The steps *)

LEMMA Constants ==
    /\ Timeouts \subseteq Nat /\ ExecTimeouts \subseteq Nat \cup {-1}
    /\ IntMax \in Nat /\ MaxTime \in Nat /\ MaxAdds \in Nat
    /\ NoTimer \notin Timers
  BY TimersAssumption

LEMMA Clock == ASSUME TypeOK PROVE now \in Nat /\ Ms(now) \in Nat
<1>1. now \in 0..MaxTime
  BY DEF TypeOK
<1>2. now \in Nat
  BY <1>1, Constants
<1> QED BY <1>2, Quotients

LEMMA Delays ==
    ASSUME TypeOK, NEW t \in Timers
    PROVE  mTimeout[t] \in Nat /\ Ticks(mTimeout[t]) \in Nat /\ (mTimeout[t] # 0 => Ticks(mTimeout[t]) > 0)
<1>1. mTimeout[t] \in Timeouts
  BY DEF TypeOK
<1>2. mTimeout[t] \in Nat
  BY <1>1, Constants
<1>3. PICK m \in Nat : m = mTimeout[t]
  BY <1>2
<1>4. Ticks(m) \in Int /\ Ticks(m) >= 0 /\ (1 <= m => Ticks(1) <= Ticks(m))
  BY Products
<1>5. Ticks(1) \in Int /\ Ticks(1) > 0
  BY TimersAssumption DEF Ticks
<1> QED BY <1>3, <1>4, <1>5

LEMMA InitInv == Init => IInv
<1> SUFFICES ASSUME Init PROVE IInv
  OBVIOUS
<1> USE Constants
<1>1. TypeOK
  <2>1. <<>> \in Seq(Timers)
    OBVIOUS
  <2>2. [t \in Timers |-> 0] \in [Timers -> Nat] /\ [t \in Timers |-> 0] \in [Timers -> Int]
    OBVIOUS
  <2>3. entered \in [at : Nat, timeout : Nat \cup {-1}]
    BY DEF Init
  <2>4. adding \in [Threads -> Timers \cup {NoTimer}]
    BY DEF Init
  <2>5. now \in 0..MaxTime /\ adds \in 0..MaxAdds /\ executeTimeout \in Int
    BY DEF Init
  <2> QED BY <2>1, <2>2, <2>3, <2>4, <2>5 DEF Init, TypeOK, Phases
<1>2. TimersSorted
  BY DEF Init, TimersSorted, Sorted, IsInjective
<1>3. \A t \in Timers : ~Active(t)
  BY DEF Init, Active, Range
<1>4. Adding /\ Armed /\ Credits
  BY <1>3 DEF Init, Adding, Armed, Credits, Untouched
<1>5. Sleeping
  BY DEF Init, Sleeping
<1>6. Executing
  <2>1. Ms(0) \in Nat
    BY Quotients
  <2> QED BY <2>1 DEF Init, Executing
<1> QED BY <1>1, <1>2, <1>4, <1>5, <1>6 DEF IInv

\* What a step that leaves the timers alone need not show.
LEMMA SameTimers ==
    ASSUME IInv, UNCHANGED timerVars, now' \in Int, now' >= now
    PROVE  TimersSorted' /\ Adding' /\ Armed' /\ Credits' /\ \A t \in Timers : Active(t)' = Active(t)
<1> USE DEF IInv, timerVars
<1>1. \A t \in Timers : Active(t)' = Active(t) /\ Untouched(t)' = Untouched(t)
  BY DEF Active, Untouched
<1>2. TimersSorted'
  BY DEF TimersSorted
<1>3. Adding'
  BY DEF Adding, Active
<1>4. Armed'
  <2>1. \A t \in Timers : armedAt[t] \in Int /\ now \in Int
    BY Constants DEF TypeOK
  <2> QED BY <1>1, <2>1 DEF Armed
<1>5. Credits'
  BY <1>1 DEF Credits
<1> QED BY <1>1, <1>2, <1>3, <1>4, <1>5

\* addTimer up to the lock.
LEMMA Arming ==
    ASSUME IInv, NEW t \in Timers, Arm(t)
    PROVE  /\ ~Active(t) /\ \A th \in Threads : adding[th] # t
           /\ mNext' \in [Timers -> Nat] /\ armedAt' \in [Timers -> Nat] /\ adds' \in 0..MaxAdds
           /\ armedAt'[t] = now /\ mNext'[t] = now + Ticks(mTimeout[t])
           /\ \A s \in Timers : s # t => mNext'[s] = mNext[s] /\ armedAt'[s] = armedAt[s]
           /\ Sorted(mTimers, mNext')
<1> USE DEF IInv
<1>1. ~Active(t) /\ \A th \in Threads : adding[th] # t
  BY DEF Arm, Untouched
<1>2. now \in Nat /\ mTimeout[t] \in Nat
  BY Clock, Delays
<1>3. now + Ticks(mTimeout[t]) \in Nat
  BY Clock, Delays
<1>4. /\ mNext' \in [Timers -> Nat] /\ mNext'[t] = now + Ticks(mTimeout[t])
      /\ \A s \in Timers : s # t => mNext'[s] = mNext[s]
  BY <1>3 DEF Arm, TypeOK
<1>5. /\ armedAt' \in [Timers -> Nat] /\ armedAt'[t] = now
      /\ \A s \in Timers : s # t => armedAt'[s] = armedAt[s]
  BY <1>2 DEF Arm, TypeOK
<1>6. adds' \in 0..MaxAdds
  BY Constants DEF Arm, TypeOK
<1>7. Sorted(mTimers, mNext')
  <2>1. \A i \in 1..Len(mTimers) : mTimers[i] \in Timers /\ mTimers[i] # t
    BY <1>1, Places
  <2> QED BY <1>4, <2>1, Places DEF TimersSorted, Sorted
<1> QED BY <1>1, <1>4, <1>5, <1>6, <1>7

LEMMA LoopAddTimerInv == ASSUME IInv, NEW t \in Timers, LoopAddTimer(t) PROVE IInv'
<1> USE DEF IInv
<1>1. /\ InProgram /\ Arm(t) /\ mTimers' = Insert(t, mNext')
      /\ credit' = [credit EXCEPT ![t] = @ + 1]
      /\ UNCHANGED <<now, mTimeout, adding, timers, wake, phase, sleepUntil,
                     executeTimeout, hasTimeout, startTime, entered>>
  BY DEF LoopAddTimer, sleepVars, execVars
<1>2. /\ ~Active(t) /\ \A th \in Threads : adding[th] # t
      /\ mNext' \in [Timers -> Nat] /\ armedAt' \in [Timers -> Nat] /\ adds' \in 0..MaxAdds
      /\ armedAt'[t] = now /\ mNext'[t] = now + Ticks(mTimeout[t])
      /\ \A s \in Timers : s # t => mNext'[s] = mNext[s] /\ armedAt'[s] = armedAt[s]
      /\ Sorted(mTimers, mNext')
  BY <1>1, Arming
<1>3. /\ mTimers' \in Seq(Timers) /\ Sorted(mTimers', mNext') /\ IsInjective(mTimers')
      /\ \A s \in Timers : (\E i \in 1..Len(mTimers') : mTimers'[i] = s) <=> s = t \/ Active(s)
  BY <1>1, <1>2, Inserted DEF TimersSorted
<1>4. \A s \in Timers : Active(s)' <=> s = t \/ Active(s)
  BY <1>3 DEF Active, Range
<1>5. TypeOK'
  <2>1. credit' \in [Timers -> Int]
    BY <1>1 DEF TypeOK
  <2> QED BY <1>1, <1>2, <1>3, <2>1 DEF TypeOK
<1>6. TimersSorted'
  BY <1>3 DEF TimersSorted
<1>7. Adding'
  <2>1. \A th \in Threads : adding[th] # NoTimer => adding[th] \in Timers
    BY DEF TypeOK
  <2> QED BY <1>1, <1>2, <1>4, <2>1 DEF Adding
<1>8. Armed'
  <2>1. now \in Int
    BY Constants DEF TypeOK
  <2>2. \A s \in Timers : s # t /\ ~Untouched(s)' => ~Untouched(s)
    BY <1>1, <1>4 DEF Untouched
  <2> QED BY <1>1, <1>2, <2>1, <2>2 DEF Armed
<1>9. Credits'
  <2>1. \A s \in Timers : credit[s] \in Int
    BY DEF TypeOK
  <2>2. credit'[t] = credit[t] + 1 /\ \A s \in Timers : s # t => credit'[s] = credit[s]
    BY <1>1 DEF TypeOK
  <2> QED BY <1>4, <2>1, <2>2 DEF Credits
<1>10. Sleeping'
  BY <1>1 DEF Sleeping, InProgram
<1>11. Executing'
  BY <1>1 DEF Executing, ExecuteFits
<1> QED BY <1>5, <1>6, <1>7, <1>8, <1>9, <1>10, <1>11

LEMMA AddTimerInv ==
    ASSUME IInv, NEW th \in Threads, NEW t \in Timers, AddTimer(th, t) PROVE IInv'
<1> USE DEF IInv
<1>1. /\ adding[th] = NoTimer /\ Arm(t) /\ adding' = [adding EXCEPT ![th] = t]
      /\ UNCHANGED <<now, mTimers, mTimeout, credit, timers, wake, phase, sleepUntil,
                     executeTimeout, hasTimeout, startTime, entered>>
  BY DEF AddTimer, sleepVars, execVars
<1>2. /\ ~Active(t) /\ \A o \in Threads : adding[o] # t
      /\ mNext' \in [Timers -> Nat] /\ armedAt' \in [Timers -> Nat] /\ adds' \in 0..MaxAdds
      /\ armedAt'[t] = now /\ mNext'[t] = now + Ticks(mTimeout[t])
      /\ \A s \in Timers : s # t => mNext'[s] = mNext[s] /\ armedAt'[s] = armedAt[s]
      /\ Sorted(mTimers, mNext')
  BY <1>1, Arming
<1>3. \A s \in Timers : Active(s)' = Active(s)
  BY <1>1 DEF Active
<1>4. adding' \in [Threads -> Timers \cup {NoTimer}] /\ adding'[th] = t
      /\ \A o \in Threads : o # th => adding'[o] = adding[o]
  BY <1>1 DEF TypeOK
<1>5. TypeOK'
  BY <1>1, <1>2, <1>4 DEF TypeOK
<1>6. TimersSorted'
  BY <1>1, <1>2 DEF TimersSorted
<1>7. Adding'
  <2>1. ASSUME NEW s \in Timers, Active(s)', NEW o \in Threads PROVE adding'[o] # s
    <3>1. Active(s) /\ s # t
      BY <1>2, <1>3, <2>1
    <3> QED BY <1>4, <3>1 DEF Adding
  <2>2. ASSUME NEW s \in Timers, NEW o1 \in Threads, NEW o2 \in Threads,
               adding'[o1] = s, adding'[o2] = s
        PROVE  o1 = o2
    <3>1. CASE s = t
      BY <1>2, <1>4, <2>2, <3>1
    <3>2. CASE s # t
      BY <1>4, <2>2, <3>2 DEF Adding
    <3> QED BY <3>1, <3>2
  <2> QED BY <2>1, <2>2 DEF Adding
<1>8. Armed'
  <2>1. now \in Int
    BY Constants DEF TypeOK
  <2>2. \A s \in Timers : s # t /\ ~Untouched(s)' => ~Untouched(s)
    BY <1>3, <1>4 DEF Untouched
  <2> QED BY <1>1, <1>2, <2>1, <2>2 DEF Armed
<1>9. Credits'
  BY <1>1, <1>3 DEF Credits
<1>10. Sleeping'
  <2>1. \A s \in Timers : Active(s)' => Active(s) /\ mNext'[s] = mNext[s] /\ armedAt'[s] = armedAt[s]
    BY <1>2, <1>3
  <2> QED BY <1>1, <2>1 DEF Sleeping, Fits, ExecuteFits
<1>11. Executing'
  BY <1>1 DEF Executing, ExecuteFits
<1> QED BY <1>5, <1>6, <1>7, <1>8, <1>9, <1>10, <1>11

LEMMA InsertTimerInv == ASSUME IInv, NEW th \in Threads, InsertTimer(th) PROVE IInv'
<1> USE DEF IInv
<1>1. PICK t : t = adding[th]
  OBVIOUS
<1>2. /\ t # NoTimer /\ mTimers' = Insert(t, mNext)
      /\ credit' = [credit EXCEPT ![t] = @ + 1] /\ adding' = [adding EXCEPT ![th] = NoTimer]
      /\ wake' = TRUE
      /\ UNCHANGED <<now, mNext, mTimeout, armedAt, adds, timers, phase, sleepUntil,
                     executeTimeout, hasTimeout, startTime, entered>>
  BY <1>1 DEF InsertTimer, sleepVars, execVars
<1>3. t \in Timers /\ ~Active(t) /\ ~Untouched(t) /\ mNext \in [Timers -> Nat]
  BY <1>1, <1>2 DEF TypeOK, Adding, Untouched
<1>4. /\ mTimers' \in Seq(Timers) /\ Sorted(mTimers', mNext) /\ IsInjective(mTimers')
      /\ \A s \in Timers : (\E i \in 1..Len(mTimers') : mTimers'[i] = s) <=> s = t \/ Active(s)
  BY SMTT(20), <1>2, <1>3, Inserted DEF TimersSorted
<1>5. \A s \in Timers : Active(s)' <=> s = t \/ Active(s)
  BY <1>4 DEF Active, Range
<1>6. /\ adding' \in [Threads -> Timers \cup {NoTimer}] /\ adding'[th] = NoTimer
      /\ \A o \in Threads : o # th => adding'[o] = adding[o]
  BY <1>2 DEF TypeOK
<1>7. TypeOK'
  <2>1. credit' \in [Timers -> Int]
    <3>1. credit \in [Timers -> Int] /\ credit[t] + 1 \in Int
      BY <1>3 DEF TypeOK
    <3> QED BY <1>2, <3>1
  <2> QED BY <1>2, <1>4, <1>6, <2>1 DEF TypeOK
<1>8. TimersSorted'
  BY <1>2, <1>4 DEF TimersSorted
<1>9. Adding'
  <2>1. ASSUME NEW s \in Timers, Active(s)', NEW o \in Threads PROVE adding'[o] # s
    <3>1. s # NoTimer
      BY Constants
    <3>2. CASE o = th
      BY <1>6, <3>1, <3>2
    <3>3. CASE o # th /\ s = t
      BY <1>1, <1>3, <1>6, <3>3 DEF Adding
    <3>4. CASE o # th /\ s # t
      <4>1. Active(s) /\ adding'[o] = adding[o]
        BY <1>5, <1>6, <2>1, <3>4
      <4> QED BY <4>1 DEF Adding
    <3> QED BY <3>2, <3>3, <3>4
  <2>2. ASSUME NEW s \in Timers, NEW o1 \in Threads, NEW o2 \in Threads,
               adding'[o1] = s, adding'[o2] = s
        PROVE  o1 = o2
    <3>1. s # NoTimer
      BY Constants
    <3> QED BY <1>6, <2>2, <3>1 DEF Adding
  <2> QED BY <2>1, <2>2 DEF Adding
<1>10. Armed'
  <2>1. ASSUME NEW s \in Timers, ~Untouched(s)' PROVE ~Untouched(s)
    <3>1. CASE s = t
      BY <1>3, <3>1
    <3>2. CASE s # t
      <4>1. \A o \in Threads : adding'[o] = s => adding[o] = s
        BY <1>6, Constants
      <4> QED BY <1>5, <2>1, <3>2, <4>1 DEF Untouched
    <3> QED BY <3>1, <3>2
  <2> QED BY <1>2, <2>1 DEF Armed
<1>11. Credits'
  <2>1. \A s \in Timers : credit[s] \in Int
    BY DEF TypeOK
  <2>2. credit'[t] = credit[t] + 1 /\ \A s \in Timers : s # t => credit'[s] = credit[s]
    BY <1>2, <1>3 DEF TypeOK
  <2> QED BY <1>3, <1>5, <2>1, <2>2 DEF Credits
<1>12. Sleeping'
  BY <1>2 DEF Sleeping
<1>13. Executing'
  BY <1>2 DEF Executing, ExecuteFits
<1> QED BY <1>7, <1>8, <1>9, <1>10, <1>11, <1>12, <1>13

LEMMA StopInv == ASSUME IInv, NEW t \in Timers, Stop(t) PROVE IInv'
<1> USE DEF IInv
<1>1. PICK k \in 1..Len(mTimers) :
          /\ mTimers[k] = t
          /\ mTimers' = SubSeq(mTimers, 1, k - 1) \o SubSeq(mTimers, k + 1, Len(mTimers))
  BY Places DEF Stop
<1>2. UNCHANGED <<now, mNext, mTimeout, adding, armedAt, credit, adds, timers, wake, phase,
                  sleepUntil, executeTimeout, hasTimeout, startTime, entered>>
  BY DEF Stop, sleepVars, execVars
<1>3. /\ mTimers' \in Seq(Timers) /\ Sorted(mTimers', mNext) /\ IsInjective(mTimers')
      /\ \A i \in 1..Len(mTimers') : Active(mTimers'[i]) /\ mTimers'[i] # t
  BY <1>1, Removed DEF TimersSorted
<1>4. \A s : Active(s)' => Active(s)
  BY <1>3 DEF Active, Range
<1>5. TypeOK'
  BY <1>2, <1>3 DEF TypeOK
<1>6. TimersSorted'
  BY <1>2, <1>3 DEF TimersSorted
<1>7. Adding'
  BY <1>2, <1>4 DEF Adding
<1>8. Armed'
  BY <1>2, <1>4 DEF Armed, Untouched
<1>9. Credits'
  BY <1>2, <1>4 DEF Credits
<1>10. Sleeping'
  BY <1>2, <1>4 DEF Sleeping, Fits, ExecuteFits
<1>11. Executing'
  BY <1>2 DEF Executing, ExecuteFits
<1> QED BY <1>5, <1>6, <1>7, <1>8, <1>9, <1>10, <1>11

LEMMA UpdateTimeoutInv ==
    ASSUME IInv, NEW t \in Timers, NEW ms \in Timeouts, UpdateTimeout(t, ms) PROVE IInv'
<1> USE DEF IInv
<1>1. /\ Untouched(t) /\ mTimeout' = [mTimeout EXCEPT ![t] = ms]
      /\ UNCHANGED <<now, mTimers, mNext, adding, armedAt, credit, adds, timers, wake, phase,
                     sleepUntil, executeTimeout, hasTimeout, startTime, entered>>
  BY DEF UpdateTimeout, sleepVars, execVars
<1>2. \A s \in Timers : Active(s)' = Active(s) /\ Untouched(s)' = Untouched(s)
  BY <1>1 DEF Active, Untouched
<1>3. mTimeout' \in [Timers -> Timeouts] /\ \A s \in Timers : s # t => mTimeout'[s] = mTimeout[s]
  BY <1>1 DEF TypeOK
<1>4. TypeOK'
  BY <1>1, <1>3 DEF TypeOK
<1>5. TimersSorted'
  BY <1>1 DEF TimersSorted
<1>6. Adding'
  BY <1>1 DEF Adding, Active
<1>7. Armed'
  BY <1>1, <1>2, <1>3 DEF Armed
<1>8. Credits'
  BY <1>1, <1>2 DEF Credits
<1>9. Sleeping'
  BY <1>1, <1>2 DEF Sleeping, Fits, ExecuteFits
<1>10. Executing'
  BY <1>1 DEF Executing, ExecuteFits
<1> QED BY <1>4, <1>5, <1>6, <1>7, <1>8, <1>9, <1>10

\* The timeout computed for the first timer is good for all of them that fit.
LEMMA Waiting ==
    ASSUME IInv, phase = "work"
    PROVE  /\ EpollTimeout \in Int
           /\ \A t \in Timers :
                 Active(t) /\ Fits(t) =>
                     EpollTimeout >= 0 /\ now + Ticks(EpollTimeout) <= Later(mNext[t], now)
<1> USE DEF IInv
<1>1. now \in Nat /\ executeTimeout \in Int /\ IntMax \in Nat
  <2>1. now \in 0..MaxTime /\ executeTimeout \in Int
    BY DEF TypeOK
  <2> QED BY <2>1, Constants
<1>2. CASE mTimers = <<>>
  <2>1. \A t \in Timers : ~Active(t)
    BY <1>2 DEF Active, Range
  <2> QED BY <1>1, <1>2, <2>1 DEF EpollTimeout
<1>3. CASE mTimers # <<>>
  <2>1. PICK h : h = mTimers[1]
    OBVIOUS
  <2>2. 1 \in 1..Len(mTimers) /\ h = Head(mTimers)
    BY <1>3, <2>1 DEF TypeOK
  <2>3. h \in Timers /\ mNext[h] \in Nat
    BY <2>1, <2>2, Places DEF TypeOK
  <2>4. CASE ~(now <= mNext[h])
    <3>1. EpollTimeout = 0
      BY <1>3, <2>2, <2>4 DEF EpollTimeout
    <3>2. Ticks(0) = 0
      BY TimersAssumption DEF Ticks
    <3> QED BY <1>1, <3>1, <3>2 DEF Later, TypeOK
  <2>5. CASE now <= mNext[h]
    <3>1. PICK d \in Nat : d = mNext[h] - now
      BY <1>1, <2>3, <2>5
    <3>2. EpollTimeout = ToInt(Ms(d)) /\ Ms(d) \in Nat /\ Ticks(Ms(d)) <= d
      BY <1>3, <2>2, <2>5, <3>1, Quotients DEF EpollTimeout
    <3>3. ASSUME NEW t \in Timers, Active(t), Fits(t)
          PROVE  EpollTimeout >= 0 /\ now + Ticks(EpollTimeout) <= Later(mNext[t], now)
      <4>1. mNext[t] \in Nat /\ armedAt[t] \in Nat /\ armedAt[t] <= now
        BY DEF TypeOK, Armed
      <4>2. mNext[h] <= mNext[t]
        <5>1. PICK i \in 1..Len(mTimers) : mTimers[i] = t
          BY <3>3, Places
        <5>2. 1 < i \/ 1 = i
          BY Places
        <5> QED BY <2>1, <2>2, <2>3, <5>1, <5>2, Places DEF TimersSorted, Sorted
      <4>3. PICK e \in Nat : e = mNext[t] - armedAt[t]
        BY <1>1, <2>3, <2>5, <4>1, <4>2
      <4>4. d <= e
        BY <1>1, <2>3, <3>1, <4>1, <4>2, <4>3
      <4>5. Ms(d) <= Ms(e) /\ Ms(e) \in Nat
        BY <4>4, Monotone, Quotients
      <4>6. Ms(d) \in 0..IntMax
        BY <1>1, <3>2, <3>3, <4>3, <4>5 DEF Fits
      <4>7. EpollTimeout = Ms(d)
        BY <3>2, <4>6, Conversion
      <4>8. Ticks(Ms(d)) \in Int
        BY <3>2, Products
      <4>9. now + Ticks(EpollTimeout) <= mNext[h]
        BY <1>1, <2>3, <3>1, <3>2, <4>7, <4>8
      <4> QED BY <1>1, <2>3, <2>5, <3>2, <4>1, <4>2, <4>7, <4>8, <4>9 DEF Later
    <3>4. EpollTimeout \in Int
      <4>1. Ms(d) \in Int
        BY <3>2
      <4> QED BY <3>2, <4>1, Conversion
    <3> QED BY <3>3, <3>4
  <2> QED BY <2>4, <2>5
<1> QED BY <1>2, <1>3

LEMMA SleepInv == IInv /\ Sleep => IInv'
<1> SUFFICES ASSUME IInv, Sleep PROVE IInv'
  OBVIOUS
<1> USE DEF IInv
<1>1. PICK ms : ms = IF executeTimeout < EpollTimeout THEN executeTimeout ELSE EpollTimeout
  OBVIOUS
<1>2. /\ phase = "work" /\ phase' = "sleep"
      /\ sleepUntil' = IF ms < 0 THEN Forever ELSE now + Ticks(ms)
      /\ UNCHANGED <<now, timerVars, timers, wake, executeTimeout, hasTimeout, startTime, entered>>
  BY <1>1 DEF Sleep, execVars
<1>3. now \in Nat /\ executeTimeout \in Int /\ IntMax \in Nat
  <2>1. now \in 0..MaxTime /\ executeTimeout \in Int
    BY DEF TypeOK
  <2> QED BY <2>1, Constants
<1>4. EpollTimeout \in Int /\ ms \in Int /\ ms <= EpollTimeout /\ ms <= executeTimeout
      /\ (ms = executeTimeout \/ ms = EpollTimeout)
  <2>1. EpollTimeout \in Int
    BY <1>2, Waiting
  <2> QED BY <1>1, <1>3, <2>1
<1>5. TimersSorted' /\ Adding' /\ Armed' /\ Credits' /\ \A t \in Timers : Active(t)' = Active(t)
  <2>1. now' = now /\ UNCHANGED timerVars
    BY <1>2
  <2>2. now' \in Int /\ now' >= now
    BY <1>3, <2>1
  <2> QED BY <2>1, <2>2, SameTimers
<1>6. TypeOK'
  <2>1. sleepUntil' \in Nat \cup {Forever}
    <3>1. Ticks(ms) \in Int /\ (ms >= 0 => Ticks(ms) >= 0)
      BY <1>4, Products
    <3> QED BY <1>2, <1>3, <1>4, <3>1
  <2> QED BY <1>2, <2>1 DEF TypeOK, timerVars, Phases
<1>7. Sleeping'
  <2>1. ASSUME ExecuteFits, NEW t \in Timers, Active(t), Fits(t)
        PROVE  sleepUntil' # Forever /\ sleepUntil' <= Later(mNext[t], now)
    <3>1. EpollTimeout >= 0 /\ now + Ticks(EpollTimeout) <= Later(mNext[t], now)
      BY <1>2, <2>1, Waiting
    <3>2. executeTimeout >= 0
      BY <1>2, <1>3, <2>1 DEF Executing
    <3>3. ms >= 0
      BY <1>4, <3>1, <3>2
    <3>4. Ticks(ms) \in Int /\ Ticks(EpollTimeout) \in Int /\ Ticks(ms) <= Ticks(EpollTimeout) /\ Ticks(ms) >= 0
      BY <1>4, <3>3, Products
    <3>5. sleepUntil' = now + Ticks(ms)
      BY <1>2, <1>4, <3>3
    <3>6. Later(mNext[t], now) \in Nat
      BY <1>3 DEF Later, TypeOK
    <3> QED BY <1>3, <3>1, <3>4, <3>5, <3>6 DEF Forever
  <2> QED BY <1>2, <1>5, <2>1 DEF Sleeping, Fits, ExecuteFits, timerVars
<1>8. Executing'
  BY <1>2 DEF Executing, ExecuteFits
<1> QED BY <1>5, <1>6, <1>7, <1>8

\* A step of the loop's thread that touches neither the timers nor the clock.
LEMMA StillTimers ==
    ASSUME IInv, UNCHANGED <<now, timerVars>>
    PROVE  TimersSorted' /\ Adding' /\ Armed' /\ Credits' /\ \A t \in Timers : Active(t)' = Active(t)
<1>1. now' = now /\ UNCHANGED timerVars
  OBVIOUS
<1>2. now' \in Int /\ now' >= now
  BY <1>1, Clock DEF IInv
<1> QED BY <1>1, <1>2, SameTimers

LEMMA ExecuteInv == ASSUME IInv, NEW ms \in ExecTimeouts, Execute(ms) PROVE IInv'
<1> USE DEF IInv
<1>1. /\ phase = "idle" /\ phase' = "work" /\ hasTimeout' = (ms # -1)
      /\ executeTimeout' = IF ms # -1 THEN ToInt(ms) ELSE IntMax
      /\ startTime' = Ms(now) /\ entered' = [at |-> now, timeout |-> ms]
      /\ UNCHANGED <<now, timerVars, timers, wake, sleepUntil>>
  BY DEF Execute
<1>2. ms \in Nat \cup {-1} /\ IntMax \in Nat /\ now \in Nat /\ Ms(now) \in Nat
  BY Constants, Clock
<1>3. TimersSorted' /\ Adding' /\ Armed' /\ Credits'
  BY <1>1, StillTimers
<1>4. TypeOK'
  <2>1. executeTimeout' \in Int
    BY <1>1, <1>2, Conversion
  <2>2. entered' \in [at : Nat, timeout : Nat \cup {-1}] /\ startTime' \in Nat /\ hasTimeout' \in BOOLEAN
    BY <1>1, <1>2
  <2> QED BY <1>1, <2>1, <2>2 DEF TypeOK, timerVars, Phases
<1>5. Sleeping'
  BY <1>1 DEF Sleeping
<1>6. Executing'
  <2>1. ASSUME ms # -1, ms <= IntMax PROVE ToInt(ms) = ms /\ ms >= 0
    <3>1. ms \in 0..IntMax
      BY <1>2, <2>1
    <3> QED BY <3>1, Conversion
  <2>2. entered'.at = now /\ entered'.timeout = ms
    BY <1>1
  <2>3. hasTimeout' <=> entered'.timeout # -1
    BY <1>1, <2>2
  <2>4. ~hasTimeout' => executeTimeout' = IntMax
    BY <1>1
  <2>5. now' = now /\ startTime' = Ms(now) /\ Ms(entered'.at) = Ms(now)
    BY <1>1, <2>2
  <2>6. ASSUME hasTimeout', ExecuteFits' PROVE executeTimeout' = ms /\ ms >= 0
    <3>1. ms # -1 /\ ms <= IntMax
      BY <2>2, <2>3, <2>6 DEF ExecuteFits
    <3> QED BY <1>1, <2>1, <3>1
  <2>7. /\ entered'.at <= now' /\ startTime' <= Ms(now')
        /\ ms = ms - (startTime' - Ms(entered'.at))
    BY <1>2, <2>2, <2>5
  <2> QED BY <2>2, <2>3, <2>4, <2>6, <2>7 DEF Executing
<1> QED BY <1>3, <1>4, <1>5, <1>6

LEMMA WakeUpInv == ASSUME IInv, WakeUp \/ WakeUpOther PROVE IInv'
<1> USE DEF IInv
<1>1. /\ phase' = "io" /\ phase = "sleep" /\ wake' \in BOOLEAN /\ sleepUntil' = Forever
      /\ UNCHANGED <<now, timerVars, timers, executeTimeout, hasTimeout, startTime, entered>>
  BY DEF WakeUp, WakeUpOther, execVars, TypeOK
<1>2. TimersSorted' /\ Adding' /\ Armed' /\ Credits'
  BY <1>1, StillTimers
<1>3. TypeOK'
  BY <1>1 DEF TypeOK, timerVars, Phases
<1>4. Sleeping'
  BY <1>1 DEF Sleeping
<1>5. Executing'
  BY <1>1 DEF Executing, ExecuteFits
<1> QED BY <1>2, <1>3, <1>4, <1>5

LEMMA FireInv == ASSUME IInv, Fire PROVE IInv'
<1> USE DEF IInv
<1>1. /\ timers # <<>> /\ timers' = Tail(timers)
      /\ UNCHANGED <<now, timerVars, wake, phase, sleepUntil, executeTimeout, hasTimeout,
                     startTime, entered>>
  BY DEF Fire, execVars, sleepVars
<1>2. TimersSorted' /\ Adding' /\ Armed' /\ Credits' /\ \A t \in Timers : Active(t)' = Active(t)
  BY <1>1, StillTimers
<1>3. TypeOK'
  <2>1. timers' \in Seq(Timers)
    BY <1>1 DEF TypeOK
  <2> QED BY <1>1, <2>1 DEF TypeOK, timerVars
<1>4. Sleeping'
  BY <1>1, <1>2 DEF Sleeping, Fits, ExecuteFits, timerVars
<1>5. Executing'
  BY <1>1 DEF Executing, ExecuteFits
<1> QED BY <1>2, <1>3, <1>4, <1>5

LEMMA EndRoundInv == ASSUME IInv, EndRound PROVE IInv'
<1> USE DEF IInv
<1>1. /\ phase = "fire" /\ phase' \in {"idle", "work"}
      /\ UNCHANGED <<now, timerVars, timers, sleepUntil, wake, hasTimeout, entered>>
  BY DEF EndRound
<1>2. TimersSorted' /\ Adding' /\ Armed' /\ Credits'
  BY <1>1, StillTimers
<1>3. /\ now \in Nat /\ Ms(now) \in Nat /\ startTime \in Nat /\ executeTimeout \in Int
      /\ startTime <= Ms(now)
  BY Clock DEF TypeOK, Executing
<1>4. entered.at \in Nat /\ entered.timeout \in Int /\ Ms(entered.at) \in Nat
  <2>1. entered.at \in Nat /\ entered.timeout \in Int
    BY DEF TypeOK
  <2> QED BY <2>1, Quotients
<1>5. CASE hasTimeout
  <2>1. /\ executeTimeout' = executeTimeout - (Ms(now) - startTime) /\ startTime' = Ms(now)
        /\ phase' = IF executeTimeout' <= 0 THEN "idle" ELSE "work"
    BY <1>5 DEF EndRound
  <2>2. executeTimeout' \in Int
    BY <1>3, <2>1
  <2>3. TypeOK'
    BY <1>1, <1>3, <2>1, <2>2 DEF TypeOK, timerVars, Phases
  <2>4. Executing'
    <3>1. ASSUME ExecuteFits, phase' # "idle"
          PROVE  executeTimeout' >= 0 /\ executeTimeout' = entered.timeout - (Ms(now) - Ms(entered.at))
      <4>1. executeTimeout = entered.timeout - (startTime - Ms(entered.at))
        BY <1>1, <1>5, <3>1 DEF Executing
      <4>2. executeTimeout' >= 0
        BY <2>1, <2>2, <3>1
      <4> QED BY <1>3, <1>4, <2>1, <4>1, <4>2
    <3> QED BY <1>1, <1>3, <1>5, <2>1, <3>1 DEF Executing, ExecuteFits
  <2> QED BY <1>1, <1>2, <2>3, <2>4 DEF Sleeping
<1>6. CASE ~hasTimeout
  <2>1. UNCHANGED <<executeTimeout, startTime>>
    BY <1>6 DEF EndRound
  <2>2. TypeOK'
    BY <1>1, <2>1 DEF TypeOK, timerVars, Phases
  <2>3. Executing'
    BY <1>1, <1>6, <2>1 DEF Executing
  <2> QED BY <1>1, <1>2, <2>2, <2>3 DEF Sleeping
<1> QED BY <1>5, <1>6

LEMMA LeaveInv == ASSUME IInv, Leave PROVE IInv'
<1> USE DEF IInv
<1>1. /\ phase = "work" /\ phase' = "idle"
      /\ UNCHANGED <<now, timerVars, timers, sleepUntil, wake, executeTimeout, hasTimeout,
                     startTime, entered>>
  BY DEF Leave, execVars
<1>2. TimersSorted' /\ Adding' /\ Armed' /\ Credits'
  BY <1>1, StillTimers
<1>3. TypeOK'
  BY <1>1 DEF TypeOK, timerVars, Phases
<1>4. Sleeping' /\ Executing'
  BY <1>1 DEF Sleeping, Executing, Fits, ExecuteFits
<1> QED BY <1>2, <1>3, <1>4

LEMMA TickInv == ASSUME IInv, Tick PROVE IInv'
<1> USE DEF IInv
<1>1. /\ now < MaxTime /\ now' = now + 1
      /\ UNCHANGED <<timerVars, timers, phase, sleepUntil, wake, executeTimeout, hasTimeout,
                     startTime, entered>>
  BY DEF Tick, sleepVars, execVars
<1>2. now \in Nat /\ now' \in Nat /\ now' >= now /\ Ms(now) \in Nat /\ Ms(now') \in Nat
  <2>1. now' \in Nat /\ now' >= now
    BY <1>1, Clock
  <2> QED BY <2>1, Clock, Quotients
<1>3. TimersSorted' /\ Adding' /\ Armed' /\ Credits' /\ \A t \in Timers : Active(t)' = Active(t)
  BY <1>1, <1>2, SameTimers
<1>4. TypeOK'
  <2>1. now' \in 0..MaxTime
    BY <1>1, <1>2, Constants
  <2> QED BY <1>1, <2>1 DEF TypeOK, timerVars
<1>5. Sleeping'
  <2>1. ASSUME NEW t \in Timers, sleepUntil # Forever, sleepUntil <= Later(mNext[t], now)
        PROVE  sleepUntil <= Later(mNext[t], now')
    <3>1. mNext[t] \in Nat /\ sleepUntil \in Nat
      BY <2>1 DEF TypeOK
    <3> QED BY <1>2, <2>1, <3>1 DEF Later
  <2> QED BY <1>1, <1>3, <2>1 DEF Sleeping, Fits, ExecuteFits, timerVars
<1>6. Executing'
  <2>1. Ms(now) <= Ms(now')
    BY <1>2, Monotone
  <2>2. entered.at \in Nat /\ startTime \in Nat
    BY DEF TypeOK
  <2>3. entered.at <= now' /\ startTime <= Ms(now')
    BY <1>2, <2>1, <2>2 DEF Executing
  <2> QED BY <1>1, <2>3 DEF Executing, ExecuteFits
<1> QED BY <1>3, <1>4, <1>5, <1>6

\* What the round that fires timers does to each of them.
LEMMA Collecting ==
    ASSUME IInv, Collect
    PROVE  /\ timers' \in Seq(Timers) /\ mTimers' \in Seq(Timers)
           /\ mNext' \in [Timers -> Nat] /\ armedAt' \in [Timers -> Nat] /\ credit' \in [Timers -> Int]
           /\ Sorted(mTimers', mNext') /\ IsInjective(mTimers')
           /\ \A t \in Range(timers') : t \in Timers /\ Active(t) /\ IsDue(t)
           /\ \A t \in Timers : Active(t)' => Active(t) /\ (t \in Range(timers') => Keep(t))
           /\ \A t \in Timers : Active(t)' /\ t \notin Range(timers') => ~IsDue(t)
           /\ \A t \in Timers :
                 IF t \in Range(timers') /\ Keep(t)
                 THEN mNext'[t] = now + Ticks(mTimeout[t]) /\ armedAt'[t] = now
                 ELSE mNext'[t] = mNext[t] /\ armedAt'[t] = armedAt[t]
           /\ \A t \in Timers :
                 credit'[t] = IF t \in Range(timers') /\ Flag[t] = "Timeout" THEN credit[t] - 1
                                                                             ELSE credit[t]
<1> USE DEF IInv
<1> DEFINE due == SubSeq(mTimers, 1, DuePrefix)
           rest == SubSeq(mTimers, DuePrefix + 1, Len(mTimers))
           set == {t \in Range(due) : Keep(t)} \cup Range(rest)
<1>1. /\ timers' = due
      /\ mNext' = [t \in Timers |-> IF t \in Range(due) /\ Keep(t) THEN now + Ticks(mTimeout[t])
                                                                  ELSE mNext[t]]
      /\ armedAt' = [t \in Timers |-> IF t \in Range(due) /\ Keep(t) THEN now ELSE armedAt[t]]
      /\ credit' = [t \in Timers |-> IF t \in Range(due) /\ Flag[t] = "Timeout" THEN credit[t] - 1
                                                                               ELSE credit[t]]
      /\ mTimers' \in Resort(set, mNext')
  BY DEF Collect
<1>2. /\ due \in Seq(Timers)
      /\ \A t \in Range(due) : t \in Timers /\ Active(t) /\ IsDue(t)
      /\ \A t \in Range(rest) : t \in Timers /\ Active(t) /\ ~IsDue(t)
  BY Due DEF TimersSorted
<1>3. /\ \A t \in set : t \in Timers /\ Active(t) /\ (t \in Range(due) => Keep(t))
      /\ \A t \in set : t \notin Range(due) => ~IsDue(t)
  BY <1>2
<1> HIDE DEF due, rest, set
<1>4. \A t \in set : t \in Timers /\ Active(t)
  BY <1>3
<1>5. /\ mTimers' \in Seq(Timers) /\ Sorted(mTimers', mNext') /\ IsInjective(mTimers')
      /\ Range(mTimers') \subseteq set
  BY <1>1, <1>4, Resorted
<1>6. \A t \in Timers : now + Ticks(mTimeout[t]) \in Nat /\ now \in Nat
  BY Clock, Delays
<1>7. mNext' \in [Timers -> Nat] /\ armedAt' \in [Timers -> Nat]
  BY <1>1, <1>6 DEF TypeOK
<1>8. credit' \in [Timers -> Int]
  BY <1>1 DEF TypeOK
<1>9. \A t \in Timers : Active(t)' => t \in set
  BY <1>5 DEF Active
<1>10. \A t \in Timers : Active(t)' => Active(t) /\ (t \in Range(timers') => Keep(t))
  BY <1>1, <1>3, <1>9
<1>11. \A t \in Timers : Active(t)' /\ t \notin Range(timers') => ~IsDue(t)
  BY <1>1, <1>3, <1>9
<1>12. \A t \in Timers :
          IF t \in Range(timers') /\ Keep(t)
          THEN mNext'[t] = now + Ticks(mTimeout[t]) /\ armedAt'[t] = now
          ELSE mNext'[t] = mNext[t] /\ armedAt'[t] = armedAt[t]
  BY <1>1
<1>13. \A t \in Timers :
          credit'[t] = IF t \in Range(timers') /\ Flag[t] = "Timeout" THEN credit[t] - 1 ELSE credit[t]
  BY <1>1
<1> QED BY <1>1, <1>2, <1>5, <1>7, <1>8, <1>10, <1>11, <1>12, <1>13

LEMMA CollectInv == ASSUME IInv, Collect PROVE IInv'
<1> USE DEF IInv
<1>1. /\ phase = "io" /\ phase' = "fire" /\ wake' \in BOOLEAN
      /\ UNCHANGED <<now, mTimeout, adding, adds, sleepUntil, executeTimeout, hasTimeout,
                     startTime, entered>>
  BY DEF Collect, execVars, TypeOK
<1>2. /\ timers' \in Seq(Timers) /\ mTimers' \in Seq(Timers)
      /\ mNext' \in [Timers -> Nat] /\ armedAt' \in [Timers -> Nat] /\ credit' \in [Timers -> Int]
      /\ Sorted(mTimers', mNext') /\ IsInjective(mTimers')
  BY Collecting
<1>3. \A t \in Timers : Active(t)' => Active(t)
  BY Collecting
<1>4. TypeOK'
  BY <1>1, <1>2 DEF TypeOK, Phases
<1>5. TimersSorted'
  BY <1>2 DEF TimersSorted
<1>6. Adding'
  BY <1>1, <1>3 DEF Adding
<1>7. Armed'
  <2>1. ASSUME NEW t \in Timers
        PROVE  /\ armedAt'[t] <= now
               /\ ~Untouched(t)' => mNext'[t] = armedAt'[t] + Ticks(mTimeout[t])
    <3>1. IF t \in Range(timers') /\ Keep(t)
          THEN mNext'[t] = now + Ticks(mTimeout[t]) /\ armedAt'[t] = now
          ELSE mNext'[t] = mNext[t] /\ armedAt'[t] = armedAt[t]
      BY Collecting
    <3>2. ~Untouched(t)' => ~Untouched(t)
      BY <1>1, <1>3 DEF Untouched
    <3> QED BY <3>1, <3>2, Clock DEF Armed
  <2> QED BY <1>1, <2>1 DEF Armed
<1>8. Credits'
  <2>1. ASSUME NEW t \in Timers
        PROVE  credit'[t] >= 0 /\ (Active(t)' /\ Flag[t] = "Timeout" => credit'[t] >= 1)
    <3>1. credit[t] \in Int /\ credit[t] >= 0 /\ (Active(t) /\ Flag[t] = "Timeout" => credit[t] >= 1)
      BY DEF TypeOK, Credits
    <3>2. CASE t \in Range(timers') /\ Flag[t] = "Timeout"
      <4>1. Active(t) /\ credit'[t] = credit[t] - 1
        BY <3>2, Collecting
      <4>2. ~Keep(t)
        BY <3>2 DEF Keep
      <4>3. ~Active(t)'
        BY <3>2, <4>2, Collecting
      <4> QED BY <3>1, <3>2, <4>1, <4>3
    <3>3. CASE ~(t \in Range(timers') /\ Flag[t] = "Timeout")
      <4>1. credit'[t] = credit[t]
        BY <3>3, Collecting
      <4> QED BY <1>3, <3>1, <4>1
    <3> QED BY <3>2, <3>3
  <2> QED BY <2>1 DEF Credits
<1>9. Sleeping'
  BY <1>1 DEF Sleeping
<1>10. Executing'
  BY <1>1 DEF Executing, ExecuteFits
<1> QED BY <1>4, <1>5, <1>6, <1>7, <1>8, <1>9, <1>10

LEMMA NextInv == IInv /\ [Next]_vars => IInv'
<1> SUFFICES ASSUME IInv, [Next]_vars PROVE IInv'
  OBVIOUS
<1>1. ASSUME NEW t \in Timers, LoopAddTimer(t) PROVE IInv'
  BY <1>1, LoopAddTimerInv
<1>2. ASSUME NEW t \in Timers, Stop(t) PROVE IInv'
  BY <1>2, StopInv
<1>3. ASSUME NEW t \in Timers, NEW ms \in Timeouts, UpdateTimeout(t, ms) PROVE IInv'
  BY <1>3, UpdateTimeoutInv
<1>4. ASSUME NEW th \in Threads, InsertTimer(th) PROVE IInv'
  BY <1>4, InsertTimerInv
<1>5. ASSUME NEW th \in Threads, NEW t \in Timers, AddTimer(th, t) PROVE IInv'
  BY <1>5, AddTimerInv
<1>6. ASSUME NEW ms \in ExecTimeouts, Execute(ms) PROVE IInv'
  BY <1>6, ExecuteInv
<1>7. CASE Sleep
  BY <1>7, SleepInv
<1>8. CASE WakeUp \/ WakeUpOther
  BY <1>8, WakeUpInv
<1>9. CASE Collect
  BY <1>9, CollectInv
<1>10. CASE Fire
  BY <1>10, FireInv
<1>11. CASE EndRound
  BY <1>11, EndRoundInv
<1>12. CASE Leave
  BY <1>12, LeaveInv
<1>13. CASE Tick
  BY <1>13, TickInv
<1>14. CASE UNCHANGED vars
  <2>1. UNCHANGED <<now, timerVars>>
    BY <1>14 DEF vars, timerVars
  <2>2. TimersSorted' /\ Adding' /\ Armed' /\ Credits' /\ \A t \in Timers : Active(t)' = Active(t)
    BY <2>1, StillTimers
  <2> QED BY <1>14, <2>2 DEF vars, IInv, TypeOK, Sleeping, Executing, Fits, ExecuteFits
<1> QED
  BY <1>1, <1>2, <1>3, <1>4, <1>5, <1>6, <1>7, <1>8, <1>9, <1>10, <1>11, <1>12, <1>13, <1>14
  DEF Next, LoopStep

-----------------------------------------------------------------------------
(* The theorems *)

\* Whoever adds, stops and re-arms timers, in callbacks or on other threads, the
\* locked sections of the loop leave all of this intact.
THEOREM Invariance == Spec => []IInv
<1>1. Init => IInv
  BY InitInv
<1>2. IInv /\ [Next]_vars => IInv'
  BY NextInv
<1> QED BY <1>1, <1>2, PTL DEF Spec

\* ListIntact for every instance: the list that lower_bound searches and that the
\* collecting loop leaves early is sorted and without duplicates whenever the
\* lock is free, although addTimer computes mNext outside of it; and a single
\* shot is collected once per addTimer.
THEOREM ListStaysIntact == Spec => []ListIntact
<1>1. IInv => ListIntact
  BY DEF IInv, ListIntact, Credits, SingleShot
<1> QED BY <1>1, Invariance, PTL

\* NoOversleep for every instance: the timeout of epoll_wait is good for the first
\* timer of the list, also when that is another one than it was computed for.
THEOREM NobodyOversleeps == Spec => []NoOversleep
<1>1. IInv => NoOversleep
  <2> SUFFICES ASSUME IInv, phase = "sleep", mTimers # <<>>, FitsInt, ExecuteFits, ~wake
               PROVE  sleepUntil # Forever /\ sleepUntil <= IF mNext[Head(mTimers)] > now
                                                            THEN mNext[Head(mTimers)] ELSE now
    BY DEF NoOversleep, IInv, TypeOK
  <2>1. Head(mTimers) \in Timers /\ Active(Head(mTimers))
    <3>1. 1 \in 1..Len(mTimers) /\ Head(mTimers) = mTimers[1]
      BY DEF IInv, TypeOK
    <3> QED BY <3>1, Places DEF IInv
  <2> QED BY <2>1 DEF IInv, Sleeping, FitsInt, Fits, Later
<1> QED BY <1>1, Invariance, PTL

\* CollectsWhatIsDue for every instance: nothing fires early, nothing that is due
\* is left behind.
THEOREM CollectingIsExact == Spec => CollectsWhatIsDue
<1> DEFINE Exact == /\ \A t \in Range(timers') : now - armedAt[t] >= Ticks(mTimeout[t])
                    /\ \A t \in Range(mTimers') : mNext'[t] > now \/ mTimeout[t] = 0
<1>1. ASSUME IInv, [Next]_vars, phase = "io", phase' = "fire" PROVE Exact
  <2>1. Collect
    BY <1>1 DEF Next, LoopStep, vars, sleepVars, LoopAddTimer, AddTimer, InsertTimer, Stop,
                UpdateTimeout, Execute, Sleep, WakeUp, WakeUpOther, Fire, EndRound, Leave, Tick
  <2>2. ASSUME NEW t \in Range(timers') PROVE now - armedAt[t] >= Ticks(mTimeout[t])
    <3>1. t \in Timers /\ Active(t) /\ mNext[t] <= now
      BY <1>1, <2>1, Collecting DEF IsDue
    <3>2. mNext[t] = armedAt[t] + Ticks(mTimeout[t]) /\ armedAt[t] \in Nat
      BY <1>1, <3>1 DEF IInv, Armed, Untouched, TypeOK
    <3> QED BY <1>1, <3>1, <3>2, Clock, Delays DEF IInv
  <2>3. ASSUME NEW t \in Range(mTimers') PROVE mNext'[t] > now \/ mTimeout[t] = 0
    <3>1. t \in Timers /\ Active(t)'
      BY <1>1, <2>1, Collecting DEF Active, Range
    <3>2. CASE t \in Range(timers')
      <4>1. mNext'[t] = now + Ticks(mTimeout[t])
        BY <1>1, <2>1, <3>1, <3>2, Collecting
      <4> QED BY <1>1, <3>1, <4>1, Clock, Delays DEF IInv
    <3>3. CASE t \notin Range(timers')
      <4>1. mNext'[t] = mNext[t] /\ ~(mNext[t] <= now)
        BY <1>1, <2>1, <3>1, <3>3, Collecting DEF IsDue
      <4>2. mNext[t] \in Nat
        BY <1>1, <3>1 DEF IInv, TypeOK
      <4> QED BY <1>1, <4>1, <4>2, Clock DEF IInv
    <3> QED BY <3>2, <3>3
  <2> QED BY <2>2, <2>3
<1>2. IInv /\ [Next]_vars => [phase = "io" /\ phase' = "fire" => Exact]_vars
  BY <1>1
<1> QED BY <1>2, Invariance, PTL DEF Spec, CollectsWhatIsDue

\* ExecuteInTime for every instance: however often execute() is woken, what is
\* left of its timeout is what it waits for, rounding included.
THEOREM ExecuteIsInTime == Spec => ExecuteInTime
<1> DEFINE Asleep == /\ phase = "work" /\ phase' = "sleep" /\ hasTimeout /\ ExecuteFits
                     /\ mTimers = <<>> \/ FitsInt
           InTime == /\ sleepUntil' # Forever
                     /\ sleepUntil' < entered.at + Ticks(entered.timeout + 1) + (now - Ticks(startTime))
<1>1. ASSUME IInv, [Next]_vars, Asleep PROVE InTime
  <2> USE <1>1 DEF IInv
  <2>1. Sleep
    BY DEF Next, LoopStep, vars, sleepVars, LoopAddTimer, AddTimer, InsertTimer, Stop,
           UpdateTimeout, Execute, Collect, WakeUp, WakeUpOther, Fire, EndRound, Leave, Tick
  <2>2. PICK ms : ms = IF executeTimeout < EpollTimeout THEN executeTimeout ELSE EpollTimeout
    OBVIOUS
  <2>3. sleepUntil' = IF ms < 0 THEN Forever ELSE now + Ticks(ms)
    BY <2>1, <2>2 DEF Sleep
  <2>4. /\ executeTimeout \in Int /\ executeTimeout >= 0
        /\ executeTimeout = entered.timeout - (startTime - Ms(entered.at))
    BY DEF TypeOK, Executing
  <2>5. EpollTimeout \in Int /\ EpollTimeout >= 0
    <3>1. EpollTimeout \in Int
      BY Waiting
    <3>2. CASE mTimers = <<>>
      BY <2>4, <3>1, <3>2 DEF EpollTimeout
    <3>3. CASE mTimers # <<>>
      <4>1. 1 \in 1..Len(mTimers) /\ Head(mTimers) = mTimers[1]
        BY <3>3 DEF TypeOK
      <4>2. Head(mTimers) \in Timers /\ Active(Head(mTimers))
        BY <4>1, Places
      <4>3. Fits(Head(mTimers))
        BY <3>3 DEF FitsInt
      <4> QED BY <3>1, <4>2, <4>3, Waiting
    <3> QED BY <3>2, <3>3
  <2>6. ms \in Int /\ ms >= 0 /\ ms <= executeTimeout
    BY <2>2, <2>4, <2>5
  <2>7. PICK A \in Nat, B \in Nat, T \in Int, S \in Nat :
            A = entered.at /\ B = Ms(entered.at) /\ T = entered.timeout /\ S = startTime
    <3>1. entered.at \in Nat /\ entered.timeout \in Int /\ startTime \in Nat
      BY DEF TypeOK
    <3> QED BY <3>1, Quotients
  <2>8. Ticks(B) <= A
    BY <2>7, Quotients
  <2>9. executeTimeout = T - (S - B)
    BY <2>4, <2>7
  <2>10. Ticks(executeTimeout) = Ticks(T) - (Ticks(S) - Ticks(B))
    <3>1. Ticks(S - B) = Ticks(S) - Ticks(B)
      BY Products
    <3>2. S - B \in Int
      OBVIOUS
    <3>3. Ticks(T - (S - B)) = Ticks(T) - Ticks(S - B)
      BY <3>2, Products
    <3> QED BY <2>9, <3>1, <3>3
  <2>11. Ticks(T + 1) = Ticks(T) + Ticks(1) /\ Ticks(1) \in Int /\ Ticks(1) > 0
    BY Products, TimersAssumption DEF Ticks
  <2>12. Ticks(ms) \in Int /\ Ticks(ms) >= 0 /\ Ticks(ms) <= Ticks(executeTimeout)
    BY <2>4, <2>6, Products
  <2>13. Ticks(T) \in Int /\ Ticks(S) \in Int /\ Ticks(B) \in Int
    BY Products
  <2>14. now \in Nat
    BY Clock
  <2>15. sleepUntil' = now + Ticks(ms)
    BY <2>3, <2>6
  <2>16. now + Ticks(ms) < A + Ticks(T + 1) + (now - Ticks(S))
    BY SMTT(20), <2>8, <2>10, <2>11, <2>12, <2>13, <2>14
  <2>17. sleepUntil' # Forever
    BY <2>12, <2>14, <2>15 DEF Forever
  <2> QED BY <2>7, <2>15, <2>16, <2>17
<1>2. IInv /\ [Next]_vars => [Asleep => InTime]_vars
  BY <1>1
<1> QED BY <1>2, Invariance, PTL DEF Spec, ExecuteInTime
=============================================================================
