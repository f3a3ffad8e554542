-------------------------- MODULE TcpSocketProofs ---------------------------
(***************************************************************************)
(* Proofs about TcpSocket for any number of attempts and writes and        *)
(* buffers of any size.                                                    *)
(*                                                                         *)
(* What a socket has still to do in a callback is what its invariants are  *)
(* about: the removal of a second descriptor (Racing), the word to the     *)
(* program (Calm), the writing of what is pending (Watched).  The bytes    *)
(* are counted from the buffer the list of pending writes starts with      *)
(* (Stream): that they follow one another, whatever the size of a buffer,  *)
(* is arithmetic (BytesInOrder).                                           *)
(***************************************************************************)
EXTENDS TcpSocket, SequenceTheorems, FiniteSetTheorems, TLAPS

-----------------------------------------------------------------------------
(* The inductive invariant *)

\* The steps a stack holds.
Left(s) == {s[i] : i \in 1..Len(s)}

\* An event is for the descriptor it was reported of.
Typed == TypeOK /\ \A e \in Left(stack) : e.op = "fdWrite" => e.fd # 0

\* A second descriptor of a connected socket is about to be removed.
Racing ==
    mState = "Connected" /\ Open = Families => \E e \in Left(stack) : e.op = "dropOther"

\* What socketCallback and internalConnect end with comes last.
Final == {"dropOther", "fdWrite"}
FinalLast(s) == \A i \in 1..(Len(s) - 1) : s[i].op \notin Final

Failed == mState \in {"Closed", "Error"}

\* Unless close(), FdError or a handler's connect() interfered, a socket without
\* descriptors has told the program: the attempt that succeeded keeps its
\* descriptor until then, and one that fails in silence leaves the other one.
Calm ==
    ~closed /\ ~gone /\ ~inside =>
        /\ Open = {} => mState = "Idle" \/ Failed
        /\ FinalLast(stack)
        /\ \A e \in Left(stack) :
              /\ e.op = "dropOther" => Failed \/ e.f \in Open
              /\ e.op = "drop" => Failed \/ (Len(stack) = 1 /\ Other(e.f) \in Open)

\* The number of bytes written before the pending ones.
Start == (writes - Len(mPendingWrites)) * BufferSize + mWriteOffset

\* The pending buffers are the last ones written, and the kernel has all bytes up to
\* the first pending one; it has no more, as long as no buffer was kept in the list.
Stream ==
    /\ Len(mPendingWrites) <= writes
    /\ \A i \in 1..Len(mPendingWrites) : mPendingWrites[i] = writes - Len(mPendingWrites) + i
    /\ mPendingWrites = <<>> => mWriteOffset = 0
    /\ \E n \in 0..(writes * BufferSize) :
          /\ sent = 1..n
          /\ Start <= n
          /\ ~resent => n = Start /\ again = {}

\* What a connected socket has to write waits for room, or for its turn in this
\* callback; a descriptor for which neither holds has been closed by the loop, or
\* is about to be removed.
Watched ==
    mState = "Connected" /\ mPendingWrites # <<>> /\ failed = "none" =>
        \A f \in Open :
            \/ "out" \in want[f] \/ peer[f] = "lost"
            \/ \E e \in Left(stack) : e.op = "write" /\ e.f = f
            \/ \E e \in Left(stack) : e.op = "dropOther" /\ e.f = Other(f)

IInv == Typed /\ Racing /\ WriteAsserts /\ Calm /\ Stream /\ Watched

-----------------------------------------------------------------------------
(* The stack *)

LEMMA Families2 ==
    /\ \A f \in Families : Other(f) \in Families /\ Other(f) # f /\ Families = {f, Other(f)}
    /\ \A f \in Families : Other(Other(f)) = f
<1>1. \A f \in Families : f = 4 \/ f = 6
  BY DEF Families
<1> QED BY <1>1 DEF Families, Other

LEMMA LeftElement ==
    ASSUME NEW T, NEW s \in Seq(T), NEW e
    PROVE  e \in Left(s) <=> \E i \in 1..Len(s) : s[i] = e
BY DEF Left

\* Steps put on top of what is left.
LEMMA Pushed ==
    ASSUME NEW T, NEW ops \in Seq(T), NEW s \in Seq(T)
    PROVE  /\ ops \o s \in Seq(T) /\ Len(ops \o s) = Len(ops) + Len(s)
           /\ Left(ops \o s) = Left(ops) \cup Left(s)
<1> DEFINE w == ops \o s
<1>1. /\ w \in Seq(T) /\ Len(w) = Len(ops) + Len(s)
      /\ \A i \in 1..(Len(ops) + Len(s)) : w[i] = IF i <= Len(ops) THEN ops[i] ELSE s[i - Len(ops)]
  BY ConcatProperties
<1> HIDE DEF w
<1>2. Len(ops) \in Nat /\ Len(s) \in Nat
  OBVIOUS
<1>3. \A i \in 1..Len(w) : \/ i \in 1..Len(ops) /\ w[i] = ops[i]
                           \/ i - Len(ops) \in 1..Len(s) /\ w[i] = s[i - Len(ops)]
  BY <1>1, <1>2
<1>4. \A i \in 1..Len(ops) : i \in 1..Len(w) /\ w[i] = ops[i]
  BY <1>1, <1>2
<1>5. \A i \in 1..Len(s) : i + Len(ops) \in 1..Len(w) /\ w[i + Len(ops)] = s[i]
  <2> TAKE i \in 1..Len(s)
  <2>1. i + Len(ops) \in 1..(Len(ops) + Len(s)) /\ ~(i + Len(ops) <= Len(ops)) /\ (i + Len(ops)) - Len(ops) = i
    BY <1>2
  <2> QED BY <1>1, <2>1
<1>6. ASSUME NEW e PROVE e \in Left(w) <=> e \in Left(ops) \/ e \in Left(s)
  <2>1. e \in Left(w) => e \in Left(ops) \/ e \in Left(s)
    BY <1>3 DEF Left
  <2>2. e \in Left(ops) => e \in Left(w)
    BY <1>4 DEF Left
  <2>3. e \in Left(s) => e \in Left(w)
    BY <1>5 DEF Left
  <2> QED BY <2>1, <2>2, <2>3
<1> QED BY <1>1, <1>6 DEF w

\* The step on top and the others.
LEMMA Topped ==
    ASSUME NEW T, NEW s \in Seq(T), s # <<>>
    PROVE  /\ Tail(s) \in Seq(T) /\ Len(Tail(s)) = Len(s) - 1
           /\ Head(s) \in T /\ Len(s) \in Nat /\ Len(s) >= 1
           /\ Left(s) = {Head(s)} \cup Left(Tail(s))
<1>1. /\ Tail(s) \in Seq(T) /\ Len(Tail(s)) = Len(s) - 1 /\ Head(s) = s[1]
      /\ \A i \in 1..Len(Tail(s)) : Tail(s)[i] = s[i + 1]
  BY HeadTailProperties
<1>2. Len(s) \in Nat /\ Len(s) >= 1 /\ Head(s) \in T
  OBVIOUS
<1>3. \A i \in 1..Len(s) : i = 1 \/ (i - 1 \in 1..Len(Tail(s)) /\ Tail(s)[i - 1] = s[i])
  <2> TAKE i \in 1..Len(s)
  <2>1. i # 1 => i - 1 \in 1..Len(Tail(s)) /\ (i - 1) + 1 = i
    BY <1>1, <1>2
  <2> QED BY <1>1, <2>1
<1>4. \A i \in 1..Len(Tail(s)) : i + 1 \in 1..Len(s)
  BY <1>1, <1>2
<1>5. 1 \in 1..Len(s)
  BY <1>2
<1>6. ASSUME NEW e PROVE e \in Left(s) <=> e = Head(s) \/ e \in Left(Tail(s))
  <2>1. e \in Left(s) => e = Head(s) \/ e \in Left(Tail(s))
    BY <1>1, <1>3 DEF Left
  <2>2. e \in Left(Tail(s)) => e \in Left(s)
    BY <1>1, <1>4 DEF Left
  <2>3. Head(s) \in Left(s)
    BY <1>1, <1>5 DEF Left
  <2> QED BY <2>1, <2>2, <2>3
<1> QED BY <1>1, <1>2, <1>6

\* The sequences of steps the code leaves to do.
LEMMA Few ==
    /\ Left(<<>>) = {} /\ Len(<<>>) = 0
    /\ \A a : Left(<<a>>) = {a} /\ Len(<<a>>) = 1
    /\ \A a, b : Left(<<a, b>>) = {a, b} /\ Len(<<a, b>>) = 2
    /\ \A a, b, c : Left(<<a, b, c>>) = {a, b, c} /\ Len(<<a, b, c>>) = 3
<1>1. Left(<<>>) = {} /\ Len(<<>>) = 0
  BY DEF Left
<1>2. ASSUME NEW a PROVE Left(<<a>>) = {a} /\ Len(<<a>>) = 1
  BY DEF Left
<1>3. ASSUME NEW a, NEW b PROVE Left(<<a, b>>) = {a, b} /\ Len(<<a, b>>) = 2
  <2>1. Len(<<a, b>>) = 2 /\ 1..2 = {1, 2}
    OBVIOUS
  <2> QED BY <2>1 DEF Left
<1>4. ASSUME NEW a, NEW b, NEW c PROVE Left(<<a, b, c>>) = {a, b, c} /\ Len(<<a, b, c>>) = 3
  <2>1. Len(<<a, b, c>>) = 3 /\ 1..3 = {1, 2, 3}
    OBVIOUS
  <2> QED BY <2>1 DEF Left
<1> QED BY <1>1, <1>2, <1>3, <1>4

\* What comes last stays last when steps are taken or added that do not.
LEMMA StaysLast ==
    ASSUME NEW ops \in Seq(Ops), NEW s \in Seq(Ops), FinalLast(s),
           \A e \in Left(ops) : e.op \notin Final
    PROVE  FinalLast(ops \o s)
<1> DEFINE w == ops \o s
<1>1. /\ w \in Seq(Ops) /\ Len(w) = Len(ops) + Len(s)
      /\ \A i \in 1..(Len(ops) + Len(s)) : w[i] = IF i <= Len(ops) THEN ops[i] ELSE s[i - Len(ops)]
  BY ConcatProperties
<1> HIDE DEF w
<1>2. Len(ops) \in Nat /\ Len(s) \in Nat
  OBVIOUS
<1>3. ASSUME NEW i \in 1..(Len(w) - 1) PROVE w[i].op \notin Final
  <2>1. CASE i <= Len(ops)
    <3>1. i \in 1..Len(ops) /\ w[i] = ops[i]
      BY <1>1, <1>2, <2>1
    <3> QED BY <3>1 DEF Left
  <2>2. CASE ~(i <= Len(ops))
    <3>1. i - Len(ops) \in 1..(Len(s) - 1) /\ w[i] = s[i - Len(ops)]
      BY <1>1, <1>2, <2>2
    <3> QED BY <3>1 DEF FinalLast
  <2> QED BY <2>1, <2>2
<1> QED BY <1>3 DEF w, FinalLast

LEMMA LastTopped ==
    ASSUME NEW s \in Seq(Ops), s # <<>>, FinalLast(s)
    PROVE  FinalLast(Tail(s)) /\ (Head(s).op \in Final => Tail(s) = <<>>)
<1>1. /\ Tail(s) \in Seq(Ops) /\ Len(Tail(s)) = Len(s) - 1 /\ Head(s) = s[1]
      /\ \A i \in 1..Len(Tail(s)) : Tail(s)[i] = s[i + 1]
  BY HeadTailProperties
<1>2. Len(s) \in Nat /\ Len(s) >= 1
  OBVIOUS
<1>3. FinalLast(Tail(s))
  <2> SUFFICES ASSUME NEW i \in 1..(Len(Tail(s)) - 1) PROVE Tail(s)[i].op \notin Final
    BY DEF FinalLast
  <2>1. i + 1 \in 1..(Len(s) - 1) /\ i \in 1..Len(Tail(s))
    BY <1>1, <1>2
  <2> QED BY <1>1, <2>1 DEF FinalLast
<1>4. ASSUME Head(s).op \in Final PROVE Tail(s) = <<>>
  <2>1. ~(1 \in 1..(Len(s) - 1))
    BY <1>1, <1>4 DEF FinalLast
  <2>2. Len(Tail(s)) = 0
    BY <1>1, <1>2, <2>1
  <2> QED BY <1>1, <2>2, EmptySeq
<1> QED BY <1>3, <1>4

-----------------------------------------------------------------------------
(* The bytes to be written *)

LEMMA Division ==
    ASSUME NEW b \in Nat \ {0}, NEW a \in Nat
    PROVE  /\ a \div b \in Nat /\ a % b \in 0..(b - 1)
           /\ a = b * (a \div b) + (a % b)
OBVIOUS

LEMMA Products ==
    ASSUME NEW b \in Nat \ {0}, NEW k \in Nat, NEW n \in Nat
    PROVE  /\ k <= n => k * b <= n * b
           /\ k < n => k * b + b <= n * b
           /\ k * b \in Nat
<1>1. ASSUME NEW d \in Nat PROVE d * b \in Nat
  OBVIOUS
<1>2. ASSUME k <= n PROVE k * b <= n * b
  <2>1. n - k \in Nat /\ (n - k) * b = n * b - k * b
    BY <1>2
  <2>2. (n - k) * b \in Nat
    BY <1>1, <2>1
  <2> QED BY <1>1, <2>1, <2>2
<1>3. ASSUME k < n PROVE k * b + b <= n * b
  <2>1. n - k - 1 \in Nat /\ (n - k - 1) * b = n * b - k * b - b
    BY <1>3
  <2>2. (n - k - 1) * b \in Nat
    BY <1>1, <2>1
  <2> QED BY <1>1, <2>1, <2>2
<1> QED BY <1>1, <1>2, <1>3

LEMMA Numbers ==
    ASSUME TypeOK, Stream
    PROVE  /\ BufferSize \in Nat \ {0} /\ MaxWrites \in Nat
           /\ writes \in 0..MaxWrites /\ writes \in Nat
           /\ Len(mPendingWrites) \in Nat /\ writes - Len(mPendingWrites) \in Nat
           /\ mPendingWrites \in Seq(1..MaxWrites) /\ mPendingWrites \in Seq(Nat)
           /\ mWriteOffset \in 0..(BufferSize - 1) /\ mWriteOffset \in Nat
<1>1. BufferSize \in Nat \ {0} /\ MaxWrites \in Nat
  BY TcpSocketAssumption
<1>2. writes \in 0..MaxWrites /\ mPendingWrites \in Seq(1..MaxWrites) /\ mWriteOffset \in 0..(BufferSize - 1)
  BY DEF TypeOK
<1>3. \A i \in 1..Len(mPendingWrites) : mPendingWrites[i] \in Nat
  BY <1>1, <1>2
<1>4. mPendingWrites \in Seq(Nat)
  BY <1>1, <1>2, <1>3
<1>5. Len(mPendingWrites) <= writes
  BY DEF Stream
<1>6. writes \in Nat /\ Len(mPendingWrites) \in Nat /\ mWriteOffset \in Nat
  BY <1>1, <1>2
<1>7. writes - Len(mPendingWrites) \in Nat
  BY <1>5, <1>6
<1> QED BY <1>1, <1>2, <1>4, <1>6, <1>7

\* The pending bytes follow one another from Start on.
LEMMA BytesInOrder ==
    ASSUME TypeOK, Stream
    PROVE  /\ Len(Bytes) \in Nat /\ Start \in Nat
           /\ Len(Bytes) = Len(mPendingWrites) * BufferSize - mWriteOffset
           /\ \A i \in 1..Len(Bytes) : Bytes[i] = Start + i
           /\ Start + Len(Bytes) = writes * BufferSize
<1> DEFINE b == BufferSize
           l == Len(mPendingWrites)
           K == l * b - mWriteOffset
           base == writes - l
<1>1. /\ b \in Nat \ {0} /\ l \in Nat /\ writes \in Nat /\ mWriteOffset \in 0..(b - 1)
      /\ l <= writes /\ base \in Nat
      /\ \A i \in 1..l : mPendingWrites[i] = base + i
  BY Numbers DEF Stream
<1>2. l = 0 => mWriteOffset = 0
  BY <1>1, EmptySeq DEF TypeOK, Stream
<1>3. Start = base * b + mWriteOffset
  BY DEF Start
<1>4. Bytes = [i \in 1..K |-> (mPendingWrites[(i - 1 + mWriteOffset) \div b + 1] - 1) * b
                               + ((i - 1 + mWriteOffset) % b) + 1]
  BY DEF Bytes
<1> HIDE DEF b, l
<1>5. K \in Nat
  <2>1. CASE l = 0
    <3>1. l * b = 0
      BY <1>1, <2>1
    <3> QED BY <1>2, <2>1, <3>1
  <2>2. CASE l > 0
    <3>1. 0 * b + b <= l * b /\ l * b \in Nat /\ 0 * b = 0
      BY <1>1, <2>2, Products
    <3> QED BY <1>1, <3>1
  <2> QED BY <1>1, <2>1, <2>2
<1>6. base * b \in Nat /\ l * b \in Nat /\ base * b + l * b = writes * b
  <2>1. base * b \in Nat /\ l * b \in Nat
    BY <1>1, Products
  <2>2. (writes - l) * b = writes * b - l * b
    BY <1>1
  <2> QED BY <1>1, <2>1, <2>2
<1>7. ASSUME NEW i \in 1..K PROVE Bytes[i] = Start + i
  <2> DEFINE at == i - 1 + mWriteOffset
             q == at \div b
             r == at % b
  <2>1. at \in Nat /\ at < l * b
    BY <1>1, <1>5, <1>6
  <2>2. q \in Nat /\ r \in 0..(b - 1) /\ at = b * q + r
    BY <1>1, <2>1, Division
  <2>3. Bytes[i] = (mPendingWrites[q + 1] - 1) * b + r + 1
    BY <1>4
  <2> HIDE DEF q, r
  <2>4. q < l
    <3>1. SUFFICES ASSUME l <= q PROVE FALSE
      BY <1>1, <2>2
    <3>2. l * b <= q * b /\ q * b = b * q
      BY <1>1, <2>2, <3>1, Products
    <3> HIDE DEF at
    <3>3. b * q \in Nat
      BY <1>1, <2>2
    <3> QED BY <1>6, <2>1, <2>2, <3>2, <3>3
  <2>5. mPendingWrites[q + 1] = base + (q + 1)
    <3>1. q + 1 \in 1..l
      BY <1>1, <2>2, <2>4
    <3> QED BY <1>1, <3>1
  <2>6. (mPendingWrites[q + 1] - 1) * b = base * b + b * q
    <3>1. mPendingWrites[q + 1] - 1 = base + q
      BY <1>1, <2>2, <2>5
    <3>2. (base + q) * b = base * b + b * q
      BY <1>1, <2>2
    <3> QED BY <3>1, <3>2
  <2>7. b * q \in Nat
    BY <1>1, <2>2
  <2> QED BY <1>1, <1>3, <1>6, <2>2, <2>3, <2>6, <2>7
<1>8. Len(Bytes) = K
  <2>1. Bytes \in [1..K -> {Bytes[i] : i \in 1..K}] /\ DOMAIN Bytes = 1..K
    BY <1>4
  <2> HIDE DEF K
  <2>2. Bytes \in Seq({Bytes[i] : i \in 1..K})
    BY <1>5, <2>1, SeqDef
  <2> QED BY <1>5, <2>1, <2>2, LenProperties
<1> HIDE DEF K
<1>9. K = l * b - mWriteOffset
  BY DEF K
<1> QED BY <1>1, <1>3, <1>5, <1>6, <1>7, <1>8, <1>9 DEF b, l

\* The next bytes to be taken.
LEMMA Taken ==
    ASSUME TypeOK, Stream, NEW n \in 0..Len(Bytes)
    PROVE  {Bytes[i] : i \in 1..n} = Start + 1..Start + n
<1>1. Len(Bytes) \in Nat /\ Start \in Nat /\ \A i \in 1..Len(Bytes) : Bytes[i] = Start + i
  BY BytesInOrder
<1> HIDE DEF Start
<1>2. \A i \in 1..n : Bytes[i] = Start + i
  BY <1>1
<1> DEFINE bytes == Bytes
<1> HIDE DEF bytes
<1>3. \A x \in Start + 1..Start + n : x - Start \in 1..n /\ Start + (x - Start) = x
  BY <1>1
<1>4. \A i \in 1..n : Start + i \in Start + 1..Start + n
  BY <1>1
<1>5. ASSUME NEW x PROVE x \in {Bytes[i] : i \in 1..n} <=> x \in Start + 1..Start + n
  <2>1. ASSUME x \in {Bytes[i] : i \in 1..n} PROVE x \in Start + 1..Start + n
    BY <1>2, <1>4, <2>1
  <2>2. ASSUME x \in Start + 1..Start + n PROVE x \in {Bytes[i] : i \in 1..n}
    <3>1. x - Start \in 1..n /\ Bytes[x - Start] = x
      BY <1>2, <1>3, <2>2
    <3> QED BY <3>1
  <2> QED BY <2>1, <2>2
<1> QED BY <1>5

LEMMA Multiple == ASSUME NEW b \in Nat \ {0}, NEW k \in Nat PROVE (k * b) % b = 0
<1> DEFINE q == (k * b) \div b
           r == (k * b) % b
<1>1. k * b \in Nat
  BY Products
<1>2. q \in Nat /\ r \in 0..(b - 1) /\ k * b = b * q + r
  BY <1>1, Division
<1> HIDE DEF q, r
<1>3. b * q = q * b /\ q * b \in Nat
  BY <1>2, Products
<1>4. CASE q = k
  <2>1. r = 0
    BY <1>1, <1>2, <1>3, <1>4
  <2> QED BY <2>1 DEF r
<1>5. CASE q < k
  BY <1>1, <1>2, <1>3, <1>5, Products
<1>6. CASE k < q
  BY <1>1, <1>2, <1>3, <1>6, Products
<1> QED BY <1>2, <1>4, <1>5, <1>6

LEMMA Small == ASSUME NEW b \in Nat \ {0}, NEW a \in 0..(b - 1) PROVE a % b = a
OBVIOUS

\* A step that takes n bytes, of all or of some buffers.
LEMMA TakesInOrder ==
    ASSUME TypeOK, Stream, NEW n \in 0..Len(Bytes), Takes(n)
    PROVE  \E m \in 0..(writes * BufferSize) :
              /\ sent' = 1..m
              /\ Start + n <= m
              /\ ~resent => m = Start + n /\ again' = {}
<1>1. /\ Len(Bytes) \in Nat /\ Start \in Nat /\ n \in Nat
      /\ Start + Len(Bytes) = writes * BufferSize
  BY BytesInOrder
<1>2. PICK m \in 0..(writes * BufferSize) :
          sent = 1..m /\ Start <= m /\ (~resent => m = Start /\ again = {})
  BY DEF Stream
<1>3. sent' = sent \cup (Start + 1..Start + n) /\ again' = again \cup (sent \cap (Start + 1..Start + n))
  BY Taken DEF Takes
<1> HIDE DEF Start
<1>4. m \in Nat /\ Start + n \in 0..(writes * BufferSize)
  BY <1>1, <1>2
<1>5. CASE Start + n <= m
  <2>1. sent' = 1..m
    BY <1>1, <1>2, <1>3, <1>4, <1>5
  <2>2. ~resent => n = 0 /\ (Start + 1..Start + n) = {}
    BY <1>1, <1>2, <1>4, <1>5
  <2> QED BY <1>1, <1>2, <1>3, <1>4, <1>5, <2>1, <2>2
<1>6. CASE m < Start + n
  <2>1. sent' = 1..(Start + n)
    BY <1>1, <1>2, <1>3, <1>4, <1>6
  <2>2. ~resent => sent \cap (Start + 1..Start + n) = {}
    BY <1>1, <1>2, <1>4
  <2> QED BY <1>1, <1>2, <1>3, <1>4, <2>1, <2>2
<1> QED BY <1>1, <1>4, <1>5, <1>6

LEMMA WriteAllStream == ASSUME TypeOK, Stream, WriteAll PROVE Stream'
<1>1. /\ Len(Bytes) \in Nat /\ Start \in Nat
      /\ Len(Bytes) = Len(mPendingWrites) * BufferSize - mWriteOffset
      /\ Start + Len(Bytes) = writes * BufferSize
  BY BytesInOrder
<1>2. /\ Takes(Len(Bytes)) /\ mPendingWrites' = <<>> /\ resent' = resent /\ writes' = writes
      /\ mWriteOffset' = (mWriteOffset + Len(Bytes)) % BufferSize
  BY DEF WriteAll, Takes, OffsetAfter, progVars
<1>3. /\ BufferSize \in Nat \ {0} /\ writes \in Nat
      /\ Len(mPendingWrites) \in Nat /\ mWriteOffset \in Nat
  BY Numbers
<1>4. mWriteOffset' = 0
  <2>1. Len(mPendingWrites) * BufferSize \in Nat
    BY <1>3, Products
  <2>2. mWriteOffset + Len(Bytes) = Len(mPendingWrites) * BufferSize
    BY <1>1, <1>3, <2>1
  <2> QED BY <1>2, <1>3, <2>2, Multiple
<1>5. Len(mPendingWrites') = 0 /\ mPendingWrites' = <<>>
  BY <1>2
<1>6. Start' = writes * BufferSize
  <2>1. (writes - 0) * BufferSize + 0 = writes * BufferSize
    BY <1>3
  <2> QED BY <1>2, <1>4, <1>5, <2>1 DEF Start
<1>7. PICK m \in 0..(writes * BufferSize) :
          sent' = 1..m /\ Start + Len(Bytes) <= m /\ (~resent => m = Start + Len(Bytes) /\ again' = {})
  BY <1>1, <1>2, TakesInOrder
<1>8. writes * BufferSize \in Nat
  BY <1>3, Products
<1>9. \E n \in 0..(writes' * BufferSize) :
          sent' = 1..n /\ Start' <= n /\ (~resent' => n = Start' /\ again' = {})
  BY <1>1, <1>2, <1>6, <1>7
<1>10. Len(mPendingWrites') <= writes' /\ 1..Len(mPendingWrites') = {}
  BY <1>2, <1>3, <1>5
<1> QED BY <1>4, <1>9, <1>10 DEF Stream

LEMMA WriteSomeStream == ASSUME TypeOK, Stream, WriteSome PROVE Stream'
<1>1. /\ Len(Bytes) \in Nat /\ Start \in Nat
      /\ Start + Len(Bytes) = writes * BufferSize
  BY BytesInOrder
<1>2. PICK n \in 0..Len(Bytes) :
          /\ Takes(n) /\ resent' = (resent \/ mWriteOffset + n >= BufferSize)
          /\ mWriteOffset' = (mWriteOffset + n) % BufferSize
          /\ mPendingWrites' = mPendingWrites /\ writes' = writes /\ mPendingWrites # <<>>
  <2>1. PICK n \in 0..(IF peer[Top.f] = "connecting" THEN 0 ELSE Len(Bytes) - 1) :
          /\ Takes(n) /\ resent' = (resent \/ mWriteOffset + n >= BufferSize)
    BY DEF WriteSome
  <2>2. n \in 0..Len(Bytes)
    BY <1>1, <2>1
  <2> QED BY <2>1, <2>2 DEF WriteSome, Takes, OffsetAfter, progVars
<1>3. BufferSize \in Nat \ {0} /\ mWriteOffset \in Nat /\ n \in Nat
  BY <1>1, Numbers
<1>4. PICK before \in Nat : Start = before + mWriteOffset /\ Start' = before + mWriteOffset'
  <2> DEFINE k == (writes - Len(mPendingWrites)) * BufferSize
  <2>1. writes - Len(mPendingWrites) \in Nat
    BY Numbers
  <2>2. k \in Nat
    BY <1>3, <2>1, Products
  <2>3. Start = k + mWriteOffset /\ Start' = k + mWriteOffset'
    BY <1>2 DEF Start
  <2> QED BY <2>2, <2>3
<1>5. PICK rest \in Nat : mWriteOffset' = rest /\ rest <= mWriteOffset + n
  <2> DEFINE a == mWriteOffset + n
             q == a \div BufferSize
  <2>1. a \in Nat
    BY <1>3
  <2>2. q \in Nat /\ a % BufferSize \in 0..(BufferSize - 1) /\ a = BufferSize * q + (a % BufferSize)
    BY <1>3, <2>1, Division
  <2> HIDE DEF q
  <2>3. BufferSize * q \in Nat
    BY <1>3, <2>2
  <2>4. mWriteOffset' = a % BufferSize
    BY <1>2
  <2> HIDE DEF a
  <2>5. a % BufferSize <= a
    BY <1>3, <2>1, <2>2, <2>3
  <2> QED BY <1>3, <2>2, <2>4, <2>5 DEF a
<1>6. ~resent' => mWriteOffset' = mWriteOffset + n
  <2>1. SUFFICES ASSUME ~(mWriteOffset + n >= BufferSize) PROVE mWriteOffset' = mWriteOffset + n
    BY <1>2
  <2>2. mWriteOffset + n \in 0..(BufferSize - 1)
    BY <1>3, <2>1
  <2> QED BY <1>2, <1>3, <2>2, Small
<1>7. Start' <= Start + n
  <2>1. Start = before + mWriteOffset /\ Start' = before + rest
    BY <1>4, <1>5
  <2>2. before + rest <= (before + mWriteOffset) + n
    BY <1>3, <1>5
  <2> QED BY <2>1, <2>2
<1>8. ~resent' => Start' = Start + n
  BY <1>3, <1>4, <1>6
<1>9. PICK m \in 0..(writes * BufferSize) :
          sent' = 1..m /\ Start + n <= m /\ (~resent => m = Start + n /\ again' = {})
  BY <1>2, TakesInOrder
<1>10. Start' <= m /\ (~resent' => m = Start' /\ again' = {})
  <2>1. m \in Nat
    BY <1>1, <1>9
  <2>2. Start' \in Nat /\ Start + n \in Nat
    BY <1>1, <1>3, <1>4, <1>5
  <2>3. Start' <= m
    BY <1>7, <1>9, <2>1, <2>2
  <2>4. ~resent' => ~resent
    BY <1>2
  <2> QED BY <1>8, <1>9, <2>3, <2>4
<1>11. \E k \in 0..(writes' * BufferSize) :
          sent' = 1..k /\ Start' <= k /\ (~resent' => k = Start' /\ again' = {})
  BY <1>2, <1>9, <1>10
<1> QED BY <1>2, <1>11 DEF Stream

LEMMA WriteStream == ASSUME TypeOK, Stream, Write PROVE Stream'
<1>1. /\ writes' = writes + 1 /\ mPendingWrites' = Append(mPendingWrites, writes + 1)
      /\ UNCHANGED <<mWriteOffset, sent, again, resent>>
  BY DEF Write
<1> DEFINE l == Len(mPendingWrites)
<1>2. /\ BufferSize \in Nat \ {0} /\ MaxWrites \in Nat /\ writes \in Nat /\ l \in Nat /\ l <= writes
      /\ mPendingWrites \in Seq(Nat) /\ mWriteOffset \in 0..(BufferSize - 1)
  BY Numbers DEF Stream
<1>3. /\ mPendingWrites' \in Seq(Nat) /\ Len(mPendingWrites') = l + 1
      /\ \A i \in 1..l : mPendingWrites'[i] = mPendingWrites[i]
      /\ mPendingWrites'[l + 1] = writes + 1
  BY <1>1, <1>2, AppendProperties
<1>4. Start' = Start
  <2>1. writes' - Len(mPendingWrites') = writes - l
    BY <1>1, <1>2, <1>3
  <2> QED BY <1>1, <2>1 DEF Start
<1>5. writes * BufferSize \in Nat /\ writes' * BufferSize = writes * BufferSize + BufferSize
  <2>1. (writes + 1) * BufferSize = writes * BufferSize + BufferSize
    BY <1>2
  <2> QED BY <1>1, <1>2, <2>1, Products
<1>6. PICK n \in 0..(writes * BufferSize) :
          sent = 1..n /\ Start <= n /\ (~resent => n = Start /\ again = {})
  BY DEF Stream
<1>7. \E k \in 0..(writes' * BufferSize) :
          sent' = 1..k /\ Start' <= k /\ (~resent' => k = Start' /\ again' = {})
  <2>1. n \in 0..(writes' * BufferSize)
    BY <1>2, <1>5, <1>6
  <2> QED BY <1>1, <1>4, <1>6, <2>1
<1>8. \A i \in 1..Len(mPendingWrites') : mPendingWrites'[i] = writes' - Len(mPendingWrites') + i
  <2> SUFFICES ASSUME NEW i \in 1..Len(mPendingWrites')
               PROVE  mPendingWrites'[i] = writes' - Len(mPendingWrites') + i
    OBVIOUS
  <2>1. CASE i \in 1..l
    <3>1. mPendingWrites[i] = writes - l + i
      BY <2>1 DEF Stream
    <3> QED BY <1>1, <1>2, <1>3, <2>1, <3>1
  <2>2. CASE i = l + 1
    BY <1>1, <1>2, <1>3, <2>2
  <2> QED BY <1>2, <1>3, <2>1, <2>2
<1>9. mPendingWrites' # <<>>
  BY <1>2, <1>3, EmptySeq
<1>10. Len(mPendingWrites') <= writes'
  BY <1>1, <1>2, <1>3
<1> QED BY <1>7, <1>8, <1>9, <1>10 DEF Stream

\* The bytes and the buffers after any step.
LEMMA StreamInv == ASSUME TypeOK, Stream, [Next]_vars PROVE Stream'
<1>1. CASE UNCHANGED <<writeVars, writes>>
  <2>1. UNCHANGED <<mPendingWrites, mWriteOffset, sent, again, resent, writes>>
    BY <1>1 DEF writeVars
  <2>2. Start' = Start
    BY <2>1 DEF Start
  <2> QED BY <2>1, <2>2 DEF Stream
<1>2. CASE WriteAll
  BY <1>2, WriteAllStream
<1>3. CASE WriteSome
  BY <1>3, WriteSomeStream
<1>4. CASE Write
  BY <1>4, WriteStream
<1>5. CASE UNCHANGED vars
  BY <1>1, <1>5 DEF vars, writeVars
<1>6. CASE WatchConnect \/ DropFd \/ FdWrite \/ FdWriteGone
  BY <1>1, <1>6 DEF WatchConnect, DropFd, FdWrite, FdWriteGone, progVars
<1>7. CASE ReadData \/ ReadNothing \/ ReadEnds \/ ReadAsserts
  BY <1>1, <1>7 DEF ReadData, ReadNothing, ReadEnds, ReadAsserts, progVars
<1>8. CASE WriteFails \/ Returns \/ Close
  BY <1>1, <1>8 DEF WriteFails, Returns, Close, progVars
<1>9. ASSUME NEW f \in Families,
             Settles(f) \/ Breaks(f) \/ PeerSends(f) \/ Connect(f) \/ Callback(f) \/ FdError(f)
      PROVE  Stream'
  BY <1>1, <1>9 DEF Settles, Breaks, Network, PeerSends, Connect, Callback, FdError, progVars
<1> QED BY <1>2, <1>3, <1>4, <1>5, <1>6, <1>7, <1>8, <1>9 DEF Next, Step

\* The part of the type invariant that is about writing.
WritesTyped ==
    /\ mPendingWrites \in Seq(1..MaxWrites)
    /\ mWriteOffset \in 0..(BufferSize - 1)
    /\ again \subseteq sent /\ sent \subseteq 1..(MaxWrites * BufferSize)
    /\ resent \in BOOLEAN
    /\ writes \in 0..MaxWrites

LEMMA WritesTypedInv == ASSUME TypeOK, Stream, [Next]_vars PROVE WritesTyped'
<1>1. /\ Stream' /\ WritesTyped /\ BufferSize \in Nat \ {0} /\ MaxWrites \in Nat
      /\ Len(Bytes) \in Nat /\ mWriteOffset \in Nat /\ writes \in Nat
  BY StreamInv, BytesInOrder, Numbers DEF TypeOK, WritesTyped
<1>2. ASSUME writes' \in 0..MaxWrites
      PROVE  sent' \subseteq 1..(MaxWrites * BufferSize)
  <2>1. writes' \in Nat /\ writes' <= MaxWrites
    BY <1>1, <1>2
  <2>2. writes' * BufferSize <= MaxWrites * BufferSize /\ writes' * BufferSize \in Nat /\ MaxWrites * BufferSize \in Nat
    BY <1>1, <2>1, Products
  <2>3. PICK n \in 0..(writes' * BufferSize) : sent' = 1..n
    BY <1>1 DEF Stream
  <2>4. n \in Nat /\ n <= MaxWrites * BufferSize
    BY <2>2, <2>3
  <2> QED BY <2>2, <2>3, <2>4
<1>3. CASE UNCHANGED <<writeVars, writes>>
  BY <1>1, <1>3 DEF writeVars, WritesTyped
<1>4. ASSUME NEW n \in 0..Len(Bytes), Takes(n), writes' = writes, resent' \in BOOLEAN,
             mPendingWrites' \in Seq(1..MaxWrites)
      PROVE  WritesTyped'
  <2>1. again' \subseteq sent'
    BY <1>1, <1>4 DEF Takes, WritesTyped
  <2>2. mWriteOffset' \in 0..(BufferSize - 1)
    <3>1. mWriteOffset + n \in Nat
      BY <1>1
    <3> QED BY <1>1, <1>4, <3>1, Division DEF Takes, OffsetAfter
  <2> QED BY <1>1, <1>2, <1>4, <2>1, <2>2 DEF WritesTyped
<1>5. CASE WriteAll
  <2>1. /\ Takes(Len(Bytes)) /\ writes' = writes /\ resent' = resent /\ mPendingWrites' = <<>>
    BY <1>5 DEF WriteAll, progVars
  <2>2. Len(Bytes) \in 0..Len(Bytes) /\ <<>> \in Seq(1..MaxWrites)
    BY <1>1
  <2> QED BY <1>1, <1>4, <2>1, <2>2 DEF WritesTyped
<1>6. CASE WriteSome
  <2>1. PICK n \in 0..(IF peer[Top.f] = "connecting" THEN 0 ELSE Len(Bytes) - 1) :
          /\ Takes(n) /\ resent' = (resent \/ mWriteOffset + n >= BufferSize)
    BY <1>6 DEF WriteSome
  <2>2. n \in 0..Len(Bytes)
    BY <1>1, <2>1
  <2>3. writes' = writes /\ mPendingWrites' = mPendingWrites
    BY <1>6 DEF WriteSome, progVars
  <2>4. resent' \in BOOLEAN
    BY <2>1
  <2> QED BY <1>1, <1>4, <2>1, <2>2, <2>3, <2>4 DEF WritesTyped
<1>7. CASE Write
  <2>1. /\ writes < MaxWrites /\ writes' = writes + 1 /\ mPendingWrites' = Append(mPendingWrites, writes + 1)
        /\ UNCHANGED <<mWriteOffset, sent, again, resent>>
    BY <1>7 DEF Write
  <2>2. writes' \in 0..MaxWrites /\ writes + 1 \in 1..MaxWrites
    BY <1>1, <2>1
  <2>3. mPendingWrites' \in Seq(1..MaxWrites)
    BY <1>1, <2>1, <2>2, AppendProperties DEF WritesTyped
  <2> QED BY <1>1, <1>2, <2>1, <2>2, <2>3 DEF WritesTyped
<1>8. CASE UNCHANGED vars
  BY <1>3, <1>8 DEF vars, writeVars
<1>9. CASE WatchConnect \/ DropFd \/ FdWrite \/ FdWriteGone
  BY <1>3, <1>9 DEF WatchConnect, DropFd, FdWrite, FdWriteGone, progVars
<1>10. CASE ReadData \/ ReadNothing \/ ReadEnds \/ ReadAsserts
  BY <1>3, <1>10 DEF ReadData, ReadNothing, ReadEnds, ReadAsserts, progVars
<1>11. CASE WriteFails \/ Returns \/ Close
  BY <1>3, <1>11 DEF WriteFails, Returns, Close, progVars
<1>12. ASSUME NEW f \in Families,
              Settles(f) \/ Breaks(f) \/ PeerSends(f) \/ Connect(f) \/ Callback(f) \/ FdError(f)
       PROVE  WritesTyped'
  BY <1>3, <1>12 DEF Settles, Breaks, Network, PeerSends, Connect, Callback, FdError, progVars
<1> QED BY <1>5, <1>6, <1>7, <1>8, <1>9, <1>10, <1>11, <1>12 DEF Next, Step

-----------------------------------------------------------------------------
(* The descriptors and the callback *)

KernelTyped ==
    /\ mFd \in [Families -> 0..(MaxConnects + 1)]
    /\ want \in [Families -> SUBSET {"in", "out"}]
    /\ peer \in [Families -> {"none", "connecting", "refused", "up", "shut", "reset", "lost"}]
    /\ avail \in [Families -> BOOLEAN]
    /\ \A f \in Families \ Open : want[f] = {} /\ peer[f] = "none" /\ ~avail[f]

\* The part of the type invariant that is not about writing.
SocketTyped ==
    /\ accepted \in BOOLEAN
    /\ mState \in {"Idle", "Connecting", "Connected", "Closed", "Error"}
    /\ KernelTyped
    /\ stack \in Seq(Ops)
    /\ failed \in {"none", "read", "write", "no fd"}
    /\ closed \in BOOLEAN /\ gone \in BOOLEAN /\ inside \in BOOLEAN
    /\ connects \in 0..MaxConnects /\ sends \in 0..MaxSends

EventsOwned == \A e \in Left(stack) : e.op = "fdWrite" => e.fd # 0

\* What is left of the invariant without the bytes.
Rest == SocketTyped /\ EventsOwned /\ Racing /\ WriteAsserts /\ Calm /\ Watched

LEMMA Parts == TypeOK <=> SocketTyped /\ WritesTyped
BY DEF TypeOK, SocketTyped, KernelTyped, WritesTyped

LEMMA DoTyped ==
    ASSUME KernelTyped, NEW f \in Families,
           NEW op \in {"read", "fdWrite", "write", "watch", "drop", "dropOther", "onState", "onData"}
    PROVE  /\ Do(op, f) \in Ops /\ Do(op, f).op = op /\ Do(op, f).f = f /\ Do(op, f).fd = mFd[f]
<1>1. mFd[f] \in 0..(MaxConnects + 1)
  BY DEF KernelTyped
<1> QED BY <1>1 DEF Do, Ops

\* Removing descriptors, watching the others for what events says.
LEMMA DropTyped ==
    ASSUME KernelTyped, NEW fs, NEW events \in [Families -> SUBSET {"in", "out"}],
           \A f \in Families \ Open : events[f] = {},
           Drop(fs, events)
    PROVE  /\ KernelTyped' /\ Open' = Open \ fs
           /\ \A f \in Families \ fs : mFd'[f] = mFd[f] /\ want'[f] = events[f] /\ peer'[f] = peer[f]
<1>1. Open' = Open \ fs
  BY DEF Drop, Open
<1>2. mFd' \in [Families -> 0..(MaxConnects + 1)]
  <2>1. 0 \in 0..(MaxConnects + 1)
    BY TcpSocketAssumption
  <2> QED BY <2>1 DEF KernelTyped, Drop
<1>3. want' \in [Families -> SUBSET {"in", "out"}]
  <2>1. {} \in SUBSET {"in", "out"}
    OBVIOUS
  <2> QED BY <2>1 DEF Drop
<1>4. peer' \in [Families -> {"none", "connecting", "refused", "up", "shut", "reset", "lost"}]
  BY DEF KernelTyped, Drop
<1>5. avail' \in [Families -> BOOLEAN]
  BY DEF KernelTyped, Drop
<1>6. ASSUME NEW f \in Families \ Open' PROVE want'[f] = {} /\ peer'[f] = "none" /\ ~avail'[f]
  <2>1. CASE f \in fs
    BY <2>1 DEF Drop
  <2>2. CASE f \notin fs
    BY <1>1, <1>6, <2>2 DEF Drop, KernelTyped
  <2> QED BY <2>1, <2>2
<1> QED BY <1>1, <1>2, <1>3, <1>4, <1>5, <1>6 DEF KernelTyped, Drop

LEMMA WatchTyped ==
    ASSUME KernelTyped, NEW f \in Families, NEW events \in SUBSET {"in", "out"}
    PROVE  /\ Watching(f, events) \in [Families -> SUBSET {"in", "out"}]
           /\ \A g \in Families \ Open : Watching(f, events)[g] = {}
           /\ \A g \in Families : Watching(f, events)[g] = IF g = f /\ f \in Open /\ peer[f] # "lost" THEN events ELSE want[g]
<1>1. /\ want \in [Families -> SUBSET {"in", "out"}]
      /\ \A g \in Families \ Open : want[g] = {}
  BY DEF KernelTyped
<1>2. \A g \in Families : Watching(f, events)[g] = IF g = f /\ f \in Open /\ peer[f] # "lost" THEN events ELSE want[g]
  BY <1>1 DEF Watching
<1>3. Watching(f, events) \in [Families -> SUBSET {"in", "out"}]
  BY <1>1 DEF Watching
<1> QED BY <1>1, <1>2, <1>3

\* The step on top is replaced.
LEMMA Replaced ==
    ASSUME NEW s \in Seq(Ops), s # <<>>, NEW ops \in Seq(Ops), NEW w, w = ops \o Tail(s)
    PROVE  /\ w \in Seq(Ops) /\ Len(w) = Len(ops) + Len(s) - 1
           /\ Left(w) = Left(ops) \cup Left(Tail(s))
           /\ Head(s) \in Ops /\ Left(s) = {Head(s)} \cup Left(Tail(s))
           /\ FinalLast(s) /\ (\A e \in Left(ops) : e.op \notin Final) => FinalLast(w)
           /\ FinalLast(s) /\ Head(s).op \in Final => Tail(s) = <<>> /\ Left(Tail(s)) = {}
           /\ Len(s) = 1 => Left(Tail(s)) = {}
<1>1. /\ Tail(s) \in Seq(Ops) /\ Len(Tail(s)) = Len(s) - 1 /\ Head(s) \in Ops
      /\ Len(s) \in Nat /\ Left(s) = {Head(s)} \cup Left(Tail(s))
  BY Topped
<1>2. /\ w \in Seq(Ops) /\ Len(w) = Len(ops) + Len(Tail(s))
      /\ Left(w) = Left(ops) \cup Left(Tail(s))
  <2>1. Tail(s) \in Seq(Ops)
    BY <1>1
  <2>2. /\ ops \o Tail(s) \in Seq(Ops) /\ Len(ops \o Tail(s)) = Len(ops) + Len(Tail(s))
        /\ Left(ops \o Tail(s)) = Left(ops) \cup Left(Tail(s))
    BY <2>1, Pushed, Zenon
  <2> QED BY <2>2
<1>3. FinalLast(s) => FinalLast(Tail(s)) /\ (Head(s).op \in Final => Tail(s) = <<>>)
  BY LastTopped
<1>4. FinalLast(s) /\ (\A e \in Left(ops) : e.op \notin Final) => FinalLast(w)
  BY <1>1, <1>3, StaysLast
<1>5. Len(ops) \in Nat
  OBVIOUS
<1>6. Len(s) = 1 => Tail(s) = <<>>
  <2> DEFINE t == Tail(s)
  <2>1. t \in Seq(Ops) /\ (Len(s) = 1 => Len(t) = 0)
    BY <1>1
  <2> HIDE DEF t
  <2>2. Len(s) = 1 => t = <<>>
    BY <2>1, EmptySeq
  <2> QED BY <2>2 DEF t
<1>7. Tail(s) = <<>> => Left(Tail(s)) = {}
  BY Few
<1> QED BY <1>1, <1>2, <1>3, <1>4, <1>5, <1>6, <1>7

\* A step that is done and leaves others to do in its place, without a change to
\* mState or to the descriptors but for what they are watched for.
LEMMA Quiet ==
    ASSUME Rest, stack # <<>>, NEW ops \in Seq(Ops), stack' = ops \o Tail(stack),
           \A e \in Left(ops) : e.op \in {"onState", "onData", "read", "write", "watch"},
           Top.op # "dropOther",
           UNCHANGED <<mState, mFd, peer, closed, gone, inside, failed>>, failed = "none",
           mPendingWrites' \in {<<>>, mPendingWrites},
           \A f \in Open : "out" \in want[f] \/ (Top.op = "write" /\ Top.f = f) =>
               \/ mPendingWrites' = <<>> \/ "out" \in want'[f]
               \/ \E e \in Left(ops) : e.op = "write" /\ e.f = f
    PROVE  /\ stack' \in Seq(Ops) /\ EventsOwned' /\ Racing' /\ WriteAsserts' /\ Calm' /\ Watched'
<1>1. /\ stack' \in Seq(Ops) /\ Len(stack') = Len(ops) + Len(stack) - 1
      /\ Left(stack') = Left(ops) \cup Left(Tail(stack))
      /\ Left(stack) = {Top} \cup Left(Tail(stack))
      /\ FinalLast(stack) => FinalLast(stack')
      /\ Len(stack) = 1 => Left(Tail(stack)) = {}
  <2>1. stack \in Seq(Ops)
    BY DEF Rest, SocketTyped
  <2>2. \A e \in Left(ops) : e.op \notin Final
    BY DEF Final
  <2>3. /\ stack' \in Seq(Ops) /\ Len(stack') = Len(ops) + Len(stack) - 1
        /\ Left(stack') = Left(ops) \cup Left(Tail(stack))
        /\ Left(stack) = {Head(stack)} \cup Left(Tail(stack))
        /\ FinalLast(stack) /\ (\A e \in Left(ops) : e.op \notin Final) => FinalLast(stack')
        /\ Len(stack) = 1 => Left(Tail(stack)) = {}
    BY <2>1, Replaced
  <2> QED BY <2>2, <2>3 DEF Top
<1>2. Open' = Open /\ (Failed' <=> Failed)
  BY DEF Open, Failed
<1>3. EventsOwned'
  BY <1>1 DEF Rest, EventsOwned
<1>4. Racing'
  BY <1>1, <1>2 DEF Rest, Racing
<1>5. WriteAsserts'
  BY DEF WriteAsserts
<1>6. Calm'
  <2> SUFFICES ASSUME ~closed, ~gone, ~inside
               PROVE  /\ Open = {} => mState = "Idle" \/ Failed
                      /\ FinalLast(stack')
                      /\ \A e \in Left(stack') :
                          /\ e.op = "dropOther" => Failed \/ e.f \in Open
                          /\ e.op = "drop" => Failed \/ (Len(stack') = 1 /\ Other(e.f) \in Open)
    BY <1>2 DEF Calm
  <2>1. /\ Open = {} => mState = "Idle" \/ Failed
        /\ FinalLast(stack)
        /\ \A e \in Left(stack) :
              /\ e.op = "dropOther" => Failed \/ e.f \in Open
              /\ e.op = "drop" => Failed \/ (Len(stack) = 1 /\ Other(e.f) \in Open)
    BY DEF Rest, Calm
  <2>2. ASSUME NEW e \in Left(stack')
        PROVE  /\ e.op = "dropOther" => Failed \/ e.f \in Open
               /\ e.op = "drop" => Failed
    BY <1>1, <2>1
  <2> QED BY <1>1, <2>1, <2>2
<1>7. Watched'
  <2> SUFFICES ASSUME mState = "Connected", mPendingWrites' # <<>>, NEW f \in Open
               PROVE  \/ "out" \in want'[f] \/ peer'[f] = "lost"
                      \/ \E e \in Left(stack') : e.op = "write" /\ e.f = f
                      \/ \E e \in Left(stack') : e.op = "dropOther" /\ e.f = Other(f)
    BY <1>2 DEF Watched
  <2>1. \/ "out" \in want[f] \/ peer[f] = "lost"
        \/ \E e \in Left(stack) : e.op = "write" /\ e.f = f
        \/ \E e \in Left(stack) : e.op = "dropOther" /\ e.f = Other(f)
    BY DEF Rest, Watched
  <2> QED BY <1>1, <2>1
<1> QED BY <1>1, <1>3, <1>4, <1>5, <1>6, <1>7

\* A step that changes neither mState nor the descriptors nor the stack.
LEMMA Still ==
    ASSUME Rest, failed = "none",
           UNCHANGED <<mState, mFd, want, stack, closed, gone, inside, failed, mPendingWrites>>,
           \A f \in Open : peer[f] = "lost" => peer'[f] = "lost"
    PROVE  EventsOwned' /\ Racing' /\ WriteAsserts' /\ Calm' /\ Watched'
<1>1. Open' = Open /\ (Failed' <=> Failed)
  BY DEF Open, Failed
<1>2. EventsOwned' /\ Racing' /\ WriteAsserts'
  BY <1>1 DEF Rest, EventsOwned, Racing, WriteAsserts
<1>3. Calm'
  BY <1>1 DEF Rest, Calm
<1>4. Watched'
  BY <1>1 DEF Rest, Watched
<1> QED BY <1>2, <1>3, <1>4

LEMMA NetworkRest ==
    ASSUME Rest, NEW f \in Families, NEW from, NEW to, Network(f, from, to),
           from \in {"connecting", "up"}, to \in {"up", "refused", "shut", "reset"}
    PROVE  Rest'
<1>1. /\ failed = "none" /\ peer[f] = from
      /\ peer' = [peer EXCEPT ![f] = to] /\ avail' = [avail EXCEPT ![f] = @ /\ to # "reset"]
      /\ UNCHANGED <<mState, mFd, want, stack, failed, mPendingWrites, accepted, closed, gone, inside,
                     connects, sends>>
  BY DEF Network, writeVars, progVars
<1>2. Open' = Open
  BY <1>1 DEF Open
<1>3. f \in Open
  BY <1>1 DEF Rest, SocketTyped, KernelTyped
<1>4. KernelTyped'
  <2>1. peer' \in [Families -> {"none", "connecting", "refused", "up", "shut", "reset", "lost"}]
    BY <1>1 DEF Rest, SocketTyped, KernelTyped
  <2>2. avail' \in [Families -> BOOLEAN]
    BY <1>1 DEF Rest, SocketTyped, KernelTyped
  <2> QED BY <1>1, <1>2, <1>3, <2>1, <2>2 DEF Rest, SocketTyped, KernelTyped
<1>5. SocketTyped'
  BY <1>1, <1>4 DEF Rest, SocketTyped
<1>6. \A g \in Open : peer[g] = "lost" => peer'[g] = "lost"
  BY <1>1 DEF Rest, SocketTyped, KernelTyped, Open
<1> QED BY <1>1, <1>5, <1>6, Still DEF Rest

LEMMA PeerSendsRest == ASSUME Rest, NEW f \in Families, PeerSends(f) PROVE Rest'
<1>1. /\ failed = "none" /\ peer[f] = "up" /\ sends < MaxSends /\ sends' = sends + 1
      /\ avail' = [avail EXCEPT ![f] = TRUE]
      /\ UNCHANGED <<mState, mFd, want, peer, stack, failed, mPendingWrites, accepted, closed, gone, inside,
                     connects>>
  BY DEF PeerSends, writeVars
<1>2. Open' = Open
  BY <1>1 DEF Open
<1>3. f \in Open
  BY <1>1 DEF Rest, SocketTyped, KernelTyped
<1>4. KernelTyped'
  <2>1. avail' \in [Families -> BOOLEAN]
    BY <1>1 DEF Rest, SocketTyped, KernelTyped
  <2> QED BY <1>1, <1>2, <1>3, <2>1 DEF Rest, SocketTyped, KernelTyped
<1>5. sends' \in 0..MaxSends
  BY <1>1, TcpSocketAssumption DEF Rest, SocketTyped
<1>6. SocketTyped'
  BY <1>1, <1>4, <1>5 DEF Rest, SocketTyped
<1> QED BY <1>1, <1>6, Still DEF Rest

LEMMA Pair == ASSUME NEW T, NEW a \in T, NEW b \in T PROVE <<a>> \o <<b>> = <<a, b>>
<1> DEFINE s == <<a>> \o <<b>>
           t == <<a, b>>
<1>1. /\ <<a>> \in Seq(T) /\ Len(<<a>>) = 1 /\ <<a>>[1] = a
      /\ <<b>> \in Seq(T) /\ Len(<<b>>) = 1 /\ <<b>>[1] = b
      /\ t \in Seq(T) /\ Len(t) = 2 /\ t[1] = a /\ t[2] = b
  OBVIOUS
<1>2. /\ s \in Seq(T) /\ Len(s) = 2
      /\ \A i \in 1..2 : s[i] = IF i <= 1 THEN <<a>>[i] ELSE <<b>>[i - 1]
  BY <1>1, ConcatProperties
<1> HIDE DEF s, t
<1>3. s[1] = a /\ s[2] = b
  <2>1. 1 \in 1..2 /\ 2 \in 1..2 /\ 2 - 1 = 1
    OBVIOUS
  <2> QED BY <1>1, <1>2, <2>1
<1>4. \A i \in 1..Len(s) : s[i] = t[i]
  BY <1>1, <1>2, <1>3
<1>5. s = t
  BY <1>1, <1>2, <1>4, SeqEqual
<1> QED BY <1>5 DEF s, t

LEMMA ConnectRest == ASSUME Rest, NEW f \in Families, Connect(f) PROVE Rest'
<1>1. /\ failed = "none" /\ f \notin Open /\ mState # "Connected" /\ connects < MaxConnects
      /\ connects' = connects + 1 /\ inside' = (inside \/ stack # <<>>)
      /\ mFd' = [mFd EXCEPT ![f] = connects + 1] /\ want' = [want EXCEPT ![f] = {"in"}]
      /\ UNCHANGED <<accepted, avail, failed, closed, gone, sends>>
  BY DEF Connect, ProgramRuns, Idle, Running
<1> DEFINE state == Do("onState", f)
           watch == [Do("watch", f) EXCEPT !.fd = connects + 1]
           write == Do("write", f)
           drop == Do("drop", f)
           dropOther == Do("dropOther", f)
<1>2. \/ /\ peer' = [peer EXCEPT ![f] = "up"] /\ mState' = "Connected"
         /\ stack' = <<state, write, dropOther>> \o stack
      \/ /\ peer' = [peer EXCEPT ![f] = "connecting"]
         /\ \/ mState' = "Connecting" /\ stack' = <<state>> \o <<watch>> \o stack
            \/ mState' = mState /\ stack' = <<watch>> \o stack
      \/ /\ peer' = [peer EXCEPT ![f] = "refused"]
         /\ \/ mState' = "Error" /\ stack' = <<state, drop>> \o stack
            \/ mState' = mState /\ Other(f) \in Open /\ stack' = <<drop>> \o stack
  BY DEF Connect, Pending, LastAttempt
<1>3. /\ KernelTyped /\ stack \in Seq(Ops) /\ connects \in Nat /\ connects + 1 \in 0..(MaxConnects + 1)
      /\ connects' \in 0..MaxConnects /\ connects + 1 # 0
  BY <1>1, TcpSocketAssumption DEF Rest, SocketTyped
<1>4. Open' = Open \cup {f}
  BY <1>1, <1>3 DEF Open, KernelTyped
<1>5. KernelTyped'
  <2>1. mFd' \in [Families -> 0..(MaxConnects + 1)]
    BY <1>1, <1>3 DEF KernelTyped
  <2>2. want' \in [Families -> SUBSET {"in", "out"}]
    BY <1>1, <1>3 DEF KernelTyped
  <2>3. peer' \in [Families -> {"none", "connecting", "refused", "up", "shut", "reset", "lost"}]
    BY <1>2, <1>3 DEF KernelTyped
  <2>4. \A g \in Families \ Open' : want'[g] = want[g] /\ peer'[g] = peer[g] /\ g \notin Open
    BY <1>1, <1>2, <1>3, <1>4 DEF KernelTyped
  <2> QED BY <1>1, <1>3, <2>1, <2>2, <2>3, <2>4 DEF KernelTyped
<1>6. /\ state \in Ops /\ write \in Ops /\ drop \in Ops /\ dropOther \in Ops /\ watch \in Ops
      /\ state.op = "onState" /\ write.op = "write" /\ drop.op = "drop" /\ dropOther.op = "dropOther"
      /\ write.f = f /\ drop.f = f /\ dropOther.f = f /\ watch.op = "watch"
  <2>1. /\ state \in Ops /\ write \in Ops /\ drop \in Ops /\ dropOther \in Ops
        /\ state.op = "onState" /\ write.op = "write" /\ drop.op = "drop" /\ dropOther.op = "dropOther"
        /\ write.f = f /\ drop.f = f /\ dropOther.f = f
    BY <1>3, DoTyped
  <2>2. watch \in Ops /\ watch.op = "watch"
    BY <1>3 DEF Do, Ops
  <2> QED BY <2>1, <2>2
<1> HIDE DEF state, watch, write, drop, dropOther
<1>7. PICK ops \in Seq(Ops) :
          /\ stack' = ops \o stack
          /\ \/ ops = <<state, write, dropOther>> /\ mState' = "Connected"
             \/ /\ ops \in {<<state, watch>>, <<watch>>, <<state, drop>>, <<drop>>}
                /\ mState' # "Connected"
                /\ drop \in Left(ops) => mState' = "Error" \/ (ops = <<drop>> /\ Other(f) \in Open)
  <2>1. /\ <<state, write, dropOther>> \in Seq(Ops) /\ <<state, watch>> \in Seq(Ops) /\ <<watch>> \in Seq(Ops)
        /\ <<state, drop>> \in Seq(Ops) /\ <<drop>> \in Seq(Ops)
    BY <1>6
  <2>2. <<state>> \o <<watch>> = <<state, watch>>
    BY <1>6, Pair
  <2>3. drop \notin Left(<<state, watch>>) /\ drop \notin Left(<<watch>>)
    BY <1>6, Few
  <2>4. CASE mState' = "Connected" /\ stack' = <<state, write, dropOther>> \o stack
    BY <2>1, <2>4
  <2>5. CASE mState' = "Connecting" /\ stack' = <<state>> \o <<watch>> \o stack
    BY <2>1, <2>2, <2>3, <2>5
  <2>6. CASE mState' = mState /\ stack' = <<watch>> \o stack
    BY <1>1, <2>1, <2>3, <2>6
  <2>7. CASE mState' = "Error" /\ stack' = <<state, drop>> \o stack
    BY <2>1, <2>7
  <2>8. CASE mState' = mState /\ Other(f) \in Open /\ stack' = <<drop>> \o stack
    BY <1>1, <2>1, <2>8
  <2> QED BY <1>2, <2>4, <2>5, <2>6, <2>7, <2>8
<1>8. /\ stack' \in Seq(Ops) /\ Left(stack') = Left(ops) \cup Left(stack)
      /\ stack = <<>> => stack' = ops
  <2>1. ops \o <<>> = ops
    BY ConcatEmptySeq
  <2> QED BY <1>3, <1>7, <2>1, Pushed
<1>9. /\ Left(<<state, write, dropOther>>) = {state, write, dropOther}
      /\ Left(<<state, watch>>) = {state, watch} /\ Left(<<watch>>) = {watch}
      /\ Left(<<state, drop>>) = {state, drop} /\ Left(<<drop>>) = {drop} /\ Len(<<drop>>) = 1
  BY Few
<1>10. SocketTyped'
  <2>1. mState' \in {"Idle", "Connecting", "Connected", "Closed", "Error"}
    BY <1>2 DEF Rest, SocketTyped
  <2>2. inside' \in BOOLEAN
    BY <1>1
  <2> QED BY <1>1, <1>3, <1>5, <1>8, <2>1, <2>2 DEF Rest, SocketTyped
<1>11. EventsOwned'
  BY <1>6, <1>7, <1>8, <1>9 DEF Rest, EventsOwned
<1>12. Racing'
  BY <1>6, <1>7, <1>8, <1>9 DEF Racing
<1>13. WriteAsserts'
  BY <1>1 DEF WriteAsserts
<1>14. Calm'
  <2> SUFFICES ASSUME stack = <<>>
               PROVE  /\ FinalLast(stack')
                      /\ \A e \in Left(stack') :
                            /\ e.op = "dropOther" => e.f \in Open'
                            /\ e.op = "drop" => Failed' \/ (Len(stack') = 1 /\ Other(e.f) \in Open')
    BY <1>1, <1>4 DEF Calm
  <2>1. stack' = ops
    BY <1>8
  <2>2. FinalLast(ops)
    <3>1. CASE ops = <<state, write, dropOther>>
      BY <1>6, <3>1 DEF FinalLast, Final
    <3>2. CASE ops \in {<<state, watch>>, <<state, drop>>}
      BY <1>6, <3>2 DEF FinalLast, Final
    <3>3. CASE ops \in {<<watch>>, <<drop>>}
      <4>1. Len(ops) = 1
        BY <3>3
      <4> QED BY <4>1 DEF FinalLast
    <3> QED BY <1>7, <3>1, <3>2, <3>3
  <2>3. ASSUME NEW e \in Left(ops), e.op = "dropOther" PROVE e.f \in Open'
    BY <1>4, <1>6, <1>7, <1>9, <2>3
  <2>4. ASSUME NEW e \in Left(ops), e.op = "drop"
        PROVE  Failed' \/ (Len(ops) = 1 /\ Other(e.f) \in Open')
    <3>1. e = drop /\ ops # <<state, write, dropOther>>
      BY <1>6, <1>7, <1>9, <2>4
    <3> QED BY <1>4, <1>6, <1>7, <1>9, <2>4, <3>1 DEF Failed
  <2> QED BY <2>1, <2>2, <2>3, <2>4
<1>15. Watched'
  <2> SUFFICES ASSUME mState' = "Connected", NEW g \in Open'
               PROVE  \/ \E e \in Left(stack') : e.op = "write" /\ e.f = g
                      \/ \E e \in Left(stack') : e.op = "dropOther" /\ e.f = Other(g)
    BY DEF Watched
  <2>1. write \in Left(stack') /\ dropOther \in Left(stack')
    BY <1>7, <1>8, <1>9
  <2>2. g = f \/ f = Other(g)
    BY Families2 DEF Open
  <2> QED BY <1>6, <2>1, <2>2
<1> QED BY <1>10, <1>11, <1>12, <1>13, <1>14, <1>15 DEF Rest

\* The step the loop's thread is at.
LEMMA AtTop ==
    ASSUME Rest, stack # <<>>
    PROVE  /\ Top \in Left(stack) /\ Top \in Ops /\ Top.f \in Families /\ stack \in Seq(Ops)
           /\ Tail(stack) \in Seq(Ops)
           /\ <<>> \o Tail(stack) = Tail(stack) /\ <<>> \in Seq(Ops)
<1>1. stack \in Seq(Ops)
  BY DEF Rest, SocketTyped
<1>2. Top \in Left(stack) /\ Top \in Ops /\ Tail(stack) \in Seq(Ops)
  BY <1>1, Topped DEF Top
<1>3. Top.f \in Families
  BY <1>2 DEF Ops
<1>4. <<>> \o Tail(stack) = Tail(stack)
  BY <1>2, ConcatEmptySeq
<1> QED BY <1>1, <1>2, <1>3, <1>4

LEMMA WatchConnectRest == ASSUME Rest, WatchConnect PROVE Rest'
<1>1. /\ failed = "none" /\ stack # <<>> /\ Top.op = "watch"
      /\ want' = Watching(Top.f, {"in", "out"}) /\ stack' = <<>> \o Tail(stack)
      /\ UNCHANGED <<mState, mFd, peer, avail, failed, mPendingWrites, accepted, closed, gone, inside,
                     connects, sends>>
  BY DEF WatchConnect, Running, Then, writeVars, progVars
<1>2. KernelTyped
  BY DEF Rest, SocketTyped
<1>3. /\ want' \in [Families -> SUBSET {"in", "out"}]
      /\ \A g \in Families \ Open : want'[g] = {}
      /\ \A g \in Families : want'[g] = IF g = Top.f /\ Top.f \in Open /\ peer[Top.f] # "lost" THEN {"in", "out"} ELSE want[g]
  BY <1>1, <1>2, AtTop, WatchTyped
<1>4. Open' = Open
  BY <1>1 DEF Open
<1>5. KernelTyped'
  BY <1>1, <1>2, <1>3, <1>4 DEF KernelTyped
<1>6. \A f \in Open : "out" \in want[f] => "out" \in want'[f]
  BY <1>3 DEF Open
<1>7. /\ stack' \in Seq(Ops) /\ EventsOwned' /\ Racing' /\ WriteAsserts' /\ Calm' /\ Watched'
  BY <1>1, <1>6, AtTop, Few, Quiet
<1>8. SocketTyped'
  BY <1>1, <1>5, <1>7 DEF Rest, SocketTyped
<1> QED BY <1>7, <1>8 DEF Rest

\* Steps that only end something.
LEMMA EndsRest ==
    ASSUME Rest, FdWriteGone \/ ReadNothing \/ Returns
    PROVE  Rest'
<1>1. /\ failed = "none" /\ stack # <<>> /\ Top.op \in {"fdWrite", "read", "onState", "onData"}
      /\ stack' = <<>> \o Tail(stack)
      /\ UNCHANGED <<mState, mFd, want, peer, avail, failed, mPendingWrites, accepted, closed, gone, inside,
                     connects, sends>>
  BY DEF FdWriteGone, ReadNothing, Returns, Running, Then, fdVars, writeVars, progVars
<1>2. Open' = Open
  BY <1>1 DEF Open
<1>3. KernelTyped'
  BY <1>1, <1>2 DEF Rest, SocketTyped, KernelTyped
<1>4. /\ stack' \in Seq(Ops) /\ EventsOwned' /\ Racing' /\ WriteAsserts' /\ Calm' /\ Watched'
  BY <1>1, AtTop, Few, Quiet
<1>5. SocketTyped'
  BY <1>1, <1>3, <1>4 DEF Rest, SocketTyped
<1> QED BY <1>4, <1>5 DEF Rest

LEMMA ReadDataRest == ASSUME Rest, ReadData PROVE Rest'
<1>1. /\ failed = "none" /\ stack # <<>> /\ Top.op = "read"
      /\ avail[ReadFrom] /\ avail' = [avail EXCEPT ![ReadFrom] = FALSE]
      /\ stack' = <<Do("onData", Top.f), Top>> \o Tail(stack)
      /\ UNCHANGED <<mState, mFd, want, peer, failed, mPendingWrites, accepted, closed, gone, inside,
                     connects, sends>>
  BY DEF ReadData, Running, Then, writeVars, progVars
<1>2. Open' = Open
  BY <1>1 DEF Open
<1>3. KernelTyped'
  <2>1. avail' \in [Families -> BOOLEAN]
    BY <1>1 DEF Rest, SocketTyped, KernelTyped
  <2>2. \A g \in Families \ Open : ~avail'[g]
    BY <1>1 DEF Rest, SocketTyped, KernelTyped
  <2> QED BY <1>1, <1>2, <2>1, <2>2 DEF Rest, SocketTyped, KernelTyped
<1> DEFINE data == Do("onData", Top.f)
<1>4. data \in Ops /\ data.op = "onData"
  BY <1>1, AtTop, DoTyped DEF Rest, SocketTyped
<1> HIDE DEF data
<1>5. <<data, Top>> \in Seq(Ops) /\ \A e \in Left(<<data, Top>>) : e.op \in {"onState", "onData", "read", "write", "watch"}
  <2>1. Left(<<data, Top>>) = {data, Top}
    BY Few
  <2>2. <<data, Top>> \in Seq(Ops)
    BY <1>1, <1>4, AtTop
  <2> QED BY <1>1, <1>4, <2>1, <2>2
<1>6. stack' = <<data, Top>> \o Tail(stack)
  BY <1>1 DEF data
<1>7. /\ stack' \in Seq(Ops) /\ EventsOwned' /\ Racing' /\ WriteAsserts' /\ Calm' /\ Watched'
  BY <1>1, <1>5, <1>6, Quiet
<1>8. SocketTyped'
  BY <1>1, <1>3, <1>7 DEF Rest, SocketTyped
<1> QED BY <1>7, <1>8 DEF Rest

LEMMA ReadAssertsRest == ASSUME Rest, ReadAsserts PROVE Rest'
<1>1. /\ failed' = "read"
      /\ UNCHANGED <<mState, mFd, want, peer, avail, stack, mPendingWrites, accepted, closed, gone, inside,
                     connects, sends>>
  BY DEF ReadAsserts, fdVars, writeVars, progVars
<1>2. Open' = Open /\ (Failed' <=> Failed)
  BY <1>1 DEF Open, Failed
<1>3. SocketTyped'
  BY <1>1, <1>2 DEF Rest, SocketTyped, KernelTyped
<1> QED BY <1>1, <1>2, <1>3 DEF Rest, EventsOwned, Racing, WriteAsserts, Calm, Watched

LEMMA DropFdRest == ASSUME Rest, DropFd PROVE Rest'
<1> DEFINE fs == IF Top.op = "drop" THEN {Top.f} ELSE Losers(Top.f)
<1>1. /\ failed = "none" /\ stack # <<>> /\ Top.op \in {"drop", "dropOther"}
      /\ Drop(fs, want) /\ stack' = <<>> \o Tail(stack)
      /\ UNCHANGED <<mState, failed, mPendingWrites, accepted, closed, gone, inside, connects, sends>>
  BY DEF DropFd, Running, Then, writeVars, progVars
<1>2. KernelTyped /\ stack \in Seq(Ops)
  BY DEF Rest, SocketTyped
<1>3. fs = IF Top.op = "drop" THEN {Top.f} ELSE {Other(Top.f)}
  BY DEF Losers
<1> HIDE DEF fs
<1>4. /\ KernelTyped' /\ Open' = Open \ fs
      /\ \A f \in Families \ fs : want'[f] = want[f] /\ peer'[f] = peer[f]
  BY <1>1, <1>2, DropTyped DEF KernelTyped
<1>5. /\ stack' \in Seq(Ops)
      /\ Left(stack') = Left(Tail(stack)) /\ Left(stack) = {Top} \cup Left(Tail(stack))
      /\ FinalLast(stack) => FinalLast(stack') /\ (Top.op \in Final => Left(Tail(stack)) = {})
      /\ Len(stack) = 1 => Left(Tail(stack)) = {}
  BY <1>1, <1>2, AtTop, Few, Replaced DEF Top
<1>6. Top.f \in Families /\ Top \in Left(stack)
  BY <1>1, AtTop
<1>7. SocketTyped'
  BY <1>1, <1>4, <1>5 DEF Rest, SocketTyped
<1>8. EventsOwned'
  BY <1>5 DEF Rest, EventsOwned
<1>9. Racing'
  <2>1. \E f \in Families : f \in fs
    BY <1>3, <1>6, Families2
  <2>2. Open' # Families
    BY <1>4, <2>1
  <2> QED BY <2>2 DEF Racing
<1>10. WriteAsserts'
  BY <1>1 DEF WriteAsserts
<1>11. Calm'
  <2> SUFFICES ASSUME ~closed, ~gone, ~inside
               PROVE  /\ Open' = {} => mState = "Idle" \/ Failed
                      /\ FinalLast(stack')
                      /\ \A e \in Left(stack') :
                          /\ e.op = "dropOther" => Failed \/ e.f \in Open'
                          /\ e.op = "drop" => Failed
    BY <1>1 DEF Calm, Failed
  <2>1. /\ Open = {} => mState = "Idle" \/ Failed
        /\ FinalLast(stack)
        /\ \A e \in Left(stack) :
              /\ e.op = "dropOther" => Failed \/ e.f \in Open
              /\ e.op = "drop" => Failed \/ (Len(stack) = 1 /\ Other(e.f) \in Open)
    BY DEF Rest, Calm
  <2>2. CASE Failed
    BY <1>5, <2>1, <2>2
  <2>3. CASE ~Failed /\ Top.op = "drop"
    <3>1. Len(stack) = 1 /\ Other(Top.f) \in Open
      BY <1>6, <2>1, <2>3
    <3>2. Left(stack') = {} /\ Other(Top.f) \in Open'
      BY <1>3, <1>4, <1>5, <1>6, <2>3, <3>1, Families2
    <3> QED BY <1>5, <2>1, <3>2
  <2>4. CASE ~Failed /\ Top.op = "dropOther"
    <3>1. Top.f \in Open'
      BY <1>3, <1>4, <1>6, <2>1, <2>4, Families2
    <3>2. Left(stack') = {}
      BY <1>5, <2>1, <2>4 DEF Final
    <3> QED BY <1>5, <2>1, <3>1, <3>2
  <2> QED BY <1>1, <2>2, <2>3, <2>4
<1>12. Watched'
  <2> SUFFICES ASSUME mState = "Connected", mPendingWrites # <<>>, NEW f \in Open'
               PROVE  \/ "out" \in want'[f] \/ peer'[f] = "lost"
                      \/ \E e \in Left(stack') : e.op = "write" /\ e.f = f
                      \/ \E e \in Left(stack') : e.op = "dropOther" /\ e.f = Other(f)
    BY <1>1 DEF Watched
  <2>1. f \in Open /\ f \notin fs /\ f \in Families
    BY <1>4 DEF Open
  <2>2. \/ "out" \in want[f] \/ peer[f] = "lost"
        \/ \E e \in Left(stack) : e.op = "write" /\ e.f = f
        \/ \E e \in Left(stack) : e.op = "dropOther" /\ e.f = Other(f)
    BY <1>1, <2>1 DEF Rest, Watched
  <2>3. ~(Top.op = "dropOther" /\ Top.f = Other(f))
    BY <1>3, <2>1, Families2
  <2> QED BY <1>1, <1>4, <1>5, <2>1, <2>2, <2>3
<1> QED BY <1>7, <1>8, <1>9, <1>10, <1>11, <1>12 DEF Rest

LEMMA CallbackRest == ASSUME Rest, NEW f \in Families, Callback(f) PROVE Rest'
<1>1. /\ failed = "none" /\ stack = <<>> /\ f \in Open
      /\ stack' = Reports(f) /\ Reports(f) # <<>>
      /\ UNCHANGED <<mState, mFd, want, peer, avail, failed, mPendingWrites, accepted, closed, gone, inside,
                     connects, sends>>
  BY DEF Callback, Idle, fdVars, writeVars, progVars
<1> DEFINE read == Do("read", f)
           fdWrite == Do("fdWrite", f)
<1>2. KernelTyped
  BY DEF Rest, SocketTyped
<1>3. /\ read \in Ops /\ fdWrite \in Ops /\ read.op = "read" /\ fdWrite.op = "fdWrite" /\ fdWrite.fd # 0
  <2>1. mFd[f] # 0
    BY <1>1 DEF Open
  <2> QED BY <1>2, <2>1, DoTyped
<1>4. Reports(f) \in {<<read>>, <<fdWrite>>, <<read>> \o <<fdWrite>>}
  <2>1. PICK a \in {<<>>, <<read>>}, b \in {<<>>, <<fdWrite>>} : Reports(f) = a \o b
    BY DEF Reports
  <2>2. /\ <<>> \o <<fdWrite>> = <<fdWrite>> /\ <<read>> \o <<>> = <<read>> /\ <<>> \o <<>> = <<>>
    <3>1. <<fdWrite>> \in Seq(Ops) /\ <<read>> \in Seq(Ops) /\ <<>> \in Seq(Ops)
      BY <1>3
    <3> QED BY <3>1, ConcatEmptySeq
  <2> QED BY <1>1, <2>1, <2>2
<1> HIDE DEF read, fdWrite
<1>5. stack' \in {<<read>>, <<fdWrite>>, <<read, fdWrite>>}
  BY <1>1, <1>3, <1>4, Pair
<1>6. /\ stack' \in Seq(Ops) /\ Left(stack') \subseteq {read, fdWrite} /\ FinalLast(stack')
      /\ Left(stack) = {}
  <2>1. stack' \in Seq(Ops)
    <3>1. <<read>> \in Seq(Ops) /\ <<fdWrite>> \in Seq(Ops) /\ <<read, fdWrite>> \in Seq(Ops)
      BY <1>3
    <3> QED BY <1>5, <3>1
  <2>2. Left(stack') \subseteq {read, fdWrite} /\ Left(stack) = {}
    BY <1>1, <1>5, Few
  <2>3. FinalLast(stack')
    <3>1. CASE stack' = <<read, fdWrite>>
      BY <1>3, <3>1 DEF FinalLast, Final
    <3>2. CASE stack' \in {<<read>>, <<fdWrite>>}
      <4>1. Len(stack') = 1
        BY <3>2
      <4> QED BY <4>1 DEF FinalLast
    <3> QED BY <1>5, <3>1, <3>2
  <2> QED BY <2>1, <2>2, <2>3
<1>7. Open' = Open /\ (Failed' <=> Failed)
  BY <1>1 DEF Open, Failed
<1>8. SocketTyped'
  BY <1>1, <1>6, <1>7 DEF Rest, SocketTyped, KernelTyped
<1>9. EventsOwned'
  BY <1>3, <1>6 DEF EventsOwned
<1>10. Racing'
  BY <1>1, <1>6, <1>7 DEF Rest, Racing
<1>11. WriteAsserts'
  BY <1>1 DEF WriteAsserts
<1>12. Calm'
  BY <1>1, <1>3, <1>6, <1>7 DEF Rest, Calm
<1>13. Watched'
  BY <1>1, <1>6, <1>7 DEF Rest, Watched
<1> QED BY <1>8, <1>9, <1>10, <1>11, <1>12, <1>13 DEF Rest

LEMMA FdErrorRest == ASSUME Rest, NEW f \in Families, FdError(f) PROVE Rest'
<1>1. /\ failed = "none" /\ stack = <<>> /\ f \in Open /\ gone' = TRUE
      /\ UNCHANGED <<mState, stack, failed, mPendingWrites, accepted, closed, inside, connects, sends>>
  BY DEF FdError, Idle, writeVars
<1>2. KernelTyped /\ Left(stack) = {}
  BY <1>1, Few DEF Rest, SocketTyped
<1>3. /\ KernelTyped' /\ Open' \subseteq Open
      /\ \A g \in Open' : peer'[g] = "lost" \/ (want'[g] = want[g] /\ peer'[g] = peer[g])
  <2>1. CASE Drop({f}, want)
    <3>1. /\ want \in [Families -> SUBSET {"in", "out"}]
          /\ \A g \in Families \ Open : want[g] = {}
      BY <1>2 DEF KernelTyped
    <3>2. /\ KernelTyped' /\ Open' = Open \ {f}
          /\ \A g \in Families \ {f} : want'[g] = want[g] /\ peer'[g] = peer[g]
      BY <1>2, <2>1, <3>1, DropTyped
    <3> QED BY <3>2 DEF Open
  <2>2. CASE /\ peer' = [peer EXCEPT ![f] = "lost"] /\ want' = [want EXCEPT ![f] = {}]
             /\ avail' = [avail EXCEPT ![f] = FALSE] /\ UNCHANGED mFd
    <3>1. Open' = Open
      BY <2>2 DEF Open
    <3>2. KernelTyped'
      BY <1>1, <1>2, <2>2, <3>1 DEF KernelTyped
    <3>3. \A g \in Families : g # f => want'[g] = want[g] /\ peer'[g] = peer[g]
      BY <1>2, <2>2 DEF KernelTyped
    <3>4. peer'[f] = "lost"
      BY <1>2, <2>2 DEF KernelTyped
    <3> QED BY <3>1, <3>2, <3>3, <3>4 DEF Open
  <2> QED BY <2>1, <2>2 DEF FdError
<1>4. SocketTyped'
  <2>1. gone' \in BOOLEAN
    BY <1>1
  <2> QED BY <1>1, <1>3, <2>1 DEF Rest, SocketTyped
<1>5. EventsOwned' /\ Calm' /\ WriteAsserts'
  BY <1>1 DEF Rest, EventsOwned, Calm, WriteAsserts
<1>6. Racing'
  <2>1. Open' = Families => Open = Families
    BY <1>3 DEF Open
  <2> QED BY <1>1, <2>1 DEF Rest, Racing
<1>7. Watched'
  <2> SUFFICES ASSUME mState = "Connected", mPendingWrites # <<>>, NEW g \in Open'
               PROVE  "out" \in want'[g] \/ peer'[g] = "lost"
    BY <1>1 DEF Watched
  <2>1. g \in Open /\ (peer'[g] = "lost" \/ (want'[g] = want[g] /\ peer'[g] = peer[g]))
    BY <1>3
  <2> QED BY <1>1, <1>2, <2>1 DEF Rest, Watched
<1> QED BY <1>4, <1>5, <1>6, <1>7 DEF Rest

LEMMA CloseRest == ASSUME Rest, Close PROVE Rest'
<1>1. /\ failed = "none" /\ Drop(Families, want) /\ closed' = TRUE
      /\ UNCHANGED <<mState, stack, failed, mPendingWrites, accepted, gone, inside, connects, sends>>
  BY DEF Close, ProgramRuns, Idle, Running, writeVars
<1>2. KernelTyped
  BY DEF Rest, SocketTyped
<1>3. KernelTyped' /\ Open' = Open \ Families
  BY <1>1, <1>2, DropTyped DEF KernelTyped
<1>4. Open' = {}
  BY <1>3 DEF Open
<1>5. SocketTyped'
  <2>1. closed' \in BOOLEAN
    BY <1>1
  <2> QED BY <1>1, <1>3, <2>1 DEF Rest, SocketTyped
<1>6. EventsOwned' /\ Calm' /\ WriteAsserts'
  BY <1>1 DEF Rest, EventsOwned, Calm, WriteAsserts
<1>7. Racing' /\ Watched'
  BY <1>4 DEF Racing, Watched, Families
<1> QED BY <1>5, <1>6, <1>7 DEF Rest

\* The end of the stream, or of all attempts, with a word to the program.
LEMMA EndOfSocketRest == ASSUME Rest, ReadEnds \/ WriteFails PROVE Rest'
<1>1. /\ failed = "none" /\ stack # <<>> /\ Drop(Families, want) /\ mState' \in {"Closed", "Error"}
      /\ stack' = <<Do("onState", Top.f)>> \o Tail(stack)
      /\ UNCHANGED <<failed, mPendingWrites, accepted, closed, gone, inside, connects, sends>>
  BY DEF ReadEnds, WriteFails, Running, Then, writeVars, progVars
<1>2. KernelTyped /\ stack \in Seq(Ops)
  BY DEF Rest, SocketTyped
<1>3. KernelTyped' /\ Open' = Open \ Families
  BY <1>1, <1>2, DropTyped DEF KernelTyped
<1>4. Open' = {}
  BY <1>3 DEF Open
<1> DEFINE state == Do("onState", Top.f)
<1>5. state \in Ops /\ state.op = "onState"
  BY <1>1, <1>2, AtTop, DoTyped
<1> HIDE DEF state
<1>6. <<state>> \in Seq(Ops) /\ Left(<<state>>) = {state} /\ stack' = <<state>> \o Tail(stack)
  BY <1>1, <1>5, Few DEF state
<1>7. /\ stack' \in Seq(Ops)
      /\ Left(stack') = {state} \cup Left(Tail(stack)) /\ Left(stack) = {Top} \cup Left(Tail(stack))
      /\ FinalLast(stack) => FinalLast(stack')
  <2>1. \A e \in Left(<<state>>) : e.op \notin Final
    BY <1>5, <1>6 DEF Final
  <2>2. stack # <<>> /\ stack \in Seq(Ops) /\ <<state>> \in Seq(Ops) /\ stack' = <<state>> \o Tail(stack)
    BY <1>1, <1>2, <1>6
  <2>3. /\ stack' \in Seq(Ops)
        /\ Left(stack') = Left(<<state>>) \cup Left(Tail(stack)) /\ Left(stack) = {Top} \cup Left(Tail(stack))
        /\ FinalLast(stack) /\ (\A e \in Left(<<state>>) : e.op \notin Final) => FinalLast(stack')
    BY <2>2, Replaced DEF Top
  <2> QED BY <1>6, <2>1, <2>3
<1>8. SocketTyped'
  BY <1>1, <1>3, <1>7 DEF Rest, SocketTyped
<1>9. EventsOwned'
  BY <1>5, <1>7 DEF Rest, EventsOwned
<1>10. Racing' /\ Watched'
  BY <1>4 DEF Racing, Watched, Families
<1>11. WriteAsserts'
  BY <1>1 DEF WriteAsserts
<1>12. Calm'
  BY <1>1, <1>7 DEF Rest, Calm, Failed
<1> QED BY <1>8, <1>9, <1>10, <1>11, <1>12 DEF Rest

LEMMA WritesRest == ASSUME Rest, WriteAll \/ WriteSome PROVE Rest'
<1>1. /\ failed = "none" /\ stack # <<>> /\ Top.op = "write" /\ stack' = <<>> \o Tail(stack)
      /\ mPendingWrites' \in {<<>>, mPendingWrites}
      /\ UNCHANGED <<mState, mFd, peer, avail, failed, accepted, closed, gone, inside, connects, sends>>
  BY DEF WriteAll, WriteSome, Running, Then, fdVars, progVars
<1>2. KernelTyped /\ Top.f \in Families
  BY <1>1, AtTop DEF Rest, SocketTyped
<1>3. \/ mPendingWrites' = <<>> /\ want' = want
      \/ peer[Top.f] \notin {"none", "lost"} /\ want' = Watching(Top.f, {"in", "out"})
  BY DEF WriteAll, WriteSome, AwaitRoom, fdVars
<1>4. Open' = Open
  BY <1>1 DEF Open
<1>5. /\ want' \in [Families -> SUBSET {"in", "out"}]
      /\ \A g \in Families \ Open : want'[g] = {}
      /\ \A g \in Open : mPendingWrites' = <<>> \/ "out" \in want'[g] \/ (g # Top.f /\ want'[g] = want[g])
  <2>1. CASE mPendingWrites' = <<>> /\ want' = want
    BY <1>2, <2>1 DEF KernelTyped
  <2>2. CASE peer[Top.f] \notin {"none", "lost"} /\ want' = Watching(Top.f, {"in", "out"})
    <3>1. Top.f \in Open
      BY <1>2, <2>2 DEF KernelTyped
    <3>2. /\ want' \in [Families -> SUBSET {"in", "out"}]
          /\ \A g \in Families \ Open : want'[g] = {}
          /\ \A g \in Families : want'[g] = IF g = Top.f /\ Top.f \in Open /\ peer[Top.f] # "lost" THEN {"in", "out"} ELSE want[g]
      BY <1>2, <2>2, WatchTyped
    <3> QED BY <2>2, <3>1, <3>2 DEF Open
  <2> QED BY <1>3, <2>1, <2>2
<1>6. KernelTyped'
  BY <1>1, <1>2, <1>4, <1>5 DEF KernelTyped
<1>7. /\ stack' \in Seq(Ops) /\ EventsOwned' /\ Racing' /\ WriteAsserts' /\ Calm' /\ Watched'
  BY <1>1, <1>5, AtTop, Few, Quiet
<1>8. SocketTyped'
  BY <1>1, <1>6, <1>7 DEF Rest, SocketTyped
<1> QED BY <1>7, <1>8 DEF Rest

LEMMA FdWriteRest == ASSUME Rest, FdWrite PROVE Rest'
<1> DEFINE f == Top.f
           reading == Watching(f, {"in"})
           state == Do("onState", f)
           write == Do("write", f)
           drop == Do("drop", f)
<1>1. /\ failed = "none" /\ stack # <<>> /\ Top.op = "fdWrite" /\ mFd[f] = Top.fd
      /\ UNCHANGED <<mPendingWrites, failed, accepted, closed, gone, inside, connects, sends>>
  BY DEF FdWrite, Running, writeVars, progVars
<1>2. \/ /\ Drop({}, reading) /\ mState' = mState /\ mState # "Connecting"
         /\ stack' = <<write>> \o Tail(stack)
      \/ /\ Drop({}, reading) /\ mState' = "Error"
         /\ stack' = <<state, drop>> \o Tail(stack)
      \/ /\ Other(f) \in Open /\ Drop({f}, want) /\ mState' = mState /\ mState = "Connecting"
         /\ stack' = <<>> \o Tail(stack)
      \/ /\ Drop({Other(f)}, reading) /\ mState' = "Connected"
         /\ stack' = <<state, write>> \o Tail(stack)
  BY DEF FdWrite, LastAttempt, Losers, Then
<1>3. KernelTyped /\ stack \in Seq(Ops) /\ f \in Families /\ Top \in Left(stack)
  BY <1>1, AtTop DEF Rest, SocketTyped
<1>4. f \in Open
  BY <1>1, <1>3 DEF Rest, EventsOwned, Open
<1>5. /\ reading \in [Families -> SUBSET {"in", "out"}]
      /\ \A g \in Families \ Open : reading[g] = {}
      /\ \A g \in Families : g # f => reading[g] = want[g]
  BY <1>3, WatchTyped
<1>6. /\ state \in Ops /\ state.op = "onState" /\ write \in Ops /\ write.op = "write" /\ write.f = f
      /\ drop \in Ops /\ drop.op = "drop" /\ drop.f = f
  BY <1>3, DoTyped
<1> HIDE DEF f, reading, state, write, drop
<1>7. PICK ops \in Seq(Ops) :
          /\ stack' = ops \o Tail(stack)
          /\ \/ /\ Drop({}, reading) /\ mState' = mState /\ mState # "Connecting" /\ ops = <<write>>
             \/ /\ Drop({}, reading) /\ mState' = "Error" /\ ops = <<state, drop>>
             \/ /\ Other(f) \in Open /\ Drop({f}, want) /\ mState' = "Connecting" /\ ops = <<>>
             \/ /\ Drop({Other(f)}, reading) /\ mState' = "Connected" /\ ops = <<state, write>>
  <2>1. /\ <<write>> \in Seq(Ops) /\ <<state, drop>> \in Seq(Ops) /\ <<>> \in Seq(Ops)
        /\ <<state, write>> \in Seq(Ops)
    BY <1>6
  <2> QED BY <1>2, <2>1
<1>8. /\ Left(<<write>>) = {write} /\ Left(<<state, drop>>) = {state, drop} /\ Left(<<>>) = {}
      /\ Left(<<state, write>>) = {state, write}
  BY Few
<1>9. \A e \in Left(ops) : e.op \notin Final
  BY <1>6, <1>7, <1>8 DEF Final
<1>10. /\ stack' \in Seq(Ops) /\ Left(stack') = Left(ops) \cup Left(Tail(stack))
       /\ Left(stack) = {Top} \cup Left(Tail(stack))
       /\ FinalLast(stack) => FinalLast(stack') /\ Left(Tail(stack)) = {}
  BY <1>1, <1>3, <1>7, <1>9, Replaced DEF Top, Final
<1>11. /\ KernelTyped'
       /\ f \in Open' \/ (Other(f) \in Open' /\ mState' = "Connecting")
       /\ mState' = "Connected" => \/ mState = "Connected" /\ Open' = Open /\ ops = <<write>>
                                   \/ Open' \subseteq {f} /\ ops = <<state, write>>
       /\ \A g \in Open' : g # f => want'[g] = want[g] /\ peer'[g] = peer[g]
  <2>1. CASE Drop({}, reading) /\ ((mState' = mState /\ ops = <<write>>) \/ mState' = "Error")
    <3> DEFINE none == {}
    <3>1. Drop(none, reading) /\ \A g : g \notin none
      BY <2>1
    <3> HIDE DEF none
    <3>2. /\ KernelTyped' /\ Open' = Open \ none
          /\ \A g \in Families \ none : want'[g] = reading[g] /\ peer'[g] = peer[g]
      BY <1>3, <1>5, <3>1, DropTyped
    <3> QED BY <1>4, <1>5, <2>1, <3>1, <3>2 DEF Open
  <2>2. CASE Other(f) \in Open /\ Drop({f}, want) /\ mState' = "Connecting"
    <3>1. want \in [Families -> SUBSET {"in", "out"}] /\ \A g \in Families \ Open : want[g] = {}
      BY <1>3 DEF KernelTyped
    <3>2. /\ KernelTyped' /\ Open' = Open \ {f}
          /\ \A g \in Families \ {f} : want'[g] = want[g] /\ peer'[g] = peer[g]
      BY <1>3, <2>2, <3>1, DropTyped
    <3> QED BY <1>3, <2>2, <3>2, Families2 DEF Open
  <2>3. CASE Drop({Other(f)}, reading) /\ mState' = "Connected" /\ ops = <<state, write>>
    <3>1. /\ KernelTyped' /\ Open' = Open \ {Other(f)}
          /\ \A g \in Families \ {Other(f)} : want'[g] = reading[g]
      BY <1>3, <1>5, <2>3, DropTyped
    <3>2. Open' \subseteq {f} /\ f \in Open'
      BY <1>3, <1>4, <3>1, Families2 DEF Open
    <3> QED BY <2>3, <3>1, <3>2
  <2> QED BY <1>7, <2>1, <2>2, <2>3
<1>12. SocketTyped'
  <2>1. mState' \in {"Idle", "Connecting", "Connected", "Closed", "Error"}
    BY <1>7 DEF Rest, SocketTyped
  <2> QED BY <1>1, <1>10, <1>11, <2>1 DEF Rest, SocketTyped
<1>13. EventsOwned'
  BY <1>9, <1>10 DEF Rest, EventsOwned, Final
<1>14. Racing'
  <2>1. CASE mState = "Connected" /\ Open' = Open /\ ops = <<write>>
    BY <1>1, <1>10, <2>1 DEF Rest, Racing
  <2>2. CASE Open' \subseteq {f}
    BY <1>3, <2>2, Families2 DEF Racing
  <2> QED BY <1>11, <2>1, <2>2 DEF Racing
<1>15. WriteAsserts'
  BY <1>1 DEF WriteAsserts
<1>16. Calm'
  <2> SUFFICES ASSUME ~closed, ~gone, ~inside
               PROVE  /\ Open' # {}
                      /\ FinalLast(stack')
                      /\ \A e \in Left(stack') :
                          /\ e.op # "dropOther"
                          /\ e.op = "drop" => Failed'
    BY <1>1 DEF Calm
  <2>1. FinalLast(stack') /\ Left(stack') = Left(ops)
    BY <1>1, <1>10 DEF Rest, Calm, Final
  <2>2. \A e \in Left(ops) : e.op # "dropOther" /\ (e.op = "drop" => mState' = "Error")
    BY <1>6, <1>7, <1>8
  <2> QED BY <1>11, <2>1, <2>2 DEF Failed
<1>17. Watched'
  <2> SUFFICES ASSUME mState' = "Connected", mPendingWrites # <<>>, NEW g \in Open'
               PROVE  \/ "out" \in want'[g] \/ peer'[g] = "lost"
                      \/ \E e \in Left(stack') : e.op = "write" /\ e.f = g
                      \/ \E e \in Left(stack') : e.op = "dropOther" /\ e.f = Other(g)
    BY <1>1 DEF Watched
  <2>1. CASE g = f
    <3>1. write \in Left(stack')
      BY <1>8, <1>10, <1>11
    <3> QED BY <1>6, <2>1, <3>1
  <2>2. CASE g # f
    <3>1. mState = "Connected" /\ g \in Open /\ want'[g] = want[g] /\ peer'[g] = peer[g]
      BY <1>11, <2>2
    <3>2. \/ "out" \in want[g] \/ peer[g] = "lost"
          \/ \E e \in Left(stack) : e.op = "write" /\ e.f = g
          \/ \E e \in Left(stack) : e.op = "dropOther" /\ e.f = Other(g)
      BY <1>1, <3>1 DEF Rest, Watched
    <3> QED BY <1>1, <1>10, <3>1, <3>2
  <2> QED BY <2>1, <2>2
<1> QED BY <1>12, <1>13, <1>14, <1>15, <1>16, <1>17 DEF Rest

LEMMA Counted ==
    /\ Open \in {{}, {4}, {6}, Families}
    /\ Cardinality({}) = 0 /\ Cardinality({4}) = 1 /\ Cardinality({6}) = 1 /\ Cardinality(Families) = 2
<1>1. Open \in {{}, {4}, {6}, Families}
  BY DEF Open, Families
<1>2. Cardinality({}) = 0
  BY FS_EmptySet
<1>3. Cardinality({4}) = 1 /\ Cardinality({6}) = 1
  BY FS_Singleton
<1>4. Cardinality(Families) = 2
  <2>1. 6 \notin {4} /\ {4} \cup {6} = Families
    BY DEF Families
  <2>3. IsFiniteSet({4})
    BY FS_Singleton
  <2>2. Cardinality({4} \cup {6}) = Cardinality({4}) + 1
    BY <2>1, <2>3, FS_AddElement
  <2> QED BY <1>3, <2>1, <2>2
<1> QED BY <1>1, <1>2, <1>3, <1>4

LEMMA Alone == ASSUME NEW s \in Seq(Ops), Len(s) = 1 PROVE Left(s) = {Head(s)}
<1>1. s # <<>> /\ Head(s) = s[1]
  OBVIOUS
<1> QED BY <1>1 DEF Left

LEMMA WriteRest == ASSUME Rest, Write PROVE Rest'
<1>1. /\ failed = "none" /\ (stack = <<>> \/ Top.op \in {"onState", "onData"})
      /\ UNCHANGED <<mState, mFd, want, peer, avail, accepted, closed, gone, inside, connects, sends>>
  BY DEF Write, ProgramRuns, Idle, Running, fdVars
<1> DEFINE write == Do("write", ReadFrom)
<1>2. \/ stack' = stack /\ failed' = failed /\ mState # "Connected"
      \/ /\ Open = {ReadFrom} /\ mState = "Connected" /\ failed' = failed
         /\ stack' = <<write>> \o stack
      \/ /\ stack' = stack /\ mState = "Connected"
         /\ (failed' = "no fd" /\ Open = {}) \/ (failed' = "write" /\ Open = Families)
  <2>1. Single => Open = {ReadFrom}
    BY Counted DEF Single, ReadFrom
  <2>2. ~Single => Open = {} \/ Open = Families
    BY Counted DEF Single
  <2>3. Families # {}
    BY DEF Families
  <2> QED BY <2>1, <2>2, <2>3 DEF Write
<1>3. KernelTyped /\ stack \in Seq(Ops)
  BY DEF Rest, SocketTyped
<1>4. Open' = Open /\ (Failed' <=> Failed)
  BY <1>1 DEF Open, Failed
<1>5. KernelTyped'
  BY <1>1, <1>3, <1>4 DEF KernelTyped
<1>6. CASE stack' = stack /\ failed' = failed /\ mState # "Connected"
  <2>1. SocketTyped'
    BY <1>1, <1>5, <1>6 DEF Rest, SocketTyped
  <2> QED BY <1>1, <1>4, <1>6, <2>1 DEF Rest, EventsOwned, Racing, WriteAsserts, Calm, Watched
<1>7. CASE /\ stack' = stack /\ mState = "Connected"
           /\ (failed' = "no fd" /\ Open = {}) \/ (failed' = "write" /\ Open = Families)
  <2>1. SocketTyped'
    BY <1>1, <1>5, <1>7 DEF Rest, SocketTyped
  <2>2. WriteAsserts'
    <3>1. failed' = "no fd" => closed \/ gone \/ inside
      BY <1>7 DEF Rest, Calm, Failed, Families
    <3>2. failed' = "write" => \E i \in 1..Len(stack) : stack[i].op = "dropOther"
      BY <1>7 DEF Rest, Racing, Left
    <3> QED BY <1>1, <1>7, <3>1, <3>2 DEF WriteAsserts
  <2> QED BY <1>1, <1>4, <1>7, <2>1, <2>2 DEF Rest, EventsOwned, Racing, Calm, Watched
<1>8. CASE /\ Open = {ReadFrom} /\ mState = "Connected" /\ failed' = failed
           /\ stack' = <<write>> \o stack
  <2>1. write \in Ops /\ write.op = "write" /\ write.f = ReadFrom
    <3>1. ReadFrom \in Families
      BY <1>8 DEF Open
    <3> QED BY <1>3, <3>1, DoTyped
  <2> HIDE DEF write
  <2>2. <<write>> \in Seq(Ops) /\ Left(<<write>>) = {write}
    BY <2>1, Few
  <2>9. PICK ops \in Seq(Ops) : ops = <<write>> /\ Left(ops) = {write}
    BY <2>2
  <2>3. stack' \in Seq(Ops) /\ Left(stack') = {write} \cup Left(stack)
    <3>1. ops \o stack \in Seq(Ops) /\ Left(ops \o stack) = Left(ops) \cup Left(stack)
      BY <1>3, Pushed
    <3> QED BY <1>8, <2>9, <3>1
  <2>4. FinalLast(stack) => FinalLast(stack')
    BY <1>3, <1>8, <2>1, <2>2, StaysLast DEF Final
  <2>5. SocketTyped'
    BY <1>1, <1>5, <1>8, <2>3 DEF Rest, SocketTyped
  <2>6. EventsOwned' /\ Racing' /\ WriteAsserts'
    BY <1>1, <1>4, <1>8, <2>1, <2>3 DEF Rest, EventsOwned, Racing, WriteAsserts
  <2>7. Calm'
    <3> SUFFICES ASSUME ~closed, ~gone, ~inside
                 PROVE  /\ FinalLast(stack')
                        /\ \A e \in Left(stack') :
                            /\ e.op = "dropOther" => e.f \in Open
                            /\ e.op # "drop"
      BY <1>1, <1>4, <1>8 DEF Calm
    <3>1. /\ FinalLast(stack)
          /\ \A e \in Left(stack) :
                /\ e.op = "dropOther" => e.f \in Open
                /\ e.op = "drop" => Len(stack) = 1
      BY <1>8 DEF Rest, Calm, Failed
    <3>2. ASSUME NEW e \in Left(stack) PROVE e.op # "drop"
      <4>1. CASE stack = <<>>
        BY <4>1, Few
      <4>2. CASE stack # <<>> /\ Len(stack) = 1
        <5>1. Left(stack) = {Top}
          BY <1>3, <4>2, Alone DEF Top
        <5> QED BY <1>1, <4>2, <5>1
      <4> QED BY <3>1, <4>1, <4>2
    <3> QED BY <2>1, <2>3, <2>4, <3>1, <3>2
  <2>8. Watched'
    BY <1>4, <1>8, <2>1, <2>3 DEF Watched
  <2> QED BY <2>5, <2>6, <2>7, <2>8 DEF Rest
<1> QED BY <1>2, <1>6, <1>7, <1>8

-----------------------------------------------------------------------------
(* Theorems *)

LEMMA NextRest == ASSUME Rest, [Next]_vars PROVE Rest'
<1>1. CASE UNCHANGED vars
  <2>1. UNCHANGED <<mState, mFd, want, peer, avail, stack, failed, mPendingWrites, accepted, closed, gone,
                    inside, connects, sends>>
    BY <1>1 DEF vars
  <2>2. Open' = Open /\ (Failed' <=> Failed)
    BY <2>1 DEF Open, Failed
  <2>3. SocketTyped'
    BY <2>1, <2>2 DEF Rest, SocketTyped, KernelTyped
  <2> QED BY <2>1, <2>2, <2>3 DEF Rest, EventsOwned, Racing, WriteAsserts, Calm, Watched
<1>2. CASE WatchConnect \/ DropFd \/ FdWrite \/ FdWriteGone
  BY <1>2, WatchConnectRest, DropFdRest, FdWriteRest, EndsRest
<1>3. CASE ReadData \/ ReadNothing \/ ReadEnds \/ ReadAsserts
  BY <1>3, ReadDataRest, EndsRest, EndOfSocketRest, ReadAssertsRest
<1>4. CASE WriteAll \/ WriteSome \/ WriteFails \/ Returns
  BY <1>4, WritesRest, EndOfSocketRest, EndsRest
<1>5. CASE Write \/ Close
  BY <1>5, WriteRest, CloseRest
<1>6. ASSUME NEW f \in Families, Settles(f) \/ Breaks(f) PROVE Rest'
  BY <1>6, NetworkRest DEF Settles, Breaks
<1>7. ASSUME NEW f \in Families, PeerSends(f) \/ Connect(f) \/ Callback(f) \/ FdError(f) PROVE Rest'
  BY <1>7, PeerSendsRest, ConnectRest, CallbackRest, FdErrorRest
<1> QED BY <1>1, <1>2, <1>3, <1>4, <1>5, <1>6, <1>7 DEF Next, Step

LEMMA InitInv == Init => IInv
<1> SUFFICES ASSUME Init PROVE IInv
  OBVIOUS
<1>1. Left(stack) = {} /\ Len(stack) = 0
  BY Few DEF Init
<1>2. Open = IF accepted THEN {4} ELSE {}
  <2>1. \A f \in Families : mFd[f] = IF accepted /\ f = 4 THEN MaxConnects + 1 ELSE 0
    BY DEF Init
  <2>2. MaxConnects + 1 # 0
    BY TcpSocketAssumption
  <2> QED BY <2>1, <2>2 DEF Open, Families
<1>3. KernelTyped
  <2>1. mFd \in [Families -> 0..(MaxConnects + 1)]
    BY TcpSocketAssumption DEF Init
  <2>2. want \in [Families -> SUBSET {"in", "out"}] /\ peer \in [Families -> {"none", "connecting", "refused", "up", "shut", "reset", "lost"}]
    BY DEF Init
  <2>3. avail \in [Families -> BOOLEAN]
    <3>1. FALSE \in BOOLEAN
      OBVIOUS
    <3> QED BY <3>1 DEF Init
  <2>4. \A f \in Families \ Open : want[f] = {} /\ peer[f] = "none" /\ ~avail[f]
    BY DEF Init
  <2> QED BY <2>1, <2>2, <2>3, <2>4 DEF KernelTyped
<1>4. SocketTyped
  <2>1. stack \in Seq(Ops)
    BY DEF Init
  <2>2. 0 \in 0..MaxConnects /\ 0 \in 0..MaxSends /\ FALSE \in BOOLEAN
    BY TcpSocketAssumption
  <2>3. accepted \in BOOLEAN /\ mState \in {"Idle", "Connecting", "Connected", "Closed", "Error"}
    BY DEF Init
  <2>4. failed = "none" /\ closed = FALSE /\ gone = FALSE /\ inside = FALSE /\ connects = 0 /\ sends = 0
    BY DEF Init
  <2> QED BY <1>3, <2>1, <2>2, <2>3, <2>4 DEF SocketTyped
<1>5. WritesTyped
  <2>1. mPendingWrites \in Seq(1..MaxWrites) /\ mWriteOffset \in 0..(BufferSize - 1)
    BY TcpSocketAssumption DEF Init
  <2>2. 0 \in 0..MaxWrites /\ FALSE \in BOOLEAN
    BY TcpSocketAssumption
  <2> QED BY <2>1, <2>2 DEF Init, WritesTyped
<1>6. Stream
  <2>1. /\ mPendingWrites = <<>> /\ Len(mPendingWrites) = 0 /\ mWriteOffset = 0 /\ writes = 0 /\ sent = {}
        /\ again = {}
    BY DEF Init
  <2>2. (0 - 0) * BufferSize + 0 = 0 /\ 0 * BufferSize = 0 /\ 1..0 = {}
    BY TcpSocketAssumption
  <2>3. Start = 0
    BY <2>1, <2>2 DEF Start
  <2> QED BY <2>1, <2>2, <2>3 DEF Stream
<1>7. EventsOwned
  BY <1>1 DEF EventsOwned
<1>8. Racing
  BY <1>2 DEF Racing, Families
<1>9. WriteAsserts
  BY DEF Init, WriteAsserts
<1>10. Calm
  <2>1. FinalLast(stack)
    BY <1>1 DEF FinalLast
  <2> QED BY <1>1, <1>2, <2>1 DEF Init, Calm
<1>11. Watched
  BY DEF Init, Watched
<1> QED BY <1>4, <1>5, <1>6, <1>7, <1>8, <1>9, <1>10, <1>11, Parts DEF IInv, Typed, EventsOwned

LEMMA NextInv == IInv /\ [Next]_vars => IInv'
<1> SUFFICES ASSUME IInv, [Next]_vars PROVE IInv'
  OBVIOUS
<1>1. TypeOK /\ Stream /\ Rest
  BY Parts DEF IInv, Typed, EventsOwned, Rest
<1>2. Stream' /\ WritesTyped' /\ Rest'
  BY <1>1, StreamInv, WritesTypedInv, NextRest
<1>3. TypeOK'
  BY <1>2 DEF TypeOK, Rest, SocketTyped, KernelTyped, WritesTyped
<1> QED BY <1>2, <1>3 DEF IInv, Typed, EventsOwned, Rest

\* The strengthening is an invariant of the specification: who is about to remove
\* which descriptor, and which bytes are still to be written.
THEOREM Invariance == Spec => []IInv
<1> QED BY InitInv, NextInv, PTL DEF Spec

\* Of any number of attempts, started in whichever handlers, one is left; none is lost
\* in silence; write() finds one descriptor but for the cases WriteAsserts names.
THEOREM AttemptsAreSettled == Spec => []AttemptsSettled
<1>1. ASSUME IInv PROVE AttemptsSettled
  <2>1. TypeOK /\ WriteAsserts
    BY <1>1 DEF IInv, Typed
  <2>2. OneSurvives
    <3>1. SUFFICES ASSUME mState = "Connected", stack = <<>> PROVE Cardinality(Open) <= 1
      BY DEF OneSurvives
    <3>2. Left(stack) = {}
      BY <3>1, Few
    <3>3. Open # Families
      BY <1>1, <3>1, <3>2 DEF IInv, Racing
    <3> QED BY <3>3, Counted
  <2>3. NotSilentlyDead
    BY <1>1 DEF IInv, Calm, Failed, NotSilentlyDead
  <2> QED BY <2>1, <2>2, <2>3 DEF AttemptsSettled
<1> QED BY <1>1, Invariance, PTL

\* For buffers of any size and any number of writes, cut wherever the kernel likes: it
\* gets the bytes in order with none left out, none twice unless processWrite has kept a
\* written buffer, and what is pending is not forgotten.
THEOREM StreamIsIntact == Spec => []StreamIntact
<1>1. ASSUME IInv PROVE StreamIntact
  <2>1. PICK n \in 0..(writes * BufferSize) : sent = 1..n /\ (~resent => again = {})
    BY <1>1 DEF IInv, Stream
  <2>2. NothingSkipped
    <3>1. n \in Nat
      <4>1. writes \in Nat /\ BufferSize \in Nat \ {0}
        BY <1>1, Numbers DEF IInv, Typed
      <4>2. writes * BufferSize \in Nat
        BY <4>1, Products
      <4> QED BY <4>2
    <3>2. Cardinality(1..n) = n
      BY <3>1, FS_Interval
    <3> QED BY <2>1, <3>2 DEF NothingSkipped
  <2>3. NothingRepeated
    BY <2>1 DEF NothingRepeated
  <2>4. PendingIsWatched
    <3>1. SUFFICES ASSUME Idle, mState = "Connected", mPendingWrites # <<>>, NEW f \in Open
                   PROVE  "out" \in want[f] \/ peer[f] = "lost"
      BY DEF PendingIsWatched
    <3>2. failed = "none" /\ Left(stack) = {}
      BY <3>1, Few DEF Idle
    <3> QED BY <1>1, <3>1, <3>2 DEF IInv, Watched
  <2> QED BY <2>2, <2>3, <2>4 DEF StreamIntact
<1> QED BY <1>1, Invariance, PTL

=============================================================================
