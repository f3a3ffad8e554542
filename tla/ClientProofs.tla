---------------------------- MODULE ClientProofs ----------------------------
(***************************************************************************)
(* Proofs about HttpClient for any number of clients and of buffers of any *)
(* size, and about WebSocketClient for any frames and buffers of any size. *)
(*                                                                         *)
(* The upload of an HTTP client is a pointer into a list of buffers        *)
(* (Uploads): what a read, a write or the clearing of the list does to it  *)
(* is stated once, about sequences.  What a client has told depends on how *)
(* far its response has come (Heard), and an error on that the loop's      *)
(* thread is in its handler (Failing).  What the loop can count on between *)
(* two events (TransfersDriven) has to hold in the handlers that come      *)
(* before (Driven).                                                        *)
(*                                                                         *)
(* The buffers that the WebSocket client has read are a chain (Chain), of  *)
(* which each step adds, removes or shortens one; its answer is in one     *)
(* buffer before it is merged, in two at most when it is (Reads).          *)
(***************************************************************************)
EXTENDS HttpClient, WebSocketClient, SequenceTheorems, FiniteSetTheorems, TLAPS

-----------------------------------------------------------------------------
(* The inductive invariant *)

\* The types of the variables but those of the upload, and of these as functions.
Control ==
    /\ pc \in {"loop", "curl", "check", "aborted"} \cup Handlers
    /\ via \in {"socket", "timeout", "none"} /\ cur \in Clients \cup {Nobody}
    /\ timer \in BOOLEAN /\ wants \in BOOLEAN
    /\ fds \in [Clients -> Polls]
    /\ transfer \in [Clients -> {"none", "lost", "running", "done", "failed", "over"}]
    /\ response \in [Clients -> {"status", "fields", "body"}]
    /\ status \in [Clients -> Statuses \cup {"0"}]
    /\ headers \in [Clients -> BOOLEAN] /\ released \in [Clients -> BOOLEAN]
    /\ told \in [Clients -> Seq(Handlers)]

Lists ==
    /\ ended \in [Clients -> BOOLEAN] /\ mPaused \in [Clients -> BOOLEAN]
    /\ mWriteEnd \in [Clients -> BOOLEAN]
    /\ mBuffers \in [Clients -> Seq(1..MaxWrites)]
    /\ mBufferPos \in [Clients -> Nat] /\ mBufferOffset \in [Clients -> Nat]
    /\ written \in [Clients -> Seq(Sizes)]
    /\ sent \in [Clients -> Seq(Nat \X Nat)]

\* The bytes of buffers of these sizes, and the next one to be taken.
BytesOf(w) == UNION {{n} \X (1..w[n]) : n \in DOMAIN w}
Earlier(w, n, k) == {b \in BytesOf(w) : Before(b, <<n, k>>)}
NextOf(bufs, pos, off, w) ==
    IF bufs = <<>> THEN <<Len(w) + 1, 1>> ELSE <<bufs[pos + 1], off + 1>>

InOrder(s) == \A i, j \in 1..Len(s) : i < j => Before(s[i], s[j])

\* The buffers are the last ones written, the pointer is inside of them, and the
\* bytes before it have been sent.
Upload(bufs, pos, off, w, s) ==
    /\ bufs \in Seq(1..MaxWrites) /\ pos \in Nat /\ off \in Nat
    /\ w \in Seq(Sizes) /\ Len(w) <= MaxWrites /\ s \in Seq(Nat \X Nat)
    /\ \A i \in 1..Len(bufs) : bufs[i] = Len(w) - Len(bufs) + i
    /\ bufs = <<>> => pos = 0 /\ off = 0
    /\ bufs # <<>> => pos < Len(bufs) /\ (off < w[bufs[pos + 1]] \/ off = 0)
    /\ Range(s) = {b \in BytesOf(w) : Before(b, NextOf(bufs, pos, off, w))}
    /\ InOrder(s)

Uploads ==
    \A c \in Clients :
        /\ Upload(mBuffers[c], mBufferPos[c], mBufferOffset[c], written[c], sent[c])
        /\ mPaused[c] => mBuffers[c] = <<>> /\ ~mWriteEnd[c]
        /\ ended[c] /\ ~released[c] => mWriteEnd[c]

\* What a client may have told before the end, and what follows from it.
Begun(c, order) ==
    /\ order \in Orders
    /\ order = <<"body">> => status[c] = "0"
    /\ order = <<"response", "body">> => status[c] = "2xx"

\* What has been told when the response has come so far.
Block(c) ==
    \/ response[c] = "status" /\ told[c] = <<>> /\ status[c] = "0" /\ ~headers[c]
    \/ response[c] = "status" /\ told[c] = <<"response">> /\ status[c] = "1xx"
    \/ response[c] = "fields" /\ told[c] = <<>> /\ status[c] \in Statuses
    \/ response[c] = "body" /\ told[c] \in {<<>>, <<"body">>} /\ status[c] = "0" /\ ~headers[c]
    \/ response[c] = "body" /\ told[c] \in {<<"response">>, <<"response", "body">>}
                            /\ status[c] = "2xx"

Heard(c) ==
    /\ transfer[c] \in {"none", "lost", "running"} => Block(c)
    /\ transfer[c] \in {"none", "lost"} =>
           response[c] = "status" /\ told[c] = <<>> /\ status[c] = "0"
    /\ transfer[c] \in {"done", "failed"} => Begun(c, told[c])
    /\ transfer[c] = "over" =>
           \E order \in Orders, end \in Ends : told[c] = order \o end /\ Begun(c, order)

\* In the handlers of mError.
Failing ==
    pc = "error" =>
        /\ cur \in Clients /\ transfer[cur] = "over"
        /\ \E order \in Orders : told[cur] = order \o <<"error">> /\ Begun(cur, order)

\* Outside of curl and its callbacks.
Driven ==
    /\ wants => timer
    /\ pc \in {"loop", "check", "error", "complete"} =>
           /\ \A c \in Running : fds[c] # {} \/ timer
           /\ \A c \in Running \cap Post : mPaused[c] \/ ended[c] \/ "out" \in fds[c] \/ timer
           /\ \A c \in Clients \ Running : fds[c] = {}
    /\ \A c \in Clients : transfer[c] = "none" => fds[c] = {}

IInv ==
    /\ Control /\ Lists /\ Uploads /\ AssertsOnlyFor
    /\ (\A c \in Clients : Heard(c)) /\ Failing /\ Driven

-----------------------------------------------------------------------------
(* The upload: a pointer into buffers *)

LEMMA OneByte ==
    ASSUME NEW w \in Seq(Nat), NEW b
    PROVE  b \in BytesOf(w) <=> \E n \in 1..Len(w), k \in Nat : k \in 1..w[n] /\ b = <<n, k>>
<1>1. DOMAIN w = 1..Len(w) /\ \A n \in 1..Len(w) : w[n] \in Nat
  OBVIOUS
<1>2. b \in BytesOf(w) <=> \E n \in DOMAIN w : b \in {n} \X (1..w[n])
  BY DEF BytesOf
<1>3. ASSUME NEW n \in 1..Len(w)
      PROVE  b \in {n} \X (1..w[n]) <=> \E k \in Nat : k \in 1..w[n] /\ b = <<n, k>>
  <2>1. \A k \in 1..w[n] : k \in Nat
    BY <1>1
  <2>2. b \in {n} \X (1..w[n]) <=> \E k \in 1..w[n] : b = <<n, k>>
    OBVIOUS
  <2> QED BY <2>1, <2>2
<1> QED BY <1>1, <1>2, <1>3

LEMMA EarlierByte ==
    ASSUME NEW w \in Seq(Nat), NEW u, NEW o, NEW b \in Earlier(w, u, o)
    PROVE  \E m \in 1..Len(w), k \in Nat :
               k \in 1..w[m] /\ b = <<m, k>> /\ (m < u \/ (m = u /\ k < o))
<1>1. b \in BytesOf(w) /\ Before(b, <<u, o>>)
  BY DEF Earlier
<1>2. PICK m \in 1..Len(w), k \in Nat : k \in 1..w[m] /\ b = <<m, k>>
  BY <1>1, OneByte
<1>3. m < u \/ (m = u /\ k < o)
  BY <1>1, <1>2 DEF Before
<1> QED BY <1>2, <1>3

LEMMA InRange ==
    ASSUME NEW T, NEW s \in Seq(T), NEW b
    PROVE  b \in Range(s) <=> \E i \in 1..Len(s) : b = s[i]
BY DEF Range

\* A buffer added does not change what comes before the next byte.
LEMMA BytesBefore ==
    ASSUME NEW w \in Seq(Nat), NEW size \in Nat, NEW u \in Nat, NEW o \in Nat,
           u <= Len(w) \/ (u = Len(w) + 1 /\ o = 1)
    PROVE  {b \in BytesOf(Append(w, size)) : Before(b, <<u, o>>)} = {b \in BytesOf(w) : Before(b, <<u, o>>)}
<1> DEFINE v == Append(w, size)
<1>1. v \in Seq(Nat) /\ Len(v) = Len(w) + 1 /\ Len(w) \in Nat /\ \A n \in 1..Len(w) : v[n] = w[n]
  BY AppendProperties
<1> HIDE DEF v
<1>2. ASSUME NEW b, b \in BytesOf(w) PROVE b \in BytesOf(v)
  <2>1. PICK n \in 1..Len(w), k \in Nat : k \in 1..w[n] /\ b = <<n, k>>
    BY <1>2, OneByte
  <2>2. n \in 1..Len(v) /\ k \in 1..v[n]
    BY <1>1, <2>1
  <2> QED BY <1>1, <2>1, <2>2, OneByte
<1>3. ASSUME NEW b, b \in BytesOf(v), Before(b, <<u, o>>) PROVE b \in BytesOf(w)
  <2>1. PICK n \in 1..Len(v), k \in Nat : k \in 1..v[n] /\ b = <<n, k>>
    BY <1>1, <1>3, OneByte
  <2>2. n < u \/ (n = u /\ k < o)
    BY <1>3, <2>1 DEF Before
  <2>3. n \in 1..Len(w)
    <3>1. v[n] \in Nat
      BY <1>1
    <3> QED BY <1>1, <2>1, <2>2, <3>1
  <2>4. k \in 1..w[n]
    BY <1>1, <2>1, <2>3
  <2> QED BY <2>1, <2>3, <2>4, OneByte
<1> QED BY <1>2, <1>3 DEF v

\* The bytes up to the end of a buffer are those before the next one.
LEMMA BufferEnds ==
    ASSUME NEW w \in Seq(Nat), NEW u \in 1..Len(w)
    PROVE  {b \in BytesOf(w) : Before(b, <<u, w[u] + 1>>)} = {b \in BytesOf(w) : Before(b, <<u + 1, 1>>)}
<1>1. ASSUME NEW b \in BytesOf(w) PROVE Before(b, <<u, w[u] + 1>>) <=> Before(b, <<u + 1, 1>>)
  <2>1. PICK n \in 1..Len(w), k \in Nat : k \in 1..w[n] /\ b = <<n, k>>
    BY OneByte
  <2>2. w[n] \in Nat /\ w[u] \in Nat /\ Len(w) \in Nat
    OBVIOUS
  <2>3. Before(b, <<u, w[u] + 1>>) <=> n < u \/ (n = u /\ k < w[u] + 1)
    BY <2>1 DEF Before
  <2>4. Before(b, <<u + 1, 1>>) <=> n < u + 1 \/ (n = u + 1 /\ k < 1)
    BY <2>1 DEF Before
  <2>5. n = u => k < w[u] + 1
    BY <2>1, <2>2
  <2>6. ~(k < 1)
    BY <2>1, <2>2
  <2>7. n < u + 1 <=> n < u \/ n = u
    BY <2>1, <2>2
  <2> QED BY <2>3, <2>4, <2>5, <2>6, <2>7
<1> QED BY <1>1

\* Bytes of a buffer taken from the next one on.
Part(p, u, o) == \A k \in 1..Len(p) : p[k] = <<u, o + k>>

LEMMA BytesTaken ==
    ASSUME NEW T, NEW w \in Seq(Nat), NEW s \in Seq(T), NEW p \in Seq(T),
           NEW u \in 1..Len(w), NEW o \in Nat, o + Len(p) <= w[u],
           Part(p, u, o),
           Range(s) = Earlier(w, u, o + 1),
           InOrder(s)
    PROVE  /\ s \o p \in Seq(T)
           /\ Range(s \o p) = Earlier(w, u, o + Len(p) + 1)
           /\ InOrder(s \o p)
<1>a. PICK n \in Nat : n = Len(p)
  OBVIOUS
<1>b. /\ s \o p \in Seq(T) /\ Len(s \o p) = Len(s) + Len(p)
      /\ \A i \in 1..(Len(s) + Len(p)) : (s \o p)[i] = IF i <= Len(s) THEN s[i] ELSE p[i - Len(s)]
  BY ConcatProperties
<1>c. PICK t \in Seq(T) : t = s \o p
  BY <1>b
<1>1. Len(s) \in Nat /\ o + n <= w[u]
  BY <1>a
<1>2. /\ Len(t) = Len(s) + n
      /\ \A i \in 1..Len(t) : t[i] = IF i <= Len(s) THEN s[i] ELSE p[i - Len(s)]
  BY <1>a, <1>b, <1>c
<1>3. \A i \in 1..Len(s) : i \in 1..Len(t) /\ t[i] = s[i]
  <2> TAKE i \in 1..Len(s)
  <2>1. i \in 1..Len(t) /\ i <= Len(s)
    BY <1>1, <1>2
  <2> QED BY <1>2, <2>1
<1>4. \A k \in 1..n : Len(s) + k \in 1..Len(t) /\ t[Len(s) + k] = <<u, o + k>>
  <2> TAKE k \in 1..n
  <2>1. Len(s) + k \in 1..(Len(s) + n) /\ ~(Len(s) + k <= Len(s)) /\ (Len(s) + k) - Len(s) = k
    BY <1>1
  <2>2. p[k] = <<u, o + k>>
    BY <1>a DEF Part
  <2> QED BY <1>1, <1>2, <2>1, <2>2
<1>5. \A i \in 1..Len(t) : \/ i \in 1..Len(s) /\ t[i] = s[i]
                           \/ ~(i <= Len(s)) /\ i - Len(s) \in 1..n /\ t[i] = <<u, o + (i - Len(s))>>
  <2> TAKE i \in 1..Len(t)
  <2>1. ~(i <= Len(s)) => i - Len(s) \in 1..n /\ t[i] = p[i - Len(s)]
    <3>1. i \in 1..(Len(s) + n)
      BY <1>2
    <3>2. ~(i <= Len(s)) => i - Len(s) \in 1..n
      BY <1>1, <3>1
    <3> QED BY <1>2, <3>2
  <2>2. i <= Len(s) => i \in 1..Len(s) /\ t[i] = s[i]
    BY <1>1, <1>2
  <2>3. \A k \in 1..n : p[k] = <<u, o + k>>
    BY <1>a DEF Part
  <2> QED BY <2>1, <2>2, <2>3
<1>6. w[u] \in Nat /\ Len(w) \in Nat
  OBVIOUS
<1>7. ASSUME NEW b, b \in Range(t) PROVE b \in BytesOf(w) /\ Before(b, <<u, o + n + 1>>)
  <2>1. PICK i \in 1..Len(t) : b = t[i]
    BY <1>7, InRange
  <2>2. CASE i \in 1..Len(s) /\ t[i] = s[i]
    <3>1. b \in Range(s)
      BY <2>1, <2>2, InRange
    <3>2. b \in BytesOf(w) /\ Before(b, <<u, o + 1>>)
      BY <3>1 DEF Earlier
    <3>3. PICK m \in 1..Len(w), k \in Nat : k \in 1..w[m] /\ b = <<m, k>>
      BY <3>2, OneByte
    <3>4. m < u \/ (m = u /\ k < o + 1)
      BY <3>2, <3>3 DEF Before
    <3>5. w[m] \in Nat
      OBVIOUS
    <3>6. m < u \/ (m = u /\ k < o + n + 1)
      BY <3>3, <3>4, <3>5
    <3>7. Before(<<m, k>>, <<u, o + n + 1>>)
      BY <3>6 DEF Before
    <3> QED BY <3>2, <3>3, <3>7
  <2>3. CASE ~(i <= Len(s)) /\ i - Len(s) \in 1..n /\ t[i] = <<u, o + (i - Len(s))>>
    <3>1. PICK k \in 1..n : b = <<u, o + k>>
      BY <2>1, <2>3
    <3>2. o + k \in 1..w[u] /\ o + k < o + n + 1
      BY <1>1, <1>6
    <3>3. Before(<<u, o + k>>, <<u, o + n + 1>>)
      BY <3>2 DEF Before
    <3> QED BY <3>1, <3>2, <3>3, OneByte
  <2> QED BY <1>5, <2>1, <2>2, <2>3
<1>8. ASSUME NEW b, b \in BytesOf(w), Before(b, <<u, o + n + 1>>) PROVE b \in Range(t)
  <2>1. PICK m \in 1..Len(w), k \in Nat : k \in 1..w[m] /\ b = <<m, k>>
    BY <1>8, OneByte
  <2>2. m < u \/ (m = u /\ k < o + n + 1)
    BY <1>8, <2>1 DEF Before
  <2>3. w[m] \in Nat
    OBVIOUS
  <2>4. CASE m < u \/ (m = u /\ k < o + 1)
    <3>1. Before(<<m, k>>, <<u, o + 1>>)
      BY <2>4 DEF Before
    <3>2. b \in Range(s)
      BY <1>8, <2>1, <3>1 DEF Earlier
    <3>3. PICK i \in 1..Len(s) : b = s[i]
      BY <3>2, InRange
    <3> QED BY <1>3, <3>3, InRange
  <2>5. CASE m = u /\ ~(k < o + 1)
    <3>1. k - o \in 1..n /\ o + (k - o) = k
      BY <2>1, <2>2, <2>3, <2>5
    <3>2. t[Len(s) + (k - o)] = b /\ Len(s) + (k - o) \in 1..Len(t)
      BY <1>4, <2>1, <2>5, <3>1
    <3> QED BY <3>2, InRange
  <2> QED BY <2>2, <2>4, <2>5
<1>9. ASSUME NEW i \in 1..Len(t), NEW j \in 1..Len(t), i < j PROVE Before(t[i], t[j])
  <2>1. CASE j \in 1..Len(s)
    <3>1. i \in 1..Len(s)
      BY <1>1, <1>9, <2>1
    <3> QED BY <1>3, <1>9, <2>1, <3>1 DEF InOrder
  <2>2. CASE i \in 1..Len(s) /\ ~(j \in 1..Len(s))
    <3>1. t[j] = <<u, o + (j - Len(s))>> /\ j - Len(s) \in 1..n
      BY <1>5, <2>2
    <3>2. PICK b : b = t[i]
      OBVIOUS
    <3>3. b \in Range(s)
      <4>1. i \in 1..Len(s) /\ b = s[i]
        BY <1>3, <2>2, <3>2
      <4> QED BY <4>1, InRange
    <3>4. b \in Earlier(w, u, o + 1)
      BY <3>3
    <3>5. PICK m \in 1..Len(w), k \in Nat :
              k \in 1..w[m] /\ b = <<m, k>> /\ (m < u \/ (m = u /\ k < o + 1))
      BY <3>4, EarlierByte
    <3>6. m < u \/ (m = u /\ k < o + (j - Len(s)))
      BY <3>1, <3>5, <1>1
    <3>7. Before(<<m, k>>, <<u, o + (j - Len(s))>>)
      BY <3>6 DEF Before
    <3> QED BY <3>1, <3>2, <3>5, <3>7
  <2>3. CASE ~(i \in 1..Len(s)) /\ ~(j \in 1..Len(s))
    <3>1. t[j] = <<u, o + (j - Len(s))>> /\ t[i] = <<u, o + (i - Len(s))>>
      BY <1>5, <2>3
    <3>2. o + (i - Len(s)) < o + (j - Len(s))
      BY <1>1, <1>9
    <3>3. Before(<<u, o + (i - Len(s))>>, <<u, o + (j - Len(s))>>)
      BY <3>2 DEF Before
    <3> QED BY <3>1, <3>3
  <2>4. ~(i \in 1..Len(s)) => ~(j \in 1..Len(s))
    BY <1>1, <1>9
  <2> QED BY <2>1, <2>2, <2>3, <2>4
<1>10. Range(t) = Earlier(w, u, o + n + 1)
  BY <1>7, <1>8 DEF Earlier
<1>11. InOrder(t)
  BY <1>9 DEF InOrder
<1> QED BY <1>a, <1>b, <1>c, <1>10, <1>11

LEMMA SeqSubset ==
    ASSUME NEW S, NEW T, S \subseteq T, NEW s \in Seq(S)
    PROVE  s \in Seq(T)
<1>1. PICK n \in Nat : s \in [1..n -> S]
  BY SeqDef
<1>2. s \in [1..n -> T]
  BY <1>1
<1> QED BY <1>2, SeqDef

\* The numbers of the buffers that are left.
LEMMA BuffersLeft ==
    ASSUME NEW n \in Nat, NEW bufs \in Seq(1..n), NEW len \in Nat,
           \A i \in 1..Len(bufs) : bufs[i] = len - Len(bufs) + i
    PROVE  /\ Len(bufs) \in Nat /\ Len(bufs) <= len
           /\ \A i \in 1..Len(bufs) : bufs[i] \in 1..n /\ bufs[i] \in 1..len
<1>1. Len(bufs) \in Nat /\ \A i \in 1..Len(bufs) : bufs[i] \in 1..n
  OBVIOUS
<1>2. Len(bufs) <= len
  <2>1. CASE Len(bufs) = 0
    BY <2>1
  <2>2. CASE Len(bufs) # 0
    <3>1. 1 \in 1..Len(bufs)
      BY <1>1, <2>2
    <3>2. bufs[1] = len - Len(bufs) + 1 /\ bufs[1] \in 1..n
      BY <1>1, <3>1
    <3> QED BY <1>1, <3>2
  <2> QED BY <2>1, <2>2
<1>3. \A i \in 1..Len(bufs) : bufs[i] \in 1..len
  BY <1>1, <1>2
<1> QED BY <1>1, <1>2, <1>3

\* Nothing has been written, or the client has been let go of.
LEMMA UploadEmpty == Upload(<<>>, 0, 0, <<>>, <<>>)
<1>1. BytesOf(<<>>) = {} /\ Range(<<>>) = {}
  BY DEF BytesOf, Range
<1>2. <<>> \in Seq(1..MaxWrites) /\ <<>> \in Seq(Sizes) /\ <<>> \in Seq(Nat \X Nat) /\ Len(<<>>) = 0
  OBVIOUS
<1>3. 0 <= MaxWrites /\ 0 \in Nat
  BY HttpClientAssumption
<1>4. 1..Len(<<>>) = {}
  BY <1>2
<1>5. InOrder(<<>>)
  BY <1>4 DEF InOrder
<1> QED BY <1>1, <1>2, <1>3, <1>4, <1>5 DEF Upload

LEMMA UploadWritten ==
    ASSUME NEW bufs, NEW pos, NEW off, NEW w, NEW s, Upload(bufs, pos, off, w, s),
           NEW size \in Sizes, Len(w) < MaxWrites
    PROVE  Upload(Append(bufs, Len(w) + 1), pos, off, Append(w, size), s)
<1> DEFINE v == Append(w, size)
           c == Append(bufs, Len(w) + 1)
<1>0. Sizes \subseteq Nat /\ MaxWrites \in Nat
  BY HttpClientAssumption
<1>1. /\ bufs \in Seq(1..MaxWrites) /\ pos \in Nat /\ off \in Nat
      /\ w \in Seq(Sizes) /\ s \in Seq(Nat \X Nat)
      /\ \A i \in 1..Len(bufs) : bufs[i] = Len(w) - Len(bufs) + i
      /\ bufs = <<>> => pos = 0 /\ off = 0
      /\ bufs # <<>> => pos < Len(bufs) /\ (off < w[bufs[pos + 1]] \/ off = 0)
      /\ Range(s) = {b \in BytesOf(w) : Before(b, NextOf(bufs, pos, off, w))}
      /\ InOrder(s)
  BY DEF Upload
<1>2. Len(w) \in Nat /\ Len(bufs) \in Nat /\ Len(w) + 1 \in 1..MaxWrites /\ Len(w) + 1 <= MaxWrites
  BY <1>0, <1>1
<1>3. /\ v \in Seq(Sizes) /\ Len(v) = Len(w) + 1 /\ \A n \in 1..Len(w) : v[n] = w[n]
  BY <1>1, AppendProperties
<1>4. /\ c \in Seq(1..MaxWrites) /\ Len(c) = Len(bufs) + 1 /\ c # <<>>
      /\ \A n \in 1..Len(bufs) : c[n] = bufs[n]
      /\ c[Len(bufs) + 1] = Len(w) + 1
  <2>1. PICK e : e = Len(w) + 1
    OBVIOUS
  <2>2. bufs \in Seq(1..MaxWrites) /\ e \in 1..MaxWrites
    BY <1>1, <1>2, <2>1
  <2>3. /\ Append(bufs, e) \in Seq(1..MaxWrites) /\ Len(Append(bufs, e)) = Len(bufs) + 1
        /\ Append(bufs, e) # <<>>
        /\ \A n \in 1..Len(bufs) : Append(bufs, e)[n] = bufs[n]
        /\ Append(bufs, e)[Len(bufs) + 1] = e
    BY <2>2, AppendProperties
  <2> QED BY <2>1, <2>3
<1>5. w \in Seq(Nat) /\ size \in Nat
  BY <1>0, <1>1, SeqSubset
<1>5a. Len(bufs) <= Len(w) /\ \A i \in 1..Len(bufs) : bufs[i] \in 1..Len(w)
  <2>1. \A i \in 1..Len(bufs) : bufs[i] = Len(w) - Len(bufs) + i
    BY <1>1
  <2> QED BY <1>0, <1>1, <1>2, <2>1, BuffersLeft
<1>6. \A u \in Nat, o \in Nat : u <= Len(w) \/ (u = Len(w) + 1 /\ o = 1) =>
          {b \in BytesOf(v) : Before(b, <<u, o>>)} = {b \in BytesOf(w) : Before(b, <<u, o>>)}
  BY <1>5, BytesBefore
<1> HIDE DEF v, c
<1>7. \A i \in 1..Len(c) : c[i] = Len(v) - Len(c) + i
  <2> TAKE i \in 1..Len(c)
  <2>1. i = Len(bufs) + 1 \/ i \in 1..Len(bufs)
    BY <1>2, <1>4
  <2>2. Len(v) - Len(c) + i = Len(w) - Len(bufs) + i
    BY <1>2, <1>3, <1>4
  <2>3. i \in 1..Len(bufs) => c[i] = Len(w) - Len(bufs) + i
    BY <1>1, <1>4
  <2>4. i = Len(bufs) + 1 => c[i] = Len(w) - Len(bufs) + i
    BY <1>2, <1>4
  <2> QED BY <2>1, <2>2, <2>3, <2>4
<1>8. CASE bufs = <<>>
  <2>1. pos = 0 /\ off = 0 /\ Len(bufs) = 0
    BY <1>1, <1>8
  <2>2. NextOf(bufs, pos, off, w) = <<Len(w) + 1, 1>> /\ NextOf(c, pos, off, v) = <<Len(w) + 1, 1>>
    BY <1>4, <1>8, <2>1 DEF NextOf
  <2>3. Range(s) = {b \in BytesOf(v) : Before(b, NextOf(c, pos, off, v))}
    BY <1>1, <1>2, <1>6, <2>2
  <2>4. pos < Len(c) /\ off = 0
    BY <1>4, <2>1
  <2> QED BY <1>1, <1>2, <1>3, <1>4, <1>7, <2>3, <2>4 DEF Upload, v, c
<1>9. CASE bufs # <<>>
  <2>1. pos + 1 \in 1..Len(bufs) /\ pos < Len(c)
    BY <1>1, <1>2, <1>4, <1>9
  <2>2. bufs[pos + 1] \in 1..Len(w) /\ bufs[pos + 1] <= Len(w) /\ c[pos + 1] = bufs[pos + 1]
    BY <1>2, <1>4, <1>5a, <2>1
  <2>3. NextOf(bufs, pos, off, w) = <<bufs[pos + 1], off + 1>> /\ NextOf(c, pos, off, v) = <<bufs[pos + 1], off + 1>>
    BY <1>4, <1>9, <2>2 DEF NextOf
  <2>4. Range(s) = {b \in BytesOf(v) : Before(b, NextOf(c, pos, off, v))}
    BY <1>1, <1>2, <1>6, <2>2, <2>3
  <2>5. off < v[c[pos + 1]] \/ off = 0
    BY <1>1, <1>3, <1>9, <2>2
  <2> QED BY <1>1, <1>2, <1>3, <1>4, <1>7, <2>1, <2>4, <2>5 DEF Upload, v, c
<1> QED BY <1>8, <1>9

\* One read, of n bytes of what is left of the current buffer.
LEMMA UploadTaken ==
    ASSUME NEW bufs, NEW pos, NEW off, NEW w, NEW s, Upload(bufs, pos, off, w, s),
           bufs # <<>>, NEW n \in Nat, off + n <= w[bufs[pos + 1]], n > 0,
           NEW t, t = s \o [k \in 1..n |-> <<bufs[pos + 1], off + k>>]
    PROVE  /\ off + n < w[bufs[pos + 1]] => Upload(bufs, pos, off + n, w, t)
           /\ off + n = w[bufs[pos + 1]] =>
                  /\ pos + 1 # Len(bufs) => Upload(bufs, pos + 1, 0, w, t)
                  /\ pos + 1 = Len(bufs) => Upload(<<>>, 0, 0, w, t)
<1>0. Sizes \subseteq Nat /\ MaxWrites \in Nat
  BY HttpClientAssumption
<1>1. /\ bufs \in Seq(1..MaxWrites) /\ pos \in Nat /\ off \in Nat
      /\ w \in Seq(Sizes) /\ Len(w) <= MaxWrites /\ s \in Seq(Nat \X Nat)
      /\ \A i \in 1..Len(bufs) : bufs[i] = Len(w) - Len(bufs) + i
      /\ pos < Len(bufs)
      /\ Range(s) = {b \in BytesOf(w) : Before(b, NextOf(bufs, pos, off, w))}
      /\ InOrder(s)
  BY DEF Upload
<1>2. /\ Len(w) \in Nat /\ Len(bufs) \in Nat /\ pos + 1 \in 1..Len(bufs) /\ w \in Seq(Nat)
      /\ \A i \in 1..Len(bufs) : bufs[i] \in 1..Len(w)
  <2>1. \A i \in 1..Len(bufs) : bufs[i] = Len(w) - Len(bufs) + i
    BY <1>1
  <2>2. Len(w) \in Nat
    BY <1>1
  <2>3. Len(bufs) \in Nat /\ \A i \in 1..Len(bufs) : bufs[i] \in 1..Len(w)
    BY <1>0, <1>1, <2>1, <2>2, BuffersLeft
  <2>4. pos + 1 \in 1..Len(bufs)
    BY <1>1, <2>3
  <2>5. w \in Seq(Nat)
    BY <1>0, <1>1, SeqSubset
  <2> QED BY <2>2, <2>3, <2>4, <2>5
<1>3. PICK u : u = bufs[pos + 1]
  OBVIOUS
<1>4. u \in 1..Len(w) /\ u = Len(w) - Len(bufs) + (pos + 1)
  BY <1>1, <1>2, <1>3
<1>5. Range(s) = Earlier(w, u, off + 1)
  BY <1>1, <1>3 DEF NextOf, Earlier
<1> DEFINE p == [k \in 1..n |-> <<u, off + k>>]
<1>6. /\ p \in Seq(Nat \X Nat) /\ Len(p) = n
      /\ \A k \in 1..n : p[k] = <<u, off + k>>
  <2>1. \A k \in 1..n : <<u, off + k>> \in Nat \X Nat
    <3>1. u \in Nat /\ off \in Nat
      BY <1>1, <1>2, <1>4
    <3> QED BY <3>1
  <2>2. p \in [1..n -> Nat \X Nat]
    BY <2>1
  <2> QED BY <2>2, SeqDef
<1>7. t = s \o p /\ off + n <= w[u]
  BY <1>3
<1> HIDE DEF p
<1>8. /\ t \in Seq(Nat \X Nat)
      /\ Range(t) = Earlier(w, u, off + n + 1)
      /\ InOrder(t)
  <2>1. s \in Seq(Nat \X Nat) /\ off \in Nat
    BY <1>1
  <2>2. InOrder(s)
    BY <1>1
  <2>3. w \in Seq(Nat) /\ u \in 1..Len(w)
    BY <1>2, <1>4
  <2>4. off + Len(p) <= w[u] /\ Part(p, u, off)
    BY <1>6, <1>7 DEF Part
  <2>5. p \in Seq(Nat \X Nat)
    BY <1>6
  <2>6. /\ s \o p \in Seq(Nat \X Nat)
        /\ Range(s \o p) = Earlier(w, u, off + Len(p) + 1)
        /\ InOrder(s \o p)
    BY <1>5, <2>1, <2>2, <2>3, <2>4, <2>5, BytesTaken
  <2> QED BY <1>6, <1>7, <2>6
<1>9. ASSUME off + n < w[u] PROVE Upload(bufs, pos, off + n, w, t)
  <2>1. NextOf(bufs, pos, off + n, w) = <<u, off + n + 1>>
    BY <1>3 DEF NextOf
  <2>2. off + n \in Nat
    BY <1>1
  <2> QED BY <1>1, <1>3, <1>7, <1>8, <1>9, <2>1, <2>2 DEF Upload, Earlier
<1>10. ASSUME off + n = w[u]
       PROVE  Range(t) = {b \in BytesOf(w) : Before(b, <<u + 1, 1>>)}
  <2>1. Range(t) = {b \in BytesOf(w) : Before(b, <<u, w[u] + 1>>)}
    BY <1>8, <1>10 DEF Earlier
  <2>2. w \in Seq(Nat) /\ u \in 1..Len(w)
    BY <1>2, <1>4
  <2> QED BY <2>1, <2>2, BufferEnds
<1>11. ASSUME off + n = w[u], pos + 1 # Len(bufs) PROVE Upload(bufs, pos + 1, 0, w, t)
  <2>1. pos + 1 + 1 \in 1..Len(bufs) /\ pos + 1 \in Nat /\ pos + 1 < Len(bufs)
    <3> DEFINE len == Len(bufs)
    <3>1. pos \in Nat /\ len \in Nat /\ pos < len /\ pos + 1 # len
      BY <1>1, <1>2, <1>11
    <3> HIDE DEF len
    <3>2. pos + 1 + 1 \in 1..len /\ pos + 1 \in Nat /\ pos + 1 < len
      BY <3>1
    <3> QED BY <3>2 DEF len
  <2>2. bufs[pos + 1 + 1] = u + 1
    BY <1>1, <1>2, <1>4, <2>1
  <2>3. NextOf(bufs, pos + 1, 0, w) = <<u + 1, 1>>
    BY <2>2 DEF NextOf
  <2>4. Range(t) = {b \in BytesOf(w) : Before(b, NextOf(bufs, pos + 1, 0, w))}
    BY <1>10, <1>11, <2>3
  <2> QED BY <1>1, <1>7, <1>8, <2>1, <2>4 DEF Upload
<1>12. ASSUME off + n = w[u], pos + 1 = Len(bufs) PROVE Upload(<<>>, 0, 0, w, t)
  <2>1. u = Len(w)
    <3>1. Len(w) \in Nat /\ Len(bufs) \in Nat /\ u = Len(w) - Len(bufs) + Len(bufs)
      BY <1>2, <1>4, <1>12
    <3> QED BY <3>1
  <2>2. Range(t) = {b \in BytesOf(w) : Before(b, NextOf(<<>>, 0, 0, w))}
    BY <1>10, <1>12, <2>1 DEF NextOf
  <2>3. <<>> \in Seq(1..MaxWrites) /\ 0 \in Nat /\ 1..Len(<<>>) = {}
    OBVIOUS
  <2> QED BY <1>1, <1>7, <1>8, <2>2, <2>3 DEF Upload
<1> QED BY <1>3, <1>9, <1>11, <1>12

-----------------------------------------------------------------------------
(* The steps of the program *)

\* A step that leaves the uploads alone.
LEMMA UploadsKept ==
    ASSUME Lists, Uploads, UNCHANGED uploadVars, \A c \in Clients : released[c] => released'[c]
    PROVE  Lists' /\ Uploads'
<1>1. UNCHANGED <<ended, mBuffers, mBufferPos, mBufferOffset, mPaused, mWriteEnd, written, sent>>
  BY DEF uploadVars
<1>2. Lists'
  BY <1>1 DEF Lists
<1>3. Uploads'
  BY <1>1 DEF Uploads
<1> QED BY <1>2, <1>3

\* What a client has heard is a matter of its own variables.
LEMMA HeardKept ==
    ASSUME NEW c, Heard(c), transfer'[c] = transfer[c], response'[c] = response[c],
           status'[c] = status[c], headers'[c] = headers[c], told'[c] = told[c]
    PROVE  Heard(c)'
BY DEF Heard, Block, Begun

LEMMA FailingKept ==
    ASSUME Failing, pc' = pc, cur' = cur, UNCHANGED <<status, told>>,
           \A c \in Clients : transfer[c] = "over" => transfer'[c] = "over"
    PROVE  Failing'
BY DEF Failing, Begun

LEMMA CreateStep ==
    ASSUME IInv, NEW c \in Clients, Create(c)
    PROVE  IInv'
<1>1. /\ UNCHANGED <<pc, via, cur, fds, released>> /\ UNCHANGED uploadVars
      /\ UNCHANGED <<response, status, headers, told>> /\ transfer[c] = "none"
  BY DEF Create, callVars, responseVars
<1>2. UNCHANGED <<ended, mPaused, mBuffers, mBufferOffset, mBufferPos, written>>
  BY <1>1 DEF uploadVars
<1>3. \/ transfer' = [transfer EXCEPT ![c] = "lost"] /\ UNCHANGED <<timer, wants>> /\ InCallback
      \/ transfer' = [transfer EXCEPT ![c] = "running"] /\ timer' = TRUE /\ wants' = TRUE
  BY DEF Create
<1>4. Control'
  BY <1>1, <1>3 DEF IInv, Control
<1>5. Lists' /\ Uploads'
  BY <1>1, UploadsKept DEF IInv
<1>6. AssertsOnlyFor'
  BY <1>1, <1>2 DEF IInv, AssertsOnlyFor, Size, ExpectsStatus
<1>7. ASSUME NEW d \in Clients PROVE Heard(d)'
  <2>1. CASE d = c
    <3>1. Heard(c) /\ transfer'[c] \in {"lost", "running"}
      BY <1>3 DEF IInv, Control
    <3> QED BY <1>1, <2>1, <3>1 DEF Heard, Block
  <2>2. CASE d # c
    BY <1>1, <1>3, <2>2, HeardKept DEF IInv, Control
  <2> QED BY <2>1, <2>2
<1>8. Failing'
  <2>1. \A d \in Clients : transfer[d] = "over" => transfer'[d] = "over"
    BY <1>1, <1>3 DEF IInv, Control
  <2> QED BY <1>1, <2>1, FailingKept DEF IInv
<1>9. Driven'
  <2>1. CASE transfer' = [transfer EXCEPT ![c] = "lost"] /\ UNCHANGED <<timer, wants>> /\ InCallback
    BY <1>1, <1>2, <2>1 DEF IInv, Control, Driven, InCallback
  <2>2. CASE transfer' = [transfer EXCEPT ![c] = "running"] /\ timer' = TRUE /\ wants' = TRUE
    BY <1>1, <1>2, <2>2 DEF IInv, Control, Driven, Running
  <2> QED BY <1>3, <2>1, <2>2
<1> QED BY <1>4, <1>5, <1>6, <1>7, <1>8, <1>9 DEF IInv

\* A step of the program on a client's upload, which may wake curl.
LEMMA ProgramStep ==
    ASSUME IInv, UNCHANGED <<pc, via, cur, fds, transfer, response, status, headers, told>>,
           UNCHANGED ended, pc # "aborted",
           Control', Lists', Uploads',
           \/ UNCHANGED <<timer, wants, mPaused>>
           \/ timer' = TRUE /\ wants' = TRUE
    PROVE  IInv'
<1>1. AssertsOnlyFor'
  BY DEF AssertsOnlyFor
<1>2. \A d \in Clients : Heard(d)'
  BY HeardKept DEF IInv
<1>3. Failing'
  BY FailingKept DEF IInv
<1>4. Driven'
  BY DEF IInv, Driven, Running
<1> QED BY <1>1, <1>2, <1>3, <1>4 DEF IInv

LEMMA ResumeTypes ==
    ASSUME Control, Lists, NEW c \in Clients, Resume(c)
    PROVE  /\ timer' \in BOOLEAN /\ wants' \in BOOLEAN /\ mPaused' \in [Clients -> BOOLEAN]
           /\ ~mPaused'[c] /\ \A d \in Clients \ {c} : mPaused'[d] = mPaused[d]
           /\ \/ UNCHANGED <<timer, wants, mPaused>>
              \/ timer' = TRUE /\ wants' = TRUE
BY DEF Control, Lists, Resume

LEMMA WriteStep ==
    ASSUME IInv, NEW c \in Clients, NEW size \in Sizes, Write(c, size)
    PROVE  IInv'
<1>1. /\ UNCHANGED <<pc, via, cur, fds, transfer, response, status, headers, told, released>>
      /\ UNCHANGED <<ended, mBufferPos, mBufferOffset, mWriteEnd, sent>>
      /\ pc # "aborted" /\ Len(written[c]) < MaxWrites /\ Resume(c)
      /\ written' = [written EXCEPT ![c] = Append(@, size)]
      /\ mBuffers' = [mBuffers EXCEPT ![c] = Append(@, Len(written'[c]))]
      /\ ~released[c]
  BY DEF Write, callVars, responseVars, MayWrite, ProgramRuns, Handlers
<1>2. /\ timer' \in BOOLEAN /\ wants' \in BOOLEAN /\ mPaused' \in [Clients -> BOOLEAN]
      /\ ~mPaused'[c] /\ \A d \in Clients \ {c} : mPaused'[d] = mPaused[d]
      /\ \/ UNCHANGED <<timer, wants, mPaused>>
         \/ timer' = TRUE /\ wants' = TRUE
  BY <1>1, ResumeTypes DEF IInv
<1>3. Control'
  BY <1>1, <1>2 DEF IInv, Control
<1>4. Upload(mBuffers[c], mBufferPos[c], mBufferOffset[c], written[c], sent[c])
  BY DEF IInv, Uploads
<1>5. written'[c] = Append(written[c], size) /\ Len(written'[c]) = Len(written[c]) + 1
  <2>1. written'[c] = Append(written[c], size) /\ written[c] \in Seq(Sizes)
    BY <1>1 DEF IInv, Lists
  <2> QED BY <2>1, AppendProperties
<1>6. mBuffers'[c] = Append(mBuffers[c], Len(written[c]) + 1)
  BY <1>1, <1>5 DEF IInv, Lists
<1>7. Upload(mBuffers[c], mBufferPos[c], mBufferOffset[c], written[c], sent[c])'
  BY <1>1, <1>4, <1>5, <1>6, UploadWritten
<1>8. \A d \in Clients \ {c} : written'[d] = written[d] /\ mBuffers'[d] = mBuffers[d]
  BY <1>1 DEF IInv, Lists
<1>9. Lists'
  <2>1. Append(written[c], size) \in Seq(Sizes) /\ Append(mBuffers[c], Len(written[c]) + 1) \in Seq(1..MaxWrites)
    BY <1>1, <1>5, <1>6, <1>7 DEF Upload
  <2>2. written' = [written EXCEPT ![c] = Append(written[c], size)]
    BY <1>1
  <2>3. mBuffers' = [mBuffers EXCEPT ![c] = Append(mBuffers[c], Len(written[c]) + 1)]
    BY <1>1, <1>5
  <2>4. written' \in [Clients -> Seq(Sizes)] /\ mBuffers' \in [Clients -> Seq(1..MaxWrites)]
    BY <2>1, <2>2, <2>3 DEF IInv, Lists
  <2>5. UNCHANGED <<ended, mBufferPos, mBufferOffset, mWriteEnd, sent>> /\ Lists
    BY <1>1 DEF IInv
  <2> QED BY <1>2, <2>4, <2>5 DEF Lists
<1>10. Uploads'
  <2> SUFFICES ASSUME NEW d \in Clients
               PROVE  /\ Upload(mBuffers[d], mBufferPos[d], mBufferOffset[d], written[d], sent[d])'
                      /\ mPaused'[d] => mBuffers'[d] = <<>> /\ ~mWriteEnd'[d]
                      /\ ended'[d] /\ ~released'[d] => mWriteEnd'[d]
    BY DEF Uploads
  <2>1. CASE d = c
    BY <1>1, <1>2, <1>7, <2>1 DEF IInv, Uploads
  <2>2. CASE d # c
    BY <1>1, <1>2, <1>8, <2>2 DEF IInv, Uploads
  <2> QED BY <2>1, <2>2
<1> QED BY <1>1, <1>2, <1>3, <1>9, <1>10, ProgramStep

LEMMA EndWriteStep ==
    ASSUME IInv, NEW c \in Clients, EndWrite(c)
    PROVE  IInv'
<1>1. /\ UNCHANGED <<pc, via, cur, fds, transfer, response, status, headers, told, released>>
      /\ UNCHANGED <<ended, mBuffers, mBufferPos, mBufferOffset, written, sent>>
      /\ pc # "aborted" /\ Resume(c)
      /\ mWriteEnd' = [mWriteEnd EXCEPT ![c] = TRUE]
  BY DEF EndWrite, callVars, responseVars, MayWrite, ProgramRuns, Handlers
<1>2. /\ timer' \in BOOLEAN /\ wants' \in BOOLEAN /\ mPaused' \in [Clients -> BOOLEAN]
      /\ ~mPaused'[c] /\ \A d \in Clients \ {c} : mPaused'[d] = mPaused[d]
      /\ \/ UNCHANGED <<timer, wants, mPaused>>
         \/ timer' = TRUE /\ wants' = TRUE
  BY <1>1, ResumeTypes DEF IInv
<1>3. Control'
  BY <1>1, <1>2 DEF IInv, Control
<1>4. Lists' /\ mWriteEnd'[c] /\ \A d \in Clients \ {c} : mWriteEnd'[d] = mWriteEnd[d]
  BY <1>1, <1>2 DEF IInv, Lists
<1>5. Uploads'
  <2> SUFFICES ASSUME NEW d \in Clients
               PROVE  /\ Upload(mBuffers[d], mBufferPos[d], mBufferOffset[d], written[d], sent[d])'
                      /\ mPaused'[d] => mBuffers'[d] = <<>> /\ ~mWriteEnd'[d]
                      /\ ended'[d] /\ ~released'[d] => mWriteEnd'[d]
    BY DEF Uploads
  <2>1. CASE d = c
    BY <1>1, <1>2, <1>4, <2>1 DEF IInv, Uploads
  <2>2. CASE d # c
    BY <1>1, <1>2, <1>4, <2>2 DEF IInv, Uploads
  <2> QED BY <2>1, <2>2
<1> QED BY <1>1, <1>2, <1>3, <1>4, <1>5, ProgramStep

LEMMA ReleaseStep ==
    ASSUME IInv, NEW c \in Clients, Release(c)
    PROVE  IInv'
<1>1. /\ UNCHANGED <<pc, via, cur, timer, fds, wants, transfer, response, status, headers, told>>
      /\ UNCHANGED <<ended, mPaused, mWriteEnd>> /\ pc # "aborted"
      /\ released' = [released EXCEPT ![c] = TRUE]
      /\ mBuffers' = [mBuffers EXCEPT ![c] = <<>>]
      /\ written' = [written EXCEPT ![c] = <<>>] /\ sent' = [sent EXCEPT ![c] = <<>>]
      /\ mBufferPos' = [mBufferPos EXCEPT ![c] = 0]
      /\ mBufferOffset' = [mBufferOffset EXCEPT ![c] = 0]
  BY DEF Release, loopVars, callVars, responseVars, ProgramRuns, Handlers
<1>2. Control'
  BY <1>1 DEF IInv, Control
<1>3. Lists'
  <2>1. <<>> \in Seq(1..MaxWrites) /\ <<>> \in Seq(Sizes) /\ <<>> \in Seq(Nat \X Nat)
    OBVIOUS
  <2> QED BY <1>1, <2>1 DEF IInv, Lists
<1>4. Uploads'
  <2> SUFFICES ASSUME NEW d \in Clients
               PROVE  /\ Upload(mBuffers[d], mBufferPos[d], mBufferOffset[d], written[d], sent[d])'
                      /\ mPaused'[d] => mBuffers'[d] = <<>> /\ ~mWriteEnd'[d]
                      /\ ended'[d] /\ ~released'[d] => mWriteEnd'[d]
    BY DEF Uploads
  <2>1. CASE d = c
    <3>1. /\ mBuffers'[c] = <<>> /\ written'[c] = <<>> /\ sent'[c] = <<>> /\ released'[c]
          /\ mBufferPos'[c] = 0 /\ mBufferOffset'[c] = 0
      BY <1>1 DEF IInv, Lists, Control
    <3> QED BY <1>1, <2>1, <3>1, UploadEmpty DEF IInv, Uploads
  <2>2. CASE d # c
    <3>1. /\ mBuffers'[d] = mBuffers[d] /\ written'[d] = written[d] /\ sent'[d] = sent[d]
          /\ mBufferPos'[d] = mBufferPos[d] /\ mBufferOffset'[d] = mBufferOffset[d]
          /\ released'[d] = released[d]
      BY <1>1, <2>2 DEF IInv, Lists, Control
    <3> QED BY <1>1, <3>1 DEF IInv, Uploads
  <2> QED BY <2>1, <2>2
<1> QED BY <1>1, <1>2, <1>3, <1>4, ProgramStep

-----------------------------------------------------------------------------
(* In and out of curl *)

\* While curl runs, it may change what it watches and how transfers end.
LEMMA DrivenInCurl ==
    ASSUME Control, Driven, UNCHANGED <<timer, wants>>, pc' \in {"curl", "response", "body", "aborted"},
           NEW c \in Clients, transfer[c] # "none",
           \/ UNCHANGED <<transfer, fds>>
           \/ \E result \in {"done", "failed"} : Finish(c, result)
    PROVE  Driven'
BY DEF Control, Driven, Finish, SocketCallback

LEMMA SocketEventStep ==
    ASSUME IInv, NEW c \in Clients, SocketEvent(c)
    PROVE  IInv'
<1>1. /\ UNCHANGED <<cur, timer, fds, wants, transfer, response, status, headers, told, released>>
      /\ UNCHANGED uploadVars /\ pc = "loop" /\ pc' = "curl" /\ via' = "socket"
  BY DEF SocketEvent, responseVars
<1>2. Control'
  BY <1>1 DEF IInv, Control
<1>3. Lists' /\ Uploads'
  BY <1>1, UploadsKept DEF IInv
<1>4. AssertsOnlyFor' /\ Failing'
  BY <1>1 DEF AssertsOnlyFor, Failing
<1>5. \A d \in Clients : Heard(d)'
  BY <1>1, HeardKept DEF IInv
<1>6. Driven'
  BY <1>1 DEF IInv, Driven
<1> QED BY <1>2, <1>3, <1>4, <1>5, <1>6 DEF IInv

LEMMA TimerFiresStep ==
    ASSUME IInv, TimerFires
    PROVE  IInv'
<1>1. /\ UNCHANGED <<cur, fds, transfer, response, status, headers, told, released>>
      /\ UNCHANGED uploadVars /\ pc = "loop" /\ pc' = "curl" /\ via' = "timeout"
      /\ timer' = FALSE /\ wants' = FALSE
  BY DEF TimerFires, responseVars
<1>2. Control'
  BY <1>1 DEF IInv, Control
<1>3. Lists' /\ Uploads'
  BY <1>1, UploadsKept DEF IInv
<1>4. AssertsOnlyFor' /\ Failing'
  BY <1>1 DEF AssertsOnlyFor, Failing
<1>5. \A d \in Clients : Heard(d)'
  BY <1>1, HeardKept DEF IInv
<1>6. Driven'
  BY <1>1 DEF IInv, Driven
<1> QED BY <1>2, <1>3, <1>4, <1>5, <1>6 DEF IInv

\* Of what curl watches after CurlReturns, the loop has a timer or a socket.
LEMMA CurlReturnsStep ==
    ASSUME IInv, CurlReturns
    PROVE  IInv'
<1>1. /\ UNCHANGED <<cur, transfer, response, status, headers, told, released>>
      /\ UNCHANGED uploadVars /\ pc = "curl" /\ pc' = "check" /\ via' = "none"
  BY DEF CurlReturns, responseVars
<1>2. UNCHANGED <<mPaused, ended>>
  BY <1>1 DEF uploadVars
<1>3. PICK what \in [Clients -> Polls], wanted \in BOOLEAN :
          /\ CurlWatches(what, wanted)
          /\ fds' = what /\ wants' = wanted
          /\ timer' = ((timer \/ wanted # wants) /\ ~TimerDropped)
  BY DEF CurlReturns
<1>4. Control'
  <2>1. timer' \in BOOLEAN
    BY <1>3
  <2> QED BY <1>1, <1>3, <2>1 DEF IInv, Control
<1>5. Lists' /\ Uploads'
  BY <1>1, UploadsKept DEF IInv
<1>6. AssertsOnlyFor' /\ Failing'
  BY <1>1 DEF AssertsOnlyFor, Failing
<1>7. \A d \in Clients : Heard(d)'
  BY <1>1, HeardKept DEF IInv
<1>8. Driven'
  <2>1. wanted => timer'
    <3>1. wanted => ~TimerDropped
      BY <1>3 DEF CurlWatches, TimerDropped
    <3>2. wants => timer
      BY DEF IInv, Driven
    <3>3. wants \in BOOLEAN
      BY DEF IInv, Control
    <3> QED BY <1>3, <3>1, <3>2, <3>3
  <2>2. Running' = Running
    BY <1>1 DEF Running
  <2>3. \A c \in Running : wanted \/ what[c] # {}
    BY <1>3 DEF CurlWatches
  <2>4. \A c \in Running \cap Post : mPaused[c] \/ ended[c] \/ wanted \/ "out" \in what[c]
    BY <1>3 DEF CurlWatches
  <2>5. \A c \in Clients \ Running : what[c] = {}
    BY <1>3 DEF CurlWatches
  <2>6. \A c \in Clients : transfer'[c] = "none" => fds'[c] = {}
    BY <1>1, <1>3, <2>5 DEF Running
  <2> QED BY <1>1, <1>2, <1>3, <2>1, <2>2, <2>3, <2>4, <2>5, <2>6 DEF Driven
<1> QED BY <1>4, <1>5, <1>6, <1>7, <1>8 DEF IInv

\* A transfer that ends has told what it had told.
LEMMA RunningBegun ==
    ASSUME NEW c, Heard(c), transfer[c] = "running"
    PROVE  Begun(c, told[c])
<1>1. <<>> \in Orders /\ <<"response">> \in Orders /\ <<"response", "body">> \in Orders /\ <<"body">> \in Orders
  BY DEF Orders
<1>2. /\ <<>> # <<"body">> /\ <<>> # <<"response", "body">>
      /\ <<"response">> # <<"body">> /\ <<"response">> # <<"response", "body">>
      /\ <<"response", "body">> # <<"body">>
  OBVIOUS
<1>3. Block(c)
  BY DEF Heard
<1> QED BY <1>1, <1>2, <1>3 DEF Block, Begun, Statuses

LEMMA FinishesStep ==
    ASSUME IInv, NEW c \in Clients, NEW result \in {"done", "failed"}, Finishes(c, result)
    PROVE  IInv'
<1>1. /\ UNCHANGED <<pc, via, cur, timer, wants, response, status, headers, told, released>>
      /\ UNCHANGED uploadVars /\ pc = "curl" /\ transfer[c] = "running"
      /\ Finish(c, result)
  BY DEF Finishes, callVars, responseVars
<1>2. /\ transfer' = [transfer EXCEPT ![c] = result]
      /\ fds' = [fds EXCEPT ![c] = {}]
  BY <1>1 DEF Finish, SocketCallback
<1>3. Control'
  BY <1>1, <1>2 DEF IInv, Control, Polls
<1>4. Lists' /\ Uploads'
  BY <1>1, UploadsKept DEF IInv
<1>5. AssertsOnlyFor' /\ Failing'
  BY <1>1 DEF AssertsOnlyFor, Failing
<1>6. ASSUME NEW d \in Clients PROVE Heard(d)'
  <2>1. CASE d = c
    <3>1. Begun(c, told[c])'
      BY <1>1, RunningBegun DEF IInv, Begun
    <3>2. transfer'[c] = result
      BY <1>2 DEF IInv, Control
    <3> QED BY <2>1, <3>1, <3>2 DEF Heard
  <2>2. CASE d # c
    BY <1>1, <1>2, <2>2, HeardKept DEF IInv, Control
  <2> QED BY <2>1, <2>2
<1>7. Driven'
  BY <1>1, DrivenInCurl DEF IInv
<1> QED BY <1>3, <1>4, <1>5, <1>6, <1>7 DEF IInv

-----------------------------------------------------------------------------
(* The upload *)

\* A step of easyReadCallback but the failing assertion.
LEMMA ReadStep ==
    ASSUME IInv, UNCHANGED <<pc, via, cur, timer, fds, wants, transfer>>,
           UNCHANGED <<response, status, headers, told, released>>,
           pc = "curl", Lists', Uploads'
    PROVE  IInv'
<1>1. Control'
  BY DEF IInv, Control
<1>2. AssertsOnlyFor' /\ Failing'
  BY DEF AssertsOnlyFor, Failing
<1>3. \A d \in Clients : Heard(d)'
  BY HeardKept DEF IInv
<1>4. Driven'
  BY DEF IInv, Driven
<1> QED BY <1>1, <1>2, <1>3, <1>4 DEF IInv

LEMMA ReadEndsStep ==
    ASSUME IInv, NEW c \in Clients, ReadEnds(c)
    PROVE  IInv'
<1>1. /\ UNCHANGED <<pc, via, cur, timer, fds, wants, transfer>>
      /\ UNCHANGED <<response, status, headers, told, released>>
      /\ UNCHANGED <<mBuffers, mBufferPos, mBufferOffset, mPaused, mWriteEnd, written, sent>>
      /\ pc = "curl" /\ (released[c] \/ mWriteEnd[c])
      /\ ended' = [ended EXCEPT ![c] = TRUE]
  BY DEF ReadEnds, Uploading, loopVars, callVars, responseVars
<1>2. Lists'
  BY <1>1 DEF IInv, Lists
<1>3. Uploads'
  BY <1>1 DEF IInv, Lists, Uploads
<1> QED BY <1>1, <1>2, <1>3, ReadStep

LEMMA ReadPausesStep ==
    ASSUME IInv, NEW c \in Clients, ReadPauses(c)
    PROVE  IInv'
<1>1. /\ UNCHANGED <<pc, via, cur, timer, fds, wants, transfer>>
      /\ UNCHANGED <<response, status, headers, told, released>>
      /\ UNCHANGED <<mBuffers, mBufferPos, mBufferOffset, ended, mWriteEnd, written, sent>>
      /\ pc = "curl" /\ mBuffers[c] = <<>> /\ ~mWriteEnd[c]
      /\ mPaused' = [mPaused EXCEPT ![c] = TRUE]
  BY DEF ReadPauses, Uploading, loopVars, callVars, responseVars
<1>2. Lists'
  BY <1>1 DEF IInv, Lists
<1>3. Uploads'
  BY <1>1 DEF IInv, Lists, Uploads
<1> QED BY <1>1, <1>2, <1>3, ReadStep

LEMMA SizeIsNat ==
    ASSUME Uploads, NEW c \in Clients, mBuffers[c] # <<>>
    PROVE  Size(c) \in Nat
<1>0. Upload(mBuffers[c], mBufferPos[c], mBufferOffset[c], written[c], sent[c])
  BY DEF Uploads
<1>1. /\ mBuffers[c] \in Seq(1..MaxWrites) /\ written[c] \in Seq(Sizes) /\ mBufferPos[c] \in Nat
      /\ mBufferPos[c] < Len(mBuffers[c])
      /\ \A i \in 1..Len(mBuffers[c]) : mBuffers[c][i] = Len(written[c]) - Len(mBuffers[c]) + i
  BY <1>0 DEF Upload
<1>2. Len(written[c]) \in Nat /\ MaxWrites \in Nat /\ Sizes \subseteq Nat
  BY <1>1, HttpClientAssumption
<1>3. /\ Len(mBuffers[c]) \in Nat
      /\ \A i \in 1..Len(mBuffers[c]) : mBuffers[c][i] \in 1..Len(written[c])
  BY <1>1, <1>2, BuffersLeft
<1>4. mBufferPos[c] + 1 \in 1..Len(mBuffers[c])
  BY <1>1, <1>3
<1>5. mBuffers[c][mBufferPos[c] + 1] \in 1..Len(written[c])
  BY <1>3, <1>4
<1>6. written[c][mBuffers[c][mBufferPos[c] + 1]] \in Sizes
  BY <1>1, <1>5
<1> QED BY <1>2, <1>6 DEF Size

\* A buffer that is not read to its end keeps its pointer, one that is moves it
\* to the next or empties the list.
LEMMA ReadTakesStep ==
    ASSUME IInv, NEW c \in Clients, NEW room \in {1, 2}, ReadTakes(c, room)
    PROVE  IInv'
<1> DEFINE left == Size(c) - mBufferOffset[c]
           n    == IF room < left THEN room ELSE left
           last == n = left /\ mBufferPos[c] + 1 = Len(mBuffers[c])
<1>1. /\ UNCHANGED <<pc, via, cur, timer, fds, wants, transfer>>
      /\ UNCHANGED <<response, status, headers, told, released>>
      /\ UNCHANGED <<ended, mPaused, mWriteEnd, written>>
      /\ pc = "curl" /\ ~released[c] /\ ~mPaused[c]
      /\ mBuffers[c] # <<>> /\ mBufferOffset[c] < Size(c)
      /\ sent' = [sent EXCEPT ![c] = @ \o Copied(c, n)]
      /\ mBufferOffset' = [mBufferOffset EXCEPT ![c] = OffsetAfter(c, n)]
      /\ mBufferPos' = [mBufferPos EXCEPT
                           ![c] = IF last THEN 0 ELSE IF n = left THEN @ + 1 ELSE @]
      /\ mBuffers' = [mBuffers EXCEPT ![c] = IF last THEN <<>> ELSE @]
  BY DEF ReadTakes, Uploading, loopVars, callVars, responseVars
<1>2. Upload(mBuffers[c], mBufferPos[c], mBufferOffset[c], written[c], sent[c])
  BY DEF IInv, Uploads
<1>3. PICK off \in Nat, size \in Nat :
          off = mBufferOffset[c] /\ size = written[c][mBuffers[c][mBufferPos[c] + 1]] /\ off < size
  <2>1. mBufferOffset[c] \in Nat
    BY DEF IInv, Lists
  <2>2. Size(c) \in Nat
    BY <1>1, SizeIsNat DEF IInv
  <2> QED BY <1>1, <2>1, <2>2 DEF Size
<1>4. PICK k \in Nat : k = n /\ k > 0 /\ off + k <= size /\ (n = left <=> off + k = size)
  <2>1. left = size - off
    BY <1>3 DEF Size
  <2> HIDE DEF left
  <2>2. n \in Nat /\ n > 0 /\ off + n <= size /\ (n = left <=> off + n = size)
    BY <1>3, <2>1
  <2> QED BY <2>2
<1>5. last <=> off + k = size /\ mBufferPos[c] + 1 = Len(mBuffers[c])
  BY <1>4
<1>6. sent'[c] = sent[c] \o [j \in 1..k |-> <<mBuffers[c][mBufferPos[c] + 1], off + j>>]
  <2>1. sent'[c] = sent[c] \o Copied(c, n)
    BY <1>1 DEF IInv, Lists
  <2> QED BY <1>3, <1>4, <2>1 DEF Copied
<1>7. /\ mBufferOffset'[c] = IF off + k = size THEN 0 ELSE off + k
      /\ mBufferPos'[c] = IF last THEN 0 ELSE IF off + k = size THEN mBufferPos[c] + 1 ELSE mBufferPos[c]
      /\ mBuffers'[c] = IF last THEN <<>> ELSE mBuffers[c]
  <2>1. OffsetAfter(c, n) = IF off + k = size THEN 0 ELSE off + k
    BY <1>3, <1>4 DEF OffsetAfter, Size
  <2> HIDE DEF n, left, last
  <2> QED BY <1>1, <1>4, <2>1 DEF IInv, Lists
<1> HIDE DEF n, left, last
<1>8. /\ off + k < size => Upload(mBuffers[c], mBufferPos[c], off + k, written[c], sent'[c])
      /\ off + k = size =>
             /\ mBufferPos[c] + 1 # Len(mBuffers[c]) =>
                    Upload(mBuffers[c], mBufferPos[c] + 1, 0, written[c], sent'[c])
             /\ mBufferPos[c] + 1 = Len(mBuffers[c]) => Upload(<<>>, 0, 0, written[c], sent'[c])
  BY <1>1, <1>2, <1>3, <1>4, <1>6, UploadTaken
<1>9. Upload(mBuffers[c], mBufferPos[c], mBufferOffset[c], written[c], sent[c])'
  <2>1. written'[c] = written[c]
    BY <1>1
  <2>2. CASE off + k < size
    BY <1>5, <1>7, <1>8, <2>1, <2>2
  <2>3. CASE off + k = size
    BY <1>5, <1>7, <1>8, <2>1, <2>3
  <2> QED BY <1>4, <2>2, <2>3
<1>10. Lists'
  <2>1. /\ mBuffers'[c] \in Seq(1..MaxWrites) /\ mBufferPos'[c] \in Nat
        /\ mBufferOffset'[c] \in Nat /\ sent'[c] \in Seq(Nat \X Nat)
    BY <1>9 DEF Upload
  <2>2. /\ mBuffers' = [mBuffers EXCEPT ![c] = mBuffers'[c]]
        /\ mBufferPos' = [mBufferPos EXCEPT ![c] = mBufferPos'[c]]
        /\ mBufferOffset' = [mBufferOffset EXCEPT ![c] = mBufferOffset'[c]]
        /\ sent' = [sent EXCEPT ![c] = sent'[c]]
    BY <1>1 DEF IInv, Lists
  <2> QED BY <1>1, <2>1, <2>2 DEF IInv, Lists
<1>11. Uploads'
  <2> SUFFICES ASSUME NEW d \in Clients
               PROVE  /\ Upload(mBuffers[d], mBufferPos[d], mBufferOffset[d], written[d], sent[d])'
                      /\ mPaused'[d] => mBuffers'[d] = <<>> /\ ~mWriteEnd'[d]
                      /\ ended'[d] /\ ~released'[d] => mWriteEnd'[d]
    BY DEF Uploads
  <2>1. CASE d = c
    BY <1>1, <1>9, <2>1 DEF IInv, Uploads
  <2>2. CASE d # c
    <3>1. /\ mBuffers'[d] = mBuffers[d] /\ sent'[d] = sent[d]
          /\ mBufferPos'[d] = mBufferPos[d] /\ mBufferOffset'[d] = mBufferOffset[d]
      BY <1>1, <2>2 DEF IInv, Lists
    <3> QED BY <1>1, <3>1 DEF IInv, Uploads
  <2> QED BY <2>1, <2>2
<1> QED BY <1>1, <1>10, <1>11, ReadStep

\* Only a buffer without bytes fails the assertion.
LEMMA ReadAssertsStep ==
    ASSUME IInv, NEW c \in Clients, ReadAsserts(c)
    PROVE  IInv'
<1>1. /\ UNCHANGED <<via, cur, timer, fds, wants, transfer, released>>
      /\ UNCHANGED <<response, status, headers, told>> /\ UNCHANGED uploadVars
      /\ pc' = "aborted" /\ c \in Post /\ transfer[c] = "running"
      /\ mBuffers[c] # <<>> /\ mBufferOffset[c] >= Size(c)
  BY DEF ReadAsserts, Uploading, loopVars, callVars, responseVars
<1>2. Control'
  BY <1>1 DEF IInv, Control
<1>3. Lists' /\ Uploads'
  BY <1>1, UploadsKept DEF IInv
<1>4. AssertsOnlyFor'
  <2>1. Upload(mBuffers[c], mBufferPos[c], mBufferOffset[c], written[c], sent[c])
    BY DEF IInv, Uploads
  <2>2. mBufferOffset[c] \in Nat /\ (mBufferOffset[c] < Size(c) \/ mBufferOffset[c] = 0)
    BY <1>1, <2>1 DEF Upload, Size
  <2>3. Size(c) \in Nat
    BY <1>1, SizeIsNat DEF IInv
  <2>4. mBufferOffset[c] = 0 /\ Size(c) = 0
    BY <1>1, <2>2, <2>3
  <2>5. mBuffers' = mBuffers /\ mBufferOffset' = mBufferOffset /\ Size(c)' = Size(c)
    BY <1>1 DEF uploadVars, Size
  <2> QED BY <1>1, <2>4, <2>5 DEF AssertsOnlyFor
<1>5. Failing'
  BY <1>1 DEF Failing
<1>6. \A d \in Clients : Heard(d)'
  BY <1>1, HeardKept DEF IInv
<1>7. Driven'
  BY <1>1, DrivenInCurl DEF IInv
<1> QED BY <1>2, <1>3, <1>4, <1>5, <1>6, <1>7 DEF IInv

-----------------------------------------------------------------------------
(* The response *)

\* A step of curl on the response of one client.
LEMMA ResponseStep ==
    ASSUME IInv, NEW c \in Clients, pc = "curl", transfer[c] = "running",
           pc' \in {"curl", "response", "body", "aborted"}, UNCHANGED <<via, timer, wants, released>>,
           UNCHANGED uploadVars, Control',
           \/ UNCHANGED <<transfer, fds>>
           \/ \E result \in {"done", "failed"} : Finish(c, result),
           \A d \in Clients \ {c} :
              /\ response'[d] = response[d] /\ status'[d] = status[d]
              /\ headers'[d] = headers[d] /\ told'[d] = told[d],
           Heard(c)', AssertsOnlyFor'
    PROVE  IInv'
<1>1. Lists' /\ Uploads'
  BY UploadsKept DEF IInv
<1>2. Failing'
  BY DEF Failing
<1>3. ASSUME NEW d \in Clients PROVE Heard(d)'
  <2>1. CASE d # c
    <3>1. transfer'[d] = transfer[d]
      BY <2>1 DEF IInv, Control, Finish
    <3> QED BY <2>1, <3>1, HeardKept DEF IInv
  <2> QED BY <2>1
<1>4. Driven'
  BY DrivenInCurl DEF IInv
<1> QED BY <1>1, <1>2, <1>3, <1>4 DEF IInv

\* What comes after a line.
LEMMA NextLine ==
    ASSUME Control, NEW c \in Clients, NEW line, LineComes(c, line)
    PROVE  /\ pc = "curl" /\ transfer[c] = "running" /\ c \in Answered
           /\ UNCHANGED <<via, timer, wants, released>> /\ UNCHANGED uploadVars
           /\ response' \in [Clients -> {"status", "fields", "body"}]
           /\ \A d \in Clients \ {c} : response'[d] = response[d]
           /\ response[c] = "status" => line \in Statuses /\ response'[c] = "fields"
           /\ response[c] = "fields" => line \in {"field", "no value", "no colon", "blank"}
           /\ response[c] = "body" => line = "field" /\ response'[c] = "body"
           /\ line = "blank" =>
                 response'[c] \in IF status[c] = "1xx" THEN {"status"}
                                  ELSE IF status[c] = "3xx" THEN {"status", "body"} ELSE {"body"}
           /\ line \in {"field", "no value", "no colon"} => response'[c] = response[c]
<1>1. /\ pc = "curl" /\ transfer[c] = "running" /\ c \in Answered
      /\ UNCHANGED <<via, timer, wants, released>> /\ UNCHANGED uploadVars
      /\ line \in ServerLines(c)
  BY DEF LineComes, callVars
<1>2. PICK next \in ServerGoesOn(c, line) : response' = [response EXCEPT ![c] = next]
  BY DEF LineComes
<1>3. /\ response \in [Clients -> {"status", "fields", "body"}]
      /\ response[c] \in {"status", "fields", "body"}
  BY DEF Control
<1>4. response'[c] = next /\ \A d \in Clients \ {c} : response'[d] = response[d]
  BY <1>2, <1>3
<1>5. /\ response[c] = "status" => line \in Statuses
      /\ response[c] = "fields" => line \in {"field", "no value", "no colon", "blank"}
      /\ response[c] = "body" => line = "field"
  BY <1>1, <1>3 DEF ServerLines
<1>6. /\ line \in Statuses => next = "fields"
      /\ line \in {"field", "no value", "no colon"} => next = response[c]
      /\ line = "blank" => next \in IF status[c] = "1xx" THEN {"status"}
                                    ELSE IF status[c] = "3xx" THEN {"status", "body"} ELSE {"body"}
  BY <1>2 DEF ServerGoesOn, Statuses
<1>7. next \in {"status", "fields", "body"}
  BY <1>3, <1>5, <1>6 DEF Statuses
<1>8. response' \in [Clients -> {"status", "fields", "body"}]
  BY <1>2, <1>3, <1>7
<1> QED BY <1>1, <1>4, <1>5, <1>6, <1>8

LEMMA HeaderKeptStep ==
    ASSUME IInv, NEW c \in Clients, NEW line \in Statuses \cup {"field", "no colon"}, HeaderKept(c, line)
    PROVE  IInv'
<1>0. Control /\ Block(c)
  <2>1. transfer[c] = "running"
    BY DEF HeaderKept, LineComes
  <2> QED BY <2>1 DEF IInv, Heard
<1>1. LineComes(c, line) /\ UNCHANGED <<pc, cur, fds, transfer, told>>
  BY DEF HeaderKept
<1>2. /\ pc = "curl" /\ transfer[c] = "running"
      /\ UNCHANGED <<via, timer, wants, released>> /\ UNCHANGED uploadVars
      /\ response' \in [Clients -> {"status", "fields", "body"}]
      /\ \A d \in Clients \ {c} : response'[d] = response[d]
      /\ response[c] = "status" => line \in Statuses /\ response'[c] = "fields"
      /\ response[c] = "fields" => line \in {"field", "no value", "no colon", "blank"}
      /\ response[c] = "body" => line = "field" /\ response'[c] = "body"
      /\ line \in {"field", "no value", "no colon"} => response'[c] = response[c]
  BY <1>0, <1>1, NextLine
<1>3. CASE /\ ExpectsStatus(c) /\ line \in Statuses
           /\ status' = [status EXCEPT ![c] = line] /\ UNCHANGED headers
  <2>1. Control'
    BY <1>0, <1>1, <1>2, <1>3 DEF Control
  <2>2. /\ status'[c] = line /\ \A d \in Clients \ {c} : status'[d] = status[d]
    BY <1>0, <1>3 DEF Control
  <2>3. response[c] = "status" /\ told[c] = <<>>
    BY <1>0, <1>2, <1>3 DEF Block, ExpectsStatus, Statuses
  <2>4. Heard(c)'
    BY <1>1, <1>2, <1>3, <2>2, <2>3 DEF Heard, Block
  <2>5. AssertsOnlyFor'
    BY <1>1, <1>2 DEF AssertsOnlyFor
  <2> QED BY <1>1, <1>2, <1>3, <2>1, <2>2, <2>4, <2>5, ResponseStep
<1>4. CASE /\ ~ExpectsStatus(c) /\ line = "field"
           /\ headers' = [headers EXCEPT ![c] = TRUE] /\ UNCHANGED status
  <2>1. Control'
    BY <1>0, <1>1, <1>2, <1>4 DEF Control
  <2>2. /\ \A d \in Clients \ {c} : headers'[d] = headers[d]
    BY <1>0, <1>4 DEF Control
  <2>3. response'[c] = response[c] /\ response[c] # "status"
    BY <1>0, <1>2, <1>4 DEF Control, Statuses
  <2>4. Heard(c)'
    <3>1. ~(status[c] = "0" /\ ~headers[c])
      BY <1>4 DEF ExpectsStatus
    <3>2. Block(c)'
      BY <1>0, <1>1, <1>4, <2>3, <3>1 DEF Block, Statuses
    <3> QED BY <1>1, <1>2, <3>2 DEF Heard
  <2>5. AssertsOnlyFor'
    BY <1>1, <1>2 DEF AssertsOnlyFor
  <2> QED BY <1>1, <1>2, <1>4, <2>1, <2>2, <2>4, <2>5, ResponseStep
<1> QED BY <1>3, <1>4 DEF HeaderKept

\* The transfer fails, as does that of a client that was let go of.
LEMMA Fails ==
    ASSUME IInv, NEW c \in Clients, NEW line, LineComes(c, line), Finish(c, "failed"),
           UNCHANGED <<pc, cur, status, headers, told>>
    PROVE  IInv'
<1>1. /\ pc = "curl" /\ transfer[c] = "running"
      /\ UNCHANGED <<via, timer, wants, released>> /\ UNCHANGED uploadVars
      /\ response' \in [Clients -> {"status", "fields", "body"}]
      /\ \A d \in Clients \ {c} : response'[d] = response[d]
  BY NextLine DEF IInv
<1>2. transfer' = [transfer EXCEPT ![c] = "failed"] /\ fds' = [fds EXCEPT ![c] = {}]
  BY DEF Finish, SocketCallback
<1>3. Control'
  BY <1>1, <1>2 DEF IInv, Control, Polls
<1>4. Heard(c)'
  <2>1. Begun(c, told[c])'
    BY <1>1, RunningBegun DEF IInv, Begun
  <2>2. transfer'[c] = "failed"
    BY <1>2 DEF IInv, Control
  <2> QED BY <2>1, <2>2 DEF Heard
<1>5. AssertsOnlyFor'
  BY <1>1 DEF AssertsOnlyFor
<1> QED BY <1>1, <1>3, <1>4, <1>5, ResponseStep

\* Only a header without a value fails the assertion.
LEMMA HeaderAssertsStep ==
    ASSUME IInv, NEW c \in Clients, HeaderAsserts(c)
    PROVE  IInv'
<1>1. /\ LineComes(c, "no value") /\ ~ExpectsStatus(c) /\ pc' = "aborted"
      /\ UNCHANGED <<cur, fds, transfer, status, headers, told>>
  BY DEF HeaderAsserts
<1>2. /\ pc = "curl" /\ transfer[c] = "running" /\ c \in Answered
      /\ UNCHANGED <<via, timer, wants, released>> /\ UNCHANGED uploadVars
      /\ response' \in [Clients -> {"status", "fields", "body"}]
      /\ \A d \in Clients \ {c} : response'[d] = response[d]
      /\ response[c] = "status" => "no value" \in Statuses
      /\ response[c] = "body" => "no value" = "field"
      /\ response'[c] = response[c]
  BY <1>1, NextLine DEF IInv
<1>3. response[c] = "fields"
  BY <1>2 DEF IInv, Control, Statuses
<1>4. Control'
  BY <1>1, <1>2 DEF IInv, Control
<1>5. Heard(c)'
  BY <1>1, <1>2, HeardKept DEF IInv
<1>6. AssertsOnlyFor'
  BY <1>1, <1>2, <1>3 DEF AssertsOnlyFor, ExpectsStatus
<1> QED BY <1>1, <1>2, <1>4, <1>5, <1>6, ResponseStep

\* A signal added to what was told.
LEMMA Signals ==
    ASSUME NEW signal \in Handlers, NEW s \in Seq(Handlers)
    PROVE  /\ Append(s, signal) \in Seq(Handlers)
           /\ Append(<<>>, signal) = <<signal>>
           /\ Append(<<"response">>, "body") = <<"response", "body">>
<1>1. Append(s, signal) \in Seq(Handlers)
  OBVIOUS
<1>2. Append(<<>>, signal) = <<signal>>
  OBVIOUS
<1>3. Append(<<"response">>, "body") = <<"response", "body">>
  <2> DEFINE t == Append(<<"response">>, "body")
             u == <<"response", "body">>
  <2>1. t \in Seq(Handlers) /\ Len(t) = 2 /\ t[1] = "response" /\ t[2] = "body"
    <3>1. "response" \in Handlers /\ "body" \in Handlers
      BY DEF Handlers
    <3>2. <<"response">> \in Seq(Handlers) /\ Len(<<"response">>) = 1 /\ <<"response">>[1] = "response"
      BY <3>1
    <3> QED BY <3>1, <3>2, AppendProperties
  <2>2. u \in Seq(Handlers) /\ Len(u) = 2 /\ u[1] = "response" /\ u[2] = "body"
    <3>1. "response" \in Handlers /\ "body" \in Handlers
      BY DEF Handlers
    <3> QED BY <3>1
  <2> HIDE DEF t, u
  <2>3. \A i \in 1..2 : i = 1 \/ i = 2
    OBVIOUS
  <2>4. t = u
    BY <2>1, <2>2, <2>3, SeqEqual
  <2> QED BY <2>4 DEF t, u
<1> QED BY <1>1, <1>2, <1>3

LEMMA HeadersEndStep ==
    ASSUME IInv, NEW c \in Clients, HeadersEnd(c)
    PROVE  IInv'
<1>1. LineComes(c, "blank") /\ ~ExpectsStatus(c)
  BY DEF HeadersEnd
<1>2. /\ pc = "curl" /\ transfer[c] = "running"
      /\ UNCHANGED <<via, timer, wants, released>> /\ UNCHANGED uploadVars
      /\ response' \in [Clients -> {"status", "fields", "body"}]
      /\ \A d \in Clients \ {c} : response'[d] = response[d]
      /\ response[c] = "status" => "blank" \in Statuses
      /\ response[c] = "body" => "blank" = "field"
      /\ response'[c] \in IF status[c] = "1xx" THEN {"status"}
                          ELSE IF status[c] = "3xx" THEN {"status", "body"} ELSE {"body"}
  BY <1>1, NextLine DEF IInv
<1>3. response[c] = "fields"
  BY <1>2 DEF IInv, Control, Statuses
<1>4. told[c] = <<>> /\ status[c] \in Statuses
  BY <1>2, <1>3 DEF IInv, Heard, Block
<1>5. AssertsOnlyFor' <=> (pc' = "aborted" => AssertsOnlyFor')
  BY DEF AssertsOnlyFor
<1>6. CASE released[c] /\ Finish(c, "failed") /\ UNCHANGED <<pc, cur, status, headers, told>>
  BY <1>1, <1>6, Fails
<1>7. CASE /\ Silent(c)
           /\ status' = [status EXCEPT ![c] = "0"] /\ headers' = [headers EXCEPT ![c] = FALSE]
           /\ UNCHANGED <<pc, cur, fds, transfer, told>>
  <2>1. Control'
    BY <1>2, <1>7 DEF IInv, Control
  <2>2. /\ status'[c] = "0" /\ ~headers'[c]
        /\ \A d \in Clients \ {c} : status'[d] = status[d] /\ headers'[d] = headers[d]
    BY <1>7 DEF IInv, Control
  <2>3. response'[c] \in {"status", "body"}
    BY <1>2, <1>7 DEF Silent
  <2>4. Heard(c)'
    <3>1. Block(c)'
      BY <1>4, <1>7, <2>2, <2>3 DEF Block
    <3> QED BY <1>2, <1>7, <3>1 DEF Heard
  <2> QED BY <1>2, <1>5, <1>7, <2>1, <2>2, <2>4, ResponseStep
<1>8. CASE /\ ~Silent(c)
           /\ headers' = [headers EXCEPT ![c] = FALSE]
           /\ Emit(c, "response") /\ UNCHANGED <<fds, transfer, status>>
  <2>1. /\ told' = [told EXCEPT ![c] = Append(@, "response")] /\ pc' = "response" /\ cur' = c
    BY <1>8 DEF Emit
  <2>2. "response" \in Handlers /\ told[c] \in Seq(Handlers)
    BY DEF Handlers, IInv, Control
  <2>3. Append(told[c], "response") \in Seq(Handlers) /\ Append(told[c], "response") = <<"response">>
    BY <1>4, <2>2, Signals
  <2>4. /\ told'[c] = <<"response">>
        /\ \A d \in Clients \ {c} : told'[d] = told[d] /\ headers'[d] = headers[d]
    BY <1>8, <2>1, <2>3 DEF IInv, Control
  <2>5. told' \in [Clients -> Seq(Handlers)]
    BY <2>1, <2>3 DEF IInv, Control
  <2>6. Control'
    BY <1>2, <1>8, <2>1, <2>2, <2>5 DEF IInv, Control
  <2>7. \/ status[c] = "1xx" /\ response'[c] = "status"
        \/ status[c] = "2xx" /\ response'[c] = "body"
    BY <1>2, <1>4, <1>8 DEF Silent, Statuses
  <2>8. Heard(c)'
    <3>1. Block(c)'
      BY <1>8, <2>4, <2>7 DEF Block
    <3> QED BY <1>2, <1>8, <3>1 DEF Heard
  <2> QED BY <1>2, <1>5, <1>8, <2>1, <2>4, <2>6, <2>8, ResponseStep
<1> QED BY <1>6, <1>7, <1>8 DEF HeadersEnd

LEMMA BodyStep ==
    ASSUME IInv, NEW c \in Clients, Body(c)
    PROVE  IInv'
<1>1. /\ pc = "curl" /\ transfer[c] = "running" /\ response[c] = "body"
      /\ ~Contains(told[c], "body")
      /\ UNCHANGED <<via, timer, wants, response, status, headers, released>> /\ UNCHANGED uploadVars
  BY DEF Body, callVars
<1>2. Block(c)
  BY <1>1 DEF IInv, Heard
<1>3. CASE Finish(c, "failed") /\ UNCHANGED <<pc, cur, told>>
  <2>1. transfer' = [transfer EXCEPT ![c] = "failed"] /\ fds' = [fds EXCEPT ![c] = {}]
    BY <1>3 DEF Finish, SocketCallback
  <2>2. Control'
    BY <1>1, <1>3, <2>1 DEF IInv, Control, Polls
  <2>3. Heard(c)'
    <3>1. Begun(c, told[c])'
      BY <1>1, <1>3, RunningBegun DEF IInv, Begun
    <3>2. transfer'[c] = "failed"
      BY <2>1 DEF IInv, Control
    <3> QED BY <3>1, <3>2 DEF Heard
  <2>4. AssertsOnlyFor'
    BY <1>1, <1>3 DEF AssertsOnlyFor
  <2> QED BY <1>1, <1>3, <2>2, <2>3, <2>4, ResponseStep
<1>4. CASE Emit(c, "body") /\ UNCHANGED <<transfer, fds>>
  <2>1. /\ told' = [told EXCEPT ![c] = Append(@, "body")] /\ pc' = "body" /\ cur' = c
    BY <1>4 DEF Emit
  <2>2. "body" \in Handlers /\ told[c] \in Seq(Handlers)
    BY DEF Handlers, IInv, Control
  <2>3. told[c] # <<"body">> /\ told[c] # <<"response", "body">>
    <3>1. Contains(<<"body">>, "body")
      <4>1. 1 \in 1..Len(<<"body">>) /\ <<"body">>[1] = "body"
        OBVIOUS
      <4> QED BY <4>1 DEF Contains
    <3>2. Contains(<<"response", "body">>, "body")
      <4>1. 2 \in 1..Len(<<"response", "body">>) /\ <<"response", "body">>[2] = "body"
        OBVIOUS
      <4> QED BY <4>1 DEF Contains
    <3> QED BY <1>1, <3>1, <3>2
  <2>4. /\ told[c] \in {<<>>, <<"response">>}
        /\ told[c] = <<>> => status[c] = "0" /\ ~headers[c]
        /\ told[c] = <<"response">> => status[c] = "2xx"
    BY SMTT(40), <1>1, <1>2, <2>3 DEF Block
  <2>5. /\ Append(told[c], "body") \in Seq(Handlers)
        /\ told[c] = <<>> => Append(told[c], "body") = <<"body">>
        /\ told[c] = <<"response">> => Append(told[c], "body") = <<"response", "body">>
    BY <2>2, Signals
  <2>6. /\ told'[c] = Append(told[c], "body")
        /\ \A d \in Clients \ {c} : told'[d] = told[d]
    BY <2>1 DEF IInv, Control
  <2>7. told' \in [Clients -> Seq(Handlers)]
    BY <2>1, <2>5 DEF IInv, Control
  <2>8. Control'
    BY <1>1, <1>4, <2>1, <2>2, <2>7 DEF IInv, Control
  <2>9. Heard(c)'
    <3>1. Block(c)'
      BY <1>1, <2>4, <2>5, <2>6 DEF Block
    <3> QED BY <1>1, <1>4, <3>1 DEF Heard
  <2>10. AssertsOnlyFor'
    BY <2>1 DEF AssertsOnlyFor
  <2> QED BY <1>1, <1>4, <2>1, <2>6, <2>8, <2>9, <2>10, ResponseStep
<1> QED BY <1>3, <1>4 DEF Body

-----------------------------------------------------------------------------
(* The end of transfers *)

\* An end that follows what was told.
LEMMA EndTold ==
    ASSUME NEW order \in Orders
    PROVE  /\ order \in Seq(Handlers) /\ order \o <<>> = order
           /\ \A signal \in Handlers : Append(order, signal) = order \o <<signal>>
           /\ Append(order \o <<"error">>, "complete") = order \o <<"error", "complete">>
<1>1. "response" \in Handlers /\ "body" \in Handlers /\ "error" \in Handlers /\ "complete" \in Handlers
  BY DEF Handlers
<1>2. order \in Seq(Handlers)
  <2>1. /\ <<>> \in Seq(Handlers) /\ <<"response">> \in Seq(Handlers)
        /\ <<"response", "body">> \in Seq(Handlers) /\ <<"body">> \in Seq(Handlers)
    BY <1>1
  <2> QED BY <2>1 DEF Orders
<1>3. order \o <<>> = order
  BY <1>2, ConcatEmptySeq
<1>4. ASSUME NEW signal \in Handlers PROVE Append(order, signal) = order \o <<signal>>
  BY <1>2, AppendIsConcat
<1>5. Append(order \o <<"error">>, "complete") = order \o <<"error", "complete">>
  <2> DEFINE e == <<"error">>
             f == <<"complete">>
             g == <<"error", "complete">>
             t == order \o e
  <2>1. e \in Seq(Handlers) /\ f \in Seq(Handlers) /\ g \in Seq(Handlers)
    BY <1>1
  <2>2. Len(e) = 1 /\ e[1] = "error" /\ Len(f) = 1 /\ f[1] = "complete"
    OBVIOUS
  <2>3. e \o f = g
    <3>1. /\ e \o f \in Seq(Handlers) /\ Len(e \o f) = 2
          /\ (e \o f)[1] = "error" /\ (e \o f)[2] = "complete"
      <4> HIDE DEF e, f
      <4>1. /\ e \o f \in Seq(Handlers) /\ Len(e \o f) = Len(e) + Len(f)
            /\ \A i \in 1..(Len(e) + Len(f)) : (e \o f)[i] = IF i <= Len(e) THEN e[i] ELSE f[i - Len(e)]
        BY <2>1, ConcatProperties
      <4> QED BY <2>2, <4>1
    <3>2. Len(g) = 2 /\ g[1] = "error" /\ g[2] = "complete"
      OBVIOUS
    <3>3. \A i \in 1..2 : i = 1 \/ i = 2
      OBVIOUS
    <3> HIDE DEF e, f, g
    <3> QED BY <2>1, <3>1, <3>2, <3>3, SeqEqual
  <2> HIDE DEF e, g
  <2>4. t \in Seq(Handlers)
    BY <1>2, <2>1, ConcatProperties
  <2>5. t \o f = order \o (e \o f)
    <3>1. t = order \o e
      OBVIOUS
    <3> HIDE DEF f, t
    <3>2. (order \o e) \o f = order \o (e \o f)
      BY <1>2, <2>1, ConcatAssociative
    <3> QED BY <3>1, <3>2
  <2>6. Append(t, "complete") = t \o f
    <3> HIDE DEF t
    <3> QED BY <1>1, <2>4, AppendIsConcat
  <2> QED BY <2>3, <2>5, <2>6 DEF e, g
<1> QED BY <1>2, <1>3, <1>4, <1>5

LEMMA EndsTold ==
    /\ <<>> \in Ends /\ <<"complete">> \in Ends /\ <<"error">> \in Ends /\ <<"error", "complete">> \in Ends
    /\ "error" \in Handlers /\ "complete" \in Handlers
BY DEF Ends, Handlers

LEMMA ReadMessageStep ==
    ASSUME IInv, NEW c \in Clients, ReadMessage(c)
    PROVE  IInv'
<1>1. /\ pc = "check" /\ transfer[c] \in {"done", "failed"}
      /\ transfer' = [transfer EXCEPT ![c] = "over"]
      /\ UNCHANGED <<via, timer, fds, wants, response, status, headers, released>> /\ UNCHANGED uploadVars
  BY DEF ReadMessage, callVars
<1>2. /\ transfer'[c] = "over" /\ \A d \in Clients \ {c} : transfer'[d] = transfer[d]
      /\ transfer' \in [Clients -> {"none", "lost", "running", "done", "failed", "over"}]
  BY <1>1 DEF IInv, Control
<1>3. Begun(c, told[c]) /\ told[c] \in Orders
  BY <1>1 DEF IInv, Heard, Begun
<1>4. \A order : Begun(c, order) => Begun(c, order)'
  BY <1>1 DEF Begun
<1>5. PICK signal \in Handlers :
          /\ signal = IF transfer[c] = "failed" THEN "error" ELSE "complete"
          /\ <<signal>> \in Ends
  BY EndsTold
<1>6. \/ UNCHANGED <<pc, cur, told>>
      \/ told' = [told EXCEPT ![c] = Append(@, signal)] /\ pc' = signal /\ cur' = c
  BY <1>5 DEF ReadMessage, Emit
<1>7. /\ told[c] \o <<>> = told[c] /\ Append(told[c], signal) = told[c] \o <<signal>>
      /\ Append(told[c], signal) \in Seq(Handlers)
  <2>1. told[c] \in Seq(Handlers)
    BY <1>3, EndTold
  <2> QED BY <1>3, <2>1, EndTold, Signals
<1>8. /\ told' \in [Clients -> Seq(Handlers)]
      /\ \A d \in Clients \ {c} : told'[d] = told[d]
      /\ told'[c] = told[c] \/ (told'[c] = told[c] \o <<signal>> /\ pc' = signal)
  BY <1>6, <1>7 DEF IInv, Control
<1>9. Control'
  BY <1>1, <1>2, <1>6, <1>8 DEF IInv, Control
<1>10. Lists' /\ Uploads'
  BY <1>1, UploadsKept DEF IInv
<1>11. AssertsOnlyFor'
  BY <1>1, <1>6 DEF AssertsOnlyFor, Handlers
<1>12. ASSUME NEW d \in Clients PROVE Heard(d)'
  <2>1. CASE d = c
    <3>1. CASE told'[c] = told[c]
      <4>1. told'[c] = told[c] \o <<>> /\ <<>> \in Ends
        BY <1>7, <3>1, EndsTold
      <4> QED BY <1>2, <1>3, <1>4, <2>1, <4>1 DEF Heard
    <3>2. CASE told'[c] = told[c] \o <<signal>>
      BY <1>2, <1>3, <1>4, <1>5, <2>1, <3>2 DEF Heard
    <3> QED BY <1>8, <3>1, <3>2
  <2>2. CASE d # c
    BY <1>1, <1>2, <1>8, <2>2, HeardKept DEF IInv
  <2> QED BY <2>1, <2>2
<1>13. Failing'
  <2> SUFFICES ASSUME pc' = "error" PROVE Failing'
    BY DEF Failing
  <2>1. cur' = c /\ told' = [told EXCEPT ![c] = Append(@, signal)] /\ signal = "error"
    BY <1>1, <1>6
  <2>2. told'[c] = told[c] \o <<"error">>
    BY <1>7, <2>1 DEF IInv, Control
  <2> QED BY <1>2, <1>3, <1>4, <2>1, <2>2 DEF Failing
<1>14. Driven'
  <2>1. Running' = Running
    BY <1>1, <1>2 DEF Running
  <2>2. UNCHANGED <<mPaused, ended>>
    BY <1>1 DEF uploadVars
  <2> QED BY <1>1, <1>2, <1>6, <2>1, <2>2 DEF IInv, Driven
<1> QED BY <1>9, <1>10, <1>11, <1>12, <1>13, <1>14 DEF IInv

LEMMA CheckEndsStep ==
    ASSUME IInv, CheckEnds
    PROVE  IInv'
<1>1. /\ UNCHANGED <<via, cur, timer, fds, wants, transfer, response, status, headers, told, released>>
      /\ UNCHANGED uploadVars /\ pc = "check" /\ pc' = "loop"
  BY DEF CheckEnds, loopVars, callVars, responseVars
<1>2. Control'
  BY <1>1 DEF IInv, Control
<1>3. Lists' /\ Uploads'
  BY <1>1, UploadsKept DEF IInv
<1>4. AssertsOnlyFor' /\ Failing'
  BY <1>1 DEF AssertsOnlyFor, Failing
<1>5. \A d \in Clients : Heard(d)'
  BY <1>1, HeardKept DEF IInv
<1>6. Driven'
  <2>1. UNCHANGED <<mPaused, ended>>
    BY <1>1 DEF uploadVars
  <2> QED BY <1>1, <2>1 DEF IInv, Driven, Running
<1> QED BY <1>2, <1>3, <1>4, <1>5, <1>6 DEF IInv

\* The end is told right after the error, of the client that failed.
LEMMA ReturnsStep ==
    ASSUME IInv, Returns
    PROVE  IInv'
<1>1. /\ UNCHANGED <<via, timer, fds, wants, transfer, response, status, headers, released>>
      /\ UNCHANGED uploadVars /\ pc \in Handlers
  BY DEF Returns, callVars
<1>2. Lists' /\ Uploads'
  BY <1>1, UploadsKept DEF IInv
<1>3. UNCHANGED <<mPaused, ended>> /\ Running' = Running
  BY <1>1 DEF uploadVars, Running
<1>4. CASE pc = "error"
  <2>1. told' = [told EXCEPT ![cur] = Append(@, "complete")] /\ pc' = "complete" /\ cur' = cur
    BY <1>4 DEF Returns, Emit
  <2>2. PICK order \in Orders : told[cur] = order \o <<"error">> /\ Begun(cur, order)
    BY <1>4 DEF IInv, Failing
  <2>3. cur \in Clients /\ transfer[cur] = "over" /\ told[cur] \in Seq(Handlers)
    BY <1>4 DEF IInv, Failing, Control
  <2>4. /\ Append(told[cur], "complete") = order \o <<"error", "complete">>
        /\ Append(told[cur], "complete") \in Seq(Handlers)
    <3>1. Append(told[cur], "complete") \in Seq(Handlers)
      BY <2>3, EndsTold, Signals
    <3> QED BY <2>2, <3>1, EndTold
  <2>5. /\ told'[cur] = order \o <<"error", "complete">>
        /\ \A d \in Clients \ {cur} : told'[d] = told[d]
        /\ told' \in [Clients -> Seq(Handlers)]
    BY <2>1, <2>3, <2>4 DEF IInv, Control
  <2>6. Control'
    BY <1>1, <2>1, <2>5 DEF IInv, Control, Handlers
  <2>7. ASSUME NEW d \in Clients PROVE Heard(d)'
    <3>1. CASE d = cur
      <4>1. Begun(cur, order)'
        BY <1>1, <2>1, <2>2 DEF Begun
      <4>2. transfer'[d] = "over" /\ told'[d] = order \o <<"error", "complete">> /\ Begun(d, order)'
        <5>1. Begun(d, order)'
          BY <1>1, <2>2, <3>1 DEF Begun
        <5> QED BY <1>1, <2>3, <2>5, <3>1, <5>1
      <4> QED BY <4>2, EndsTold DEF Heard
    <3>2. CASE d # cur
      BY <1>1, <2>5, <3>2, HeardKept DEF IInv
    <3> QED BY <3>1, <3>2
  <2>8. AssertsOnlyFor' /\ Failing'
    BY <2>1 DEF AssertsOnlyFor, Failing
  <2>9. Driven'
    BY <1>1, <1>3, <1>4, <2>1 DEF IInv, Driven
  <2> QED BY <1>2, <2>6, <2>7, <2>8, <2>9 DEF IInv
<1>5. CASE pc # "error"
  <2>1. /\ pc' = (IF InCallback THEN "curl" ELSE "check") /\ cur' = Nobody /\ UNCHANGED told
    BY <1>5 DEF Returns
  <2>2. Control'
    BY <1>1, <2>1 DEF IInv, Control
  <2>3. \A d \in Clients : Heard(d)'
    BY <1>1, <2>1, HeardKept DEF IInv
  <2>4. AssertsOnlyFor' /\ Failing'
    BY <2>1 DEF AssertsOnlyFor, Failing
  <2>5. Driven'
    BY <1>1, <1>3, <1>5, <2>1 DEF IInv, Driven, InCallback, Handlers
  <2> QED BY <1>2, <2>2, <2>3, <2>4, <2>5 DEF IInv
<1> QED BY <1>4, <1>5

-----------------------------------------------------------------------------
(* The theorems *)

LEMMA Starts ==
    ASSUME Init
    PROVE  IInv
<1>1. <<>> \in Seq(1..MaxWrites) /\ <<>> \in Seq(Sizes) /\ <<>> \in Seq(Nat \X Nat) /\ <<>> \in Seq(Handlers)
  OBVIOUS
<1>2. Control /\ Lists
  BY <1>1 DEF Init, Control, Lists, Polls
<1>3. Uploads
  BY UploadEmpty DEF Init, Uploads
<1>4. AssertsOnlyFor /\ Failing
  BY DEF Init, AssertsOnlyFor, Failing
<1>5. \A c \in Clients : Heard(c)
  BY DEF Init, Heard, Block
<1>6. Driven
  BY DEF Init, Driven, Running
<1> QED BY <1>2, <1>3, <1>4, <1>5, <1>6 DEF IInv

\* What HttpClient's callbacks find when they are called, in whatever order
\* curl and the program call.
THEOREM Invariance == Spec => []IInv
<1>1. Init => IInv
  BY Starts
<1>2. ASSUME IInv, [Next]_vars PROVE IInv'
  <2>1. CASE UNCHANGED vars
    <3>1. /\ UNCHANGED <<pc, via, cur, timer, fds, wants, transfer, response, status, headers, told, released>>
          /\ UNCHANGED uploadVars
      BY <2>1 DEF vars, loopVars, callVars, responseVars
    <3>2. UNCHANGED <<ended, mPaused, mBuffers, mBufferOffset, mBufferPos, written>>
      BY <3>1 DEF uploadVars
    <3>3. Control' /\ Driven'
      BY <1>2, <3>1, <3>2 DEF IInv, Control, Driven, Running
    <3>4. Lists' /\ Uploads'
      BY <1>2, <3>1, UploadsKept DEF IInv
    <3>5. AssertsOnlyFor'
      BY <1>2, <3>1, <3>2 DEF IInv, AssertsOnlyFor, Size, ExpectsStatus
    <3>6. Failing' /\ \A d \in Clients : Heard(d)'
      BY <1>2, <3>1, FailingKept, HeardKept DEF IInv
    <3> QED BY <3>3, <3>4, <3>5, <3>6 DEF IInv
  <2>2. CASE TimerFires \/ CurlReturns \/ CheckEnds \/ Returns
    BY <1>2, <2>2, TimerFiresStep, CurlReturnsStep, CheckEndsStep, ReturnsStep
  <2>3. ASSUME NEW c \in Clients,
               Create(c) \/ EndWrite(c) \/ Release(c) \/ (\E size \in Sizes : Write(c, size))
        PROVE  IInv'
    BY <1>2, <2>3, CreateStep, EndWriteStep, ReleaseStep, WriteStep
  <2>4. ASSUME NEW c \in Clients, SocketEvent(c) \/ Finishes(c, "done") \/ Finishes(c, "failed")
        PROVE  IInv'
    BY <1>2, <2>4, SocketEventStep, FinishesStep
  <2>5. ASSUME NEW c \in Clients, ReadCallback(c)
        PROVE  IInv'
    BY <1>2, <2>5, ReadEndsStep, ReadPausesStep, ReadAssertsStep, ReadTakesStep DEF ReadCallback
  <2>6. ASSUME NEW c \in Clients, Header(c)
        PROVE  IInv'
    <3>1. ASSUME NEW line \in Statuses \cup {"field", "no colon"}, HeaderKept(c, line) PROVE IInv'
      BY <1>2, <3>1, HeaderKeptStep
    <3>2. ASSUME NEW line \in Statuses \cup {"field", "no colon"}, HeaderFails(c, line) PROVE IInv'
      <4>1. LineComes(c, line) /\ Finish(c, "failed") /\ UNCHANGED <<pc, cur, status, headers, told>>
        BY <3>2 DEF HeaderFails
      <4> QED BY <1>2, <4>1, Fails
    <3> QED BY <1>2, <2>6, <3>1, <3>2, HeaderAssertsStep, HeadersEndStep DEF Header
  <2>7. ASSUME NEW c \in Clients, Body(c) \/ ReadMessage(c)
        PROVE  IInv'
    BY <1>2, <2>7, BodyStep, ReadMessageStep
  <2> QED BY <1>2, <2>1, <2>2, <2>3, <2>4, <2>5, <2>6, <2>7 DEF Next
<1> QED BY <1>1, <1>2, PTL DEF Spec

\* What the loop has to report is of clients, and curl is called for one at most.
Reports == served \in Clients \cup {Nobody} /\ edge \subseteq Clients

LEMMA ReportsKept ==
    ASSUME Reports, [Next]_vars
    PROVE  Reports'
<1>1. ASSUME NEW c \in Clients, SocketEvent(c) PROVE Reports'
  BY <1>1 DEF SocketEvent, Reports
<1>2. CASE TimerFires
  BY <1>2 DEF TimerFires, Reports
<1>3. CASE CurlReturns
  <2>1. served' = Nobody
    BY <1>3 DEF CurlReturns
  <2>2. PICK what : RoomToReport(what)
    BY <1>3 DEF CurlReturns
  <2>3. edge' \subseteq Clients
    BY <2>2 DEF RoomToReport, Reports
  <2> QED BY <2>1, <2>3 DEF Reports
<1>4. ASSUME NEW c \in Clients,
             \/ Create(c) \/ EndWrite(c) \/ Release(c) \/ \E size \in Sizes : Write(c, size)
             \/ Finishes(c, "done") \/ Finishes(c, "failed") \/ ReadCallback(c)
             \/ Header(c) \/ Body(c) \/ ReadMessage(c)
      PROVE  UNCHANGED callVars
  BY <1>4 DEF Create, EndWrite, Release, Write, Finishes, ReadCallback, ReadEnds, ReadPauses,
              ReadAsserts, ReadTakes, Header, HeaderKept, HeaderFails, HeaderAsserts, HeadersEnd,
              LineComes, Body, ReadMessage, loopVars
<1>5. CASE CheckEnds \/ Returns \/ UNCHANGED vars
  BY <1>5 DEF CheckEnds, Returns, vars, loopVars, callVars, Reports
<1>6. UNCHANGED callVars => Reports'
  BY DEF callVars, Reports
<1> QED BY <1>1, <1>2, <1>3, <1>4, <1>5, <1>6 DEF Next

\* What curl uploads is what the program wrote, byte by byte and in order,
\* wherever its reads stop, and assertions fail for an empty buffer and for a
\* header without a value only.
THEOREM UploadsAreSafe == Spec => []UploadSafe
<1>1. IInv /\ Reports => UploadSafe
  <2> SUFFICES ASSUME IInv, Reports PROVE UploadSafe
    OBVIOUS
  <2>1. TypeOK
    <3>1. ASSUME NEW c \in Clients
          PROVE  mBuffers[c] \in Seq(1..MaxWrites) /\ mBufferPos[c] \in 0..Len(mBuffers[c])
                 /\ mBufferOffset[c] \in Nat
      <4>1. Upload(mBuffers[c], mBufferPos[c], mBufferOffset[c], written[c], sent[c])
        BY DEF IInv, Uploads
      <4>2. CASE mBuffers[c] = <<>>
        BY <4>1, <4>2 DEF Upload
      <4>3. CASE mBuffers[c] # <<>>
        BY <4>1, <4>3 DEF Upload
      <4> QED BY <4>2, <4>3
    <3> QED BY <3>1 DEF IInv, Control, Lists, Reports, TypeOK
  <2>2. ASSUME NEW c \in Clients
        PROVE  /\ \A i \in DOMAIN mBuffers[c] : mBuffers[c][i] = Len(written[c]) - Len(mBuffers[c]) + i
               /\ Range(sent[c]) = {b \in Bytes(c) : Before(b, NextByte(c))}
               /\ \A i, j \in DOMAIN sent[c] : i < j => Before(sent[c][i], sent[c][j])
    <3>1. Upload(mBuffers[c], mBufferPos[c], mBufferOffset[c], written[c], sent[c])
      BY DEF IInv, Uploads
    <3>2. DOMAIN mBuffers[c] = 1..Len(mBuffers[c]) /\ DOMAIN sent[c] = 1..Len(sent[c])
      BY <3>1 DEF Upload
    <3>3. Bytes(c) = BytesOf(written[c])
      BY DEF Bytes, BytesOf
    <3>4. NextByte(c) = NextOf(mBuffers[c], mBufferPos[c], mBufferOffset[c], written[c])
      BY DEF NextByte, NextOf
    <3>5. Range(sent[c]) = {b \in Bytes(c) : Before(b, NextByte(c))}
      BY <3>1, <3>3, <3>4 DEF Upload
    <3>6. \A i, j \in DOMAIN sent[c] : i < j => Before(sent[c][i], sent[c][j])
      BY <3>1, <3>2 DEF Upload, InOrder
    <3> QED BY <3>1, <3>2, <3>5, <3>6 DEF Upload
  <2>3. UploadIntact
    BY <2>2 DEF IInv, Uploads, UploadIntact
  <2> QED BY <2>1, <2>3 DEF IInv, UploadSafe
<1>2. Init => Reports
  BY DEF Init, Reports
<1>3. Reports /\ [Next]_vars => Reports'
  BY ReportsKept
<1> QED BY <1>1, <1>2, <1>3, Invariance, PTL DEF Spec

\* A client tells its response, its body and its end in this order, each once,
\* whatever blocks of headers come and whoever is let go of meanwhile.
THEOREM SignalsAreInOrder == Spec => []ToldInOrder
<1>1. IInv => ToldInOrder
  <2> SUFFICES ASSUME IInv, NEW c \in Clients
               PROVE  \E order \in Orders, end \in Ends :
                          /\ told[c] = order \o end
                          /\ end # <<>> => transfer[c] = "over"
                          /\ order = <<"body">> => status[c] = "0"
                          /\ order = <<"response", "body">> => status[c] = "2xx"
    BY DEF ToldInOrder
  <2>1. Heard(c) /\ transfer[c] \in {"none", "lost", "running", "done", "failed", "over"}
    BY DEF IInv, Control
  <2>2. CASE transfer[c] = "over"
    BY <2>1, <2>2 DEF Heard, Begun
  <2>3. CASE transfer[c] # "over"
    <3>1. Begun(c, told[c])
      <4>1. transfer[c] \in {"none", "lost"} => Begun(c, told[c])
        <5>1. <<>> \in Orders /\ <<>> # <<"body">> /\ <<>> # <<"response", "body">>
          BY DEF Orders
        <5> QED BY <2>1, <5>1 DEF Heard, Begun
      <4>2. transfer[c] = "running" => Begun(c, told[c])
        BY <2>1, RunningBegun
      <4> QED BY <2>1, <2>3, <4>1, <4>2 DEF Heard
    <3>2. told[c] \in Orders /\ told[c] = told[c] \o <<>> /\ <<>> \in Ends
      BY <3>1, EndTold, EndsTold DEF Begun
    <3> QED BY <3>1, <3>2 DEF Begun
  <2> QED BY <2>2, <2>3
<1> QED BY <1>1, Invariance, PTL

\* Between two events every transfer in progress has a socket watched or a
\* timer, whatever handlers created, wrote or ended since curl returned.
THEOREM EveryTransferIsDriven == Spec => []TransfersDriven
<1>1. IInv => TransfersDriven
  BY DEF IInv, Driven, TransfersDriven
<1> QED BY <1>1, Invariance, PTL

-----------------------------------------------------------------------------
(* The WebSocket client *)

\* The types of the variables, and of the histories.
WsControl ==
    /\ wsPc \in {"idle", "upgrade", "recv", "copy", "message", "ended", "aborted", "undefined"}
    /\ mTcp \in BOOLEAN /\ mCtx \in BOOLEAN /\ mUpgraded \in BOOLEAN
    /\ reading \in BOOLEAN /\ closing \in BOOLEAN /\ merged \in BOOLEAN /\ torn \in BOOLEAN
    /\ ending \in {"none", "complete", "error", "closed", "refused"}

WsReadLists ==
    /\ frames \in Frames
    /\ arrived \in 0..Total /\ rem \in 0..Room /\ wsOffset \in Nat
    /\ mReadBuffers \in Seq(Seq(0..Total))
    /\ got \in Seq(0..Total) /\ Len(got) <= Room
    /\ taken \in Seq(0..Total) /\ wsTold \in Seq(0..Total)

WsWriteLists ==
    /\ mWriteBuffers \in Seq(1..MaxMessages) /\ out \in Seq(1..MaxMessages)
    /\ wrote \in 0..MaxMessages

\* Where the loop's thread can be, which pointers are set and how it has ended.
Phases ==
    /\ mTcp = mCtx
    /\ mTcp <=> ending = "none"
    /\ wsPc = "aborted" => torn
    /\ wsPc = "undefined" => ending \in {"closed", "error"}
    /\ wsPc = "upgrade" => mTcp /\ ~mUpgraded /\ mReadBuffers # <<>>
    /\ wsPc \in {"recv", "copy"} => mTcp /\ mUpgraded
    /\ wsPc = "message" => (mTcp /\ mUpgraded) \/ ending = "closed"
    /\ wsPc = "ended" => ~mTcp
    /\ mTcp /\ ~mUpgraded => wsPc \in {"idle", "upgrade"}

\* Before the upgrade there are two buffers at most, and nothing has been read.
Reads ==
    /\ wsPc = "copy" => mReadBuffers # <<>> /\ Len(got) + rem <= Room
    /\ mReadBuffers = <<>> => wsOffset = 0
    /\ mReadBuffers # <<>> => wsOffset <= Len(mReadBuffers[1])
    /\ mTcp /\ ~mUpgraded =>
          /\ wsOffset = 0 /\ got = <<>> /\ taken = <<>> /\ wsTold = <<>> /\ ~torn /\ ~closing
          /\ Len(mReadBuffers) <= IF wsPc = "upgrade" THEN 2 ELSE 1

\* Buffers that hold the units up to the last one, every buffer those after the
\* one before it, and the first of them, after the offset, the next unit.
Chain(bufs, off, next, last) ==
    /\ bufs = <<>> => last = next - 1
    /\ \A b \in 1..Len(bufs) :
          /\ 1 <= bufs[b][1] /\ 1 <= Len(bufs[b]) /\ bufs[b][1] + Len(bufs[b]) - 1 <= last
          /\ \A i \in 1..Len(bufs[b]) : bufs[b][i] = bufs[b][1] + i - 1
          /\ b = 1 => bufs[b][1] + off = next
          /\ b > 1 => bufs[b][1] = bufs[b - 1][1] + Len(bufs[b - 1])
          /\ b = Len(bufs) => bufs[b][1] + Len(bufs[b]) - 1 = last

\* The units that have been parsed or are in wslay, the next one, the messages
\* of those parsed.
InHand(parsed, read) ==
    /\ \A i \in 1..Len(parsed) : parsed[i] = HeaderLen + i
    /\ \A i \in 1..Len(read) : read[i] = HeaderLen + Len(parsed) + i

After(parsed, read) == HeaderLen + Len(parsed) + Len(read) + 1

Messages(f, parsed) ==
    {unit \in Range(parsed) : unit # Garbage /\ f[unit - HeaderLen] = "message"}

Increasing(s) == \A i, j \in 1..Len(s) : i < j => s[i] < s[j]

\* What MessagesInOrder says, element by element, and of the answer as long as
\* it is in one buffer.
WsOrder ==
    /\ mTcp /\ ~mUpgraded /\ ~merged =>
          /\ mReadBuffers = <<>> => arrived = 0
          /\ Len(mReadBuffers) = 1 => mReadBuffers[1] = Units(1, arrived)
    /\ mUpgraded /\ ~merged /\ ~torn =>
          /\ InHand(taken, got)
          /\ Chain(mReadBuffers, wsOffset, After(taken, got), arrived)
          /\ Increasing(wsTold) /\ Range(wsTold) = Messages(frames, taken)

\* What has been written waits before the upgrade, and has been sent after it.
WsWrites ==
    /\ mTcp /\ ~mUpgraded => out = <<>> /\ mWriteBuffers = Units(1, wrote)
    /\ mTcp /\ mUpgraded => mWriteBuffers = <<>>
    /\ mTcp /\ mUpgraded /\ ~closing => out = Units(1, wrote)
    /\ \A i \in 1..Len(out) : out[i] <= wrote
    /\ Increasing(out)

WsInv == WsControl /\ WsReadLists /\ WsWriteLists /\ Phases /\ Reads /\ WsOrder /\ WsWrites

-----------------------------------------------------------------------------
(* Units, and the merging of two buffers *)

LEMMA WsLengths ==
    ASSUME NEW f \in Frames
    PROVE  Len(f) \in Nat /\ HeaderLen + Len(f) \in Nat
<1>1. f \in Seq({"message", "close"})
  BY WebSocketClientAssumption
<1> QED BY <1>1 DEF HeaderLen

LEMMA UnitsAre ==
    ASSUME NEW a \in Nat, NEW b \in Nat, a <= b + 1
    PROVE  /\ Len(Units(a, b)) = b - a + 1 /\ Units(a, b) \in Seq(a..b)
           /\ \A i \in 1..(b - a + 1) : Units(a, b)[i] = a + i - 1
<1>1. b - a + 1 \in Nat /\ \A i \in 1..(b - a + 1) : a + i - 1 \in a..b
  OBVIOUS
<1>2. Units(a, b) \in [1..(b - a + 1) -> a..b]
  BY <1>1 DEF Units
<1>3. \A i \in 1..(b - a + 1) : Units(a, b)[i] = a + i - 1
  BY DEF Units
<1>4. Units(a, b) \in Seq(a..b)
  BY <1>1, <1>2, SeqDef
<1>5. Len(Units(a, b)) = b - a + 1
  BY <1>1, <1>2, <1>4, LenProperties
<1> QED BY <1>3, <1>4, <1>5

\* A sequence that has the units one after the other.
LEMMA UnitsEqual ==
    ASSUME NEW a \in Nat, NEW b \in Nat, a <= b + 1, NEW T, NEW s \in Seq(T),
           Len(s) = b - a + 1, \A i \in 1..Len(s) : s[i] = a + i - 1
    PROVE  s = Units(a, b)
<1> DEFINE u == Units(a, b)
<1>1. Len(u) = b - a + 1 /\ u \in Seq(a..b) /\ \A i \in 1..(b - a + 1) : u[i] = a + i - 1
  BY UnitsAre
<1>2. s \in Seq(a..b)
  <2>1. \A i \in 1..Len(s) : s[i] \in a..b
    OBVIOUS
  <2>2. Len(s) \in Nat /\ s \in [1..Len(s) -> T]
    BY LenProperties
  <2>3. s \in [1..Len(s) -> a..b]
    BY <2>1, <2>2
  <2> QED BY <2>2, <2>3, SeqDef
<1> HIDE DEF u
<1>3. s = u
  BY <1>1, <1>2, SeqEqual
<1> QED BY <1>3 DEF u

LEMMA GreatestOfTwo ==
    ASSUME NEW S, S \subseteq {1, 2}, S # {}
    PROVE  Max(S) \in S
<1>1. \E x \in S : \A y \in S : x >= y
  <2>1. CASE 2 \in S
    BY <2>1
  <2>2. CASE 2 \notin S
    <3>1. \A y \in S : y = 1
      BY <2>2
    <3>2. PICK x \in S : TRUE
      OBVIOUS
    <3>3. x = 1 /\ x >= 1
      BY <3>1, <3>2
    <3> QED BY <3>1, <3>3
  <2> QED BY <2>1, <2>2
<1> QED BY <1>1 DEF Max

\* The bytes of two buffers.
LEMMA TwoSizes ==
    ASSUME NEW T, NEW bufs \in Seq(Seq(T)), Len(bufs) = 2
    PROVE  Cardinality(BytesIn(bufs)) \in Nat
<1>1. bufs[1] \in Seq(T) /\ bufs[2] \in Seq(T) /\ DOMAIN bufs = {1, 2}
  <2>1. 1 \in 1..Len(bufs) /\ 2 \in 1..Len(bufs) /\ 1..Len(bufs) = {1, 2}
    OBVIOUS
  <2>2. DOMAIN bufs = 1..Len(bufs)
    BY LenProperties
  <2> QED BY <2>1, <2>2, ElementOfSeq
<1>2. BytesIn(bufs) = ({1} \X (1..Len(bufs[1]))) \cup ({2} \X (1..Len(bufs[2])))
  <2>1. DOMAIN bufs[1] = 1..Len(bufs[1]) /\ DOMAIN bufs[2] = 1..Len(bufs[2])
    BY <1>1
  <2>2. {{b} \X DOMAIN bufs[b] : b \in {1, 2}} = {{1} \X DOMAIN bufs[1], {2} \X DOMAIN bufs[2]}
    OBVIOUS
  <2> QED BY <1>1, <2>1, <2>2 DEF BytesIn
<1>3. IsFiniteSet({1}) /\ IsFiniteSet({2})
  BY FS_Singleton
<1>4. Len(bufs[1]) \in Nat /\ Len(bufs[2]) \in Nat
  BY <1>1
<1>5. IsFiniteSet(1..Len(bufs[1])) /\ IsFiniteSet(1..Len(bufs[2]))
  BY <1>4, FS_Interval
<1>6. IsFiniteSet({1} \X (1..Len(bufs[1]))) /\ IsFiniteSet({2} \X (1..Len(bufs[2])))
  BY <1>3, <1>5, FS_Product
<1>7. IsFiniteSet(({1} \X (1..Len(bufs[1]))) \cup ({2} \X (1..Len(bufs[2]))))
  BY <1>6, FS_Union
<1> QED BY <1>2, <1>7, FS_CardinalityType

\* mergeReadBuffers leaves one buffer.
LEMMA MergedIsOne ==
    ASSUME NEW T, 0 \in T, NEW bufs \in Seq(Seq(T)), bufs # <<>>, Len(bufs) <= 2
    PROVE  /\ Merged(bufs) \in Seq(Seq(T)) /\ Len(Merged(bufs)) = 1
           /\ Len(bufs) = 1 => Merged(bufs) = bufs
<1>1. Len(bufs) \in {1, 2}
  <2> DEFINE n == Len(bufs)
  <2>1. n \in Nat /\ n # 0 /\ n <= 2
    BY LenProperties
  <2> HIDE DEF n
  <2>2. n \in {1, 2}
    BY <2>1
  <2> QED BY <2>2 DEF n
<1>2. CASE Len(bufs) = 1
  BY <1>2 DEF Merged
<1>3. CASE Len(bufs) = 2
  <2> DEFINE size == Cardinality(BytesIn(bufs))
             reach(i) == {b \in DOMAIN bufs : Len(bufs[b]) >= i}
             unit(i) == IF reach(i) = {} THEN Garbage ELSE bufs[Max(reach(i))][i]
             one == [i \in 1..size |-> unit(i)]
  <2>1. size \in Nat
    BY <1>3, TwoSizes
  <2>2. \A i \in 1..size : unit(i) \in T
    <3> SUFFICES ASSUME NEW i \in 1..size PROVE unit(i) \in T
      OBVIOUS
    <3>1. CASE reach(i) = {}
      BY <3>1 DEF Garbage
    <3>2. CASE reach(i) # {}
      <4>1. DOMAIN bufs = {1, 2}
        BY <1>3
      <4>2. reach(i) \subseteq {1, 2}
        BY <4>1
      <4>3. Max(reach(i)) \in reach(i)
        BY <3>2, <4>2, GreatestOfTwo
      <4> HIDE DEF size
      <4>4. PICK m \in DOMAIN bufs : m = Max(reach(i)) /\ Len(bufs[m]) >= i
        BY <4>3
      <4>5. bufs[m] \in Seq(T)
        BY <4>4, LenProperties, ElementOfSeq
      <4>6. i \in 1..Len(bufs[m])
        BY <4>4, <4>5, <2>1
      <4>7. bufs[m][i] \in T
        BY <4>5, <4>6, ElementOfSeq
      <4> QED BY <3>2, <4>4, <4>7
    <3> QED BY <3>1, <3>2
  <2>3. Merged(bufs) = <<one>>
    <3>1. size = Cardinality(BytesIn(bufs))
      BY DEF Cardinality
    <3>2. ~(Len(bufs) < 2)
      BY <1>3
    <3> QED BY <3>1, <3>2, Zenon DEF Merged
  <2> HIDE DEF size, unit
  <2>4. one \in [1..size -> T]
    BY <2>2
  <2>5. one \in Seq(T)
    BY <2>1, <2>4, SeqDef
  <2> HIDE DEF one
  <2> QED BY <1>3, <2>3, <2>5
<1> QED BY <1>1, <1>2, <1>3

-----------------------------------------------------------------------------
(* Buffers that follow each other *)

LEMMA AppendTo ==
    ASSUME NEW T, NEW s \in Seq(T), NEW e \in T
    PROVE  /\ Append(s, e) \in Seq(T) /\ Len(Append(s, e)) = Len(s) + 1 /\ Append(s, e) # <<>>
           /\ \A i \in 1..Len(s) : Append(s, e)[i] = s[i]
           /\ Append(s, e)[Len(s) + 1] = e
BY AppendProperties

LEMMA ChainAppend ==
    ASSUME NEW N \in Nat, NEW bufs \in Seq(Seq(0..N)), NEW off \in Nat, NEW next \in Nat,
           NEW last \in Nat, NEW n \in Nat \ {0}, last + n <= N,
           Chain(bufs, off, next, last), bufs = <<>> => off = 0
    PROVE  /\ Append(bufs, Units(last + 1, last + n)) \in Seq(Seq(0..N))
           /\ Chain(Append(bufs, Units(last + 1, last + n)), off, next, last + n)
<1> DEFINE buf == Units(last + 1, last + n)
           all == Append(bufs, buf)
<1>1. /\ Len(buf) = n /\ buf \in Seq((last + 1)..(last + n))
      /\ \A i \in 1..n : buf[i] = last + i
  <2>1. /\ Len(buf) = (last + n) - (last + 1) + 1 /\ buf \in Seq((last + 1)..(last + n))
        /\ \A i \in 1..((last + n) - (last + 1) + 1) : buf[i] = (last + 1) + i - 1
    <3>1. last + 1 \in Nat /\ last + n \in Nat /\ last + 1 <= (last + n) + 1
      OBVIOUS
    <3> QED BY <3>1, UnitsAre
  <2> HIDE DEF buf
  <2> QED BY <2>1
<1> HIDE DEF buf
<1>2. buf \in Seq(0..N)
  <2>1. (last + 1)..(last + n) \subseteq 0..N
    OBVIOUS
  <2> QED BY <1>1, <2>1, SeqSubset
<1>3. /\ all \in Seq(Seq(0..N)) /\ Len(all) = Len(bufs) + 1 /\ all # <<>>
      /\ \A b \in 1..Len(bufs) : all[b] = bufs[b]
      /\ all[Len(bufs) + 1] = buf
  <2> DEFINE T == Seq(0..N)
  <2>1. bufs \in Seq(T) /\ buf \in T
    BY <1>2
  <2> HIDE DEF T
  <2>2. /\ Append(bufs, buf) \in Seq(T) /\ Len(Append(bufs, buf)) = Len(bufs) + 1
        /\ Append(bufs, buf) # <<>> /\ \A b \in 1..Len(bufs) : Append(bufs, buf)[b] = bufs[b]
        /\ Append(bufs, buf)[Len(bufs) + 1] = buf
    BY <2>1, AppendTo
  <2> QED BY <2>2 DEF T
<1>4. Len(bufs) \in Nat /\ \A b \in 1..Len(bufs) : bufs[b] \in Seq(0..N)
  BY LenProperties, ElementOfSeq
<1>5. \A b \in 1..Len(bufs) : Len(bufs[b]) \in Nat
  BY <1>4
<1> HIDE DEF all
<1>6. bufs = <<>> => last = next - 1 /\ Len(bufs) = 0
  BY DEF Chain
<1>7. \A b \in 1..Len(bufs) :
          /\ 1 <= bufs[b][1] /\ 1 <= Len(bufs[b]) /\ bufs[b][1] + Len(bufs[b]) - 1 <= last
          /\ \A i \in 1..Len(bufs[b]) : bufs[b][i] = bufs[b][1] + i - 1
          /\ b = 1 => bufs[b][1] + off = next
          /\ b > 1 => bufs[b][1] = bufs[b - 1][1] + Len(bufs[b - 1])
          /\ b = Len(bufs) => bufs[b][1] + Len(bufs[b]) - 1 = last
  BY DEF Chain
<1>8. \A b \in 1..Len(bufs) : bufs[b][1] \in Nat
  <2> SUFFICES ASSUME NEW b \in 1..Len(bufs) PROVE bufs[b][1] \in Nat
    OBVIOUS
  <2>1. bufs[b] \in Seq(0..N) /\ Len(bufs[b]) \in Nat /\ 1 <= Len(bufs[b])
    <3>1. Len(bufs[b]) \in Nat /\ bufs[b] \in Seq(0..N)
      BY <1>4, <1>5
    <3>2. 1 <= Len(bufs[b])
      BY <1>7
    <3> QED BY <3>1, <3>2
  <2>2. 1 \in 1..Len(bufs[b])
    BY <2>1
  <2>3. bufs[b][1] \in 0..N
    BY <2>1, <2>2, ElementOfSeq
  <2> QED BY <2>3
<1>9. Chain(all, off, next, last + n)
  <2> SUFFICES ASSUME NEW b \in 1..Len(all)
               PROVE  /\ 1 <= all[b][1] /\ 1 <= Len(all[b])
                      /\ all[b][1] + Len(all[b]) - 1 <= last + n
                      /\ \A i \in 1..Len(all[b]) : all[b][i] = all[b][1] + i - 1
                      /\ b = 1 => all[b][1] + off = next
                      /\ b > 1 => all[b][1] = all[b - 1][1] + Len(all[b - 1])
                      /\ b = Len(all) => all[b][1] + Len(all[b]) - 1 = last + n
    BY <1>3 DEF Chain
  <2>1. CASE b \in 1..Len(bufs)
    <3>1. all[b] = bufs[b] /\ (b > 1 => all[b - 1] = bufs[b - 1]) /\ b # Len(all)
      <4>1. b - 1 \in Int /\ (b > 1 => b - 1 \in 1..Len(bufs))
        BY <1>4, <2>1
      <4>2. b # Len(bufs) + 1
        BY <1>4, <2>1
      <4> QED BY <1>3, <2>1, <4>1, <4>2
    <3>2. Len(bufs[b]) \in Nat /\ bufs[b][1] \in Nat
      BY <1>5, <1>8, <2>1
    <3>3. bufs[b][1] + Len(bufs[b]) - 1 <= last + n
      <4> DEFINE from == bufs[b][1]
                 len == Len(bufs[b])
      <4>1. from \in Nat /\ len \in Nat /\ from + len - 1 <= last
        BY <1>7, <2>1, <3>2
      <4> HIDE DEF from, len
      <4>2. from + len - 1 <= last + n
        BY <4>1
      <4> QED BY <4>2 DEF from, len
    <3> QED BY <1>7, <2>1, <3>1, <3>3
  <2>2. CASE b \notin 1..Len(bufs)
    <3>1. b = Len(bufs) + 1 /\ all[b] = buf
      BY <1>3, <1>4, <2>2
    <3>2. buf[1] = last + 1 /\ 1 \in 1..n
      BY <1>1
    <3>3. /\ 1 <= all[b][1] /\ 1 <= Len(all[b]) /\ all[b][1] + Len(all[b]) - 1 = last + n
          /\ \A i \in 1..Len(all[b]) : all[b][i] = all[b][1] + i - 1
      <4>1. /\ 1 <= buf[1] /\ 1 <= Len(buf) /\ buf[1] + Len(buf) - 1 = last + n
            /\ \A i \in 1..Len(buf) : buf[i] = buf[1] + i - 1
        BY <1>1, <3>2
      <4> QED BY <3>1, <4>1, Zenon
    <3>4. b = 1 => all[b][1] + off = next
      <4> SUFFICES ASSUME b = 1 PROVE all[b][1] + off = next
        OBVIOUS
      <4>1. Len(bufs) = 0
        BY <1>4, <3>1
      <4>2. bufs = <<>>
        BY <4>1
      <4> QED BY <1>6, <3>1, <3>2, <4>2
    <3>5. b > 1 => all[b][1] = all[b - 1][1] + Len(all[b - 1])
      <4> SUFFICES ASSUME b > 1 PROVE all[b][1] = all[b - 1][1] + Len(all[b - 1])
        OBVIOUS
      <4> DEFINE k == Len(bufs)
      <4>1. b - 1 = k /\ k \in 1..Len(bufs)
        BY <1>4, <3>1
      <4>2. all[k] = bufs[k] /\ bufs[k][1] + Len(bufs[k]) - 1 = last
        BY <1>3, <1>7, <4>1
      <4>3. bufs[k][1] \in Nat /\ Len(bufs[k]) \in Nat
        BY <1>5, <1>8, <4>1
      <4> HIDE DEF k
      <4>4. bufs[k][1] + Len(bufs[k]) = last + 1
        <5> DEFINE x == bufs[k][1]
                   y == Len(bufs[k])
        <5>1. x \in Nat /\ y \in Nat /\ x + y - 1 = last
          BY <4>2, <4>3
        <5> HIDE DEF x, y
        <5>2. x + y = last + 1
          BY <5>1
        <5> QED BY <5>2 DEF x, y
      <4>5. all[b] = buf /\ all[b - 1] = bufs[k]
        BY <3>1, <4>1, <4>2
      <4> QED BY <3>2, <4>4, <4>5
    <3> QED BY <3>3, <3>4, <3>5
  <2> QED BY <2>1, <2>2
<1> QED BY <1>3, <1>9 DEF all, buf

\* The first buffer has been read.
LEMMA ChainTail ==
    ASSUME NEW N \in Nat, NEW bufs \in Seq(Seq(0..N)), bufs # <<>>, NEW next \in Nat,
           NEW last \in Nat, Chain(bufs, 0, next, last)
    PROVE  Chain(Tail(bufs), 0, next + Len(bufs[1]), last)
<1> DEFINE all == Tail(bufs)
<1>1. /\ all \in Seq(Seq(0..N)) /\ Len(all) = Len(bufs) - 1
      /\ \A b \in 1..Len(all) : all[b] = bufs[b + 1]
  BY HeadTailProperties
<1>2. Len(bufs) \in Nat /\ Len(bufs) >= 1 /\ \A b \in 1..Len(bufs) : bufs[b] \in Seq(0..N)
  <2>1. Len(bufs) \in Nat /\ \A b \in 1..Len(bufs) : bufs[b] \in Seq(0..N)
    BY LenProperties, ElementOfSeq
  <2>2. Len(bufs) # 0
    OBVIOUS
  <2> QED BY <2>1, <2>2
<1>3. \A b \in 1..Len(bufs) : Len(bufs[b]) \in Nat
  BY <1>2
<1> HIDE DEF all
<1>4. \A b \in 1..Len(bufs) :
          /\ 1 <= bufs[b][1] /\ 1 <= Len(bufs[b]) /\ bufs[b][1] + Len(bufs[b]) - 1 <= last
          /\ \A i \in 1..Len(bufs[b]) : bufs[b][i] = bufs[b][1] + i - 1
          /\ b = 1 => bufs[b][1] + 0 = next
          /\ b > 1 => bufs[b][1] = bufs[b - 1][1] + Len(bufs[b - 1])
          /\ b = Len(bufs) => bufs[b][1] + Len(bufs[b]) - 1 = last
  BY DEF Chain
<1>5. \A b \in 1..Len(bufs) : bufs[b][1] \in Nat
  <2> SUFFICES ASSUME NEW b \in 1..Len(bufs) PROVE bufs[b][1] \in Nat
    OBVIOUS
  <2>1. 1 \in 1..Len(bufs[b]) /\ bufs[b] \in Seq(0..N)
    BY <1>2, <1>3, <1>4
  <2>2. bufs[b][1] \in 0..N
    BY <2>1, ElementOfSeq
  <2> QED BY <2>2
<1>6. 1 \in 1..Len(bufs) /\ bufs[1][1] = next /\ Len(bufs[1]) \in Nat
  <2>1. 1 \in 1..Len(bufs)
    BY <1>2
  <2>2. bufs[1][1] \in Nat /\ Len(bufs[1]) \in Nat
    BY <1>3, <1>5, <2>1
  <2>3. bufs[1][1] + 0 = next
    BY <1>4, <2>1
  <2> QED BY <2>1, <2>2, <2>3
<1>7. all = <<>> => last = next + Len(bufs[1]) - 1
  <2> SUFFICES ASSUME all = <<>> PROVE last = next + Len(bufs[1]) - 1
    OBVIOUS
  <2>1. Len(bufs) = 1
    BY <1>1, <1>2
  <2>2. bufs[1][1] + Len(bufs[1]) - 1 = last
    BY <1>4, <1>6, <2>1
  <2> QED BY <1>6, <2>2
<1>8. ASSUME NEW b \in 1..Len(all)
      PROVE  /\ 1 <= all[b][1] /\ 1 <= Len(all[b]) /\ all[b][1] + Len(all[b]) - 1 <= last
             /\ \A i \in 1..Len(all[b]) : all[b][i] = all[b][1] + i - 1
             /\ b = 1 => all[b][1] + 0 = next + Len(bufs[1])
             /\ b > 1 => all[b][1] = all[b - 1][1] + Len(all[b - 1])
             /\ b = Len(all) => all[b][1] + Len(all[b]) - 1 = last
  <2> DEFINE k == b + 1
  <2>1. k \in 1..Len(bufs) /\ k > 1 /\ k - 1 = b /\ k - 1 \in 1..Len(bufs)
    BY <1>1, <1>2, <1>8
  <2>2. all[b] = bufs[k] /\ (b > 1 => b - 1 \in 1..Len(all) /\ all[b - 1] = bufs[k - 1])
    <3>1. all[b] = bufs[k]
      BY <1>1, <1>8
    <3>2. b > 1 => b - 1 \in 1..Len(all) /\ (b - 1) + 1 = b
      BY <1>1, <1>2, <1>8
    <3>3. b > 1 => all[b - 1] = bufs[b]
      BY <1>1, <3>2
    <3> QED BY <2>1, <3>1, <3>2, <3>3
  <2>3. (b = Len(all) => k = Len(bufs)) /\ (b = 1 => k - 1 = 1)
    BY <1>1, <1>2
  <2>4. bufs[k][1] \in Nat /\ Len(bufs[k]) \in Nat
    BY <1>3, <1>5, <2>1
  <2>5. bufs[k][1] = bufs[k - 1][1] + Len(bufs[k - 1])
    BY <1>4, <2>1
  <2>6. /\ 1 <= bufs[k][1] /\ 1 <= Len(bufs[k]) /\ bufs[k][1] + Len(bufs[k]) - 1 <= last
        /\ \A i \in 1..Len(bufs[k]) : bufs[k][i] = bufs[k][1] + i - 1
        /\ k = Len(bufs) => bufs[k][1] + Len(bufs[k]) - 1 = last
    BY <1>4, <2>1
  <2> HIDE DEF k
  <2>7. b = 1 => all[b][1] + 0 = next + Len(bufs[1])
    BY <1>6, <2>2, <2>3, <2>4, <2>5
  <2>8. b > 1 => all[b][1] = all[b - 1][1] + Len(all[b - 1])
    BY <2>2, <2>5
  <2>9. b = Len(all) => all[b][1] + Len(all[b]) - 1 = last
    BY <2>2, <2>3, <2>6
  <2> QED BY <2>2, <2>6, <2>7, <2>8, <2>9
<1>9. Chain(all, 0, next + Len(bufs[1]), last)
  BY <1>7, <1>8 DEF Chain
<1> QED BY <1>9 DEF all

\* A part of the first buffer has been read.
LEMMA ChainPart ==
    ASSUME NEW N \in Nat, NEW bufs \in Seq(Seq(0..N)), bufs # <<>>, NEW next \in Nat,
           NEW last \in Nat, NEW k \in Nat, Chain(bufs, 0, next, last)
    PROVE  /\ Chain(bufs, k, next + k, last)
           /\ \A i \in 1..Len(bufs[1]) : bufs[1][i] = next + i - 1
<1>1. 1 \in 1..Len(bufs)
  <2>1. Len(bufs) \in Nat /\ Len(bufs) # 0
    BY LenProperties
  <2> QED BY <2>1
<1>2. bufs[1] \in Seq(0..N)
  BY <1>1, ElementOfSeq
<1>3. /\ 1 <= Len(bufs[1]) /\ bufs[1][1] + 0 = next
      /\ \A i \in 1..Len(bufs[1]) : bufs[1][i] = bufs[1][1] + i - 1
  BY <1>1 DEF Chain
<1>4. bufs[1][1] \in Nat
  <2>1. 1 \in 1..Len(bufs[1])
    BY <1>2, <1>3
  <2>2. bufs[1][1] \in 0..N
    BY <1>2, <2>1, ElementOfSeq
  <2> QED BY <2>2
<1>5. bufs[1][1] = next
  BY <1>3, <1>4
<1>6. Chain(bufs, k, next + k, last)
  BY <1>5 DEF Chain
<1> QED BY <1>3, <1>5, <1>6

-----------------------------------------------------------------------------
(* What is read and parsed *)

LEMMA LengthIsNat == ASSUME NEW T, NEW s \in Seq(T) PROVE Len(s) \in Nat
OBVIOUS

\* wslay parses the first of the units it has.
LEMMA HandParsed ==
    ASSUME NEW N \in Nat, NEW p \in Seq(0..N), NEW r \in Seq(0..N), r # <<>>, InHand(p, r)
    PROVE  /\ Head(r) = HeaderLen + Len(p) + 1 /\ Head(r) \in 0..N
           /\ InHand(Append(p, Head(r)), Tail(r))
           /\ After(Append(p, Head(r)), Tail(r)) = After(p, r)
<1> DEFINE h == Head(r)
           q == Append(p, h)
           t == Tail(r)
<1>1. /\ h \in 0..N /\ t \in Seq(0..N) /\ Len(t) = Len(r) - 1
      /\ \A i \in 1..Len(t) : t[i] = r[i + 1]
  BY HeadTailProperties
<1>2. /\ Len(p) \in Nat /\ Len(r) \in Nat /\ Len(r) >= 1 /\ h = r[1]
  <2>1. Len(p) \in Nat /\ Len(r) \in Nat /\ Len(r) # 0 /\ h = r[1]
    OBVIOUS
  <2> QED BY <2>1
<1> HIDE DEF h, t
<1>3. /\ q \in Seq(0..N) /\ Len(q) = Len(p) + 1
      /\ \A i \in 1..Len(p) : q[i] = p[i]
      /\ q[Len(p) + 1] = h
  BY <1>1, AppendTo
<1> HIDE DEF q
<1>4. /\ \A i \in 1..Len(p) : p[i] = HeaderLen + i
      /\ \A i \in 1..Len(r) : r[i] = HeaderLen + Len(p) + i
  BY DEF InHand
<1>5. h = HeaderLen + Len(p) + 1
  BY <1>2, <1>4
<1>6. \A i \in 1..Len(q) : q[i] = HeaderLen + i
  <2> SUFFICES ASSUME NEW i \in 1..Len(q) PROVE q[i] = HeaderLen + i
    OBVIOUS
  <2>1. CASE i \in 1..Len(p)
    BY <1>3, <1>4, <2>1
  <2>2. CASE i \notin 1..Len(p)
    <3>1. i = Len(p) + 1
      BY <1>2, <1>3, <2>2
    <3> QED BY <1>2, <1>3, <1>5, <3>1 DEF HeaderLen
  <2> QED BY <2>1, <2>2
<1>7. \A i \in 1..Len(t) : t[i] = HeaderLen + Len(q) + i
  <2> SUFFICES ASSUME NEW i \in 1..Len(t) PROVE t[i] = HeaderLen + Len(q) + i
    OBVIOUS
  <2>1. i + 1 \in 1..Len(r)
    BY <1>1, <1>2
  <2>2. t[i] = HeaderLen + Len(p) + (i + 1)
    BY <1>1, <1>4, <2>1
  <2> QED BY <1>2, <1>3, <2>2 DEF HeaderLen
<1>8. HeaderLen + Len(q) + Len(t) + 1 = HeaderLen + Len(p) + Len(r) + 1
  BY <1>1, <1>2, <1>3 DEF HeaderLen
<1> QED BY <1>1, <1>5, <1>6, <1>7, <1>8 DEF InHand, After, h, q, t

\* wslay is given the beginning of a buffer that has what comes next.
LEMMA HandRead ==
    ASSUME NEW N \in Nat, NEW p \in Seq(0..N), NEW r \in Seq(0..N), InHand(p, r),
           NEW buf \in Seq(0..N), NEW k \in 0..Len(buf),
           \A i \in 1..Len(buf) : buf[i] = After(p, r) + i - 1
    PROVE  /\ InHand(p, r \o SubSeq(buf, 1, k))
           /\ After(p, r \o SubSeq(buf, 1, k)) = After(p, r) + k
<1> DEFINE part == SubSeq(buf, 1, k)
           t == r \o part
<1>1. Len(p) \in Nat /\ Len(r) \in Nat /\ Len(buf) \in Nat /\ k \in Nat /\ k <= Len(buf)
  <2>1. Len(buf) \in Nat /\ Len(p) \in Nat /\ Len(r) \in Nat
    BY LengthIsNat
  <2> QED BY <2>1
<1>2. \A i \in 1..k : buf[i] \in 0..N
  <2>1. \A i \in 1..k : i \in 1..Len(buf)
    BY <1>1
  <2> QED BY <2>1, ElementOfSeq
<1>3. part \in Seq(0..N) /\ Len(part) = k /\ \A i \in 1..k : part[i] = buf[i]
  <2>1. /\ part \in Seq(0..N) /\ Len(part) = (IF 1 <= k THEN k - 1 + 1 ELSE 0)
        /\ \A i \in 1..(k - 1 + 1) : part[i] = buf[1 + i - 1]
    BY <1>1, <1>2, SubSeqProperties
  <2> HIDE DEF part
  <2> QED BY <1>1, <2>1
<1> HIDE DEF part
<1>4. /\ Len(t) = Len(r) + k
      /\ \A i \in 1..(Len(r) + k) : t[i] = IF i <= Len(r) THEN r[i] ELSE part[i - Len(r)]
  BY <1>3, ConcatProperties
<1> HIDE DEF t
<1>5. /\ \A i \in 1..Len(p) : p[i] = HeaderLen + i
      /\ \A i \in 1..Len(r) : r[i] = HeaderLen + Len(p) + i
  BY DEF InHand
<1>6. \A i \in 1..Len(buf) : buf[i] = HeaderLen + Len(p) + Len(r) + i
  BY <1>1 DEF After, HeaderLen
<1>7. \A i \in 1..Len(t) : t[i] = HeaderLen + Len(p) + i
  <2> SUFFICES ASSUME NEW i \in 1..Len(t) PROVE t[i] = HeaderLen + Len(p) + i
    OBVIOUS
  <2>1. CASE i <= Len(r)
    <3>1. i \in 1..Len(r) /\ t[i] = r[i]
      BY <1>1, <1>4, <2>1
    <3> QED BY <1>5, <3>1
  <2>2. CASE ~(i <= Len(r))
    <3> DEFINE j == i - Len(r)
    <3>1. j \in 1..k /\ j \in 1..Len(buf) /\ i = Len(r) + j
      BY <1>1, <1>4, <2>2
    <3>2. t[i] = part[j]
      BY <1>4, <2>2
    <3>3. part[j] = HeaderLen + Len(p) + Len(r) + j
      BY <1>3, <1>6, <3>1
    <3> HIDE DEF j
    <3>4. HeaderLen + Len(p) + Len(r) + j = HeaderLen + Len(p) + i
      BY <1>1, <3>1 DEF HeaderLen
    <3> QED BY <3>2, <3>3, <3>4
  <2> QED BY <2>1, <2>2
<1>8. HeaderLen + Len(p) + Len(t) + 1 = HeaderLen + Len(p) + Len(r) + 1 + k
  BY <1>1, <1>4 DEF HeaderLen
<1> QED BY <1>5, <1>7, <1>8 DEF InHand, After, t, part

LEMMA RangeAppend ==
    ASSUME NEW T, NEW s \in Seq(T), NEW e \in T
    PROVE  Range(Append(s, e)) = Range(s) \cup {e}
<1> DEFINE t == Append(s, e)
<1>1. /\ t \in Seq(T) /\ Len(t) = Len(s) + 1 /\ \A i \in 1..Len(s) : t[i] = s[i]
      /\ t[Len(s) + 1] = e
  BY AppendTo
<1>2. Len(s) \in Nat /\ DOMAIN s = 1..Len(s)
  OBVIOUS
<1> HIDE DEF t
<1>3. DOMAIN t = 1..(Len(s) + 1)
  BY <1>1
<1>4. \A x \in Range(t) : x \in Range(s) \cup {e}
  <2> SUFFICES ASSUME NEW i \in 1..(Len(s) + 1) PROVE t[i] \in Range(s) \cup {e}
    BY <1>3 DEF Range
  <2>1. CASE i \in 1..Len(s)
    BY <1>1, <1>2, <2>1 DEF Range
  <2>2. CASE i \notin 1..Len(s)
    <3>1. i = Len(s) + 1
      BY <1>2, <2>2
    <3> QED BY <1>1, <3>1
  <2> QED BY <2>1, <2>2
<1>5. \A x \in Range(s) : x \in Range(t)
  <2> SUFFICES ASSUME NEW i \in 1..Len(s) PROVE s[i] \in Range(t)
    BY <1>2 DEF Range
  <2>1. i \in 1..(Len(s) + 1) /\ t[i] = s[i]
    BY <1>1, <1>2
  <2> QED BY <1>3, <2>1 DEF Range
<1>6. e \in Range(t)
  <2>1. Len(s) + 1 \in 1..(Len(s) + 1)
    BY <1>2
  <2> QED BY <1>1, <1>3, <2>1 DEF Range
<1> QED BY <1>4, <1>5, <1>6 DEF t

LEMMA IncreasingAppend ==
    ASSUME NEW N \in Nat, NEW s \in Seq(0..N), NEW e \in 0..N, Increasing(s),
           \A i \in 1..Len(s) : s[i] < e
    PROVE  Increasing(Append(s, e))
<1> DEFINE t == Append(s, e)
<1>1. /\ Len(t) = Len(s) + 1 /\ \A i \in 1..Len(s) : t[i] = s[i]
      /\ t[Len(s) + 1] = e
  BY AppendTo
<1>2. Len(s) \in Nat
  OBVIOUS
<1> HIDE DEF t
<1>3. \A i, j \in 1..Len(s) : i < j => s[i] < s[j]
  BY DEF Increasing
<1>4. ASSUME NEW i \in 1..Len(t), NEW j \in 1..Len(t), i < j PROVE t[i] < t[j]
  <2>1. i \in 1..Len(s)
    BY <1>1, <1>2, <1>4
  <2>2. CASE j \in 1..Len(s)
    BY <1>1, <1>3, <1>4, <2>1, <2>2
  <2>3. CASE j \notin 1..Len(s)
    <3>1. j = Len(s) + 1
      BY <1>1, <1>2, <2>3
    <3> QED BY <1>1, <2>1, <3>1
  <2> QED BY <2>2, <2>3
<1> QED BY <1>4 DEF Increasing, t

\* A unit is parsed: the program is told of it when it is a message.
LEMMA MessagesParsed ==
    ASSUME NEW N \in Nat, NEW p \in Seq(0..N), NEW s \in Seq(0..N), NEW f,
           NEW h \in 0..N, h = HeaderLen + Len(p) + 1,
           \A i \in 1..Len(p) : p[i] = HeaderLen + i,
           Increasing(s), Range(s) = Messages(f, p)
    PROVE  /\ f[h - HeaderLen] = "message" =>
                 Increasing(Append(s, h)) /\ Range(Append(s, h)) = Messages(f, Append(p, h))
           /\ f[h - HeaderLen] # "message" => Range(s) = Messages(f, Append(p, h))
<1>1. Range(Append(p, h)) = Range(p) \cup {h} /\ Range(Append(s, h)) = Range(s) \cup {h}
  BY RangeAppend
<1>2. Len(p) \in Nat /\ h # Garbage
  BY DEF HeaderLen, Garbage
<1>3. Messages(f, Append(p, h)) = Messages(f, p)
                                  \cup {u \in {h} : f[u - HeaderLen] = "message"}
  BY <1>1, <1>2 DEF Messages
<1>4. \A i \in 1..Len(s) : s[i] < h
  <2> SUFFICES ASSUME NEW i \in 1..Len(s) PROVE s[i] < h
    OBVIOUS
  <2>1. s[i] \in Range(s)
    BY DEF Range
  <2>2. s[i] \in Range(p)
    BY <2>1 DEF Messages
  <2>3. PICK k \in DOMAIN p : s[i] = p[k]
    BY <2>2 DEF Range
  <2>4. k \in 1..Len(p)
    BY <2>3
  <2>5. s[i] = HeaderLen + k
    BY <2>3, <2>4
  <2> QED BY <1>2, <2>4, <2>5 DEF HeaderLen
<1>5. Increasing(Append(s, h))
  BY <1>4, IncreasingAppend
<1>6. CASE f[h - HeaderLen] = "message"
  <2>1. {u \in {h} : f[u - HeaderLen] = "message"} = {h}
    BY <1>6
  <2>2. Range(Append(s, h)) = Messages(f, Append(p, h))
    BY <1>1, <1>3, <2>1
  <2> QED BY <1>5, <1>6, <2>2
<1>7. CASE f[h - HeaderLen] # "message"
  <2>1. {u \in {h} : f[u - HeaderLen] = "message"} = {}
    BY <1>7
  <2>2. Range(s) = Messages(f, Append(p, h))
    BY <1>3, <2>1
  <2> QED BY <1>7, <2>2
<1> QED BY <1>6, <1>7

-----------------------------------------------------------------------------
(* What is written *)

\* Every message is later than those before it, and none is missing.
LEMMA OutGrows ==
    ASSUME NEW N \in Nat, NEW s \in Seq(1..N), NEW v \in Nat, v < N, Increasing(s),
           \A i \in 1..Len(s) : s[i] <= v
    PROVE  /\ Append(s, v + 1) \in Seq(1..N) /\ s \o <<v + 1>> = Append(s, v + 1)
           /\ Increasing(Append(s, v + 1))
           /\ \A i \in 1..Len(Append(s, v + 1)) : Append(s, v + 1)[i] <= v + 1
           /\ s = Units(1, v) => Append(s, v + 1) = Units(1, v + 1)
<1> DEFINE e == v + 1
           t == Append(s, e)
<1>1. e \in 1..N /\ e \in 0..N /\ e \in Nat
  OBVIOUS
<1>2. s \in Seq(0..N)
  <2>1. 1..N \subseteq 0..N
    OBVIOUS
  <2> QED BY <2>1, SeqSubset
<1>3. \A i \in 1..Len(s) : s[i] \in 1..N
  BY ElementOfSeq
<1>4. \A i \in 1..Len(s) : s[i] < e
  BY <1>3
<1> HIDE DEF e
<1>5. Increasing(t)
  BY <1>1, <1>2, <1>4, IncreasingAppend
<1>6. /\ t \in Seq(1..N) /\ Len(t) = Len(s) + 1 /\ \A i \in 1..Len(s) : t[i] = s[i]
      /\ t[Len(s) + 1] = e
  BY <1>1, AppendTo
<1>7. s \o <<e>> = t
  BY <1>1, AppendIsConcat
<1> HIDE DEF t
<1>8. Len(s) \in Nat
  OBVIOUS
<1>9. \A i \in 1..Len(t) : i \in 1..Len(s) \/ i = Len(s) + 1
  BY <1>6, <1>8
<1>10. \A i \in 1..Len(t) : t[i] <= e
  <2> SUFFICES ASSUME NEW i \in 1..Len(t) PROVE t[i] <= e
    OBVIOUS
  <2>1. CASE i \in 1..Len(s)
    <3>1. t[i] = s[i] /\ s[i] < e /\ s[i] \in 1..N
      BY <1>3, <1>4, <1>6, <2>1
    <3> QED BY <1>1, <3>1
  <2>2. CASE i = Len(s) + 1
    BY <1>1, <1>6, <2>2
  <2> QED BY <1>9, <2>1, <2>2
<1>11. ASSUME s = Units(1, v) PROVE t = Units(1, e)
  <2>1. Len(Units(1, v)) = v - 1 + 1 /\ \A i \in 1..(v - 1 + 1) : Units(1, v)[i] = 1 + i - 1
    <3>1. 1 \in Nat /\ 1 <= v + 1
      OBVIOUS
    <3> QED BY <3>1, UnitsAre
  <2>2. Len(s) = v /\ \A i \in 1..v : s[i] = i
    BY <1>11, <2>1
  <2>3. Len(t) = e - 1 + 1 /\ e = v + 1
    BY <1>6, <2>2 DEF e
  <2>4. \A i \in 1..Len(t) : t[i] = 1 + i - 1
    BY <1>6, <1>9, <2>2, <2>3
  <2>5. 1 \in Nat /\ 1 <= e + 1
    BY <1>1
  <2> QED BY <1>1, <1>6, <2>3, <2>4, <2>5, UnitsEqual
<1> QED BY <1>5, <1>6, <1>7, <1>10, <1>11 DEF e, t

LEMMA OnlyOne ==
    ASSUME NEW T, NEW e \in T
    PROVE  <<e>> \in Seq(T) /\ SubSeq(<<e>>, 1, 1) = <<e>>
<1>1. <<e>> \in Seq(T) /\ Len(<<e>>) = 1 /\ <<e>>[1] = e
  OBVIOUS
<1>2. /\ SubSeq(<<e>>, 1, 1) \in Seq(T) /\ Len(SubSeq(<<e>>, 1, 1)) = 1
      /\ SubSeq(<<e>>, 1, 1)[1] = e
  <2>1. \A i \in 1..1 : <<e>>[i] \in T
    BY <1>1
  <2>2. /\ SubSeq(<<e>>, 1, 1) \in Seq(T)
        /\ Len(SubSeq(<<e>>, 1, 1)) = (IF 1 <= 1 THEN 1 - 1 + 1 ELSE 0)
        /\ \A i \in 1..(1 - 1 + 1) : SubSeq(<<e>>, 1, 1)[i] = <<e>>[1 + i - 1]
    BY <2>1, SubSeqProperties
  <2> QED BY <1>1, <2>2
<1>3. \A i \in 1..1 : SubSeq(<<e>>, 1, 1)[i] = <<e>>[i]
  BY <1>1, <1>2
<1> QED BY <1>1, <1>2, <1>3, SeqEqual

LEMMA UnitsIncreasing ==
    ASSUME NEW v \in Nat, NEW k \in 0..v
    PROVE  /\ SubSeq(Units(1, v), 1, k) \in Seq(1..v)
           /\ Increasing(SubSeq(Units(1, v), 1, k))
           /\ \A i \in 1..Len(SubSeq(Units(1, v), 1, k)) : SubSeq(Units(1, v), 1, k)[i] <= v
<1> DEFINE u == Units(1, v)
           s == SubSeq(u, 1, k)
<1>1. \A i \in 1..v : u[i] = i
  <2>1. \A i \in 1..(v - 1 + 1) : u[i] = 1 + i - 1
    <3>1. 1 \in Nat /\ 1 <= v + 1
      OBVIOUS
    <3> QED BY <3>1, UnitsAre
  <2> HIDE DEF u
  <2> QED BY <2>1
<1> HIDE DEF u
<1>2. \A i \in 1..k : u[i] \in 1..v
  BY <1>1
<1>3. /\ s \in Seq(1..v) /\ Len(s) = (IF 1 <= k THEN k - 1 + 1 ELSE 0)
      /\ \A i \in 1..(k - 1 + 1) : s[i] = u[1 + i - 1]
  BY <1>2, SubSeqProperties
<1> HIDE DEF s
<1>4. Len(s) = k /\ \A i \in 1..k : s[i] = i
  BY <1>1, <1>3
<1>5. Increasing(s) /\ \A i \in 1..Len(s) : s[i] <= v
  BY <1>4 DEF Increasing
<1> QED BY <1>3, <1>5 DEF s, u

-----------------------------------------------------------------------------
(* The steps that the program and the socket take *)

LEMMA WsReadKept ==
    ASSUME WsReadLists,
           UNCHANGED <<frames, arrived, rem, mReadBuffers, wsOffset, got, taken, wsTold>>
    PROVE  WsReadLists'
BY DEF WsReadLists, Total, HeaderLen

\* The order does not change when nothing is read and the connection may end.
LEMMA WsOrderKept ==
    ASSUME WsOrder,
           UNCHANGED <<frames, arrived, mReadBuffers, wsOffset, got, taken, wsTold, merged, torn>>,
           mTcp' => mTcp, mUpgraded' => mUpgraded, mTcp' => mUpgraded' = mUpgraded
    PROVE  WsOrder'
<1>1. (mTcp /\ ~mUpgraded /\ ~merged)' => mTcp /\ ~mUpgraded /\ ~merged
  OBVIOUS
<1>2. (mUpgraded /\ ~merged /\ ~torn)' => mUpgraded /\ ~merged /\ ~torn
  OBVIOUS
<1>3. ( /\ mReadBuffers = <<>> => arrived = 0
        /\ Len(mReadBuffers) = 1 => mReadBuffers[1] = Units(1, arrived) )
      => ( /\ mReadBuffers = <<>> => arrived = 0
           /\ Len(mReadBuffers) = 1 => mReadBuffers[1] = Units(1, arrived) )'
  BY DEF Units
<1>4. ( /\ InHand(taken, got)
        /\ Chain(mReadBuffers, wsOffset, After(taken, got), arrived)
        /\ Increasing(wsTold) /\ Range(wsTold) = Messages(frames, taken) )
      => ( /\ InHand(taken, got)
           /\ Chain(mReadBuffers, wsOffset, After(taken, got), arrived)
           /\ Increasing(wsTold) /\ Range(wsTold) = Messages(frames, taken) )'
  OBVIOUS
<1> QED BY <1>1, <1>2, <1>3, <1>4 DEF WsOrder

LEMMA CloseStep ==
    ASSUME WsInv, Close
    PROVE  WsInv'
<1> USE DEF WsInv
<1>1. /\ mTcp /\ mCtx /\ mTcp' = FALSE /\ mCtx' = FALSE /\ mUpgraded' = FALSE
      /\ ending' = "closed" /\ wsPc' = wsPc /\ wsPc \in {"idle", "message", "ended"}
      /\ UNCHANGED <<frames, accept, right, got, reading, closing, taken, arrived, mReadBuffers,
                     wsOffset, rem, merged, torn, mWriteBuffers, out, wrote, wsTold>>
  BY DEF Close, WsProgramRuns, Phases, serverVars, wslayVars, readVars, writeVars
<1>2. WsControl' /\ WsReadLists' /\ WsWriteLists'
  BY <1>1, WsReadKept DEF WsControl, WsWriteLists
<1>3. Phases'
  BY <1>1 DEF Phases
<1>4. Reads'
  BY <1>1 DEF Reads
<1>5. WsOrder'
  BY <1>1, WsOrderKept
<1>6. WsWrites'
  BY <1>1 DEF WsWrites
<1> QED BY <1>2, <1>3, <1>4, <1>5, <1>6

LEMMA SocketEndsStep ==
    ASSUME WsInv, SocketEnds
    PROVE  WsInv'
<1> USE DEF WsInv
<1>1. /\ mTcp /\ wsPc = "idle" /\ mTcp' = FALSE /\ mCtx' = FALSE
      /\ ending' \in {"complete", "error"} /\ wsPc' = "ended"
      /\ UNCHANGED <<frames, accept, right, got, reading, closing, taken, arrived, mReadBuffers,
                     wsOffset, rem, merged, torn, mWriteBuffers, out, wrote, mUpgraded, wsTold>>
  BY DEF SocketEnds, serverVars, wslayVars, readVars, writeVars
<1>2. WsControl' /\ WsReadLists' /\ WsWriteLists'
  BY <1>1, WsReadKept DEF WsControl, WsWriteLists
<1>3. Phases'
  BY <1>1 DEF Phases
<1>4. Reads'
  BY <1>1 DEF Reads
<1>5. WsOrder'
  BY <1>1, WsOrderKept
<1>6. WsWrites'
  BY <1>1 DEF WsWrites
<1> QED BY <1>2, <1>3, <1>4, <1>5, <1>6

\* The thread goes on, and nothing else changes.
LEMMA WsReturnsStep ==
    ASSUME WsInv, EndedReturns \/ MessageReturns \/ RecvEnds
    PROVE  WsInv'
<1> USE DEF WsInv
<1>1. UNCHANGED <<frames, accept, right, got, reading, closing, taken, arrived, mReadBuffers,
                  wsOffset, rem, merged, torn, mWriteBuffers, out, wrote, mTcp, mCtx, mUpgraded,
                  ending, wsTold>>
  BY DEF EndedReturns, MessageReturns, RecvEnds, serverVars, wslayVars,
         readVars, writeVars, connVars
<1>2. \/ wsPc = "ended" /\ wsPc' = "idle"
      \/ wsPc = "message" /\ wsPc' = IF mCtx THEN "recv" ELSE "undefined"
      \/ wsPc = "recv" /\ wsPc' = "idle"
  BY DEF EndedReturns, MessageReturns, RecvEnds
<1>3. WsControl' /\ WsReadLists' /\ WsWriteLists'
  BY <1>1, <1>2, WsReadKept DEF WsControl, WsWriteLists
<1>4. Phases'
  <2>1. mTcp = mCtx
    BY DEF Phases
  <2>2. CASE wsPc = "ended" /\ wsPc' = "idle"
    BY <1>1, <2>2 DEF Phases
  <2>3. CASE wsPc = "message" /\ wsPc' = IF mCtx THEN "recv" ELSE "undefined"
    BY <1>1, <2>1, <2>3 DEF Phases
  <2>4. CASE wsPc = "recv" /\ wsPc' = "idle"
    BY <1>1, <2>4 DEF Phases
  <2> QED BY <1>2, <2>2, <2>3, <2>4
<1>5. Reads'
  <2>1. wsPc' # "copy" /\ (wsPc' = "upgrade" <=> FALSE) /\ (mTcp /\ ~mUpgraded => wsPc # "upgrade")
    BY <1>2
  <2> QED BY <1>1, <2>1 DEF Reads
<1>6. WsOrder'
  BY <1>1, WsOrderKept
<1>7. WsWrites'
  BY <1>1 DEF WsWrites
<1> QED BY <1>3, <1>4, <1>5, <1>6, <1>7

\* The message is sent at once, or waits for the upgrade; when the socket fails
\* under it, it waits for a connection that is no more.
LEMMA WsWriteStep ==
    ASSUME WsInv, WsWrite
    PROVE  WsInv'
<1> USE DEF WsInv
<1> DEFINE w == wrote + 1
           messages == Append(mWriteBuffers, w)
<1>1. /\ wsPc \in {"idle", "message", "ended"} /\ wrote < MaxMessages /\ wrote' = w
      /\ UNCHANGED <<frames, accept, right, got, reading, closing, taken, arrived, mReadBuffers,
                     wsOffset, rem, merged, torn, mUpgraded, wsTold>>
  BY DEF WsWrite, WsProgramRuns, serverVars, wslayVars, readVars
<1>2. \/ WritesAll(messages, mUpgraded) /\ UNCHANGED <<wsPc, mTcp, mCtx, ending>>
      \/ mUpgraded /\ WriteFails(messages)
  BY DEF WsWrite
<1>3. /\ mWriteBuffers \in Seq(1..MaxMessages) /\ out \in Seq(1..MaxMessages)
      /\ wrote \in Nat /\ MaxMessages \in Nat /\ w \in 1..MaxMessages /\ w \in 0..MaxMessages
  BY <1>1, WebSocketClientAssumption DEF WsWriteLists
<1>4. /\ Append(out, w) \in Seq(1..MaxMessages) /\ out \o <<w>> = Append(out, w)
      /\ Increasing(Append(out, w))
      /\ \A i \in 1..Len(Append(out, w)) : Append(out, w)[i] <= w
      /\ out = Units(1, wrote) => Append(out, w) = Units(1, w)
  <2>1. Increasing(out) /\ \A i \in 1..Len(out) : out[i] <= wrote
    BY DEF WsWrites
  <2> QED BY <1>1, <1>3, <2>1, OutGrows
<1>5. messages \in Seq(1..MaxMessages)
  BY <1>3, AppendTo
<1>6. \A i \in 1..Len(out) : out[i] <= w
  <2>1. \A i \in 1..Len(out) : out[i] \in 1..MaxMessages /\ out[i] <= wrote
    BY <1>3, ElementOfSeq DEF WsWrites
  <2> QED BY <1>3, <2>1
<1>7. mTcp /\ mUpgraded => messages = <<w>>
  <2>1. mTcp /\ mUpgraded => mWriteBuffers = <<>>
    BY DEF WsWrites
  <2> QED BY <2>1
<1>8. mTcp = mCtx
  BY DEF Phases
<1> HIDE DEF w
<1>9. WsReadLists' 
  BY <1>1, WsReadKept
<1>10. CASE WritesAll(messages, mUpgraded) /\ UNCHANGED <<wsPc, mTcp, mCtx, ending>>
  <2>1. CASE ~mTcp \/ ~mUpgraded
    <3>1. mWriteBuffers' = messages /\ out' = out
      BY <1>8, <1>10, <2>1 DEF WritesAll
    <3>2. mTcp /\ ~mUpgraded => messages = Units(1, w)
      <4> SUFFICES ASSUME mTcp, ~mUpgraded PROVE messages = Units(1, w)
        OBVIOUS
      <4>1. mWriteBuffers = Units(1, wrote)
        BY DEF WsWrites
      <4>2. Increasing(mWriteBuffers) /\ \A i \in 1..Len(mWriteBuffers) : mWriteBuffers[i] <= wrote
        <5>1. /\ Len(Units(1, wrote)) = wrote - 1 + 1
              /\ \A i \in 1..(wrote - 1 + 1) : Units(1, wrote)[i] = 1 + i - 1
          <6>1. 1 \in Nat /\ 1 <= wrote + 1
            BY <1>3
          <6> QED BY <1>3, <6>1, UnitsAre
        <5>2. Len(mWriteBuffers) = wrote /\ \A i \in 1..wrote : mWriteBuffers[i] = i
          BY <1>3, <4>1, <5>1
        <5> QED BY <1>3, <5>2 DEF Increasing
      <4> QED BY <1>1, <1>3, <4>1, <4>2, OutGrows DEF w
    <3> HIDE DEF messages
    <3>3. WsControl' /\ WsWriteLists'
      BY <1>1, <1>3, <1>5, <1>10, <3>1 DEF WsControl, WsWriteLists
    <3>4. Phases' /\ Reads'
      BY <1>1, <1>10 DEF Phases, Reads
    <3>5. WsOrder'
      BY <1>1, <1>10, WsOrderKept
    <3>6. (mTcp /\ ~mUpgraded)' => out' = <<>> /\ mWriteBuffers' = Units(1, wrote)'
      <4>1. (mTcp /\ ~mUpgraded)' => mTcp /\ ~mUpgraded
        BY <1>1, <1>10
      <4> QED BY <1>1, <3>1, <3>2, <4>1 DEF WsWrites, Units
    <3>7. WsWrites'
      BY <1>1, <1>6, <1>10, <2>1, <3>1, <3>6 DEF WsWrites, Increasing
    <3> QED BY <1>9, <3>3, <3>4, <3>5, <3>7
  <2>2. CASE mTcp /\ mUpgraded
    <3>1. mWriteBuffers' = <<>> /\ out' = IF closing THEN out ELSE Append(out, w)
      BY <1>4, <1>7, <1>8, <1>10, <2>2 DEF WritesAll
    <3> HIDE DEF messages
    <3>2. out' \in Seq(1..MaxMessages) /\ mWriteBuffers' \in Seq(1..MaxMessages)
      <4>1. out' = out \/ out' = Append(out, w)
        BY <3>1
      <4>2. out' \in Seq(1..MaxMessages)
        BY <1>3, <1>4, <4>1, Zenon
      <4>3. <<>> \in Seq(1..MaxMessages)
        BY EmptySeq
      <4> QED BY <3>1, <4>2, <4>3, Zenon
    <3>3. WsControl' /\ WsWriteLists'
      BY <1>1, <1>3, <1>10, <3>2 DEF WsControl, WsWriteLists
    <3>4. Phases' /\ Reads'
      BY <1>1, <1>10 DEF Phases, Reads
    <3>5. WsOrder'
      BY <1>1, <1>10, WsOrderKept
    <3>6. Increasing(out') /\ \A i \in 1..Len(out') : out'[i] <= w
      BY <1>4, <1>6, <3>1 DEF WsWrites
    <3>7. ~closing => out' = Units(1, w)
      BY <1>4, <2>2, <3>1 DEF WsWrites
    <3>8. WsWrites'
      <4>1. Increasing(out)' /\ (\A i \in 1..Len(out) : out[i] <= wrote)'
        BY <1>1, <3>6 DEF Increasing
      <4>2. (mTcp /\ mUpgraded)' /\ mWriteBuffers' = <<>>
        BY <1>1, <1>10, <2>2, <3>1
      <4>3. (~closing => out = Units(1, wrote))'
        BY <1>1, <3>7 DEF Units
      <4> QED BY <4>1, <4>2, <4>3 DEF WsWrites
    <3> QED BY <1>9, <3>3, <3>4, <3>5, <3>8
  <2> QED BY <2>1, <2>2 DEF WsControl
<1>11. CASE mUpgraded /\ WriteFails(messages)
  <2>1. /\ mTcp /\ mCtx /\ mTcp' = FALSE /\ mCtx' = FALSE /\ ending' = "error"
        /\ wsPc' = "undefined"
    BY <1>11 DEF WriteFails
  <2>2. messages = <<w>>
    BY <1>7, <1>11, <2>1
  <2>3. PICK k \in DOMAIN messages :
           /\ out' = IF closing THEN out ELSE out \o SubSeq(messages, 1, k)
           /\ mWriteBuffers' = SubSeq(messages, k, Len(messages))
    BY <1>11 DEF WriteFails
  <2>4. k = 1 /\ Len(messages) = 1
    BY <2>2, <2>3
  <2>5. SubSeq(messages, 1, 1) = <<w>>
    BY <1>3, <2>2, OnlyOne
  <2>6. out' = (IF closing THEN out ELSE Append(out, w)) /\ mWriteBuffers' = <<w>>
    BY <1>4, <2>3, <2>4, <2>5
  <2> HIDE DEF messages
  <2>7. WsControl' /\ WsWriteLists'
    <3>1. out' \in Seq(1..MaxMessages) /\ mWriteBuffers' \in Seq(1..MaxMessages)
      <4>1. out' = out \/ out' = Append(out, w)
        BY <2>6
      <4>2. out' \in Seq(1..MaxMessages)
        BY <1>3, <1>4, <4>1, Zenon
      <4>3. <<w>> \in Seq(1..MaxMessages)
        BY <1>3, OnlyOne
      <4> QED BY <2>6, <4>2, <4>3, Zenon
    <3> QED BY <1>1, <1>3, <2>1, <3>1 DEF WsControl, WsWriteLists
  <2>8. Phases' /\ Reads'
    BY <1>1, <2>1 DEF Phases, Reads
  <2>9. WsOrder'
    BY <1>1, <2>1, WsOrderKept
  <2>10. Increasing(out') /\ \A i \in 1..Len(out') : out'[i] <= w
    BY <1>4, <1>6, <2>6 DEF WsWrites
  <2>11. WsWrites'
    BY <1>1, <2>1, <2>10 DEF WsWrites, Increasing
  <2> QED BY <1>9, <2>7, <2>8, <2>9, <2>11
<1> QED BY <1>2, <1>10, <1>11

\* What the socket has read is put behind what waits.
LEMMA WsDataStep ==
    ASSUME WsInv, NEW n \in 1..MaxChunk, Data(n)
    PROVE  WsInv'
<1> USE DEF WsInv
<1> DEFINE buf == Units(arrived + 1, arrived + n)
           N == Total
<1>1. /\ wsPc = "idle" /\ mTcp /\ mTcp' = mTcp /\ arrived + n <= N
      /\ mReadBuffers' = Append(mReadBuffers, buf) /\ arrived' = arrived + n
      /\ wsPc' = IF mUpgraded THEN "recv" ELSE "upgrade"
      /\ UNCHANGED <<frames, accept, right, got, reading, closing, taken, wsOffset, rem, merged,
                     torn, mWriteBuffers, out, wrote, mCtx, mUpgraded, ending, wsTold>>
  BY DEF Data, serverVars, wslayVars, writeVars, connVars
<1>2. /\ N \in Nat /\ arrived \in Nat /\ n \in Nat \ {0} /\ wsOffset \in Nat
      /\ mReadBuffers \in Seq(Seq(0..N)) /\ Len(taken) \in Nat /\ Len(got) \in Nat
  <2>1. N \in Nat
    BY WsLengths DEF WsReadLists, Total
  <2>2. n \in Nat \ {0}
    BY WebSocketClientAssumption
  <2> HIDE DEF N
  <2>3. taken \in Seq(0..N) /\ got \in Seq(0..N) /\ arrived \in 0..N /\ wsOffset \in Nat
        /\ mReadBuffers \in Seq(Seq(0..N))
    BY DEF WsReadLists, N
  <2> QED BY <2>1, <2>2, <2>3, LengthIsNat
<1>3. /\ buf \in Seq((arrived + 1)..(arrived + n)) /\ Len(buf) = n
  <2>1. arrived + 1 \in Nat /\ arrived + n \in Nat /\ arrived + 1 <= (arrived + n) + 1
    BY <1>2
  <2>2. Len(buf) = (arrived + n) - (arrived + 1) + 1 /\ buf \in Seq((arrived + 1)..(arrived + n))
    BY <2>1, UnitsAre
  <2> HIDE DEF buf
  <2> QED BY <1>2, <2>2
<1>4. buf \in Seq(0..N)
  <2> HIDE DEF N, buf
  <2>1. (arrived + 1)..(arrived + n) \subseteq 0..N
    BY <1>1, <1>2
  <2> QED BY <1>3, <2>1, SeqSubset
<1>5. /\ mReadBuffers' \in Seq(Seq(0..N)) /\ Len(mReadBuffers') = Len(mReadBuffers) + 1
      /\ mReadBuffers' # <<>> /\ \A b \in 1..Len(mReadBuffers) : mReadBuffers'[b] = mReadBuffers[b]
      /\ mReadBuffers'[Len(mReadBuffers) + 1] = buf
  <2> HIDE DEF N, buf
  <2>1. mReadBuffers \in Seq(Seq(0..N))
    BY <1>2
  <2>2. /\ Append(mReadBuffers, buf) \in Seq(Seq(0..N))
        /\ Len(Append(mReadBuffers, buf)) = Len(mReadBuffers) + 1
        /\ Append(mReadBuffers, buf) # <<>>
        /\ \A b \in 1..Len(mReadBuffers) : Append(mReadBuffers, buf)[b] = mReadBuffers[b]
        /\ Append(mReadBuffers, buf)[Len(mReadBuffers) + 1] = buf
    BY <2>1, <1>4, AppendTo
  <2>3. mReadBuffers' = Append(mReadBuffers, buf)
    BY <1>1
  <2> QED BY <2>2, <2>3
<1>6. N' = N
  BY <1>1 DEF Total
<1>7. Len(mReadBuffers) \in Nat
  <2> HIDE DEF N
  <2> QED BY <1>2, LengthIsNat
<1>8. WsControl' /\ WsWriteLists'
  BY <1>1 DEF WsControl, WsWriteLists
<1>9. WsReadLists'
  <2>1. arrived' \in 0..N
    <3> HIDE DEF N
    <3> QED BY <1>1, <1>2
  <2> QED BY <1>1, <1>5, <1>6, <2>1 DEF WsReadLists
<1>10. Phases'
  BY <1>1, <1>5 DEF Phases
<1>11. Reads'
  <2>1. wsOffset <= Len(mReadBuffers'[1])
    <3>1. CASE mReadBuffers = <<>>
      <4>1. mReadBuffers'[1] = buf /\ wsOffset = 0
        BY <1>5, <3>1 DEF Reads
      <4> HIDE DEF buf
      <4> QED BY <1>2, <1>3, <4>1
    <3>2. CASE mReadBuffers # <<>>
      <4>1. 1 \in 1..Len(mReadBuffers)
        <5>1. Len(mReadBuffers) # 0
          BY <1>2, <3>2
        <5> QED BY <1>7, <5>1
      <4> QED BY <1>5, <3>2, <4>1 DEF Reads
    <3> QED BY <3>1, <3>2
  <2>2. mTcp /\ ~mUpgraded => Len(mReadBuffers') <= 2
    <3>1. mTcp /\ ~mUpgraded => Len(mReadBuffers) <= 1
      BY <1>1 DEF Reads
    <3> QED BY <1>5, <1>7, <3>1
  <2>3. mTcp /\ ~mUpgraded => wsPc' = "upgrade"
    BY <1>1
  <2>4. wsPc' # "copy"
    BY <1>1
  <2> HIDE DEF buf, N
  <2>5. (mTcp /\ ~mUpgraded)' =>
            /\ wsOffset' = 0 /\ got' = <<>> /\ taken' = <<>> /\ wsTold' = <<>> /\ ~torn' /\ ~closing'
            /\ Len(mReadBuffers') <= IF wsPc' = "upgrade" THEN 2 ELSE 1
    BY <1>1, <2>2, <2>3 DEF Reads
  <2> QED BY <1>1, <1>5, <2>1, <2>4, <2>5 DEF Reads
<1>12. ASSUME mTcp, ~mUpgraded, ~merged, Len(mReadBuffers') = 1
       PROVE  mReadBuffers'[1] = Units(1, arrived')
  <2>1. Len(mReadBuffers) = 0
    <3> DEFINE m == Len(mReadBuffers)
    <3>1. 1 = m + 1 /\ m \in Nat
      BY <1>5, <1>7, <1>12
    <3> HIDE DEF m
    <3>2. m = 0
      BY <3>1
    <3> QED BY <3>2 DEF m
  <2>2. mReadBuffers = <<>>
    BY <1>2, <2>1
  <2>3. arrived = 0
    BY <1>12, <2>2 DEF WsOrder
  <2>4. mReadBuffers'[1] = buf
    BY <1>5, <2>1
  <2> QED BY <1>1, <1>2, <2>3, <2>4
<1>13. ASSUME mUpgraded, ~merged, ~torn
       PROVE  Chain(mReadBuffers', wsOffset, After(taken, got), arrived + n)
  <2>1. Chain(mReadBuffers, wsOffset, After(taken, got), arrived)
    BY <1>13 DEF WsOrder
  <2>2. mReadBuffers = <<>> => wsOffset = 0
    BY DEF Reads
  <2>3. After(taken, got) \in Nat
    BY <1>2 DEF After, HeaderLen
  <2> HIDE DEF N
  <2> QED BY <1>1, <1>2, <2>1, <2>2, <2>3, ChainAppend
<1>14. WsOrder'
  <2>1. (mTcp /\ ~mUpgraded /\ ~merged)' =>
            /\ mReadBuffers' = <<>> => arrived' = 0
            /\ Len(mReadBuffers') = 1 => mReadBuffers'[1] = Units(1, arrived)'
    BY <1>1, <1>5, <1>12 DEF Units
  <2>2. (mUpgraded /\ ~merged /\ ~torn)' =>
            /\ InHand(taken, got)'
            /\ Chain(mReadBuffers', wsOffset', After(taken, got)', arrived')
            /\ Increasing(wsTold)' /\ Range(wsTold)' = Messages(frames, taken)'
    <3>1. (mUpgraded /\ ~merged /\ ~torn)' => mUpgraded /\ ~merged /\ ~torn
      BY <1>1
    <3>2. After(taken, got)' = After(taken, got) /\ InHand(taken, got)' = InHand(taken, got)
          /\ Increasing(wsTold)' = Increasing(wsTold) /\ Range(wsTold)' = Range(wsTold)
          /\ Messages(frames, taken)' = Messages(frames, taken)
      BY <1>1
    <3>3. mUpgraded /\ ~merged /\ ~torn =>
              InHand(taken, got) /\ Increasing(wsTold) /\ Range(wsTold) = Messages(frames, taken)
      BY DEF WsOrder
    <3> QED BY <1>1, <1>13, <3>1, <3>2, <3>3
  <2> QED BY <2>1, <2>2 DEF WsOrder
<1>15. WsWrites'
  BY <1>1 DEF WsWrites, Increasing, Units
<1> QED BY <1>8, <1>9, <1>10, <1>11, <1>14, <1>15

-----------------------------------------------------------------------------
(* The steps of the upgrade *)

\* What is left of a buffer that has the end of the answer.
RestAfter(a, end) == IF Len(a) = end THEN <<>> ELSE <<SubSeq(a, end + 1, Len(a))>>

LEMMA NothingLeft ==
    ASSUME NEW m \in Nat, Len(Units(1, m)) = HeaderLen
    PROVE  Chain(<<>>, 0, HeaderLen + 1, m)
<1>1. 1 \in Nat /\ 1 <= m + 1
  OBVIOUS
<1>2. Len(Units(1, m)) = m - 1 + 1
  BY <1>1, UnitsAre
<1> DEFINE l == Len(Units(1, m))
<1>3. l = m - 1 + 1 /\ l = 2
  BY <1>2 DEF HeaderLen
<1> HIDE DEF l
<1>4. m = 2
  BY <1>3
<1>5. m = (2 + 1) - 1 /\ 1..Len(<<>>) = {}
  BY <1>4
<1> QED BY <1>5 DEF Chain, HeaderLen

\* One buffer is a chain when its units follow each other.
LEMMA ChainOfOne ==
    ASSUME NEW N \in Nat, NEW s \in Seq(0..N), NEW m \in Nat, s # <<>>,
           s = Units(HeaderLen + 1, m)
    PROVE  Chain(<<s>>, 0, HeaderLen + 1, m)
<1> DEFINE bufs == <<s>>
<1>1. Len(bufs) = 1 /\ bufs # <<>> /\ bufs[1] = s
  OBVIOUS
<1>2. Len(s) \in Nat /\ Len(s) # 0
  BY LenProperties
<1>3. 3 <= m + 1 /\ Len(s) = m - 2
  <2>1. DOMAIN s = 1..(m - 3 + 1)
    BY DEF Units, HeaderLen
  <2>2. 1 \in 1..(m - 3 + 1)
    <3>1. DOMAIN s = 1..Len(s)
      BY LenProperties
    <3>2. 1 \in DOMAIN s
      BY <1>2, <3>1
    <3> QED BY <2>1, <3>2
  <2>3. 3 <= m + 1 /\ 3 \in Nat
    BY <2>2
  <2>4. Len(Units(3, m)) = m - 3 + 1
    BY <2>3, UnitsAre
  <2> QED BY <2>3, <2>4 DEF HeaderLen
<1>4. \A i \in 1..Len(s) : s[i] = 3 + i - 1
  <2>1. \A i \in 1..(m - 3 + 1) : Units(3, m)[i] = 3 + i - 1
    BY <1>3, UnitsAre
  <2> QED BY <1>3, <2>1 DEF HeaderLen
<1>5. s[1] = 3
  BY <1>2, <1>4
<1>6. /\ 1 <= s[1] /\ 1 <= Len(s) /\ s[1] + Len(s) - 1 = m /\ s[1] + Len(s) - 1 <= m
      /\ \A i \in 1..Len(s) : s[i] = s[1] + i - 1
      /\ s[1] + 0 = HeaderLen + 1
  BY <1>2, <1>3, <1>4, <1>5 DEF HeaderLen
<1> HIDE DEF bufs
<1>7. \A b \in 1..Len(bufs) : b = 1 /\ bufs[b] = s /\ ~(b > 1)
  BY <1>1
<1>8. Chain(bufs, 0, HeaderLen + 1, m)
  BY <1>1, <1>6, <1>7 DEF Chain
<1> QED BY <1>8 DEF bufs

LEMMA RestOfAnswer ==
    ASSUME NEW N \in Nat, NEW a \in Seq(0..N), NEW end \in 1..Len(a), a[end] = HeaderLen
    PROVE  /\ RestAfter(a, end) \in Seq(Seq(0..N))
           /\ RestAfter(a, end) # <<>> => 0 <= Len(RestAfter(a, end)[1])
           /\ \A m \in Nat : a = Units(1, m) => Chain(RestAfter(a, end), 0, HeaderLen + 1, m)
<1>1. Len(a) \in Nat /\ end \in Nat /\ end <= Len(a) /\ 1 <= end
  <2>1. Len(a) \in Nat
    BY LengthIsNat
  <2> QED BY <2>1
<1>2. ASSUME NEW m \in Nat, a = Units(1, m)
      PROVE  Len(a) = m /\ end = HeaderLen /\ \A i \in 1..m : a[i] = i
  <2>1. Len(a) = m - 1 + 1 /\ \A i \in 1..(m - 1 + 1) : a[i] = 1 + i - 1
    <3>1. 1 \in Nat /\ 1 <= m + 1
      OBVIOUS
    <3> QED BY <1>2, <3>1, UnitsAre
  <2>2. Len(a) = m /\ \A i \in 1..m : a[i] = i
    BY <2>1
  <2>3. end \in 1..m
    BY <2>2
  <2> QED BY <2>2, <2>3
<1>3. CASE Len(a) = end
  <2>1. RestAfter(a, end) = <<>>
    BY <1>3 DEF RestAfter
  <2>2. <<>> \in Seq(Seq(0..N))
    BY EmptySeq
  <2>3. ASSUME NEW m \in Nat, a = Units(1, m)
        PROVE  Chain(<<>>, 0, HeaderLen + 1, m)
    BY <1>2, <1>3, <2>3, NothingLeft
  <2> QED BY <2>1, <2>2, <2>3
<1>4. CASE Len(a) # end
  <2> DEFINE s == SubSeq(a, end + 1, Len(a))
  <2>1. RestAfter(a, end) = <<s>>
    BY <1>4 DEF RestAfter
  <2>2. end + 1 \in Int /\ Len(a) \in Int /\ end + 1 <= Len(a)
    BY <1>1, <1>4
  <2>3. \A i \in (end + 1)..Len(a) : a[i] \in 0..N
    <3>1. \A i \in (end + 1)..Len(a) : i \in 1..Len(a)
      BY <1>1
    <3> QED BY <3>1, ElementOfSeq
  <2>4. /\ s \in Seq(0..N)
        /\ Len(s) = (IF end + 1 <= Len(a) THEN Len(a) - (end + 1) + 1 ELSE 0)
        /\ \A i \in 1..(Len(a) - (end + 1) + 1) : s[i] = a[(end + 1) + i - 1]
    BY <2>2, <2>3, SubSeqProperties
  <2> HIDE DEF s
  <2>5. Len(s) = Len(a) - end /\ Len(s) >= 1 /\ \A i \in 1..Len(s) : s[i] = a[end + i]
    <3>1. Len(s) = Len(a) - end /\ Len(s) >= 1 /\ Len(a) - (end + 1) + 1 = Len(s)
      BY <1>1, <2>2, <2>4
    <3>2. \A i \in 1..Len(s) : s[i] = a[(end + 1) + i - 1] /\ (end + 1) + i - 1 = end + i
      BY <1>1, <2>4, <3>1
    <3> QED BY <3>1, <3>2
  <2>6. <<s>> \in Seq(Seq(0..N)) /\ <<s>>[1] = s /\ s # <<>>
    <3>1. <<s>> \in Seq(Seq(0..N))
      BY <2>4, OnlyOne
    <3> QED BY <2>5, <3>1
  <2>7. ASSUME NEW m \in Nat, a = Units(1, m)
        PROVE  Chain(<<s>>, 0, HeaderLen + 1, m)
    <3>1. Len(a) = m /\ end = 2 /\ \A i \in 1..m : a[i] = i
      BY <1>2, <2>7 DEF HeaderLen
    <3>2. Len(s) = m - 3 + 1 /\ 3 <= m + 1 /\ 3 \in Nat
      BY <2>5, <3>1
    <3>3. \A i \in 1..Len(s) : s[i] = 3 + i - 1
      <4> SUFFICES ASSUME NEW i \in 1..Len(s) PROVE s[i] = 3 + i - 1
        OBVIOUS
      <4>1. 2 + i \in 1..m
        BY <3>2
      <4>2. s[i] = a[2 + i]
        BY <2>5, <3>1
      <4> QED BY <3>1, <4>1, <4>2
    <3>4. s = Units(3, m)
      BY <2>4, <3>2, <3>3, UnitsEqual
    <3> QED BY <2>4, <2>6, <3>4, ChainOfOne DEF HeaderLen
  <2>8. 0 <= Len(s)
    BY <2>4, LengthIsNat
  <2> QED BY <2>1, <2>6, <2>7, <2>8
<1> QED BY <1>3, <1>4

\* The answer when the attempt to upgrade begins.
LEMMA Answers ==
    ASSUME WsInv, wsPc = "upgrade"
    PROVE  /\ mTcp /\ ~mUpgraded /\ ~torn /\ ~closing /\ wsOffset = 0
           /\ got = <<>> /\ taken = <<>> /\ wsTold = <<>>
           /\ Total \in Nat
           /\ Merged(mReadBuffers) \in Seq(Seq(0..Total))
           /\ Len(Merged(mReadBuffers)) = 1
           /\ Answer = Merged(mReadBuffers)[1] /\ Answer \in Seq(0..Total)
           /\ Len(mReadBuffers) = 1 \/ Len(mReadBuffers) > 1
           /\ Len(mReadBuffers) = 1 => Merged(mReadBuffers) = mReadBuffers
           /\ Len(mReadBuffers) = 1 /\ ~merged => Answer = Units(1, arrived)
<1> USE DEF WsInv
<1> DEFINE N == Total
<1>1. mTcp /\ ~mUpgraded /\ mReadBuffers # <<>>
  BY DEF Phases
<1>2. /\ ~torn /\ ~closing /\ wsOffset = 0 /\ got = <<>> /\ taken = <<>> /\ wsTold = <<>>
      /\ Len(mReadBuffers) <= 2
  BY <1>1 DEF Reads
<1>3. N \in Nat
  BY WsLengths DEF WsReadLists, Total
<1>4. mReadBuffers \in Seq(Seq(0..N))
  BY DEF WsReadLists
<1>5. Len(mReadBuffers) = 1 /\ ~merged => mReadBuffers[1] = Units(1, arrived)
  BY <1>1 DEF WsOrder
<1> HIDE DEF N
<1>6. 0 \in 0..N
  BY <1>3
<1>7. /\ Merged(mReadBuffers) \in Seq(Seq(0..N)) /\ Len(Merged(mReadBuffers)) = 1
      /\ Len(mReadBuffers) = 1 => Merged(mReadBuffers) = mReadBuffers
  BY <1>1, <1>2, <1>4, <1>6, MergedIsOne
<1>8. Answer = Merged(mReadBuffers)[1]
  BY DEF Answer
<1>9. Merged(mReadBuffers)[1] \in Seq(0..N)
  <2>1. 1 \in 1..Len(Merged(mReadBuffers))
    BY <1>7
  <2> QED BY <1>7, <2>1, ElementOfSeq
<1>10. Len(mReadBuffers) = 1 \/ Len(mReadBuffers) > 1
  <2> DEFINE m == Len(mReadBuffers)
  <2>1. m \in Nat /\ m # 0
    BY <1>1, <1>4, LenProperties
  <2> HIDE DEF m
  <2>2. m = 1 \/ m > 1
    BY <2>1
  <2> QED BY <2>2 DEF m
<1> QED BY <1>1, <1>2, <1>3, <1>5, <1>7, <1>8, <1>9, <1>10 DEF N

LEMMA AfterIs ==
    ASSUME WsInv, wsPc = "upgrade", Complete
    PROVE  /\ AfterAnswer \in Seq(Seq(0..Total))
           /\ AfterAnswer # <<>> => 0 <= Len(AfterAnswer[1])
           /\ \A m \in Nat : Answer = Units(1, m) =>
                 Chain(AfterAnswer, 0, HeaderLen + 1, m)
<1> DEFINE a == Answer
           end == HeaderSize
<1>1. Total \in Nat /\ a \in Seq(0..Total)
  BY Answers
<1>2. DOMAIN a = 1..Len(a)
  BY <1>1, LenProperties
<1>3. end \in 1..Len(a) /\ a[end] = HeaderLen
  <2>1. \E i \in DOMAIN a : a[i] = HeaderLen
    BY <1>2 DEF Complete, Contains
  <2>2. end = CHOOSE i \in DOMAIN a : a[i] = HeaderLen
    BY DEF HeaderSize
  <2> QED BY <1>2, <2>1, <2>2
<1>4. AfterAnswer = RestAfter(a, end)
  BY DEF AfterAnswer, RestAfter
<1> HIDE DEF a, end
<1>5. /\ RestAfter(a, end) \in Seq(Seq(0..Total))
      /\ RestAfter(a, end) # <<>> => 0 <= Len(RestAfter(a, end)[1])
      /\ \A m \in Nat : a = Units(1, m) => Chain(RestAfter(a, end), 0, HeaderLen + 1, m)
  BY <1>1, <1>3, RestOfAnswer
<1> QED BY <1>4, <1>5 DEF a

LEMMA UpgradeWaitsStep ==
    ASSUME WsInv, UpgradeWaits
    PROVE  WsInv'
<1> USE DEF WsInv
<1>1. /\ wsPc = "upgrade" /\ wsPc' = "idle" /\ mReadBuffers' = Merged(mReadBuffers)
      /\ merged' = (merged \/ Len(mReadBuffers) > 1)
      /\ UNCHANGED <<frames, accept, right, got, reading, closing, taken, arrived, wsOffset, rem,
                     torn, mWriteBuffers, out, wrote, mTcp, mCtx, mUpgraded, ending, wsTold>>
  BY DEF UpgradeWaits, serverVars, wslayVars, writeVars, connVars
<1>2. /\ mTcp /\ ~mUpgraded /\ ~torn /\ ~closing /\ wsOffset = 0
      /\ got = <<>> /\ taken = <<>> /\ wsTold = <<>>
      /\ mReadBuffers' \in Seq(Seq(0..Total)) /\ Len(mReadBuffers') = 1
      /\ Len(mReadBuffers) = 1 \/ Len(mReadBuffers) > 1
      /\ Len(mReadBuffers) = 1 => mReadBuffers' = mReadBuffers
      /\ mReadBuffers'[1] \in Seq(0..Total)
      /\ Len(mReadBuffers) = 1 /\ ~merged => mReadBuffers'[1] = Units(1, arrived)
  BY <1>1, Answers
<1>3. WsControl' /\ WsWriteLists'
  BY <1>1 DEF WsControl, WsWriteLists
<1>4. WsReadLists'
  BY <1>1, <1>2 DEF WsReadLists, Total
<1>5. Phases'
  BY <1>1, <1>2 DEF Phases
<1>6. mReadBuffers' # <<>>
  <2>1. Len(mReadBuffers') = 1 /\ Len(<<>>) = 0
    BY <1>2
  <2> HIDE DEF WsInv
  <2> QED BY <2>1
<1>7. Reads'
  <2>1. 0 <= Len(mReadBuffers'[1])
    BY <1>2, LengthIsNat
  <2> QED BY <1>1, <1>2, <1>6, <2>1 DEF Reads
<1>8. WsOrder'
  BY <1>1, <1>2, <1>6 DEF WsOrder, Units
<1>9. WsWrites'
  BY <1>1 DEF WsWrites, Increasing, Units
<1> QED BY <1>3, <1>4, <1>5, <1>7, <1>8, <1>9

LEMMA UpgradeRefusedStep ==
    ASSUME WsInv, UpgradeRefused
    PROVE  WsInv'
<1> USE DEF WsInv
<1>1. /\ wsPc = "upgrade" /\ wsPc' = "idle" /\ Complete
      /\ mReadBuffers' = (IF KeyFound THEN AfterAnswer ELSE <<Answer>>)
      /\ mTcp' = FALSE /\ mCtx' = FALSE /\ ending' = "refused"
      /\ merged' = (merged \/ Len(mReadBuffers) > 1)
      /\ UNCHANGED <<frames, accept, right, got, reading, closing, taken, arrived, wsOffset, rem,
                     torn, mWriteBuffers, out, wrote, mUpgraded, wsTold>>
  BY DEF UpgradeRefused, serverVars, wslayVars, writeVars
<1>2. /\ mTcp /\ ~mUpgraded /\ wsOffset = 0 /\ Total \in Nat
      /\ Answer \in Seq(0..Total)
  BY <1>1, Answers
<1>3. /\ AfterAnswer \in Seq(Seq(0..Total))
      /\ AfterAnswer # <<>> => 0 <= Len(AfterAnswer[1])
  BY <1>1, AfterIs
<1>4. /\ <<Answer>> \in Seq(Seq(0..Total)) /\ 0 <= Len(<<Answer>>[1])
  <2>1. Len(Answer) \in Nat
    BY <1>2, LengthIsNat
  <2>2. <<Answer>> \in Seq(Seq(0..Total))
    BY <1>2, OnlyOne
  <2> QED BY <2>1, <2>2
<1>5. /\ mReadBuffers' \in Seq(Seq(0..Total))
      /\ mReadBuffers' # <<>> => 0 <= Len(mReadBuffers'[1])
  BY <1>1, <1>3, <1>4, Zenon
<1>6. WsControl' /\ WsWriteLists'
  <2>1. merged' \in BOOLEAN
    BY <1>1
  <2> QED BY <1>1, <2>1 DEF WsControl, WsWriteLists
<1>7. WsReadLists'
  BY <1>1, <1>5 DEF WsReadLists, Total
<1>8. Phases'
  BY <1>1, <1>2 DEF Phases
<1>9. Reads'
  BY <1>1, <1>2, <1>5 DEF Reads
<1>10. WsOrder'
  BY <1>1, <1>2 DEF WsOrder
<1>11. WsWrites'
  BY <1>1 DEF WsWrites, Increasing, Units
<1> QED BY <1>6, <1>7, <1>8, <1>9, <1>10, <1>11

LEMMA UpgradeDoneStep ==
    ASSUME WsInv, UpgradeDone
    PROVE  WsInv'
<1> USE DEF WsInv
<1>1. /\ wsPc = "upgrade" /\ Complete /\ mReadBuffers' = AfterAnswer
      /\ merged' = (merged \/ Len(mReadBuffers) > 1) /\ mUpgraded' = TRUE
      /\ UNCHANGED <<frames, accept, right, got, reading, closing, taken, arrived, wsOffset, rem,
                     torn, wrote, wsTold>>
  BY DEF UpgradeDone, serverVars, wslayVars
<1>2. \/ WritesAll(mWriteBuffers, TRUE) /\ wsPc' = "recv" /\ UNCHANGED <<mTcp, mCtx, ending>>
      \/ WriteFails(mWriteBuffers)
  BY DEF UpgradeDone
<1>3. /\ mTcp /\ ~mUpgraded /\ ~torn /\ ~closing /\ wsOffset = 0
      /\ got = <<>> /\ taken = <<>> /\ wsTold = <<>>
      /\ Len(mReadBuffers) = 1 \/ Len(mReadBuffers) > 1
      /\ Len(mReadBuffers) = 1 /\ ~merged => Answer = Units(1, arrived)
  BY <1>1, Answers
<1>4. /\ mReadBuffers' \in Seq(Seq(0..Total))
      /\ mReadBuffers' # <<>> => 0 <= Len(mReadBuffers'[1])
      /\ \A m \in Nat : Answer = Units(1, m) => Chain(mReadBuffers', 0, HeaderLen + 1, m)
  BY <1>1, AfterIs
<1>5. mCtx /\ out = <<>> /\ mWriteBuffers = Units(1, wrote)
  BY <1>3 DEF Phases, WsWrites
<1>6. WsReadLists'
  BY <1>1, <1>4 DEF WsReadLists, Total
<1>7. arrived \in Nat
  BY WsLengths DEF WsReadLists, Total
<1>8. WsOrder'
  <2>1. (mUpgraded /\ ~merged /\ ~torn)' =>
            /\ InHand(taken, got)'
            /\ Chain(mReadBuffers', wsOffset', After(taken, got)', arrived')
            /\ Increasing(wsTold)' /\ (Range(wsTold) = Messages(frames, taken))'
    <3> SUFFICES ASSUME ~merged'
                 PROVE  /\ InHand(taken, got)'
                        /\ Chain(mReadBuffers', wsOffset', After(taken, got)', arrived')
                        /\ Increasing(wsTold)' /\ (Range(wsTold) = Messages(frames, taken))'
      OBVIOUS
    <3>1. Len(mReadBuffers) = 1 /\ ~merged
      BY <1>1, <1>3
    <3>2. Chain(mReadBuffers', 0, HeaderLen + 1, arrived)
      BY <1>3, <1>4, <1>7, <3>1
    <3>3. taken' = <<>> /\ got' = <<>> /\ wsTold' = <<>> /\ wsOffset' = 0 /\ arrived' = arrived
      BY <1>1, <1>3
    <3>4. After(taken, got)' = HeaderLen + 1
      BY <3>3 DEF After, HeaderLen
    <3>5. 1..Len(<<>>) = {} /\ DOMAIN <<>> = {}
      OBVIOUS
    <3>6. InHand(taken, got)' /\ Increasing(wsTold)'
      BY <3>3, <3>5 DEF InHand, Increasing
    <3>7. (Range(wsTold) = Messages(frames, taken))'
      BY <3>3, <3>5 DEF Range, Messages
    <3> QED BY <3>2, <3>3, <3>4, <3>6, <3>7
  <2> QED BY <1>1, <2>1 DEF WsOrder
<1>9. wrote \in Nat /\ wrote \in 0..MaxMessages /\ MaxMessages \in Nat
      /\ mWriteBuffers \in Seq(1..MaxMessages)
  BY WebSocketClientAssumption DEF WsWriteLists
<1>10. Len(mWriteBuffers) = wrote /\ DOMAIN mWriteBuffers = 1..wrote
       /\ \A i \in 1..wrote : mWriteBuffers[i] = i
  <2>1. 1 \in Nat /\ 1 <= wrote + 1
    BY <1>9
  <2>2. /\ Len(Units(1, wrote)) = wrote - 1 + 1
        /\ \A i \in 1..(wrote - 1 + 1) : Units(1, wrote)[i] = 1 + i - 1
    BY <1>9, <2>1, UnitsAre
  <2>3. Len(mWriteBuffers) = wrote /\ \A i \in 1..wrote : mWriteBuffers[i] = i
    BY <1>5, <1>9, <2>2
  <2> QED BY <1>9, <2>3, LenProperties
<1>11. Reads' \/ wsPc' = "copy"
  BY <1>1, <1>3, <1>4 DEF Reads
<1>12. CASE WritesAll(mWriteBuffers, TRUE) /\ wsPc' = "recv" /\ UNCHANGED <<mTcp, mCtx, ending>>
  <2>1. mWriteBuffers' = <<>> /\ out' = out \o mWriteBuffers
    BY <1>3, <1>5, <1>12 DEF WritesAll
  <2>2. out' = mWriteBuffers
    BY <1>5, <1>9, <2>1, ConcatEmptySeq
  <2>3. WsControl' /\ WsWriteLists'
    <3>1. merged' \in BOOLEAN
      BY <1>1
    <3>2. mWriteBuffers' \in Seq(1..MaxMessages) /\ out' \in Seq(1..MaxMessages)
      BY <1>9, <2>1, <2>2, EmptySeq
    <3> QED BY <1>1, <1>9, <1>12, <3>1, <3>2 DEF WsControl, WsWriteLists
  <2>4. Phases'
    BY <1>1, <1>3, <1>12 DEF Phases
  <2>5. Increasing(out') /\ \A i \in 1..Len(out') : out'[i] <= wrote
    BY <1>9, <1>10, <2>2 DEF Increasing
  <2>6. WsWrites'
    BY <1>1, <1>5, <2>1, <2>2, <2>5 DEF WsWrites, Increasing, Units
  <2> QED BY <1>6, <1>8, <1>11, <1>12, <2>3, <2>4, <2>6
<1>13. CASE WriteFails(mWriteBuffers)
  <2>1. PICK k \in DOMAIN mWriteBuffers :
           /\ out' = IF closing THEN out ELSE out \o SubSeq(mWriteBuffers, 1, k)
           /\ mWriteBuffers' = SubSeq(mWriteBuffers, k, Len(mWriteBuffers))
    BY <1>13 DEF WriteFails
  <2>2. mTcp' = FALSE /\ mCtx' = FALSE /\ ending' = "error" /\ wsPc' = "undefined"
    BY <1>13 DEF WriteFails
  <2>3. k \in 1..wrote /\ k \in 0..wrote
    BY <1>9, <1>10
  <2>4. /\ SubSeq(mWriteBuffers, 1, k) \in Seq(1..wrote)
        /\ Increasing(SubSeq(mWriteBuffers, 1, k))
        /\ \A i \in 1..Len(SubSeq(mWriteBuffers, 1, k)) : SubSeq(mWriteBuffers, 1, k)[i] <= wrote
    BY <1>5, <1>9, <2>3, UnitsIncreasing
  <2>5. out' = SubSeq(mWriteBuffers, 1, k)
    BY <1>3, <1>5, <2>1, <2>4, ConcatEmptySeq
  <2>6. out' \in Seq(1..MaxMessages)
    <3>1. 1..wrote \subseteq 1..MaxMessages
      BY <1>9
    <3> QED BY <2>4, <2>5, <3>1, SeqSubset
  <2>7. mWriteBuffers' \in Seq(1..MaxMessages)
    <3>1. \A i \in k..wrote : mWriteBuffers[i] \in 1..MaxMessages
      <4>1. \A i \in k..wrote : i \in 1..wrote
        BY <1>9, <2>3
      <4> QED BY <1>9, <1>10, <4>1
    <3>2. k \in Int /\ wrote \in Int
      BY <1>9, <2>3
    <3>3. SubSeq(mWriteBuffers, k, wrote) \in Seq(1..MaxMessages)
      BY <3>1, <3>2, SubSeqProperties
    <3> QED BY <1>10, <2>1, <3>3
  <2>8. WsControl' /\ WsWriteLists'
    <3>1. merged' \in BOOLEAN
      BY <1>1
    <3> QED BY <1>1, <1>9, <2>2, <2>6, <2>7, <3>1 DEF WsControl, WsWriteLists
  <2>9. Phases'
    BY <1>1, <2>2 DEF Phases
  <2>10. WsWrites'
    <3>1. Increasing(out') /\ \A i \in 1..Len(out') : out'[i] <= wrote
      BY <2>4, <2>5
    <3> QED BY <1>1, <2>2, <3>1 DEF WsWrites, Increasing
  <2> QED BY <1>6, <1>8, <1>11, <2>2, <2>8, <2>9, <2>10
<1> QED BY <1>2, <1>12, <1>13

-----------------------------------------------------------------------------
(* The steps of reading *)

LEMMA RecvCallbackStep ==
    ASSUME WsInv, NEW room \in 1..Room, RecvCallback(room)
    PROVE  WsInv'
<1> USE DEF WsInv
<1>1. /\ wsPc = "recv" /\ got = <<>> /\ mReadBuffers # <<>> /\ rem' = room /\ wsPc' = "copy"
      /\ UNCHANGED <<frames, accept, right, got, reading, closing, taken, arrived, mReadBuffers,
                     wsOffset, merged, torn, mWriteBuffers, out, wrote, mTcp, mCtx, mUpgraded,
                     ending, wsTold>>
  BY DEF RecvCallback, serverVars, wslayVars, writeVars, connVars
<1>2. room \in 0..Room /\ 0 + room <= Room
  BY WebSocketClientAssumption
<1>3. WsControl' /\ WsWriteLists'
  BY <1>1 DEF WsControl, WsWriteLists
<1>4. WsReadLists'
  BY <1>1, <1>2 DEF WsReadLists, Total
<1>5. Phases'
  BY <1>1 DEF Phases
<1>6. Reads'
  <2>1. mTcp /\ mUpgraded
    BY <1>1 DEF Phases
  <2>2. Len(got') + rem' <= Room
    BY <1>1, <1>2
  <2> QED BY <1>1, <2>1, <2>2 DEF Reads
<1>7. WsOrder'
  BY <1>1, WsOrderKept
<1>8. WsWrites'
  BY <1>1 DEF WsWrites, Increasing, Units
<1> QED BY <1>3, <1>4, <1>5, <1>6, <1>7, <1>8

LEMMA CopyPartStep ==
    ASSUME WsInv, CopyPart
    PROVE  WsInv'
<1> USE DEF WsInv
<1> DEFINE N == Total
           buf == Head(mReadBuffers)
           left == Len(buf) - wsOffset
           toread == IF rem < left THEN rem ELSE left
           whole == toread = Len(buf)
<1>1. /\ wsPc = "copy"
      /\ got' = got \o SubSeq(buf, wsOffset + 1, wsOffset + toread)
      /\ rem' = rem - toread /\ torn' = (torn \/ wsOffset # 0)
      /\ mReadBuffers' = (IF whole THEN Tail(mReadBuffers) ELSE mReadBuffers)
      /\ wsOffset' = (IF whole THEN 0 ELSE toread)
      /\ wsPc' = (IF ~whole THEN IF rem' = 0 THEN "recv" ELSE "aborted"
                  ELSE IF rem' = 0 \/ mReadBuffers' = <<>> THEN "recv" ELSE "copy")
      /\ UNCHANGED <<frames, accept, right, reading, closing, taken, arrived, merged,
                     mWriteBuffers, out, wrote, mTcp, mCtx, mUpgraded, ending, wsTold>>
  BY DEF CopyPart, NextOffset, serverVars, writeVars, connVars
<1>2. N' = N
  BY <1>1 DEF Total
<1>3. N \in Nat
  BY WsLengths DEF WsReadLists, Total
<1>4. /\ mReadBuffers \in Seq(Seq(0..N)) /\ got \in Seq(0..N) /\ taken \in Seq(0..N)
      /\ wsOffset \in Nat /\ rem \in 0..Room /\ arrived \in Nat
      /\ Room \in Nat
  BY <1>3, WebSocketClientAssumption DEF WsReadLists
<1>5. mReadBuffers # <<>> /\ Len(got) + rem <= Room /\ mTcp /\ mUpgraded
  BY <1>1 DEF Phases, Reads
<1> HIDE DEF N
<1>6. 1 \in 1..Len(mReadBuffers)
  <2>1. Len(mReadBuffers) \in Nat /\ Len(mReadBuffers) # 0
    BY <1>4, <1>5, LenProperties
  <2> QED BY <2>1
<1>7. buf = mReadBuffers[1] /\ buf \in Seq(0..N)
  <2>1. buf = mReadBuffers[1]
    BY <1>4, <1>5
  <2> QED BY <1>4, <1>6, <2>1, ElementOfSeq
<1> HIDE DEF buf
<1>8. Len(buf) \in Nat /\ wsOffset <= Len(buf) /\ Len(got) \in Nat
  BY <1>4, <1>5, <1>7, LengthIsNat DEF Reads
<1>9. left \in Nat /\ wsOffset + left = Len(buf)
  BY <1>4, <1>8
<1> HIDE DEF left
<1>10. toread \in Nat /\ toread <= rem /\ toread <= left /\ wsOffset + toread <= Len(buf)
       /\ toread <= Len(buf) /\ (toread = rem \/ toread = left)
  BY <1>4, <1>8, <1>9
<1> HIDE DEF toread
<1> DEFINE part == SubSeq(buf, wsOffset + 1, wsOffset + toread)
<1>11. part \in Seq(0..N) /\ Len(part) = toread
  <2>1. \A i \in (wsOffset + 1)..(wsOffset + toread) : buf[i] \in 0..N
    <3>1. \A i \in (wsOffset + 1)..(wsOffset + toread) : i \in 1..Len(buf)
      BY <1>4, <1>8, <1>10
    <3> QED BY <1>7, <3>1, ElementOfSeq
  <2> DEFINE m == wsOffset + 1
             n == wsOffset + toread
  <2>2. m \in Int /\ n \in Int /\ (IF m <= n THEN n - m + 1 ELSE 0) = toread
    BY <1>4, <1>10
  <2>3. part = SubSeq(buf, m, n) /\ \A i \in m..n : buf[i] \in 0..N
    BY <2>1
  <2> HIDE DEF m, n, part
  <2>4. part \in Seq(0..N) /\ Len(part) = IF m <= n THEN n - m + 1 ELSE 0
    BY <2>2, <2>3, SubSeqProperties
  <2> QED BY <2>2, <2>4
<1>12. got' \in Seq(0..N) /\ Len(got') = Len(got) + toread
  <2>1. got' = got \o part
    BY <1>1
  <2> HIDE DEF part
  <2> QED BY <1>4, <1>11, <2>1, ConcatProperties
<1>13. rem' \in 0..Room /\ Len(got') + rem' <= Room /\ Len(got') <= Room
  BY <1>1, <1>4, <1>5, <1>8, <1>10, <1>12
<1>14. mReadBuffers' \in Seq(Seq(0..N))
  <2>1. Tail(mReadBuffers) \in Seq(Seq(0..N))
    BY <1>4, <1>5, HeadTailProperties
  <2> QED BY <1>1, <1>4, <2>1, Zenon
<1>15. wsOffset' \in Nat
  BY <1>1, <1>10
<1>16. WsControl' /\ WsWriteLists'
  <2>1. torn' \in BOOLEAN /\ wsPc' \in {"recv", "aborted", "copy"}
    BY <1>1
  <2> QED BY <1>1, <2>1 DEF WsControl, WsWriteLists
<1>17. WsReadLists'
  BY <1>1, <1>2, <1>12, <1>13, <1>14, <1>15 DEF WsReadLists, N
<1>18. wsPc' = "aborted" => torn'
  <2> SUFFICES ASSUME wsPc' = "aborted", ~torn' PROVE FALSE
    OBVIOUS
  <2>1. ~whole /\ rem' # 0 /\ wsOffset = 0
    BY <1>1
  <2>2. toread # Len(buf) /\ left = Len(buf)
    BY <1>4, <1>8, <1>9, <2>1
  <2>3. toread = rem
    BY <1>10, <2>2
  <2>4. rem' = 0
    BY <1>1, <1>4, <2>3
  <2> QED BY <2>1, <2>4
<1>19. Phases'
  <2>1. wsPc' \in {"recv", "aborted", "copy"}
    BY <1>1
  <2>2. mTcp' /\ mUpgraded' /\ mTcp' = mCtx' /\ (mTcp' <=> ending' = "none")
    BY <1>1, <1>5 DEF Phases
  <2> QED BY <1>18, <2>1, <2>2 DEF Phases
<1>20. Reads'
  <2>1. wsPc' = "copy" => mReadBuffers' # <<>>
    BY <1>1
  <2>2. mReadBuffers' = <<>> => wsOffset' = 0
    BY <1>1, <1>5
  <2>3. mReadBuffers' # <<>> => wsOffset' <= Len(mReadBuffers'[1])
    <3> SUFFICES ASSUME mReadBuffers' # <<>> PROVE wsOffset' <= Len(mReadBuffers'[1])
      OBVIOUS
    <3>1. CASE whole
      <4>1. 1 \in 1..Len(mReadBuffers')
        <5>1. Len(mReadBuffers') \in Nat /\ Len(mReadBuffers') # 0
          BY <1>14, LenProperties
        <5> QED BY <5>1
      <4>2. mReadBuffers'[1] \in Seq(0..N)
        BY <1>14, <4>1, ElementOfSeq
      <4>3. Len(mReadBuffers'[1]) \in Nat
        BY <4>2, LengthIsNat
      <4> QED BY <1>1, <3>1, <4>3
    <3>2. CASE ~whole
      <4>1. wsOffset' = toread /\ mReadBuffers'[1] = buf
        BY <1>1, <1>7, <3>2
      <4> QED BY <1>10, <4>1
    <3> QED BY <3>1, <3>2
  <2>4. mTcp' /\ mUpgraded'
    BY <1>1, <1>5
  <2> QED BY <1>13, <2>1, <2>2, <2>3, <2>4 DEF Reads
<1>21. ASSUME ~merged', ~torn'
       PROVE  /\ InHand(taken, got')
              /\ Chain(mReadBuffers', wsOffset', After(taken, got'), arrived)
  <2>1. ~merged /\ ~torn /\ wsOffset = 0
    BY <1>1, <1>21
  <2>2. InHand(taken, got) /\ Chain(mReadBuffers, 0, After(taken, got), arrived)
    BY <1>5, <2>1 DEF WsOrder
  <2>3. After(taken, got) \in Nat
    <3>1. Len(taken) \in Nat
      BY <1>4, LengthIsNat
    <3> QED BY <1>8, <3>1 DEF After, HeaderLen
  <2>4. /\ Chain(mReadBuffers, toread, After(taken, got) + toread, arrived)
        /\ \A i \in 1..Len(buf) : buf[i] = After(taken, got) + i - 1
    <3>1. /\ Chain(mReadBuffers, toread, After(taken, got) + toread, arrived)
          /\ \A i \in 1..Len(mReadBuffers[1]) : mReadBuffers[1][i] = After(taken, got) + i - 1
      <4> HIDE DEF WsInv
      <4>1. toread \in Nat /\ arrived \in Nat /\ mReadBuffers # <<>>
        BY <1>4, <1>5, <1>10
      <4> QED BY <1>3, <1>4, <2>2, <2>3, <4>1, ChainPart
    <3> QED BY <1>7, <3>1
  <2>5. Chain(Tail(mReadBuffers), 0, After(taken, got) + Len(buf), arrived)
    BY <1>3, <1>4, <1>5, <1>7, <2>2, <2>3, ChainTail
  <2>6. got' = got \o SubSeq(buf, 1, toread)
    <3>1. wsOffset + 1 = 1 /\ wsOffset + toread = toread
      BY <1>10, <2>1
    <3> QED BY <1>1, <3>1
  <2>7. toread \in 0..Len(buf)
    BY <1>8, <1>10
  <2>8. InHand(taken, got') /\ After(taken, got') = After(taken, got) + toread
    BY <1>3, <1>4, <1>7, <2>2, <2>4, <2>6, <2>7, HandRead
  <2>9. Chain(mReadBuffers', wsOffset', After(taken, got) + toread, arrived)
    <3>1. CASE whole
      BY <1>1, <2>5, <3>1
    <3>2. CASE ~whole
      BY <1>1, <2>4, <3>2
    <3> QED BY <3>1, <3>2
  <2> QED BY <2>8, <2>9
<1>22. WsOrder'
  <2>1. (mUpgraded /\ ~merged /\ ~torn)' => Increasing(wsTold)' /\ (Range(wsTold) = Messages(frames, taken))'
    <3>1. (mUpgraded /\ ~merged /\ ~torn)' => mUpgraded /\ ~merged /\ ~torn
      BY <1>1
    <3>2. Increasing(wsTold)' = Increasing(wsTold) /\ Range(wsTold)' = Range(wsTold)
          /\ Messages(frames, taken)' = Messages(frames, taken)
      BY <1>1
    <3> QED BY <3>1, <3>2 DEF WsOrder
  <2>2. (mUpgraded /\ ~merged /\ ~torn)' =>
            InHand(taken, got)' /\ Chain(mReadBuffers, wsOffset, After(taken, got), arrived)'
    <3>1. taken' = taken /\ arrived' = arrived
      BY <1>1
    <3> QED BY <1>21, <3>1
  <2>3. ~(mTcp /\ ~mUpgraded)'
    BY <1>1, <1>5
  <2> QED BY <2>1, <2>2, <2>3 DEF WsOrder
<1>23. WsWrites'
  BY <1>1 DEF WsWrites, Increasing, Units
<1> QED BY <1>16, <1>17, <1>19, <1>20, <1>22, <1>23

\* The first unit that wslay has is parsed, as long as no buffer has been torn.
LEMMA Parsed ==
    ASSUME WsInv, wsPc = "recv", got # <<>>, Parses, got' = Tail(got),
           UNCHANGED <<frames, arrived, rem, mReadBuffers, wsOffset, merged, torn, mUpgraded, mTcp>>
    PROVE  /\ mTcp /\ mUpgraded /\ Head(got) \in 0..Total
           /\ got' \in Seq(0..Total) /\ Len(got') <= Room /\ taken' \in Seq(0..Total)
           /\ ~merged /\ ~torn =>
                 /\ taken' = Append(taken, Head(got)) /\ Head(got) = HeaderLen + Len(taken) + 1
                 /\ InHand(taken', got')
                 /\ Chain(mReadBuffers', wsOffset', After(taken', got'), arrived')
<1> USE DEF WsInv
<1> DEFINE N == Total
<1>1. N \in Nat
  BY WsLengths DEF WsReadLists, Total
<1>2. got \in Seq(0..N) /\ taken \in Seq(0..N) /\ Len(got) <= Room /\ Room \in Nat
  BY WebSocketClientAssumption DEF WsReadLists
<1>3. mTcp /\ mUpgraded
  BY DEF Phases
<1>4. taken' = IF torn THEN taken ELSE Append(taken, Head(got))
  BY DEF Parses
<1> HIDE DEF N
<1>5. Head(got) \in 0..N /\ got' \in Seq(0..N) /\ Len(got') = Len(got) - 1
  BY <1>2, HeadTailProperties
<1>6. Len(got') <= Room
  <2>1. Len(got) \in Nat
    BY <1>2, LengthIsNat
  <2> QED BY <1>2, <1>5, <2>1
<1>7. taken' \in Seq(0..N)
  <2>1. Append(taken, Head(got)) \in Seq(0..N)
    BY <1>2, <1>5, AppendTo
  <2> QED BY <1>2, <1>4, <2>1, Zenon
<1>8. ASSUME ~merged, ~torn
      PROVE  /\ taken' = Append(taken, Head(got)) /\ Head(got) = HeaderLen + Len(taken) + 1
             /\ InHand(taken', got')
             /\ Chain(mReadBuffers', wsOffset', After(taken', got'), arrived')
  <2>1. InHand(taken, got) /\ Chain(mReadBuffers, wsOffset, After(taken, got), arrived)
    BY <1>3, <1>8 DEF WsOrder
  <2>2. taken' = Append(taken, Head(got)) /\ got' = Tail(got)
    BY <1>4, <1>8
  <2>3. /\ Head(got) = HeaderLen + Len(taken) + 1
        /\ InHand(Append(taken, Head(got)), Tail(got))
        /\ After(Append(taken, Head(got)), Tail(got)) = After(taken, got)
    BY <1>1, <1>2, <2>1, HandParsed
  <2>4. InHand(taken', got') /\ After(taken', got') = After(taken, got)
    BY <2>2, <2>3
  <2> QED BY <2>1, <2>2, <2>3, <2>4
<1> QED BY <1>3, <1>5, <1>6, <1>7, <1>8 DEF N

\* The kind of the unit that follows those that have been parsed.
LEMMA KindOfNext ==
    ASSUME frames \in Frames, NEW h \in 0..Total, NEW n \in Nat,
           h = HeaderLen + n + 1
    PROVE  Kind(h) = frames[h - HeaderLen] /\ Kind(h) \in {"message", "close"}
<1>1. frames \in Seq({"message", "close"}) /\ Len(frames) \in Nat
  BY WebSocketClientAssumption
<1>2. h # Garbage
  BY DEF Garbage, HeaderLen
<1>3. Kind(h) = frames[h - HeaderLen]
  BY <1>2 DEF Kind
<1>4. h - HeaderLen \in 1..Len(frames)
  BY <1>1 DEF HeaderLen, Total
<1> QED BY <1>1, <1>3, <1>4, ElementOfSeq

LEMMA MessageStep ==
    ASSUME WsInv, Message
    PROVE  WsInv'
<1> USE DEF WsInv
<1> DEFINE N == Total
           h == Head(got)
<1>1. /\ wsPc = "recv" /\ got # <<>> /\ Parses /\ got' = Tail(got) /\ wsPc' = "message"
      /\ Kind(h) \in {"message", "garbage"}
      /\ wsTold' = (IF torn THEN wsTold ELSE Append(wsTold, h))
      /\ UNCHANGED <<frames, accept, right, reading, closing, arrived, mReadBuffers, wsOffset,
                     rem, merged, torn, mWriteBuffers, out, wrote, mTcp, mCtx, mUpgraded, ending>>
  BY DEF Message, serverVars, readVars, writeVars, connVars
<1>2. /\ mTcp /\ mUpgraded /\ h \in 0..N
      /\ got' \in Seq(0..N) /\ Len(got') <= Room /\ taken' \in Seq(0..N)
      /\ ~merged /\ ~torn =>
            /\ taken' = Append(taken, h) /\ h = HeaderLen + Len(taken) + 1
            /\ InHand(taken', got')
            /\ Chain(mReadBuffers', wsOffset', After(taken', got'), arrived')
  BY <1>1, Parsed
<1>3. N' = N /\ N \in Nat
  BY <1>1, WsLengths DEF WsReadLists, Total
<1>4. taken \in Seq(0..N) /\ wsTold \in Seq(0..N) /\ frames \in Frames
  BY DEF WsReadLists
<1>5. wsTold' \in Seq(0..N)
  <2> HIDE DEF h, N
  <2>1. Append(wsTold, h) \in Seq(0..N)
    BY <1>2, <1>4, AppendTo
  <2> QED BY <1>1, <1>4, <2>1, Zenon
<1>6. WsControl' /\ WsWriteLists'
  BY <1>1 DEF WsControl, WsWriteLists
<1>7. WsReadLists'
  BY <1>1, <1>2, <1>3, <1>5 DEF WsReadLists
<1>8. Phases'
  BY <1>1, <1>2 DEF Phases
<1>9. Reads'
  BY <1>1, <1>2 DEF Reads
<1>10. ASSUME ~merged, ~torn
       PROVE  Increasing(wsTold') /\ Range(wsTold') = Messages(frames, taken')
  <2>1. Len(taken) \in Nat
    BY <1>4, LengthIsNat
  <2>2. taken' = Append(taken, h) /\ h = HeaderLen + Len(taken) + 1
    BY <1>2, <1>10
  <2>3. frames[h - HeaderLen] = "message"
    BY <1>1, <1>2, <1>4, <2>1, <2>2, KindOfNext
  <2>4. /\ \A i \in 1..Len(taken) : taken[i] = HeaderLen + i
        /\ Increasing(wsTold) /\ Range(wsTold) = Messages(frames, taken)
    BY <1>2, <1>10 DEF WsOrder, InHand
  <2> HIDE DEF h, N
  <2>5. Increasing(Append(wsTold, h)) /\ Range(Append(wsTold, h)) = Messages(frames, Append(taken, h))
    BY <1>2, <1>3, <1>4, <2>2, <2>3, <2>4, MessagesParsed
  <2> QED BY <1>1, <1>10, <2>2, <2>5
<1>11. WsOrder'
  <2>1. (mUpgraded /\ ~merged /\ ~torn)' => Increasing(wsTold)' /\ (Range(wsTold) = Messages(frames, taken))'
    BY <1>1, <1>10
  <2>2. (mUpgraded /\ ~merged /\ ~torn)' =>
            InHand(taken, got)' /\ Chain(mReadBuffers, wsOffset, After(taken, got), arrived)'
    BY <1>1, <1>2
  <2>3. ~(mTcp /\ ~mUpgraded)'
    BY <1>1, <1>2
  <2> QED BY <2>1, <2>2, <2>3 DEF WsOrder
<1>12. WsWrites'
  BY <1>1 DEF WsWrites, Increasing, Units
<1> QED BY <1>6, <1>7, <1>8, <1>9, <1>11, <1>12

LEMMA ReadingEndsStep ==
    ASSUME WsInv, ReadingEnds
    PROVE  WsInv'
<1> USE DEF WsInv
<1> DEFINE N == Total
           h == Head(got)
<1>1. /\ wsPc = "recv" /\ got # <<>> /\ Parses /\ got' = Tail(got)
      /\ Kind(h) \in {"close", "garbage"} /\ reading' = FALSE /\ closing' = TRUE
      /\ UNCHANGED <<wsPc, frames, accept, right, arrived, mReadBuffers, wsOffset, rem, merged,
                     torn, mWriteBuffers, out, wrote, mTcp, mCtx, mUpgraded, ending, wsTold>>
  BY DEF ReadingEnds, serverVars, readVars, writeVars, connVars
<1>2. /\ mTcp /\ mUpgraded /\ h \in 0..N
      /\ got' \in Seq(0..N) /\ Len(got') <= Room /\ taken' \in Seq(0..N)
      /\ ~merged /\ ~torn =>
            /\ taken' = Append(taken, h) /\ h = HeaderLen + Len(taken) + 1
            /\ InHand(taken', got')
            /\ Chain(mReadBuffers', wsOffset', After(taken', got'), arrived')
  BY <1>1, Parsed
<1>3. N' = N /\ N \in Nat
  BY <1>1, WsLengths DEF WsReadLists, Total
<1>4. taken \in Seq(0..N) /\ wsTold \in Seq(0..N) /\ frames \in Frames
  BY DEF WsReadLists
<1>5. WsControl' /\ WsWriteLists'
  BY <1>1 DEF WsControl, WsWriteLists
<1>6. WsReadLists'
  BY <1>1, <1>2, <1>3 DEF WsReadLists
<1>7. Phases'
  BY <1>1, <1>2 DEF Phases
<1>8. Reads'
  BY <1>1, <1>2 DEF Reads
<1>9. ASSUME ~merged, ~torn
      PROVE  Increasing(wsTold) /\ Range(wsTold) = Messages(frames, taken')
  <2>1. Len(taken) \in Nat
    BY <1>4, LengthIsNat
  <2>2. taken' = Append(taken, h) /\ h = HeaderLen + Len(taken) + 1
    BY <1>2, <1>9
  <2>3. frames[h - HeaderLen] # "message"
    BY <1>1, <1>2, <1>4, <2>1, <2>2, KindOfNext
  <2>4. /\ \A i \in 1..Len(taken) : taken[i] = HeaderLen + i
        /\ Increasing(wsTold) /\ Range(wsTold) = Messages(frames, taken)
    BY <1>2, <1>9 DEF WsOrder, InHand
  <2> HIDE DEF h, N
  <2>5. Range(wsTold) = Messages(frames, Append(taken, h))
    BY <1>2, <1>3, <1>4, <2>2, <2>3, <2>4, MessagesParsed
  <2> QED BY <2>2, <2>4, <2>5
<1>10. WsOrder'
  <2>1. (mUpgraded /\ ~merged /\ ~torn)' => Increasing(wsTold)' /\ (Range(wsTold) = Messages(frames, taken))'
    <3>1. wsTold' = wsTold /\ frames' = frames
      BY <1>1
    <3> QED BY <1>1, <1>9, <3>1
  <2>2. (mUpgraded /\ ~merged /\ ~torn)' =>
            InHand(taken, got)' /\ Chain(mReadBuffers, wsOffset, After(taken, got), arrived)'
    BY <1>1, <1>2
  <2>3. ~(mTcp /\ ~mUpgraded)'
    BY <1>1, <1>2
  <2> QED BY <2>1, <2>2, <2>3 DEF WsOrder
<1>11. WsWrites'
  BY <1>1, <1>2 DEF WsWrites, Increasing, Units
<1> QED BY <1>5, <1>6, <1>7, <1>8, <1>10, <1>11

LEMMA WsKept ==
    ASSUME WsInv, UNCHANGED wsVars
    PROVE  WsInv'
<1> USE DEF WsInv
<1>1. UNCHANGED <<wsPc, frames, accept, right, got, reading, closing, taken, arrived, mReadBuffers,
                  wsOffset, rem, merged, torn, mWriteBuffers, out, wrote, mTcp, mCtx, mUpgraded,
                  ending, wsTold>>
  BY DEF wsVars, serverVars, wslayVars, readVars, writeVars, connVars
<1>2. WsControl' /\ WsWriteLists'
  BY <1>1 DEF WsControl, WsWriteLists
<1>3. WsReadLists'
  BY <1>1, WsReadKept
<1>4. Phases' /\ Reads'
  BY <1>1 DEF Phases, Reads
<1>5. WsOrder'
  BY <1>1, WsOrderKept
<1>6. WsWrites'
  BY <1>1 DEF WsWrites, Increasing, Units
<1> QED BY <1>2, <1>3, <1>4, <1>5, <1>6

LEMMA WsStarts ==
    ASSUME WsInit
    PROVE  WsInv
<1>1. /\ frames \in Frames /\ arrived = 0 /\ wsPc = "idle" /\ mTcp = TRUE /\ mCtx = TRUE
      /\ mUpgraded = FALSE /\ ending = "none" /\ mReadBuffers = <<>> /\ wsOffset = 0 /\ rem = 0
      /\ mWriteBuffers = <<>> /\ out = <<>> /\ wrote = 0 /\ got = <<>> /\ reading = TRUE
      /\ closing = FALSE /\ taken = <<>> /\ wsTold = <<>> /\ merged = FALSE /\ torn = FALSE
  BY DEF WsInit
<1>2. Total \in Nat /\ Room \in Nat /\ MaxMessages \in Nat
  BY <1>1, WsLengths, WebSocketClientAssumption DEF Total
<1>3. \A T : <<>> \in Seq(T) /\ Len(<<>>) = 0
  BY EmptySeq
<1>4. WsControl
  BY <1>1 DEF WsControl
<1>5. WsReadLists
  BY <1>1, <1>2, <1>3 DEF WsReadLists
<1>6. WsWriteLists
  BY <1>1, <1>2, <1>3 DEF WsWriteLists
<1>7. Phases /\ Reads
  BY <1>1, <1>3 DEF Phases, Reads
<1>8. WsOrder
  BY <1>1, <1>3 DEF WsOrder
<1>9. Units(1, 0) = <<>>
  <2>1. Len(Units(1, 0)) = 0 - 1 + 1 /\ Units(1, 0) \in Seq(1..0)
    BY UnitsAre
  <2>2. Len(Units(1, 0)) = 0
    BY <2>1
  <2> QED BY <2>1, <2>2, EmptySeq
<1>10. WsWrites
  BY <1>1, <1>3, <1>9 DEF WsWrites, Increasing
<1> QED BY <1>4, <1>5, <1>6, <1>7, <1>8, <1>10 DEF WsInv

\* The invariant of the WebSocket client is preserved by its callbacks, by wslay's
\* and by the program's calls.
THEOREM WsInvariance == WsSpec => []WsInv
<1>1. WsInit => WsInv
  BY WsStarts
<1>2. WsInv /\ [WsNext]_wsVars => WsInv'
  <2> SUFFICES ASSUME WsInv, [WsNext]_wsVars PROVE WsInv'
    OBVIOUS
  <2>1. CASE WsWrite
    BY <2>1, WsWriteStep
  <2>2. CASE Close
    BY <2>2, CloseStep
  <2>3. CASE SocketEnds
    BY <2>3, SocketEndsStep
  <2>4. ASSUME NEW n \in 1..MaxChunk, Data(n) PROVE WsInv'
    BY <2>4, WsDataStep
  <2>5. CASE UpgradeWaits
    BY <2>5, UpgradeWaitsStep
  <2>6. CASE UpgradeDone
    BY <2>6, UpgradeDoneStep
  <2>7. CASE UpgradeRefused
    BY <2>7, UpgradeRefusedStep
  <2>8. ASSUME NEW room \in 1..Room, RecvCallback(room) PROVE WsInv'
    BY <2>8, RecvCallbackStep
  <2>9. CASE CopyPart
    BY <2>9, CopyPartStep
  <2>10. CASE Message
    BY <2>10, MessageStep
  <2>11. CASE ReadingEnds
    BY <2>11, ReadingEndsStep
  <2>12. CASE MessageReturns \/ RecvEnds \/ EndedReturns
    BY <2>12, WsReturnsStep
  <2>13. CASE UNCHANGED wsVars
    BY <2>13, WsKept
  <2> QED BY <2>1, <2>2, <2>3, <2>4, <2>5, <2>6, <2>7, <2>8, <2>9, <2>10, <2>11, <2>12, <2>13
          DEF WsNext, Step
<1> QED BY <1>1, <1>2, PTL DEF WsSpec

\* Whatever the program does in its handlers and however the socket ends, the
\* context lives as long as the socket: close() may assert it, recvCallback's
\* assertion fails for a torn buffer only, and wslay goes on with a freed context
\* after close() in a handler of onMessage or a write that fails only.
THEOREM ContextLives == WsSpec => []ContextSafe
<1>1. WsInv => ContextSafe
  <2> SUFFICES ASSUME WsInv PROVE ContextSafe
    OBVIOUS
  <2> USE DEF WsInv
  <2>1. \A i \in DOMAIN mReadBuffers : mReadBuffers[i] \in Seq(0..Total)
    <3>1. mReadBuffers \in Seq(Seq(0..Total))
      BY DEF WsReadLists
    <3> QED BY <3>1, ElementOfSeq, LenProperties
  <2>2. {mTcp, mCtx, mUpgraded, reading, closing, merged, torn} \subseteq BOOLEAN
    BY DEF WsControl
  <2>3. WsTypeOK
    BY <2>1, <2>2 DEF WsControl, WsReadLists, WsWriteLists, WsTypeOK
  <2> QED BY <2>3 DEF Phases, ContextSafe
<1>2. WsSpec => []WsInv
  BY WsInvariance
<1> QED BY <1>1, <1>2, PTL

\* What write() was given leaves in this order: it waits for the upgrade, and
\* nothing is lost before the connection ends or a close frame is queued.
THEOREM WritesAreInOrder == WsSpec => []WritesInOrder
<1>1. WsInv => WritesInOrder
  <2> SUFFICES ASSUME WsInv PROVE WritesInOrder
    OBVIOUS
  <2> USE DEF WsInv
  <2>1. out \in Seq(1..MaxMessages) /\ mWriteBuffers \in Seq(1..MaxMessages)
    BY DEF WsWriteLists
  <2>2. mTcp /\ ~closing => out \o mWriteBuffers = Units(1, wrote)
    <3>1. out \o <<>> = out /\ <<>> \o mWriteBuffers = mWriteBuffers
      BY <2>1, ConcatEmptySeq
    <3>2. mUpgraded \in BOOLEAN
      BY DEF WsControl
    <3> QED BY <3>1, <3>2 DEF WsWrites
  <2>3. DOMAIN out = 1..Len(out)
    BY <2>1, LenProperties
  <2>4. \A i, j \in DOMAIN out : i < j => out[i] < out[j]
    BY <2>3 DEF WsWrites, Increasing
  <2> QED BY <2>2, <2>4 DEF WsWrites, WritesInOrder
<1>2. WsSpec => []WsInv
  BY WsInvariance
<1> QED BY <1>1, <1>2, PTL

\* What the chain says of one buffer, as BuffersFollow says it.
OneFollows(bufs, b, off, next, last) ==
    \E from \in 1..last, to \in 1..last :
       /\ bufs[b] = Units(from, to) /\ from <= to
       /\ b = 1 => from + off = next
       /\ b > 1 => from = bufs[b - 1][1] + Len(bufs[b - 1])
       /\ b = Len(bufs) => to = last

LEMMA ChainIsUnits ==
    ASSUME NEW N \in Nat, NEW bufs \in Seq(Seq(0..N)), NEW off \in Nat, NEW next \in Nat,
           NEW last \in Nat, Chain(bufs, off, next, last), NEW b \in 1..Len(bufs)
    PROVE  OneFollows(bufs, b, off, next, last)
<1> DEFINE s == bufs[b]
           from == s[1]
           to == from + Len(s) - 1
<1>1. s \in Seq(0..N)
  BY ElementOfSeq
<1>2. /\ 1 <= from /\ 1 <= Len(s) /\ to <= last
      /\ \A i \in 1..Len(s) : s[i] = from + i - 1
      /\ b = 1 => from + off = next
      /\ b > 1 => from = bufs[b - 1][1] + Len(bufs[b - 1])
      /\ b = Len(bufs) => to = last
  BY DEF Chain
<1> HIDE DEF s
<1>3. Len(s) \in Nat /\ from \in Nat
  <2>1. Len(s) \in Nat
    BY <1>1, LengthIsNat
  <2>2. 1 \in 1..Len(s)
    BY <1>2, <2>1
  <2>3. from \in 0..N
    BY <1>1, <2>2, ElementOfSeq
  <2> QED BY <2>1, <2>3
<1> HIDE DEF from
<1>4. /\ to \in Nat /\ from <= to /\ from \in 1..last /\ to \in 1..last
      /\ from <= to + 1 /\ Len(s) = to - from + 1
  BY <1>2, <1>3
<1> HIDE DEF to
<1>5. s = Units(from, to)
  BY <1>1, <1>2, <1>3, <1>4, UnitsEqual
<1>6. /\ s = Units(from, to) /\ from <= to
      /\ b = 1 => from + off = next
      /\ b > 1 => from = bufs[b - 1][1] + Len(bufs[b - 1])
      /\ b = Len(bufs) => to = last
  BY <1>2, <1>4, <1>5
<1> QED BY <1>4, <1>6 DEF OneFollows, s

\* However the socket's data is cut into buffers and wslay's reads into parts of
\* them, the units are parsed once and in order and onMessage is told of the
\* messages, but for an answer in several buffers and for a torn buffer.
THEOREM MessagesAreInOrder == WsSpec => []MessagesInOrder
<1>1. WsInv => MessagesInOrder
  <2> SUFFICES ASSUME WsInv, mUpgraded, ~merged, ~torn
               PROVE  /\ taken \o got = Units(HeaderLen + 1, NextUnit - 1)
                      /\ BuffersFollow
                      /\ \A i, j \in DOMAIN wsTold : i < j => wsTold[i] < wsTold[j]
                      /\ Range(wsTold) = {unit \in Range(taken) : IsMessage(unit)}
    BY DEF MessagesInOrder
  <2> DEFINE N == Total
             next == NextUnit
  <2>1. /\ InHand(taken, got) /\ Chain(mReadBuffers, wsOffset, After(taken, got), arrived)
        /\ Increasing(wsTold) /\ Range(wsTold) = Messages(frames, taken)
    BY DEF WsInv, WsOrder
  <2>2. N \in Nat
    BY WsLengths DEF WsInv, WsReadLists, Total
  <2>3. /\ mReadBuffers \in Seq(Seq(0..N)) /\ wsOffset \in Nat /\ arrived \in Nat
        /\ taken \in Seq(0..N) /\ got \in Seq(0..N) /\ wsTold \in Seq(0..N)
    BY <2>2 DEF WsInv, WsReadLists
  <2>4. After(taken, got) = next
    BY DEF After, NextUnit
  <2> HIDE DEF N
  <2>5. Len(taken) \in Nat /\ Len(got) \in Nat
    BY <2>3, LengthIsNat
  <2>6. next \in Nat /\ next = 3 + Len(taken) + Len(got)
    BY <2>5 DEF NextUnit, HeaderLen
  <2> HIDE DEF next
  <2>7. taken \o got = Units(HeaderLen + 1, next - 1)
    <3> DEFINE s == taken \o got
    <3>1. /\ s \in Seq(0..N) /\ Len(s) = Len(taken) + Len(got)
          /\ \A i \in 1..(Len(taken) + Len(got)) :
                s[i] = IF i <= Len(taken) THEN taken[i] ELSE got[i - Len(taken)]
      BY <2>3, ConcatProperties
    <3> HIDE DEF s
    <3>2. /\ \A i \in 1..Len(taken) : taken[i] = 2 + i
          /\ \A i \in 1..Len(got) : got[i] = 2 + Len(taken) + i
      BY <2>1 DEF InHand, HeaderLen
    <3>3. \A i \in 1..Len(s) : s[i] = 3 + i - 1
      <4> SUFFICES ASSUME NEW i \in 1..Len(s) PROVE s[i] = 3 + i - 1
        OBVIOUS
      <4>1. CASE i <= Len(taken)
        <5>1. i \in 1..Len(taken) /\ s[i] = taken[i]
          BY <2>5, <3>1, <4>1
        <5> QED BY <3>2, <5>1
      <4>2. CASE ~(i <= Len(taken))
        <5> DEFINE j == i - Len(taken)
        <5>1. j \in 1..Len(got) /\ i = Len(taken) + j
          BY <2>5, <3>1, <4>2
        <5>2. s[i] = got[j]
          BY <3>1, <4>2
        <5>3. got[j] = 2 + Len(taken) + j
          BY <3>2, <5>1
        <5> HIDE DEF j
        <5> QED BY <2>5, <5>1, <5>2, <5>3
      <4> QED BY <4>1, <4>2
    <3>4. 3 \in Nat /\ next - 1 \in Nat /\ 3 <= (next - 1) + 1 /\ Len(s) = (next - 1) - 3 + 1
      BY <2>5, <2>6, <3>1
    <3>5. s = Units(3, next - 1)
      BY <3>1, <3>3, <3>4, UnitsEqual
    <3> QED BY <3>5 DEF s, HeaderLen
  <2>8. BuffersFollow
    <3>1. mReadBuffers = <<>> => arrived = next - 1
      BY <2>1, <2>4 DEF Chain
    <3>2. \A b \in 1..Len(mReadBuffers) :
             OneFollows(mReadBuffers, b, wsOffset, next, arrived)
      <4>1. Chain(mReadBuffers, wsOffset, next, arrived) /\ next \in Nat
        BY <2>1, <2>4, <2>6
      <4> HIDE DEF WsInv
      <4> QED BY <2>2, <2>3, <4>1, ChainIsUnits
    <3>3. DOMAIN mReadBuffers = 1..Len(mReadBuffers)
      BY <2>3, LenProperties
    <3> QED BY <3>1, <3>2, <3>3 DEF BuffersFollow, OneFollows, next
  <2>9. \A i, j \in DOMAIN wsTold : i < j => wsTold[i] < wsTold[j]
    <3>1. DOMAIN wsTold = 1..Len(wsTold)
      BY <2>3, LenProperties
    <3> QED BY <2>1, <3>1 DEF Increasing
  <2>10. Range(wsTold) = {unit \in Range(taken) : IsMessage(unit)}
    <3>1. \A unit : IsMessage(unit)
                    <=> unit # Garbage /\ frames[unit - HeaderLen] = "message"
      BY DEF IsMessage, Kind
    <3>2. Range(wsTold) = Range(wsTold) /\ Range(taken) = Range(taken)
      BY DEF Range
    <3> QED BY <2>1, <3>1, <3>2 DEF Messages
  <2> QED BY <2>7, <2>8, <2>9, <2>10 DEF next
<1>2. WsSpec => []WsInv
  BY WsInvariance
<1> QED BY <1>1, <1>2, PTL
=============================================================================
