--------------------------- MODULE WebSocketClient ---------------------------
(***************************************************************************)
(* net::WebSocketClient (WebSocketClient.h, WebSocketClient.cpp): a client *)
(* over a TcpSocket.  It collects the answer to its upgrade request, lets  *)
(* wslay parse what follows, tells the program of messages, and sends the  *)
(* program's messages through wslay; the program writes and closes inside  *)
(* its handlers too.                                                       *)
(*                                                                         *)
(* wslay and the server are external, and the socket does what TcpSocket   *)
(* promises: data in order, then one Closed or Error, which a write may    *)
(* bring about too.  wslay is assumed to read as much as it has room for,  *)
(* to parse what it has read before it reads more, and to refuse messages  *)
(* once a close frame is queued.                                           *)
(*                                                                         *)
(* Abstractions: the server sends units, the halves of its answer and then *)
(* one per frame, each whole; the three write() overloads are one.  A      *)
(* failed assertion and a use of the freed context end the behaviour.      *)
(* After mTcp.reset() inside a callback of the socket the socket runs on   *)
(* with what its destructor left of it: no descriptor, hence it returns.   *)
(*                                                                         *)
(* Names that HttpClient has too are prefixed, so that one module can      *)
(* prove theorems about both clients.                                      *)
(***************************************************************************)
EXTENDS Integers, SequencesExt, FiniteSetsExt

CONSTANTS
    Frames,         \* the kinds of frames a server may send, in order
    MaxChunk,       \* bound: units of a buffer the socket reads
    Room,           \* units wslay has room for at most
    MaxMessages     \* bound: messages the program writes

ASSUME WebSocketClientAssumption ==
    /\ \A f \in Frames : f \in Seq({"message", "close"})
    /\ MaxChunk \in Nat \ {0} /\ Room \in Nat \ {0} /\ MaxMessages \in Nat

VARIABLES
    frames,         \* what the server sends after its answer
    accept,         \* the half of the answer that has the key, or 0 for none
    right,          \* the key is the expected one
    arrived,        \* units read from the socket so far
    wsPc,           \* where the loop's thread is
    mTcp, mCtx,     \* the pointers are set
    mUpgraded,
    mReadBuffers, mWriteBuffers,
    wsOffset,       \* mBufferOffset, a name that HttpClient has too
    rem,            \* recvCallback's local variable
    got,            \* wslay: units read and not parsed
    reading,        \* wslay_event_want_read
    closing,        \* wslay: a close frame has been queued
    taken,          \* history: units parsed
    wsTold,         \* history: messages told to the program
    out,            \* history: messages given to the socket
    wrote,          \* history: how many messages the program has written
    ending,         \* history: how the connection ended
    merged,         \* history: the answer came in more than one buffer
    torn            \* history: a buffer was read from its middle on

serverVars  == <<frames, accept, right>>
wslayVars   == <<got, reading, closing, taken>>
readVars    == <<arrived, mReadBuffers, wsOffset, rem, merged, torn>>
writeVars   == <<mWriteBuffers, out, wrote>>
connVars    == <<mTcp, mCtx, mUpgraded, ending>>
wsVars      == <<wsPc, serverVars, wslayVars, readVars, writeVars, connVars, wsTold>>

HeaderLen == 2
Garbage   == 0          \* bytes of a pooled buffer that nobody has written
Kind(unit) == IF unit = Garbage THEN "garbage" ELSE frames[unit - HeaderLen]
Units(from, to) == [i \in 1..(to - from + 1) |-> from + i - 1]
Total == HeaderLen + Len(frames)

WsTypeOK ==
    /\ wsPc \in {"idle", "upgrade", "recv", "copy", "message", "ended", "aborted", "undefined"}
    /\ {mTcp, mCtx, mUpgraded, reading, closing, merged, torn} \subseteq BOOLEAN
    /\ arrived \in 0..Total /\ rem \in 0..Room /\ wsOffset \in Nat
    /\ \A i \in DOMAIN mReadBuffers : mReadBuffers[i] \in Seq(0..Total)
    /\ got \in Seq(0..Total) /\ Len(got) <= Room
    /\ mWriteBuffers \in Seq(1..MaxMessages)
    /\ ending \in {"none", "complete", "error", "closed", "refused"}

\* The constructor, up to its request, which is the socket's to send.
WsInit ==
    /\ frames \in Frames /\ accept \in 0..HeaderLen /\ right \in BOOLEAN
    /\ arrived = 0 /\ wsPc = "idle"
    /\ mTcp = TRUE /\ mCtx = TRUE /\ mUpgraded = FALSE /\ ending = "none"
    /\ mReadBuffers = <<>> /\ wsOffset = 0 /\ rem = 0
    /\ mWriteBuffers = <<>> /\ out = <<>> /\ wrote = 0
    /\ got = <<>> /\ reading = TRUE /\ closing = FALSE
    /\ taken = <<>> /\ wsTold = <<>>
    /\ merged = FALSE /\ torn = FALSE

-----------------------------------------------------------------------------
(* Writing *)

\* write() with the messages to send: without an upgraded connection they wait.
\* wslay refuses them once a close frame is queued, of which nobody looks at
\* the result.
WritesAll(messages, upgraded) ==
    IF ~mTcp \/ ~mCtx \/ ~upgraded
    THEN mWriteBuffers' = messages /\ UNCHANGED out
    ELSE mWriteBuffers' = <<>> /\ out' = IF closing THEN out ELSE out \o messages

\* The socket fails under the message that wslay sends, and the handler of its
\* state frees the context wslay is using.
WriteFails(messages) ==
    /\ mTcp /\ mCtx
    /\ \E k \in DOMAIN messages :
          /\ out' = IF closing THEN out ELSE out \o SubSeq(messages, 1, k)
          /\ mWriteBuffers' = SubSeq(messages, k, Len(messages))
    /\ mTcp' = FALSE /\ mCtx' = FALSE /\ ending' = "error"
    /\ wsPc' = "undefined"

\* The program's code runs.
WsProgramRuns == wsPc \in {"idle", "message", "ended"}

WsWrite ==
    /\ WsProgramRuns
    /\ wrote < MaxMessages
    /\ wrote' = wrote + 1
    /\ LET messages == Append(mWriteBuffers, wrote')
       IN  \/ WritesAll(messages, mUpgraded) /\ UNCHANGED <<wsPc, mTcp, mCtx, ending>>
           \/ mUpgraded /\ WriteFails(messages)
    /\ UNCHANGED <<serverVars, wslayVars, readVars, mUpgraded, wsTold>>

-----------------------------------------------------------------------------
(* The connection *)

\* close(), also the destructor's; it asserts that there is a context.
Close ==
    /\ WsProgramRuns
    /\ mTcp
    /\ IF mCtx
       THEN /\ mTcp' = FALSE /\ mCtx' = FALSE /\ mUpgraded' = FALSE
            /\ ending' = "closed"
            /\ UNCHANGED wsPc
       ELSE wsPc' = "aborted" /\ UNCHANGED connVars
    /\ UNCHANGED <<serverVars, wslayVars, readVars, writeVars, wsTold>>

\* Mutated SocketEnds: the socket is let go of after the handlers.
SocketEndsLate ==
    /\ wsPc = "idle" /\ mTcp
    /\ mCtx' = FALSE
    /\ ending' \in {"complete", "error"}
    /\ wsPc' = "ended"
    /\ UNCHANGED <<serverVars, wslayVars, readVars, writeVars, mTcp, mUpgraded, wsTold>>

\* onStateChanged(Closed or Error): mComplete or mError is told.
SocketEnds ==
    /\ wsPc = "idle" /\ mTcp
    /\ mTcp' = FALSE /\ mCtx' = FALSE
    /\ ending' \in {"complete", "error"}
    /\ wsPc' = "ended"
    /\ UNCHANGED <<serverVars, wslayVars, readVars, writeVars, mUpgraded, wsTold>>

EndedReturns ==
    /\ wsPc = "ended"
    /\ wsPc' = "idle"
    /\ UNCHANGED <<serverVars, wslayVars, readVars, writeVars, connVars, wsTold>>

\* onData, up to the attempt to upgrade.
Data(n) ==
    /\ wsPc = "idle" /\ mTcp
    /\ arrived + n <= Total
    /\ mReadBuffers' = Append(mReadBuffers, Units(arrived + 1, arrived + n))
    /\ arrived' = arrived + n
    /\ wsPc' = IF mUpgraded THEN "recv" ELSE "upgrade"
    /\ UNCHANGED <<serverVars, wslayVars, wsOffset, rem, merged, torn, writeVars, connVars, wsTold>>

-----------------------------------------------------------------------------
(* The upgrade *)

\* The bytes of the buffers: which of them, and which byte of it.
BytesIn(bufs) == UNION {{b} \X DOMAIN bufs[b] : b \in DOMAIN bufs}

\* mergeReadBuffers: every buffer is copied to the beginning of the new one,
\* the size of which is the sum of theirs.
Merged(bufs) ==
    LET size    == Cardinality(BytesIn(bufs))
        reach(i) == {b \in DOMAIN bufs : Len(bufs[b]) >= i}
        unit(i) == IF reach(i) = {} THEN Garbage ELSE bufs[Max(reach(i))][i]
    IN  IF Len(bufs) < 2 THEN bufs ELSE <<[i \in 1..size |-> unit(i)]>>

\* The merged buffers, of which the first is looked at for the end of the answer.
Answer == Merged(mReadBuffers)[1]
Complete == Contains(Answer, HeaderLen)
HeaderSize == CHOOSE i \in DOMAIN Answer : Answer[i] = HeaderLen
AfterAnswer ==
    IF Len(Answer) = HeaderSize THEN <<>> ELSE <<SubSeq(Answer, HeaderSize + 1, Len(Answer))>>

\* The key is looked for in what precedes the end of the answer.
KeyFound == accept # 0 /\ accept \in Range(SubSeq(Answer, 1, HeaderSize))

\* attemptUpgrade: the answer is not complete.
UpgradeWaits ==
    /\ wsPc = "upgrade" /\ ~Complete
    /\ mReadBuffers' = Merged(mReadBuffers)
    /\ merged' = (merged \/ Len(mReadBuffers) > 1)
    /\ wsPc' = "idle"
    /\ UNCHANGED <<serverVars, wslayVars, arrived, wsOffset, rem, torn, writeVars, connVars, wsTold>>

\* Mutated UpgradeDone: what waits to be written keeps waiting.
UpgradeDoneQuietly ==
    /\ wsPc = "upgrade" /\ Complete
    /\ KeyFound /\ right
    /\ mReadBuffers' = AfterAnswer
    /\ merged' = (merged \/ Len(mReadBuffers) > 1)
    /\ mUpgraded' = TRUE
    /\ wsPc' = "recv"
    /\ UNCHANGED <<serverVars, wslayVars, arrived, wsOffset, rem, torn, writeVars, mTcp, mCtx,
                   ending, wsTold>>

\* The key is right: what follows is for wslay, and what waits is written.
UpgradeDone ==
    /\ wsPc = "upgrade" /\ Complete
    /\ KeyFound /\ right
    /\ mReadBuffers' = AfterAnswer
    /\ merged' = (merged \/ Len(mReadBuffers) > 1)
    /\ mUpgraded' = TRUE
    /\ \/ WritesAll(mWriteBuffers, TRUE) /\ wsPc' = "recv" /\ UNCHANGED <<mTcp, mCtx, ending>>
       \/ WriteFails(mWriteBuffers)
    /\ UNCHANGED <<serverVars, wslayVars, arrived, wsOffset, rem, torn, wrote, wsTold>>

\* No key or a wrong one: the connection is given up, which is only logged.
UpgradeRefused ==
    /\ wsPc = "upgrade" /\ Complete
    /\ ~(KeyFound /\ right)
    /\ mReadBuffers' = IF KeyFound THEN AfterAnswer ELSE <<Answer>>
    /\ merged' = (merged \/ Len(mReadBuffers) > 1)
    /\ mTcp' = FALSE /\ mCtx' = FALSE /\ ending' = "refused"
    /\ wsPc' = "idle"
    /\ UNCHANGED <<serverVars, wslayVars, arrived, wsOffset, rem, torn, writeVars, mUpgraded, wsTold>>

-----------------------------------------------------------------------------
(* Reading: wslay_event_recv and recvCallback *)

\* wslay asks for as much as it has room for.
RecvCallback(room) ==
    /\ wsPc = "recv" /\ reading /\ got = <<>>
    /\ mReadBuffers # <<>>
    /\ rem' = room
    /\ wsPc' = "copy"
    /\ UNCHANGED <<serverVars, wslayVars, arrived, mReadBuffers, wsOffset, merged, torn,
                   writeVars, connVars, wsTold>>

\* Mutated NextOffset: the offset is left alone when a buffer is not finished.
NextOffsetKept(toread) == wsOffset

\* What wsOffset becomes when a buffer is not finished: the number of bytes
\* of this read.
NextOffset(toread) == toread

\* One turn of the loop: a part of the front buffer.  When the part is not as
\* long as the buffer nothing more should be asked for: assert(!rem).
CopyPart ==
    LET buf    == Head(mReadBuffers)
        toread == IF rem < Len(buf) - wsOffset THEN rem ELSE Len(buf) - wsOffset
        whole  == toread = Len(buf)
    IN  /\ wsPc = "copy"
        /\ got' = got \o SubSeq(buf, wsOffset + 1, wsOffset + toread)
        /\ rem' = rem - toread
        /\ torn' = (torn \/ wsOffset # 0)
        /\ mReadBuffers' = IF whole THEN Tail(mReadBuffers) ELSE mReadBuffers
        /\ wsOffset' = IF whole THEN 0 ELSE NextOffset(toread)
        /\ wsPc' = IF ~whole THEN IF rem' = 0 THEN "recv" ELSE "aborted"
                 ELSE IF rem' = 0 \/ mReadBuffers' = <<>> THEN "recv" ELSE "copy"
        /\ UNCHANGED <<serverVars, reading, closing, taken, arrived, merged,
                       writeVars, connVars, wsTold>>

\* The history of what is parsed ends when a buffer is torn.
Parses == taken' = IF torn THEN taken ELSE Append(taken, Head(got))

\* A message: msgrcvCallback tells the program.  Garbage may look like one.
Message ==
    /\ wsPc = "recv" /\ reading /\ got # <<>>
    /\ Kind(Head(got)) \in {"message", "garbage"}
    /\ Parses /\ got' = Tail(got)
    /\ wsTold' = IF torn THEN wsTold ELSE Append(wsTold, Head(got))
    /\ wsPc' = "message"
    /\ UNCHANGED <<serverVars, reading, closing, readVars, writeVars, connVars>>

\* The server's close frame, and a protocol error in garbage: wslay reads no
\* more and queues its own close frame, which nobody sends until a write.
ReadingEnds ==
    /\ wsPc = "recv" /\ reading /\ got # <<>>
    /\ Kind(Head(got)) \in {"close", "garbage"}
    /\ Parses /\ got' = Tail(got)
    /\ reading' = FALSE /\ closing' = TRUE
    /\ UNCHANGED <<wsPc, serverVars, readVars, writeVars, connVars, wsTold>>

\* The handlers of onMessage return into wslay, which uses its context.
MessageReturns ==
    /\ wsPc = "message"
    /\ wsPc' = IF mCtx THEN "recv" ELSE "undefined"
    /\ UNCHANGED <<serverVars, wslayVars, readVars, writeVars, connVars, wsTold>>

\* Mutated RecvEnds: whether wslay wants more is not asked.
RecvEndsEmpty ==
    /\ wsPc = "recv"
    /\ got = <<>> /\ mReadBuffers = <<>>
    /\ wsPc' = "idle"
    /\ UNCHANGED <<serverVars, wslayVars, readVars, writeVars, connVars, wsTold>>

\* Everything has been read, or wslay does not want any more.
RecvEnds ==
    /\ wsPc = "recv"
    /\ ~reading \/ (got = <<>> /\ mReadBuffers = <<>>)
    /\ wsPc' = "idle"
    /\ UNCHANGED <<serverVars, wslayVars, readVars, writeVars, connVars, wsTold>>

-----------------------------------------------------------------------------
\* The thread's own steps, once a callback of the socket has begun.
Step ==
    \/ UpgradeWaits \/ UpgradeDone \/ UpgradeRefused
    \/ \E room \in 1..Room : RecvCallback(room)
    \/ CopyPart \/ Message \/ ReadingEnds \/ MessageReturns \/ RecvEnds \/ EndedReturns

WsNext == WsWrite \/ Close \/ SocketEnds \/ (\E n \in 1..MaxChunk : Data(n)) \/ Step

WsSpec == WsInit /\ [][WsNext]_wsVars

\* The loop's thread goes on.
WsLiveSpec == WsSpec /\ WF_wsVars(Step)

-----------------------------------------------------------------------------
(* Properties *)

\* What comes after the units that are parsed or in wslay.
NextUnit == HeaderLen + Len(taken) + Len(got) + 1

\* The buffers hold what the socket has delivered from that unit on: one buffer
\* goes on where the one before it ends.
BuffersFollow ==
    /\ mReadBuffers = <<>> => arrived = NextUnit - 1
    /\ \A b \in DOMAIN mReadBuffers :
          \E from \in 1..arrived, to \in 1..arrived :
             /\ mReadBuffers[b] = Units(from, to) /\ from <= to
             /\ b = 1 => from + wsOffset = NextUnit
             /\ b > 1 => from = mReadBuffers[b - 1][1] + Len(mReadBuffers[b - 1])
             /\ b = Len(mReadBuffers) => to = arrived
IsMessage(unit) == Kind(unit) = "message"

\* What the socket has delivered after the answer has been parsed, is in wslay
\* or waits in the buffers, each unit once and in order, and the program is
\* told of its messages.  The exceptions, from which on anything may be told:
\* an answer in more than one buffer, and a buffer that is read in a second
\* part, which leaves it in the list with the length of that part for an offset.
MessagesInOrder ==
    mUpgraded /\ ~merged /\ ~torn =>
        /\ taken \o got = Units(HeaderLen + 1, NextUnit - 1)
        /\ BuffersFollow
        /\ \A i, j \in DOMAIN wsTold : i < j => wsTold[i] < wsTold[j]
        /\ Range(wsTold) = {unit \in Range(taken) : IsMessage(unit)}

\* The context lives as long as the socket does, so close() may assert it in
\* every handler, and recvCallback's assertion fails for a torn buffer only;
\* wslay is left with a freed context only by close() in a handler of onMessage
\* and by a socket that fails under a write.  What ends otherwise is told.
ContextSafe ==
    /\ WsTypeOK
    /\ mTcp => mCtx
    /\ mTcp <=> ending = "none"
    /\ wsPc = "aborted" => torn
    /\ wsPc = "undefined" => ending \in {"closed", "error"}

\* Messages go to the socket in the order in which they were written, none of
\* them before the upgrade, and none waits after it; none is lost before the
\* connection ends or a close frame is queued.
WritesInOrder ==
    /\ mUpgraded /\ mTcp => mWriteBuffers = <<>>
    /\ mTcp /\ ~mUpgraded => out = <<>>
    /\ mTcp /\ ~closing => out \o mWriteBuffers = Units(1, wrote)
    /\ \A i, j \in DOMAIN out : i < j => out[i] < out[j]

\* A callback of the socket comes to its end, unless a buffer is torn: then the
\* same bytes may be read again for ever.
DataEnds == wsPc # "idle" ~> wsPc \in {"idle", "aborted", "undefined"} \/ torn

=============================================================================
