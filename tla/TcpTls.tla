------------------------------- MODULE TcpTls -------------------------------
(***************************************************************************)
(* net::TcpSocket in TLS mode (TcpSocket.h, TcpSocket.cpp): the handshake, *)
(* reads and writes through an SSL session, and the wait states that say   *)
(* which event of the descriptor goes on with which of them.               *)
(*                                                                         *)
(* mFd is the descriptor of the session, or of the first attempt that has  *)
(* not failed; other is the attempt of the other family.  connect() looks  *)
(* at its own family's descriptor only, so an attempt may begin when the   *)
(* handshake of the other one is under way.                                *)
(*                                                                         *)
(* stack holds what is left to do of the loop's callback, as in            *)
(* TcpSocket.tla; a signal's handler is an element of its own.  FdError is *)
(* in TcpSocket.tla only.                                                  *)
(*                                                                         *)
(* OpenSSL and the kernel are external.  epoll is edge-triggered: after it *)
(* has reported a descriptor it does so again when data or room comes, or  *)
(* when EPOLL_CTL_MOD (updateFd) looks anew.  SSL_write writes a buffer    *)
(* as a whole or wants something, and must be given the same buffer again  *)
(* when it has begun to write it.                                          *)
(*                                                                         *)
(* Abstractions: a record is a flight of the handshake or data; buffers    *)
(* are numbered in the order of write().  The other family's address comes *)
(* from the resolver, between two callbacks; in a handler the program      *)
(* connects to an address of the family the callback is about, and before  *)
(* an attempt has the session nothing is sent to it.  A failed assertion   *)
(* ends the behaviour.                                                     *)
(***************************************************************************)
EXTENDS Integers, SequencesExt

CONSTANTS
    Flights,        \* what the server sends in a handshake
    MaxConnects,    \* bound: attempts
    MaxWrites,      \* bound: buffers written
    MaxData,        \* bound: records of data the server sends
    MaxOdd          \* bound: flights that do not fit, reads that want to write, and writes
                    \* that want to read

ASSUME TcpTlsAssumption ==
    /\ Flights \in Nat \ {0}
    /\ {MaxConnects, MaxWrites, MaxData, MaxOdd} \subseteq Nat

VARIABLES
    mState, mMode,
    mFd,            \* the descriptor, by the number of the attempt, or 0 for -1
    other,          \* the other family's: its number, connection, events and ready
    mPendingWrites,
    session,        \* mSsl.session is set
    bio,            \* the descriptor of mSsl.bio, or 0
    readWaitState, writeWaitState,
    stack,          \* what the loop's thread has to do in this callback
    tlsFailed,      \* the assertion that failed
    hs,             \* OpenSSL: flights read
    wpend,          \* OpenSSL: the buffer it has begun to write, or 0
    conn,           \* kernel: the connection
    inbox,          \* kernel: the records that have not been read
    room,           \* kernel: there is room to write
    want,           \* epoll: the events of the descriptor
    ready,          \* epoll: something has happened since its last report
    asked, flights, \* server: a flight is its turn; flights sent
    out,            \* history: the buffers sent in records
    plain,          \* history: the buffers sent without a session
    resent,         \* history: the list was kept after a buffer was sent
    unread,         \* history: FdRead has not come since the handshake ended
    crowded,        \* history: something came when there were records to read
    closed, inside, \* history: close() was called; connect() was, in a handler
    late,           \* history: an attempt began when the other family had the session
    connects, writes, data, odd

fdVars      == <<mFd, conn, inbox, room, want, ready, other>>
sslVars     == <<mMode, session, bio, hs, wpend, asked, flights>>
waitVars    == <<readWaitState, writeWaitState>>
writeVars   == <<mPendingWrites, out, plain, resent>>
programVars == <<closed, inside, late, connects, writes>>
quietVars   == <<crowded, data, programVars>>
tlsVars == <<mState, stack, tlsFailed, fdVars, sslVars, waitVars, writeVars, unread, odd, quietVars>>

Waits == {"SSLNotWaiting", "SSLReadWaitingForRead", "SSLReadWaitingForWrite",
          "SSLWriteWaitingForRead", "SSLWriteWaitingForWrite"}
Ops   == [op : {"watch", "drop", "dropOther", "startTLS", "connectTLS", "afterConnect", "close",
                "fdRead", "fdWrite", "read", "reads", "retryWrite", "mayWrite", "write",
                "onState", "onData"},
          fd : 0..MaxConnects]

Conns == {"connecting", "refused", "up", "shut", "reset"}

\* There is no attempt of the other family.
NoOther == [fd |-> 0, conn |-> "none", want |-> {}, ready |-> FALSE]

TlsTypeOK ==
    /\ mState \in {"Idle", "Connecting", "Handshaking", "Connected", "Closed", "Error"}
    /\ mMode \in {"Plain", "TLS"} /\ mFd \in 0..MaxConnects /\ bio \in 0..MaxConnects
    /\ mPendingWrites \in Seq(1..MaxWrites)
    /\ {readWaitState, writeWaitState} \subseteq Waits
    /\ stack \in Seq(Ops) /\ tlsFailed \in {"none", "session", "wait", "no fd", "two"}
    /\ hs \in 0..flights /\ flights \in 0..Flights /\ wpend \in 0..MaxWrites
    /\ conn \in {"none"} \cup Conns
    /\ \/ other = NoOther
       \/ other \in [fd : 1..MaxConnects, conn : Conns, want : SUBSET {"in", "out"}, ready : BOOLEAN]
    /\ inbox \in Seq({"flight", "data"}) /\ want \in SUBSET {"in", "out"}
    /\ {session, room, ready, asked, resent, unread, crowded, closed, inside, late} \subseteq BOOLEAN
    /\ session <=> mMode = "TLS"
    /\ mFd = 0 => conn = "none" /\ want = {} /\ ~ready /\ other = NoOther

TlsInit ==
    /\ mState = "Idle" /\ mMode = "Plain" /\ mFd = 0
    /\ mPendingWrites = <<>> /\ session = FALSE /\ bio = 0
    /\ readWaitState = "SSLNotWaiting" /\ writeWaitState = "SSLNotWaiting"
    /\ stack = <<>> /\ tlsFailed = "none"
    /\ hs = 0 /\ wpend = 0 /\ asked = FALSE /\ flights = 0
    /\ conn = "none" /\ inbox = <<>> /\ room = FALSE /\ want = {} /\ ready = FALSE
    /\ other = NoOther
    /\ out = <<>> /\ plain = <<>> /\ resent = FALSE /\ unread = FALSE /\ crowded = FALSE
    /\ closed = FALSE /\ inside = FALSE /\ late = FALSE
    /\ connects = 0 /\ writes = 0 /\ data = 0 /\ odd = 0

-----------------------------------------------------------------------------
(* The kernel and the server *)

Network ==
    /\ tlsFailed = "none"
    /\ UNCHANGED <<mState, stack, tlsFailed, mFd, want, other, mMode, session, bio, hs, wpend, waitVars,
                   writeVars, unread, odd, programVars>>

\* connect() is answered; the connection ends, or breaks and takes with it what
\* has not been read; there is room again.
Changes(from, to) ==
    /\ conn = from /\ conn' = to
    /\ inbox' = IF to = "reset" THEN <<>> ELSE inbox
    /\ room' = (room \/ to = "up")
    /\ ready' = TRUE
    /\ crowded' = (crowded \/ inbox # <<>>)
    /\ UNCHANGED <<asked, flights, data>>

Settles == Network /\ (Changes("connecting", "up") \/ Changes("connecting", "refused"))
Breaks  == Network /\ (Changes("up", "shut") \/ Changes("up", "reset") \/ Changes("shut", "reset"))

OtherSettles ==
    /\ tlsFailed = "none"
    /\ other.conn = "connecting"
    /\ \E answer \in {"up", "refused"} : other' = [other EXCEPT !.conn = answer, !.ready = TRUE]
    /\ UNCHANGED <<mState, stack, tlsFailed, mFd, conn, inbox, room, want, ready, sslVars, waitVars, writeVars,
                   unread, odd, quietVars>>

RoomComes ==
    /\ Network
    /\ conn \in {"up", "shut"} /\ ~room
    /\ room' = TRUE
    /\ ready' = (ready \/ "out" \in want)
    /\ UNCHANGED <<conn, inbox, asked, flights, crowded, data>>

Arrives(record) ==
    /\ inbox' = Append(inbox, record) /\ ready' = TRUE
    /\ crowded' = (crowded \/ inbox # <<>>)

\* The server's turn in the handshake.
FlightComes ==
    /\ Network
    /\ conn = "up" /\ asked
    /\ Arrives("flight")
    /\ flights' = flights + 1 /\ asked' = FALSE
    /\ UNCHANGED <<conn, room, data>>

DataComes ==
    /\ Network
    /\ conn = "up" /\ flights = Flights /\ data < MaxData
    /\ Arrives("data")
    /\ data' = data + 1
    /\ UNCHANGED <<conn, room, asked, flights>>

-----------------------------------------------------------------------------
(* Parts of the handlers *)

Top == Head(stack)
Running(op) == tlsFailed = "none" /\ stack # <<>> /\ Top.op = op
Idle == tlsFailed = "none" /\ stack = <<>>
ProgramRuns == Idle \/ Running("onState") \/ Running("onData")

\* The descriptor the callback is about has this number now.
Fd == IF Top.fd = other.fd /\ other.fd # 0 THEN other.fd ELSE mFd

\* The first step left is done, and these come in its place.
Then(ops) == stack' = [i \in 1..Len(ops) |-> [op |-> ops[i], fd |-> Fd]] \o Tail(stack)

\* A step that only decides what comes next.
Goes(ops) ==
    /\ Then(ops)
    /\ UNCHANGED <<mState, tlsFailed, fdVars, sslVars, waitVars, unread, odd, writeVars, quietVars>>

\* Loop::updateFd, of which nothing comes when the descriptor is -1 or was removed.
Watch(fd, events) ==
    /\ want' = IF fd = mFd /\ mFd # 0 THEN events ELSE want
    /\ ready' = (ready \/ (fd = mFd /\ mFd # 0))
    /\ other' = IF fd = other.fd /\ other.fd # 0
                THEN [other EXCEPT !.want = events, !.ready = TRUE] ELSE other

\* handle.remove() and fd = -1.
Removes == mFd' = 0 /\ conn' = "none" /\ inbox' = <<>> /\ room' = FALSE /\ want' = {} /\ ready' = FALSE

\* The other attempt goes on alone: mFd's has failed, or this one was answered
\* first.
Takes(events, edge) ==
    /\ mFd' = other.fd /\ conn' = other.conn /\ inbox' = <<>>
    /\ room' = (other.conn \in {"up", "shut"})
    /\ want' = events /\ ready' = edge
    /\ other' = NoOther

\* close(): the session goes, and the descriptors; mState, both wait states and
\* the pending writes are left alone.
Closes ==
    /\ Removes /\ other' = NoOther
    /\ mMode' = "Plain" /\ session' = FALSE /\ bio' = 0
    /\ hs' = 0 /\ wpend' = 0 /\ asked' = FALSE /\ flights' = 0

\* close() of an error or of the peer's end, and the program is told.
Ends(state) ==
    /\ Closes
    /\ mState' = state
    /\ Then(<<"onState">>)

-----------------------------------------------------------------------------
(* The program *)

Calls == UNCHANGED <<tlsFailed, waitVars, out, plain, resent, unread, crowded, data, odd>>

\* connect(ip) and internalConnect.  The session of an attempt that failed is
\* used again; mState is Connecting for the first attempt only.
TlsConnect ==
    /\ ProgramRuns
    /\ mFd = 0 /\ mState # "Connected"
    /\ connects < MaxConnects
    /\ connects' = connects + 1 /\ mFd' = connects + 1
    /\ mMode' = "TLS" /\ session' = TRUE
    /\ inside' = (inside \/ stack # <<>>)
    /\ inbox' = <<>> /\ want' = {"in"}
    /\ LET Do(op) == [op |-> op, fd |-> connects + 1] IN
       \/ /\ conn' = "up" /\ room' = TRUE /\ ready' = FALSE
          /\ mState' = "Handshaking"
          /\ stack' = <<Do("onState"), Do("startTLS")>> \o stack
       \/ /\ conn' = "connecting" /\ room' = FALSE /\ ready' = FALSE
          /\ mState' = IF mState = "Idle" THEN "Connecting" ELSE mState
          /\ stack' = (IF mState = "Idle" THEN <<Do("onState")>> ELSE <<>>) \o <<Do("watch")>> \o stack
       \/ /\ conn' = "refused" /\ room' = FALSE /\ ready' = FALSE
          /\ mState' = "Error"
          /\ stack' = <<Do("onState"), Do("drop")>> \o stack
    /\ UNCHANGED <<other, mPendingWrites, bio, hs, wpend, asked, flights, closed, late, writes>>
    /\ Calls

\* connect(ip) of the other family, which this family's descriptor and Connected
\* would stop, but not a handshake.  One that is connected at once takes the
\* session, if it has no descriptor yet, and the first attempt is removed after
\* that; one that fails is not told of.
OtherConnect ==
    /\ Idle
    /\ mFd # 0 /\ other = NoOther /\ mState # "Connected"
    /\ connects < MaxConnects
    /\ connects' = connects + 1
    /\ LET Do(op) == [op |-> op, fd |-> connects + 1]
           Begun(answer) == [fd |-> connects + 1, conn |-> answer, want |-> {"in"}, ready |-> FALSE]
       IN
       \/ /\ mState' = "Handshaking"
          /\ stack' = <<Do("onState"), Do("startTLS"), Do("dropOther")>>
          /\ \/ /\ bio = 0
                /\ mFd' = connects + 1 /\ conn' = "up" /\ room' = TRUE /\ want' = {"in"} /\ ready' = FALSE
                /\ other' = [fd |-> mFd, conn |-> conn, want |-> want, ready |-> ready]
                /\ UNCHANGED <<inbox, late>>
             \/ /\ bio # 0
                /\ other' = Begun("up") /\ late' = TRUE
                /\ UNCHANGED <<mFd, conn, inbox, room, want, ready>>
       \/ /\ stack' = <<Do("watch")>>
          /\ other' = Begun("connecting")
          /\ late' = (late \/ bio # 0)
          /\ UNCHANGED <<mState, mFd, conn, inbox, room, want, ready>>
       \/ UNCHANGED <<mState, stack, fdVars, late>>
    /\ UNCHANGED <<sslVars, mPendingWrites, closed, inside, writes>>
    /\ Calls

\* write(): queued, and written at once if the socket is connected.
Write ==
    /\ ProgramRuns
    /\ writes < MaxWrites
    /\ writes' = writes + 1
    /\ mPendingWrites' = Append(mPendingWrites, writes + 1)
    /\ stack' = (IF mState = "Connected" THEN <<[op |-> "write", fd |-> mFd]>> ELSE <<>>) \o stack
    /\ tlsFailed' = IF mState # "Connected" THEN tlsFailed
                   ELSE IF mFd = 0 THEN "no fd" ELSE IF other # NoOther THEN "two" ELSE tlsFailed
    /\ UNCHANGED <<mState, fdVars, sslVars, waitVars, out, plain, resent, unread, crowded, data, odd, closed,
                   inside, late, connects>>

\* Bound: one call.
TlsClose ==
    /\ ProgramRuns
    /\ ~closed
    /\ closed' = TRUE
    /\ Closes
    /\ UNCHANGED <<mState, stack, mPendingWrites, inside, late, connects, writes>>
    /\ Calls

-----------------------------------------------------------------------------
(* OpenSSL *)

\* It has a descriptor that is still open.
Live == bio # 0 /\ bio = mFd

\* The flights read when the one that is there has been.
FlightIn == inbox # <<>> /\ Head(inbox) = "flight"
Got == hs + (IF FlightIn THEN 1 ELSE 0)

\* The handshake is taken as far as it goes: a flight is read, and the next one
\* of the client sent when there is room.  An SSL_read or SSL_write does so too.
ReadsFlight ==
    /\ Live
    /\ hs' = Got
    /\ inbox' = IF FlightIn THEN Tail(inbox) ELSE inbox
    /\ UNCHANGED <<mFd, conn, mMode, session, bio, wpend, flights>>

HandshakeDone ==
    /\ ReadsFlight
    /\ Got = Flights
    /\ UNCHANGED <<asked, room, odd>>

HandshakeWants(event) ==
    /\ ReadsFlight
    /\ Got < Flights
    /\ LET turn == Got = flights /\ ~asked IN
       \/ /\ event = "write"
          /\ turn /\ conn \in {"connecting", "up", "shut"}
          /\ odd' = (IF room THEN odd + 1 ELSE odd) /\ odd' <= MaxOdd
          /\ room' = FALSE /\ UNCHANGED asked
       \/ /\ event = "read"
          /\ conn = "up" /\ (turn => room)
          /\ asked' = TRUE /\ UNCHANGED <<room, odd>>

HandshakeFails == ~Live \/ (Got < Flights /\ conn \in {"refused", "shut", "reset"})

\* The peer's end, with its close_notify or without.
EndStates == IF Live /\ conn = "shut" THEN {"Closed", "Error"} ELSE {"Error"}

-----------------------------------------------------------------------------
(* The handshake *)

\* updateFd(fd, FdRead|FdWrite) of a connection in progress.
WatchConnect ==
    /\ Running("watch")
    /\ Watch(Fd, {"in", "out"})
    /\ Then(<<>>)
    /\ UNCHANGED <<mState, tlsFailed, mFd, conn, inbox, room, sslVars, waitVars, unread, odd, writeVars, quietVars>>

\* A connection that failed: the session stays.
DropFd ==
    /\ Running("drop")
    /\ Removes
    /\ Then(<<>>)
    /\ UNCHANGED <<mState, tlsFailed, other, sslVars, waitVars, unread, odd, writeVars, quietVars>>

\* The attempt that was there when the other one was connected at once.
DropOther ==
    /\ Running("dropOther")
    /\ other' = NoOther
    /\ Then(<<>>)
    /\ UNCHANGED <<mState, tlsFailed, mFd, conn, inbox, room, want, ready, sslVars, waitVars, unread, odd,
                   writeVars, quietVars>>

\* assert(mSsl.session != nullptr && mSsl.bio == nullptr), and the BIO; without a
\* descriptor the handshake fails.
StartTLS ==
    /\ Running("startTLS")
    /\ \/ /\ session /\ bio = 0
          /\ bio' = mFd
          /\ Then(<<"connectTLS">>)
          /\ UNCHANGED tlsFailed
       \/ /\ ~(session /\ bio = 0)
          /\ tlsFailed' = "session"
          /\ UNCHANGED <<bio, stack>>
    /\ UNCHANGED <<mState, fdVars, mMode, session, hs, wpend, asked, flights, waitVars, unread, odd, writeVars, quietVars>>

\* Mutated WaitState: the two events the wrong way round.
WaitStateSwapped(event) ==
    IF event = "write" THEN "SSLWriteWaitingForRead" ELSE "SSLWriteWaitingForWrite"

\* What the handshake waits for.
WaitState(event) ==
    IF event = "write" THEN "SSLWriteWaitingForWrite" ELSE "SSLWriteWaitingForRead"

\* Mutated WhenConnected: not reset.
WhenConnectedKept == writeWaitState

\* writeWaitState when the handshake has ended.
WhenConnected == "SSLNotWaiting"

ConnectTLS ==
    /\ Running("connectTLS")
    /\ \/ /\ HandshakeDone
          /\ mState' = "Connected" /\ writeWaitState' = WhenConnected
          /\ unread' = TRUE
          /\ Then(<<"onState", "write">>)
          /\ UNCHANGED <<want, ready, other>>
       \/ \E event \in {"write", "read"} :
          /\ HandshakeWants(event)
          /\ writeWaitState' = WaitState(event)
          /\ IF event = "write" THEN Watch(Top.fd, {"in", "out"}) ELSE UNCHANGED <<want, ready, other>>
          /\ Then(<<>>)
          /\ UNCHANGED <<mState, unread>>
       \/ /\ HandshakeFails
          /\ mState' \in EndStates
          /\ Then(<<"onState", "close">>)
          /\ UNCHANGED <<writeWaitState, fdVars, sslVars, unread, odd>>
    /\ UNCHANGED <<readWaitState, tlsFailed, writeVars, quietVars>>

\* close() after the program was told.
CloseTold ==
    /\ Running("close")
    /\ Closes
    /\ Then(<<>>)
    /\ UNCHANGED <<mState, tlsFailed, waitVars, unread, odd, writeVars, quietVars>>

-----------------------------------------------------------------------------
(* socketCallback *)

\* What epoll reports, FdRead before FdWrite.
Broken  == {"refused", "reset"}
Events(filled, c, events, space) ==
    (IF filled \/ c = "shut" \/ c \in Broken THEN <<"fdRead">> ELSE <<>>)
    \o (IF "out" \in events /\ (space \/ c \in Broken) THEN <<"fdWrite">> ELSE <<>>)
Reports      == Events(inbox # <<>>, conn, want, room)
OtherReports == Events(FALSE, other.conn, other.want, other.conn \in {"up", "shut"})

Callback ==
    /\ Idle
    /\ mFd # 0 /\ ready /\ Reports # <<>>
    /\ ready' = FALSE
    /\ stack' = [i \in 1..Len(Reports) |-> [op |-> Reports[i], fd |-> mFd]]
    /\ UNCHANGED <<mState, tlsFailed, mFd, conn, inbox, room, want, other, sslVars, waitVars, unread, odd,
                   writeVars, quietVars>>

OtherCallback ==
    /\ Idle
    /\ other.ready /\ OtherReports # <<>>
    /\ other' = [other EXCEPT !.ready = FALSE]
    /\ stack' = [i \in 1..Len(OtherReports) |-> [op |-> OtherReports[i], fd |-> other.fd]]
    /\ UNCHANGED <<mState, tlsFailed, mFd, conn, inbox, room, want, ready, sslVars, waitVars, unread, odd,
                   writeVars, quietVars>>

\* Mutated RetryRead: forgotten.
RetryReadNot(state) == <<>>

\* A read that waits for this event is tried once more.
RetryRead(state) == IF readWaitState = state THEN <<"read">> ELSE <<>>

\* processTLS, FdRead.  A read that waits for FdRead is tried once more, and the
\* loop reads on if none waits.
FdRead ==
    /\ Running("fdRead")
    /\ Then(CASE mState = "Handshaking" ->
                 (IF writeWaitState = "SSLWriteWaitingForRead" THEN <<"connectTLS">> ELSE <<>>)
                 \o <<"afterConnect">>
            [] mState = "Connected" ->
                 RetryRead("SSLReadWaitingForRead") \o <<"retryWrite", "reads">>
            [] OTHER -> <<>>)
    /\ unread' = (unread /\ mState # "Connected")
    /\ UNCHANGED <<mState, tlsFailed, fdVars, sslVars, waitVars, odd, writeVars, quietVars>>

\* processTLS, FdWrite: the handshake, or a read or a write that waits for it.
FdWrite ==
    /\ Running("fdWrite") /\ Top.fd \in {mFd, other.fd}
    /\ mState # "Connecting"
    /\ Watch(Top.fd, {"in"})
    /\ Then(CASE mState = "Handshaking" ->
                 (IF writeWaitState = "SSLWriteWaitingForWrite" THEN <<"connectTLS">> ELSE <<>>)
                 \o <<"afterConnect">>
            [] mState = "Connected" ->
                 RetryRead("SSLReadWaitingForWrite") \o <<"mayWrite">>
            [] OTHER -> <<>>)
    /\ UNCHANGED <<mState, tlsFailed, mFd, conn, inbox, room, sslVars, waitVars, unread, odd, writeVars, quietVars>>

\* The answer to a connection in progress: the other attempt is removed, or goes
\* on, and the program is told when there is none.
Answered ==
    /\ Running("fdWrite") /\ mState = "Connecting"
    /\ \/ /\ Top.fd = mFd /\ conn \notin Broken
          /\ mState' = "Handshaking"
          /\ want' = {"in"} /\ ready' = TRUE /\ other' = NoOther
          /\ UNCHANGED <<mFd, conn, inbox, room>>
          /\ Then(<<"onState", "startTLS">>)
       \/ /\ Top.fd = other.fd /\ other.conn \notin Broken
          /\ mState' = "Handshaking"
          /\ Takes({"in"}, TRUE)
          /\ Then(<<"onState", "startTLS">>)
       \/ /\ Top.fd = mFd /\ conn \in Broken /\ other = NoOther
          /\ mState' = "Error"
          /\ Watch(mFd, {"in"})
          /\ UNCHANGED <<mFd, conn, inbox, room>>
          /\ Then(<<"onState", "drop">>)
       \/ /\ Top.fd = mFd /\ conn \in Broken /\ other # NoOther
          /\ Takes(other.want, other.ready)
          /\ UNCHANGED mState
          /\ Then(<<>>)
       \/ /\ Top.fd = other.fd /\ other.conn \in Broken
          /\ other' = NoOther
          /\ UNCHANGED <<mState, mFd, conn, inbox, room, want, ready>>
          /\ Then(<<>>)
    /\ UNCHANGED <<tlsFailed, sslVars, waitVars, unread, odd, writeVars, quietVars>>

\* The descriptor was removed by what FdRead led to: there is no callback.
FdWriteGone ==
    /\ Running("fdWrite") /\ Top.fd \notin {mFd, other.fd}
    /\ Goes(<<>>)

\* assert(mSsl.writeWaitState == SSLNotWaiting), and what is pending is written.
AfterConnect ==
    /\ Running("afterConnect")
    /\ \/ mState # "Connected" /\ Goes(<<>>)
       \/ mState = "Connected" /\ writeWaitState = "SSLNotWaiting" /\ Goes(<<"write">>)
       \/ /\ mState = "Connected" /\ writeWaitState # "SSLNotWaiting"
          /\ tlsFailed' = "wait"
          /\ UNCHANGED <<mState, stack, fdVars, sslVars, waitVars, unread, odd, writeVars, quietVars>>

\* The writes of FdRead, and those of FdWrite.
RetryWrite ==
    /\ Running("retryWrite") \/ Running("mayWrite")
    /\ LET waits == IF Top.op = "retryWrite" THEN {"SSLWriteWaitingForRead"}
                    ELSE {"SSLWriteWaitingForWrite", "SSLNotWaiting"}
       IN  Goes(IF writeWaitState \in waits THEN <<"write">> ELSE <<>>)

-----------------------------------------------------------------------------
(* read() *)

\* A read that was to be tried once more, or one of the loop.
Reading == Running("read") \/ (Running("reads") /\ readWaitState = "SSLNotWaiting")

\* read() has a descriptor, and asserts that it has one.
ReadingOne == Reading /\ mFd # 0 /\ other = NoOther

\* assert(mFd6 == -1), or assert(mFd4 == -1)
ReadAsserts ==
    /\ Reading /\ other # NoOther
    /\ tlsFailed' = "two"
    /\ UNCHANGED <<mState, stack, fdVars, sslVars, waitVars, unread, odd, writeVars, quietVars>>

\* The loop ends when a read waits, and when there is no descriptor.
ReadsOver ==
    /\ \/ Running("reads") /\ readWaitState # "SSLNotWaiting"
       \/ Reading /\ mFd = 0
    /\ Goes(<<>>)

\* readWaitState is left as it was.
ReadData ==
    /\ ReadingOne
    /\ Live /\ hs = Flights /\ inbox # <<>>
    /\ inbox' = Tail(inbox)
    /\ Then(IF Top.op = "reads" THEN <<"onData", "reads">> ELSE <<"onData">>)
    /\ IF readWaitState = "SSLReadWaitingForWrite" THEN Watch(mFd, {"in", "out"}) ELSE UNCHANGED <<want, ready, other>>
    /\ UNCHANGED <<mState, tlsFailed, mFd, conn, room, sslVars, waitVars, unread, odd, writeVars, quietVars>>

\* SSL_read wants something; to write, after the handshake, counts as odd.
ReadWants ==
    /\ ReadingOne
    /\ \/ /\ \E event \in {"read", "write"} :
             /\ hs < Flights /\ HandshakeWants(event)
             /\ readWaitState' = IF event = "read" THEN "SSLReadWaitingForRead"
                                  ELSE "SSLReadWaitingForWrite"
       \/ /\ Live /\ hs = Flights /\ inbox = <<>> /\ conn = "up"
          /\ readWaitState' = "SSLReadWaitingForRead"
          /\ UNCHANGED <<mFd, conn, inbox, room, sslVars, odd>>
       \/ /\ Live /\ hs = Flights /\ conn = "up" /\ odd < MaxOdd
          /\ readWaitState' = "SSLReadWaitingForWrite"
          /\ room' = FALSE /\ odd' = odd + 1
          /\ UNCHANGED <<mFd, conn, inbox, sslVars>>
    /\ IF readWaitState' = "SSLReadWaitingForWrite" THEN Watch(mFd, {"in", "out"}) ELSE UNCHANGED <<want, ready, other>>
    /\ Then(<<>>)
    /\ UNCHANGED <<mState, tlsFailed, writeWaitState, unread, writeVars, quietVars>>

ReadEnds ==
    /\ ReadingOne
    /\ IF Live /\ hs = Flights THEN inbox = <<>> /\ conn \in {"shut", "reset"} ELSE HandshakeFails
    /\ \E state \in EndStates : Ends(state)
    /\ UNCHANGED <<tlsFailed, waitVars, unread, odd, writeVars, quietVars>>

-----------------------------------------------------------------------------
(* processWrite() *)

Sends(n) == SubSeq(mPendingWrites, 1, n)

\* SSL_write is not given the buffer it has begun to write.
BadRetry == wpend # 0 /\ wpend # Head(mPendingWrites)

\* Mutated Written: the list is kept.
WrittenKept == mPendingWrites

\* The list when every buffer has been written.
Written == <<>>

\* Every buffer is written, if there is one.
WriteAll ==
    /\ Running("write")
    /\ \/ /\ mPendingWrites = <<>> /\ UNCHANGED <<writeVars, wpend>>
       \/ /\ mPendingWrites # <<>> /\ session
          /\ Live /\ hs = Flights /\ ~BadRetry /\ room /\ conn \in {"up", "shut"}
          /\ out' = out \o mPendingWrites /\ mPendingWrites' = Written
          /\ wpend' = 0
          /\ UNCHANGED <<plain, resent>>
    /\ Then(<<>>)
    /\ UNCHANGED <<mState, tlsFailed, fdVars, mMode, session, bio, hs, asked, flights, waitVars, unread, odd, quietVars>>

\* EAGAIN after n buffers, which stay in the list.  The state stored is that of
\* a read.
WriteSome ==
    /\ Running("write")
    /\ mPendingWrites # <<>> /\ session
    /\ Live /\ hs = Flights /\ ~BadRetry /\ conn \in {"up", "shut"}
    /\ \E n \in 0..(IF room THEN Len(mPendingWrites) - 1 ELSE 0) :
       /\ out' = out \o Sends(n)
       /\ resent' = (resent \/ n > 0)
       /\ \/ /\ writeWaitState' = "SSLReadWaitingForWrite"
             /\ room' = FALSE /\ wpend' = mPendingWrites[n + 1]
             /\ UNCHANGED odd
          \/ /\ odd < MaxOdd /\ conn = "up" /\ (n = 0 => wpend = 0)
             /\ writeWaitState' = "SSLReadWaitingForRead"
             /\ odd' = odd + 1 /\ wpend' = 0
             /\ UNCHANGED room
    /\ Watch(Top.fd, {"in", "out"})
    /\ Then(<<>>)
    /\ UNCHANGED <<mState, tlsFailed, mFd, conn, inbox, mMode, session, bio, hs, asked, flights, readWaitState,
                   mPendingWrites, plain, unread, quietVars>>

\* A handshake that has not ended goes on first.
WriteHandshakes ==
    /\ Running("write")
    /\ mPendingWrites # <<>> /\ session /\ hs < Flights
    /\ \E event \in {"read", "write"} :
       /\ HandshakeWants(event)
       /\ writeWaitState' = IF event = "read" THEN "SSLReadWaitingForRead" ELSE "SSLReadWaitingForWrite"
    /\ Watch(Top.fd, {"in", "out"})
    /\ Then(<<>>)
    /\ UNCHANGED <<mState, tlsFailed, readWaitState, unread, writeVars, quietVars>>

\* A handshake ends in an SSL_read or SSL_write, which goes on.
HandshakeInside ==
    /\ (Running("write") /\ mPendingWrites # <<>> /\ session) \/ ReadingOne
    /\ hs < Flights /\ HandshakeDone
    /\ UNCHANGED <<mState, stack, tlsFailed, want, ready, other, waitVars, unread, writeVars, quietVars>>

WriteFails ==
    /\ Running("write")
    /\ mPendingWrites # <<>>
    /\ IF session
       THEN IF Live /\ hs = Flights THEN BadRetry \/ conn \in {"shut", "reset"} ELSE HandshakeFails
       ELSE TRUE
    /\ Ends("Error")
    /\ UNCHANGED <<tlsFailed, waitVars, unread, odd, writeVars, quietVars>>

\* After close() in the handler of Connected, the mode is Plain and the descriptor
\* connectTLS was called with is still open: n buffers are taken as they are.
WritePlain ==
    /\ Running("write")
    /\ mPendingWrites # <<>> /\ ~session /\ Top.fd # 0
    /\ \E n \in 0..Len(mPendingWrites) :
       /\ plain' = plain \o Sends(n)
       /\ mPendingWrites' = IF n = Len(mPendingWrites) THEN <<>> ELSE mPendingWrites
       /\ resent' = (resent \/ (n > 0 /\ n < Len(mPendingWrites)))
    /\ Then(<<>>)
    /\ UNCHANGED <<mState, tlsFailed, fdVars, sslVars, waitVars, out, unread, odd, quietVars>>

-----------------------------------------------------------------------------
\* A signal's handler returns.
Returns ==
    /\ Running("onState") \/ Running("onData")
    /\ Goes(<<>>)

Step ==
    \/ WatchConnect \/ DropFd \/ DropOther \/ StartTLS \/ ConnectTLS \/ AfterConnect \/ CloseTold
    \/ FdRead \/ FdWrite \/ Answered \/ FdWriteGone
    \/ ReadsOver \/ ReadAsserts \/ ReadData \/ ReadWants \/ ReadEnds
    \/ RetryWrite \/ WriteAll \/ WriteSome \/ WriteHandshakes \/ HandshakeInside \/ WriteFails \/ WritePlain
    \/ Returns

TlsNext ==
    \/ Settles \/ OtherSettles \/ Breaks \/ RoomComes \/ FlightComes \/ DataComes
    \/ TlsConnect \/ OtherConnect \/ Write \/ TlsClose
    \/ Callback \/ OtherCallback \/ Step

TlsSpec == TlsInit /\ [][TlsNext]_tlsVars

\* The loop's thread goes on and epoll reports; the kernel answers an attempt and
\* has room again, and the server takes its turns in the handshake.
TlsLiveSpec ==
    /\ TlsSpec
    /\ WF_tlsVars(Step) /\ WF_tlsVars(Callback) /\ WF_tlsVars(OtherCallback)
    /\ WF_tlsVars(Settles) /\ WF_tlsVars(OtherSettles)
    /\ WF_tlsVars(RoomComes) /\ WF_tlsVars(FlightComes)

-----------------------------------------------------------------------------
(* Properties *)

\* The assertions of TLS fail in known cases only: that of the session (231, 325)
\* when the handler of Handshaking has closed the socket, or for an attempt that
\* is connected at once when the other family has the session; that of the wait
\* state (172, 243) when a write did not get through at once between the
\* handshake's end and the assertion; those of read() and write() on the other
\* family's descriptor when an attempt in progress was begun when the other
\* family had the session; that of write() on there being one after close().
TlsAsserts ==
    /\ tlsFailed = "session" => closed \/ late
    /\ tlsFailed = "wait" => writes > 0 /\ writeWaitState \in {"SSLReadWaitingForRead", "SSLReadWaitingForWrite"}
    /\ tlsFailed = "two" => late /\ other # NoOther
    /\ tlsFailed = "no fd" => closed

\* The assertions hold but for those cases, and a socket that has lost its
\* descriptor has told the program.
TlsSafe ==
    /\ TlsTypeOK /\ TlsAsserts
    /\ Idle /\ mFd = 0 /\ ~closed => mState \in {"Idle", "Closed", "Error"}

\* What the program writes is sent in records, in order, once, or is pending,
\* unless processWrite kept the list after it had sent a buffer.  It goes out
\* without a session only when the session has been given up in the handler of
\* Connected, by close() or by a write that failed.  What is pending between two
\* callbacks is there because writeTLS has stored a read's wait state, which no
\* event looks at for writes: the next write() goes on with it.
WritesKept ==
    /\ ~resent /\ plain = <<>> => out \o mPendingWrites = [i \in 1..writes |-> i]
    /\ plain # <<>> => closed \/ mState = "Error" \/ connects > 1
    /\ Idle /\ mState = "Connected" /\ mFd # 0 /\ mPendingWrites # <<>>
           => writeWaitState \in {"SSLReadWaitingForRead", "SSLReadWaitingForWrite"}

\* What has come, or the peer's end, is read or will be reported, but in three
\* cases: it came with the handshake's end, which does not read; a record was
\* waiting already, and FdRead tries once where an edge-triggered epoll asks it to
\* read on; or the read waits for FdWrite, as it does for ever when the state is
\* that of an earlier connection, which close() does not reset.
UnreadExplained ==
    Idle /\ mState = "Connected" /\ ~ready /\ (inbox # <<>> \/ conn = "shut")
        => unread \/ crowded \/ (readWaitState = "SSLReadWaitingForWrite" /\ (~room \/ connects > 1))

Attempt == mFd # 0 /\ mState # "Connected"

\* An attempt comes to an end: the socket is connected or its descriptor is gone,
\* unless the program called close(), or connect() in a handler, or the other
\* family's attempt began during a handshake: connectTLS may then be called with
\* a descriptor that is not the session's, and watch that for room.  An attempt of a
\* socket that was Closed or had an Error and is not connected at once stays so:
\* internalConnect leaves mState (338), and no handler looks at the answer.
HandshakeEnds ==
    Attempt ~> \/ ~Attempt \/ closed \/ inside \/ late \/ tlsFailed # "none"
               \/ connects > 1 /\ mState \in {"Closed", "Error"}

=============================================================================
