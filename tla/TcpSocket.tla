----------------------------- MODULE TcpSocket ------------------------------
(***************************************************************************)
(* net::TcpSocket in Plain mode (TcpSocket.h, TcpSocket.cpp): an IPv4 and  *)
(* an IPv6 attempt that race, the list of pending writes, the read loop,   *)
(* and the signals that tell the program, inside which it may call the     *)
(* socket again.                                                           *)
(*                                                                         *)
(* Everything runs on the loop's thread.  stack holds what is left to do   *)
(* of the callback it is in, innermost first; a signal's handler is an     *)
(* element of its own, so that the program's calls come between the steps  *)
(* of the code.  A failed assertion ends the behaviour.                    *)
(*                                                                         *)
(* Abstractions:                                                           *)
(*  - a descriptor has the number of the attempt that opened it: the loop  *)
(*    closes a removed one only between two callbacks (LoopFds.tla), so a  *)
(*    number is not used again while an event of the old one is due;       *)
(*  - nor is the number of a descriptor the loop has closed under the      *)
(*    socket, which keeps it in mFd;                                       *)
(*  - epoll reports what is there of a watched descriptor, EPOLLIN before  *)
(*    EPOLLOUT;                                                            *)
(*  - every buffer has BufferSize bytes, and bytes are numbered in the     *)
(*    order the program wrote them; what is received is not told apart;    *)
(*  - an address comes from the program or from the resolver's thread.     *)
(***************************************************************************)
EXTENDS Integers, Sequences, FiniteSets

CONSTANTS
    BufferSize,     \* bytes of a buffer
    FdErrors,       \* the loop may report FdError
    MaxConnects,    \* bound: attempts
    MaxWrites,      \* bound: buffers written
    MaxSends        \* bound: times the peers send

ASSUME TcpSocketAssumption ==
    /\ BufferSize \in Nat \ {0}
    /\ FdErrors \in BOOLEAN
    /\ MaxConnects \in Nat /\ MaxWrites \in Nat /\ MaxSends \in Nat

VARIABLES
    accepted,       \* the socket is one of TcpServer's: setSocket
    mState,
    mFd,            \* per family: mFd4 or mFd6, with its handle; 0 for -1
    want,           \* per family: the events its descriptor is watched for
    peer,           \* per family: what the kernel knows of the connection
    avail,          \* per family: there is something to read
    mPendingWrites, \* buffers, by number
    mWriteOffset,
    stack,          \* what the loop's thread has to do in this callback
    failed,         \* the assertion that failed
    sent,           \* history: the bytes the kernel has taken
    again,          \* history: those it has taken more than once
    resent,         \* history: the list was kept after a buffer was written
    closed,         \* history: the program called close()
    gone,           \* history: the loop took a descriptor away for an error
    inside,         \* history: the program called connect() in a signal's handler
    connects, writes, sends

vars == <<accepted, mState, mFd, want, peer, avail, mPendingWrites, mWriteOffset, stack, failed,
          sent, again, resent, closed, gone, inside, connects, writes, sends>>

fdVars    == <<mFd, want, peer, avail>>
writeVars == <<mPendingWrites, mWriteOffset, sent, again, resent>>
progVars  == <<accepted, closed, gone, inside, connects, writes, sends>>

Families == {4, 6}
Other(f) == 10 - f
Open == {f \in Families : mFd[f] # 0}

\* A step left to do, for the descriptor a family has now.
Do(op, f) == [op |-> op, f |-> f, fd |-> mFd[f]]
Ops == [op : {"read", "fdWrite", "write", "watch", "drop", "dropOther", "onState", "onData"},
        f : Families, fd : 0..(MaxConnects + 1)]

TypeOK ==
    /\ accepted \in BOOLEAN
    /\ mState \in {"Idle", "Connecting", "Connected", "Closed", "Error"}
    /\ mFd \in [Families -> 0..(MaxConnects + 1)]
    /\ want \in [Families -> SUBSET {"in", "out"}]
    /\ peer \in [Families -> {"none", "connecting", "refused", "up", "shut", "reset", "lost"}]
    /\ avail \in [Families -> BOOLEAN]
    /\ \A f \in Families \ Open : want[f] = {} /\ peer[f] = "none" /\ ~avail[f]
    /\ mPendingWrites \in Seq(1..MaxWrites)
    /\ mWriteOffset \in 0..(BufferSize - 1)
    /\ stack \in Seq(Ops)
    /\ failed \in {"none", "read", "write", "no fd"}
    /\ again \subseteq sent /\ sent \subseteq 1..(MaxWrites * BufferSize)
    /\ {resent, closed, gone, inside} \subseteq BOOLEAN
    /\ connects \in 0..MaxConnects /\ writes \in 0..MaxWrites /\ sends \in 0..MaxSends

\* After the constructor, or after accept() and setSocket().
Init ==
    /\ accepted \in BOOLEAN
    /\ mState = IF accepted THEN "Connected" ELSE "Idle"
    /\ mFd = [f \in Families |-> IF accepted /\ f = 4 THEN MaxConnects + 1 ELSE 0]
    /\ want = [f \in Families |-> IF f \in Open THEN {"in"} ELSE {}]
    /\ peer = [f \in Families |-> IF f \in Open THEN "up" ELSE "none"]
    /\ avail = [f \in Families |-> FALSE]
    /\ mPendingWrites = <<>> /\ mWriteOffset = 0
    /\ stack = <<>> /\ failed = "none"
    /\ sent = {} /\ again = {} /\ resent = FALSE
    /\ closed = FALSE /\ gone = FALSE /\ inside = FALSE
    /\ connects = 0 /\ writes = 0 /\ sends = 0

-----------------------------------------------------------------------------
(* The kernel and the peers *)

\* What the network does to a connection; a reset takes away what has not
\* been read.
Network(f, from, to) ==
    /\ failed = "none"
    /\ peer[f] = from
    /\ peer' = [peer EXCEPT ![f] = to]
    /\ avail' = [avail EXCEPT ![f] = @ /\ to # "reset"]
    /\ UNCHANGED <<mState, mFd, want, writeVars, stack, failed, progVars>>

Settles(f) == Network(f, "connecting", "up") \/ Network(f, "connecting", "refused")
Breaks(f)  == Network(f, "up", "shut") \/ Network(f, "up", "reset")

PeerSends(f) ==
    /\ failed = "none"
    /\ sends < MaxSends
    /\ peer[f] = "up" /\ ~avail[f]
    /\ avail' = [avail EXCEPT ![f] = TRUE]
    /\ sends' = sends + 1
    /\ UNCHANGED <<accepted, mState, mFd, want, peer, writeVars, stack, failed, closed, gone, inside,
                   connects, writes>>

-----------------------------------------------------------------------------
(* Parts of the handlers *)

Top == Head(stack)
Running(op) == failed = "none" /\ stack # <<>> /\ Top.op = op
Idle == failed = "none" /\ stack = <<>>

\* The program may call the socket: in a signal's handler, or in another
\* callback of the loop.
ProgramRuns == Idle \/ Running("onState") \/ Running("onData")

\* The first step left is done, and these come in its place.
Then(ops) == stack' = ops \o Tail(stack)

\* handle.remove() and fd = -1 for some families; the others are watched for
\* what events says.
Drop(fs, events) ==
    /\ mFd'   = [f \in Families |-> IF f \in fs THEN 0 ELSE mFd[f]]
    /\ want'  = [f \in Families |-> IF f \in fs THEN {} ELSE events[f]]
    /\ peer'  = [f \in Families |-> IF f \in fs THEN "none" ELSE peer[f]]
    /\ avail' = [f \in Families |-> avail[f] /\ f \notin fs]

\* Loop::updateFd; nothing comes of it when the descriptor is -1, or closed.
Watching(f, events) == [want EXCEPT ![f] = IF f \in Open /\ peer[f] # "lost" THEN events ELSE @]

\* Mutated Losers: the other attempt goes on.
LosersNone(f) == {}

\* The descriptors removed when an attempt succeeds.
Losers(f) == {Other(f)}

\* An attempt that fails is not told of while there is another.
LastAttempt(f) == Other(f) \notin Open

-----------------------------------------------------------------------------
(* Connecting *)

\* Mutated Pending: the descriptor is not watched for the answer.
PendingUnwatched(f) == <<>>

\* updateFd(fd, FdRead|FdWrite) of a connection in progress.
Pending(f) == <<[Do("watch", f) EXCEPT !.fd = connects + 1]>>

\* connect(ip), whose result internalConnect looks at: connected at once, in
\* progress, or failed.
Connect(f) ==
    /\ ProgramRuns
    /\ f \notin Open /\ mState # "Connected"
    /\ connects < MaxConnects
    /\ connects' = connects + 1
    /\ inside' = (inside \/ stack # <<>>)
    /\ mFd' = [mFd EXCEPT ![f] = connects + 1]
    /\ want' = [want EXCEPT ![f] = {"in"}]
    /\ \/ /\ peer' = [peer EXCEPT ![f] = "up"]
          /\ mState' = "Connected"
          /\ stack' = <<Do("onState", f), Do("write", f), Do("dropOther", f)>> \o stack
       \/ /\ peer' = [peer EXCEPT ![f] = "connecting"]
          /\ \/ mState = "Idle" /\ mState' = "Connecting"
                /\ stack' = <<Do("onState", f)>> \o Pending(f) \o stack
             \/ mState # "Idle" /\ UNCHANGED mState /\ stack' = Pending(f) \o stack
       \/ /\ peer' = [peer EXCEPT ![f] = "refused"]
          /\ \/ LastAttempt(f) /\ mState' = "Error"
                /\ stack' = <<Do("onState", f), Do("drop", f)>> \o stack
             \/ ~LastAttempt(f) /\ UNCHANGED mState /\ stack' = <<Do("drop", f)>> \o stack
    /\ UNCHANGED <<accepted, avail, writeVars, failed, closed, gone, writes, sends>>

WatchConnect ==
    /\ Running("watch")
    /\ want' = Watching(Top.f, {"in", "out"})
    /\ Then(<<>>)
    /\ UNCHANGED <<mState, mFd, peer, avail, writeVars, failed, progVars>>

\* The removals at the end of internalConnect.
DropFd ==
    /\ Running("drop") \/ Running("dropOther")
    /\ Drop(IF Top.op = "drop" THEN {Top.f} ELSE Losers(Top.f), want)
    /\ Then(<<>>)
    /\ UNCHANGED <<mState, writeVars, failed, progVars>>

-----------------------------------------------------------------------------
(* socketCallback *)

\* What epoll reports of a descriptor: FdRead for data, for the end of the
\* stream and for an error, then FdWrite.
Reports(f) ==
    (IF avail[f] \/ peer[f] \in {"refused", "shut", "reset"}
     THEN <<Do("read", f)>> ELSE <<>>)
    \o (IF "out" \in want[f] /\ peer[f] # "connecting" THEN <<Do("fdWrite", f)>> ELSE <<>>)

Callback(f) ==
    /\ Idle
    /\ f \in Open /\ Reports(f) # <<>>
    /\ stack' = Reports(f)
    /\ UNCHANGED <<mState, fdVars, writeVars, failed, progVars>>

\* An error or a hangup: the loop closes the descriptor, and calls back with it
\* the entry behind its own (LoopFds.tla).  If that is the socket's other one the
\* socket is told and drops it; else mFd keeps a descriptor that is not open.
FdError(f) ==
    /\ Idle /\ FdErrors
    /\ f \in Open /\ peer[f] # "lost"
    /\ \/ Drop({f}, want)
       \/ /\ peer' = [peer EXCEPT ![f] = "lost"]
          /\ want' = [want EXCEPT ![f] = {}]
          /\ avail' = [avail EXCEPT ![f] = FALSE]
          /\ UNCHANGED mFd
    /\ gone' = TRUE
    /\ UNCHANGED <<accepted, mState, writeVars, stack, failed, closed, inside, connects, writes, sends>>

\* FdWrite: the answer to a connection in progress, or a chance to write.
FdWrite ==
    /\ Running("fdWrite")
    /\ mFd[Top.f] = Top.fd
    /\ LET f == Top.f
           reading == Watching(f, {"in"})
           err == peer[f] \in {"refused", "reset"}
       IN  \/ /\ mState # "Connecting"
              /\ Drop({}, reading)
              /\ UNCHANGED mState
              /\ Then(<<Do("write", f)>>)
           \/ /\ mState = "Connecting" /\ err
              /\ \/ LastAttempt(f) /\ Drop({}, reading) /\ mState' = "Error"
                    /\ Then(<<Do("onState", f), Do("drop", f)>>)
                 \/ ~LastAttempt(f) /\ Drop({f}, want) /\ UNCHANGED mState /\ Then(<<>>)
           \/ /\ mState = "Connecting" /\ ~err
              /\ Drop(Losers(f), reading)
              /\ mState' = "Connected"
              /\ Then(<<Do("onState", f), Do("write", f)>>)
    /\ UNCHANGED <<writeVars, failed, progVars>>

\* What FdRead led to has removed the descriptor: the loop finds no callback.
FdWriteGone ==
    /\ Running("fdWrite")
    /\ mFd[Top.f] # Top.fd
    /\ Then(<<>>)
    /\ UNCHANGED <<mState, fdVars, writeVars, failed, progVars>>

-----------------------------------------------------------------------------
(* read(), over and over in FdRead *)

\* The descriptor it takes, whichever was reported.
ReadFrom == IF 4 \in Open THEN 4 ELSE 6
Single == Cardinality(Open) = 1

\* accept() gives a descriptor without O_NONBLOCK, and setSocket leaves it so.
Blocking == accepted /\ connects = 0

ReadData ==
    /\ Running("read") /\ Single
    /\ avail[ReadFrom]
    /\ avail' = [avail EXCEPT ![ReadFrom] = FALSE]
    /\ Then(<<Do("onData", Top.f), Top>>)
    /\ UNCHANGED <<mState, mFd, want, peer, writeVars, failed, progVars>>

\* Closed, or EAGAIN, which a blocking descriptor never gives.
ReadNothing ==
    /\ Running("read")
    /\ \/ Open = {}
       \/ /\ Single /\ ~Blocking
          /\ ~avail[ReadFrom] /\ peer[ReadFrom] \in {"connecting", "up"}
    /\ Then(<<>>)
    /\ UNCHANGED <<mState, fdVars, writeVars, failed, progVars>>

\* The end of the stream, or an error: close(), and the program is told.
ReadEnds ==
    /\ Running("read") /\ Single
    /\ ~avail[ReadFrom] /\ peer[ReadFrom] \in {"shut", "refused", "reset", "lost"}
    /\ Drop(Families, want)
    /\ mState' = IF peer[ReadFrom] = "shut" THEN "Closed" ELSE "Error"
    /\ Then(<<Do("onState", Top.f)>>)
    /\ UNCHANGED <<writeVars, failed, progVars>>

\* assert(mFd6 == -1)
ReadAsserts ==
    /\ Running("read") /\ Open = Families
    /\ failed' = "read"
    /\ UNCHANGED <<mState, fdVars, writeVars, stack, progVars>>

-----------------------------------------------------------------------------
(* write() and processWrite() *)

\* The bytes of the pending buffers that are still to be written, in order.
Bytes ==
    [i \in 1..(Len(mPendingWrites) * BufferSize - mWriteOffset) |->
        LET at == i - 1 + mWriteOffset
        IN  (mPendingWrites[at \div BufferSize + 1] - 1) * BufferSize + (at % BufferSize) + 1]

\* Mutated OffsetAfter: forgotten when a buffer is taken in part.
OffsetAfterNone(n) == 0

\* mWriteOffset when n bytes more have been taken: every buffer starts at 0.
OffsetAfter(n) == (mWriteOffset + n) % BufferSize

Takes(n) ==
    LET taken == {Bytes[i] : i \in 1..n}
    IN  /\ sent' = sent \cup taken
        /\ again' = again \cup (sent \cap taken)
        /\ mWriteOffset' = OffsetAfter(n)

\* "hey, good stuff. reenable the write flag"
AwaitRoom(f) == Watching(f, {"in", "out"})

\* processWrite: everything is taken.
WriteAll ==
    /\ Running("write")
    /\ mPendingWrites = <<>> \/ peer[Top.f] \in {"up", "shut"}
    /\ Takes(Len(Bytes))
    /\ mPendingWrites' = <<>>
    /\ Then(<<>>)
    /\ UNCHANGED <<mState, fdVars, resent, failed, progVars>>

\* processWrite: EAGAIN after n bytes.  It returns at once, and the buffers that
\* have been written stay in the list.
WriteSome ==
    /\ Running("write")
    /\ mPendingWrites # <<>> /\ ~Blocking
    /\ peer[Top.f] \in {"connecting", "up", "shut"}
    /\ \E n \in 0..(IF peer[Top.f] = "connecting" THEN 0 ELSE Len(Bytes) - 1) :
          /\ Takes(n)
          /\ resent' = (resent \/ mWriteOffset + n >= BufferSize)
    /\ want' = AwaitRoom(Top.f)
    /\ Then(<<>>)
    /\ UNCHANGED <<mState, mPendingWrites, mFd, peer, avail, failed, progVars>>

\* processWrite: an error, or the descriptor is -1 or closed by now.
WriteFails ==
    /\ Running("write")
    /\ mPendingWrites # <<>>
    /\ peer[Top.f] \in {"none", "refused", "shut", "reset", "lost"}
    /\ Drop(Families, want)
    /\ mState' = "Error"
    /\ Then(<<Do("onState", Top.f)>>)
    /\ UNCHANGED <<writeVars, failed, progVars>>

\* write(): the buffer is queued, and a connected socket writes the list.
Write ==
    /\ ProgramRuns
    /\ writes < MaxWrites
    /\ writes' = writes + 1
    /\ mPendingWrites' = Append(mPendingWrites, writes + 1)
    /\ \/ mState # "Connected" /\ UNCHANGED <<stack, failed>>
       \/ mState = "Connected" /\ Single
          /\ stack' = <<Do("write", ReadFrom)>> \o stack /\ UNCHANGED failed
       \/ mState = "Connected" /\ ~Single
          /\ failed' = (IF Open = {} THEN "no fd" ELSE "write") /\ UNCHANGED stack
    /\ UNCHANGED <<accepted, mState, fdVars, mWriteOffset, sent, again, resent, closed, gone, inside,
                   connects, sends>>

\* close(): mState and the pending writes are left alone.  Bound: one call.
Close ==
    /\ ProgramRuns
    /\ ~closed
    /\ closed' = TRUE
    /\ Drop(Families, want)
    /\ UNCHANGED <<accepted, mState, writeVars, stack, failed, gone, inside, connects, writes, sends>>

\* A signal's handler returns.
Returns ==
    /\ Running("onState") \/ Running("onData")
    /\ Then(<<>>)
    /\ UNCHANGED <<mState, fdVars, writeVars, failed, progVars>>

-----------------------------------------------------------------------------
Step ==
    \/ WatchConnect \/ DropFd \/ FdWrite \/ FdWriteGone
    \/ ReadData \/ ReadNothing \/ ReadEnds \/ ReadAsserts
    \/ WriteAll \/ WriteSome \/ WriteFails \/ Returns

Next ==
    \/ Step \/ Write \/ Close
    \/ \E f \in Families :
        \/ Settles(f) \/ Breaks(f) \/ PeerSends(f)
        \/ Connect(f) \/ Callback(f) \/ FdError(f)

Spec == Init /\ [][Next]_vars

\* The loop's thread goes on, epoll reports what is there, and the kernel gives
\* every attempt an answer, be it a timeout.
LiveSpec ==
    /\ Spec
    /\ WF_vars(Step)
    /\ \A f \in Families : WF_vars(Callback(f)) /\ WF_vars(Settles(f))

-----------------------------------------------------------------------------
(* Properties *)

\* Of the attempts that raced one is left when the socket is connected and the
\* callback is over: internalConnect and socketCallback remove the other one,
\* on either side of telling the program.
OneSurvives == mState = "Connected" /\ stack = <<>> => Cardinality(Open) <= 1

\* A socket that has lost its descriptors has told the program, unless the
\* program closed it or the loop took them: a failed attempt is silent only
\* while there is another one.  An attempt started in a handler may be lost
\* silently: internalConnect removes it as "the other one" of the attempt that
\* called the handler.
NotSilentlyDead ==
    Idle /\ Open = {} /\ ~closed /\ ~gone /\ ~inside
        => mState \in {"Idle", "Closed", "Error"}

\* write() asserts that a connected socket has one descriptor.  It has none after
\* close(), which leaves mState, after an FdError it was told of, or when an
\* attempt that a handler has started was lost; it has two only before the other
\* attempt of one that succeeded at once is removed, in a handler called before
\* that.
WriteAsserts ==
    /\ failed = "no fd" => closed \/ gone \/ inside
    /\ failed = "write" => \E i \in 1..Len(stack) : stack[i].op = "dropOther"

\* What becomes of the two attempts and their descriptors: one survives, none is
\* lost silently, and write() finds the one it asserts but for those cases.
AttemptsSettled == TypeOK /\ OneSurvives /\ NotSilentlyDead /\ WriteAsserts

\* The kernel gets the bytes the program wrote from the first one on, none left
\* out, whichever way writes are cut short.
NothingSkipped == sent = 1..Cardinality(sent)

\* The kernel gets no byte twice, unless a write was cut short after a whole
\* buffer: processWrite then keeps buffers in the list that have been written.
NothingRepeated == ~resent => again = {}

\* A connected socket with pending writes is watched for room: what is queued
\* is not forgotten between two callbacks, unless the loop has closed it.
PendingIsWatched ==
    Idle /\ mState = "Connected" /\ mPendingWrites # <<>> =>
        \A f \in Open : "out" \in want[f] \/ peer[f] = "lost"

\* The stream the kernel gets is what the program wrote, nothing of it skipped,
\* sent twice or forgotten.
StreamIntact == NothingSkipped /\ NothingRepeated /\ PendingIsWatched

\* A connection in progress comes to an end the program is told of, or it was
\* the program's close(), a descriptor the loop took, or a failed assertion.
ConnectEnds ==
    mState = "Connecting" ~> mState # "Connecting" \/ closed \/ gone \/ failed # "none"

\* The loop comes back from the callbacks of a socket that connected itself,
\* unless an assertion fails.  From the first callback of an accepted one it
\* comes back when its descriptor is gone: read() blocks where EAGAIN should end
\* the loop.
CallbackEnds ==
    stack # <<>> /\ (accepted => connects > 0) ~> stack = <<>> \/ failed # "none"

\* What the socket has begun it ends, attempts and callbacks.
AttemptsEnd == ConnectEnds /\ CallbackEnds

\* TcpSocket.cpp:573 asserts in read() that there is one descriptor.
ReadAssertHolds == failed # "read"

=============================================================================
