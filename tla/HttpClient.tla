----------------------------- MODULE HttpClient -----------------------------
(***************************************************************************)
(* net::HttpClient (HttpClient.h, HttpClient.cpp): clients of one thread   *)
(* that share one curl multi handle.  The loop calls curl when a socket or *)
(* curl's timer is due; curl calls back for sockets, for its timer, for    *)
(* the bytes to upload, for header lines and for the body; what is told to *)
(* the program runs the program's handlers, which call clients again.      *)
(*                                                                         *)
(* curl is external, and assumed to keep to its documentation: a transfer  *)
(* in progress has a socket watched or a timeout asked for whenever curl   *)
(* returns; no handle can be added from inside a callback; a callback that *)
(* returns too little fails the transfer; header lines come in the order   *)
(* of HTTP.  Which sockets and which timeout curl wants is decided, and its *)
(* callbacks for them run, in the step in which it returns: no handler     *)
(* looks at either.                                                        *)
(*                                                                         *)
(* Abstractions: the four overloads of write() are one; a byte is its      *)
(* buffer's number and its place; a status is its class; a client has one  *)
(* socket at most.  A failed assertion ends the behaviour.                 *)
(***************************************************************************)
EXTENDS Integers, SequencesExt

CONSTANTS
    Clients,        \* the clients the program creates
    Post,           \* those with the flag Post, which upload
    Answered,       \* bound: those whose server answers; other transfers fail
    Dropped,        \* bound: those the program may let go of
    Sizes,          \* bytes of a buffer given to write()
    MaxWrites,      \* bound: buffers per client
    Nobody

ASSUME HttpClientAssumption ==
    /\ Post \subseteq Clients /\ Answered \subseteq Clients
    /\ Dropped \subseteq Clients /\ Nobody \notin Clients
    /\ Sizes \subseteq Nat /\ MaxWrites \in Nat

VARIABLES
    pc,             \* where the loop's thread is
    via,            \* who called curl: "socket", "timeout" or "none"
    cur,            \* the client whose handler runs
    served,         \* the client whose socket curl was called for
    edge,           \* clients with room on their sockets, or a full socket's
                    \* room to come, that epoll has still to report (EPOLLET)
    timer,          \* curlInfo->timer is in the loop's list
    fds,            \* per client: the events its socket has in the loop
    wants,          \* curl counts on a timeout
    transfer,       \* per client: the state of its easy handle
    ended,          \* per client: curl has been told that the upload ends
    response,       \* per client: what the server sends next
    status,         \* conn->status
    headers,        \* conn->headers is not empty
    mBuffers, mBufferPos, mBufferOffset, mPaused, mWriteEnd,
    released,       \* per client: the program has let go of it
    written,        \* history: the sizes of the buffers written
    sent,           \* history: the bytes curl has taken
    told            \* history: the signals emitted

callVars     == <<via, served, edge>>
loopVars     == <<callVars, cur, timer, fds, wants>>
responseVars == <<response, status, headers, told>>
uploadVars   == <<ended, mBuffers, mBufferPos, mBufferOffset, mPaused, mWriteEnd, written, sent>>
vars == <<pc, loopVars, transfer, responseVars, uploadVars, released>>

Polls    == {{}, {"in"}, {"in", "out"}}
Statuses == {"1xx", "2xx", "3xx"}
Handlers == {"response", "body", "error", "complete"}

\* curl allows no handle to be added while it runs one of its callbacks.
InCallback == pc \in {"response", "body"}

\* mConnectionInfo is not null.
Connected(c) == transfer[c] \in {"running", "done", "failed"}

Running == {c \in Clients : transfer[c] = "running"}

TypeOK ==
    /\ pc \in {"loop", "curl", "check", "aborted"} \cup Handlers
    /\ via \in {"socket", "timeout", "none"} /\ cur \in Clients \cup {Nobody}
    /\ served \in Clients \cup {Nobody} /\ edge \subseteq Clients
    /\ timer \in BOOLEAN /\ wants \in BOOLEAN
    /\ fds \in [Clients -> Polls]
    /\ transfer \in [Clients -> {"none", "lost", "running", "done", "failed", "over"}]
    /\ response \in [Clients -> {"status", "fields", "body"}]
    /\ status \in [Clients -> Statuses \cup {"0"}]
    /\ {headers, ended, mPaused, mWriteEnd, released} \subseteq [Clients -> BOOLEAN]
    /\ \A c \in Clients :
          /\ mBuffers[c] \in Seq(1..MaxWrites)
          /\ mBufferPos[c] \in 0..Len(mBuffers[c])
          /\ mBufferOffset[c] \in Nat

Init ==
    /\ pc = "loop" /\ via = "none" /\ cur = Nobody
    /\ served = Nobody /\ edge = {}
    /\ timer = FALSE /\ wants = FALSE
    /\ fds = [c \in Clients |-> {}]
    /\ transfer = [c \in Clients |-> "none"]
    /\ ended = [c \in Clients |-> FALSE]
    /\ mPaused = ended /\ mWriteEnd = ended /\ released = ended /\ headers = ended
    /\ response = [c \in Clients |-> "status"]
    /\ mBufferPos = [c \in Clients |-> 0] /\ mBufferOffset = mBufferPos
    /\ status = [c \in Clients |-> "0"]
    /\ mBuffers = [c \in Clients |-> <<>>]
    /\ written = mBuffers /\ sent = mBuffers /\ told = mBuffers

-----------------------------------------------------------------------------
(* The program *)

ProgramRuns == pc \in {"loop"} \cup Handlers

\* HttpClient::create(), that is init() and connect(): curl asks for a timeout
\* at once.  Inside a callback curl_multi_add_handle fails, and connect()
\* returns without a connection and without a word.
Create(c) ==
    /\ ProgramRuns
    /\ transfer[c] = "none"
    /\ IF InCallback
       THEN transfer' = [transfer EXCEPT ![c] = "lost"] /\ UNCHANGED <<timer, wants>>
       ELSE transfer' = [transfer EXCEPT ![c] = "running"] /\ timer' = TRUE /\ wants' = TRUE
    /\ UNCHANGED <<pc, callVars, cur, fds, responseVars, uploadVars, released>>

\* What write() and endWrite() may be called for: without a connection they do
\* nothing.
MayWrite(c) == ProgramRuns /\ c \in Post /\ ~released[c] /\ Connected(c)

\* if (mPaused): curl_easy_pause(CURLPAUSE_CONT), for which curl asks for a
\* timeout of nothing.
Resume(c) ==
    IF mPaused[c]
    THEN mPaused' = [mPaused EXCEPT ![c] = FALSE] /\ timer' = TRUE /\ wants' = TRUE
    ELSE UNCHANGED <<mPaused, timer, wants>>

Write(c, size) ==
    /\ MayWrite(c)
    /\ Len(written[c]) < MaxWrites
    /\ written' = [written EXCEPT ![c] = Append(@, size)]
    /\ mBuffers' = [mBuffers EXCEPT ![c] = Append(@, Len(written'[c]))]
    /\ Resume(c)
    /\ UNCHANGED <<pc, callVars, cur, fds, transfer, responseVars, ended, mBufferPos, mBufferOffset,
                   mWriteEnd, sent, released>>

\* Mutated EndWrite: a paused upload is left paused.
EndWriteQuietly(c) ==
    /\ MayWrite(c) /\ ~mWriteEnd[c]
    /\ mWriteEnd' = [mWriteEnd EXCEPT ![c] = TRUE]
    /\ UNCHANGED <<pc, loopVars, transfer, responseVars, ended, mBuffers, mBufferPos,
                   mBufferOffset, mPaused, written, sent, released>>

EndWrite(c) ==
    /\ MayWrite(c) /\ ~mWriteEnd[c]
    /\ mWriteEnd' = [mWriteEnd EXCEPT ![c] = TRUE]
    /\ Resume(c)
    /\ UNCHANGED <<pc, callVars, cur, fds, transfer, responseVars, ended, mBuffers, mBufferPos,
                   mBufferOffset, written, sent, released>>

\* The program gives up its pointer, and conn->http is weak: the client goes, and
\* what it had to upload with it.  Inside a callback of this client the callback
\* holds another pointer until it returns, and does not use it again.
Release(c) ==
    /\ ProgramRuns
    /\ c \in Dropped /\ transfer[c] # "none" /\ ~released[c]
    /\ released' = [released EXCEPT ![c] = TRUE]
    /\ mBuffers' = [mBuffers EXCEPT ![c] = <<>>]
    /\ written' = [written EXCEPT ![c] = <<>>] /\ sent' = [sent EXCEPT ![c] = <<>>]
    /\ mBufferPos' = [mBufferPos EXCEPT ![c] = 0]
    /\ mBufferOffset' = [mBufferOffset EXCEPT ![c] = 0]
    /\ UNCHANGED <<pc, loopVars, transfer, responseVars, ended, mPaused, mWriteEnd>>

-----------------------------------------------------------------------------
(* In and out of curl *)

\* The loop reports a socket: socketEventCallback.  Data may come at any time,
\* and the report of it has the room there is as well.
SocketEvent(c) ==
    /\ pc = "loop" /\ fds[c] # {}
    /\ pc' = "curl" /\ via' = "socket" /\ served' = c
    /\ edge' \in {edge, edge \ {c}}
    /\ UNCHANGED <<cur, timer, fds, wants, transfer, responseVars, uploadVars, released>>

\* The loop fires curl's timer: CurlTimer::execute.
TimerFires ==
    /\ pc = "loop" /\ timer
    /\ timer' = FALSE /\ wants' = FALSE
    /\ pc' = "curl" /\ via' = "timeout"
    /\ UNCHANGED <<served, edge, cur, fds, transfer, responseVars, uploadVars, released>>

\* multiSocketCallback: addFd, updateFd or removeFd for what curl wants.
SocketCallback(c, what) == fds' = [fds EXCEPT ![c] = what]

\* The transfer comes to an end, and curl lets go of its socket.
Finish(c, result) ==
    /\ transfer' = [transfer EXCEPT ![c] = result]
    /\ SocketCallback(c, {})

\* By itself; success does not wait for the end of the upload.
Finishes(c, result) ==
    /\ pc = "curl" /\ transfer[c] = "running"
    /\ result = "done" => response[c] = "body"
    /\ Finish(c, result)
    /\ UNCHANGED <<pc, callVars, cur, timer, wants, responseVars, uploadVars, released>>

\* Mutated TimerDropped: whatever is still running.
TimerDroppedAlways == via = "socket"

\* "we're done!": nothing is running after the event of a socket.
TimerDropped == via = "socket" /\ Running = {}

\* curl's promise: it will hear of every transfer in progress again, and of a
\* socket with room while there is something to upload.
CurlWatches(what, wanted) ==
    /\ \A c \in Clients : what[c] # {} => c \in Running
    /\ \A c \in Clients : "out" \in what[c] => c \in Post /\ ~mPaused[c] /\ ~ended[c]
    /\ \A c \in Running :
          /\ wanted \/ what[c] # {}
          /\ c \in Post /\ ~mPaused[c] /\ ~ended[c] => wanted \/ "out" \in what[c]
    /\ Running = {} => ~wanted

\* The loop registers sockets with EPOLLET: room is reported after a socket was
\* added or updated, and after curl has filled it; if curl has stopped before,
\* no room is reported.
RoomToReport(what) ==
    \E full \in SUBSET {c \in Clients : "out" \in what[c]} :
        edge' = {c \in edge : "out" \in what[c]} \cup full
                    \cup {c \in Clients : "out" \in what[c] /\ what[c] # fds[c]}

\* curl_multi_socket_action returns, after its callbacks for what it wants now.
\* multiTimerCallback stops the timer, changes it and adds it again, also for
\* the timeout of -1 that means none.
CurlReturns ==
    /\ pc = "curl"
    /\ pc' = "check" /\ via' = "none" /\ served' = Nobody
    /\ \E what \in [Clients -> Polls], wanted \in BOOLEAN :
          /\ CurlWatches(what, wanted)
          /\ RoomToReport(what)
          /\ fds' = what /\ wants' = wanted
          /\ timer' = ((timer \/ wanted # wants) /\ ~TimerDropped)
    /\ UNCHANGED <<cur, transfer, responseVars, uploadVars, released>>

-----------------------------------------------------------------------------
(* The upload: easyReadCallback *)

Uploading(c) ==
    pc = "curl" /\ transfer[c] = "running" /\ c \in Post /\ ~mPaused[c] /\ ~ended[c]

\* No client any more, or the end of what it had to write: the upload ends.
ReadEnds(c) ==
    /\ Uploading(c)
    /\ released[c] \/ (mBuffers[c] = <<>> /\ mWriteEnd[c])
    /\ ended' = [ended EXCEPT ![c] = TRUE]
    /\ UNCHANGED <<pc, loopVars, transfer, responseVars, mBuffers, mBufferPos, mBufferOffset,
                   mPaused, mWriteEnd, written, sent, released>>

\* CURL_READFUNC_PAUSE
ReadPauses(c) ==
    /\ Uploading(c) /\ ~released[c]
    /\ mBuffers[c] = <<>> /\ ~mWriteEnd[c]
    /\ mPaused' = [mPaused EXCEPT ![c] = TRUE]
    /\ UNCHANGED <<pc, loopVars, transfer, responseVars, ended, mBuffers, mBufferPos,
                   mBufferOffset, mWriteEnd, written, sent, released>>

\* The size of the buffer that is read next.
Size(c) == written[c][mBuffers[c][mBufferPos[c] + 1]]

\* Mutated OffsetAfter: the offset is kept for the next buffer.
OffsetAfterKept(c, n) == mBufferOffset[c] + n

\* mBufferOffset after n bytes more.
OffsetAfter(c, n) == IF mBufferOffset[c] + n = Size(c) THEN 0 ELSE mBufferOffset[c] + n

\* The next n bytes of that buffer, each with the number of the buffer.
Copied(c, n) == [k \in 1..n |-> <<mBuffers[c][mBufferPos[c] + 1], mBufferOffset[c] + k>>]

\* curl takes as much of the current buffer as it has room for; the list is
\* cleared when all of it has been read.
ReadTakes(c, room) ==
    LET left == Size(c) - mBufferOffset[c]
        n    == IF room < left THEN room ELSE left
        last == n = left /\ mBufferPos[c] + 1 = Len(mBuffers[c])
    IN  /\ Uploading(c) /\ ~released[c]
        /\ mBuffers[c] # <<>> /\ mBufferOffset[c] < Size(c)
        /\ sent' = [sent EXCEPT ![c] = @ \o Copied(c, n)]
        /\ mBufferOffset' = [mBufferOffset EXCEPT ![c] = OffsetAfter(c, n)]
        /\ mBufferPos' = [mBufferPos EXCEPT
                             ![c] = IF last THEN 0 ELSE IF n = left THEN @ + 1 ELSE @]
        /\ mBuffers' = [mBuffers EXCEPT ![c] = IF last THEN <<>> ELSE @]
        /\ UNCHANGED <<pc, loopVars, transfer, responseVars, ended, mPaused, mWriteEnd,
                       written, released>>

\* assert(http->mBufferOffset < buffer->size()): a buffer without bytes.
ReadAsserts(c) ==
    /\ Uploading(c) /\ ~released[c]
    /\ mBuffers[c] # <<>> /\ mBufferOffset[c] >= Size(c)
    /\ pc' = "aborted"
    /\ UNCHANGED <<loopVars, transfer, responseVars, uploadVars, released>>

ReadCallback(c) ==
    ReadEnds(c) \/ ReadPauses(c) \/ ReadAsserts(c) \/ \E room \in {1, 2} : ReadTakes(c, room)

-----------------------------------------------------------------------------
(* The response: easyHeaderCallback, easyWriteCallback *)

\* What a server may send next: a status line, fields up to a blank line (one
\* may have no value, one no ": "), and trailers.
ServerLines(c) ==
    CASE response[c] = "status" -> Statuses
      [] response[c] = "fields" -> {"field", "no value", "no colon", "blank"}
      [] response[c] = "body"   -> {"field"}

\* What comes after a line: after a blank one another response, if this one was
\* interim or a redirection that curl follows.
ServerGoesOn(c, line) ==
    IF line \in Statuses THEN {"fields"}
    ELSE IF line # "blank" THEN {response[c]}
    ELSE CASE status[c] = "1xx" -> {"status"}
           [] status[c] = "3xx" -> {"status", "body"}
           [] OTHER             -> {"body"}

\* "assume HTTP line?"
ExpectsStatus(c) == status[c] = "0" /\ ~headers[c]

LineComes(c, line) ==
    /\ pc = "curl" /\ transfer[c] = "running" /\ c \in Answered
    /\ line \in ServerLines(c)
    /\ \E next \in ServerGoesOn(c, line) : response' = [response EXCEPT ![c] = next]
    /\ UNCHANGED <<callVars, timer, wants, uploadVars, released>>

\* A status line where one is expected, or a field where none is.
HeaderKept(c, line) ==
    /\ LineComes(c, line)
    /\ \/ /\ ExpectsStatus(c) /\ line \in Statuses
          /\ status' = [status EXCEPT ![c] = line] /\ UNCHANGED headers
       \/ /\ ~ExpectsStatus(c) /\ line = "field"
          /\ headers' = [headers EXCEPT ![c] = TRUE] /\ UNCHANGED status
    /\ UNCHANGED <<pc, cur, fds, transfer, told>>

\* Anything else where a status line is expected, another status line, and a
\* line without ": ": the callback returns 0, and curl fails the transfer.
HeaderFails(c, line) ==
    /\ LineComes(c, line)
    /\ IF ExpectsStatus(c) THEN line \notin Statuses ELSE line \in Statuses \cup {"no colon"}
    /\ Finish(c, "failed")
    /\ UNCHANGED <<pc, cur, status, headers, told>>

\* assert(nsize >= split + 2): the blank of "Key: " is trimmed, and counted.
HeaderAsserts(c) ==
    /\ LineComes(c, "no value") /\ ~ExpectsStatus(c)
    /\ pc' = "aborted"
    /\ UNCHANGED <<cur, fds, transfer, status, headers, told>>

\* Mutated Silent: every response is told.
SilentNever(c) == FALSE

\* "if this is a 300 response, don't emit"
Silent(c) == status[c] = "3xx"

\* A signal is emitted: the program's handlers run.
Emit(c, signal) ==
    /\ told' = [told EXCEPT ![c] = Append(@, signal)]
    /\ pc' = signal /\ cur' = c

\* The blank line: the response is told, or forgotten if it is a 3xx.
HeadersEnd(c) ==
    /\ LineComes(c, "blank") /\ ~ExpectsStatus(c)
    /\ \/ /\ released[c]
          /\ Finish(c, "failed")
          /\ UNCHANGED <<pc, cur, status, headers, told>>
       \/ /\ ~released[c] /\ Silent(c)
          /\ status' = [status EXCEPT ![c] = "0"] /\ headers' = [headers EXCEPT ![c] = FALSE]
          /\ UNCHANGED <<pc, cur, fds, transfer, told>>
       \/ /\ ~released[c] /\ ~Silent(c)
          /\ headers' = [headers EXCEPT ![c] = FALSE]
          /\ Emit(c, "response")
          /\ UNCHANGED <<fds, transfer, status>>

Header(c) ==
    \/ \E line \in Statuses \cup {"field", "no colon"} : HeaderKept(c, line) \/ HeaderFails(c, line)
    \/ HeaderAsserts(c) \/ HeadersEnd(c)

\* A piece of the body; bound: one per client.
Body(c) ==
    /\ pc = "curl" /\ transfer[c] = "running" /\ c \in Answered
    /\ response[c] = "body" /\ ~Contains(told[c], "body")
    /\ \/ released[c] /\ Finish(c, "failed") /\ UNCHANGED <<pc, cur, told>>
       \/ ~released[c] /\ Emit(c, "body") /\ UNCHANGED <<transfer, fds>>
    /\ UNCHANGED <<callVars, timer, wants, response, status, headers, uploadVars, released>>

-----------------------------------------------------------------------------
(* The end of transfers: checkMultiInfo *)

\* The next message: the client has no connection from here on, and is told of
\* the error, if there is one, and of the end.
ReadMessage(c) ==
    /\ pc = "check" /\ transfer[c] \in {"done", "failed"}
    /\ transfer' = [transfer EXCEPT ![c] = "over"]
    /\ \/ released[c] /\ UNCHANGED <<pc, cur, told>>
       \/ ~released[c] /\ Emit(c, IF transfer[c] = "failed" THEN "error" ELSE "complete")
    /\ UNCHANGED <<callVars, timer, fds, wants, response, status, headers, uploadVars, released>>

\* Mutated CheckEnds: one message at a time.
CheckEndsEarly ==
    /\ pc = "check"
    /\ \E c \in Clients : transfer[c] = "over"
    /\ pc' = "loop"
    /\ UNCHANGED <<loopVars, transfer, responseVars, uploadVars, released>>

CheckEnds ==
    /\ pc = "check"
    /\ \A c \in Clients : transfer[c] \notin {"done", "failed"}
    /\ pc' = "loop"
    /\ UNCHANGED <<loopVars, transfer, responseVars, uploadVars, released>>

\* The handlers of a signal return: mError is followed by mComplete, whoever has
\* been released meanwhile.
Returns ==
    /\ pc \in Handlers
    /\ IF pc = "error"
       THEN Emit(cur, "complete")
       ELSE pc' = (IF InCallback THEN "curl" ELSE "check") /\ cur' = Nobody /\ UNCHANGED told
    /\ UNCHANGED <<callVars, timer, fds, wants, transfer, response, status, headers, uploadVars, released>>

-----------------------------------------------------------------------------
Next ==
    \/ TimerFires \/ CurlReturns \/ CheckEnds \/ Returns
    \/ \E c \in Clients :
        \/ Create(c) \/ EndWrite(c) \/ Release(c) \/ (\E size \in Sizes : Write(c, size))
        \/ SocketEvent(c) \/ Finishes(c, "done") \/ Finishes(c, "failed")
        \/ ReadCallback(c) \/ Header(c) \/ Body(c) \/ ReadMessage(c)

Spec == Init /\ [][Next]_vars

\* Room for an upload is reported.
RoomReported(c) ==
    c \in edge /\ "out" \in fds[c] /\ SocketEvent(c) /\ edge' = edge \ {c}

\* curl reads what to upload when its socket is reported, and when its timeout has
\* come while it has no room of the socket to wait for.
ReadsOn(c) ==
    /\ served = c \/ (via = "timeout" /\ "out" \notin fds[c])
    /\ ReadCallback(c)

\* curl returns, handlers return, and the messages are read to the last.
GoesOn == CurlReturns \/ CheckEnds \/ Returns \/ \E c \in Clients : ReadMessage(c)

\* The loop's thread and curl go on.  A round of the loop fires the timer when it
\* is due and comes to every socket that epoll reports, whatever other clients
\* do: room that is to be reported is reported in the end, since the server reads
\* on.  Called for an upload again and again, curl takes something of it.  Nobody
\* need send anything, and curl need not fill a socket.
LiveSpec ==
    /\ Spec
    /\ WF_vars(GoesOn) /\ SF_vars(TimerFires)
    /\ \A c \in Post : SF_vars(RoomReported(c)) /\ SF_vars(ReadsOn(c))

-----------------------------------------------------------------------------
(* Properties *)

\* The bytes written, their order, and the first of them that has not been taken
\* (the one to be written next if all have been).
Bytes(c) == UNION {{n} \X (1..written[c][n]) : n \in DOMAIN written[c]}
Before(a, b) == a[1] < b[1] \/ (a[1] = b[1] /\ a[2] < b[2])
NextByte(c) ==
    IF mBuffers[c] = <<>> THEN <<Len(written[c]) + 1, 1>>
    ELSE <<mBuffers[c][mBufferPos[c] + 1], mBufferOffset[c] + 1>>

\* What curl has taken is what was written before the next byte, all of it, once
\* and in order, wherever reads stop, and the buffers are the last ones written;
\* curl learns of the end when the program has said so, and pauses only when
\* nothing is left.  The exception: the upload of a client the program has let
\* go of ends where it is, as if it were complete.
UploadIntact ==
    \A c \in Clients :
        /\ \A i \in DOMAIN mBuffers[c] : mBuffers[c][i] = Len(written[c]) - Len(mBuffers[c]) + i
        /\ Range(sent[c]) = {b \in Bytes(c) : Before(b, NextByte(c))}
        /\ \A i, j \in DOMAIN sent[c] : i < j => Before(sent[c][i], sent[c][j])
        /\ mPaused[c] => mBuffers[c] = <<>> /\ ~mWriteEnd[c]
        /\ ended[c] /\ ~released[c] => mWriteEnd[c]

\* The assertions fail for two reasons only: a buffer without bytes is next to
\* be uploaded, and a header has no value.
AssertsOnlyFor ==
    pc = "aborted" =>
        \/ \E c \in Post : mBuffers[c] # <<>> /\ mBufferOffset[c] = 0 /\ Size(c) = 0
        \/ \E c \in Answered : response[c] = "fields" /\ ~ExpectsStatus(c)

\* The buffers are the byte stream the program wrote, and what is uploaded or
\* received ends the program in the two known cases only.
UploadSafe == TypeOK /\ UploadIntact /\ AssertsOnlyFor

Orders == {<<>>, <<"response">>, <<"response", "body">>, <<"body">>}
Ends   == {<<>>, <<"complete">>, <<"error">>, <<"error", "complete">>}

\* What a client tells: the end once and last, right after the error if there
\* is one; one response at most, since what follows an interim one is taken for
\* a bad header and fails the transfer, so that it has no body; the body after
\* it.  The body of a 3xx that is not followed comes without its response.
ToldInOrder ==
    \A c \in Clients :
        /\ \E order \in Orders, end \in Ends :
              /\ told[c] = order \o end
              /\ end # <<>> => transfer[c] = "over"
              /\ order = <<"body">> => status[c] = "0"
              /\ order = <<"response", "body">> => status[c] = "2xx"

\* Between two events the loop has a timer whenever curl counts on one, and
\* every transfer in progress, an upload in progress above all, has a timer or a
\* socket watched; nothing is watched for a transfer that is over.  Whether the
\* loop reports a socket that is watched is UploadEnds' question.
TransfersDriven ==
    pc = "loop" =>
        /\ wants => timer
        /\ \A c \in Running : fds[c] # {} \/ timer
        /\ \A c \in Running \cap Post : mPaused[c] \/ ended[c] \/ "out" \in fds[c] \/ timer
        /\ \A c \in Clients \ Running : fds[c] = {}

\* curl waits for room on a socket that has had it all along, and epoll does not
\* report it a second time.
Stalled(c) == transfer[c] = "running" /\ "out" \in fds[c] /\ c \notin edge

\* Once the program has ended what it writes, curl gets all of it and the end,
\* or the transfer is over, also when the upload was paused.  The exception is
\* the loop's: curl asks to be called as long as there is room, and the loop
\* watches edge-triggered, so an upload that curl leaves after a piece, with the
\* socket not full, may wait for good.
UploadEnds ==
    \A c \in Post :
        mWriteEnd[c] ~> \/ ended[c] \/ transfer[c] # "running" \/ pc = "aborted"
                        \/ []Stalled(c)

\* A transfer has come to its end, and the program, which still holds the client,
\* has not been told.
Owed(c) ==
    transfer[c] \in {"done", "failed"} /\ ~released[c] /\ ~Contains(told[c], "complete")

\* Whenever outcomes are owed, for however many clients, all of them are told.
OutcomeTold ==
    (\E c \in Clients : Owed(c)) ~> (pc = "aborted" \/ \A c \in Clients : ~Owed(c))

=============================================================================
