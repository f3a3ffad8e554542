------------------------------ MODULE LoopFds -------------------------------
(***************************************************************************)
(* The descriptors of event::Loop: addFd, updateFd, removeFd (Loop.h), and *)
(* in execute() (Loop_epoll.cpp) the merge of the pending descriptors, the *)
(* calls of epoll_ctl, the close of removed descriptors and the dispatch   *)
(* of what epoll_wait reports.                                             *)
(*                                                                         *)
(* An entry of mFds or mPendingFds is its descriptor number: the callback  *)
(* that belongs to it is named by the same number.  Undefined behaviour    *)
(* (an iterator used past the end of mFds) may end the behaviour in the    *)
(* phase "crashed".                                                        *)
(*                                                                         *)
(* Abstractions: a locked section is one step; wake stands for a wakeup on *)
(* its way (Loop.tla); what epoll reports is any choice among registered   *)
(* descriptors and the events they are registered for, two at most.        *)
(***************************************************************************)
EXTENDS Integers, SequencesExt

CONSTANTS
    Fds,            \* descriptor numbers
    WakeFd,         \* mWakeup[0]
    Errors,         \* epoll may report EPOLLERR or EPOLLHUP
    MaxCalls        \* bound: calls of the API

ASSUME FdsAssumption ==
    /\ WakeFd \notin Fds
    /\ Errors \in BOOLEAN
    /\ MaxCalls \in Nat

VARIABLES
    mFds,           \* descriptors with a callback, in order
    mPendingFds,    \* added, not yet merged
    mUpdateFds,     \* <<fd, flags>> to be modified
    mRemovedFds,    \* to be taken out of epoll and closed
    fds,            \* execute()'s local list, of new and then of removed ones
    phase,          \* where the loop's thread is
    open,           \* descriptors that are open in the process
    inEpoll,        \* descriptors registered with epoll
    mask,           \* per registered descriptor: the events asked for
    batch,          \* what epoll_wait returned and is not yet dispatched
    cur,            \* the callback that is running: fd, owner, kind
    wake,           \* a wakeup is on its way
    threaded,       \* other threads call the API too; chosen by Init
    requested,      \* history: the flags last asked for
    held,           \* descriptors the program holds an FD of
    failed,         \* history: descriptors the loop has closed for an error
    readded,        \* history: removed and added again, see HasPast
    calls           \* history: number of API calls

vars == <<mFds, mPendingFds, mUpdateFds, mRemovedFds, fds, phase, open, inEpoll,
          mask, batch, cur, wake, threaded, requested, held, failed, readded, calls>>

listVars   == <<mFds, mPendingFds, mUpdateFds, mRemovedFds>>
kernelVars == <<open, inEpoll, mask>>
histVars   == <<requested, held, failed, readded, calls>>

NoCallback == [fd |-> WakeFd, owner |-> WakeFd, kind |-> "none"]
Flags == {{"in"}, {"in", "out"}}        \* FdRead, FdRead | FdWrite

Phases == {"work",      \* executing events or timers
           "add",       \* before EPOLL_CTL_ADD of the merged descriptors
           "update",    \* before the lock that guards mUpdateFds, mRemovedFds
           "close",     \* before EPOLL_CTL_DEL and close of the removed ones
           "wait",      \* in epoll_wait
           "dispatch",  \* in the loop over the batch
           "callback",  \* in a descriptor's callback
           "crashed"}   \* undefined behaviour

TypeOK ==
    /\ mFds \in Seq(Fds) /\ mPendingFds \in Seq(Fds)
    /\ mRemovedFds \in Seq(Fds) /\ fds \in Seq(Fds)
    /\ mUpdateFds \in Seq(Fds \X Flags)
    /\ phase \in Phases
    /\ open \subseteq Fds /\ inEpoll \subseteq open
    /\ mask \in [Fds -> Flags] /\ requested \in [Fds -> Flags]
    /\ cur \in [fd : Fds \cup {WakeFd}, owner : Fds \cup {WakeFd},
                kind : {"none", "read", "write", "error"}]
    /\ wake \in BOOLEAN /\ threaded \in BOOLEAN
    /\ held \subseteq Fds /\ failed \subseteq Fds /\ readded \subseteq Fds
    /\ calls \in 0..MaxCalls

Init ==
    /\ mFds = <<>> /\ mPendingFds = <<>> /\ mUpdateFds = <<>> /\ mRemovedFds = <<>>
    /\ fds = <<>> /\ batch = <<>> /\ cur = NoCallback
    /\ phase = "work"
    /\ open = {} /\ inEpoll = {}
    /\ mask = [fd \in Fds |-> {"in"}] /\ requested = mask
    /\ wake = FALSE /\ calls = 0 /\ threaded \in BOOLEAN
    /\ held = {} /\ failed = {} /\ readded = {}

-----------------------------------------------------------------------------
(* The API *)

Registered == Range(mFds) \cup Range(mPendingFds)

\* Mutated Called: a foreign call does not wake the loop.
CalledQuietly(foreign) ==
    /\ calls < MaxCalls
    /\ calls' = calls + 1
    /\ phase # "crashed"
    /\ foreign => threaded
    /\ ~foreign => phase \in {"work", "callback"}
    /\ UNCHANGED wake

\* A call by the loop's thread, from a callback, or by a foreign thread, which
\* ends with a byte in the wakeup pipe.
Called(foreign) ==
    /\ calls < MaxCalls
    /\ calls' = calls + 1
    /\ phase # "crashed"
    /\ \/ foreign /\ threaded /\ wake' = TRUE
       \/ ~foreign /\ phase \in {"work", "callback"} /\ UNCHANGED wake

\* The loop still holds something of an earlier registration of this number:
\* its place in epoll, or an update (removeFd takes out one only).
HasPast(fd) == fd \in inEpoll \/ \E update \in Range(mUpdateFds) : update[1] = fd

\* Loop::addFd of an open descriptor that is not registered.
AddFd(foreign, fd, flags) ==
    /\ Called(foreign)
    /\ fd \in open \ Registered
    /\ mPendingFds' = Append(mPendingFds, fd)
    /\ mUpdateFds' = IF "out" \in flags THEN Append(mUpdateFds, <<fd, flags>>)
                                        ELSE mUpdateFds
    /\ mRemovedFds' = RemoveFirst(mRemovedFds, fd)
    /\ requested' = [requested EXCEPT ![fd] = flags]
    /\ readded' = IF HasPast(fd) THEN readded \cup {fd} ELSE readded \ {fd}
    /\ held' = held \cup {fd}
    /\ UNCHANGED <<mFds, fds, phase, kernelVars, batch, cur, failed>>

\* Loop::updateFd.
UpdateFd(foreign, fd, flags) ==
    /\ Called(foreign)
    /\ fd \in held
    /\ mUpdateFds' = Append(mUpdateFds, <<fd, flags>>)
    /\ requested' = [requested EXCEPT ![fd] = flags]
    /\ readded' = readded \ {fd}
    /\ UNCHANGED <<mFds, mPendingFds, mRemovedFds, fds, phase, kernelVars, batch, cur,
                   held, failed>>

\* FD::remove and Loop::removeFd: the descriptor leaves the lists, with the
\* first of its updates, and is the loop's to close, even if the loop has closed
\* it already because of an error.
RemoveFd(foreign, fd) ==
    /\ Called(foreign)
    /\ fd \in held
    /\ held' = held \ {fd}
    /\ mFds' = RemoveFirst(mFds, fd)
    /\ mPendingFds' = RemoveFirst(mPendingFds, fd)
    /\ LET ofFd(update) == update[1] = fd
       IN  mUpdateFds' = RemoveFirstMatch(mUpdateFds, ofFd)
    /\ mRemovedFds' = Append(mRemovedFds, fd)
    /\ UNCHANGED <<fds, phase, kernelVars, batch, cur, requested, failed, readded>>

\* socket() or accept(): a number that is not open.
OpenFd(fd) ==
    /\ fd \notin open
    /\ phase \in {"work", "callback"}
    /\ open' = open \cup {fd}
    /\ UNCHANGED <<listVars, fds, phase, inEpoll, mask, batch, cur, wake, histVars>>

\* A foreign thread posts an event or adds a timer.
Post ==
    /\ ~wake /\ wake' = TRUE
    /\ phase # "crashed"
    /\ UNCHANGED <<listVars, fds, phase, kernelVars, batch, cur, histVars>>

-----------------------------------------------------------------------------
(* The loop's thread, before epoll_wait *)

\* The merging loop.  Each step of its inner for uses up one entry of mFds, which
\* is erased or stepped over, and compares it with the pending descriptors by
\* turns, whichever the entry is.
Compared(i) == mPendingFds[((i - 1) % Len(mPendingFds)) + 1]
Stays == {i \in 1..Len(mFds) : mFds[i] # Compared(i)}
Kept ==
    LET place(k) == CHOOSE i \in Stays : Cardinality(Stays \cap 1..i) = k
    IN  [k \in 1..Cardinality(Stays) |-> mFds[place(k)]]

\* The end of mFds is looked for only when the inner for is through: before
\* that the iterator runs past it.
Overruns == Len(mFds) % Len(mPendingFds) # 0

\* The locked section "process new fds", after the events.
Merge ==
    /\ phase = "work"
    /\ IF mPendingFds = <<>>
       THEN phase' = "add" /\ UNCHANGED <<mFds, mPendingFds, fds>>
       ELSE IF Overruns
       THEN phase' = "crashed" /\ UNCHANGED <<mFds, mPendingFds, fds>>
       ELSE /\ mFds' = Kept \o mPendingFds
            /\ fds' = mPendingFds
            /\ mPendingFds' = <<>>
            /\ phase' = "add"
    /\ UNCHANGED <<mUpdateFds, mRemovedFds, kernelVars, batch, cur, wake, histVars>>

\* EPOLL_CTL_ADD: fails for a descriptor that is closed or in epoll already.
AddToEpoll ==
    /\ phase = "add"
    /\ LET new == (Range(fds) \cap open) \ inEpoll
       IN  /\ inEpoll' = inEpoll \cup new
           /\ mask' = [fd \in Fds |-> IF fd \in new THEN {"in"} ELSE mask[fd]]
    /\ fds' = <<>>
    /\ phase' = "update"
    /\ UNCHANGED <<listVars, open, batch, cur, wake, histVars>>

\* Mutated Update: the first of several updates wins.
UpdateFirst ==
    /\ phase = "update"
    /\ mask' = [fd \in Fds |->
           LET at == SelectInSeq(mUpdateFds, LAMBDA update : update[1] = fd)
           IN  IF fd \in inEpoll /\ at # 0 THEN mUpdateFds[at][2] ELSE mask[fd]]
    /\ fds' = mRemovedFds
    /\ mRemovedFds' = <<>> /\ mUpdateFds' = <<>>
    /\ phase' = "close"
    /\ UNCHANGED <<mFds, mPendingFds, open, inEpoll, batch, cur, wake, histVars>>

\* The locked section before epoll_wait: EPOLL_CTL_MOD in the order of the
\* calls, of which the last one remains.  It fails for a descriptor that is not
\* in epoll (yet).
Update ==
    /\ phase = "update"
    /\ mask' = [fd \in Fds |->
           LET at == SelectLastInSeq(mUpdateFds, LAMBDA update : update[1] = fd)
           IN  IF fd \in inEpoll /\ at # 0 THEN mUpdateFds[at][2] ELSE mask[fd]]
    /\ fds' = mRemovedFds
    /\ mRemovedFds' = <<>> /\ mUpdateFds' = <<>>
    /\ phase' = "close"
    /\ UNCHANGED <<mFds, mPendingFds, open, inEpoll, batch, cur, wake, histVars>>

\* "remove fds": EPOLL_CTL_DEL and close, without the lock.
CloseRemoved ==
    /\ phase = "close"
    /\ inEpoll' = inEpoll \ Range(fds)
    /\ open' = open \ Range(fds)
    /\ fds' = <<>>
    /\ phase' = "wait"
    /\ UNCHANGED <<listVars, mask, batch, cur, wake, histVars>>

-----------------------------------------------------------------------------
(* The loop's thread, from epoll_wait on *)

WakeEvent == [fd |-> WakeFd, ev |-> {"in"}]

\* What epoll can report of one descriptor.
Reports(fd) ==
    {[fd |-> fd, ev |-> ev] : ev \in (SUBSET mask[fd]) \ {{}}}
        \cup (IF Errors THEN {[fd |-> fd, ev |-> {"err"}]} ELSE {})

\* epoll_wait returns two descriptors at most, in any order; the wakeup pipe is
\* among them when a wakeup is on its way.
Wait ==
    /\ phase = "wait"
    /\ LET ready == (UNION {Reports(fd) : fd \in inEpoll})
                       \cup (IF wake THEN {WakeEvent} ELSE {})
           pairs == {b \in ready \X ready : b[1].fd # b[2].fd}
       IN  batch' \in {b \in {<<>>} \cup {<<r>> : r \in ready} \cup pairs :
                         wake => WakeEvent \in Range(b)}
    /\ phase' = "dispatch"
    /\ UNCHANGED <<listVars, fds, kernelVars, cur, wake, histVars>>

\* The batch is done; timers fire, and the next round begins.
EndBatch ==
    /\ phase = "dispatch" /\ batch = <<>>
    /\ phase' = "work"
    /\ UNCHANGED <<listVars, fds, kernelVars, batch, cur, wake, histVars>>

\* The wakeup pipe is read until read() fails, into the variable that holds the
\* number of events: the rest of the batch is not looked at.
DispatchWake ==
    /\ phase = "dispatch" /\ batch # <<>> /\ Head(batch).fd = WakeFd
    /\ batch' = <<>>
    /\ wake' = FALSE
    /\ UNCHANGED <<listVars, fds, phase, kernelVars, cur, histVars>>

\* processFd for EPOLLIN, then for EPOLLOUT: the callback of the entry, if there
\* is one still.
Dispatch(kind, event) ==
    /\ phase = "dispatch" /\ batch # <<>>
    /\ LET report == Head(batch)
       IN  /\ report.fd # WakeFd /\ event \in report.ev
           /\ event = "out" => "in" \notin report.ev
           /\ batch' = IF report.ev = {event} THEN Tail(batch)
                       ELSE [batch EXCEPT ![1].ev = @ \ {event}]
           /\ IF report.fd \in Range(mFds)
              THEN /\ phase' = "callback"
                   /\ cur' = [fd |-> report.fd, owner |-> report.fd, kind |-> kind]
              ELSE UNCHANGED <<phase, cur>>
    /\ UNCHANGED <<listVars, fds, kernelVars, wake, histVars>>

\* The callback an FdError is given to.  processFd erases the entry and takes
\* the callback from the erased position after that: the next entry is there
\* now, and behind the last one what has just been destroyed, which may be
\* intact or not.
ErrorOwners(fd) ==
    LET at == SelectInSeq(mFds, LAMBDA entry : entry = fd)
    IN  IF at = Len(mFds) THEN {fd, WakeFd} ELSE {mFds[at + 1]}

\* "badness, we want this thing out": the descriptor leaves epoll, processFd
\* lets its entry go and calls a callback, and the descriptor is closed.  The
\* result of close() becomes the number of events: the rest of the batch is not
\* looked at.
DispatchError ==
    /\ phase = "dispatch" /\ batch # <<>> /\ Head(batch).ev = {"err"}
    /\ LET fd == Head(batch).fd
       IN  /\ inEpoll' = inEpoll \ {fd}
           /\ mFds' = RemoveFirst(mFds, fd)
           /\ \/ /\ fd \notin Range(mFds)
                 /\ open' = open \ {fd} /\ batch' = <<>>
                 /\ failed' = failed \cup {fd}
                 /\ UNCHANGED <<phase, cur>>
              \/ /\ fd \in Range(mFds)
                 /\ \E owner \in ErrorOwners(fd) :
                       cur' = [fd |-> fd, owner |-> owner, kind |-> "error"]
                 /\ phase' = IF cur'.owner = WakeFd THEN "crashed" ELSE "callback"
                 /\ UNCHANGED <<open, batch, failed>>
    /\ UNCHANGED <<mPendingFds, mUpdateFds, mRemovedFds, fds, mask, wake,
                   requested, held, readded, calls>>

\* The callback returns; after an error the descriptor is closed.
EndCallback ==
    /\ phase = "callback"
    /\ phase' = "dispatch"
    /\ cur' = NoCallback
    /\ IF cur.kind = "error"
       THEN /\ open' = open \ {cur.fd}
            /\ inEpoll' = inEpoll \ {cur.fd}
            /\ batch' = <<>>
            /\ failed' = failed \cup {cur.fd}
       ELSE UNCHANGED <<open, inEpoll, batch, failed>>
    /\ UNCHANGED <<listVars, fds, mask, wake, requested, held, readded, calls>>

LoopStep ==
    \/ Merge \/ AddToEpoll \/ Update \/ CloseRemoved \/ Wait \/ EndBatch
    \/ DispatchWake \/ Dispatch("read", "in") \/ Dispatch("write", "out")
    \/ DispatchError \/ EndCallback

Next ==
    /\ UNCHANGED threaded
    /\ \/ \E foreign \in BOOLEAN, fd \in Fds :
             \/ RemoveFd(foreign, fd)
             \/ \E flags \in Flags : AddFd(foreign, fd, flags) \/ UpdateFd(foreign, fd, flags)
       \/ \E fd \in Fds : OpenFd(fd)
       \/ Post
       \/ LoopStep

Spec == Init /\ [][Next]_vars

-----------------------------------------------------------------------------
(* Properties *)

\* While the loop sleeps nothing waits in its lists, unless the call that put
\* it there has sent a wakeup: also for calls between the two locked sections.
ListsFlushed ==
    phase = "wait" /\ ~wake => mPendingFds = <<>> /\ mUpdateFds = <<>> /\ mRemovedFds = <<>>

\* What epoll watches is what is registered, and for the events last asked for,
\* when the loop goes to sleep.  A descriptor removed and added again before
\* the loop came round keeps its old place in epoll, or inherits an update of
\* its former self, and may have other events until its next updateFd.  A number
\* the loop has closed for an error is exempt: see RegisteredIsOpen; and so are
\* calls of other threads, whose update of a descriptor that is between the two
\* locked sections is applied to a number epoll does not know yet.
InterestMatches ==
    phase = "wait" /\ ~threaded =>
        /\ inEpoll \ failed = Range(mFds) \ failed
        /\ \A fd \in Range(mFds) \ failed : fd \in readded \/ mask[fd] = requested[fd]

\* The loop closes no descriptor under somebody's registration, also when its
\* number was removed and added again, unless it has closed that number for an
\* error before: FD::remove has it closed once more, and the number may belong
\* to somebody else by then.  What another thread removes and adds again while
\* the loop is about to close it is closed as well.
RegisteredIsOpen == ~threaded => Registered \ failed \subseteq open

\* The four lists, epoll's table and the process's open descriptors agree.
Intact == TypeOK /\ InterestMatches /\ RegisteredIsOpen

\* "(in case someone removes and readds before the event loop has a time to
\* process) so we need to remove them if they do": the merge copes with what was
\* removed and added again.
ReaddSurvivesMerge == phase = "crashed" => Range(mPendingFds) \cap readded = {}

=============================================================================
