------------------------------ MODULE Executor ------------------------------
(***************************************************************************)
(* What event::Loop promises to the code that posts work to it: a queue of *)
(* events, executed by the loop's own thread, one at a time, in the order  *)
(* they were accepted, each at most once, and only while execute() runs.   *)
(* What the loop's own thread sends overtakes the queue: it is executed    *)
(* inside the call, before, during or after execute().                     *)
(*                                                                         *)
(* There is no mutex, pipe, batch or poll here.  Loop.tla implements this  *)
(* specification; Then.tla uses it in place of the loop.                   *)
(***************************************************************************)
EXTENDS Functions, Sequences

CONSTANT Events     \* the events (closures) the program may hand to the loop

VARIABLES
    queue,          \* accepted and not executed yet
    executed,       \* everything executed so far, in order
    running         \* the loop's thread is inside Loop::execute

vars == <<queue, executed, running>>

TypeOK ==
    /\ queue \in Seq(Events)
    /\ executed \in Seq(Events)
    /\ running \in BOOLEAN

Init ==
    /\ queue = <<>>
    /\ executed = <<>>
    /\ running = FALSE

\* An event is a unique_ptr that is moved into the loop: handed over once.
Fresh(e) == e \notin Range(queue) \cup Range(executed)

-----------------------------------------------------------------------------

\* Loop::post, or Loop::send from a foreign thread: the loop owns e now.
Submit(e) ==
    /\ Fresh(e)
    /\ queue' = Append(queue, e)
    /\ UNCHANGED <<executed, running>>

\* The loop's thread executes the oldest event.
RunNext ==
    /\ running
    /\ queue # <<>>
    /\ executed' = Append(executed, Head(queue))
    /\ queue' = Tail(queue)
    /\ UNCHANGED running

\* Loop::send on the loop's own thread: executed inside the call, whether or
\* not execute() is running.
RunInline(e) ==
    /\ Fresh(e)
    /\ executed' = Append(executed, e)
    /\ UNCHANGED <<queue, running>>

\* execute() is entered; execute() returns.
Open  == ~running /\ running' = TRUE  /\ UNCHANGED <<queue, executed>>
Close == running  /\ running' = FALSE /\ UNCHANGED <<queue, executed>>

Next ==
    \/ \E e \in Events : Submit(e) \/ RunInline(e)
    \/ RunNext
    \/ Open
    \/ Close

Spec == Init /\ [][Next]_vars

-----------------------------------------------------------------------------

\* Every accepted event is in one place, and executed at most once: the vector
\* of unique_ptr that post() appends to and execute() walks repeats no event.
ExactlyOnce == IsInjective(executed \o queue)

=============================================================================
