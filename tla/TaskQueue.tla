------------------------------ MODULE TaskQueue ------------------------------
(***************************************************************************)
(* What an EventLoop promises to its users, whatever threads they are on:  *)
(* callables handed to queueInLoop run on the loop's thread, once each, in *)
(* the order the calls took the queue's mutex.  A callable handed to       *)
(* runInLoop on the loop's own thread runs at once, ahead of whatever is   *)
(* queued.  When they run is EventLoop.tla's QueuedTaskRuns.               *)
(*                                                                         *)
(* EventLoop.tla implements this specification; TcpConn.tla relies on it   *)
(* in place of the loop's internals.                                       *)
(***************************************************************************)
EXTENDS Sequences, Functions

CONSTANT Tasks  \* the callables; one element per call, so each is fresh once

VARIABLES
    queue,      \* submitted and not yet run, oldest first
    ran         \* the callables run so far, in the order they ran

vars == <<queue, ran>>

Submitted == Range(queue) \cup Range(ran)

-----------------------------------------------------------------------------
Init ==
    /\ queue = <<>>
    /\ ran = <<>>

\* EventLoop::queueInLoop
Submit(t) ==
    /\ t \notin Submitted
    /\ queue' = Append(queue, t)
    /\ UNCHANGED ran

\* EventLoop::runInLoop on the loop's own thread
RunInline(t) ==
    /\ t \notin Submitted
    /\ ran' = Append(ran, t)
    /\ UNCHANGED queue

\* one callable of the swapped-out list
RunNext ==
    /\ queue # <<>>
    /\ ran' = Append(ran, Head(queue))
    /\ queue' = Tail(queue)

Next ==
    \/ \E t \in Tasks : Submit(t) \/ RunInline(t)
    \/ RunNext

Spec == Init /\ [][Next]_vars
=============================================================================
