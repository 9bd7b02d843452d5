------------------------------ MODULE EventLoop ------------------------------
(***************************************************************************)
(* One EventLoop: the thread that runs loop(), and the threads that hand   *)
(* it work through queueInLoop / runInLoop.                                *)
(*                                                                         *)
(* The loop's thread blocks in epoll_wait, runs the callbacks of the       *)
(* channels that are ready, takes the whole pending list under the mutex   *)
(* and runs it.  Whoever queues work must make sure that the loop does not *)
(* sleep on it: another thread always writes the eventfd, the loop's own   *)
(* thread only while it is running the pending list.                       *)
(*                                                                         *)
(* Channel callbacks and tasks are user code: while one runs, the owner    *)
(* thread may queue further work (OwnerQueues) or run it inline.           *)
(***************************************************************************)
EXTENDS Naturals, Sequences, FiniteSets, FiniteSetsExt, Functions

CONSTANTS
    Tasks,      \* callables, one per call to queueInLoop or runInLoop
    Producers,  \* threads other than the loop's own that queue work
    Channels,   \* the channels of the loop besides the eventfd's
    EventFd,    \* the channel of _eventfd
    NoTask,     \* a producer that is not inside queueInLoop
    MaxEvents   \* MAXEVENTS of Config.h: the most events one epoll_wait returns

ASSUME LoopAssumption ==
    /\ EventFd \notin Channels
    /\ NoTask \notin Tasks
    /\ MaxEvents \in Nat \ {0}

VARIABLES
    pendingQueue,   \* _pendingQueue
    temp,           \* the list swapped out of it, its head being run
    eventfd,        \* the counter of _eventfd
    isDoingPending, \* _isDoingPending
    phase,          \* where the loop's thread is in loop()
    batch,          \* the channels returned by epoll_wait, not yet handled
    ready,          \* the channels with an event the kernel would report
    producer,       \* per producer: the task pushed whose wake-up is still owed
    ran,            \* history: the tasks run, in order
    early           \* history: the tasks its owner queued before calling loop()

vars == <<pendingQueue, temp, eventfd, isDoingPending, phase, batch, ready,
          producer, ran, early>>

Phases == {"constructed", "epoll_wait", "dispatch", "pending"}

Used == Range(pendingQueue) \cup Range(temp) \cup Range(ran)

TypeOK ==
    /\ pendingQueue \in Seq(Tasks)
    /\ temp \in Seq(Tasks)
    /\ eventfd \in Nat
    /\ isDoingPending \in BOOLEAN
    /\ phase \in Phases
    /\ batch \subseteq Channels \cup {EventFd}
    /\ ready \subseteq Channels
    /\ producer \in [Producers -> Tasks \cup {NoTask}]
    /\ ran \in Seq(Tasks)
    /\ early \subseteq Tasks

-----------------------------------------------------------------------------
Init ==
    /\ pendingQueue = <<>>
    /\ temp = <<>>
    /\ eventfd = 0
    /\ isDoingPending = FALSE
    /\ phase = "constructed"
    /\ batch = {}
    /\ ready = {}
    /\ producer = [p \in Producers |-> NoTask]
    /\ ran = <<>>
    /\ early = {}

(***************************************************************************)
(* queueInLoop on the loop's own thread.  The push is under the mutex; the *)
(* wake-up that may follow is a step of the same thread that touches only  *)
(* the eventfd, to which every other thread can only add, so the two are   *)
(* one action here.                                                        *)
(***************************************************************************)
UserCodeRuns ==
    \/ phase = "constructed"
    \/ phase = "dispatch" /\ batch \ {EventFd} # {}
    \/ phase = "pending" /\ temp # <<>>

\* a bug: the owner never wakes itself
OwnerWakeForgotten == eventfd

OwnerWake == IF isDoingPending THEN eventfd + 1 ELSE eventfd

OwnerQueues(t) ==
    /\ UserCodeRuns
    /\ t \notin Used
    /\ pendingQueue' = Append(pendingQueue, t)
    /\ eventfd' = OwnerWake
    /\ early' = IF phase = "constructed" THEN early \cup {t} ELSE early
    /\ UNCHANGED <<temp, isDoingPending, phase, batch, ready, producer, ran>>

\* runInLoop on the loop's own thread: the callback runs at once
RunInline(t) ==
    /\ UserCodeRuns
    /\ t \notin Used
    /\ ran' = Append(ran, t)
    /\ UNCHANGED <<pendingQueue, temp, eventfd, isDoingPending, phase, batch,
                   ready, producer, early>>

(***************************************************************************)
(* queueInLoop (and runInLoop, which forwards to it) on another thread:    *)
(* the push under the mutex, then the write to the eventfd outside of it.  *)
(***************************************************************************)
ProducerPush(p, t) ==
    /\ producer[p] = NoTask
    /\ t \notin Used
    /\ pendingQueue' = Append(pendingQueue, t)
    /\ producer' = [producer EXCEPT ![p] = t]
    /\ UNCHANGED <<temp, eventfd, isDoingPending, phase, batch, ready, ran, early>>

\* a bug: the write only happens when the loop says it is running its list
WakeOnlyWhenPending(p) ==
    /\ producer[p] # NoTask
    /\ eventfd' = IF isDoingPending THEN eventfd + 1 ELSE eventfd
    /\ producer' = [producer EXCEPT ![p] = NoTask]
    /\ UNCHANGED <<pendingQueue, temp, isDoingPending, phase, batch, ready, ran, early>>

ProducerWake(p) ==
    /\ producer[p] # NoTask
    /\ eventfd' = eventfd + 1
    /\ producer' = [producer EXCEPT ![p] = NoTask]
    /\ UNCHANGED <<pendingQueue, temp, isDoingPending, phase, batch, ready, ran, early>>

-----------------------------------------------------------------------------
\* the kernel: data, a connection or a timer expiry arrives for a channel
Arrive(c) ==
    /\ c \notin ready
    /\ ready' = ready \cup {c}
    /\ UNCHANGED <<pendingQueue, temp, eventfd, isDoingPending, phase, batch,
                   producer, ran, early>>

\* loop() is called, after whatever its owner did with the loop before
StartLoop ==
    /\ phase = "constructed"
    /\ phase' = "epoll_wait"
    /\ UNCHANGED <<pendingQueue, temp, eventfd, isDoingPending, batch, ready,
                   producer, ran, early>>

Pollable == ready \cup (IF eventfd > 0 THEN {EventFd} ELSE {})

\* epoll_wait returns ready channels, at most MAXEVENTS of them
EpollReturn ==
    /\ phase = "epoll_wait"
    /\ Pollable # {}
    /\ batch' \in SUBSET Pollable
    /\ Cardinality(batch') = Min({MaxEvents, Cardinality(Pollable)})
    /\ phase' = "dispatch"
    /\ UNCHANGED <<pendingQueue, temp, eventfd, isDoingPending, ready, producer,
                   ran, early>>

\* a bug: a timed-out wait is handled as if it had reported the eventfd
TimeoutAsWakeup ==
    /\ phase = "epoll_wait"
    /\ Pollable = {}
    /\ phase' = "dispatch"
    /\ batch' = {EventFd}
    /\ UNCHANGED <<pendingQueue, temp, eventfd, isDoingPending, ready,
                   producer, ran, early>>

\* a bug: whatever the event array holds is handled after a failed wait
TimeoutLeavesGarbage ==
    /\ phase = "epoll_wait"
    /\ Pollable = {}
    /\ phase' = "dispatch"
    /\ batch' = {NoTask}
    /\ UNCHANGED <<pendingQueue, temp, eventfd, isDoingPending, ready,
                   producer, ran, early>>

\* epoll_wait returns nothing after TIMEOUT milliseconds
EpollTimeout ==
    /\ phase = "epoll_wait"
    /\ Pollable = {}
    /\ phase' = "dispatch"
    /\ UNCHANGED <<pendingQueue, temp, eventfd, isDoingPending, batch, ready,
                   producer, ran, early>>

\* the eventfd channel's callback: the read resets the counter
ReadEventFd ==
    /\ phase = "dispatch"
    /\ EventFd \in batch
    /\ eventfd' = 0
    /\ batch' = batch \ {EventFd}
    /\ UNCHANGED <<pendingQueue, temp, isDoingPending, phase, ready, producer,
                   ran, early>>

\* another channel's callback returns; it may leave data for the next round
FinishCallback(c) ==
    /\ phase = "dispatch"
    /\ c \in batch \ {EventFd}
    /\ batch' = batch \ {c}
    /\ \/ ready' = ready \ {c}
       \/ UNCHANGED ready
    /\ UNCHANGED <<pendingQueue, temp, eventfd, isDoingPending, phase, producer,
                   ran, early>>

\* a bug: the new list is not swapped in but put behind what was queued
SwapBehind ==
    /\ phase = "dispatch"
    /\ batch = {}
    /\ temp' = SubSeq(pendingQueue, 2, Len(pendingQueue))
    /\ pendingQueue' = IF pendingQueue = <<>> THEN <<>> ELSE <<Head(pendingQueue)>>
    /\ isDoingPending' = TRUE
    /\ phase' = "pending"
    /\ UNCHANGED <<eventfd, batch, ready, producer, ran, early>>

(***************************************************************************)
(* The pending list is swapped out under the mutex, then _isDoingPending   *)
(* is set.  Only the loop's own thread ever reads that flag (another       *)
(* thread's test short-circuits on the thread id), so nobody can tell the  *)
(* two steps apart.                                                        *)
(***************************************************************************)
SwapPending ==
    /\ phase = "dispatch"
    /\ batch = {}
    /\ temp' = pendingQueue
    /\ pendingQueue' = <<>>
    /\ isDoingPending' = TRUE
    /\ phase' = "pending"
    /\ UNCHANGED <<eventfd, batch, ready, producer, ran, early>>

\* the task at the head of the swapped-out list returns
FinishTask ==
    /\ phase = "pending"
    /\ temp # <<>>
    /\ ran' = Append(ran, Head(temp))
    /\ temp' = Tail(temp)
    /\ UNCHANGED <<pendingQueue, eventfd, isDoingPending, phase, batch, ready,
                   producer, early>>

EndPending ==
    /\ phase = "pending"
    /\ temp = <<>>
    /\ isDoingPending' = FALSE
    /\ phase' = "epoll_wait"
    /\ UNCHANGED <<pendingQueue, temp, eventfd, batch, ready, producer, ran, early>>

-----------------------------------------------------------------------------
LoopStep ==
    \/ StartLoop
    \/ EpollReturn
    \/ ReadEventFd
    \/ \E c \in Channels : FinishCallback(c)
    \/ SwapPending
    \/ FinishTask
    \/ EndPending

Next ==
    \/ LoopStep
    \/ EpollTimeout
    \/ \E c \in Channels : Arrive(c)
    \/ \E t \in Tasks : OwnerQueues(t) \/ RunInline(t)
    \/ \E p \in Producers : ProducerWake(p) \/ \E t \in Tasks : ProducerPush(p, t)

(***************************************************************************)
(* Fairness.  The loop's thread is scheduled and user callbacks return; a  *)
(* thread inside queueInLoop reaches its write.  Nobody has to queue       *)
(* anything, no event has to arrive, and nothing counts on the 30 second   *)
(* timeout of epoll_wait.                                                  *)
(***************************************************************************)
Fairness ==
    /\ WF_vars(LoopStep)
    /\ \A p \in Producers : WF_vars(ProducerWake(p))

Spec == Init /\ [][Next]_vars /\ Fairness

-----------------------------------------------------------------------------
\* a wake-up that the loop has not consumed yet, or that a thread still owes it
WakeComing == eventfd > 0 \/ \E p \in Producers : producer[p] # NoTask

(***************************************************************************)
(* No lost wake-up: the loop never sleeps in epoll_wait on work that       *)
(* nothing will wake it for, except work its own thread queued before      *)
(* calling loop() (queueInLoop:110 does not wake for that).                *)
(***************************************************************************)
NoLostWakeup ==
    phase = "epoll_wait" => (Range(pendingQueue) \subseteq early \/ WakeComing)

(***************************************************************************)
(* The eventfd is a blocking descriptor: its callback's read would hang    *)
(* the loop if the counter had been consumed since epoll_wait reported it. *)
(***************************************************************************)
EventfdReadNeverBlocks == EventFd \in batch => eventfd > 0

(***************************************************************************)
(* Work queued by another thread, or by a callback or a task of the loop,  *)
(* runs, and without waiting for epoll_wait's timeout.                     *)
(***************************************************************************)
QueuedTaskRuns ==
    \A t \in Tasks :
        (t \in Range(pendingQueue) \ early) ~> (t \in Range(ran))

(***************************************************************************)
(* The loop implements the task queue it promises: what is swapped out     *)
(* runs before what is queued behind it, once each and in order.           *)
(***************************************************************************)
TQ == INSTANCE TaskQueue WITH queue <- temp \o pendingQueue

ImplementsTaskQueue == TQ!Spec
=============================================================================
