--------------------------- MODULE EventLoopProof ---------------------------
(***************************************************************************)
(* Proofs about EventLoop, for any number of tasks, producer threads and   *)
(* channels: type correctness, the absence of lost wake-ups, a read of the *)
(* eventfd that never blocks, and the refinement of TaskQueue.             *)
(***************************************************************************)
EXTENDS EventLoop, SequenceTheorems, TLAPS

(***************************************************************************)
(* The inductive invariant.  NoLostWakeup only speaks of a loop that is    *)
(* about to block; it must be known earlier, from the moment the list is   *)
(* swapped out on: while a task of that list queues more work, the flag    *)
(* _isDoingPending is what makes it write the eventfd.  In the dispatch    *)
(* phase nothing is required, since the swap is still to come.             *)
(***************************************************************************)
FlagMeansPending == isDoingPending <=> phase = "pending"

TempOnlyWhilePending == temp # <<>> => phase = "pending"

BatchOnlyInDispatch == batch # {} => phase = "dispatch"

WakeUnlessDispatching ==
    phase # "dispatch" => (Range(pendingQueue) \subseteq early \/ WakeComing)

IndInv ==
    /\ TypeOK
    /\ FlagMeansPending
    /\ TempOnlyWhilePending
    /\ BatchOnlyInDispatch
    /\ WakeUnlessDispatching
    /\ EventfdReadNeverBlocks

-----------------------------------------------------------------------------
\* Appending a task to a list adds it, and nothing else, to the list's range.
LEMMA RangeOfAppend ==
    ASSUME NEW q \in Seq(Tasks), NEW t \in Tasks
    PROVE  Range(Append(q, t)) = Range(q) \cup {t}
<1> DEFINE n == Len(q)
<1>1. /\ Append(q, t) \in Seq(Tasks)
      /\ DOMAIN Append(q, t) = 1 .. (n + 1)
      /\ DOMAIN q = 1 .. n
      /\ n \in Nat
  OBVIOUS
<1>2. /\ \A i \in 1 .. n : Append(q, t)[i] = q[i]
      /\ Append(q, t)[n + 1] = t
  OBVIOUS
<1>3. 1 .. (n + 1) = (1 .. n) \cup {n + 1}
  BY <1>1
<1>. QED
  BY <1>1, <1>2, <1>3, Zenon DEF Range

\* The empty list has no members.
LEMMA RangeOfEmpty == Range(<<>>) = {}
  BY DEF Range

\* A just constructed loop satisfies the inductive invariant.
LEMMA InitInv == Init => IndInv
<1> SUFFICES ASSUME Init
             PROVE  IndInv
  OBVIOUS
<1>1. TypeOK
  <2>1. <<>> \in Seq(Tasks)
    OBVIOUS
  <2>2. producer \in [Producers -> Tasks \cup {NoTask}]
    BY DEF Init
  <2>. QED
    BY <2>1, <2>2 DEF Init, TypeOK, Phases
<1>2. FlagMeansPending
  BY DEF Init, FlagMeansPending
<1>3. WakeUnlessDispatching
  BY RangeOfEmpty DEF Init, WakeUnlessDispatching
<1>. QED
  BY <1>1, <1>2, <1>3
     DEF Init, IndInv, TempOnlyWhilePending, BatchOnlyInDispatch,
         EventfdReadNeverBlocks

\* Every step of the loop, of its owner's callbacks, of the producers and of
\* the kernel preserves the inductive invariant.
LEMMA NextInv == IndInv /\ [Next]_vars => IndInv'
<1> SUFFICES ASSUME IndInv, [Next]_vars
             PROVE  IndInv'
  OBVIOUS
<1> USE LoopAssumption DEF IndInv
<1>1. ASSUME NEW t \in Tasks, OwnerQueues(t)
      PROVE  IndInv'
  <2>1. TypeOK'
    BY <1>1 DEF OwnerQueues, OwnerWake, TypeOK
  <2>2. WakeUnlessDispatching'
    <3>1. Range(pendingQueue') = Range(pendingQueue) \cup {t}
      BY <1>1, RangeOfAppend DEF OwnerQueues, TypeOK
    <3>2. CASE phase = "constructed"
      BY <1>1, <3>1, <3>2
         DEF OwnerQueues, OwnerWake, WakeUnlessDispatching, WakeComing, TypeOK,
             FlagMeansPending
    <3>3. CASE phase = "pending"
      BY <1>1, <3>3
         DEF OwnerQueues, OwnerWake, WakeUnlessDispatching, WakeComing, TypeOK,
             FlagMeansPending
    <3>4. CASE phase = "dispatch"
      BY <1>1, <3>4 DEF OwnerQueues, WakeUnlessDispatching
    <3>. QED
      BY <1>1, <3>2, <3>3, <3>4 DEF OwnerQueues, UserCodeRuns
  <2>3. EventfdReadNeverBlocks'
    BY <1>1 DEF OwnerQueues, OwnerWake, EventfdReadNeverBlocks, TypeOK
  <2>. QED
    BY <1>1, <2>1, <2>2, <2>3
       DEF OwnerQueues, FlagMeansPending, TempOnlyWhilePending, BatchOnlyInDispatch
<1>2. ASSUME NEW t \in Tasks, RunInline(t)
      PROVE  IndInv'
  BY <1>2
     DEF RunInline, TypeOK, FlagMeansPending, TempOnlyWhilePending,
         BatchOnlyInDispatch, WakeUnlessDispatching, WakeComing,
         EventfdReadNeverBlocks
<1>3. ASSUME NEW p \in Producers, NEW t \in Tasks, ProducerPush(p, t)
      PROVE  IndInv'
  <2>1. TypeOK'
    BY <1>3 DEF ProducerPush, TypeOK
  <2>2. WakeComing'
    BY <1>3 DEF ProducerPush, WakeComing, TypeOK
  <2>. QED
    BY <1>3, <2>1, <2>2
       DEF ProducerPush, FlagMeansPending, TempOnlyWhilePending,
           BatchOnlyInDispatch, WakeUnlessDispatching, EventfdReadNeverBlocks
<1>4. ASSUME NEW p \in Producers, ProducerWake(p)
      PROVE  IndInv'
  <2>1. TypeOK'
    BY <1>4 DEF ProducerWake, TypeOK
  <2>2. eventfd' > 0
    BY <1>4 DEF ProducerWake, TypeOK
  <2>. QED
    BY <1>4, <2>1, <2>2
       DEF ProducerWake, FlagMeansPending, TempOnlyWhilePending, WakeComing,
           BatchOnlyInDispatch, WakeUnlessDispatching, EventfdReadNeverBlocks
<1>5. ASSUME NEW c \in Channels, Arrive(c)
      PROVE  IndInv'
  BY <1>5
     DEF Arrive, TypeOK, FlagMeansPending, TempOnlyWhilePending,
         BatchOnlyInDispatch, WakeUnlessDispatching, WakeComing,
         EventfdReadNeverBlocks
<1>6. CASE StartLoop
  BY <1>6
     DEF StartLoop, TypeOK, Phases, FlagMeansPending, TempOnlyWhilePending,
         BatchOnlyInDispatch, WakeUnlessDispatching, WakeComing,
         EventfdReadNeverBlocks
<1>7. CASE EpollReturn
  <2>1. batch' \subseteq Channels \cup {EventFd}
    BY <1>7 DEF EpollReturn, Pollable, TypeOK
  <2>2. EventFd \in batch' => eventfd' > 0
    BY <1>7 DEF EpollReturn, Pollable, TypeOK
  <2>. QED
    BY <1>7, <2>1, <2>2
       DEF EpollReturn, TypeOK, Phases, FlagMeansPending, TempOnlyWhilePending,
           BatchOnlyInDispatch, WakeUnlessDispatching, EventfdReadNeverBlocks
<1>8. CASE EpollTimeout
  BY <1>8
     DEF EpollTimeout, TypeOK, Phases, FlagMeansPending, TempOnlyWhilePending,
         BatchOnlyInDispatch, WakeUnlessDispatching, EventfdReadNeverBlocks
<1>9. CASE ReadEventFd
  BY <1>9
     DEF ReadEventFd, TypeOK, FlagMeansPending, TempOnlyWhilePending,
         BatchOnlyInDispatch, WakeUnlessDispatching, EventfdReadNeverBlocks
<1>10. ASSUME NEW c \in Channels, FinishCallback(c)
       PROVE  IndInv'
  BY <1>10
     DEF FinishCallback, TypeOK, FlagMeansPending, TempOnlyWhilePending,
         BatchOnlyInDispatch, WakeUnlessDispatching, EventfdReadNeverBlocks
<1>11. CASE SwapPending
  BY <1>11, RangeOfEmpty
     DEF SwapPending, TypeOK, Phases, FlagMeansPending, TempOnlyWhilePending,
         BatchOnlyInDispatch, WakeUnlessDispatching, EventfdReadNeverBlocks
<1>12. CASE FinishTask
  <2>1. TypeOK'
    BY <1>12 DEF FinishTask, TypeOK
  <2>. QED
    BY <1>12, <2>1
       DEF FinishTask, FlagMeansPending, TempOnlyWhilePending, WakeComing,
           BatchOnlyInDispatch, WakeUnlessDispatching, EventfdReadNeverBlocks
<1>13. CASE EndPending
  BY <1>13
     DEF EndPending, TypeOK, Phases, FlagMeansPending, TempOnlyWhilePending,
         BatchOnlyInDispatch, WakeUnlessDispatching, WakeComing,
         EventfdReadNeverBlocks
<1>14. CASE UNCHANGED vars
  BY <1>14
     DEF vars, TypeOK, FlagMeansPending, TempOnlyWhilePending,
         BatchOnlyInDispatch, WakeUnlessDispatching, WakeComing,
         EventfdReadNeverBlocks
<1>. QED
  BY <1>1, <1>2, <1>3, <1>4, <1>5, <1>6, <1>7, <1>8, <1>9, <1>10, <1>11,
     <1>12, <1>13, <1>14
     DEF Next, LoopStep

\* The inductive invariant holds in every reachable state.
LEMMA Invariance == Spec => []IndInv
  BY InitInv, NextInv, PTL DEF Spec

\* Every variable of the loop keeps its type.
THEOREM TypeCorrect == Spec => []TypeOK
  BY Invariance, PTL DEF IndInv

\* No wake-up is lost: a loop about to sleep in epoll_wait on queued work has
\* a wake-up coming, whatever its producers and its own callbacks did, unless
\* its owner queued that work before calling loop().
THEOREM NoWakeupIsLost == Spec => []NoLostWakeup
<1>1. IndInv => NoLostWakeup
  BY DEF IndInv, WakeUnlessDispatching, NoLostWakeup
<1>. QED
  BY <1>1, Invariance, PTL

\* The eventfd callback's read finds a counter to consume, so it returns.
THEOREM EventfdReadReturns == Spec => []EventfdReadNeverBlocks
  BY Invariance, PTL DEF IndInv

-----------------------------------------------------------------------------
(***************************************************************************)
(* The refinement of TaskQueue: its queue is what was swapped out followed *)
(* by what is queued behind it.                                            *)
(***************************************************************************)

\* Queueing behind both lists, and taking the head of the first.
LEMMA ConcatSteps ==
    ASSUME NEW q \in Seq(Tasks), NEW r \in Seq(Tasks), NEW t \in Tasks
    PROVE  /\ q \o Append(r, t) = Append(q \o r, t)
           /\ <<>> \o r = r
           /\ q \o <<>> = q
           /\ q # <<>> => /\ q \o r # <<>>
                          /\ Head(q \o r) = Head(q)
                          /\ Tail(q \o r) = Tail(q) \o r
<1>1. q \o Append(r, t) = Append(q \o r, t)
  OBVIOUS
<1>2. <<>> \o r = r
  OBVIOUS
<1>3. q \o <<>> = q
  OBVIOUS
<1>4. ASSUME q # <<>>
      PROVE  q \o r # <<>> /\ Head(q \o r) = Head(q)
  BY <1>4
<1>5. ASSUME q # <<>>
      PROVE  Tail(q \o r) = Tail(q) \o r
  BY <1>5
<1>. QED
  BY <1>1, <1>2, <1>3, <1>4, <1>5

\* A callable the loop does not know is one the task queue does not know.
LEMMA UsedIsSubmitted == TypeOK => TQ!Submitted = Used
<1> SUFFICES ASSUME TypeOK
             PROVE  TQ!Submitted = Used
  OBVIOUS
<1>1. Range(temp \o pendingQueue) = Range(temp) \cup Range(pendingQueue)
  BY RangeConcatenation DEF TypeOK
<1>2. TQ!Submitted = Range(temp \o pendingQueue) \cup Range(ran)
  BY DEF TQ!Submitted, TQ!Range, Range
<1>. QED
  BY <1>1, <1>2 DEF Used

\* Every step of the loop is a step of the task queue or leaves it alone.
LEMMA StepRefines == IndInv /\ [Next]_vars => [TQ!Next]_TQ!vars
<1> SUFFICES ASSUME IndInv, [Next]_vars
             PROVE  [TQ!Next]_TQ!vars
  OBVIOUS
<1>0. /\ TypeOK
      /\ TQ!Submitted = Used
  BY UsedIsSubmitted DEF IndInv
<1>1. ASSUME NEW t \in Tasks,
             pendingQueue' = Append(pendingQueue, t), t \notin Used,
             UNCHANGED <<temp, ran>>
      PROVE  TQ!Next
  <2>1. temp' \o pendingQueue' = Append(temp \o pendingQueue, t)
    BY <1>0, <1>1, ConcatSteps DEF TypeOK
  <2>. QED
    BY <1>0, <1>1, <2>1 DEF TQ!Next, TQ!Submit
<1>2. ASSUME NEW t \in Tasks, RunInline(t)
      PROVE  TQ!Next
  BY <1>0, <1>2 DEF RunInline, TQ!Next, TQ!RunInline
<1>3. CASE FinishTask
  <2>1. /\ temp \o pendingQueue # <<>>
        /\ Head(temp) = Head(temp \o pendingQueue)
        /\ temp' \o pendingQueue' = Tail(temp \o pendingQueue)
    <3>1. Head(temp) \in Tasks
      BY <1>0, <1>3 DEF FinishTask, TypeOK
    <3>. QED
      BY <1>0, <1>3, <3>1, ConcatSteps DEF FinishTask, TypeOK
  <2>. QED
    BY <1>3, <2>1 DEF FinishTask, TQ!Next, TQ!RunNext
<1>4. CASE SwapPending
  <2>1. temp = <<>>
    BY <1>4 DEF SwapPending, IndInv, TempOnlyWhilePending
  <2>2. temp' \o pendingQueue' = temp \o pendingQueue
    BY <1>0, <1>4, <2>1 DEF SwapPending, TypeOK
  <2>. QED
    BY <1>4, <2>2 DEF SwapPending, TQ!vars
<1>5. ASSUME UNCHANGED <<pendingQueue, temp, ran>>
      PROVE  UNCHANGED TQ!vars
  BY <1>5 DEF TQ!vars
<1>. QED
  BY <1>1, <1>2, <1>3, <1>4, <1>5
     DEF Next, LoopStep, vars, OwnerQueues, ProducerPush, ProducerWake, Arrive,
         StartLoop, EpollReturn, EpollTimeout, ReadEventFd, FinishCallback,
         EndPending

\* The loop implements the task queue: no callable is lost, none runs twice,
\* and what is queued runs in the order of queueing.
THEOREM RefinesTaskQueue == Spec => ImplementsTaskQueue
<1>1. Init => TQ!Init
  BY DEF Init, TQ!Init
<1>. QED
  BY <1>1, Invariance, StepRefines, PTL DEF Spec, TQ!Spec, ImplementsTaskQueue
=============================================================================
