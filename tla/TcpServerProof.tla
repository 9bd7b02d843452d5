---------------------------- MODULE TcpServerProof ----------------------------
(***************************************************************************)
(* Proofs about TcpServer, for any connections, any pool of io loops and   *)
(* any bound of their queues: who keeps a connection alive, and what the   *)
(* shared _ev may mix up.                                                  *)
(***************************************************************************)
EXTENDS TcpServer, FiniteSetTheorems, SequenceTheorems, TLAPS

(***************************************************************************)
(* Whose channel a loop may be handling: one that is registered by now, or *)
(* one that was registered for another's descriptor.                       *)
(***************************************************************************)
PastAdding(c) ==
    c \in stray \/ (c = accConn => accStep \in {"registered", "connected"})

(***************************************************************************)
(* The inductive invariant.  What keeps a registered connection alive is   *)
(* the accept thread or m_conns, never a callback: a close callback gives  *)
(* up a connection that was taken out of the epoll instance before and     *)
(* that the accept thread will not register again, unless it is a stray.   *)
(***************************************************************************)
Registered ==
    /\ accConn \in Made \cup {None}
    /\ accConn \in inEpoll => accStep \in {"registered", "connected"}
    /\ inEpoll \ stray \subseteq {accConn} \cup conns

Closing ==
    \A l \in Loops : at[l] \in {"close", "closing"} =>
        \A c \in held[l] : c \in stray \/ (c \notin inEpoll /\ PastAdding(c))

\* Only a close callback makes the server forget a connection.
Kept == Made \subseteq {accConn} \cup conns \cup gone

\* What is in an Epoll's _ev is the channel of a connection of its loop, and it
\* is there when epoll_ctl reads it.
Events ==
    /\ \A l \in Loops : ev[l] # None => loopOf[ev[l]] = l
    /\ \A l \in Loops : updating[l] # None =>
                             ev[l] # None /\ loopOf[updating[l]] = l
    /\ accStep = "filled" => ev[loopOf[accConn]] # None

\* What the kernel has for c's descriptor: c's channel, or a stray's of its loop.
Pointers ==
    \A c \in inEpoll :
        /\ ptr[c] \in Made /\ loopOf[ptr[c]] = loopOf[c]
        /\ ptr[c] # c => ptr[c] \in stray

\* What a loop has been reported and what it is handling.
Reports ==
    /\ ConfinedToLoop
    /\ \A l \in Loops :
          /\ \A b \in batch[l] : PastAdding(b[2])
          /\ channel[l] # None => PastAdding(channel[l])

Sending ==
    \A l \in Loops :
        /\ toSend[l] \subseteq held[l]
        /\ at[l] # "broadcast" => toSend[l] = {}

\* The tasks on a loop's queue are of its own connections.
OwnTasks(l, q) == \A i \in DOMAIN q : q[i].conn \in Made /\ loopOf[q[i].conn] = l

TasksAreOwn == \A l \in Loops : OwnTasks(l, pending[l])

IndInv ==
    /\ TypeOK
    /\ Registered
    /\ Closing
    /\ Kept
    /\ Events
    /\ Pointers
    /\ Reports
    /\ Sending
    /\ TasksAreOwn

-----------------------------------------------------------------------------
\* The index of the next loop is that of a loop.
LEMMA NextIndexInRange ==
    ASSUME current \in Nat
    PROVE  NextIndex \in 0 .. Cardinality(Loops) - 1
<1>1. Cardinality(Loops) \in Nat \ {0}
  BY FS_CardinalityType, FS_EmptySet, ServerAssumption
<1>. QED
  BY <1>1 DEF NextIndex

\* A server that was just constructed satisfies the inductive invariant.
LEMMA InitInv == Init => IndInv
<1> SUFFICES ASSUME Init
             PROVE  IndInv
  OBVIOUS
<1>1. TypeOK
  <2>1. current \in 0 .. Cardinality(Loops) - 1
    BY FS_CardinalityType, FS_EmptySet, ServerAssumption DEF Init
  <2>2. loops \in Seq(Loops) /\ IsInjective(loops)
    BY DEF Init, IsInjective
  <2>3. /\ pending \in [Loops -> Seq(Task)] /\ swapped \in [Loops -> Nat]
        /\ \A l \in Loops : swapped[l] \in 0 .. Len(pending[l])
    BY DEF Init
  <2>. QED
    BY <2>1, <2>2, <2>3, Zenon DEF Init, TypeOK, Made
<1>2. Made = {}
  BY DEF Init, Made
<1>3. Events /\ Pointers /\ Reports
  BY DEF Init, Events, Pointers, Reports, ConfinedToLoop
<1>4. Sending /\ TasksAreOwn
  BY DEF Init, Sending, TasksAreOwn, OwnTasks
<1>. QED
  BY <1>1, <1>2, <1>3, <1>4, ServerAssumption
     DEF Init, IndInv, Registered, Closing, Kept
-----------------------------------------------------------------------------
\* Queueing a task of a loop's own connection keeps the queues what they are.
LEMMA QueueKeepsTasks ==
    ASSUME TypeOK, TasksAreOwn, NEW c \in Made, NEW kind \in {"send", "complete"},
           QueueTask(loopOf[c], c, kind)
    PROVE  /\ pending' \in [Loops -> Seq(Task)]
           /\ \A k \in Loops : Len(pending'[k]) >= Len(pending[k])
           /\ \A k \in Loops : OwnTasks(k, pending'[k])
<1> DEFINE home == loopOf[c]
           task == [conn |-> c, kind |-> kind]
<1>1. home \in Loops /\ task \in Task
  BY DEF Made, TypeOK, Task
<1>2. pending' = [pending EXCEPT ![home] = Append(@, task)]
  BY DEF QueueTask
<1>3. pending[home] \in Seq(Task) /\ \A k \in Loops : Len(pending[k]) \in Nat
  BY <1>1 DEF TypeOK
<1>4. task.conn = c /\ loopOf[task.conn] = home
  OBVIOUS
<1> HIDE DEF home, task
<1>5. /\ pending'[home] = Append(pending[home], task)
      /\ \A k \in Loops \ {home} : pending'[k] = pending[k]
      /\ pending' \in [Loops -> Seq(Task)]
  BY <1>1, <1>2, <1>3 DEF TypeOK
<1>6. /\ Len(pending'[home]) = Len(pending[home]) + 1
      /\ DOMAIN pending'[home] = 1 .. Len(pending[home]) + 1
      /\ DOMAIN pending[home] = 1 .. Len(pending[home])
      /\ pending'[home][Len(pending[home]) + 1] = task
      /\ \A i \in 1 .. Len(pending[home]) : pending'[home][i] = pending[home][i]
  BY <1>1, <1>3, <1>5
<1>7. \A k \in Loops : Len(pending'[k]) >= Len(pending[k])
  BY <1>3, <1>5, <1>6
<1>8. OwnTasks(home, pending'[home])
  <2>1. OwnTasks(home, pending[home])
    BY <1>1 DEF TasksAreOwn
  <2>2. SUFFICES ASSUME NEW i \in DOMAIN pending'[home]
                 PROVE  /\ pending'[home][i].conn \in Made
                        /\ loopOf[pending'[home][i].conn] = home
    BY DEF OwnTasks
  <2>3. CASE i = Len(pending[home]) + 1
    BY <1>4, <1>6, <2>3
  <2>4. CASE i # Len(pending[home]) + 1
    <3>1. i \in DOMAIN pending[home] /\ pending'[home][i] = pending[home][i]
      BY <1>1, <1>3, <1>6, <2>2, <2>4
    <3>. QED
      BY <2>1, <3>1 DEF OwnTasks
  <2>. QED
    BY <2>3, <2>4
<1>9. \A k \in Loops : OwnTasks(k, pending'[k])
  BY <1>5, <1>8 DEF TasksAreOwn
<1>. QED
  BY <1>5, <1>7, <1>9

\* A task that is run may leave its connection's completion in the queue.
LEMMA RunKeepsTasks ==
    ASSUME TypeOK, TasksAreOwn, NEW l \in Loops, RunTask(l)
    PROVE  /\ pending' \in [Loops -> Seq(Task)]
           /\ swapped' \in [Loops -> Nat]
           /\ \A k \in Loops : swapped'[k] \in 0 .. Len(pending'[k])
           /\ \A k \in Loops : OwnTasks(k, pending'[k])
           /\ Head(pending[l]).conn \in Made /\ loopOf[Head(pending[l]).conn] = l
<1> DEFINE t == Head(pending[l])
           rest == Tail(pending[l])
           complete == [conn |-> t.conn, kind |-> "complete"]
<1>1. /\ swapped[l] \in Nat /\ swapped[l] > 0 /\ swapped[l] <= Len(pending[l])
      /\ swapped' = [swapped EXCEPT ![l] = @ - 1]
      /\ pending[l] \in Seq(Task) /\ Len(pending[l]) \in Nat
  BY DEF RunTask, TypeOK
<1>2. /\ pending[l] # <<>>
      /\ t \in Task /\ t = pending[l][1]
      /\ rest \in Seq(Task) /\ Len(rest) = Len(pending[l]) - 1
      /\ \A i \in 1 .. Len(rest) : rest[i] = pending[l][i + 1]
      /\ DOMAIN pending[l] = 1 .. Len(pending[l])
  BY <1>1
<1>3. complete \in Task /\ complete.conn = t.conn
  BY <1>2 DEF Task
<1>4. PICK q \in {rest, Append(rest, complete)} : pending' = [pending EXCEPT ![l] = q]
  BY Zenon DEF RunTask
<1> HIDE DEF t, rest, complete
<1>5. /\ q \in Seq(Task) /\ Len(q) \in Nat /\ Len(q) >= Len(rest)
      /\ DOMAIN q = 1 .. Len(q)
      /\ \A i \in 1 .. Len(q) :
            \/ i \in 1 .. Len(rest) /\ q[i] = rest[i]
            \/ q[i] = complete
  <2>1. CASE q = rest
    BY <1>2, <2>1
  <2>2. CASE q = Append(rest, complete)
    BY <1>2, <1>3, <2>2
  <2>. QED
    BY <2>1, <2>2, <1>4
<1>6. /\ pending' \in [Loops -> Seq(Task)] /\ swapped' \in [Loops -> Nat]
      /\ pending'[l] = q /\ swapped'[l] = swapped[l] - 1
      /\ \A k \in Loops \ {l} : pending'[k] = pending[k] /\ swapped'[k] = swapped[k]
  <2>1. pending \in [Loops -> Seq(Task)] /\ swapped \in [Loops -> Nat]
    BY DEF TypeOK
  <2>2. swapped[l] - 1 \in Nat
    BY <1>1
  <2>. QED
    BY <2>1, <2>2, <1>1, <1>4, <1>5
<1>7. \A k \in Loops : swapped'[k] \in 0 .. Len(pending'[k])
  <2>1. swapped'[l] \in 0 .. Len(pending'[l])
    <3>1. swapped'[l] = swapped[l] - 1 /\ Len(pending'[l]) = Len(q)
      BY <1>6
    <3>2. Len(q) \in Nat /\ Len(q) >= Len(pending[l]) - 1
      BY <1>1, <1>2, <1>5
    <3>3. swapped[l] \in Nat /\ swapped[l] > 0 /\ swapped[l] <= Len(pending[l])
      BY <1>1
    <3>4. Len(pending[l]) \in Nat
      BY <1>1
    <3>. QED
      BY <3>1, <3>2, <3>3, <3>4
  <2>2. \A k \in Loops \ {l} : swapped'[k] \in 0 .. Len(pending'[k])
    BY <1>6 DEF TypeOK
  <2>. QED
    BY <2>1, <2>2
<1>8. \A i \in 1 .. Len(q) : \E j \in DOMAIN pending[l] : q[i].conn = pending[l][j].conn
  <2>1. ASSUME NEW i \in 1 .. Len(q), i \in 1 .. Len(rest), q[i] = rest[i]
        PROVE  \E j \in DOMAIN pending[l] : q[i].conn = pending[l][j].conn
    <3>1. i + 1 \in DOMAIN pending[l] /\ q[i] = pending[l][i + 1]
      BY <1>1, <1>2, <2>1
    <3>. QED
      BY <3>1, Zenon
  <2>2. ASSUME NEW i \in 1 .. Len(q), q[i] = complete
        PROVE  \E j \in DOMAIN pending[l] : q[i].conn = pending[l][j].conn
    <3>1. 1 \in DOMAIN pending[l] /\ q[i].conn = pending[l][1].conn
      BY <1>1, <1>2, <1>3, <2>2
    <3>. QED
      BY <3>1, Zenon
  <2>. QED
    BY <1>5, <2>1, <2>2
<1>9. ASSUME NEW k \in Loops
      PROVE  OwnTasks(k, pending'[k])
  <2>1. CASE k = l
    <3>1. OwnTasks(l, pending[l])
      BY DEF TasksAreOwn
    <3>2. DOMAIN pending'[l] = 1 .. Len(q) /\ pending'[l] = q
      BY <1>5, <1>6
    <3>3. ASSUME NEW i \in DOMAIN pending'[l]
          PROVE  pending'[l][i].conn \in Made /\ loopOf[pending'[l][i].conn] = l
      <4>1. PICK j \in DOMAIN pending[l] : pending'[l][i].conn = pending[l][j].conn
        BY <1>8, <3>2, <3>3, Zenon
      <4>. QED
        BY <3>1, <4>1, Zenon DEF OwnTasks
    <3>. QED
      BY <2>1, <3>3, Zenon DEF OwnTasks
  <2>2. CASE k # l
    <3>1. pending'[k] = pending[k]
      BY <1>6, <2>2
    <3>. QED
      BY <3>1 DEF TasksAreOwn
  <2>. QED
    BY <2>1, <2>2
<1>10. Head(pending[l]).conn \in Made /\ loopOf[Head(pending[l]).conn] = l
  <2>1. 1 \in DOMAIN pending[l] /\ Head(pending[l]) = pending[l][1]
    BY <1>1, <1>2 DEF t
  <2>. QED
    BY <2>1, Zenon DEF TasksAreOwn, OwnTasks
<1>. QED
  BY <1>6, <1>7, <1>9, <1>10

\* Every step of the accept thread and of the io loops keeps the invariant.
LEMMA NextInv == IndInv /\ [Next]_vars => IndInv'
<1> SUFFICES ASSUME IndInv, [Next]_vars
             PROVE  IndInv'
  OBVIOUS
<1> USE ServerAssumption DEF IndInv, accept, epoll, queues, threads
<1>1. ASSUME NEW c \in Conns, Accept(c)
      PROVE  IndInv'
  <2>1. Made \subseteq Made' /\ Made' \subseteq Conns
    BY <1>1 DEF Accept, Made, TypeOK
  <2>2. TypeOK'
    <3>. current \in Nat /\ Len(loops) \in Nat
      BY FS_CardinalityType DEF TypeOK
    <3>1. CASE current >= Len(loops)
      <4>1. Made' = Made
        BY <1>1, <3>1 DEF Accept, Made
      <4>2. crashed' = TRUE
        BY <1>1, <3>1 DEF Accept
      <4>. QED
        BY <1>1, <3>1, <4>1, <4>2 DEF Accept, TypeOK
    <3>2. CASE current < Len(loops)
      <4>1. /\ loops[current + 1] \in Loops
            /\ NextIndex \in 0 .. Cardinality(Loops) - 1
        BY <3>2, NextIndexInRange DEF TypeOK
      <4>2. c \in Made'
        BY <1>1, <3>2, <4>1 DEF Accept, TypeOK, Made
      <4>3. /\ ev' \in [Loops -> Made' \cup {None}]
            /\ updating' \in [Loops -> Made' \cup {None}]
        BY <1>1, <2>1 DEF Accept, TypeOK
      <4>4. batch' \in [Loops -> SUBSET (Made' \X Made')]
        BY <1>1, <2>1 DEF Accept, TypeOK
      <4>. QED
        BY <1>1, <2>1, <3>2, <4>1, <4>2, <4>3, <4>4 DEF Accept, TypeOK
    <3>. QED
      BY <3>1, <3>2
  <2>3. \A d \in Made : d # accConn' /\ loopOf'[d] = loopOf[d]
    BY <1>1 DEF Accept, Made, TypeOK, Registered
  <2>4. UNCHANGED <<inEpoll, ev, ptr, updating, stray, conns, threads, queues, gone>>
    BY <1>1 DEF Accept
  <2>5. Registered'
    BY <1>1, <2>1, <2>3, NextIndexInRange DEF Accept, Registered, TypeOK, Made
  <2>6. Closing'
    BY <2>3, <2>4 DEF Closing, PastAdding, TypeOK
  <2>7. Kept'
    BY <1>1, <2>1, NextIndexInRange DEF Accept, Kept, TypeOK, Made
  <2>8. Events'
    <3>1. accStep' \in {"idle", "made"}
      BY <1>1 DEF Accept
    <3>2. \A l \in Loops : /\ ev[l] # None => ev[l] \in Made
                           /\ updating[l] # None => updating[l] \in Made
      BY DEF TypeOK
    <3>3. ev' = ev /\ updating' = updating
      BY <2>4
    <3>. QED
      BY <2>3, <3>1, <3>2, <3>3 DEF Events
  <2>9. Pointers'
    BY <2>1, <2>3, <2>4 DEF Pointers, TypeOK
  <2>10. Reports'
    <3>1. \A l \in Loops : /\ \A b \in batch[l] : b[2] \in Made
                           /\ channel[l] # None => channel[l] \in Made
      BY DEF TypeOK
    <3>2. \A d \in Made : PastAdding(d)'
      BY <2>3, <2>4 DEF PastAdding
    <3>3. batch' = batch /\ channel' = channel
      BY <2>4
    <3>. QED
      BY <2>3, <3>1, <3>2, <3>3 DEF Reports, ConfinedToLoop
  <2>11. Sending'
    BY <2>4 DEF Sending
  <2>12. TasksAreOwn'
    BY <2>1, <2>3, <2>4 DEF TasksAreOwn, OwnTasks
  <2>. QED
    BY <2>2, <2>5, <2>6, <2>7, <2>8, <2>9, <2>10, <2>11, <2>12
<1>2. CASE FillEvent
  <2>1. Made' = Made /\ Made \subseteq Conns
    BY <1>2 DEF FillEvent, Made
  <2>2. TypeOK'
    BY <1>2, <2>1 DEF FillEvent, TypeOK, Registered
  <2>3. Registered'
    BY <1>2, <2>1 DEF FillEvent, Registered, TypeOK
  <2>4. Closing'
    BY <1>2, <2>1 DEF FillEvent, Closing, PastAdding, TypeOK
  <2>5. Events'
    <3>1. accConn \in Made /\ loopOf[accConn] \in Loops /\ accConn # None
      BY <1>2 DEF FillEvent, TypeOK, Registered, Made
    <3>2. /\ ev'[loopOf[accConn]] = accConn
          /\ \A l \in Loops \ {loopOf[accConn]} : ev'[l] = ev[l]
      BY <1>2, <3>1 DEF FillEvent, TypeOK
    <3>. QED
      BY <1>2, <3>1, <3>2 DEF FillEvent, Events, TypeOK
  <2>6. Reports'
    BY <1>2, <2>1 DEF FillEvent, Reports, ConfinedToLoop, PastAdding, TypeOK
  <2>7. Kept' /\ Pointers' /\ Sending' /\ TasksAreOwn'
    BY <1>2, <2>1 DEF FillEvent, Kept, Pointers, Sending, TasksAreOwn, OwnTasks
  <2>. QED
    BY <2>2, <2>3, <2>4, <2>5, <2>6, <2>7
<1>3. CASE Register
  <2>1. Made' = Made /\ Made \subseteq Conns
    BY <1>3 DEF Register, Made
  <2>2. TypeOK'
    <3>1. accConn \in Made /\ loopOf[accConn] \in Loops /\ ev[loopOf[accConn]] \in Made
      BY <1>3 DEF Register, TypeOK, Registered, Made, Events
    <3>2. /\ ptr' \in [Conns -> Made \cup {None}]
          /\ inEpoll' \subseteq Made /\ stray' \subseteq Made
      BY <1>3, <3>1 DEF Register, SetPointer, TypeOK
    <3>. QED
      BY <1>3, <2>1, <3>1, <3>2 DEF Register, TypeOK
  <2>3. Registered'
    BY <1>3, <2>1 DEF Register, Registered, TypeOK, SetPointer
  <2>4. Closing'
    BY <1>3, <2>1 DEF Register, Closing, PastAdding, TypeOK, SetPointer
  <2>5. Events'
    BY <1>3, <2>1 DEF Register, Events, TypeOK
  <2>6. Pointers'
    <3>1. /\ accConn \in Made /\ loopOf[accConn] \in Loops
          /\ ev[loopOf[accConn]] \in Made
          /\ loopOf[ev[loopOf[accConn]]] = loopOf[accConn]
      BY <1>3 DEF Register, TypeOK, Registered, Made, Events
    <3>2. CASE accConn \in failed
      BY <1>3, <2>1, <3>2 DEF Register, Pointers
    <3>3. CASE accConn \notin failed
      <4>1. /\ inEpoll' = inEpoll \cup {accConn}
            /\ ptr' = [ptr EXCEPT ![accConn] = ev[loopOf[accConn]]]
            /\ stray' = stray \cup ({ev[loopOf[accConn]]} \ {accConn})
            /\ loopOf' = loopOf
        BY <1>3, <3>3 DEF Register, SetPointer
      <4>. QED
        BY <2>1, <3>1, <4>1 DEF Pointers, TypeOK
    <3>. QED
      BY <3>2, <3>3
  <2>7. Reports'
    BY <1>3, <2>1 DEF Register, Reports, ConfinedToLoop, PastAdding, TypeOK, SetPointer
  <2>8. Kept' /\ Sending' /\ TasksAreOwn'
    BY <1>3, <2>1 DEF Register, Kept, Sending, TasksAreOwn, OwnTasks
  <2>. QED
    BY <2>2, <2>3, <2>4, <2>5, <2>6, <2>7, <2>8
<1>4. CASE Connected
  <2>1. Made' = Made /\ Made \subseteq Conns
    BY <1>4 DEF Connected, Made
  <2>2. TypeOK'
    BY <1>4, <2>1 DEF Connected, TypeOK
  <2>3. Registered'
    BY <1>4, <2>1 DEF Connected, Registered, TypeOK
  <2>4. Closing'
    BY <1>4, <2>1 DEF Connected, Closing, PastAdding, TypeOK
  <2>5. Events'
    BY <1>4, <2>1 DEF Connected, Events, TypeOK
  <2>6. Reports'
    BY <1>4, <2>1 DEF Connected, Reports, ConfinedToLoop, PastAdding, TypeOK
  <2>7. Kept' /\ Pointers' /\ Sending' /\ TasksAreOwn'
    BY <1>4, <2>1 DEF Connected, Kept, Pointers, Sending, TasksAreOwn, OwnTasks
  <2>. QED
    BY <2>2, <2>3, <2>4, <2>5, <2>6, <2>7
<1>5. CASE AddConn
  <2>1. Made' = Made /\ Made \subseteq Conns
    BY <1>5 DEF AddConn, Made
  <2>2. TypeOK'
    BY <1>5, <2>1 DEF AddConn, TypeOK, Registered
  <2>3. Registered'
    BY <1>5, <2>1 DEF AddConn, Registered, TypeOK
  <2>4. Closing'
    BY <1>5, <2>1 DEF AddConn, Closing, PastAdding, TypeOK
  <2>5. Kept'
    BY <1>5, <2>1 DEF AddConn, Kept, TypeOK
  <2>6. Events'
    BY <1>5, <2>1 DEF AddConn, Events, TypeOK
  <2>7. Reports'
    BY <1>5, <2>1 DEF AddConn, Reports, ConfinedToLoop, PastAdding, TypeOK, Registered
  <2>8. Pointers' /\ Sending' /\ TasksAreOwn'
    BY <1>5, <2>1 DEF AddConn, Pointers, Sending, TasksAreOwn, OwnTasks
  <2>. QED
    BY <2>2, <2>3, <2>4, <2>5, <2>6, <2>7, <2>8
<1>6. ASSUME NEW l \in Loops, StartIoLoop(l)
      PROVE  IndInv'
  <2>1. Made' = Made /\ Made \subseteq Conns
    BY <1>6 DEF StartIoLoop, Made
  <2>2. TypeOK'
    <3>1. loops' \in Seq(Loops)
      BY <1>6 DEF StartIoLoop, TypeOK
    <3>2. IsInjective(loops')
      <4>1. /\ Len(loops) \in Nat /\ DOMAIN loops = 1 .. Len(loops)
            /\ \A i \in 1 .. Len(loops) : loops[i] # l
        BY <1>6 DEF StartIoLoop, TypeOK, ToSet
      <4>2. /\ DOMAIN loops' = 1 .. Len(loops) + 1
            /\ loops'[Len(loops) + 1] = l
            /\ \A i \in 1 .. Len(loops) : loops'[i] = loops[i]
        BY <1>6 DEF StartIoLoop, TypeOK
      <4>. QED
        <5>1. \A i, j \in 1 .. Len(loops) : loops[i] = loops[j] => i = j
          BY <4>1 DEF TypeOK, IsInjective
        <5>2. SUFFICES ASSUME NEW i \in DOMAIN loops', NEW j \in DOMAIN loops',
                              loops'[i] = loops'[j]
                       PROVE  i = j
          BY Zenon DEF IsInjective
        <5>. QED
          BY <4>1, <4>2, <5>1, <5>2
    <3>. QED
      BY <1>6, <2>1, <3>1, <3>2 DEF StartIoLoop, TypeOK
  <2>3. /\ Registered' /\ Closing' /\ Kept' /\ Events' /\ Pointers'
        /\ Reports' /\ Sending' /\ TasksAreOwn'
    BY <1>6, <2>1 DEF StartIoLoop, Registered, Closing, Kept, Events, Pointers,
                      Reports, ConfinedToLoop, PastAdding, Sending, TasksAreOwn, OwnTasks
  <2>. QED
    BY <2>2, <2>3
<1>7. ASSUME NEW l \in Loops, EpollReturn(l)
      PROVE  IndInv'
  <2>1. Made' = Made /\ Made \subseteq Conns
    BY <1>7 DEF EpollReturn, At, Made
  <2>2. TypeOK'
    <3>1. PICK b \in SUBSET {<<c, ptr[c]>> : c \in {d \in Watched : loopOf[d] = l}} :
             batch' = [batch EXCEPT ![l] = b]
      BY <1>7 DEF EpollReturn
    <3>2. b \in SUBSET (Made \X Made)
      <4>1. \A c \in Watched : c \in Made /\ ptr[c] \in Made
        BY DEF Pointers, Watched, TypeOK
      <4>2. \A p \in b : \E c \in Watched : p = <<c, ptr[c]>>
        BY <3>1
      <4>. QED
        BY <4>1, <4>2
    <3>3. batch' \in [Loops -> SUBSET (Made \X Made)]
      <4>1. batch \in [Loops -> SUBSET (Made \X Made)]
        BY DEF TypeOK
      <4>. QED
        BY <3>1, <3>2, <4>1
    <3>4. dangling' \in BOOLEAN
      BY <1>7 DEF EpollReturn
    <3>. QED
      BY <1>7, <2>1, <3>3, <3>4 DEF EpollReturn, At, TypeOK
  <2>3. Closing'
    BY <1>7, <2>1 DEF EpollReturn, At, Closing, PastAdding, TypeOK
  <2>4. Reports'
    <3>1. PICK b \in SUBSET {<<c, ptr[c]>> : c \in {d \in Watched : loopOf[d] = l}} :
             batch' = [batch EXCEPT ![l] = b]
      BY <1>7 DEF EpollReturn
    <3>2. \A p \in b : loopOf[p[2]] = l /\ PastAdding(p[2])
      BY <3>1 DEF Pointers, Watched, Registered, PastAdding
    <3>3. UNCHANGED <<loopOf, accConn, accStep, stray, channel>>
      BY <1>7 DEF EpollReturn
    <3>4. batch \in [Loops -> SUBSET (Made \X Made)]
      BY DEF TypeOK
    <3>. QED
      BY <3>1, <3>2, <3>3, <3>4 DEF Reports, ConfinedToLoop, PastAdding
  <2>5. Sending'
    BY <1>7, <2>1 DEF EpollReturn, At, Sending, TypeOK
  <2>6. Registered' /\ Kept' /\ Events' /\ Pointers' /\ TasksAreOwn'
    BY <1>7, <2>1 DEF EpollReturn, At, Registered, Kept, Events, Pointers, TasksAreOwn,
                      OwnTasks
  <2>. QED
    BY <2>2, <2>3, <2>4, <2>5, <2>6
<1>8. ASSUME NEW l \in Loops, NEW b \in batch[l], NothingRead(l, b)
      PROVE  IndInv'
  <2>1. Made' = Made /\ Made \subseteq Conns
    BY <1>8 DEF NothingRead, At, Made
  <2>2. TypeOK'
    <3>1. b \in Made \X Made /\ b[2] \in Made
      BY DEF TypeOK
    <3>2. batch' \in [Loops -> SUBSET (Made \X Made)]
      BY <1>8 DEF NothingRead, TypeOK
    <3>. QED
      BY <1>8, <2>1, <3>1, <3>2 DEF NothingRead, At, TypeOK
  <2>3. Closing'
    BY <1>8, <2>1 DEF NothingRead, At, Closing, PastAdding, TypeOK
  <2>4. Reports'
    BY <1>8, <2>1 DEF NothingRead, At, Reports, ConfinedToLoop, PastAdding, TypeOK
  <2>5. Sending'
    BY <1>8, <2>1 DEF NothingRead, At, Sending, TypeOK
  <2>6. Registered' /\ Kept' /\ Events' /\ Pointers' /\ TasksAreOwn'
    BY <1>8, <2>1 DEF NothingRead, At, Registered, Kept, Events, Pointers, TasksAreOwn,
                      OwnTasks
  <2>. QED
    BY <2>2, <2>3, <2>4, <2>5, <2>6
<1>9. ASSUME NEW l \in Loops, NEW b \in batch[l], MessageArrives(l, b)
      PROVE  IndInv'
  <2>1. Made' = Made /\ Made \subseteq Conns
    BY <1>9 DEF MessageArrives, Enter, At, Made
  <2>2. TypeOK'
    <3>1. b \in Made \X Made /\ b[2] \in Made
      BY DEF TypeOK
    <3>2. batch' \in [Loops -> SUBSET (Made \X Made)]
      BY <1>9 DEF MessageArrives, Enter, TypeOK
    <3>. QED
      BY <1>9, <2>1, <3>1, <3>2 DEF MessageArrives, Enter, At, TypeOK
  <2>3. Closing'
    BY <1>9, <2>1 DEF MessageArrives, Enter, At, Closing, PastAdding, TypeOK
  <2>4. Reports'
    BY <1>9, <2>1 DEF MessageArrives, Enter, At, Reports, ConfinedToLoop, PastAdding,
                      TypeOK
  <2>5. Sending'
    BY <1>9, <2>1 DEF MessageArrives, Enter, At, Sending, TypeOK
  <2>6. Registered' /\ Kept' /\ Events' /\ Pointers' /\ TasksAreOwn'
    BY <1>9, <2>1 DEF MessageArrives, Enter, At, Registered, Kept, Events, Pointers,
                      TasksAreOwn, OwnTasks
  <2>. QED
    BY <2>2, <2>3, <2>4, <2>5, <2>6
<1>10. ASSUME NEW l \in Loops, NEW b \in batch[l], EndOfStream(l, b)
      PROVE  IndInv'
  <2>1. Made' = Made /\ Made \subseteq Conns
    BY <1>10 DEF EndOfStream, Enter, EpollRemove, At, Made
  <2>2. TypeOK'
    <3>1. b \in Made \X Made /\ b[2] \in Made
      BY DEF TypeOK
    <3>2. batch' \in [Loops -> SUBSET (Made \X Made)]
      BY <1>10 DEF EndOfStream, Enter, TypeOK
    <3>. QED
      BY <1>10, <2>1, <3>1, <3>2 DEF EndOfStream, Enter, EpollRemove, At, TypeOK
  <2>3. Registered'
    BY <1>10, <2>1 DEF EndOfStream, Enter, EpollRemove, At, Registered, TypeOK
  <2>4. Closing'
    BY <1>10, <2>1 DEF EndOfStream, Enter, EpollRemove, At, Closing, PastAdding, TypeOK,
                       Reports
  <2>5. Events'
    <3>1. b[2] \in Made /\ b[2] # None /\ loopOf[b[2]] = l
      BY DEF TypeOK, Reports, ConfinedToLoop, Made
    <3>2. ev' = [ev EXCEPT ![l] = b[2]]
      BY <1>10 DEF EndOfStream, EpollRemove
    <3>3. UNCHANGED <<accConn, accStep, loopOf, updating>>
      BY <1>10 DEF EndOfStream, EpollRemove
    <3>. QED
      BY <3>1, <3>2, <3>3 DEF Events, TypeOK
  <2>6. Pointers'
    BY <1>10, <2>1 DEF EndOfStream, Enter, EpollRemove, At, Pointers, TypeOK
  <2>7. Reports'
    BY <1>10, <2>1 DEF EndOfStream, Enter, EpollRemove, At, Reports, ConfinedToLoop,
                       PastAdding, TypeOK
  <2>8. Sending'
    BY <1>10, <2>1 DEF EndOfStream, Enter, EpollRemove, At, Sending, TypeOK
  <2>9. Kept' /\ TasksAreOwn'
    BY <1>10, <2>1 DEF EndOfStream, Enter, EpollRemove, At, Kept, TasksAreOwn, OwnTasks
  <2>. QED
    BY <2>2, <2>3, <2>4, <2>5, <2>6, <2>7, <2>8, <2>9
<1>11. ASSUME NEW l \in Loops, Broadcast(l)
      PROVE  IndInv'
  <2>1. Made' = Made /\ Made \subseteq Conns
    BY <1>11 DEF Broadcast, At, Made
  <2>2. TypeOK'
    BY <1>11, <2>1 DEF Broadcast, At, TypeOK
  <2>3. Closing'
    BY <1>11, <2>1 DEF Broadcast, At, Closing, PastAdding, TypeOK
  <2>4. Reports'
    BY <1>11, <2>1 DEF Broadcast, At, Reports, ConfinedToLoop, PastAdding, TypeOK
  <2>5. Sending'
    BY <1>11, <2>1 DEF Broadcast, At, Sending, TypeOK
  <2>6. Registered' /\ Kept' /\ Events' /\ Pointers' /\ TasksAreOwn'
    BY <1>11, <2>1 DEF Broadcast, At, Registered, Kept, Events, Pointers, TasksAreOwn,
                       OwnTasks
  <2>. QED
    BY <2>2, <2>3, <2>4, <2>5, <2>6
<1>12. ASSUME NEW l \in Loops, MessageReturns(l)
      PROVE  IndInv'
  <2>1. Made' = Made /\ Made \subseteq Conns
    BY <1>12 DEF MessageReturns, At, Made
  <2>2. TypeOK'
    BY <1>12, <2>1 DEF MessageReturns, At, TypeOK
  <2>3. Closing'
    BY <1>12, <2>1 DEF MessageReturns, At, Closing, PastAdding, TypeOK
  <2>4. Reports'
    BY <1>12, <2>1 DEF MessageReturns, At, Reports, ConfinedToLoop, PastAdding, TypeOK
  <2>5. Sending'
    BY <1>12, <2>1 DEF MessageReturns, At, Sending, TypeOK
  <2>6. Registered' /\ Kept' /\ Events' /\ Pointers' /\ TasksAreOwn'
    BY <1>12, <2>1 DEF MessageReturns, At, Registered, Kept, Events, Pointers,
                       TasksAreOwn, OwnTasks
  <2>. QED
    BY <2>2, <2>3, <2>4, <2>5, <2>6
<1>13. ASSUME NEW l \in Loops, NEW c \in Conns, SendTo(l, c)
      PROVE  IndInv'
  <2>1. Made' = Made /\ Made \subseteq Conns
    BY <1>13 DEF SendTo, Made
  <2>2. TypeOK'
    <3>1. c \in Made /\ loopOf[c] \in Loops
      BY <1>13 DEF SendTo, TypeOK, Made
    <3>2. toSend' \in [Loops -> SUBSET Made]
      BY <1>13 DEF SendTo, TypeOK
    <3>3. /\ pending' \in [Loops -> Seq(Task)]
          /\ \A k \in Loops : Len(pending'[k]) >= Len(pending[k])
      <4>1. CASE pending' = pending
        BY <4>1 DEF TypeOK
      <4>2. CASE pending' # pending
        <5>1. PICK kind \in {"send", "complete"} : QueueTask(loopOf[c], c, kind)
          BY <1>13, <4>2 DEF SendTo
        <5>. QED
          BY <3>1, <5>1, QueueKeepsTasks
      <4>. QED
        BY <4>1, <4>2
    <3>4. \A k \in Loops : swapped'[k] \in 0 .. Len(pending'[k])
      <4>1. \A k \in Loops : Len(pending'[k]) \in Nat /\ Len(pending[k]) \in Nat
        BY <3>3 DEF TypeOK
      <4>. QED
        BY <1>13, <3>3, <4>1 DEF SendTo, TypeOK
    <3>5. /\ ev' \in [Loops -> Made \cup {None}]
          /\ updating' \in [Loops -> Made \cup {None}]
      <4>1. CASE UNCHANGED epoll
        BY <4>1 DEF TypeOK
      <4>2. CASE Update(l, c)
        BY <3>1, <4>2 DEF Update, TypeOK
      <4>. QED
        BY <1>13, <4>1, <4>2 DEF SendTo
    <3>6. UNCHANGED <<inEpoll, ptr, stray>>
      BY <1>13 DEF SendTo, Update
    <3>. QED
      BY <1>13, <2>1, <3>2, <3>3, <3>4, <3>5, <3>6, Zenon DEF SendTo, TypeOK
  <2>3. Registered'
    BY <1>13, <2>1 DEF SendTo, Registered, TypeOK, Update
  <2>4. Closing'
    BY <1>13, <2>1 DEF SendTo, Closing, PastAdding, TypeOK, Update
  <2>5. Events'
    <3>1. c \in Made /\ c # None
      BY <1>13 DEF SendTo, TypeOK, Made
    <3>2. CASE UNCHANGED epoll
      BY <1>13, <3>2 DEF SendTo, Events
    <3>3. CASE loopOf[c] = l /\ Update(l, c)
      BY <1>13, <3>1, <3>3 DEF SendTo, Update, Events, TypeOK
    <3>. QED
      BY <1>13, <3>2, <3>3 DEF SendTo
  <2>6. Pointers'
    BY <1>13, <2>1 DEF SendTo, Pointers, TypeOK, Update
  <2>7. Reports'
    BY <1>13, <2>1 DEF SendTo, Reports, ConfinedToLoop, PastAdding, TypeOK, Update
  <2>8. Sending'
    BY <1>13, <2>1 DEF SendTo, Sending, TypeOK, At
  <2>9. TasksAreOwn'
    <3>1. c \in Made /\ loopOf' = loopOf
      BY <1>13 DEF SendTo, TypeOK
    <3>2. CASE pending' = pending
      BY <2>1, <3>1, <3>2 DEF TasksAreOwn, OwnTasks
    <3>3. CASE pending' # pending
      <4>1. PICK kind \in {"send", "complete"} : QueueTask(loopOf[c], c, kind)
        BY <1>13, <3>3 DEF SendTo
      <4>2. \A k \in Loops : OwnTasks(k, pending'[k])
        BY <3>1, <4>1, QueueKeepsTasks
      <4>. QED
        BY <2>1, <3>1, <4>2 DEF TasksAreOwn, OwnTasks
    <3>. QED
      BY <3>2, <3>3
  <2>10. Kept'
    BY <1>13, <2>1 DEF SendTo, Kept
  <2>. QED
    BY <2>2, <2>3, <2>4, <2>5, <2>6, <2>7, <2>8, <2>9, <2>10
<1>14. ASSUME NEW l \in Loops, Modify(l)
      PROVE  IndInv'
  <2>1. Made' = Made /\ Made \subseteq Conns
    BY <1>14 DEF Modify, Made
  <2>2. TypeOK'
    <3>1. updating[l] \in Made /\ loopOf[updating[l]] = l /\ ev[l] \in Made
      BY <1>14 DEF Modify, TypeOK, Events
    <3>2. ptr' \in [Conns -> Made \cup {None}] /\ stray' \subseteq Made
      BY <1>14, <3>1 DEF Modify, SetPointer, TypeOK
    <3>. QED
      BY <1>14, <2>1, <3>1, <3>2 DEF Modify, TypeOK
  <2>3. Registered'
    BY <1>14, <2>1 DEF Modify, Registered, TypeOK, SetPointer
  <2>4. Closing'
    BY <1>14, <2>1 DEF Modify, Closing, PastAdding, TypeOK, SetPointer
  <2>5. Events'
    BY <1>14, <2>1 DEF Modify, Events, TypeOK
  <2>6. Pointers'
    <3>1. /\ updating[l] \in Made /\ loopOf[updating[l]] = l
          /\ ev[l] \in Made /\ loopOf[ev[l]] = l
      BY <1>14 DEF Modify, TypeOK, Events
    <3>2. CASE UNCHANGED <<ptr, stray>>
      BY <1>14, <2>1, <3>2 DEF Modify, Pointers
    <3>3. CASE SetPointer(updating[l])
      <4>1. /\ ptr' = [ptr EXCEPT ![updating[l]] = ev[l]]
            /\ stray' = stray \cup ({ev[l]} \ {updating[l]})
            /\ inEpoll' = inEpoll /\ loopOf' = loopOf
        BY <1>14, <3>1, <3>3 DEF Modify, SetPointer
      <4>. QED
        BY <2>1, <3>1, <4>1 DEF Pointers, TypeOK
    <3>. QED
      BY <1>14, <3>2, <3>3 DEF Modify
  <2>7. Reports'
    BY <1>14, <2>1 DEF Modify, Reports, ConfinedToLoop, PastAdding, TypeOK, SetPointer
  <2>8. Kept' /\ Sending' /\ TasksAreOwn'
    BY <1>14, <2>1 DEF Modify, Kept, Sending, TasksAreOwn, OwnTasks
  <2>. QED
    BY <2>2, <2>3, <2>4, <2>5, <2>6, <2>7, <2>8
<1>15. ASSUME NEW l \in Loops, EraseConn(l)
      PROVE  IndInv'
  <2>1. Made' = Made /\ Made \subseteq Conns
    BY <1>15 DEF EraseConn, At, Made
  <2>2. TypeOK'
    BY <1>15, <2>1 DEF EraseConn, At, TypeOK
  <2>3. Registered'
    BY <1>15, <2>1 DEF EraseConn, At, Registered, TypeOK, Closing
  <2>4. Closing'
    BY <1>15, <2>1 DEF EraseConn, At, Closing, PastAdding, TypeOK
  <2>5. Kept'
    BY <1>15, <2>1 DEF EraseConn, At, Kept, TypeOK
  <2>6. Reports'
    BY <1>15, <2>1 DEF EraseConn, At, Reports, ConfinedToLoop, PastAdding, TypeOK
  <2>7. Sending'
    BY <1>15, <2>1 DEF EraseConn, At, Sending, TypeOK
  <2>8. Events' /\ Pointers' /\ TasksAreOwn'
    BY <1>15, <2>1 DEF EraseConn, At, Events, Pointers, TasksAreOwn, OwnTasks
  <2>. QED
    BY <2>2, <2>3, <2>4, <2>5, <2>6, <2>7, <2>8
<1>16. ASSUME NEW l \in Loops, CloseReturns(l)
      PROVE  IndInv'
  <2>1. Made' = Made /\ Made \subseteq Conns
    BY <1>16 DEF CloseReturns, At, Made
  <2>2. TypeOK'
    BY <1>16, <2>1 DEF CloseReturns, At, TypeOK
  <2>3. Closing'
    BY <1>16, <2>1 DEF CloseReturns, At, Closing, PastAdding, TypeOK
  <2>4. Reports'
    BY <1>16, <2>1 DEF CloseReturns, At, Reports, ConfinedToLoop, PastAdding, TypeOK
  <2>5. Sending'
    BY <1>16, <2>1 DEF CloseReturns, At, Sending, TypeOK
  <2>6. Registered' /\ Kept' /\ Events' /\ Pointers' /\ TasksAreOwn'
    BY <1>16, <2>1 DEF CloseReturns, At, Registered, Kept, Events, Pointers,
                       TasksAreOwn, OwnTasks
  <2>. QED
    BY <2>2, <2>3, <2>4, <2>5, <2>6
<1>17. ASSUME NEW l \in Loops, NextEvent(l)
      PROVE  IndInv'
  <2>1. Made' = Made /\ Made \subseteq Conns
    BY <1>17 DEF NextEvent, At, Made
  <2>2. TypeOK'
    BY <1>17, <2>1 DEF NextEvent, At, TypeOK
  <2>3. Closing'
    BY <1>17, <2>1 DEF NextEvent, At, Closing, PastAdding, TypeOK
  <2>4. Reports'
    BY <1>17, <2>1 DEF NextEvent, At, Reports, ConfinedToLoop, PastAdding, TypeOK
  <2>5. Sending'
    BY <1>17, <2>1 DEF NextEvent, At, Sending, TypeOK
  <2>6. Registered' /\ Kept' /\ Events' /\ Pointers' /\ TasksAreOwn'
    BY <1>17, <2>1 DEF NextEvent, At, Registered, Kept, Events, Pointers, TasksAreOwn,
                       OwnTasks
  <2>. QED
    BY <2>2, <2>3, <2>4, <2>5, <2>6
<1>18. ASSUME NEW l \in Loops, WriteRest(l)
      PROVE  IndInv'
  <2>1. Made' = Made /\ Made \subseteq Conns
    BY <1>18 DEF WriteRest, Made
  <2>2. PICK c \in Made :
           /\ c = channel[l] /\ loopOf[c] = l /\ c # None
           /\ Update(l, c) /\ QueueTask(l, c, "complete")
    BY <1>18 DEF WriteRest, Writable, At, Alive, Made, Reports, ConfinedToLoop
  <2>3. /\ pending' \in [Loops -> Seq(Task)]
        /\ \A k \in Loops : Len(pending'[k]) >= Len(pending[k])
        /\ \A k \in Loops : OwnTasks(k, pending'[k])
    BY <2>2, QueueKeepsTasks
  <2>4. TypeOK'
    <3>1. \A k \in Loops : swapped'[k] \in 0 .. Len(pending'[k])
      <4>1. \A k \in Loops : Len(pending'[k]) \in Nat /\ Len(pending[k]) \in Nat
        BY <2>3 DEF TypeOK
      <4>. QED
        BY <1>18, <2>3, <4>1 DEF WriteRest, TypeOK
    <3>2. /\ ev' \in [Loops -> Made \cup {None}]
          /\ updating' \in [Loops -> Made \cup {None}]
      BY <2>2 DEF Update, TypeOK
    <3>3. /\ at' = [at EXCEPT ![l] = "dispatch"]
          /\ channel' = [channel EXCEPT ![l] = None]
          /\ UNCHANGED <<inEpoll, ptr, stray, loops, accept, closed, conns, held, batch,
                         toSend, swapped, crashed, gone, dangling>>
      BY <1>18, <2>2 DEF WriteRest, Update
    <3>4. /\ at' \in [Loops -> {"wait", "dispatch", "message", "broadcast", "close",
                                "closing", "back", "tasks"}]
          /\ channel' \in [Loops -> Made \cup {None}]
      BY <3>3 DEF TypeOK
    <3>. QED
      BY <2>1, <2>3, <3>1, <3>2, <3>3, <3>4, Zenon DEF TypeOK
  <2>5. Closing'
    BY <1>18, <2>1, <2>2 DEF WriteRest, Update, Closing, PastAdding, TypeOK
  <2>6. Events'
    BY <1>18, <2>2 DEF WriteRest, Update, Events, TypeOK
  <2>7. Reports'
    BY <1>18, <2>2 DEF WriteRest, Update, Reports, ConfinedToLoop, PastAdding, TypeOK
  <2>8. Sending'
    BY <1>18 DEF WriteRest, Writable, At, Sending, TypeOK
  <2>9. Registered' /\ Kept' /\ Pointers'
    BY <1>18, <2>1, <2>2 DEF WriteRest, Update, Registered, Kept, Pointers
  <2>10. TasksAreOwn'
    BY <1>18, <2>1, <2>3 DEF WriteRest, TasksAreOwn, OwnTasks
  <2>. QED
    BY <2>4, <2>5, <2>6, <2>7, <2>8, <2>9, <2>10
<1>19. ASSUME NEW l \in Loops, WriteFails(l)
      PROVE  IndInv'
  <2>1. Made' = Made /\ Made \subseteq Conns
    BY <1>19 DEF WriteFails, Writable, EpollRemove, At, Made
  <2>2. TypeOK'
    <3>1. channel[l] \in Made /\ channel[l] # None /\ loopOf[channel[l]] = l
      BY <1>19 DEF WriteFails, Writable, Alive, Made, Reports, ConfinedToLoop
    <3>. QED
      BY <1>19, <2>1, <3>1 DEF WriteFails, EpollRemove, TypeOK
  <2>3. Registered'
    BY <1>19, <2>1 DEF WriteFails, Writable, EpollRemove, At, Registered, TypeOK
  <2>4. Closing'
    <3>1. channel[l] \in Made /\ channel[l] # None /\ loopOf[channel[l]] = l
      BY <1>19 DEF WriteFails, Writable, Alive, Made, Reports, ConfinedToLoop
    <3>. QED
      BY <1>19, <3>1 DEF WriteFails, EpollRemove, Closing, PastAdding, Reports, TypeOK
  <2>5. Events'
    <3>1. channel[l] \in Made /\ channel[l] # None /\ loopOf[channel[l]] = l
      BY <1>19 DEF WriteFails, Writable, Alive, Made, Reports, ConfinedToLoop
    <3>. QED
      BY <1>19, <3>1 DEF WriteFails, EpollRemove, Events, TypeOK
  <2>6. Pointers'
    BY <1>19, <2>1 DEF WriteFails, Writable, EpollRemove, At, Pointers, TypeOK
  <2>7. Reports'
    BY <1>19, <2>1 DEF WriteFails, Writable, EpollRemove, At, Reports, ConfinedToLoop,
                       PastAdding, TypeOK
  <2>8. Sending'
    BY <1>19, <2>1 DEF WriteFails, Writable, EpollRemove, At, Sending, TypeOK
  <2>9. Kept' /\ TasksAreOwn'
    BY <1>19, <2>1 DEF WriteFails, Writable, EpollRemove, At, Kept, TasksAreOwn,
                       OwnTasks
  <2>. QED
    BY <2>2, <2>3, <2>4, <2>5, <2>6, <2>7, <2>8, <2>9
<1>20. ASSUME NEW l \in Loops, SwapTasks(l)
      PROVE  IndInv'
  <2>1. Made' = Made /\ Made \subseteq Conns
    BY <1>20 DEF SwapTasks, At, Made
  <2>2. TypeOK'
    <3>1. /\ swapped' \in [Loops -> Nat]
          /\ \A k \in Loops : swapped'[k] \in 0 .. Len(pending[k])
      <4>1. \A k \in Loops : Len(pending[k]) \in Nat
        BY DEF TypeOK
      <4>. QED
        BY <1>20, <4>1 DEF SwapTasks, TypeOK
    <3>. QED
      BY <1>20, <2>1, <3>1 DEF SwapTasks, At, TypeOK
  <2>3. Closing'
    BY <1>20, <2>1 DEF SwapTasks, At, Closing, PastAdding, TypeOK
  <2>4. Reports'
    BY <1>20, <2>1 DEF SwapTasks, At, Reports, ConfinedToLoop, PastAdding, TypeOK
  <2>5. Sending'
    BY <1>20, <2>1 DEF SwapTasks, At, Sending, TypeOK
  <2>6. Registered' /\ Kept' /\ Events' /\ Pointers' /\ TasksAreOwn'
    BY <1>20, <2>1 DEF SwapTasks, At, Registered, Kept, Events, Pointers, TasksAreOwn,
                       OwnTasks
  <2>. QED
    BY <2>2, <2>3, <2>4, <2>5, <2>6
<1>21. ASSUME NEW l \in Loops, RunTask(l)
      PROVE  IndInv'
  <2>1. Made' = Made /\ Made \subseteq Conns
    BY <1>21 DEF RunTask, Made
  <2> DEFINE c == Head(pending[l]).conn
  <2>2. /\ pending' \in [Loops -> Seq(Task)]
        /\ \A k \in Loops : swapped'[k] \in 0 .. Len(pending'[k])
        /\ swapped' \in [Loops -> Nat]
        /\ \A k \in Loops : OwnTasks(k, pending'[k])
        /\ c \in Made /\ loopOf[c] = l
    BY <1>21, RunKeepsTasks
  <2>3. UNCHANGED epoll \/ Update(l, c)
    BY <1>21, Zenon DEF RunTask
  <2>4. UNCHANGED <<loops, accept, closed, conns, threads, crashed, gone, dangling>>
    BY <1>21, Zenon DEF RunTask
  <2>5. c # None
    BY <2>2 DEF Made
  <2> HIDE DEF c
  <2>6. UNCHANGED <<inEpoll, ptr, stray>>
    BY <2>3 DEF Update
  <2>7. TypeOK'
    <3>1. /\ ev' \in [Loops -> Made \cup {None}]
          /\ updating' \in [Loops -> Made \cup {None}]
      <4>1. CASE UNCHANGED epoll
        BY <4>1 DEF TypeOK
      <4>2. CASE Update(l, c)
        BY <2>2, <4>2 DEF Update, TypeOK
      <4>. QED
        BY <2>3, <4>1, <4>2
    <3>. QED
      BY <2>1, <2>2, <2>4, <2>6, <3>1, Zenon DEF TypeOK
  <2>8. Events'
    <3>1. CASE UNCHANGED epoll
      BY <2>4, <3>1 DEF Events
    <3>2. CASE Update(l, c)
      BY <2>2, <2>4, <2>5, <3>2 DEF Update, Events, TypeOK
    <3>. QED
      BY <2>3, <3>1, <3>2
  <2>9. /\ Registered' /\ Closing' /\ Kept'
        /\ Pointers' /\ Reports' /\ Sending'
    BY <2>1, <2>4, <2>6 DEF Registered, Closing, Kept, Pointers, Reports,
                            ConfinedToLoop, PastAdding, Sending
  <2>10. TasksAreOwn'
    BY <2>1, <2>2, <2>4 DEF TasksAreOwn, OwnTasks
  <2>. QED
    BY <2>7, <2>8, <2>9, <2>10
<1>22. ASSUME NEW l \in Loops, TasksDone(l)
      PROVE  IndInv'
  <2>1. Made' = Made /\ Made \subseteq Conns
    BY <1>22 DEF TasksDone, At, Made
  <2>2. TypeOK'
    BY <1>22, <2>1 DEF TasksDone, At, TypeOK
  <2>3. Closing'
    BY <1>22, <2>1 DEF TasksDone, At, Closing, PastAdding, TypeOK
  <2>4. Reports'
    BY <1>22, <2>1 DEF TasksDone, At, Reports, ConfinedToLoop, PastAdding, TypeOK
  <2>5. Sending'
    BY <1>22, <2>1 DEF TasksDone, At, Sending, TypeOK
  <2>6. Registered' /\ Kept' /\ Events' /\ Pointers' /\ TasksAreOwn'
    BY <1>22, <2>1 DEF TasksDone, At, Registered, Kept, Events, Pointers, TasksAreOwn,
                       OwnTasks
  <2>. QED
    BY <2>2, <2>3, <2>4, <2>5, <2>6
<1>23. CASE UNCHANGED vars
  <2>1. Made' = Made
    BY <1>23 DEF vars, Made
  <2>2. TypeOK'
    BY <1>23, <2>1 DEF vars, TypeOK
  <2>3. /\ Registered' /\ Closing' /\ Kept' /\ Events' /\ Pointers'
        /\ Reports' /\ Sending' /\ TasksAreOwn'
    BY <1>23, <2>1 DEF vars, Registered, Closing, Kept, Events, Pointers, Reports,
                       ConfinedToLoop, PastAdding, Sending, TasksAreOwn, OwnTasks
  <2>. QED
    BY <2>2, <2>3
<1>. QED
  BY <1>1, <1>2, <1>3, <1>4, <1>5, <1>6, <1>7, <1>8, <1>9, <1>10, <1>11, <1>12, <1>13,
     <1>14, <1>15, <1>16, <1>17, <1>18, <1>19, <1>20, <1>21, <1>22, <1>23
     DEF Next

\* The inductive invariant always holds.
LEMMA AlwaysInv == Spec => []IndInv
<1>. QED
  BY InitInv, NextInv, PTL DEF Spec

-----------------------------------------------------------------------------
(***************************************************************************)
(* The state is what the code's declarations say, _loops holds each loop   *)
(* of the pool at most once, and getNextLoop's index wraps around in time. *)
(***************************************************************************)
THEOREM TypeCorrect == Spec => []TypeOK
<1>1. IndInv => TypeOK
  BY DEF IndInv
<1>. QED
  BY <1>1, AlwaysInv, PTL

(***************************************************************************)
(* Whatever the kernel watches belongs to a live connection: between       *)
(* getting its shared_ptr from the acceptor and entering it into m_conns,  *)
(* and between its removal from the epoll instance and its erasure, no     *)
(* interleaving of the accept thread and the io loops frees it, unless     *)
(* _ev's sharing has registered its channel for another's descriptor.      *)
(***************************************************************************)
THEOREM RegisteredLives == Spec => []RegisteredIsAlive
<1>1. IndInv => RegisteredIsAlive
  BY DEF IndInv, Registered, RegisteredIsAlive, Alive, TypeOK
<1>. QED
  BY <1>1, AlwaysInv, PTL

(***************************************************************************)
(* Whatever the accept thread and a loop's thread put into the loop's _ev  *)
(* between the other's filling of it and its epoll_ctl, for an accept, a   *)
(* change or a removal: the connections mixed up are of that loop, and no  *)
(* connection's callbacks run on the thread of another.                    *)
(***************************************************************************)
THEOREM LoopsKeepApart == Spec => []ConfinedToLoop
<1>1. IndInv => ConfinedToLoop
  BY DEF IndInv, Reports
<1>. QED
  BY <1>1, AlwaysInv, PTL

(***************************************************************************)
(* The copy of m_conns that getAllTcpConn returns keeps each connection    *)
(* that is still to be sent to alive, whichever of them other loops close. *)
(***************************************************************************)
THEOREM BroadcastsLive == Spec => []BroadcastIsAlive
<1>1. IndInv => BroadcastIsAlive
  BY DEF IndInv, Sending, BroadcastIsAlive, Alive, TypeOK
<1>. QED
  BY <1>1, AlwaysInv, PTL

(***************************************************************************)
(* A task that send has queued, which holds a bare pointer, outlives its   *)
(* connection only if the connection's close callback has run.             *)
(***************************************************************************)
THEOREM CloseAloneFrees == Spec => []OnlyCloseFreesUnderTask
<1>1. IndInv => OnlyCloseFreesUnderTask
  BY DEF IndInv, Kept, TasksAreOwn, OwnTasks, OnlyCloseFreesUnderTask, Alive
<1>. QED
  BY <1>1, AlwaysInv, PTL
=============================================================================
