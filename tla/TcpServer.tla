------------------------------ MODULE TcpServer ------------------------------
(***************************************************************************)
(* A TcpServer with its Acceptor and its EventLoopThreadPool: who keeps a  *)
(* TcpConn alive, and who still uses it.                                   *)
(*                                                                         *)
(* The accept thread makes connections, registers each with the next io    *)
(* loop and then enters it into m_conns.  The io loops' threads run their  *)
(* callbacks: a message callback broadcasts to a copy of m_conns, as       *)
(* EchoServer's does, and a close callback erases the connection from      *)
(* m_conns, as the default one does.  A connection lives as long as a      *)
(* shared_ptr to it does; its channel is deleted and its descriptor closed *)
(* with it.  The tasks that send queues hold a bare pointer instead.       *)
(*                                                                         *)
(* Each Epoll has one epoll_event, _ev, that the accept thread fills to    *)
(* add a channel and the loop's thread to change or remove one: between    *)
(* the filling and epoll_ctl the other thread may come and put its own     *)
(* channel there.  How much a write leaves in the output buffer, and thus  *)
(* when a channel is changed, is left open here (TcpConn.tla has it).      *)
(***************************************************************************)
EXTENDS Naturals, Sequences, FiniteSets, SequencesExt

CONSTANTS
    Conns,      \* connections, one per accept
    Loops,      \* the io loops of the pool
    None,       \* no connection, no loop
    MaxPending  \* bound: tasks queued on a loop

ASSUME ServerAssumption ==
    /\ None \notin Conns \cup Loops
    /\ IsFiniteSet(Loops) /\ Loops # {}
    /\ MaxPending \in Nat

VARIABLES
    loops,     \* _loops: the io loops whose threads have started, in that order
    current,   \* _current: the index of the loop that gets the next connection
    accConn,   \* the accept thread's sptr_TcpConn
    accStep,   \* where the accept thread is with it
    loopOf,    \* per connection: its _loop
    failed,    \* connections made for an accept that returned -1
    inEpoll,   \* connections whose channel was added and not yet removed
    ev,        \* per loop: _ev.data.ptr of its Epoll, as the channel's connection
    ptr,       \* per registered connection: the data.ptr the kernel has for it
    updating,  \* per loop: the connection its thread is inside Epoll::update for
    stray,     \* history: connections whose channel was registered for another's
               \* descriptor
    closed,    \* connections with _isChannelClosed set
    conns,     \* m_conns
    held,      \* per loop: the shared_ptrs its callback holds
    at,        \* per loop: what its thread is doing
    channel,   \* per loop: the connection whose channel it is handling
    toSend,    \* per loop: the part of the broadcast still to come
    batch,     \* per loop: reports it has still to handle, as the connection the
               \* descriptor is of and the one the channel is of
    pending,   \* per loop: queued tasks of connections
    swapped,   \* per loop: how many of them it has swapped out to run
    crashed,   \* _loops was indexed out of range
    gone,      \* history: connections whose close callback has run
    dangling   \* history: a loop has used a deleted channel

accept == <<current, accConn, accStep, loopOf, failed>>
epoll == <<inEpoll, ev, ptr, updating, stray>>
queues == <<pending, swapped>>
threads == <<held, at, channel, batch, toSend>>
vars == <<loops, accept, epoll, closed, conns, threads, queues, crashed, gone,
          dangling>>

Made == {c \in Conns : loopOf[c] # None}

\* the connections some shared_ptr points to
Alive ==
    {c \in Made : c = accConn \/ c \in conns \/ \E l \in Loops : c \in held[l]}

Task == [conn : Conns, kind : {"send", "complete"}]

TypeOK ==
    /\ loops \in Seq(Loops) /\ IsInjective(loops)
    /\ current \in 0 .. Cardinality(Loops) - 1
    /\ accConn \in Conns \cup {None}
    /\ accStep \in {"idle", "made", "filled", "registered", "connected"}
    /\ accStep = "idle" <=> accConn = None
    /\ loopOf \in [Conns -> Loops \cup {None}]
    /\ ev \in [Loops -> Made \cup {None}] /\ ptr \in [Conns -> Made \cup {None}]
    /\ updating \in [Loops -> Made \cup {None}]
    /\ failed \subseteq Made /\ inEpoll \subseteq Made /\ closed \subseteq Made
    /\ conns \subseteq Made /\ stray \subseteq Made
    /\ held \in [Loops -> SUBSET Made]
    /\ at \in [Loops -> {"wait", "dispatch", "message", "broadcast", "close",
                         "closing", "back", "tasks"}]
    /\ batch \in [Loops -> SUBSET (Made \X Made)]
    /\ channel \in [Loops -> Made \cup {None}]
    /\ toSend \in [Loops -> SUBSET Made]
    /\ pending \in [Loops -> Seq(Task)]
    /\ swapped \in [Loops -> Nat]
    /\ \A l \in Loops : swapped[l] \in 0 .. Len(pending[l])
    /\ crashed \in BOOLEAN
    /\ gone \subseteq Made
    /\ dangling \in BOOLEAN

Init ==
    /\ loops = <<>>
    /\ current = 0
    /\ accConn = None
    /\ accStep = "idle"
    /\ loopOf = [c \in Conns |-> None]
    /\ failed = {} /\ inEpoll = {} /\ closed = {} /\ conns = {}
    /\ stray = {}
    /\ ev = [l \in Loops |-> None]
    /\ updating = [l \in Loops |-> None]
    /\ ptr = [c \in Conns |-> None]
    /\ held = [l \in Loops |-> {}]
    /\ at = [l \in Loops |-> "wait"]
    /\ channel = [l \in Loops |-> None]
    /\ toSend = [l \in Loops |-> {}]
    /\ batch = [l \in Loops |-> {}]
    /\ pending = [l \in Loops |-> <<>>]
    /\ swapped = [l \in Loops |-> 0]
    /\ crashed = FALSE
    /\ gone = {}
    /\ dangling = FALSE

-----------------------------------------------------------------------------
\* a thread of the pool has made its loop and enters it into _loops; start()
\* does not wait for that
StartIoLoop(l) ==
    /\ ~crashed
    /\ l \notin ToSet(loops)
    /\ loops' = Append(loops, l)
    /\ UNCHANGED <<accept, epoll, closed, conns, threads, queues, crashed, gone,
                   dangling>>

\* a bug: the index does not wrap around
IndexUnwrapped == current + 1

NextIndex == (current + 1) % Cardinality(Loops)

(***************************************************************************)
(* The listening channel's callback and the start of defaultAcceptCallBack.*)
(* accept's result is kept in a size_t, so -1 passes for a descriptor.     *)
(* getNextLoop indexes _loops whether or not that loop is there yet.  The  *)
(* new TcpConn's _isChannelClosed is not initialised: it is any value.     *)
(***************************************************************************)
Accept(c) ==
    /\ ~crashed
    /\ accStep = "idle"
    /\ c \notin Made
    /\ \/ /\ current >= Len(loops)
          /\ crashed' = TRUE
          /\ UNCHANGED <<accept, closed>>
       \/ /\ current < Len(loops)
          /\ loopOf' = [loopOf EXCEPT ![c] = loops[current + 1]]
          /\ current' = NextIndex
          /\ accConn' = c
          /\ accStep' = "made"
          /\ failed' \in {failed, failed \cup {c}}
          /\ closed' \in {closed, closed \cup {c}}
          /\ UNCHANGED crashed
    /\ UNCHANGED <<loops, epoll, conns, threads, queues, gone, dangling>>

\* a bug: there is one _ev for all Epolls
FillOnlyEvent ==
    /\ ~crashed
    /\ accStep = "made"
    /\ accStep' = "filled"
    /\ ev' = [l \in Loops |-> accConn]
    /\ UNCHANGED <<loops, current, accConn, loopOf, failed, inEpoll, ptr, updating,
                   stray, closed, conns, threads, queues, crashed, gone, dangling>>

\* establish() up to addToLoop, and Epoll::add up to epoll_ctl: the event is put
\* together in _ev, which belongs to the Epoll and not to the thread
FillEvent ==
    /\ ~crashed
    /\ accStep = "made"
    /\ accStep' = "filled"
    /\ ev' = [ev EXCEPT ![loopOf[accConn]] = accConn]
    /\ UNCHANGED <<loops, current, accConn, loopOf, failed, inEpoll, ptr, updating,
                   stray, closed, conns, threads, queues, crashed, gone, dangling>>

\* epoll_ctl takes for c's descriptor what is in _ev by now
SetPointer(c) ==
    LET p == ev[loopOf[c]]
    IN /\ ptr' = [ptr EXCEPT ![c] = p]
       /\ stray' = stray \cup ({p} \ {c})

\* epoll_ctl; a descriptor of -1 cannot be registered
Register ==
    /\ ~crashed
    /\ accStep = "filled"
    /\ accStep' = "registered"
    /\ \/ /\ accConn \in failed
          /\ UNCHANGED <<inEpoll, ptr, stray>>
       \/ /\ accConn \notin failed
          /\ inEpoll' = inEpoll \cup {accConn}
          /\ SetPointer(accConn)
    /\ UNCHANGED <<loops, current, accConn, loopOf, failed, ev, updating, closed, conns,
                   threads, queues, crashed, gone, dangling>>

\* the rest of establish(): the flag, and the connect callback
Connected ==
    /\ ~crashed
    /\ accStep = "registered"
    /\ accStep' = "connected"
    /\ closed' = closed \ {accConn}
    /\ UNCHANGED <<loops, current, accConn, loopOf, failed, epoll, conns, threads,
                   queues, crashed, gone, dangling>>

\* a bug: the server forgets to keep the connection
DropConn ==
    /\ ~crashed
    /\ accStep = "connected"
    /\ accStep' = "idle"
    /\ accConn' = None
    /\ UNCHANGED <<loops, current, loopOf, failed, epoll, closed, conns, threads,
                   queues, crashed, gone, dangling>>

\* addSptrTcpConn; the callback returns
AddConn ==
    /\ ~crashed
    /\ accStep = "connected"
    /\ accStep' = "idle"
    /\ accConn' = None
    /\ conns' = conns \cup {accConn}
    /\ UNCHANGED <<loops, current, loopOf, failed, epoll, closed, threads, queues,
                   crashed, gone, dangling>>

-----------------------------------------------------------------------------
(***************************************************************************)
(* The io loops, each in rounds (EventLoop.tla): epoll_wait reports some   *)
(* channels or none, their callbacks run, then the tasks queued so far.    *)
(***************************************************************************)
At(l, place) == ~crashed /\ updating[l] = None /\ at[l] = place

\* the descriptors the kernel watches; a connection's is closed when it is freed
Watched == inEpoll \cap Alive

\* setReturnEvent is called on the channels that the kernel's pointers name
EpollReturn(l) ==
    /\ At(l, "wait")
    /\ batch' \in {[batch EXCEPT ![l] = b] :
                     b \in SUBSET {<<c, ptr[c]>> : c \in {d \in Watched : loopOf[d] = l}}}
    /\ dangling' = (dangling \/ \E b \in batch'[l] : b[2] \notin Alive)
    /\ \/ batch'[l] # {}
       \/ pending[l] # <<>>
    /\ at' = [at EXCEPT ![l] = "dispatch"]
    /\ UNCHANGED <<loops, accept, epoll, closed, conns, held, channel, toSend,
                   queues, crashed, gone>>

\* the thread enters a callback of the channel reported; the callback's argument
\* is a shared_ptr
Enter(l, b, place) ==
    /\ At(l, "dispatch")
    /\ b \in batch[l] /\ b[2] \in Alive
    /\ batch' = [batch EXCEPT ![l] = @ \ {b}]
    /\ at' = [at EXCEPT ![l] = place]
    /\ channel' = [channel EXCEPT ![l] = b[2]]
    /\ held' = [held EXCEPT ![l] = {b[2]}]
    /\ UNCHANGED toSend

\* the channel has no read event, or readCallBack finds its connection marked
\* closed or nothing to read
NothingRead(l, b) ==
    /\ At(l, "dispatch")
    /\ b \in batch[l]
    /\ dangling' = (dangling \/ b[2] \notin Alive)
    /\ batch' = [batch EXCEPT ![l] = @ \ {b}]
    /\ at' = [at EXCEPT ![l] = "back"]
    /\ channel' = [channel EXCEPT ![l] = b[2]]
    /\ UNCHANGED <<loops, accept, epoll, closed, conns, held, toSend, queues,
                   crashed, gone>>

\* readCallBack with data
MessageArrives(l, b) ==
    /\ b[2] \notin closed
    /\ Enter(l, b, "message")
    /\ UNCHANGED <<loops, accept, epoll, closed, conns, queues, crashed, gone,
                   dangling>>

\* a bug: the copy of m_conns holds no shared_ptrs
BroadcastUnheld(l) ==
    /\ At(l, "message")
    /\ at' = [at EXCEPT ![l] = "broadcast"]
    /\ toSend' = [toSend EXCEPT ![l] = conns]
    /\ UNCHANGED <<loops, accept, epoll, closed, conns, held, channel, batch,
                   queues, crashed, gone, dangling>>

\* getAllTcpConn: a copy of m_conns, made under its mutex
Broadcast(l) ==
    /\ At(l, "message")
    /\ at' = [at EXCEPT ![l] = "broadcast"]
    /\ held' = [held EXCEPT ![l] = @ \cup conns]
    /\ toSend' = [toSend EXCEPT ![l] = conns]
    /\ UNCHANGED <<loops, accept, epoll, closed, conns, channel, batch, queues,
                   crashed, gone, dangling>>

\* addWatchEvent and removeWatchEvent: Epoll::update fills _ev, too
Update(l, c) ==
    /\ ev' = [ev EXCEPT ![l] = c]
    /\ updating' = [updating EXCEPT ![l] = c]
    /\ UNCHANGED <<inEpoll, ptr, stray>>

\* and only then calls epoll_ctl, which fails if the channel is not registered
Modify(l) ==
    /\ ~crashed
    /\ updating[l] # None
    /\ updating' = [updating EXCEPT ![l] = None]
    /\ \/ updating[l] \in Watched /\ SetPointer(updating[l])
       \/ updating[l] \notin Watched /\ UNCHANGED <<ptr, stray>>
    /\ UNCHANGED <<loops, accept, inEpoll, ev, closed, conns, threads, queues, crashed,
                   gone, dangling>>

QueueTask(l, c, kind) ==
    /\ Len(pending[l]) < MaxPending
    /\ pending' = [pending EXCEPT ![l] = Append(@, [conn |-> c, kind |-> kind])]

(***************************************************************************)
(* TcpConn::send: refused when closed; on the connection's own loop the    *)
(* message is buffered behind others, or written, which queues the         *)
(* completion if all was and has the channel changed if not; on another    *)
(* loop a task is queued for it, with a bare pointer.                      *)
(***************************************************************************)
SendTo(l, c) ==
    /\ At(l, "broadcast")
    /\ c \in toSend[l]
    /\ toSend' = [toSend EXCEPT ![l] = @ \ {c}]
    /\ \/ /\ c \in closed \/ loopOf[c] = l
          /\ UNCHANGED <<epoll, pending>>
       \/ /\ c \notin closed /\ loopOf[c] = l
          /\ Update(l, c)
          /\ UNCHANGED pending
       \/ /\ c \notin closed
          /\ QueueTask(loopOf[c], c, IF loopOf[c] = l THEN "complete" ELSE "send")
          /\ UNCHANGED epoll
    /\ UNCHANGED <<loops, accept, closed, conns, held, at, channel, batch,
                   swapped, crashed, gone, dangling>>

\* the message callback returns and drops what it held
MessageReturns(l) ==
    /\ \/ At(l, "message")
       \/ At(l, "broadcast") /\ toSend[l] = {}
    /\ at' = [at EXCEPT ![l] = "back"]
    /\ held' = [held EXCEPT ![l] = {}]
    /\ UNCHANGED <<loops, accept, epoll, closed, conns, channel, batch, toSend,
                   queues, crashed, gone, dangling>>

\* Epoll::remove writes to _ev, too
EpollRemove(l, c) ==
    /\ ev' = [ev EXCEPT ![l] = c]
    /\ inEpoll' = inEpoll \ {c}
    /\ ptr' = [ptr EXCEPT ![c] = None]
    /\ UNCHANGED <<updating, stray>>

\* readCallBack at the end of the stream, up to _close_callback
EndOfStream(l, b) ==
    /\ b[2] \notin closed
    /\ EpollRemove(l, b[2])
    /\ closed' = closed \cup {b[2]}
    /\ Enter(l, b, "close")
    /\ UNCHANGED <<loops, accept, conns, queues, crashed, gone, dangling>>

\* a bug: another connection is erased
EraseOther(l) ==
    /\ At(l, "close")
    /\ at' = [at EXCEPT ![l] = "closing"]
    /\ \E c \in conns : conns' = conns \ {c}
    /\ gone' = gone \cup held[l]
    /\ UNCHANGED <<loops, accept, epoll, closed, held, channel, batch, toSend,
                   queues, crashed, dangling>>

\* defaultCloseCallBack, EchoServer::OnClose: eraseSptrTcpConn
EraseConn(l) ==
    /\ At(l, "close")
    /\ at' = [at EXCEPT ![l] = "closing"]
    /\ conns' = conns \ held[l]
    /\ gone' = gone \cup held[l]
    /\ UNCHANGED <<loops, accept, epoll, closed, held, channel, batch, toSend,
                   queues, crashed, dangling>>

\* _close_callback returns: its temporary shared_ptr goes
CloseReturns(l) ==
    /\ At(l, "closing")
    /\ at' = [at EXCEPT ![l] = IF channel[l] = None THEN "dispatch" ELSE "back"]
    /\ held' = [held EXCEPT ![l] = {}]
    /\ UNCHANGED <<loops, accept, epoll, closed, conns, channel, batch, toSend,
                   queues, crashed, gone, dangling>>

\* back in loop(): the channel is asked whether it has a write event, too; it has
\* none, or the connection is marked closed, or a part of its bytes is written
NextEvent(l) ==
    /\ At(l, "back")
    /\ dangling' = (dangling \/ channel[l] \notin Alive)
    /\ at' = [at EXCEPT ![l] = "dispatch"]
    /\ channel' = [channel EXCEPT ![l] = None]
    /\ UNCHANGED <<loops, accept, epoll, closed, conns, held, batch, toSend,
                   queues, crashed, gone>>

\* writeCallBack goes on from the question for the write event
Writable(l) == At(l, "back") /\ channel[l] \in Alive \ closed

\* writeCallBack writes all the rest: the channel is changed, the completion queued
WriteRest(l) ==
    /\ Writable(l)
    /\ Update(l, channel[l])
    /\ QueueTask(l, channel[l], "complete")
    /\ at' = [at EXCEPT ![l] = "dispatch"]
    /\ channel' = [channel EXCEPT ![l] = None]
    /\ UNCHANGED <<loops, accept, closed, conns, held, batch, toSend, swapped, crashed,
                   gone, dangling>>

\* writeCallBack's write fails: as at the end of the stream, but no question follows
WriteFails(l) ==
    /\ Writable(l)
    /\ EpollRemove(l, channel[l])
    /\ closed' = closed \cup {channel[l]}
    /\ at' = [at EXCEPT ![l] = "close"]
    /\ held' = [held EXCEPT ![l] = {channel[l]}]
    /\ channel' = [channel EXCEPT ![l] = None]
    /\ UNCHANGED <<loops, accept, conns, batch, toSend, queues, crashed, gone, dangling>>

SwapTasks(l) ==
    /\ At(l, "dispatch")
    /\ batch[l] = {}
    /\ at' = [at EXCEPT ![l] = "tasks"]
    /\ swapped' = [swapped EXCEPT ![l] = Len(pending[l])]
    /\ UNCHANGED <<loops, accept, epoll, closed, conns, held, channel, batch,
                   toSend, pending, crashed, gone, dangling>>

\* a queued task: the completion, or sendInLoop, which may queue it or have the
\* channel changed
RunTask(l) ==
    /\ At(l, "tasks")
    /\ swapped[l] > 0
    /\ LET t == Head(pending[l])
           rest == Tail(pending[l])
           done == Append(rest, [conn |-> t.conn, kind |-> "complete"])
       IN \/ /\ pending' = [pending EXCEPT ![l] = rest]
             /\ UNCHANGED epoll \/ (t.kind = "send" /\ Update(l, t.conn))
          \/ /\ t.kind = "send"
             /\ pending' = [pending EXCEPT ![l] = done]
             /\ UNCHANGED epoll
    /\ swapped' = [swapped EXCEPT ![l] = @ - 1]
    /\ UNCHANGED <<loops, accept, closed, conns, threads, crashed, gone, dangling>>

TasksDone(l) ==
    /\ At(l, "tasks")
    /\ swapped[l] = 0
    /\ at' = [at EXCEPT ![l] = "wait"]
    /\ UNCHANGED <<loops, accept, epoll, closed, conns, held, channel, batch,
                   toSend, queues, crashed, gone, dangling>>

-----------------------------------------------------------------------------
Next ==
    \/ \E c \in Conns : Accept(c)
    \/ FillEvent \/ Register \/ Connected \/ AddConn
    \/ \E l \in Loops :
          \/ StartIoLoop(l)
          \/ EpollReturn(l)
          \/ \E b \in batch[l] :
                NothingRead(l, b) \/ MessageArrives(l, b) \/ EndOfStream(l, b)
          \/ Broadcast(l) \/ MessageReturns(l)
          \/ \E c \in Conns : SendTo(l, c)
          \/ Modify(l)
          \/ EraseConn(l) \/ CloseReturns(l)
          \/ NextEvent(l) \/ WriteRest(l) \/ WriteFails(l)
          \/ SwapTasks(l) \/ RunTask(l) \/ TasksDone(l)

Spec == Init /\ [][Next]_vars

-----------------------------------------------------------------------------
(***************************************************************************)
(* A connection is not freed while it is registered: it is kept from       *)
(* before it is entered into m_conns until it was removed and then erased. *)
(* Excepted is one whose channel a torn event registered for another's     *)
(* descriptor: it may be closed before it is registered itself.            *)
(***************************************************************************)
RegisteredIsAlive == inEpoll \ stray \subseteq Alive

(***************************************************************************)
(* The callbacks of a connection run on the thread of its own loop only,   *)
(* also when an accept has torn an event and the kernel has the channel of *)
(* one connection for the descriptor of another: what is mixed up stays    *)
(* within a loop.                                                          *)
(***************************************************************************)
ConfinedToLoop ==
    \A l \in Loops :
        /\ \A b \in batch[l] : loopOf[b[2]] = l
        /\ channel[l] # None => loopOf[channel[l]] = l

\* A broadcast sends only on live connections, also while other loops close
\* them and erase them from m_conns.
BroadcastIsAlive == \A l \in Loops : toSend[l] \subseteq Alive

(***************************************************************************)
(* The tasks that send queues hold a bare pointer.  One that is left with  *)
(* a freed connection belongs to a connection that was closed: nothing     *)
(* else frees a connection under a task.                                   *)
(***************************************************************************)
OnlyCloseFreesUnderTask ==
    \A l \in Loops : \A i \in DOMAIN pending[l] :
        pending[l][i].conn \in Alive \cup gone

-----------------------------------------------------------------------------
(* What the comments and messages of the code say, and the code does not.  *)

\* OnClose erases a connection "to avoid too many invalid TcpConns": after it
\* has run, the server does not hold the connection.
ClosedLeavesServer == gone \cap conns = {}

\* The loop manages its channels' lifetimes: it does not use a deleted one.
LoopUsesLiveChannels == ~dangling
=============================================================================
