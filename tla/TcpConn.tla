------------------------------- MODULE TcpConn -------------------------------
(***************************************************************************)
(* One TcpConn, of a TcpServer or of a TcpClient: the thread that          *)
(* establishes it, its EventLoop's thread that reads and writes its        *)
(* socket, and the other threads that send on it.                          *)
(*                                                                         *)
(* A send on the loop's thread writes at once; what the kernel does not    *)
(* take is kept in _out and EPOLLOUT is watched until it is gone.  A send  *)
(* on another thread tests _isChannelClosed and then queues sendInLoop,    *)
(* which does not test it again.  The loop's queue is TaskQueue's, which   *)
(* EventLoop implements.                                                   *)
(*                                                                         *)
(* With a thread pool the loop's Epoll has users on two threads, the       *)
(* accept thread that adds channels and the loop's own, and both put their *)
(* event together in its one _ev (TcpServer.tla has who meets whom): what  *)
(* the kernel gets for this connection may be torn, and what it gets for   *)
(* another's descriptor may name this connection's channel.                *)
(*                                                                         *)
(* The byte number n that thread s sends on the connection is <<s, n>>, so *)
(* order, loss and duplication are visible; every message is MsgLen bytes. *)
(***************************************************************************)
EXTENDS Naturals, Sequences, SequencesExt

CONSTANTS
    Threads,     \* threads other than the loop's that send
    Loop,        \* the loop's own thread
    MsgLen,      \* bytes in a message
    MaxSends,    \* bound: messages each thread sends
    MaxSignals   \* bound: signals that interrupt a write

ASSUME ConnAssumption ==
    /\ Loop \notin Threads
    /\ MsgLen \in Nat \ {0}
    /\ MaxSends \in Nat
    /\ MaxSignals \in Nat

VARIABLES
    via,        \* who establishes it: a server with a pool or without, or a client
    stage,      \* how far establish() is
    inEpoll,    \* the channel is registered with the epoll instance
    watchOut,   \* EPOLLOUT is in the channel's m_event
    kernel,     \* the events the kernel reports to the channel for its descriptor
    stray,      \* it reports another descriptor's to it, too
    closed,     \* _isChannelClosed
    out,        \* the contents of _out
    outFreed,   \* _out was reset() to a null pointer
    pending,    \* the loop's queue: the tasks this connection put there
    checked,    \* threads in send(), past the test of _isChannelClosed
    sent,       \* per thread: messages accepted by send() and taken or queued
    revent,     \* the channel's events still to be handled in this round
    user,       \* the loop's thread is inside a user callback
    peerGone,   \* the peer has closed or reset its end
    signals,    \* writes interrupted so far
    wire,       \* history: the bytes the kernel accepted, in order
    closes,     \* history: how often _close_callback ran
    late,       \* history: per thread, messages accepted after that
    gone,       \* history: bytes a failed write dropped or user code took back
    crashed     \* "no", or what dereferenced the null _out

establishing == <<via, stage>>
watching == <<watchOut, kernel, stray>>
vars == <<establishing, inEpoll, watching, closed, out, outFreed, pending, checked,
          sent, revent, user, peerGone, signals, wire, closes, late, gone, crashed>>

Senders == Threads \cup {Loop}
Bytes == Senders \X (1 .. MaxSends * MsgLen)
Tasks == [kind : {"send", "complete"}, bytes : Seq(Bytes)]
Stages == {"new", "filled", "registered", "flagged", "calling", "connected"}
Vias == {"pool", "server", "client"}

\* pending, out and wire are bounded by the messages sent
TypeOK ==
    /\ via \in Vias /\ stage \in Stages
    /\ inEpoll \in BOOLEAN /\ watchOut \in BOOLEAN /\ closed \in BOOLEAN
    /\ kernel \in SUBSET {"in", "out"} /\ stray \in BOOLEAN
    /\ out \in Seq(Bytes) /\ outFreed \in BOOLEAN
    /\ outFreed => out = <<>>
    /\ pending \in Seq(Tasks)
    /\ checked \subseteq Threads
    /\ sent \in [Senders -> 0 .. MaxSends]
    /\ revent \subseteq {"in", "out"}
    /\ user \in BOOLEAN /\ peerGone \in BOOLEAN
    /\ signals \in 0 .. MaxSignals
    /\ wire \in Seq(Bytes)
    /\ closes \in Nat
    /\ late \in [Senders -> 0 .. MaxSends]
    /\ gone \subseteq Bytes
    /\ crashed \in {"no", "send", "getBufferOut"}

\* the constructor leaves _isChannelClosed uninitialised: it is any value
Init ==
    /\ via \in Vias
    /\ stage = "new"
    /\ inEpoll = FALSE
    /\ watchOut = FALSE
    /\ kernel = {}
    /\ stray = FALSE
    /\ closed \in BOOLEAN
    /\ out = <<>>
    /\ outFreed = FALSE
    /\ pending = <<>>
    /\ checked = {}
    /\ sent = [s \in Senders |-> 0]
    /\ revent = {}
    /\ user = FALSE
    /\ peerGone = FALSE
    /\ signals = 0
    /\ wire = <<>>
    /\ closes = 0
    /\ late = [s \in Senders |-> 0]
    /\ gone = {}
    /\ crashed = "no"

-----------------------------------------------------------------------------
(***************************************************************************)
(* establish().  With a thread pool it runs on the accept thread, and the  *)
(* loop's own thread may handle events as soon as the channel is           *)
(* registered, before _isChannelClosed gets its value.  Without one, and   *)
(* for a TcpClient, it runs on the loop's thread, which only polls when    *)
(* establish() has returned.                                               *)
(***************************************************************************)
Pooled == via = "pool"

\* TcpClient's _is_connect: set when establish() has returned, never cleared
IsConnect == via = "client" /\ stage = "connected"

\* m_event
Event(out_too) == IF out_too THEN {"in", "out"} ELSE {"in"}

\* When this connection's event has been in _ev, with a pool, the other thread's
\* epoll_ctl may have taken its pointer from there.
Stray == stray' \in {stray, stray \/ Pooled}

(***************************************************************************)
(* What epoll_ctl gives the kernel for this descriptor: the event that was *)
(* put together in _ev or, with a pool, another's pointer or events.  The  *)
(* accept thread's are EPOLLIN, those of the loop's thread EPOLLIN with or *)
(* without EPOLLOUT.                                                       *)
(***************************************************************************)
Control(event, others) ==
    kernel' \in {event} \cup (IF Pooled THEN {others, {}} ELSE {})

\* up to addToLoop(), after a client's connect() if that succeeds, and Epoll::add
\* up to epoll_ctl
Fill ==
    /\ stage = "new"
    /\ stage' = "filled"
    /\ Stray
    /\ UNCHANGED <<via, inEpoll, watchOut, kernel, closed, out, outFreed, pending, checked,
                   sent, revent, user, peerGone, signals, wire, closes, late, gone, crashed>>

\* epoll_ctl
Register ==
    /\ stage = "filled"
    /\ stage' = "registered"
    /\ inEpoll' = TRUE
    /\ Control({"in"}, {"in", "out"})
    /\ UNCHANGED <<via, watchOut, stray, closed, out, outFreed, pending, checked, sent,
                   revent, user, peerGone, signals, wire, closes, late, gone, crashed>>

ClearClosed ==
    /\ stage = "registered"
    /\ stage' = "flagged"
    /\ closed' = FALSE
    /\ UNCHANGED <<via, inEpoll, watching, out, outFreed, pending, checked, sent,
                   revent, user, peerGone, signals, wire, closes, late, gone, crashed>>

\* _connect_callback: from here on user code holds the connection.  A pool's
\* accept thread is one of Threads; otherwise the loop's thread is in user code.
Connect ==
    /\ stage = "flagged"
    /\ stage' = IF Pooled THEN "connected" ELSE "calling"
    /\ user' = (user \/ ~Pooled)
    /\ UNCHANGED <<via, inEpoll, watching, closed, out, outFreed, pending, checked,
                   sent, revent, peerGone, signals, wire, closes, late, gone, crashed>>

-----------------------------------------------------------------------------
\* a bug: bytes numbered from 0
MessageOffByOne(s) == [i \in 1 .. MsgLen |-> <<s, sent[s] * MsgLen + i - 1>>]

\* the next message of thread s
Message(s) == [i \in 1 .. MsgLen |-> <<s, sent[s] * MsgLen + i>>]

Task(kind, bytes) == [kind |-> kind, bytes |-> bytes]

\* The sockets block: a write takes everything unless a signal interrupts it.
Interrupted == signals < MaxSignals /\ signals' = signals + 1

WriteTakes(n, len) ==
    \/ n = len /\ UNCHANGED signals
    \/ n < len /\ Interrupted

WriteFails ==
    \/ Interrupted
    \/ peerGone /\ UNCHANGED signals

\* addWatchEvent, removeWatchEvent and Epoll::update: epoll_ctl fails if the
\* descriptor is not registered
Update(out_too) ==
    /\ watchOut' = out_too
    /\ IF inEpoll THEN Control(Event(out_too), {"in"}) ELSE UNCHANGED kernel
    /\ Stray

\* a bug: what is buffered is not watched
BufferUnwatched(bytes, queue) ==
    /\ WriteTakes(1, MsgLen)
    /\ wire' = wire \o SubSeq(bytes, 1, 1)
    /\ out' = out \o SubSeq(bytes, 2, MsgLen)
    /\ pending' = queue
    /\ UNCHANGED <<watching, gone>>

\* a bug: the completion is queued after a partial write, too
CompleteTooEarly(bytes, queue) ==
    /\ out = <<>>
    /\ \E n \in 1 .. MsgLen :
          /\ WriteTakes(n, MsgLen)
          /\ wire' = wire \o SubSeq(bytes, 1, n)
          /\ out' = SubSeq(bytes, n + 1, MsgLen)
          /\ IF n < MsgLen THEN Update(TRUE) ELSE UNCHANGED watching
          /\ pending' = Append(queue, Task("complete", bytes))
    /\ UNCHANGED gone

\* a bug: the message is written although earlier bytes are still buffered
WriteAheadOfBuffer(bytes, queue) ==
    \E n \in 1 .. MsgLen :
        /\ WriteTakes(n, MsgLen)
        /\ wire' = wire \o SubSeq(bytes, 1, n)
        /\ out' = out \o SubSeq(bytes, n + 1, MsgLen)
        /\ IF n < MsgLen THEN Update(TRUE) ELSE UNCHANGED watching
        /\ pending' = queue
        /\ UNCHANGED gone

(***************************************************************************)
(* sendInLoop with a live _out; queue is what the loop's queue holds when  *)
(* it starts.  The result of write is kept in a size_t: a failed write is  *)
(* a huge count, so both error branches are dead, the message is dropped   *)
(* and its completion is queued.                                           *)
(***************************************************************************)
SendOrBuffer(bytes, queue) ==
    \/ /\ out # <<>>
       /\ out' = out \o bytes
       /\ pending' = queue
       /\ UNCHANGED <<wire, watching, signals, gone>>
    \/ /\ out = <<>>
       /\ UNCHANGED gone
       /\ \E n \in 1 .. MsgLen :
             /\ WriteTakes(n, MsgLen)
             /\ wire' = wire \o SubSeq(bytes, 1, n)
             /\ out' = SubSeq(bytes, n + 1, MsgLen)
             /\ IF n < MsgLen
                  THEN Update(TRUE) /\ pending' = queue
                  ELSE /\ pending' = Append(queue, Task("complete", bytes))
                       /\ UNCHANGED watching
    \/ /\ out = <<>>
       /\ WriteFails
       /\ pending' = Append(queue, Task("complete", bytes))
       /\ gone' = gone \cup ToSet(bytes)
       /\ UNCHANGED <<wire, out, watching>>

\* sendInLoop: _out->size() is the first thing it evaluates
SendInLoop(bytes, queue) ==
    \/ /\ outFreed
       /\ crashed' = "send"
       /\ pending' = queue
       /\ UNCHANGED <<wire, out, watching, signals, gone>>
    \/ /\ ~outFreed
       /\ SendOrBuffer(bytes, queue)
       /\ UNCHANGED crashed

-----------------------------------------------------------------------------
\* TcpClient::send only goes on to the connection when _is_connect is set
MaySend == IF via = "client" THEN IsConnect ELSE stage \in {"calling", "connected"}

\* a bug: the test is left to _is_connect
BeginSendUntested(t) ==
    /\ crashed = "no"
    /\ MaySend
    /\ t \notin checked
    /\ sent[t] < MaxSends
    /\ checked' = checked \cup {t}
    /\ UNCHANGED <<establishing, inEpoll, watching, closed, out, outFreed, pending,
                   sent, revent, user, peerGone, signals, wire, closes, late, gone, crashed>>

\* send() on another thread: the test of _isChannelClosed
BeginSend(t) ==
    /\ crashed = "no"
    /\ MaySend
    /\ ~closed
    /\ t \notin checked
    /\ sent[t] < MaxSends
    /\ checked' = checked \cup {t}
    /\ UNCHANGED <<establishing, inEpoll, watching, closed, out, outFreed, pending,
                   sent, revent, user, peerGone, signals, wire, closes, late, gone, crashed>>

\* a message of thread s is accepted
Accept(s) ==
    /\ sent' = [sent EXCEPT ![s] = @ + 1]
    /\ late' = IF closes > 0 THEN [late EXCEPT ![s] = @ + 1] ELSE late

\* and then queueInLoop
QueueSend(t) ==
    /\ crashed = "no"
    /\ t \in checked
    /\ checked' = checked \ {t}
    /\ pending' = Append(pending, Task("send", Message(t)))
    /\ Accept(t)
    /\ UNCHANGED <<establishing, inEpoll, watching, closed, out, outFreed, revent,
                   user, peerGone, signals, wire, closes, gone, crashed>>

PeerCloses ==
    /\ ~peerGone
    /\ peerGone' = TRUE
    /\ UNCHANGED <<establishing, inEpoll, watching, closed, out, outFreed, pending,
                   checked, sent, revent, user, signals, wire, closes, late, gone, crashed>>


-----------------------------------------------------------------------------
(***************************************************************************)
(* The loop's thread.  Idle is between two callbacks.                      *)
(***************************************************************************)
Idle == crashed = "no" /\ ~user /\ revent = {}

\* what the kernel may report to the channel
Watched == kernel \cup (IF stray THEN {"in", "out"} ELSE {})

\* epoll_wait reports the channel; setReturnEvent keeps what it reported
Poll ==
    /\ Idle
    /\ Pooled \/ stage = "connected"
    /\ revent' \in SUBSET Watched \ {{}}
    /\ UNCHANGED <<establishing, inEpoll, watching, closed, out, outFreed, pending,
                   checked, sent, user, peerGone, signals, wire, closes, late, gone, crashed>>

\* a bug: the channel stays registered
CloseRegistered ==
    /\ closed' = TRUE
    /\ closes' = closes + 1
    /\ user' = TRUE
    /\ UNCHANGED <<inEpoll, watching>>

\* removeChannel, for which Epoll::remove fills _ev, the flag, and _close_callback,
\* which is user code
Close ==
    /\ inEpoll' = FALSE
    /\ kernel' = {}
    /\ Stray
    /\ UNCHANGED watchOut
    /\ closed' = TRUE
    /\ closes' = closes + 1
    /\ user' = TRUE

\* readCallBack: data for _message_callback, nothing (EAGAIN), or the end
ReadCallBack ==
    /\ crashed = "no" /\ ~user
    /\ "in" \in revent
    /\ revent' = revent \ {"in"}
    /\ \/ ~closed /\ peerGone /\ Close
       \/ /\ user' \in {~closed, FALSE}
          /\ UNCHANGED <<inEpoll, watching, closed, closes>>
    /\ UNCHANGED <<establishing, out, outFreed, pending, checked, sent, peerGone, signals,
                   wire, late, gone, crashed>>

\* a bug: the offset is advanced one byte too far
WriteOutSkips ==
    \E n \in 1 .. Len(out) :
        /\ WriteTakes(n, Len(out))
        /\ wire' = wire \o SubSeq(out, 1, n)
        /\ out' = SubSeq(out, n + 2, Len(out))
        /\ outFreed' = (out' = <<>>)
        /\ Update(out' # <<>>)
        /\ UNCHANGED pending

\* some or all of _out goes to the kernel
WriteOut ==
    \E n \in 1 .. Len(out) :
        /\ WriteTakes(n, Len(out))
        /\ wire' = wire \o SubSeq(out, 1, n)
        /\ out' = SubSeq(out, n + 1, Len(out))
        /\ IF n = Len(out)
             THEN /\ outFreed' = TRUE
                  /\ Update(FALSE)
                  /\ pending' = Append(pending, Task("complete", out))
             ELSE UNCHANGED <<outFreed, watching, pending>>

\* a bug: a channel closed by the read of the same round is not skipped
ClosedWriteNotSkipped ==
    /\ crashed = "no" /\ ~user
    /\ revent = {"out"}
    /\ revent' = {}
    /\ \/ /\ WriteOut
          /\ UNCHANGED <<inEpoll, closed, closes, user>>
       \/ /\ \/ out = <<>> /\ UNCHANGED signals
             \/ peerGone /\ UNCHANGED signals
          /\ Close
          /\ UNCHANGED <<out, outFreed, pending, wire>>
    /\ UNCHANGED <<establishing, checked, sent, peerGone, late, gone, crashed>>

(***************************************************************************)
(* writeCallBack.  Here the result is signed: EINTR is retried on the next *)
(* round, and anything else that is not positive closes the connection,    *)
(* a write of nothing because user code emptied _out included.             *)
(***************************************************************************)
WriteCallBack ==
    /\ crashed = "no" /\ ~user
    /\ revent = {"out"}
    /\ revent' = {}
    /\ \/ /\ closed
          /\ UNCHANGED <<inEpoll, watching, closed, out, outFreed, pending, user,
                         signals, wire, closes>>
       \/ /\ ~closed
          /\ WriteOut
          /\ UNCHANGED <<inEpoll, closed, closes, user>>
       \/ /\ ~closed
          /\ out # <<>>
          /\ Interrupted
          /\ UNCHANGED <<inEpoll, watching, closed, out, outFreed, pending, user,
                         wire, closes>>
       \/ /\ ~closed
          /\ out = <<>> \/ peerGone
          /\ Close
          /\ UNCHANGED <<out, outFreed, pending, signals, wire>>
    /\ UNCHANGED <<establishing, checked, sent, peerGone, late, gone, crashed>>

\* one task of the queue: sendInLoop, or _complete_callback, which is user code
RunTask ==
    /\ Idle
    /\ pending # <<>>
    /\ \/ /\ Head(pending).kind = "send"
          /\ SendInLoop(Head(pending).bytes, Tail(pending))
          /\ UNCHANGED user
       \/ /\ Head(pending).kind = "complete"
          /\ pending' = Tail(pending)
          /\ user' = TRUE
          /\ UNCHANGED <<out, watching, signals, wire, gone, crashed>>
    /\ UNCHANGED <<establishing, inEpoll, closed, outFreed, checked, sent, revent,
                   peerGone, closes, late>>

\* user code on the loop's thread sends
UserSends ==
    /\ crashed = "no" /\ user
    /\ ~closed
    /\ sent[Loop] < MaxSends
    /\ SendInLoop(Message(Loop), pending)
    /\ Accept(Loop)
    /\ UNCHANGED <<establishing, inEpoll, closed, outFreed, checked, revent, user,
                   peerGone, closes>>

\* user code takes bytes back out of _out: getBufferOut, getBufferOut_all and,
\* despite its name, lookBufferOut
UserTakesOut ==
    /\ crashed = "no" /\ user
    /\ \/ /\ outFreed
          /\ crashed' = "getBufferOut"
          /\ UNCHANGED <<out, gone>>
       \/ /\ \E n \in 1 .. Len(out) :
                /\ out' = SubSeq(out, n + 1, Len(out))
                /\ gone' = gone \cup ToSet(SubSeq(out, 1, n))
          /\ UNCHANGED crashed
    /\ UNCHANGED <<establishing, inEpoll, watching, closed, outFreed, pending, checked,
                   sent, revent, user, peerGone, signals, wire, closes, late>>

\* out of a callback, and of establish() if that was _connect_callback
UserReturns ==
    /\ crashed = "no" /\ user
    /\ user' = FALSE
    /\ stage' = IF stage = "calling" THEN "connected" ELSE stage
    /\ UNCHANGED <<via, inEpoll, watching, closed, out, outFreed, pending,
                   checked, sent, revent, peerGone, signals, wire, closes, late, gone, crashed>>

-----------------------------------------------------------------------------
Next ==
    \/ Fill \/ Register \/ ClearClosed \/ Connect
    \/ PeerCloses
    \/ \E t \in Threads : BeginSend(t) \/ QueueSend(t)
    \/ Poll \/ ReadCallBack \/ WriteCallBack \/ RunTask
    \/ UserSends \/ UserTakesOut \/ UserReturns

(***************************************************************************)
(* Fairness: the loop's thread is scheduled and user callbacks return.  A  *)
(* round that finds the socket writable comes again and again if the loop  *)
(* keeps polling: the peer reads what it is sent.                          *)
(***************************************************************************)
Fairness ==
    /\ WF_vars(ReadCallBack) /\ WF_vars(WriteCallBack)
    /\ WF_vars(UserReturns)
    /\ SF_vars(Poll /\ "out" \in revent' \cap kernel)

Spec == Init /\ [][Next]_vars /\ Fairness

-----------------------------------------------------------------------------
(***************************************************************************)
(* Bytes left behind by a partial write do not get stuck: while the        *)
(* connection is registered, its channel asks for EPOLLOUT on their behalf *)
(* and, unless a pool's accept thread may have torn the request, the       *)
(* kernel watches for it.                                                  *)
(***************************************************************************)
UnsentIsWatched ==
    inEpoll /\ out # <<>> => watchOut /\ (Pooled \/ "out" \in kernel)

(***************************************************************************)
(* End to end order: what the kernel has, followed by what is buffered and *)
(* by what is queued, holds the bytes of each thread in the order that     *)
(* thread sent them, and none twice, over every mix of partial writes,     *)
(* buffering, queued and immediate sends, failures and bytes taken back.   *)
(***************************************************************************)
Queued(i) == IF pending[i].kind = "send" THEN pending[i].bytes ELSE <<>>

\* the bytes on their way, in the order in which they leave
Stretches == <<wire, out>> \o [i \in DOMAIN pending |-> Queued(i)]

SentInOrder ==
    \A a, b \in DOMAIN Stretches :
        \A i \in DOMAIN Stretches[a], j \in DOMAIN Stretches[b] :
            /\ a < b \/ (a = b /\ i < j)
            /\ Stretches[a][i][1] = Stretches[b][j][1]
            => Stretches[a][i][2] < Stretches[b][j][2]

(***************************************************************************)
(* No byte vanishes: what send() accepted is with the kernel, buffered or  *)
(* queued, unless its write failed, user code took it back or the program  *)
(* died, whatever mix of partial writes and queued sends it went through.  *)
(***************************************************************************)
Accepted == UNION {{s} \X (1 .. sent[s] * MsgLen) : s \in Senders}

NothingVanishes ==
    crashed = "no" =>
        Accepted = (UNION {ToSet(Stretches[a]) : a \in DOMAIN Stretches}) \cup gone

\* Once establish() has given _isChannelClosed its value, the descriptor of a
\* connection marked closed is out of the epoll instance: the loop cannot spin on it.
ClosedIsDeaf == closed /\ stage \in {"flagged", "calling", "connected"} => ~inEpoll

(***************************************************************************)
(* _complete_callback is queued when the kernel has taken the bytes of one *)
(* message, or of a drained buffer, or when they were dropped, as the code *)
(* cannot tell a failed write: never while any of these is still buffered  *)
(* or queued.  It says nothing of other messages' bytes.                   *)
(***************************************************************************)
CompleteMeansGone ==
    \A i \in DOMAIN pending :
        pending[i].kind = "complete" =>
            \A a \in DOMAIN Stretches \ {1} :
                ToSet(pending[i].bytes) \cap ToSet(Stretches[a]) = {}

(***************************************************************************)
(* Buffered bytes leave, unless the connection closes or the program dies, *)
(* or another thread has torn an event: then the kernel may not watch for  *)
(* EPOLLOUT, and a read for a stray report may block the loop.             *)
(***************************************************************************)
Torn == stray \/ kernel # Event(watchOut)

BufferedBytesLeave ==
    (out # <<>> /\ inEpoll) ~> (out = <<>> \/ ~inEpoll \/ crashed # "no" \/ Torn)

(***************************************************************************)
(* On the establishing thread's own loop the close callback runs at most   *)
(* once, although a round can hold both a read and a write event and both  *)
(* callbacks can close.  With a pool it may run again: establish() may     *)
(* overwrite the mark of a connection that closed meanwhile.               *)
(***************************************************************************)
ClosedOnce == ~Pooled => closes <= 1

(***************************************************************************)
(* A TcpClient goes on calling itself connected after the close, and its   *)
(* user goes on sending: what stops the messages is _isChannelClosed.  The *)
(* loop's thread sends nothing more, and of each other thread only the     *)
(* message slips through that was already past the test.                   *)
(***************************************************************************)
FewLateSends == ~Pooled => late[Loop] = 0 /\ \A t \in Threads : late[t] <= 1

-----------------------------------------------------------------------------
\* writeCallBack's comment has _complete_callback send again; the buffer it
\* sends through was released just before.
SendIsSafeAfterComplete == crashed # "send"
=============================================================================
