# A verification project for the net library

The library under `src/net` is a small reactor in the style of muduo: an event loop per
thread, callbacks, timers, TCP servers and clients, and an asynchronous logger. This
directory holds TLA+ modules of its concurrent core, the TLC configurations that check
them on small instances, and TLAPS proofs. Paths below are relative to `src/net/src`
unless they start with `src/`.

    tlc -config EventLoop_wakeup.cfg MCEventLoop.tla    # one run; see the table
    tlapm EventLoopProof.tla                            # proofs; the others: section 5

## 1. Inventory

| part | state | operations | talks to |
|---|---|---|---|
| EventLoop (`EventLoop.cpp`) | `_pendingQueue` + mutex, `_eventfd`, `_isDoingPending`, `_fd2channel` | `loop`, `queueInLoop`, `runInLoop`, channel registration | everything; the only place another thread may hand work to |
| Epoll, Channel | the epoll instance, `m_event`, `m_revent` | `wait`, `add`, `remove`, `update`, watched events | EventLoop, kernel |
| TcpConn | `_in`, `_out`, `_isChannelClosed`, channel | `establish`, `readCallBack`, `writeCallBack`, `send`, `sendInLoop`, buffer accessors | its loop, user callbacks, other threads that send |
| TimerQueue, Timer | `_TimerEvents`, `_tfd`; per timer time stamp, interval, count | insertion, the timerfd's callback | its loop's queue |
| TcpServer | `m_conns` + mutex | accept, erase, add, copy all | Acceptor, pool, every TcpConn |
| Acceptor | the listening descriptor | the listening channel's callback | TcpServer |
| EventLoopThreadPool | `_loops`, `_current` | `start`, `getNextLoop` | io loops |
| TcpClient | `_is_connect`, one TcpConn | `connect`, `send` | TcpConn |
| Buffer | a vector and a read offset | append, retrieve, offset, reset | TcpConn |
| AsynLog (`src/net/extra/log/src`) | two buffers, a list of full ones, mutex, condition | `append`, `start`, `stop`, `threadFUNC` | LogFile, every thread |
| LogFile, AppendFile | the file, roll and flush times | `append`, `rollFile`, `flush` | AsynLog |
| LogStream, FixedBuffer | a line being built, in a fixed number of bytes | `<<`, number conversion | Logging, AsynLog |
| Logging | `g_logLevel`, `g_outFunc`, a line per statement | the macros, the destructor, `setLogLevel`, `setOutFunc` | LogStream, AsynLog |
| TimeStamp, InetAddr, Helper, Config | - | conversions | - |

What makes the program hard: three kinds of threads (the accepting one, the io loops,
the logger's) and any number of user threads; wake-ups that must not be lost; callbacks
that are user code and call back into the object that runs them; objects whose last
reference may go inside their own callback; partial and interrupted writes; a timerfd on
one clock and timestamps on another; results of system calls kept in unsigned integers.
`PROJECT.json` lists each hazard at its line, with the properties that cover it.

What makes each part correct:

* EventLoop: nothing queued is slept on; FIFO, once each; it never blocks in a callback
  of its own.
* TcpConn: bytes leave in order, once, and are not stranded; closing happens once and
  stays; a completion means that nothing of its message is left to write.
* TimerQueue: a blocked loop is armed for its earliest timer; repetitions keep their
  distance and number.
* TcpServer: a connection is alive as long as anything may use it, and no longer than it
  is open.
* AsynLog: records are in order and accounted for, and reach the disk if it takes them;
  a failed write costs no other record; no assertion of the log thread fails; `stop`
  returns.
* Logging, LogStream: a line fits its stream and is whole, a number reads back, and the
  logger accepts what a statement hands it.

## 2. Plan

1. *Done.* `TaskQueue` (what a loop promises), `EventLoop` (implements it),
   `EventLoopProof`.
2. *Done.* `TcpConn`, `TimerQueue`, `TcpServer` with Acceptor and pool, `AsynLog`, each
   model-checked; `AsynLogProof`. `ByteQueue` and `Buffer`, which implements it;
   `LogFile` with `AppendFile`.
3. *Done.* `FixedBuffer`, `LogStream` and `Logging`, which composes them with `AsynLog`;
   a TcpClient's connection and `_is_connect` in `TcpConn`; the event that two threads
   share in an Epoll, in `TcpServer` and in `TcpConn`; a disk that fails under
   `AsynLog`. An abstract byte stream that `TcpConn` implements was planned too; with
   sends that overtake queued ones its next step would be the code's again, so what it
   would say is stated by two invariants, `SentInOrder` and `NothingVanishes`.
4. *Done, proofs.* `BufferProof`, `LogFileProof`, `TcpConnProof`, `TcpServerProof`,
   `TimerQueueProof`, and in `AsynLogProof` the order of the records besides the spares:
   every safety property of these modules that a run checks.
5. *Done, proofs.* `LoggingProof`: what the conversion of a number and the building of a
   line compute, by induction, and with it every safety property of `Logging`;
   `SparesSuffice` and `KeptInOrder` carried over to `LoggingSpec`.

The abstract specifications are the task queue of `EventLoop` and the byte queue of
`Buffer`. No module to be proved about declares a RECURSIVE operator.

## 3. The modules

Definitions carry the names of the code where that is possible; `PROJECT.json` maps each
to its lines. Definitions introduced by a comment `a bug:` are never part of a
specification: each is a changed version of the definition after it, and a run must fail
when it is put in that definition's place.

### TaskQueue, EventLoop

`TaskQueue` is the promise: `Submit` (`queueInLoop`), `RunInline` (`runInLoop` on the
loop's own thread), `RunNext`. `EventLoop` is the code: one action per step of `loop()`
that another thread can observe, and two per `queueInLoop` of another thread, the push
under the mutex and the write of the eventfd after it. The loop's thread is in one of
four phases; in `dispatch` it handles the channels in `batch`, in `pending` it runs
`temp`. User code can queue (`OwnerQueues`) or run inline wherever the loop's thread
runs user code, before `loop()` too, which is how the server's owner adds timers. Steps
of one thread that no other can tell apart are one action: swapping the list and setting
`_isDoingPending`, and a push by the owner with its wake-up.

Correspondence: `pendingQueue` = `_pendingQueue`, `temp` = the local of the same name,
`eventfd` = the kernel's counter, `isDoingPending` = `_isDoingPending`. `ran` and
`early` are history. The refinement maps TaskQueue's `queue` to `temp \o pendingQueue`.

### TcpConn

The accept thread runs `establish()` in four steps (`Fill`, `Register`, `ClearClosed`,
`Connect`), since with a pool the connection's loop polls the channel as soon as it is
registered; without one the loop polls when they are done, and `_connect_callback` is
user code on the loop's thread (`calling`). The variable `via` (a server with a pool,
one without, or a client) is chosen initially and never changes, so one run covers the
three. A TcpClient's `send` asks `_is_connect` first (`IsConnect`, `MaySend`), which is
set when `establish()` has returned and never cleared. Rounds of the loop are `Poll`
(which events), `ReadCallBack`, `WriteCallBack`, then tasks; user callbacks are a state
(`user`) in which the loop's thread may send and take bytes back. `SendInLoop` is shared
by the immediate and the queued path, as in the code. The sockets are blocking, so a
write takes everything unless a signal interrupts it, and the unsigned result of
`sendInLoop`'s write is modelled by what it does: the error branches are never taken.
`_isChannelClosed` starts with any value, as nothing initialises it. Bytes are numbered
per thread, which makes order, loss and duplication visible; `gone` keeps those that a
failed write dropped or user code took back, `late` counts the messages accepted after
the close callback ran.

`watchOut` is the channel's `m_event`, `kernel` what the kernel has of it: with a pool
the two differ when the accept thread and the loop's thread fill the Epoll's one `_ev`
at the same time (`Control`, in `Register` and `Update`). The connection sees one of
three outcomes: its own event, another's events with its pointer, or another's pointer,
by which its descriptor is lost to it. `stray` says that in the same way another
descriptor may have got this connection's channel, so that the loop calls it for events
that are not its own (`Stray`, wherever `_ev` is filled with it; `Watched`). Which other
connection takes part, `TcpServer` has.

### TimerQueue

A timer is in one place (`where`): new, queued on the loop, in `_TimerEvents`, taken out
as triggered, run, or dead. Times are relative to now; `Tick` advances both clocks and
`ClockBack` sets the wall clock back, which moves the timestamps but not the timerfd.
The timerfd's callback is read (`ReadTimerfd`), run each (`RunTimer`), reinsert those
that repeat (`Reinsert`, with `moveInterval`), arm again (`Rearm`); the loop's round is
kept around it, in `EventLoop`'s phases. An insertion by another thread is two steps, as
in `EventLoop`: `AddTimer` pushes it, `WakeLoop` writes the eventfd some time later
(`owed`). Time passes between any two of these steps.

### TcpServer

The accept thread makes a connection (`Accept`), registers it in two steps (`FillEvent`,
`Register`), completes `establish()` and enters it into `m_conns`. The two steps are
there because of the Epoll's one `_ev`: the event is put together in it, and the loop's
own thread, inside `Epoll::update` (`Update`, then `Modify`) or `Epoll::remove`
(`EpollRemove`), may overwrite it before epoll_ctl reads it, and the other way round.
`ev` is the pointer in it, `ptr[c]` the one the kernel has for c's descriptor; a
connection whose channel was registered for another's descriptor is a `stray`. A round
reports pairs, the descriptor's connection and the channel's. Each io loop runs rounds
as in `EventLoop`: a message callback broadcasts to a copy of `m_conns` as EchoServer
does, a close callback erases. The channel is changed when a send leaves a rest
(`SendTo`, `RunTask`) and when writeCallBack has written it (`WriteRest`); how many
bytes that takes is `TcpConn`'s and open here. `Alive` is what the shared pointers keep:
`accConn` (the accept thread's), `conns`, and `held` (a callback's argument and the
broadcast's copy). Use of a freed object is recorded in `dangling`. `Accept` leaves
`closed` (`_isChannelClosed`) with any value; where it is true the callbacks return at
once (`NothingRead`, `NextEvent`). Threads of the pool enter `_loops` when they start,
which `start()` does not wait for; an index beyond `_loops` stops the model (`crashed`).

### FixedBuffer, AsynLog

`FixedBuffer` says when `append` finds room: a byte always stays free, and a text of no
length is stored as `(null)`. A buffer of `AsynLog` is the sequence of the records in
it, `sizes` what each takes. `AppendRecord` is `append` under the mutex, with both of
its comparisons: its own (`NoRoom`, `HandOver`) and the buffer's. `threadFUNC` is cut at
the points where another thread can act: the test of `_running`, the critical section
(`SwapOut`), writing outside it (`WriteBuffers`, with the cut of a backlog and its
notice) and refilling the spares and flushing (`Recycle`). A wait that times out is
`TakeNothing`. `file` is the list of the buffers given to the LogFile, an empty one
standing for a notice, and `flushed` says for how many of them `flush()` was called. The
thread ignores what `append` and `flush` return: `failed` are the buffers of `file` that
they lost (`LoseSome`). A disk that is full in the middle of a buffer keeps `append` in
its loop (`stuck`, `DiskFills`), until there is room, which may be never (`DiskFreed`).
`Abort` is `abort()`, called anywhere.

### LogStream, Logging

A line is the sequence of the pieces inserted; a piece is a text of some length, a
floating-point number of some length, or a number, whose digits `Convert` computes as
the two loops of the code do. `Insert` leaves a piece out for which there is no room.
Two assumptions on the statements are named, `LoggingAssumption` and
`StatementAssumption`: a stream has room for a level's name, and no number takes more
than the room it asks for (the code asks for 32 characters, 64 bits take at most 20
digits, `DigitsAreFew` in section 5, and `0x%.12g` at most 21). `Logging` extends
`AsynLog` by log statements: `Log` is one from its macro (`Enabled`) over the
constructor (`Prefix`) and the destructor (`Closing`) to `g_outFunc`. It is one action
because a stream belongs to the statement alone; only the append takes the logger's
mutex. A FATAL statement aborts in a second step (`AbortFatal`), since `append` has
returned by then and others run. Records that user code appends itself, of the lengths
`Lens`, come in between.

### ByteQueue, Buffer

`ByteQueue` is the promise: bytes come out as they went in. `Buffer` is the vector
(`vector`) and its offset (`cur` = `m_cur`). A call that takes bytes out is three steps,
which is what another thread can come between, since the lock_guard of each method is
the body of an `if` and has ended before the method does anything: ask for the size
(`RetriveGet`, `RetriveGetAll`), build the string (`CopyBytes`), remove (`Remove`, by
`Reset` or `Offset`). `WriteOut` and `MovePast` are the use that writeCallBack makes of
`_out`: write, then move the offset. `Shared` says whether the user is on another
thread, so that appends and these two may come between the steps of a call, and the
calls between these two (`LoopMayAct`, `UserMayAct`); then the offset can pass the end
of the vector. What size() and the reads give from there on is undefined, and the model
stops using the buffer (`InRange`); nor does it have what the vector itself does when
two threads are inside it. Bytes are lost without that. The refinement maps `contents`
to the vector from `cur` on.

### LogFile

One thread uses it, so nothing interleaves but the clock (`Tick`, `ClockBack`) and the
disk (`DiskChanges`: a full disk accepts no byte; otherwise fwrite accepts any number).
`FirstWrite`, `Retry` and `Complete` are AppendFile::append, with its test of the bytes
written before; then `append_unlocked` takes one of `SizeReached`, `OnlyCount`,
`DayOver`, `FlushDue`, `NothingDue`, and `RollFile` reads the clock again. The unsigned
comparison with the flush interval is modelled by what it does when the clock is behind.
`bytes`, `accepted`, `oldest` and `overdue` are history. What is in the file is what
fwrite has taken: an fflush that fails afterwards is not modelled here.

## 4. The runs

| run | module, cfg | shows |
|---|---|---|
| wakeup | MCEventLoop, EventLoop_wakeup | nothing queued on a running loop is slept on (`NoLostWakeup`); the eventfd's read never blocks (`EventfdReadNeverBlocks`); the loop is a FIFO queue that runs each task once (`ImplementsTaskQueue`); queued tasks run, without the timeout (`QueuedTaskRuns`) |
| stream | TcpConn, TcpConn_stream | bytes leave in order (`SentInOrder`); what is buffered is watched for and leaves, unless a pool's accept thread tears the event (`UnsentIsWatched`, `BufferedBytesLeave`); none vanishes unseen (`NothingVanishes`); no completion is queued while bytes of its own message are buffered or queued (`CompleteMeansGone`); a closed connection is deaf (`ClosedIsDeaf`); without a pool it closes once (`ClosedOnce`) and then accepts at most the messages already past the test (`FewLateSends`) |
| arming | MCTimerQueue, TimerQueue_arming | the timerfd's read finds an expiry (`ReadFindsExpiry`); a blocked loop is armed for its earliest timer (`ArmedForEarliest`); insertions wake (`InsertionsWake`); repetitions keep their interval (`SpacedByInterval`); timers run, repeating ones forever (`TimersRun`) |
| lifetime | MCTcpServer, TcpServer_lifetime | watched connections and broadcast targets are alive (`RegisteredIsAlive`, `BroadcastIsAlive`); callbacks run on the thread of their connection's loop, torn events or not (`ConfinedToLoop`); only a close frees a connection under a task (`OnlyCloseFreesUnderTask`) |
| buffers | MCLogging, Logging_buffers | lines fit the stream (`LinesFit`) and are whole (`ShortLinesAreWhole`), numbers read back (`NumbersReadBack`), `append` accepts them (`LinesAreAccepted`); the assertions about spares hold (`SparesSuffice`); order and accounting (`KeptInOrder`); records are flushed unless dropped, lost with their own buffer's write, or the disk stays full (`RecordsGetOut`); `stop` returns unless the disk stays full (`StopReturns`) |
| rolling | LogFile, LogFile_rolling | records reported as written are whole (`AcceptedIsWhole`); a new day and a late flush are noticed in time (`OverdueIsNoticed`); append returns (`AppendReturns`) |
| queue | Buffer, Buffer_queue | a buffer used by one thread is a byte queue (`ImplementsByteQueue`) |

Five more runs must find their property violated. Each records what the code does
against what it says, and is a finding in `PROJECT.json` with the line quoted:

| run | property | what happens |
|---|---|---|
| send_after_complete | `SendIsSafeAfterComplete` | `writeCallBack` releases `_out`; the next send dereferences it |
| timer_count | `RunsAtMostCount` | a timer with count n runs n + 1 times |
| zombie | `ClosedLeavesServer` | a connection erased before it is added stays in `m_conns` |
| shared_buffer | `ImplementsByteQueue` | bytes appended while another thread takes the contents are lost |
| channel | `LoopUsesLiveChannels` | `loop()` asks a deleted channel for its events |

Other behaviour that a reader may not expect is in the models, and the properties are
stated so that it is seen and not hidden: a write that fails is taken for a complete one
and its message is dropped (`SentInOrder` speaks of what is written); with a pool,
`establish()` can clear the mark of a connection its loop has already closed, which may
close again (hence `~Pooled` in `ClosedOnce` and `FewLateSends`); work queued before
`loop()` can wait for epoll_wait's 30 seconds (hence `early` in `NoLostWakeup` and
`InsertionsWake`); a queued send runs on a connection that a close has freed
(`OnlyCloseFreesUnderTask` says that nothing else does); `stop()` right after `start()`
makes the log thread's first assertion fail (`StopReturns` counts `aborted` as an end);
an append to a disk that fills up in the middle of a record does not return
(`AppendReturns` excepts `full`); a FATAL statement aborts without flushing, so that its
own line is lost (`RecordsGetOut` excepts an abort); a buffer whose write or flush fails
is lost without notice, and while the disk is full in the middle of one the log thread,
and `stop()` with it, waits (`RecordsGetOut` excepts both, `StopReturns` the second);
the sign of a negative number is never written (`NumbersReadBack` speaks of the absolute
value); a piece that finds no room is left out silently (`ShortLinesAreWhole` bounds the
lines it happens to). With a pool, Epoll's shared `_ev` may be torn between an accept
and an add, update or remove on the loop: a descriptor then has the channel of another
connection of its loop, open or closed, and is never served itself, while that one's
callbacks run for its events, in a read that may block (`ConfinedToLoop` says that it
stays on one loop); a connection whose channel has strayed so may be freed before its
own descriptor is registered by a later, torn change, so that plain `inEpoll \subseteq
Alive` is false (`RegisteredIsAlive` excepts strays); and the request to watch for
EPOLLOUT may get lost, which strands the buffered bytes (`UnsentIsWatched` claims the
kernel's part only without a pool, `BufferedBytesLeave` excepts a torn event; TLC
refutes both without the exception). They are listed as hazards.

### Bounds

* EventLoop: 3 tasks, 2 producers, 2 channels besides the eventfd. A lost wake-up needs
  one push between swap and poll and one other to consume the eventfd; three tasks put
  one in the list that runs, one behind it and one in flight. `MaxEvents` is 2 of 3
  possible events, so that a ready eventfd may be left out.
* TcpConn: one other thread and the loop, two messages each of 2 bytes, 2 interrupted
  writes: a partial write followed by buffering, by an interrupted drain, and by a
  second drain. 2.1 million states.
* TimerQueue: a timer due at once that repeats every 2 ticks, and one due 2 ticks ahead
  that repeats every tick with a count of 2, so that either may be the earliest when the
  other comes, and one is left alone and repeats no more; `Horizon` 3 exceeds every
  delay by the one tick that setting back a clock adds; `MaxLate` 1 distinguishes due
  from overdue; the clock is set back twice (`MaxJumps`).
* TcpServer: 3 connections on 2 loops (one loop gets two of them), `MaxPending` 1 task
  of a loop awaiting. Connections and loops are symmetric; no liveness is checked there.
  Of two connections of a loop one can be open or closing while the other is added,
  which is what a torn event takes; 3.4 million states.
* Logging: `SmallSize` and `MaxDecLength` are the code's. `Cap` 4057 (the code: 4000000)
  is the length of a torn line (3999) and of an ordinary one (58) together, so that a
  record would just fill the buffer, the case in which the two comparisons of `append`
  must agree, and so that one or two lines fill a buffer; `Lens` has the empty record
  and one that is too large for any buffer. The statements are an ordinary line with a
  negative number, zero and a pointer; one with a small negative number just before and
  a large one just behind the room a number asks for (TLC's integers have 32 bits); and
  the longest FATAL line that `ShortLinesAreWhole` promises. Three records are enough
  for a buffer written, one full and one begun, and for a backlog cut above `MaxBuffers`
  = 2 (the code: 16). Two buffers may be lost (`MaxFailures`), so that one is left to
  get out. Two threads, so that one logs while the other is about to abort.
* LogFile: days of 4 seconds, a flush interval of 1, a look at the clock every 2
  appends, 3 records of up to 2 bytes with a limit of 2 bytes a file: midnight, a due
  flush and a file over its limit all happen, in the second the file was opened and
  later, and every record can be written short twice. The clock is set back at most
  once.
* Buffer: 6 bytes, appended and asked for 0 to 2 at a time or all at once, so that the
  offset moves, reaches the end, and starts again.

Deadlock checking is off where the bounds or the program end: no more messages to send
and the peer gone (TcpConn), no connection left to accept (TcpServer), an exited log
thread or an abort (Logging), no record left to append (LogFile). EventLoop and
TimerQueue never stop.

### Fairness

Only what the program itself guarantees: the loop's thread and the log thread are
scheduled, user callbacks return, a thread inside `queueInLoop` reaches its write, time
passes. No thread must call anything and no event must arrive. No specification relies
on the timeout of epoll_wait, so that a lost wake-up shows; work the owner queues before
`loop()` has nothing else to wait for, and the liveness properties leave it out
(`early`). TcpConn assumes strong fairness of rounds that report the socket writable:
with level-triggered epoll that holds when the peer keeps reading, which is an
assumption on the peer. `Stop` is never fair in AsynLog, nor is any statement in
Logging. In these and in LogFile only the log thread is scheduled; nothing is assumed of
the disk, which may fill up for good: the properties except that.

## 5. The proofs

Each `...Proof` module extends the module it is about and has one lemma per action,
which `NextInv` puts together; the theorems follow from `IndInv` by one step of temporal
logic. All hold for every value of the constants that the module's own assumption allows
(`LoopAssumption`, `ConnAssumption` and so on): any sets of threads, tasks, timers,
connections, loops and statements, any sizes and limits. No other assumption is made,
but for `~Shared` in one theorem of `BufferProof`. Every inductive invariant was checked
by TLC on the instance of its run first.

### EventLoopProof: TypeOK, NoLostWakeup, EventfdReadNeverBlocks, ImplementsTaskQueue

`NoLostWakeup` is not inductive: it speaks of a blocked loop, and whether a wake-up is
on its way is decided earlier. `IndInv` adds `WakeUnlessDispatching`: in every phase but
`dispatch`, what is in the list besides early work has a wake-up coming. In `dispatch`
the eventfd's counter may just have been read, but the swap that follows takes the whole
list. A push by a task of the running list keeps the invariant because `_isDoingPending`
is set exactly in phase `pending` (`FlagMeansPending`); a push from a callback happens
in `dispatch`; a push by another thread owes a write (`producer`). The read of the
eventfd cannot block because only that read lowers the counter and it removes the
channel from the batch (`EventfdReadNeverBlocks` is one of the conjuncts, with
`BatchOnlyInDispatch`). `TempOnlyWhilePending` is what the refinement needs: the swap
must not lose a list that still holds tasks. `RefinesTaskQueue` shows that every step is
a step of `TaskQueue` or a stutter.

### TcpConnProof: TypeOK, UnsentIsWatched, ClosedIsDeaf, ClosedOnce, FewLateSends

The last three are inductive together with `TypeOK` (which includes that no one writes
to a released `_out`) and five more facts. A queued send is a whole message
(`WholeMessages`), so that a partial write of it leaves something to watch for. Nothing
is reported, buffered, queued or closed before `establish()` has come far enough
(`BeforeEstablished`): that is why its last steps, which clear the mark, cannot undo a
close without a pool, and it is where the proof fails with one. `ClosedStays` is that
mark: without it the callbacks could close again. `FewLateSends` counts messages after
the close, and is kept because a thread that is past the test has sent nothing late yet
and has a message left (`SendsCounted`). `UnsentIsWatched` follows from `UnsentAsks`:
the channel asks for EPOLLOUT while there are bytes, and without a pool the kernel's
events are those of the channel, whatever it last asked for. With a pool nothing is
proved of the kernel's events, since the accept thread can tear them.

### TcpConnProof, second half: SentInOrder, NothingVanishes, CompleteMeansGone

`DataInv` is about the bytes and uses `IndInv`. `SentInOrder` speaks of the wire only;
what keeps it is that the whole path is in order for each thread, the wire before `_out`
before the queued sends (`Ordered`). The loop's own thread sends at once, past the
queue, which would break the order if it also queued: it does not (`OthersQueue`).
`AllHeld` is `NothingVanishes` as a statement about sets; that no byte is in two places
follows from `Ordered` and from `GoneIsGone`, as two positions of a byte would be in
order with themselves. `Completed` says that the bytes a queued completion is about, a
message's or a drained buffer's and not those of others, have left already, and a byte
that has left cannot be waiting, again by `Ordered`.

### TimerQueueProof: TypeOK, ReadFindsExpiry, ArmedForEarliest, InsertionsWake, SpacedByInterval

`ArmedForEarliest` speaks of a blocked loop; `Armed` says of every moment outside the
timerfd's callback that each timer of the set is covered by the timerfd. Inserting arms
again when the new timer is the earliest, the callback when it is over; setting the
clock back only adds to what `due` allows. `Expired` keeps an expiry from the report to
the read: a new arming would take it back, and insertions run in another phase. `Wakes`
is the argument of `EventLoopProof` for insertions, with those that still owe their
write of the eventfd. `SpacedByInterval` is an action property: the invariant behind it
(`Spaced`) adds the time since a timer's last run and the time to its next, and needs
that an endless timer keeps its interval and count. `WaitsOnce`, `TempIsRun` and
`RunsLeft` say where a timer can be. That the `Min` of a set of times is its least
member is proved from the well-foundedness of the natural numbers (`MinIsLeast`), not by
induction over the set.

### TcpServerProof: TypeOK, RegisteredIsAlive, ConfinedToLoop, BroadcastIsAlive, OnlyCloseFreesUnderTask

What keeps a registered connection alive is the accept thread or `m_conns`
(`Registered`), never a callback's argument. A close callback gives the server's
reference up; when it does, the connection is out of the epoll instance and the accept
thread is past registering it (`Closing`), or it is a stray, whose channel another
descriptor led to. `ConfinedToLoop` needs to know what a torn event can point at. Each
Epoll's `_ev` only ever has channels of its own loop's connections, since the accept
thread fills the one of the connection's loop and the loop's thread changes and removes
only its own (`Events`, for which queued sends must be the loop's own, too:
`TasksAreOwn`). So whatever the kernel has in place of a channel is one of the same
loop, and a stray (`Pointers`), and what a round still has to handle is registered by
now or a stray (`Reports`). `Sending` keeps the broadcast's copy, and `Kept` says that
only a close callback makes the server forget a connection, which with `TasksAreOwn` is
`OnlyCloseFreesUnderTask`.

### BufferProof: TypeOK, ImplementsByteQueue

`TypeOK` has it that the offset of a buffer that one thread uses never passes the end of
the vector: nothing comes between the question for the size and the removal
(`TakesAPart`), or between writeCallBack's write and its offset (`WrittenIsCurrent`). Of
a shared buffer neither that nor being a queue is true, and the theorem claims nothing
of the kind: a partial write between a user's copy and removal moves the offset past the
end. `IsByteQueue` assumes `~Shared`, as in the run `queue`; the run `shared_buffer`
shows how it fails otherwise. What has been copied is still the front of the contents
when it is removed (`CopyIsCurrent`), and what is in the buffer and what was taken are
together everything that was appended (`NothingLost`). `DropOfConcat` and `DropOfDrop`
say that the offset does not matter to the contents.

### AsynLogProof: SparesSuffice, KeptInOrder, TypeOK

`SparesSuffice` speaks of the moments the code asserts; the invariant says what makes
them true: `append` takes the next buffer only when it hands a full one over
(`NextMissingMeansFull`), so that the critical section gives both spares away only when
at least two buffers are taken (`EnoughToRecycle`), and the cut keeps two
(`CutKeepsTwo`; it holds for any positive `MaxBuffers`, whereas with a limit of 0 the
cut could ask for a second buffer that is not there). The second invariant, `OrderInv`,
takes the first for granted. `KeptInOrder` is about what the LogFile was given, failed
or not, and inductive when the file and the records dropped have their types: `Pipeline`
is everything from the first byte of the file to the current buffer, and each step of
the thread moves the boundary between its parts, which the lemmas about lists of buffers
follow (`WriteInOrder` for the cut, `AnotherRecord` for append, `Behind` and
`ThreeLists` for moving buffers on). An append's record is larger than all others, since
it is numbered under the same mutex.

Neither uses that a buffer is never over-full. The third invariant, `RoomInv`, says so:
append() looks for room twice, and what the second test leaves is a byte at least. How
much of a buffer is used is a fold over the records in it, and the record that is being
added changes the lengths that the fold looks up as well as the buffer (`UsedLaws`). The
steps of all three invariants are proved for a record of any length (`AnyAppend`), not
only for those in `Lens`.

This module also has the lemmas about folds. `FoldLeft` is a recursive function over
sets of indices, chosen by its equation; `FoldExists` shows, by `SetInduction`, that
there is such a function, and `FoldIsChain` that any has, at the whole sequence, the
last of the values one gets by putting one element after the other (`Chains`).
`ChainOfAppend` and `ChainsAgree` are then what an induction over a sequence needs.

### LoggingProof: LoggingTypeOK, LinesAreAccepted, LinesFit, ShortLinesAreWhole, NumbersReadBack

It also proves `SparesSuffice` and `KeptInOrder` of `LoggingSpec`, as the run `buffers`
checks them. Three inductions over data come first. The loop of a conversion ends
because a quotient is smaller than the number (`OneDigit`), so the function that
`DigitsUpward` chooses exists and satisfies its equation (`LoopExists`, `LoopsAgree`,
`DigitsUpwardLoops`). Each turn multiplies the value written so far by the base and adds
a digit, which is what the number was before it; that the first digit is not a zero is
needed for it, since the leading digits are a number too (`Readable`, `OneMoreDigit`).
It holds for negative numbers because the table of digits is mirrored: quotient and
remainder both have the number's sign. `DigitsAreFew` bounds the digits. It takes the
powers of the base as a function given by its equations.

The size of a line is the sum over its pieces (`SizeLaws`), and a line is built by one
insertion after the other (`BuildLaws`). An insertion leaves a byte free if it fits at
all (`InsertFits`): a text because its length is compared with what is left, a number
because it takes no more than what it asked for (`StatementAssumption`). So every
beginning of a statement's pieces fits (`BuildFits`), and the name of the level, which
comes first, is always in it. `ShortIsWhole` is the converse: sizes only grow, so that
in a line that ends short of the last `MaxDecLength` bytes each piece found room.

To the logger a log statement is an append of some length or nothing at all
(`LoggingStep`), so the three invariants of `AsynLogProof` hold for `LoggingSpec` too.
`SaidInv` adds that the latest record is the line of a statement, of that line's size,
or user code's, and that it was stored: `append` hands a buffer over exactly when the
buffer's own test would fail, and in an empty one every record smaller than a buffer has
room (`AppendAccepts`).

### LogFileProof: TypeOK, AcceptedIsWhole, OverdueIsNoticed

`AcceptedIsWhole` is about records that are finished. `OneAtATime` says where the
unfinished one is: its bytes so far are the last ones of the file, so that each of the
short writes continues it. `AcceptedAreRuns` says of every accepted record not only that
it is in one piece but that none of its bytes is anywhere else, which the count in the
property follows from (`Cardinality` of an interval); a record whose append failed
leaves a torn piece and is never written to again. `OverdueIsNoticed` speaks of an idle
file. `InTime` relates the clocks, `lastRoll <= lastFlush <= oldest <= now`, until the
clock is set back, and says that every append that ended overdue has been counted by
`_count`, or that the file is about to be rolled. An append that finds the file too
large does not count, but rolls it, and so nothing is overdue after it.

### What is only model-checked

* Liveness: `QueuedTaskRuns`, `BufferedBytesLeave`, `TimersRun`, `RecordsGetOut`,
  `StopReturns`, `AppendReturns`. They need ENABLED and reasoning about fairness, which
  the prover does not have.
* The five properties of the runs that must fail are false, and so have no proof.

Everything else that a run checks, all invariants and all action properties of the
passing runs and both refinements, is a theorem.

## 6. Not modelled

* The characters of texts and lines: TcpConn models a buffer as the sequence of its
  bytes, LogStream a line as the sequence of its pieces, AsynLog a file as the sequence
  of the buffers written to it. `setFlushFunc`, whose function nothing calls.
* The descriptor that ~TcpClient and the Channel of its connection both close.
* An epoll_wait that fails: its -1 becomes a huge count and the loop reads past the
  event array, undefined from the first element on.
* `_fd2channel`, which two threads change without a lock: a data race on an
  unordered_map that no modelled path reads. (Epoll's shared `_ev` is modelled, as the
  interleavings of its writes and epoll_ctl.)
* Destructors of EventLoop and TcpServer: `loop()` never returns, so they do not run
  while the threads do.
* `removeTimerEvent` (never called), the leak of timers, a wall clock that jumps ahead
  (it makes timers due while the timerfd waits; they run late).
* A log file that cannot be opened: the null pointer is written through, undefined.
* The terminator that a read of 2048 bytes writes one past its array (TcpConn.cpp:73).
* An fflush that fails in LogFile: AsynLog has its loss (`LoseSome`), LogFile takes what
  is given to the stream as written.
* Formatting, addresses, socket options, log lines.
