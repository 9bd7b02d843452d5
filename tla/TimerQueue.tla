----------------------------- MODULE TimerQueue -----------------------------
(***************************************************************************)
(* A TimerQueue with its timerfd and the EventLoop it belongs to.          *)
(*                                                                         *)
(* Time is relative and counted in ticks: due[t] is how far ahead timer    *)
(* t's timestamp is (negative when overdue, and not below -MaxLate: two    *)
(* timers that late are not told apart), tfd how far ahead the timerfd's   *)
(* expiry is, 0 when it has expired and was not read.  One tick is no more *)
(* than MinDelay's 100 microseconds.  Timestamps come from gettimeofday,   *)
(* the timerfd follows CLOCK_MONOTONIC: the wall clock may be set back     *)
(* under the timestamps (ClockBack).                                       *)
(*                                                                         *)
(* Of the loop this module keeps the order of a round (EventLoop.tla): the *)
(* timerfd's callback, then the swapped-out tasks.                         *)
(***************************************************************************)
EXTENDS Integers, Sequences, FiniteSets, FiniteSetsExt

CONSTANTS
    Timers,
    Delay,      \* per timer: how far ahead its first timestamp is
    Interval,   \* per timer: 0 for runAt and runAfter
    Count,      \* per timer: the count given to runEvery
    Forever,    \* the default count, size_t(-1)
    MinDelay,   \* the least the timerfd is set to
    MaxLate,    \* bound: the most a timer is known to be late
    Horizon,    \* bound: the furthest timestamp, above every delay and interval
    MaxJumps    \* bound: how often the wall clock is set back

Disarmed == -1

ASSUME TimerAssumption ==
    /\ MinDelay \in 1 .. Horizon
    /\ MaxLate \in Nat
    /\ Horizon \in Nat
    /\ MaxJumps \in Nat
    /\ Delay \in [Timers -> 0 .. Horizon]
    /\ Interval \in [Timers -> 0 .. Horizon]
    /\ Forever \in Int \ Nat
    /\ Count \in [Timers -> Nat \cup {Forever}]

VARIABLES
    due,       \* per timer: _timeStamp, relative to now
    interval,  \* per timer: _interval
    count,     \* per timer: _count
    where,     \* per timer: which structure holds it
    queue,     \* the loop's pending insertions
    temp,      \* the insertions swapped out of it
    wake,      \* the eventfd has been written
    owed,      \* timers another thread has queued and not yet woken the loop for
    phase,     \* where the loop's thread is
    batch,     \* the timerfd's channel was reported and is not yet handled
    tfd,       \* the timerfd
    jumps,     \* times the wall clock was set back
    runs,      \* history, per timer: callbacks run, at most one above its count
    since,     \* history, per timer: ticks since its last run, up to Horizon
    early      \* history: timers the loop's thread added before loop()

timers == <<due, interval, count, where>>
vars == <<due, interval, count, where, queue, temp, wake, owed, phase, batch, tfd,
          jumps, runs, since, early>>

Phases == {"constructed", "epoll_wait", "dispatch", "run", "reinsert", "pending"}
Places == {"new", "queued", "set", "triggered", "ran", "dead"}

\* _TimerEvents, and what the timerfd's callback took out of it
TimerEvents == {t \in Timers : where[t] = "set"}
Triggered == {t \in Timers : where[t] = "triggered"}
HasRun == {t \in Timers : where[t] = "ran"}

MostRuns(t) == IF Count[t] = Forever THEN 1 ELSE Count[t] + 1

\* a timer is in one place, and in a list exactly while it is "queued"
QueuedIsListed ==
    \A t \in Timers :
        (where[t] = "queued") <=>
            \E i \in DOMAIN (temp \o queue) : (temp \o queue)[i] = t

TypeOK ==
    /\ due \in [Timers -> -MaxLate .. Horizon]
    /\ interval \in [Timers -> 0 .. Horizon]
    /\ count \in [Timers -> Nat \cup {Forever}]
    /\ where \in [Timers -> Places]
    /\ queue \in Seq(Timers) /\ temp \in Seq(Timers)
    /\ wake \in BOOLEAN /\ batch \in BOOLEAN
    /\ owed \subseteq Timers
    /\ phase \in Phases
    /\ tfd \in {Disarmed} \cup 0 .. Horizon
    /\ jumps \in 0 .. MaxJumps
    /\ runs \in [Timers -> Nat] /\ \A t \in Timers : runs[t] <= MostRuns(t)
    /\ since \in [Timers -> 0 .. Horizon]
    /\ early \subseteq Timers
    /\ QueuedIsListed

Init ==
    /\ due = [t \in Timers |-> 0]
    /\ interval = Interval
    /\ count = Count
    /\ where = [t \in Timers |-> "new"]
    /\ queue = <<>>
    /\ temp = <<>>
    /\ wake = FALSE /\ owed = {}
    /\ phase = "constructed"
    /\ batch = FALSE
    /\ tfd = Disarmed
    /\ jumps = 0
    /\ runs = [t \in Timers |-> 0]
    /\ since = [t \in Timers |-> 0]
    /\ early = {}

-----------------------------------------------------------------------------
(* The clocks. *)

Later(d) == Max({d - 1, -MaxLate})

\* a timer whose timestamp means nothing yet or any more
Idle(t) == where[t] \in {"new", "dead"}

Tick ==
    /\ due' = [t \in Timers |-> IF Idle(t) THEN 0 ELSE Later(due[t])]
    /\ tfd' = IF tfd > 0 THEN tfd - 1 ELSE tfd
    /\ since' = [t \in Timers |-> IF runs[t] = 0 \/ Idle(t)
                                  THEN 0 ELSE Min({since[t] + 1, Horizon})]
    /\ UNCHANGED <<interval, count, where, queue, temp, wake, owed, phase, batch,
                   jumps, runs, early>>

\* the wall clock is set back by one tick; the timerfd does not notice
ClockBack ==
    /\ jumps < MaxJumps
    /\ jumps' = jumps + 1
    /\ due' = [t \in Timers |->
                  IF Idle(t) THEN 0 ELSE Min({due[t] + 1, Horizon})]
    /\ UNCHANGED <<interval, count, where, queue, temp, wake, owed, phase, batch, tfd,
                   runs, since, early>>

-----------------------------------------------------------------------------
\* howFarFromNow
HowFar(d) == Max({d, MinDelay})

\* setTimerfd: it replaces whatever was set, an expiry not read yet included
SetTimerfd(d) == tfd' = HowFar(d)

\* a bug: a later timer re-arms the timerfd
LatestArms(t, places) == TRUE

\* insertTimerPointer's result: nothing in the set is due as early
IsEarliest(t, places) ==
    \A u \in Timers : places[u] = "set" => due[u] > due[t]

\* a bug: the calling thread inserts and arms without going through the loop
AddDirectly(t, onLoop) ==
    /\ where[t] = "new"
    /\ Count[t] # 0
    /\ due' = [due EXCEPT ![t] = Delay[t]]
    /\ where' = [where EXCEPT ![t] = "set"]
    /\ IF IsEarliest(t, where) THEN SetTimerfd(Delay[t]) ELSE UNCHANGED tfd
    /\ UNCHANGED <<interval, count, queue, temp, wake, owed, phase, batch, jumps, runs,
                   since, early>>

OnLoopThread == phase \notin {"epoll_wait", "reinsert"}

(***************************************************************************)
(* insertTimerEvent, through runAt, runAfter or runEvery, on the loop's    *)
(* thread (before loop(), or in user code) or on another one.  A count of  *)
(* zero is refused.  The insertion itself is queued; as in queueInLoop the *)
(* eventfd is written during the pending list and by other threads, these  *)
(* after they have left the mutex (WakeLoop).                              *)
(***************************************************************************)
AddTimer(t, onLoop) ==
    /\ where[t] = "new"
    /\ Count[t] # 0
    /\ onLoop => OnLoopThread
    /\ due' = [due EXCEPT ![t] = Delay[t]]
    /\ where' = [where EXCEPT ![t] = "queued"]
    /\ queue' = Append(queue, t)
    /\ wake' = (wake \/ (onLoop /\ phase = "pending"))
    /\ owed' = IF onLoop THEN owed ELSE owed \cup {t}
    /\ early' = IF onLoop /\ phase = "constructed" THEN early \cup {t} ELSE early
    /\ UNCHANGED <<interval, count, temp, phase, batch, tfd, jumps, runs, since>>

\* a bug: a loop that handles its pending list is not woken
WakeUnlessPending(t) ==
    /\ t \in owed
    /\ owed' = owed \ {t}
    /\ wake' = (wake \/ phase # "pending")
    /\ UNCHANGED <<timers, queue, temp, phase, batch, tfd, jumps, runs, since, early>>

\* the eventfd's write by the thread that has queued t
WakeLoop(t) ==
    /\ t \in owed
    /\ owed' = owed \ {t}
    /\ wake' = TRUE
    /\ UNCHANGED <<timers, queue, temp, phase, batch, tfd, jumps, runs, since, early>>

-----------------------------------------------------------------------------
(* The loop. *)

StartLoop ==
    /\ phase = "constructed"
    /\ phase' = "epoll_wait"
    /\ UNCHANGED <<timers, queue, temp, wake, owed, batch, tfd, jumps, runs, since, early>>

\* epoll_wait returns for the timerfd or the eventfd, whose callback reads it
EpollReturn ==
    /\ phase = "epoll_wait"
    /\ tfd = 0 \/ wake
    /\ phase' = "dispatch"
    /\ batch' = (tfd = 0)
    /\ wake' = FALSE
    /\ UNCHANGED <<timers, queue, temp, owed, tfd, jumps, runs, since, early>>

\* epoll_wait returns for another channel only, or times out
EpollOther ==
    /\ phase = "epoll_wait"
    /\ tfd # 0 /\ ~wake
    /\ phase' = "dispatch"
    /\ UNCHANGED <<timers, queue, temp, wake, owed, batch, tfd, jumps, runs, since, early>>

\* the read of the timerfd resets it; getOverTimeEvent takes all that is due
ReadTimerfd ==
    /\ phase = "dispatch"
    /\ batch
    /\ batch' = FALSE
    /\ tfd' = Disarmed
    /\ where' = [t \in Timers |->
                   IF t \in TimerEvents /\ due[t] <= 0 THEN "triggered" ELSE where[t]]
    /\ phase' = "run"
    /\ UNCHANGED <<due, interval, count, queue, temp, wake, owed, jumps, runs, since,
                   early>>

\* Timer::run, in timestamp order (pointer order among equals)
RunTimer(t) ==
    /\ phase = "run"
    /\ t \in Triggered
    /\ \A u \in Triggered : due[t] <= due[u]
    /\ where' = [where EXCEPT ![t] = "ran"]
    /\ runs' = [runs EXCEPT ![t] = Min({@ + 1, MostRuns(t)})]
    /\ since' = [since EXCEPT ![t] = 0]
    /\ UNCHANGED <<due, interval, count, queue, temp, wake, owed, phase, batch, tfd,
                   jumps, early>>

RunsDone ==
    /\ phase = "run"
    /\ Triggered = {}
    /\ phase' = "reinsert"
    /\ UNCHANGED <<timers, queue, temp, wake, owed, batch, tfd, jumps, runs, since, early>>

\* a bug: the new timestamp does not get the interval added
MoveNowhere(t) ==
    /\ count' = count
    /\ interval' = interval
    /\ due' = [due EXCEPT ![t] = 0]

\* Timer::moveInterval: the count is spent after a run, the last one stops
\* the repetition but not the reinsertion that follows
MoveInterval(t) ==
    LET left == IF count[t] = Forever THEN Forever ELSE count[t] - 1
        step == IF left = 0 THEN 0 ELSE interval[t]
    IN /\ count' = [count EXCEPT ![t] = left]
       /\ interval' = [interval EXCEPT ![t] = step]
       /\ due' = [due EXCEPT ![t] = step]

\* a timer that repeats is inserted again, another one is forgotten (and leaks)
Reinsert(t) ==
    /\ phase = "reinsert"
    /\ t \in HasRun
    /\ \/ /\ interval[t] > 0
          /\ MoveInterval(t)
          /\ where' = [where EXCEPT ![t] = "set"]
       \/ /\ interval[t] = 0
          /\ where' = [where EXCEPT ![t] = "dead"]
          /\ UNCHANGED <<due, interval, count>>
    /\ UNCHANGED <<queue, temp, wake, owed, phase, batch, tfd, jumps, runs, since, early>>

\* a bug: the timerfd is only armed again if this round reinserted a timer
RearmIfRepeating ==
    /\ phase = "reinsert"
    /\ HasRun = {}
    /\ IF \E t \in TimerEvents : interval[t] > 0
         THEN SetTimerfd(Min({due[t] : t \in TimerEvents}))
         ELSE UNCHANGED tfd
    /\ phase' = "dispatch"
    /\ UNCHANGED <<timers, queue, temp, wake, owed, batch, jumps, runs, since, early>>

\* the end of the timerfd's callback: it is armed for the first of the set
Rearm ==
    /\ phase = "reinsert"
    /\ HasRun = {}
    /\ IF TimerEvents = {}
         THEN UNCHANGED tfd
         ELSE SetTimerfd(Min({due[t] : t \in TimerEvents}))
    /\ phase' = "dispatch"
    /\ UNCHANGED <<timers, queue, temp, wake, owed, batch, jumps, runs, since, early>>

\* a bug: the list is copied, not swapped
CopyPending ==
    /\ phase = "dispatch"
    /\ ~batch
    /\ temp' = queue
    /\ phase' = "pending"
    /\ UNCHANGED <<timers, queue, wake, owed, batch, tfd, jumps, runs, since, early>>

SwapPending ==
    /\ phase = "dispatch"
    /\ ~batch
    /\ temp' = queue
    /\ queue' = <<>>
    /\ phase' = "pending"
    /\ UNCHANGED <<timers, wake, owed, batch, tfd, jumps, runs, since, early>>

\* the queued insertion: insertTimerPointer, then setTimerfd if it is earliest
InsertTask ==
    /\ phase = "pending"
    /\ temp # <<>>
    /\ LET t == Head(temp)
       IN /\ where' = [where EXCEPT ![t] = "set"]
          /\ IF IsEarliest(t, where) THEN SetTimerfd(due[t]) ELSE UNCHANGED tfd
    /\ temp' = Tail(temp)
    /\ UNCHANGED <<due, interval, count, queue, wake, owed, phase, batch, jumps, runs,
                   since, early>>

EndPending ==
    /\ phase = "pending"
    /\ temp = <<>>
    /\ phase' = "epoll_wait"
    /\ UNCHANGED <<timers, queue, temp, wake, owed, batch, tfd, jumps, runs, since, early>>

-----------------------------------------------------------------------------
LoopStep ==
    \/ StartLoop \/ EpollReturn \/ ReadTimerfd
    \/ \E t \in Timers : RunTimer(t) \/ Reinsert(t)
    \/ RunsDone \/ Rearm
    \/ SwapPending \/ InsertTask \/ EndPending

Next ==
    \/ LoopStep
    \/ EpollOther
    \/ Tick
    \/ ClockBack
    \/ \E t \in Timers, onLoop \in BOOLEAN : AddTimer(t, onLoop)
    \/ \E t \in Timers : WakeLoop(t)

\* Time passes, the loop's thread is scheduled and callbacks return, and a thread
\* inside queueInLoop reaches its write.  Nothing is assumed of other channels'
\* events or of the timeout of epoll_wait.
Fairness ==
    /\ WF_vars(Tick) /\ WF_vars(LoopStep)
    /\ \A t \in Timers : WF_vars(WakeLoop(t))

Spec == Init /\ [][Next]_vars /\ Fairness

-----------------------------------------------------------------------------
\* assert(overtimeCount): whatever happens between epoll_wait and the read,
\* nothing re-arms the timerfd, so the read finds an expiry.
ReadFindsExpiry == batch => tfd = 0

(***************************************************************************)
(* A loop that blocks with timers in its set has the timerfd armed, and    *)
(* for the earliest of them or for the least delay, even if arming for a   *)
(* new timer has cancelled an expiry nobody had read.                      *)
(***************************************************************************)
ArmedForEarliest ==
    phase = "epoll_wait" =>
        \A t \in TimerEvents : tfd # Disarmed /\ tfd <= HowFar(due[t])

(***************************************************************************)
(* A blocked loop has no insertion waiting that nothing will wake it for,  *)
(* except those its own thread made before loop(): another thread may have *)
(* queued it while the loop swapped its list, ran it or went back to       *)
(* sleep, and write the eventfd at any later time.                         *)
(***************************************************************************)
InsertionsWake ==
    phase = "epoll_wait" =>
        wake \/ owed # {} \/ \A i \in DOMAIN queue : queue[i] \in early

\* the timers that repeat forever
Endless == {t \in Timers : Count[t] = Forever /\ Interval[t] > 0}

\* A timer that repeats forever never runs twice within its interval.
SpacedByInterval ==
    [][\A t \in Timers :
          t \in Endless \cap Triggered /\ where'[t] = "ran" /\ runs[t] > 0
          => since[t] >= Interval[t]]_vars

\* Every timer added, other than before loop(), runs at last; one that
\* repeats forever runs again and again.
TimersRun ==
    /\ \A t \in Timers : (where[t] = "queued" /\ t \notin early) ~> where[t] = "ran"
    /\ \A t \in Endless : runs[t] > 0 ~> where[t] = "ran"

-----------------------------------------------------------------------------
(* What the callers of the code are told. *)

\* runEvery(interval, callback, n) runs the callback n times.
RunsAtMostCount == \A t \in Timers : Count[t] # Forever => runs[t] <= Count[t]
=============================================================================
