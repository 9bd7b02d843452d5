---------------------------- MODULE TimerQueueProof ----------------------------
(***************************************************************************)
(* Proofs about TimerQueue, for any timers, delays, intervals and counts.  *)
(***************************************************************************)
EXTENDS TimerQueue, SequenceTheorems, WellFoundedInduction, TLAPS

\* The timers waiting for their insertion, in order.
Waiting == temp \o queue

\* No timer waits twice.
WaitsOnce == \A i, j \in DOMAIN Waiting : Waiting[i] = Waiting[j] => i = j

\* Insertions are swapped out only to be run at once.
TempIsRun == phase # "pending" => temp = <<>>

\* A timer that goes on repeating has runs left.
RunsLeft ==
    \A t \in Timers :
        /\ where[t] = "new" => interval[t] = Interval[t] /\ count[t] = Count[t]
        /\ where[t] # "new" /\ interval[t] > 0 => count[t] # 0

\* The timerfd stays expired from the report of its channel to the read.
Expired == batch => phase = "dispatch" /\ tfd = 0

\* A wake-up is pending for the insertions as soon as they can be missed, or a
\* thread is about to make it.
Wakes ==
    /\ phase \in {"constructed", "epoll_wait"} =>
          wake \/ owed # {} \/ \A i \in DOMAIN queue : queue[i] \in early
    /\ phase = "pending" => wake \/ owed # {} \/ queue = <<>>

\* Outside the timerfd's callback the timerfd covers every timer of the set.
Armed ==
    phase \notin {"run", "reinsert"} =>
        \A t \in Timers : where[t] = "set" => tfd # Disarmed /\ tfd <= HowFar(due[t])

\* An endless timer has its interval and its count for ever; the time since its
\* last run and the time to its next one add up to the interval.
Spaced ==
    \A t \in Endless :
        /\ interval[t] = Interval[t] /\ count[t] = Forever
        /\ where[t] \in {"new", "queued"} => runs[t] = 0
        /\ runs[t] > 0 /\ where[t] = "set" =>
              since[t] >= Interval[t] \/ since[t] + due[t] >= Interval[t]
        /\ runs[t] > 0 /\ where[t] = "triggered" => since[t] >= Interval[t]

IndInv ==
    /\ TypeOK
    /\ WaitsOnce
    /\ TempIsRun
    /\ RunsLeft
    /\ Expired
    /\ Wakes
    /\ Armed
    /\ Spaced

-----------------------------------------------------------------------------
(***************************************************************************)
(* Least and greatest members.                                             *)
(***************************************************************************)
\* A set of integers with a lower bound has a least one.
LEMMA MinIsLeast ==
    ASSUME NEW S, S \subseteq Int, S # {}, NEW low \in Int, \A x \in S : low <= x
    PROVE  Min(S) \in S /\ \A y \in S : Min(S) <= y
<1> DEFINE T == {n \in Nat : low + n \in S}
           R == OpToRel(<, Nat)
<1>1. T \subseteq Nat /\ T # {}
  <2>1. PICK x \in S : TRUE
    OBVIOUS
  <2>2. x - low \in Nat /\ low + (x - low) = x
    BY <2>1
  <2>3. x - low \in T
    BY <2>2
  <2>. QED
    BY <2>3
<1>2. IsWellFoundedOn(R, Nat)
  BY NatLessThanWellFounded, Zenon
<1>3. PICK m \in T : \A n \in T : ~ (<<n, m>> \in R)
  <2> HIDE DEF T, R
  <2>. QED
    BY <1>1, <1>2, WFMin
<1>4. ASSUME NEW y \in S
      PROVE  low + m <= y
  <2>1. y - low \in Nat /\ low + (y - low) = y
    OBVIOUS
  <2>2. y - low \in T
    BY <2>1
  <2>3. ~ (y - low < m)
    BY <1>3, <2>2 DEF OpToRel
  <2>. QED
    BY <2>1, <2>3
<1>5. low + m \in S
  OBVIOUS
<1>. QED
  BY <1>4, <1>5 DEF Min

LEMMA MinOfTwo ==
    ASSUME NEW a \in Int, NEW b \in Int
    PROVE  Min({a, b}) = IF a <= b THEN a ELSE b
<1>1. Min({a, b}) \in {a, b} /\ \A y \in {a, b} : Min({a, b}) <= y
  <2>1. \E x \in {a, b} : \A y \in {a, b} : x <= y
    OBVIOUS
  <2>. QED
    BY <2>1 DEF Min
<1>. QED
  BY <1>1

LEMMA MaxOfTwo ==
    ASSUME NEW a \in Int, NEW b \in Int
    PROVE  Max({a, b}) = IF a >= b THEN a ELSE b
<1>1. Max({a, b}) \in {a, b} /\ \A y \in {a, b} : Max({a, b}) >= y
  <2>1. \E x \in {a, b} : \A y \in {a, b} : x >= y
    OBVIOUS
  <2>. QED
    BY <2>1 DEF Max
<1>. QED
  BY <1>1

\* The clocks and the timerfd's delays.
LEMMA ClockProperties ==
    ASSUME NEW d \in -MaxLate .. Horizon
    PROVE  /\ Later(d) \in -MaxLate .. Horizon /\ Later(d) >= d - 1
           /\ Min({d + 1, Horizon}) \in -MaxLate .. Horizon
           /\ Min({d + 1, Horizon}) >= d
           /\ Min({d + 1, Horizon}) = d + 1 \/ Min({d + 1, Horizon}) = Horizon
           /\ HowFar(d) = IF d >= MinDelay THEN d ELSE MinDelay
           /\ HowFar(d) \in 1 .. Horizon
<1>1. MaxLate \in Nat /\ Horizon \in Nat /\ MinDelay \in 1 .. Horizon
  BY TimerAssumption
<1>2. d \in Int /\ -MaxLate <= d /\ d <= Horizon
  BY <1>1
<1>3. Later(d) = IF d - 1 >= -MaxLate THEN d - 1 ELSE -MaxLate
  BY <1>1, <1>2, MaxOfTwo DEF Later
<1>4. Min({d + 1, Horizon}) = IF d + 1 <= Horizon THEN d + 1 ELSE Horizon
  BY <1>1, <1>2, MinOfTwo
<1>5. HowFar(d) = IF d >= MinDelay THEN d ELSE MinDelay
  BY <1>1, <1>2, MaxOfTwo DEF HowFar
<1>. QED
  BY <1>1, <1>2, <1>3, <1>4, <1>5

-----------------------------------------------------------------------------
LEMMA InitInv == Init => IndInv
<1> SUFFICES ASSUME Init
             PROVE  IndInv
  OBVIOUS
<1>1. Waiting = <<>> /\ DOMAIN Waiting = {} /\ temp \o queue = Waiting
  BY DEF Init, Waiting
<1>2. TypeOK
  <2>1. /\ due \in [Timers -> -MaxLate .. Horizon] /\ since \in [Timers -> 0 .. Horizon]
        /\ interval \in [Timers -> 0 .. Horizon] /\ count \in [Timers -> Nat \cup {Forever}]
        /\ runs \in [Timers -> Nat] /\ jumps \in 0 .. MaxJumps
    BY TimerAssumption DEF Init
  <2>2. \A t \in Timers : runs[t] <= MostRuns(t)
    <3> SUFFICES ASSUME NEW t \in Timers
                 PROVE  runs[t] <= MostRuns(t)
      OBVIOUS
    <3>1. MostRuns(t) \in Nat
      BY TimerAssumption DEF MostRuns
    <3>2. runs[t] = 0
      BY DEF Init
    <3>. QED
      BY <3>1, <3>2
  <2>3. where \in [Timers -> Places] /\ phase \in Phases
    BY DEF Init, Places, Phases
  <2>4. queue \in Seq(Timers) /\ temp \in Seq(Timers)
    BY DEF Init
  <2>5. wake \in BOOLEAN /\ batch \in BOOLEAN /\ owed \subseteq Timers
    BY DEF Init
  <2>6. tfd \in {Disarmed} \cup 0 .. Horizon /\ early \subseteq Timers
    BY DEF Init
  <2>7. QueuedIsListed
    BY <1>1 DEF Init, QueuedIsListed
  <2>. QED
    BY <2>1, <2>2, <2>3, <2>4, <2>5, <2>6, <2>7 DEF TypeOK
<1>3. WaitsOnce /\ TempIsRun
  BY <1>1 DEF Init, WaitsOnce, TempIsRun
<1>4. RunsLeft
  BY DEF Init, RunsLeft
<1>5. Expired /\ Wakes
  BY DEF Init, Expired, Wakes
<1>6. Armed
  BY DEF Init, Armed
<1>7. Spaced
  BY DEF Init, Spaced, Endless
<1>. QED
  BY <1>2, <1>3, <1>4, <1>5, <1>6, <1>7 DEF IndInv

-----------------------------------------------------------------------------
(***************************************************************************)
(* The insertions that wait: what a step may do with them.                 *)
(***************************************************************************)
\* A step that leaves the lists alone and queues nobody.
LEMMA ListsStay ==
    ASSUME QueuedIsListed, WaitsOnce, UNCHANGED <<queue, temp>>,
           \A t \in Timers : where'[t] = "queued" <=> where[t] = "queued"
    PROVE  QueuedIsListed' /\ WaitsOnce'
BY DEF QueuedIsListed, WaitsOnce, Waiting

\* queueInLoop.
LEMMA OneMoreWaits ==
    ASSUME TypeOK, WaitsOnce, NEW t \in Timers, where[t] # "queued",
           queue' = Append(queue, t), temp' = temp,
           where' = [where EXCEPT ![t] = "queued"]
    PROVE  queue' \in Seq(Timers) /\ QueuedIsListed' /\ WaitsOnce'
<1>1. /\ queue \in Seq(Timers) /\ temp \in Seq(Timers) /\ QueuedIsListed
      /\ where \in [Timers -> Places]
  BY DEF TypeOK
<1>2. Waiting \in Seq(Timers)
  BY <1>1, ConcatProperties DEF Waiting
<1>3. queue' \in Seq(Timers) /\ Waiting' = Append(Waiting, t)
  <2>1. queue' \in Seq(Timers) /\ Waiting' \in Seq(Timers)
    <3>1. queue' \in Seq(Timers)
      BY <1>1, AppendProperties
    <3>. QED
      BY <1>1, <3>1, ConcatProperties DEF Waiting
  <2>2. Append(Waiting, t) \in Seq(Timers) /\ Len(Append(Waiting, t)) = Len(Waiting) + 1
    BY <1>2, AppendProperties
  <2>3. /\ Len(queue') = Len(queue) + 1 /\ queue'[Len(queue) + 1] = t
        /\ \A i \in 1 .. Len(queue) : queue'[i] = queue[i]
    BY <1>1, AppendProperties
  <2>4. /\ Len(Waiting) = Len(temp) + Len(queue)
        /\ \A i \in 1 .. Len(temp) + Len(queue) :
              Waiting[i] = IF i <= Len(temp) THEN temp[i] ELSE queue[i - Len(temp)]
        /\ Len(Waiting') = Len(temp) + Len(queue')
        /\ \A i \in 1 .. Len(temp) + Len(queue') :
              Waiting'[i] = IF i <= Len(temp) THEN temp[i] ELSE queue'[i - Len(temp)]
    BY <1>1, <2>1, ConcatProperties DEF Waiting
  <2>5. Len(temp) \in Nat /\ Len(queue) \in Nat
    BY <1>1
  <2>6. ASSUME NEW i \in 1 .. Len(Waiting) + 1
        PROVE  Waiting'[i] = Append(Waiting, t)[i]
    <3>1. CASE i <= Len(temp)
      <4>1. Append(Waiting, t)[i] = Waiting[i]
        BY <1>2, <2>4, <2>5, <3>1, AppendProperties
      <4>. QED
        BY <2>3, <2>4, <2>5, <3>1, <4>1
    <3>2. CASE i > Len(temp) /\ i <= Len(temp) + Len(queue)
      <4>1. Append(Waiting, t)[i] = Waiting[i]
        BY <1>2, <2>4, <2>5, <3>2, AppendProperties
      <4>2. i - Len(temp) \in 1 .. Len(queue)
        BY <2>5, <3>2
      <4>3. queue'[i - Len(temp)] = queue[i - Len(temp)]
        BY <2>3, <4>2
      <4>. QED
        BY <2>3, <2>4, <2>5, <3>2, <4>1, <4>3
    <3>3. CASE i = Len(temp) + Len(queue) + 1
      <4>1. Append(Waiting, t)[i] = t
        BY <1>2, <2>4, <3>3, AppendProperties
      <4>2. i - Len(temp) = Len(queue) + 1
        BY <2>5, <3>3
      <4>. QED
        BY <2>3, <2>4, <2>5, <3>3, <4>1, <4>2
    <3>. QED
      BY <2>4, <2>5, <3>1, <3>2, <3>3
  <2>. QED
    BY <2>1, <2>2, <2>3, <2>4, <2>5, <2>6, SeqEqual
<1>4. /\ DOMAIN Waiting' = 1 .. Len(Waiting) + 1 /\ DOMAIN Waiting = 1 .. Len(Waiting)
      /\ Len(Waiting) \in Nat
      /\ \A i \in 1 .. Len(Waiting) : Waiting'[i] = Waiting[i]
      /\ Waiting'[Len(Waiting) + 1] = t
  BY <1>2, <1>3, AppendProperties
<1>5. \A i \in DOMAIN Waiting : Waiting[i] # t
  BY <1>1 DEF QueuedIsListed, Waiting
<1>6. \A i \in DOMAIN Waiting' : i \in DOMAIN Waiting \/ i = Len(Waiting) + 1
  BY <1>4
<1>7. WaitsOnce'
  BY <1>4, <1>5, <1>6 DEF WaitsOnce
<1>8. \A u \in Timers : where'[u] = "queued" <=> (u = t \/ where[u] = "queued")
  BY <1>1
<1>9. \A u \in Timers : where[u] = "queued" <=> \E i \in DOMAIN Waiting : Waiting[i] = u
  BY <1>1 DEF QueuedIsListed, Waiting
<1>10. \A u \in Timers :
         (u = t \/ \E i \in DOMAIN Waiting : Waiting[i] = u)
            <=> \E i \in DOMAIN Waiting' : Waiting'[i] = u
  BY <1>4, <1>6
<1>11. QueuedIsListed'
  BY <1>8, <1>9, <1>10 DEF QueuedIsListed, Waiting
<1>. QED
  BY <1>3, <1>7, <1>11

\* The first insertion swapped out is run.
LEMMA OneLessWaits ==
    ASSUME TypeOK, WaitsOnce, temp # <<>>, temp' = Tail(temp), queue' = queue,
           where' = [where EXCEPT ![Head(temp)] = "set"]
    PROVE  /\ Head(temp) \in Timers /\ where[Head(temp)] = "queued"
           /\ temp' \in Seq(Timers) /\ QueuedIsListed' /\ WaitsOnce'
<1> DEFINE t == Head(temp)
<1>1. /\ queue \in Seq(Timers) /\ temp \in Seq(Timers) /\ QueuedIsListed
      /\ where \in [Timers -> Places]
  BY DEF TypeOK
<1>2. /\ t \in Timers /\ temp' \in Seq(Timers) /\ t = temp[1]
      /\ Len(temp') = Len(temp) - 1 /\ Len(temp) \in Nat \ {0} /\ Len(queue) \in Nat
      /\ \A i \in 1 .. Len(temp) - 1 : temp'[i] = temp[i + 1]
  BY <1>1, HeadTailProperties
<1> HIDE DEF t
<1>3. /\ Waiting \in Seq(Timers) /\ Len(Waiting) = Len(temp) + Len(queue)
      /\ \A i \in 1 .. Len(temp) + Len(queue) :
            Waiting[i] = IF i <= Len(temp) THEN temp[i] ELSE queue[i - Len(temp)]
      /\ Waiting' \in Seq(Timers) /\ Len(Waiting') = Len(temp') + Len(queue)
      /\ \A i \in 1 .. Len(temp') + Len(queue) :
            Waiting'[i] = IF i <= Len(temp') THEN temp'[i] ELSE queue[i - Len(temp')]
  BY <1>1, <1>2, ConcatProperties DEF Waiting
<1>4. /\ DOMAIN Waiting = 1 .. Len(temp) + Len(queue)
      /\ DOMAIN Waiting' = 1 .. Len(temp) + Len(queue) - 1
      /\ 1 \in DOMAIN Waiting /\ Waiting[1] = t
  BY <1>2, <1>3
<1>5. ASSUME NEW i \in DOMAIN Waiting', NEW k, k = i + 1
      PROVE  k \in DOMAIN Waiting /\ k # 1 /\ Waiting'[i] = Waiting[k]
  <2>1. k \in 1 .. Len(temp) + Len(queue) /\ k # 1
    BY <1>2, <1>4, <1>5
  <2>2. CASE i <= Len(temp) - 1
    <3>1. k <= Len(temp) /\ i <= Len(temp') /\ i \in 1 .. Len(temp) - 1
      BY <1>2, <1>4, <1>5, <2>2
    <3>2. Waiting'[i] = temp'[i] /\ Waiting[k] = temp[k]
      BY <1>2, <1>3, <1>4, <2>1, <3>1
    <3>. QED
      BY <1>2, <1>4, <1>5, <2>1, <3>1, <3>2
  <2>3. CASE ~(i <= Len(temp) - 1)
    <3>1. ~(k <= Len(temp)) /\ ~(i <= Len(temp')) /\ i - Len(temp') = k - Len(temp)
      BY <1>2, <1>4, <1>5, <2>3
    <3>2. i \in 1 .. Len(temp') + Len(queue)
      BY <1>2, <1>4
    <3>3. Waiting'[i] = queue[i - Len(temp')]
      BY <1>3, <3>1, <3>2
    <3>4. Waiting[k] = queue[k - Len(temp)]
      BY <1>3, <2>1, <3>1
    <3>. QED
      BY <1>4, <2>1, <3>1, <3>3, <3>4
  <2>. QED
    BY <2>2, <2>3
<1>6. ASSUME NEW k \in DOMAIN Waiting, k # 1
      PROVE  k - 1 \in DOMAIN Waiting' /\ Waiting'[k - 1] = Waiting[k]
  <2>1. k - 1 \in DOMAIN Waiting' /\ k = (k - 1) + 1
    BY <1>2, <1>4, <1>6
  <2>. QED
    BY <1>5, <2>1
<1>7. WaitsOnce'
  <2> SUFFICES ASSUME NEW i \in DOMAIN Waiting', NEW j \in DOMAIN Waiting',
                      Waiting'[i] = Waiting'[j]
               PROVE  i = j
    BY DEF WaitsOnce
  <2>1. i \in Int /\ j \in Int
    BY <1>2, <1>4
  <2>2. PICK k, l : k = i + 1 /\ l = j + 1
    OBVIOUS
  <2>3. k \in DOMAIN Waiting /\ l \in DOMAIN Waiting /\ Waiting[k] = Waiting[l]
    BY <1>5, <2>2
  <2>4. k = l
    BY <2>3 DEF WaitsOnce
  <2>. QED
    BY <2>1, <2>2, <2>4
<1>8. \A u \in Timers : where[u] = "queued" <=> \E i \in DOMAIN Waiting : Waiting[i] = u
  BY <1>1 DEF QueuedIsListed, Waiting
<1>9. where[t] = "queued"
  BY <1>2, <1>4, <1>8
<1>10. \A u \in Timers : where'[u] = "queued" <=> (u # t /\ where[u] = "queued")
  BY <1>1, <1>2 DEF t
<1>11. ASSUME NEW u \in Timers
       PROVE  (u # t /\ \E i \in DOMAIN Waiting : Waiting[i] = u)
                 <=> \E i \in DOMAIN Waiting' : Waiting'[i] = u
  <2>1. ASSUME u # t, NEW k \in DOMAIN Waiting, Waiting[k] = u
        PROVE  \E i \in DOMAIN Waiting' : Waiting'[i] = u
    <3>1. k # 1
      BY <1>4, <2>1
    <3>. QED
      BY <1>6, <2>1, <3>1
  <2>2. ASSUME NEW i \in DOMAIN Waiting', Waiting'[i] = u
        PROVE  u # t /\ \E k \in DOMAIN Waiting : Waiting[k] = u
    <3>1. PICK k : k = i + 1
      OBVIOUS
    <3>2. k \in DOMAIN Waiting /\ k # 1 /\ Waiting[k] = u
      BY <1>5, <2>2, <3>1
    <3>3. Waiting[k] # Waiting[1]
      BY <1>4, <3>2 DEF WaitsOnce
    <3>. QED
      BY <1>4, <3>2, <3>3
  <2>. QED
    BY <2>1, <2>2
<1>12. QueuedIsListed'
  BY <1>8, <1>10, <1>11 DEF QueuedIsListed, Waiting
<1>. QED
  BY <1>2, <1>7, <1>9, <1>12 DEF t

-----------------------------------------------------------------------------
(***************************************************************************)
(* The steps.                                                              *)
(***************************************************************************)
\* The types, without the lists.
LEMMA Types ==
    ASSUME TypeOK
    PROVE  /\ due \in [Timers -> -MaxLate .. Horizon]
           /\ interval \in [Timers -> 0 .. Horizon]
           /\ count \in [Timers -> Nat \cup {Forever}]
           /\ where \in [Timers -> Places]
           /\ runs \in [Timers -> Nat]
           /\ since \in [Timers -> 0 .. Horizon]
           /\ tfd \in {Disarmed} \cup 0 .. Horizon
BY DEF TypeOK

LEMMA TickInv ==
    ASSUME IndInv, Tick
    PROVE  IndInv'
<1> USE DEF IndInv
<1>1. /\ Horizon \in Nat /\ MaxLate \in Nat /\ MinDelay \in 1 .. Horizon
      /\ due \in [Timers -> -MaxLate .. Horizon] /\ since \in [Timers -> 0 .. Horizon]
      /\ tfd \in {Disarmed} \cup 0 .. Horizon
      /\ Interval \in [Timers -> 0 .. Horizon]
  BY TimerAssumption DEF TypeOK
<1>2. UNCHANGED <<interval, count, where, queue, temp, wake, owed, phase, batch, jumps,
                  runs, early>>
  BY DEF Tick
<1>3. ASSUME NEW t \in Timers
      PROVE  /\ due'[t] \in -MaxLate .. Horizon
             /\ ~Idle(t) => due'[t] >= due[t] - 1 /\ due'[t] = Later(due[t])
  <2>1. Later(due[t]) \in -MaxLate .. Horizon /\ Later(due[t]) >= due[t] - 1
    BY <1>1, ClockProperties
  <2>2. due'[t] = IF Idle(t) THEN 0 ELSE Later(due[t])
    BY DEF Tick
  <2>. QED
    BY <1>1, <2>1, <2>2
<1>4. ASSUME NEW t \in Timers
      PROVE  /\ since'[t] \in 0 .. Horizon
             /\ runs[t] > 0 /\ ~Idle(t) =>
                   since'[t] = IF since[t] + 1 <= Horizon THEN since[t] + 1 ELSE Horizon
  <2>1. Min({since[t] + 1, Horizon}) = IF since[t] + 1 <= Horizon THEN since[t] + 1 ELSE Horizon
    BY <1>1, MinOfTwo
  <2>2. since'[t] = IF runs[t] = 0 \/ Idle(t) THEN 0 ELSE Min({since[t] + 1, Horizon})
    BY DEF Tick
  <2>. QED
    BY <1>1, <2>1, <2>2
<1>5. due' \in [Timers -> -MaxLate .. Horizon] /\ since' \in [Timers -> 0 .. Horizon]
  BY <1>3, <1>4 DEF Tick
<1>6. /\ tfd' \in {Disarmed} \cup 0 .. Horizon
      /\ tfd # Disarmed => tfd' # Disarmed
      /\ tfd = 0 => tfd' = 0
  <2>1. tfd' = IF tfd > 0 THEN tfd - 1 ELSE tfd
    BY DEF Tick
  <2>2. tfd \in Int /\ Disarmed = -1 /\ tfd >= -1 /\ tfd <= Horizon
    BY <1>1 DEF Disarmed
  <2>. QED
    BY <1>1, <2>1, <2>2
<1>7. QueuedIsListed' /\ WaitsOnce'
  BY <1>2, ListsStay DEF TypeOK
<1>8. TypeOK'
  BY <1>2, <1>5, <1>6, <1>7 DEF TypeOK
<1>9. TempIsRun' /\ RunsLeft' /\ Expired' /\ Wakes'
  BY <1>2, <1>6 DEF TempIsRun, RunsLeft, Expired, Wakes
<1>10. Armed'
  <2> SUFFICES ASSUME phase \notin {"run", "reinsert"}, NEW t \in Timers, where[t] = "set"
               PROVE  tfd' # Disarmed /\ tfd' <= HowFar(due'[t])
    BY <1>2 DEF Armed
  <2>1. tfd # Disarmed /\ tfd <= HowFar(due[t]) /\ ~Idle(t)
    BY DEF Armed, Idle
  <2>2. /\ HowFar(due[t]) = IF due[t] >= MinDelay THEN due[t] ELSE MinDelay
        /\ HowFar(due'[t]) = IF due'[t] >= MinDelay THEN due'[t] ELSE MinDelay
    BY <1>1, <1>3, ClockProperties
  <2>3. due'[t] >= due[t] - 1
    BY <1>3, <2>1
  <2>4. CASE tfd = 0
    BY <1>1, <1>3, <1>6, <2>2, <2>4 DEF Disarmed
  <2>5. CASE tfd > 0
    <3>1. tfd' = tfd - 1
      BY <2>5 DEF Tick
    <3>. QED
      BY <1>1, <1>3, <1>6, <2>1, <2>2, <2>3, <3>1
  <2>. QED
    BY <1>1, <2>1, <2>4, <2>5
<1>11. Spaced'
  <2> SUFFICES ASSUME NEW t \in Endless
               PROVE  /\ interval[t] = Interval[t] /\ count[t] = Forever
                      /\ where[t] \in {"new", "queued"} => runs[t] = 0
                      /\ runs[t] > 0 /\ where[t] = "set" =>
                            since'[t] >= Interval[t] \/ since'[t] + due'[t] >= Interval[t]
                      /\ runs[t] > 0 /\ where[t] = "triggered" => since'[t] >= Interval[t]
    BY <1>2 DEF Spaced, Endless
  <2>1. t \in Timers
    BY DEF Endless
  <2>2. ASSUME runs[t] > 0, where[t] \in {"set", "triggered"}
        PROVE  /\ since[t] >= Interval[t] => since'[t] >= Interval[t]
               /\ since[t] + due[t] >= Interval[t] =>
                     since'[t] >= Interval[t] \/ since'[t] + due'[t] >= Interval[t]
    <3>1. ~Idle(t)
      BY <2>2 DEF Idle
    <3>2. /\ since'[t] = IF since[t] + 1 <= Horizon THEN since[t] + 1 ELSE Horizon
          /\ due'[t] >= due[t] - 1 /\ due'[t] \in -MaxLate .. Horizon
      BY <1>3, <1>4, <2>1, <2>2, <3>1
    <3>3. since[t] \in 0 .. Horizon /\ Interval[t] \in 0 .. Horizon
          /\ due[t] \in -MaxLate .. Horizon
      BY <1>1, <2>1
    <3>. QED
      BY <1>1, <3>2, <3>3
  <2>. QED
    BY <2>2 DEF Spaced
<1>. QED
  BY <1>7, <1>8, <1>9, <1>10, <1>11

LEMMA ClockBackInv ==
    ASSUME IndInv, ClockBack
    PROVE  IndInv'
<1> USE DEF IndInv
<1>1. /\ Horizon \in Nat /\ MaxLate \in Nat /\ MinDelay \in 1 .. Horizon
      /\ due \in [Timers -> -MaxLate .. Horizon] /\ since \in [Timers -> 0 .. Horizon]
      /\ tfd \in {Disarmed} \cup 0 .. Horizon
      /\ Interval \in [Timers -> 0 .. Horizon]
      /\ MaxJumps \in Nat /\ jumps \in 0 .. MaxJumps
  BY TimerAssumption DEF TypeOK
<1>2. UNCHANGED <<interval, count, where, queue, temp, wake, owed, phase, batch, tfd,
                  runs, since, early>>
  BY DEF ClockBack
<1>3. ASSUME NEW t \in Timers
      PROVE  /\ due'[t] \in -MaxLate .. Horizon
             /\ ~Idle(t) => due'[t] >= due[t] /\ (due'[t] = due[t] + 1 \/ due'[t] = Horizon)
  <2>1. /\ Min({due[t] + 1, Horizon}) \in -MaxLate .. Horizon
        /\ Min({due[t] + 1, Horizon}) >= due[t]
        /\ Min({due[t] + 1, Horizon}) = due[t] + 1 \/ Min({due[t] + 1, Horizon}) = Horizon
    BY <1>1, ClockProperties
  <2>2. due'[t] = IF Idle(t) THEN 0 ELSE Min({due[t] + 1, Horizon})
    BY DEF ClockBack
  <2>. QED
    BY <1>1, <2>1, <2>2
<1>4. due' \in [Timers -> -MaxLate .. Horizon]
  BY <1>3 DEF ClockBack
<1>5. jumps' \in 0 .. MaxJumps
  BY <1>1 DEF ClockBack
<1>6. QueuedIsListed' /\ WaitsOnce'
  BY <1>2, ListsStay DEF TypeOK
<1>7. TypeOK'
  BY <1>2, <1>4, <1>5, <1>6 DEF TypeOK
<1>8. TempIsRun' /\ RunsLeft' /\ Expired' /\ Wakes'
  BY <1>2 DEF TempIsRun, RunsLeft, Expired, Wakes
<1>9. Armed'
  <2> SUFFICES ASSUME phase \notin {"run", "reinsert"}, NEW t \in Timers, where[t] = "set"
               PROVE  tfd # Disarmed /\ tfd <= HowFar(due'[t])
    BY <1>2 DEF Armed
  <2>1. tfd # Disarmed /\ tfd <= HowFar(due[t]) /\ ~Idle(t)
    BY DEF Armed, Idle
  <2>2. /\ HowFar(due[t]) = IF due[t] >= MinDelay THEN due[t] ELSE MinDelay
        /\ HowFar(due'[t]) = IF due'[t] >= MinDelay THEN due'[t] ELSE MinDelay
    BY <1>1, <1>3, ClockProperties
  <2>3. due'[t] >= due[t]
    BY <1>3, <2>1
  <2>. QED
    BY <1>1, <1>3, <2>1, <2>2, <2>3
<1>10. Spaced'
  <2> SUFFICES ASSUME NEW t \in Endless
               PROVE  /\ interval[t] = Interval[t] /\ count[t] = Forever
                      /\ where[t] \in {"new", "queued"} => runs[t] = 0
                      /\ runs[t] > 0 /\ where[t] = "set" =>
                            since[t] >= Interval[t] \/ since[t] + due'[t] >= Interval[t]
                      /\ runs[t] > 0 /\ where[t] = "triggered" => since[t] >= Interval[t]
    BY <1>2 DEF Spaced, Endless
  <2>1. t \in Timers
    BY DEF Endless
  <2>2. ASSUME where[t] = "set", since[t] + due[t] >= Interval[t]
        PROVE  since[t] >= Interval[t] \/ since[t] + due'[t] >= Interval[t]
    <3>1. ~Idle(t)
      BY <2>2 DEF Idle
    <3>2. due'[t] >= due[t] /\ due'[t] \in -MaxLate .. Horizon
      BY <1>3, <2>1, <3>1
    <3>3. since[t] \in 0 .. Horizon /\ Interval[t] \in 0 .. Horizon
          /\ due[t] \in -MaxLate .. Horizon
      BY <1>1, <2>1
    <3>. QED
      BY <1>1, <2>2, <3>2, <3>3
  <2>. QED
    BY <2>2 DEF Spaced
<1>. QED
  BY <1>6, <1>7, <1>8, <1>9, <1>10

LEMMA AddTimerInv ==
    ASSUME IndInv, NEW t \in Timers, NEW onLoop \in BOOLEAN, AddTimer(t, onLoop)
    PROVE  IndInv'
<1> USE DEF IndInv
<1>1. /\ where[t] = "new" /\ Count[t] # 0
      /\ due' = [due EXCEPT ![t] = Delay[t]]
      /\ where' = [where EXCEPT ![t] = "queued"]
      /\ queue' = Append(queue, t)
      /\ UNCHANGED <<interval, count, temp, phase, batch, tfd, jumps, runs, since>>
  BY DEF AddTimer
<1>2. /\ where \in [Timers -> Places] /\ due \in [Timers -> -MaxLate .. Horizon]
      /\ queue \in Seq(Timers) /\ Delay \in [Timers -> 0 .. Horizon]
      /\ MaxLate \in Nat /\ Horizon \in Nat
  BY TimerAssumption DEF TypeOK
<1>3. queue' \in Seq(Timers) /\ QueuedIsListed' /\ WaitsOnce'
  BY <1>1, OneMoreWaits
<1>4. /\ where' \in [Timers -> Places] /\ where'[t] = "queued"
      /\ \A u \in Timers \ {t} : where'[u] = where[u] /\ due'[u] = due[u]
  BY <1>1, <1>2 DEF Places
<1>5. due' \in [Timers -> -MaxLate .. Horizon]
  <2>1. Delay[t] \in -MaxLate .. Horizon
    BY <1>2
  <2>. QED
    BY <1>1, <1>2, <2>1
<1>6. wake' \in BOOLEAN /\ owed' \subseteq Timers
  BY DEF AddTimer, TypeOK
<1>7. early' \subseteq Timers /\ early \subseteq early'
  BY DEF AddTimer, TypeOK
<1>8. TypeOK'
  BY <1>1, <1>3, <1>4, <1>5, <1>6, <1>7 DEF TypeOK
<1>9. TempIsRun' /\ Expired'
  BY <1>1 DEF TempIsRun, Expired
<1>10. RunsLeft'
  BY <1>1, <1>4 DEF RunsLeft
<1>11. Wakes'
  <2>1. /\ wake => wake'
        /\ owed # {} => owed' # {}
    BY DEF AddTimer
  <2>2. ~onLoop => owed' # {}
    BY DEF AddTimer
  <2>3. onLoop /\ phase = "pending" => wake'
    BY DEF AddTimer
  <2>4. onLoop => phase # "epoll_wait" /\ (phase = "constructed" => t \in early')
    BY DEF AddTimer, OnLoopThread
  <2>5. \A i \in DOMAIN queue' : queue'[i] = t \/ (i \in DOMAIN queue /\ queue'[i] = queue[i])
    BY <1>1, <1>2, AppendProperties
  <2>. QED
    BY <1>1, <1>7, <2>1, <2>2, <2>3, <2>4, <2>5 DEF Wakes
<1>12. Armed'
  BY <1>1, <1>4 DEF Armed
<1>13. Spaced'
  BY <1>1, <1>4 DEF Spaced, Endless
<1>. QED
  BY <1>3, <1>8, <1>9, <1>10, <1>11, <1>12, <1>13

\* Steps of the loop's thread that leave timers and lists alone.
LEMMA LoopMoves ==
    ASSUME IndInv, UNCHANGED <<timers, queue, temp, tfd, jumps, runs, since, early>>,
           wake' \in BOOLEAN, owed' \subseteq Timers, batch' \in BOOLEAN, phase' \in Phases,
           TempIsRun', Expired', Wakes', Armed'
    PROVE  IndInv'
<1> USE DEF IndInv, timers
<1>1. QueuedIsListed' /\ WaitsOnce'
  BY ListsStay DEF TypeOK
<1>2. TypeOK'
  BY <1>1 DEF TypeOK
<1>3. RunsLeft'
  BY DEF RunsLeft
<1>4. Spaced'
  BY DEF Spaced, Endless
<1>. QED
  BY <1>1, <1>2, <1>3, <1>4

LEMMA ReadTimerfdInv ==
    ASSUME IndInv, ReadTimerfd
    PROVE  IndInv'
<1> USE DEF IndInv
<1>1. /\ phase = "dispatch" /\ phase' = "run" /\ batch' = FALSE /\ tfd' = Disarmed
      /\ \A t \in Timers :
            where'[t] = IF where[t] = "set" /\ due[t] <= 0 THEN "triggered" ELSE where[t]
      /\ UNCHANGED <<due, interval, count, queue, temp, wake, owed, jumps, runs, since, early>>
  BY DEF ReadTimerfd, TimerEvents
<1>2. where \in [Timers -> Places]
  BY DEF TypeOK
<1>3. where' \in [Timers -> Places]
  BY <1>1, <1>2 DEF ReadTimerfd, Places
<1>4. QueuedIsListed' /\ WaitsOnce'
  BY <1>1, ListsStay DEF TypeOK
<1>5. TypeOK'
  BY <1>1, <1>3, <1>4 DEF TypeOK, Phases
<1>6. TempIsRun' /\ Wakes' /\ Armed'
  BY <1>1 DEF TempIsRun, Wakes, Armed
<1>7. Expired'
  BY <1>1 DEF Expired
<1>8. RunsLeft'
  BY <1>1 DEF RunsLeft
<1>9. Spaced'
  <2> SUFFICES ASSUME NEW t \in Endless
               PROVE  /\ interval[t] = Interval[t] /\ count[t] = Forever
                      /\ where'[t] \in {"new", "queued"} => runs[t] = 0
                      /\ runs[t] > 0 /\ where'[t] = "set" =>
                            since[t] >= Interval[t] \/ since[t] + due[t] >= Interval[t]
                      /\ runs[t] > 0 /\ where'[t] = "triggered" => since[t] >= Interval[t]
    BY <1>1 DEF Spaced, Endless
  <2>1. /\ t \in Timers /\ since[t] \in Int /\ due[t] \in Int
        /\ Interval[t] \in Int
    BY TimerAssumption DEF Endless, TypeOK
  <2>2. where'[t] = IF where[t] = "set" /\ due[t] <= 0 THEN "triggered" ELSE where[t]
    BY <1>1, <2>1
  <2>. QED
    BY <2>1, <2>2 DEF Spaced
<1>. QED
  BY <1>4, <1>5, <1>6, <1>7, <1>8, <1>9

LEMMA RunTimerInv ==
    ASSUME IndInv, NEW t \in Timers, RunTimer(t)
    PROVE  IndInv'
<1> USE DEF IndInv
<1>1. /\ phase = "run" /\ where[t] = "triggered"
      /\ where' = [where EXCEPT ![t] = "ran"]
      /\ runs' = [runs EXCEPT ![t] = Min({@ + 1, MostRuns(t)})]
      /\ since' = [since EXCEPT ![t] = 0]
      /\ UNCHANGED <<due, interval, count, queue, temp, wake, owed, phase, batch, tfd,
                     jumps, early>>
  BY DEF RunTimer, Triggered
<1>2. /\ where \in [Timers -> Places] /\ runs \in [Timers -> Nat]
      /\ since \in [Timers -> 0 .. Horizon] /\ Horizon \in Nat
      /\ \A u \in Timers : runs[u] <= MostRuns(u)
  BY TimerAssumption DEF TypeOK
<1>3. MostRuns(t) \in Nat
  BY TimerAssumption DEF MostRuns
<1>4. /\ runs'[t] = IF runs[t] + 1 <= MostRuns(t) THEN runs[t] + 1 ELSE MostRuns(t)
      /\ \A u \in Timers \ {t} : runs'[u] = runs[u]
      /\ DOMAIN runs' = Timers /\ runs' = [u \in Timers |-> runs'[u]]
  <2>1. Min({runs[t] + 1, MostRuns(t)}) =
           IF runs[t] + 1 <= MostRuns(t) THEN runs[t] + 1 ELSE MostRuns(t)
    BY <1>2, <1>3, MinOfTwo
  <2>. QED
    BY <1>1, <1>2, <2>1
<1>5. runs' \in [Timers -> Nat] /\ \A u \in Timers : runs'[u] <= MostRuns(u)
  BY <1>2, <1>3, <1>4
<1>6. /\ where' \in [Timers -> Places] /\ since' \in [Timers -> 0 .. Horizon]
      /\ where'[t] = "ran"
      /\ \A u \in Timers \ {t} : where'[u] = where[u] /\ since'[u] = since[u]
  BY <1>1, <1>2 DEF Places
<1>7. QueuedIsListed' /\ WaitsOnce'
  BY <1>1, <1>6, ListsStay DEF TypeOK
<1>8. TypeOK'
  <2>1. \A u \in Timers : MostRuns(u)' = MostRuns(u)
    BY DEF MostRuns
  <2>. QED
    BY <1>1, <1>5, <1>6, <1>7, <2>1 DEF TypeOK
<1>9. TempIsRun' /\ Wakes' /\ Armed' /\ Expired'
  BY <1>1 DEF TempIsRun, Wakes, Armed, Expired
<1>10. RunsLeft'
  BY <1>1, <1>6 DEF RunsLeft
<1>11. Spaced'
  BY <1>1, <1>4, <1>6 DEF Spaced, Endless
<1>. QED
  BY <1>7, <1>8, <1>9, <1>10, <1>11

LEMMA ReinsertInv ==
    ASSUME IndInv, NEW t \in Timers, Reinsert(t)
    PROVE  IndInv'
<1> USE DEF IndInv
<1>1. /\ phase = "reinsert" /\ where[t] = "ran"
      /\ UNCHANGED <<queue, temp, wake, owed, phase, batch, tfd, jumps, runs, since, early>>
  BY DEF Reinsert, HasRun
<1>2. /\ where \in [Timers -> Places] /\ due \in [Timers -> -MaxLate .. Horizon]
      /\ interval \in [Timers -> 0 .. Horizon] /\ count \in [Timers -> Nat \cup {Forever}]
      /\ since \in [Timers -> 0 .. Horizon] /\ runs \in [Timers -> Nat]
      /\ MaxLate \in Nat /\ Horizon \in Nat /\ Forever \in Int \ Nat
  BY TimerAssumption DEF TypeOK
<1>3. /\ where' \in [Timers -> Places] /\ due' \in [Timers -> -MaxLate .. Horizon]
      /\ interval' \in [Timers -> 0 .. Horizon] /\ count' \in [Timers -> Nat \cup {Forever}]
      /\ where'[t] \in {"set", "dead"}
      /\ where'[t] = "set" => /\ interval[t] > 0
                              /\ due'[t] = interval'[t]
                              /\ interval'[t] > 0 => count'[t] # 0
                              /\ count[t] = Forever => /\ count'[t] = Forever
                                                       /\ interval'[t] = interval[t]
      /\ where'[t] = "dead" => /\ interval[t] = 0 /\ interval' = interval /\ count' = count
      /\ \A u \in Timers \ {t} : /\ where'[u] = where[u] /\ due'[u] = due[u]
                                  /\ interval'[u] = interval[u] /\ count'[u] = count[u]
  <2>1. CASE /\ interval[t] > 0
             /\ MoveInterval(t)
             /\ where' = [where EXCEPT ![t] = "set"]
    <3>1. count[t] # 0
      BY <1>1, <2>1 DEF RunsLeft
    <3>2. PICK left, step :
             /\ left = IF count[t] = Forever THEN Forever ELSE count[t] - 1
             /\ step = IF left = 0 THEN 0 ELSE interval[t]
             /\ count' = [count EXCEPT ![t] = left]
             /\ interval' = [interval EXCEPT ![t] = step]
             /\ due' = [due EXCEPT ![t] = step]
      BY <2>1 DEF MoveInterval
    <3>3. left \in Nat \cup {Forever} /\ (count[t] = Forever => left = Forever /\ left # 0)
      BY <1>2, <3>1, <3>2
    <3>4. /\ step \in 0 .. Horizon /\ step \in -MaxLate .. Horizon
          /\ (left # 0 => step = interval[t]) /\ (step > 0 => left # 0)
      BY <1>2, <3>2
    <3>5. /\ count' \in [Timers -> Nat \cup {Forever}] /\ interval' \in [Timers -> 0 .. Horizon]
          /\ due' \in [Timers -> -MaxLate .. Horizon]
          /\ count'[t] = left /\ interval'[t] = step /\ due'[t] = step
          /\ \A u \in Timers \ {t} : /\ due'[u] = due[u] /\ interval'[u] = interval[u]
                                      /\ count'[u] = count[u]
      BY <1>2, <3>2, <3>3, <3>4
    <3>6. /\ where' \in [Timers -> Places] /\ where'[t] = "set"
          /\ \A u \in Timers \ {t} : where'[u] = where[u]
      BY <1>2, <2>1 DEF Places
    <3>. QED
      BY <2>1, <3>3, <3>4, <3>5, <3>6
  <2>2. CASE /\ interval[t] = 0
             /\ where' = [where EXCEPT ![t] = "dead"]
             /\ UNCHANGED <<due, interval, count>>
    <3>1. /\ where' \in [Timers -> Places] /\ where'[t] = "dead"
          /\ \A u \in Timers \ {t} : where'[u] = where[u]
      BY <1>2, <2>2 DEF Places
    <3>. QED
      BY <1>2, <2>2, <3>1
  <2>. QED
    BY <2>1, <2>2 DEF Reinsert
<1>4. QueuedIsListed' /\ WaitsOnce'
  BY <1>1, <1>3, ListsStay DEF TypeOK
<1>5. TypeOK'
  BY <1>1, <1>3, <1>4 DEF TypeOK
<1>6. TempIsRun' /\ Wakes' /\ Armed' /\ Expired'
  BY <1>1 DEF TempIsRun, Wakes, Armed, Expired
<1>7. RunsLeft'
  <2>1. \A u \in Timers \ {t} :
           /\ where'[u] = "new" => interval'[u] = Interval[u] /\ count'[u] = Count[u]
           /\ where'[u] # "new" /\ interval'[u] > 0 => count'[u] # 0
    BY <1>3 DEF RunsLeft
  <2>2. where'[t] # "new" /\ (interval'[t] > 0 => count'[t] # 0)
    BY <1>2, <1>3
  <2>. QED
    BY <2>1, <2>2 DEF RunsLeft
<1>8. Spaced'
  <2> SUFFICES ASSUME NEW u \in Endless
               PROVE  /\ interval'[u] = Interval[u] /\ count'[u] = Forever
                      /\ where'[u] \in {"new", "queued"} => runs[u] = 0
                      /\ runs[u] > 0 /\ where'[u] = "set" =>
                            since[u] >= Interval[u] \/ since[u] + due'[u] >= Interval[u]
                      /\ runs[u] > 0 /\ where'[u] = "triggered" => since[u] >= Interval[u]
    BY <1>1 DEF Spaced, Endless
  <2>1. u \in Timers /\ Interval[u] > 0 /\ interval[u] = Interval[u] /\ count[u] = Forever
    BY DEF Endless, Spaced
  <2>2. CASE u # t
    BY <1>3, <2>1, <2>2 DEF Spaced
  <2>3. CASE u = t
    <3>1. where'[t] = "set" /\ interval'[t] = interval[t] /\ count'[t] = Forever
          /\ due'[t] = interval[t]
      BY <1>2, <1>3, <2>1, <2>3
    <3>2. since[t] \in Nat /\ interval[t] \in Nat
      BY <1>2
    <3>. QED
      BY <2>1, <2>3, <3>1, <3>2
  <2>. QED
    BY <2>2, <2>3
<1>. QED
  BY <1>4, <1>5, <1>6, <1>7, <1>8

LEMMA RearmInv ==
    ASSUME IndInv, Rearm
    PROVE  IndInv'
<1> USE DEF IndInv
<1>1. /\ phase = "reinsert" /\ phase' = "dispatch"
      /\ UNCHANGED <<due, interval, count, where, queue, temp, wake, owed, batch, jumps, runs,
                     since, early>>
  BY DEF Rearm, timers
<1>2. /\ due \in [Timers -> -MaxLate .. Horizon] /\ MaxLate \in Nat /\ Horizon \in Nat
      /\ MinDelay \in 1 .. Horizon /\ tfd \in {Disarmed} \cup 0 .. Horizon
  BY TimerAssumption DEF TypeOK
<1>3. /\ tfd' \in {Disarmed} \cup 0 .. Horizon
      /\ \A t \in TimerEvents : tfd' # Disarmed /\ tfd' <= HowFar(due[t])
  <2>1. CASE TimerEvents = {}
    BY <1>2, <2>1 DEF Rearm
  <2>2. CASE TimerEvents # {}
    <3> DEFINE S == {due[t] : t \in TimerEvents}
    <3>1. S \subseteq -MaxLate .. Horizon /\ S # {}
      BY <1>2, <2>2 DEF TimerEvents
    <3>2. S \subseteq Int /\ (-MaxLate) \in Int /\ \A x \in S : -MaxLate <= x
      BY <1>2, <3>1
    <3> HIDE DEF S
    <3>3. Min(S) \in S /\ \A y \in S : Min(S) <= y
      BY <3>1, <3>2, MinIsLeast
    <3>4. Min(S) \in -MaxLate .. Horizon
      BY <3>1, <3>3
    <3>5. tfd' = HowFar(Min(S))
      BY <2>2 DEF Rearm, SetTimerfd, S
    <3>6. /\ HowFar(Min(S)) = IF Min(S) >= MinDelay THEN Min(S) ELSE MinDelay
          /\ HowFar(Min(S)) \in 1 .. Horizon
      BY <3>4, ClockProperties
    <3>7. ASSUME NEW t \in TimerEvents
          PROVE  HowFar(Min(S)) <= HowFar(due[t])
      <4>1. due[t] \in S /\ due[t] \in -MaxLate .. Horizon
        BY <1>2 DEF S, TimerEvents
      <4>2. HowFar(due[t]) = IF due[t] >= MinDelay THEN due[t] ELSE MinDelay
        BY <4>1, ClockProperties
      <4>3. Min(S) <= due[t]
        BY <3>3, <4>1
      <4>. QED
        BY <1>2, <3>4, <3>6, <4>1, <4>2, <4>3
    <3>8. HowFar(Min(S)) # Disarmed
      BY <1>2, <3>6 DEF Disarmed
    <3>. QED
      BY <1>2, <3>5, <3>6, <3>7, <3>8
  <2>. QED
    BY <2>1, <2>2
<1>4. QueuedIsListed' /\ WaitsOnce'
  BY <1>1, ListsStay DEF TypeOK
<1>5. TypeOK'
  BY <1>1, <1>3, <1>4 DEF TypeOK, Phases
<1>6. TempIsRun' /\ Wakes' /\ RunsLeft'
  BY <1>1 DEF TempIsRun, Wakes, RunsLeft
<1>7. Expired'
  BY <1>1 DEF Expired
<1>8. Armed'
  BY <1>1, <1>3 DEF Armed, TimerEvents
<1>9. Spaced'
  BY <1>1 DEF Spaced, Endless
<1>. QED
  BY <1>4, <1>5, <1>6, <1>7, <1>8, <1>9

LEMMA SwapPendingInv ==
    ASSUME IndInv, SwapPending
    PROVE  IndInv'
<1> USE DEF IndInv
<1>1. /\ phase = "dispatch" /\ phase' = "pending" /\ temp' = queue /\ queue' = <<>>
      /\ ~batch
      /\ UNCHANGED <<due, interval, count, where, wake, owed, batch, tfd, jumps, runs,
                     since, early>>
  BY DEF SwapPending, timers
<1>2. temp = <<>> /\ queue \in Seq(Timers)
  BY <1>1 DEF TempIsRun, TypeOK
<1>3. temp \o queue = queue /\ queue \o <<>> = queue
  BY <1>2, ConcatEmptySeq
<1>4. Waiting' = Waiting
  BY <1>1, <1>3 DEF Waiting
<1>5. QueuedIsListed' /\ WaitsOnce'
  <2>1. \A t \in Timers : where[t] = "queued" <=> \E i \in DOMAIN Waiting : Waiting[i] = t
    BY DEF TypeOK, QueuedIsListed, Waiting
  <2>2. \A t \in Timers : where'[t] = "queued" <=> \E i \in DOMAIN Waiting' : Waiting'[i] = t
    BY <1>1, <1>4, <2>1
  <2>. QED
    BY <1>4, <2>2 DEF QueuedIsListed, WaitsOnce, Waiting
<1>6. TypeOK'
  BY <1>1, <1>2, <1>5 DEF TypeOK, Phases
<1>7. TempIsRun' /\ Wakes' /\ RunsLeft'
  BY <1>1 DEF TempIsRun, Wakes, RunsLeft
<1>8. Expired' /\ Armed'
  BY <1>1 DEF Expired, Armed
<1>9. Spaced'
  BY <1>1 DEF Spaced, Endless
<1>. QED
  BY <1>5, <1>6, <1>7, <1>8, <1>9

LEMMA InsertTaskInv ==
    ASSUME IndInv, InsertTask
    PROVE  IndInv'
<1> USE DEF IndInv
<1> DEFINE t == Head(temp)
<1>1. /\ phase = "pending" /\ temp # <<>> /\ temp' = Tail(temp)
      /\ where' = [where EXCEPT ![t] = "set"]
      /\ IF IsEarliest(t, where) THEN tfd' = HowFar(due[t]) ELSE tfd' = tfd
      /\ UNCHANGED <<due, interval, count, queue, wake, owed, phase, batch, jumps, runs,
                     since, early>>
  BY DEF InsertTask, SetTimerfd
<1>2. /\ t \in Timers /\ where[t] = "queued"
      /\ temp' \in Seq(Timers) /\ QueuedIsListed' /\ WaitsOnce'
  BY <1>1, OneLessWaits
<1> HIDE DEF t
<1>3. /\ where \in [Timers -> Places] /\ due \in [Timers -> -MaxLate .. Horizon]
      /\ tfd \in {Disarmed} \cup 0 .. Horizon /\ MaxLate \in Nat /\ Horizon \in Nat
      /\ MinDelay \in 1 .. Horizon
  BY TimerAssumption DEF TypeOK
<1>4. /\ where' \in [Timers -> Places] /\ where'[t] = "set"
      /\ \A u \in Timers \ {t} : where'[u] = where[u]
  BY <1>1, <1>2, <1>3 DEF Places
<1>5. ASSUME NEW u \in Timers
      PROVE  /\ HowFar(due[u]) = IF due[u] >= MinDelay THEN due[u] ELSE MinDelay
             /\ HowFar(due[u]) \in 1 .. Horizon /\ due[u] \in -MaxLate .. Horizon
  <2>1. due[u] \in -MaxLate .. Horizon
    BY <1>3
  <2>. QED
    BY <2>1, ClockProperties
<1>6. tfd' \in {Disarmed} \cup 0 .. Horizon
  BY <1>1, <1>2, <1>3, <1>5
<1>7. TypeOK'
  BY <1>1, <1>2, <1>4, <1>6 DEF TypeOK
<1>8. TempIsRun' /\ Wakes'
  BY <1>1 DEF TempIsRun, Wakes
<1>9. Expired'
  BY <1>1 DEF Expired
<1>10. RunsLeft'
  BY <1>1, <1>2, <1>4 DEF RunsLeft
<1>11. Armed'
  <2> SUFFICES ASSUME NEW u \in Timers, where'[u] = "set"
               PROVE  tfd' # Disarmed /\ tfd' <= HowFar(due[u])
    BY <1>1 DEF Armed
  <2>1. u # t => where[u] = "set"
    BY <1>4
  <2>2. CASE IsEarliest(t, where)
    <3>1. u = t \/ due[u] > due[t]
      BY <2>1, <2>2 DEF IsEarliest
    <3>2. tfd' = HowFar(due[t])
      BY <1>1, <2>2
    <3>3. HowFar(due[t]) # Disarmed
      BY <1>2, <1>3, <1>5 DEF Disarmed
    <3>. QED
      BY <1>2, <1>3, <1>5, <3>1, <3>2, <3>3
  <2>3. CASE ~IsEarliest(t, where)
    <3>1. PICK v \in Timers : where[v] = "set" /\ ~(due[v] > due[t])
      BY <2>3 DEF IsEarliest
    <3>2. tfd' = tfd
      BY <1>1, <2>3
    <3>3. tfd # Disarmed /\ tfd <= HowFar(due[v])
      BY <1>1, <3>1 DEF Armed
    <3>4. u # t => tfd <= HowFar(due[u])
      BY <1>1, <2>1 DEF Armed
    <3>5. HowFar(due[v]) <= HowFar(due[t])
      BY <1>2, <1>3, <1>5, <3>1
    <3>6. tfd \in Int
      BY <1>3 DEF Disarmed
    <3>. QED
      BY <1>2, <1>3, <1>5, <3>1, <3>2, <3>3, <3>4, <3>5, <3>6
  <2>. QED
    BY <2>2, <2>3
<1>12. Spaced'
  BY <1>1, <1>2, <1>4 DEF Spaced, Endless
<1>. QED
  BY <1>2, <1>7, <1>8, <1>9, <1>10, <1>11, <1>12

\* Every step keeps the invariant.
LEMMA NextInv == IndInv /\ [Next]_vars => IndInv'
<1> SUFFICES ASSUME IndInv, [Next]_vars
             PROVE  IndInv'
  OBVIOUS
<1>1. phase \in Phases /\ wake \in BOOLEAN /\ owed \subseteq Timers /\ batch \in BOOLEAN
  BY DEF IndInv, TypeOK
<1>2. CASE StartLoop
  BY <1>1, <1>2, LoopMoves
     DEF StartLoop, IndInv, timers, Phases, TempIsRun, Expired, Wakes, Armed
<1>3. CASE EpollReturn
  <2>1. /\ phase = "epoll_wait" /\ phase' = "dispatch" /\ wake' = FALSE
        /\ UNCHANGED <<timers, queue, temp, owed, tfd, jumps, runs, since, early>>
    BY <1>3 DEF EpollReturn
  <2>2. batch' \in BOOLEAN /\ (batch' => tfd = 0)
    BY <1>3, Zenon DEF EpollReturn
  <2>3. TempIsRun' /\ Expired' /\ Wakes' /\ Armed'
    BY <2>1, <2>2 DEF IndInv, timers, TempIsRun, Expired, Wakes, Armed
  <2>. QED
    BY <1>1, <2>1, <2>2, <2>3, LoopMoves DEF Phases
<1>4. CASE EpollOther
  BY <1>1, <1>4, LoopMoves
     DEF EpollOther, IndInv, timers, Phases, TempIsRun, Expired, Wakes, Armed
<1>5. CASE ReadTimerfd
  BY <1>5, ReadTimerfdInv
<1>6. ASSUME NEW t \in Timers, RunTimer(t) \/ Reinsert(t)
      PROVE  IndInv'
  BY <1>6, RunTimerInv, ReinsertInv
<1>7. CASE RunsDone
  BY <1>1, <1>7, LoopMoves
     DEF RunsDone, IndInv, timers, Phases, TempIsRun, Expired, Wakes, Armed
<1>8. CASE Rearm
  BY <1>8, RearmInv
<1>9. CASE SwapPending
  BY <1>9, SwapPendingInv
<1>10. CASE InsertTask
  BY <1>10, InsertTaskInv
<1>11. CASE EndPending
  BY <1>1, <1>11, LoopMoves
     DEF EndPending, IndInv, timers, Phases, TempIsRun, Expired, Wakes, Armed
<1>12. CASE Tick
  BY <1>12, TickInv
<1>13. CASE ClockBack
  BY <1>13, ClockBackInv
<1>14. ASSUME NEW t \in Timers, NEW onLoop \in BOOLEAN, AddTimer(t, onLoop)
       PROVE  IndInv'
  BY <1>14, AddTimerInv
<1>15. CASE UNCHANGED vars
  BY <1>1, <1>15, LoopMoves DEF vars, IndInv, timers, TempIsRun, Expired, Wakes, Armed
<1>16. ASSUME NEW t \in Timers, WakeLoop(t)
       PROVE  IndInv'
  <2>1. wake' = TRUE /\ UNCHANGED <<timers, queue, temp, phase, batch, tfd>>
    BY <1>16 DEF WakeLoop
  <2>2. TempIsRun' /\ Expired' /\ Wakes' /\ Armed'
    BY <2>1 DEF IndInv, timers, TempIsRun, Expired, Wakes, Armed
  <2>. QED
    BY <1>1, <1>16, <2>1, <2>2, LoopMoves DEF WakeLoop
<1>. QED
  BY <1>2, <1>3, <1>4, <1>5, <1>6, <1>7, <1>8, <1>9, <1>10, <1>11, <1>12, <1>13, <1>14,
     <1>15, <1>16 DEF Next, LoopStep

LEMMA AlwaysInv == Spec => []IndInv
<1>1. Init => IndInv
  BY InitInv
<1>2. IndInv /\ [Next]_vars => IndInv'
  BY NextInv
<1>. QED
  BY <1>1, <1>2, PTL DEF Spec

-----------------------------------------------------------------------------
\* TimerQueue and Timer: every member keeps its type, and a timer is in the set,
\* in a list of insertions, or out with the callback, and in one of them only.
THEOREM TypeCorrect == Spec => []TypeOK
<1>1. IndInv => TypeOK
  BY DEF IndInv
<1>. QED
  BY <1>1, AlwaysInv, PTL

\* TimerQueue::readTimerfd finds what epoll_wait reported: assert(overtimeCount).
THEOREM ReadsExpiry == Spec => []ReadFindsExpiry
<1>1. IndInv => ReadFindsExpiry
  BY DEF IndInv, Expired, ReadFindsExpiry
<1>. QED
  BY <1>1, AlwaysInv, PTL

\* insertTimerEventInLoop and resetTimerEvent: a loop that blocks has the timerfd
\* set for the earliest timer of the set, or for less.
THEOREM ArmedWhenBlocked == Spec => []ArmedForEarliest
<1>1. IndInv => ArmedForEarliest
  BY DEF IndInv, Armed, ArmedForEarliest, TimerEvents
<1>. QED
  BY <1>1, AlwaysInv, PTL

\* insertTimerEvent: a loop that blocks with an insertion queued is woken, unless
\* its own thread queued it before loop().
THEOREM QueuedIsWoken == Spec => []InsertionsWake
<1>1. IndInv => InsertionsWake
  BY DEF IndInv, Wakes, InsertionsWake
<1>. QED
  BY <1>1, AlwaysInv, PTL

\* Timer::moveInterval and getOverTimeEvent: two runs of a timer that repeats
\* forever are an interval apart, also if the wall clock is set back.
THEOREM RunsAreSpaced == Spec => SpacedByInterval
<1>1. IndInv /\ [Next]_vars =>
         [\A t \in Timers :
             t \in Endless \cap Triggered /\ where'[t] = "ran" /\ runs[t] > 0
             => since[t] >= Interval[t]]_vars
  BY DEF IndInv, Spaced, Triggered
<1>. QED
  BY <1>1, AlwaysInv, PTL DEF Spec, SpacedByInterval
=============================================================================
