----------------------------- MODULE TcpConnProof -----------------------------
(***************************************************************************)
(* Proofs about TcpConn, for any sending threads, any length of messages   *)
(* and any number of them: about the control of the connection, and, in    *)
(* the second half, about its bytes.                                       *)
(***************************************************************************)
EXTENDS TcpConn, SequenceTheorems, TLAPS

(***************************************************************************)
(* The first inductive invariant, about the control of the connection.     *)
(***************************************************************************)
\* A queued send is a whole message: a partial write of it leaves a rest.
WholeMessages ==
    \A i \in DOMAIN pending : pending[i].kind = "send" => Len(pending[i].bytes) = MsgLen

\* Nothing is sent, received or watched before establish() has come so far; on
\* the loop's own thread nothing is handled before it has returned.
BeforeEstablished ==
    /\ stage \in {"new", "filled"} => ~inEpoll /\ (Pooled \/ ~watchOut)
    /\ stage = "new" => kernel = {} /\ ~stray
    /\ stage = "new" \/ (~Pooled /\ stage # "connected") => revent = {} /\ closes = 0
    /\ stage = "new" \/ (~Pooled /\ stage \in {"filled", "registered", "flagged"}) =>
          out = <<>> /\ pending = <<>> /\ checked = {} /\ ~user

\* EPOLLOUT is asked for while there are bytes left; without a pool the kernel has
\* got what was asked for.
Asked == ~Pooled => ~stray /\ (inEpoll => kernel = Event(watchOut))

UnsentAsks == (out # <<>> => watchOut) /\ Asked

\* Without a pool nobody takes back the mark of a connection that was closed.
ClosedStays == ~Pooled /\ closes > 0 => closed

\* A thread past the test of _isChannelClosed sends the message it has left, and
\* that is the first it sends after the close.
SendsCounted ==
    /\ \A t \in checked : sent[t] < MaxSends
    /\ \A s \in Senders : late[s] <= sent[s]
    /\ closes = 0 => \A s \in Senders : late[s] = 0
    /\ ~Pooled => \A t \in checked : late[t] = 0

IndInv ==
    /\ TypeOK
    /\ WholeMessages
    /\ BeforeEstablished
    /\ ClosedStays
    /\ SendsCounted
    /\ UnsentAsks
    /\ ClosedIsDeaf
    /\ ClosedOnce
    /\ FewLateSends

-----------------------------------------------------------------------------
\* The numbers of the bytes of one more message.
LEMMA OneMore ==
    ASSUME NEW k \in Nat, NEW n \in Nat, NEW max \in Nat, k + 1 <= max
    PROVE  k * n \in Nat /\ k * n + n = (k + 1) * n /\ (k + 1) * n <= max * n
<1>1. PICK d \in Nat : max = k + 1 + d
  <2>1. max - (k + 1) \in Nat /\ max = k + 1 + (max - (k + 1))
    OBVIOUS
  <2>. QED
    BY <2>1
<1>2. d * n \in Nat /\ k * n \in Nat
  OBVIOUS
<1>3. (k + 1 + d) * n = (k + 1) * n + d * n /\ (k + 1) * n = k * n + n
  OBVIOUS
<1>. QED
  BY <1>1, <1>2, <1>3

\* The next message of a thread that has one left.
LEMMA MessageProperties ==
    ASSUME TypeOK, NEW s \in Senders, sent[s] < MaxSends
    PROVE  /\ Message(s) \in Seq(Bytes) /\ Len(Message(s)) = MsgLen
           /\ \A i \in 1 .. MsgLen : Message(s)[i] = <<s, sent[s] * MsgLen + i>>
<1>1. MsgLen \in Nat /\ MaxSends \in Nat /\ sent[s] \in Nat /\ sent[s] + 1 <= MaxSends
  BY ConnAssumption DEF TypeOK
<1>2. (sent[s] + 1) * MsgLen <= MaxSends * MsgLen
  BY <1>1, OneMore
<1>3. sent[s] * MsgLen + MsgLen = (sent[s] + 1) * MsgLen /\ sent[s] * MsgLen \in Nat
  BY <1>1, OneMore
<1>4. \A i \in 1 .. MsgLen : sent[s] * MsgLen + i \in 1 .. MaxSends * MsgLen
  BY <1>1, <1>2, <1>3
<1>5. \A i \in 1 .. MsgLen : <<s, sent[s] * MsgLen + i>> \in Bytes
  BY <1>4 DEF Bytes
<1>. QED
  BY <1>1, <1>5 DEF Message

\* Taking the first bytes of a sequence, and leaving the rest.
LEMMA SplitProperties ==
    ASSUME NEW S, NEW q \in Seq(S), NEW n \in 0 .. Len(q)
    PROVE  /\ SubSeq(q, 1, n) \in Seq(S) /\ Len(SubSeq(q, 1, n)) = n
           /\ \A i \in 1 .. n : SubSeq(q, 1, n)[i] = q[i]
           /\ SubSeq(q, n + 1, Len(q)) \in Seq(S)
           /\ Len(SubSeq(q, n + 1, Len(q))) = Len(q) - n
           /\ \A i \in 1 .. Len(q) - n : SubSeq(q, n + 1, Len(q))[i] = q[n + i]
<1>1. Len(q) \in Nat /\ n \in Nat /\ n <= Len(q)
  OBVIOUS
<1>2. /\ \A i \in 1 .. n : q[i] \in S
      /\ \A i \in n + 1 .. Len(q) : q[i] \in S
  BY <1>1
<1>3. /\ SubSeq(q, 1, n) \in Seq(S)
      /\ Len(SubSeq(q, 1, n)) = IF 1 <= n THEN n - 1 + 1 ELSE 0
      /\ \A i \in 1 .. n - 1 + 1 : SubSeq(q, 1, n)[i] = q[1 + i - 1]
  BY <1>1, <1>2, SubSeqProperties
<1>4. /\ SubSeq(q, n + 1, Len(q)) \in Seq(S)
      /\ Len(SubSeq(q, n + 1, Len(q))) =
            IF n + 1 <= Len(q) THEN Len(q) - (n + 1) + 1 ELSE 0
      /\ \A i \in 1 .. Len(q) - (n + 1) + 1 :
            SubSeq(q, n + 1, Len(q))[i] = q[n + 1 + i - 1]
  BY <1>1, <1>2, SubSeqProperties
<1>. QED
  BY <1>1, <1>3, <1>4

\* The counters when one more message of thread t is accepted.
LEMMA OneMoreSend ==
    ASSUME TypeOK, SendsCounted, NEW t \in Senders, sent[t] < MaxSends,
           sent' = [sent EXCEPT ![t] = @ + 1],
           closes > 0 => late' = [late EXCEPT ![t] = @ + 1],
           closes = 0 => late' = late
    PROVE  /\ sent' \in [Senders -> 0 .. MaxSends] /\ late' \in [Senders -> 0 .. MaxSends]
           /\ \A s \in Senders : late'[s] <= sent'[s]
           /\ \A s \in Senders \ {t} : sent'[s] = sent[s] /\ late'[s] = late[s]
           /\ late'[t] <= late[t] + 1
<1>1. /\ sent \in [Senders -> 0 .. MaxSends] /\ late \in [Senders -> 0 .. MaxSends]
      /\ \A s \in Senders : late[s] <= sent[s]
      /\ closes \in Nat /\ MaxSends \in Nat
  BY ConnAssumption DEF TypeOK, SendsCounted
<1>2. /\ sent' \in [Senders -> 0 .. MaxSends]
      /\ sent'[t] = sent[t] + 1
      /\ \A s \in Senders \ {t} : sent'[s] = sent[s]
  BY <1>1
<1>3. CASE closes = 0
  BY <1>1, <1>2, <1>3
<1>4. CASE closes > 0
  <2>1. /\ late'[t] = late[t] + 1
        /\ \A s \in Senders \ {t} : late'[s] = late[s]
    BY <1>1, <1>4
  <2>2. late[t] + 1 \in 0 .. MaxSends
    BY <1>1
  <2>3. late' \in [Senders -> 0 .. MaxSends]
    BY <1>1, <1>4, <2>2
  <2>. QED
    BY <1>1, <1>2, <2>1, <2>3
<1>. QED
  BY <1>1, <1>3, <1>4

\* What addWatchEvent and removeWatchEvent ask for.
LEMMA UpdateAsks ==
    ASSUME TypeOK, Asked, NEW out_too \in BOOLEAN, Update(out_too)
    PROVE  /\ watchOut' = out_too
           /\ kernel' \in SUBSET {"in", "out"} /\ stray' \in BOOLEAN
           /\ UNCHANGED <<via, inEpoll>> => Asked'
<1>1. watchOut' = out_too /\ stray' \in {stray, stray \/ Pooled}
  BY DEF Update, Stray
<1>2. kernel' \in SUBSET {"in", "out"} /\ stray' \in BOOLEAN
  BY <1>1 DEF Update, Control, Event, TypeOK, Pooled
<1>3. ~Pooled /\ inEpoll => kernel' = Event(out_too)
  BY DEF Update, Control
<1>4. ~Pooled => ~stray'
  BY <1>1 DEF Asked, TypeOK
<1>. QED
  BY <1>1, <1>2, <1>3, <1>4 DEF Asked, Pooled, Event

(***************************************************************************)
(* What becomes of a message that sendInLoop is called with: it is lost    *)
(* with the program, buffered behind other bytes, written up to some byte  *)
(* with the rest buffered, or dropped because the write fails.             *)
(***************************************************************************)
Lost(bytes, queue) ==
    /\ crashed' = "send"
    /\ pending' = queue
    /\ UNCHANGED <<wire, out, watching, signals, gone>>

Buffered(bytes, queue) ==
    /\ ~outFreed /\ out # <<>>
    /\ out' = out \o bytes
    /\ pending' = queue
    /\ UNCHANGED <<wire, watching, signals, gone, crashed>>

Written(bytes, queue, n) ==
    /\ ~outFreed /\ out = <<>>
    /\ wire' = wire \o SubSeq(bytes, 1, n)
    /\ out' = SubSeq(bytes, n + 1, Len(bytes))
    /\ IF n < Len(bytes)
         THEN Update(TRUE) /\ pending' = queue
         ELSE UNCHANGED watching /\ pending' = Append(queue, Task("complete", bytes))
    /\ signals' \in 0 .. MaxSignals
    /\ UNCHANGED <<gone, crashed>>

Dropped(bytes, queue) ==
    /\ ~outFreed /\ out = <<>>
    /\ gone' = gone \cup ToSet(bytes)
    /\ pending' = Append(queue, Task("complete", bytes))
    /\ signals' \in 0 .. MaxSignals
    /\ UNCHANGED <<wire, out, watching, crashed>>

LEMMA SendCases ==
    ASSUME TypeOK, NEW bytes \in Seq(Bytes), Len(bytes) = MsgLen, NEW queue,
           SendInLoop(bytes, queue)
    PROVE  \/ Lost(bytes, queue) \/ Buffered(bytes, queue) \/ Dropped(bytes, queue)
           \/ \E n \in 1 .. Len(bytes) : Written(bytes, queue, n)
<1>. MaxSignals \in Nat /\ signals \in 0 .. MaxSignals /\ MsgLen \in Nat
  BY ConnAssumption DEF TypeOK
<1>1. CASE outFreed
  BY <1>1 DEF SendInLoop, Lost
<1>2. ASSUME ~outFreed, out # <<>>, out' = out \o bytes, pending' = queue,
             UNCHANGED <<wire, watching, signals, gone, crashed>>
      PROVE  Buffered(bytes, queue)
  BY <1>2 DEF Buffered
<1>3. ASSUME ~outFreed, out = <<>>, UNCHANGED <<gone, crashed>>,
             NEW n \in 1 .. MsgLen, WriteTakes(n, MsgLen),
             wire' = wire \o SubSeq(bytes, 1, n),
             out' = SubSeq(bytes, n + 1, MsgLen),
             IF n < MsgLen
               THEN Update(TRUE) /\ pending' = queue
               ELSE /\ pending' = Append(queue, Task("complete", bytes))
                    /\ UNCHANGED watching
      PROVE  Written(bytes, queue, n)
  <2>1. signals' \in 0 .. MaxSignals
    BY <1>3 DEF WriteTakes, Interrupted
  <2>2. CASE n < MsgLen
    BY <1>3, <2>1, <2>2 DEF Written
  <2>3. CASE ~(n < MsgLen)
    BY <1>3, <2>1, <2>3 DEF Written
  <2>. QED
    BY <2>2, <2>3
<1>4. ASSUME ~outFreed, out = <<>>, WriteFails,
             pending' = Append(queue, Task("complete", bytes)),
             gone' = gone \cup ToSet(bytes),
             UNCHANGED <<wire, out, watching, crashed>>
      PROVE  Dropped(bytes, queue)
  <2>1. signals' \in 0 .. MaxSignals
    BY <1>4 DEF WriteFails, Interrupted
  <2>. QED
    BY <1>4, <2>1 DEF Dropped
<1>. QED
  BY <1>1, <1>2, <1>3, <1>4 DEF SendInLoop, SendOrBuffer

\* sendInLoop keeps the types, and EPOLLOUT is watched for what it buffers.
LEMMA SendKeepsTypes ==
    ASSUME TypeOK, UnsentAsks, NEW bytes \in Seq(Bytes), Len(bytes) = MsgLen,
           NEW queue \in Seq(Tasks), SendInLoop(bytes, queue)
    PROVE  /\ out' \in Seq(Bytes) /\ wire' \in Seq(Bytes) /\ gone' \subseteq Bytes
           /\ pending' \in Seq(Tasks)
           /\ pending' = queue \/ pending' = Append(queue, Task("complete", bytes))
           /\ watchOut' \in BOOLEAN /\ kernel' \in SUBSET {"in", "out"}
           /\ stray' \in BOOLEAN
           /\ signals' \in 0 .. MaxSignals
           /\ crashed' \in {crashed, "send"}
           /\ outFreed => out' = <<>>
           /\ UNCHANGED <<via, inEpoll>> => UnsentAsks'
<1>. /\ out \in Seq(Bytes) /\ wire \in Seq(Bytes) /\ gone \subseteq Bytes
     /\ watchOut \in BOOLEAN /\ kernel \in SUBSET {"in", "out"} /\ stray \in BOOLEAN
     /\ signals \in 0 .. MaxSignals
     /\ outFreed => out = <<>>
  BY DEF TypeOK
<1>. /\ out # <<>> => watchOut
     /\ UNCHANGED watching /\ UNCHANGED <<via, inEpoll>> => Asked'
  BY DEF UnsentAsks, Asked, Pooled, watching, Event
<1>1. Append(queue, Task("complete", bytes)) \in Seq(Tasks)
  <2>1. Task("complete", bytes) \in Tasks
    BY DEF Task, Tasks
  <2>. QED
    BY <2>1
<1>2. CASE Lost(bytes, queue)
  BY <1>2 DEF Lost, UnsentAsks, watching
<1>3. CASE Buffered(bytes, queue)
  <2>1. out \o bytes \in Seq(Bytes)
    BY ConcatProperties
  <2>. QED
    BY <1>3, <2>1 DEF Buffered, UnsentAsks, watching
<1>4. CASE Dropped(bytes, queue)
  <2>1. ToSet(bytes) \subseteq Bytes
    BY DEF ToSet
  <2>. QED
    BY <1>1, <1>4, <2>1 DEF Dropped, UnsentAsks, watching
<1>5. ASSUME NEW n \in 1 .. Len(bytes), Written(bytes, queue, n)
      PROVE  /\ out' \in Seq(Bytes) /\ wire' \in Seq(Bytes) /\ gone' \subseteq Bytes
             /\ pending' \in Seq(Tasks)
             /\ pending' = queue \/ pending' = Append(queue, Task("complete", bytes))
             /\ watchOut' \in BOOLEAN /\ kernel' \in SUBSET {"in", "out"}
             /\ stray' \in BOOLEAN
             /\ signals' \in 0 .. MaxSignals
             /\ crashed' = crashed
             /\ ~outFreed
             /\ UNCHANGED <<via, inEpoll>> => UnsentAsks'
  <2>1. /\ SubSeq(bytes, 1, n) \in Seq(Bytes)
        /\ SubSeq(bytes, n + 1, Len(bytes)) \in Seq(Bytes)
        /\ Len(SubSeq(bytes, n + 1, Len(bytes))) = Len(bytes) - n
    BY SplitProperties
  <2>2. wire' \in Seq(Bytes)
    BY <1>5, <2>1, ConcatProperties DEF Written
  <2>3. CASE n < Len(bytes)
    <3>1. Update(TRUE) /\ Asked
      BY <1>5, <2>3 DEF Written, UnsentAsks
    <3>. QED
      BY <1>5, <2>1, <2>2, <2>3, <3>1, UpdateAsks DEF Written, UnsentAsks
  <2>4. CASE ~(n < Len(bytes))
    <3>1. SubSeq(bytes, n + 1, Len(bytes)) = <<>>
      BY <2>1, <2>4, SubSeqEmpty
    <3>. QED
      BY <1>1, <1>5, <2>1, <2>2, <2>4, <3>1 DEF Written, UnsentAsks, watching
  <2>. QED
    BY <2>3, <2>4
<1>. QED
  BY <1>2, <1>3, <1>4, <1>5, SendCases

\* A completion that is queued leaves whole messages whole.
LEMMA TaskAfter ==
    ASSUME NEW queue \in Seq(Tasks), NEW bytes \in Seq(Bytes),
           \A i \in DOMAIN queue : queue[i].kind = "send" => Len(queue[i].bytes) = MsgLen,
           pending' = queue \/ pending' = Append(queue, Task("complete", bytes))
    PROVE  WholeMessages'
<1>1. CASE pending' = queue
  BY <1>1 DEF WholeMessages
<1>2. CASE pending' = Append(queue, Task("complete", bytes))
  <2>1. Task("complete", bytes) \in Tasks /\ Task("complete", bytes).kind # "send"
    BY DEF Task, Tasks
  <2>2. /\ DOMAIN pending' = 1 .. Len(queue) + 1 /\ DOMAIN queue = 1 .. Len(queue)
        /\ \A i \in 1 .. Len(queue) : pending'[i] = queue[i]
        /\ pending'[Len(queue) + 1] = Task("complete", bytes)
        /\ Len(queue) \in Nat
    <3>. HIDE DEF Task
    <3>. QED
      BY <1>2, <2>1, AppendProperties
  <2>3. \A i \in 1 .. Len(queue) + 1 : i \in 1 .. Len(queue) \/ i = Len(queue) + 1
    BY <2>2
  <2>. QED
    BY <2>1, <2>2, <2>3 DEF WholeMessages
<1>. QED
  BY <1>1, <1>2

\* writeCallBack's write keeps the types and stops watching only for nothing.
LEMMA WriteKeepsTypes ==
    ASSUME TypeOK, UnsentAsks, WriteOut
    PROVE  /\ wire' \in Seq(Bytes) /\ out' \in Seq(Bytes)
           /\ pending' \in Seq(Tasks) /\ outFreed' \in BOOLEAN
           /\ watchOut' \in BOOLEAN /\ kernel' \in SUBSET {"in", "out"}
           /\ stray' \in BOOLEAN
           /\ signals' \in 0 .. MaxSignals
           /\ outFreed' => out' = <<>>
           /\ UNCHANGED <<via, inEpoll>> => UnsentAsks'
           /\ pending' = pending \/ pending' = Append(pending, Task("complete", out))
<1>. /\ out \in Seq(Bytes) /\ wire \in Seq(Bytes) /\ pending \in Seq(Tasks)
     /\ outFreed \in BOOLEAN /\ watchOut \in BOOLEAN /\ signals \in 0 .. MaxSignals
     /\ kernel \in SUBSET {"in", "out"} /\ stray \in BOOLEAN
     /\ outFreed => out = <<>>
     /\ out # <<>> => watchOut
     /\ Asked
  BY DEF TypeOK, UnsentAsks
<1>1. PICK n \in 1 .. Len(out) :
         /\ WriteTakes(n, Len(out))
         /\ wire' = wire \o SubSeq(out, 1, n)
         /\ out' = SubSeq(out, n + 1, Len(out))
         /\ IF n = Len(out)
              THEN /\ outFreed' = TRUE
                   /\ Update(FALSE)
                   /\ pending' = Append(pending, Task("complete", out))
              ELSE UNCHANGED <<outFreed, watching, pending>>
  BY DEF WriteOut
<1>2. /\ SubSeq(out, 1, n) \in Seq(Bytes)
      /\ SubSeq(out, n + 1, Len(out)) \in Seq(Bytes)
  BY SplitProperties
<1>3. wire' \in Seq(Bytes) /\ out' \in Seq(Bytes)
  BY <1>1, <1>2, ConcatProperties
<1>4. signals' \in 0 .. MaxSignals
  BY <1>1, ConnAssumption DEF WriteTakes, Interrupted
<1>5. CASE n = Len(out)
  <2>1. out' = <<>>
    BY <1>1, <1>5, SubSeqEmpty
  <2>2. Append(pending, Task("complete", out)) \in Seq(Tasks)
    <3>1. Task("complete", out) \in Tasks
      BY DEF Task, Tasks
    <3>. QED
      BY <3>1
  <2>3. Update(FALSE)
    BY <1>1, <1>5
  <2>. QED
    BY <1>1, <1>3, <1>4, <1>5, <2>1, <2>2, <2>3, UpdateAsks DEF UnsentAsks
<1>6. CASE n # Len(out)
  <2>1. out # <<>>
    BY <1>1
  <2>2. UNCHANGED watching
    BY <1>1, <1>6
  <2>3. UNCHANGED <<via, inEpoll>> => Asked'
    BY <2>2 DEF Asked, Pooled, watching, Event
  <2>. QED
    BY <1>1, <1>3, <1>4, <1>6, <2>1, <2>2, <2>3 DEF UnsentAsks, watching
<1>. QED
  BY <1>5, <1>6

\* A connection that was just constructed satisfies the invariant.
LEMMA InitInv == Init => IndInv
<1> SUFFICES ASSUME Init
             PROVE  IndInv
  OBVIOUS
<1>1. TypeOK
  <2>1. via \in Vias /\ stage \in Stages /\ crashed \in {"no", "send", "getBufferOut"}
    BY DEF Init, Stages
  <2>2. /\ inEpoll \in BOOLEAN /\ watchOut \in BOOLEAN /\ closed \in BOOLEAN
        /\ outFreed \in BOOLEAN /\ user \in BOOLEAN /\ peerGone \in BOOLEAN
        /\ kernel \in SUBSET {"in", "out"} /\ stray \in BOOLEAN
    BY DEF Init
  <2>3. out \in Seq(Bytes) /\ wire \in Seq(Bytes) /\ pending \in Seq(Tasks)
    BY DEF Init
  <2>4. /\ sent \in [Senders -> 0 .. MaxSends] /\ late \in [Senders -> 0 .. MaxSends]
        /\ signals \in 0 .. MaxSignals /\ closes \in Nat
    BY ConnAssumption DEF Init
  <2>5. /\ checked \subseteq Threads /\ revent \subseteq {"in", "out"}
        /\ gone \subseteq Bytes /\ (outFreed => out = <<>>)
    BY DEF Init
  <2>. QED
    BY <2>1, <2>2, <2>3, <2>4, <2>5 DEF TypeOK
<1>2. WholeMessages /\ UnsentAsks
  BY DEF Init, WholeMessages, UnsentAsks, Asked
<1>3. BeforeEstablished /\ ClosedStays /\ ClosedIsDeaf /\ ClosedOnce
  BY DEF Init, BeforeEstablished, ClosedStays, ClosedIsDeaf, ClosedOnce
<1>4. SendsCounted /\ FewLateSends
  BY DEF Init, SendsCounted, FewLateSends, Senders
<1>. QED
  BY <1>1, <1>2, <1>3, <1>4 DEF IndInv

-----------------------------------------------------------------------------
\* A callback that has written nothing keeps the invariant, also if it closes.
LEMMA AfterCallBack ==
    ASSUME IndInv, revent # {}, revent' \subseteq revent,
           user' \in BOOLEAN, signals' \in 0 .. MaxSignals,
           UNCHANGED <<establishing, out, outFreed, pending, checked, sent, peerGone,
                       wire, late, gone, crashed>>,
           (~closed /\ Close) \/ UNCHANGED <<inEpoll, watching, closed, closes>>
    PROVE  IndInv'
<1> USE DEF IndInv, establishing, Pooled
<1>1. closes \in Nat /\ closed \in BOOLEAN /\ inEpoll \in BOOLEAN
  BY DEF TypeOK
<1>2. stage # "new" /\ (~Pooled => stage = "connected")
  BY DEF BeforeEstablished
<1>3. ~Pooled /\ ~closed => closes = 0
  BY <1>1 DEF ClosedStays
<1>4. /\ closes' \in Nat /\ closed' \in BOOLEAN /\ inEpoll' \in BOOLEAN
      /\ watchOut' = watchOut
      /\ kernel' \in SUBSET {"in", "out"} /\ stray' \in BOOLEAN
      /\ Asked'
  <2>1. CASE Close
    <3>1. /\ closes' = closes + 1 /\ kernel' = {} /\ watchOut' = watchOut
          /\ stray' \in {stray, stray \/ Pooled}
      BY <2>1 DEF Close, Stray
    <3>2. closed' \in BOOLEAN /\ inEpoll' \in BOOLEAN /\ ~inEpoll'
      BY <2>1, Zenon DEF Close
    <3>3. closes' \in Nat
      BY <1>1, <3>1
    <3>4. stray' \in BOOLEAN
      BY <3>1 DEF TypeOK
    <3>5. Asked'
      BY <3>1, <3>2 DEF UnsentAsks, Asked, TypeOK
    <3>. QED
      BY <3>1, <3>2, <3>3, <3>4, <3>5
  <2>2. CASE UNCHANGED <<inEpoll, watching, closed, closes>>
    BY <1>1, <2>2 DEF watching, UnsentAsks, Asked, Event, TypeOK
  <2>. QED
    BY <2>1, <2>2
<1>5. TypeOK'
  BY <1>4 DEF TypeOK, Bytes, Tasks
<1>6. BeforeEstablished'
  BY <1>1, <1>2, <1>4 DEF BeforeEstablished, Close
<1>7. ClosedStays' /\ ClosedIsDeaf' /\ UnsentAsks'
  BY <1>1, <1>4 DEF Close, ClosedStays, ClosedIsDeaf, UnsentAsks
<1>8. ClosedOnce'
  BY <1>1, <1>3 DEF Close, ClosedOnce
<1>9. SendsCounted'
  BY <1>1 DEF Close, SendsCounted
<1>. QED
  BY <1>5, <1>6, <1>7, <1>8, <1>9 DEF WholeMessages, FewLateSends

\* Every step keeps the invariant.
LEMMA NextInv == IndInv /\ [Next]_vars => IndInv'
<1> SUFFICES ASSUME IndInv, [Next]_vars
             PROVE  IndInv'
  OBVIOUS
<1> USE ConnAssumption DEF IndInv, establishing, watching, Pooled
<1>0. CASE Fill
  <2>1. stray' \in {stray, stray \/ Pooled}
    BY <1>0 DEF Fill, Stray
  <2>2. TypeOK'
    BY <1>0, <2>1 DEF Fill, TypeOK, Stages, Vias, Senders
  <2>3. BeforeEstablished'
    BY <1>0 DEF Fill, BeforeEstablished, TypeOK
  <2>4. UnsentAsks'
    BY <1>0, <2>1 DEF Fill, UnsentAsks, Asked, Event, TypeOK
  <2>5. ClosedIsDeaf'
    BY <1>0 DEF Fill, ClosedIsDeaf, TypeOK
  <2>6. WholeMessages' /\ ClosedStays' /\ SendsCounted' /\ ClosedOnce' /\ FewLateSends'
    BY <1>0 DEF Fill, WholeMessages, ClosedStays, SendsCounted, ClosedOnce, FewLateSends
  <2>. QED
    BY <2>2, <2>3, <2>4, <2>5, <2>6
<1>1. CASE Register
  <2>0. kernel' \in SUBSET {"in", "out"} /\ (~Pooled => kernel' = {"in"})
    BY <1>1 DEF Register, Control
  <2>1. TypeOK'
    BY <1>1, <2>0 DEF Register, TypeOK, Stages, Vias, Senders
  <2>2. BeforeEstablished'
    BY <1>1 DEF Register, BeforeEstablished, TypeOK
  <2>3. UnsentAsks'
    BY <1>1, <2>0 DEF Register, UnsentAsks, Asked, Event, BeforeEstablished, TypeOK
  <2>4. ClosedIsDeaf'
    BY <1>1 DEF Register, ClosedIsDeaf, TypeOK
  <2>5. WholeMessages' /\ ClosedStays' /\ SendsCounted' /\ ClosedOnce' /\ FewLateSends'
    BY <1>1 DEF Register, WholeMessages, ClosedStays, SendsCounted, ClosedOnce, FewLateSends
  <2>. QED
    BY <2>1, <2>2, <2>3, <2>4, <2>5
<1>2. CASE ClearClosed
  <2>1. TypeOK'
    BY <1>2 DEF ClearClosed, TypeOK, Stages, Vias, Senders
  <2>2. BeforeEstablished'
    BY <1>2 DEF ClearClosed, BeforeEstablished, TypeOK
  <2>3. ClosedStays'
    BY <1>2 DEF ClearClosed, ClosedStays, BeforeEstablished, TypeOK
  <2>4. ClosedIsDeaf'
    BY <1>2 DEF ClearClosed, ClosedIsDeaf, TypeOK
  <2>5. WholeMessages' /\ SendsCounted' /\ UnsentAsks' /\ ClosedOnce' /\ FewLateSends'
    BY <1>2 DEF ClearClosed, WholeMessages, SendsCounted, UnsentAsks, Asked, Event,
       ClosedOnce, FewLateSends
  <2>. QED
    BY <2>1, <2>2, <2>3, <2>4, <2>5
<1>3. CASE Connect
  <2>1. TypeOK'
    BY <1>3 DEF Connect, TypeOK, Stages, Vias, Senders
  <2>2. BeforeEstablished'
    BY <1>3 DEF Connect, BeforeEstablished, TypeOK
  <2>3. ClosedIsDeaf'
    BY <1>3 DEF Connect, ClosedIsDeaf, TypeOK
  <2>4. WholeMessages' /\ ClosedStays' /\ SendsCounted' /\ UnsentAsks' /\ ClosedOnce'
        /\ FewLateSends'
    BY <1>3 DEF Connect, WholeMessages, ClosedStays, SendsCounted, UnsentAsks, Asked,
       Event, ClosedOnce, FewLateSends
  <2>. QED
    BY <2>1, <2>2, <2>3, <2>4
<1>4. CASE PeerCloses
  <2>1. TypeOK'
    BY <1>4 DEF PeerCloses, TypeOK, Stages, Vias, Senders
  <2>2. WholeMessages' /\ BeforeEstablished' /\ ClosedStays' /\ SendsCounted'
        /\ UnsentAsks' /\ ClosedIsDeaf' /\ ClosedOnce' /\ FewLateSends'
    BY <1>4 DEF PeerCloses, WholeMessages, BeforeEstablished, ClosedStays, SendsCounted,
       UnsentAsks, Asked, Event, ClosedIsDeaf, ClosedOnce, FewLateSends
  <2>. QED
    BY <2>1, <2>2
<1>5. ASSUME NEW t \in Threads, BeginSend(t)
      PROVE  IndInv'
  <2>1. TypeOK'
    BY <1>5 DEF BeginSend, TypeOK
  <2>2. BeforeEstablished'
    BY <1>5 DEF BeginSend, MaySend, IsConnect, BeforeEstablished, TypeOK
  <2>3. SendsCounted'
    <3>1. ~Pooled => closes = 0
      BY <1>5 DEF BeginSend, ClosedStays, TypeOK
    <3>2. t \in Senders
      BY DEF Senders
    <3>. QED
      BY <1>5, <3>1, <3>2 DEF BeginSend, SendsCounted
  <2>4. /\ WholeMessages' /\ ClosedStays' /\ UnsentAsks'
        /\ ClosedIsDeaf' /\ ClosedOnce' /\ FewLateSends'
    BY <1>5 DEF BeginSend, WholeMessages, ClosedStays, UnsentAsks, Asked, Event, ClosedIsDeaf,
                ClosedOnce, FewLateSends
  <2>. QED
    BY <2>1, <2>2, <2>3, <2>4
<1>6. ASSUME NEW t \in Threads, QueueSend(t)
      PROVE  IndInv'
  <2>1. /\ t \in Senders /\ Loop # t /\ Loop \in Senders
        /\ t \in checked /\ sent[t] < MaxSends
    BY <1>6 DEF QueueSend, Senders, SendsCounted
  <2>2. /\ Task("send", Message(t)) \in Tasks
        /\ Task("send", Message(t)).kind = "send"
        /\ Len(Task("send", Message(t)).bytes) = MsgLen
    BY <2>1, MessageProperties DEF Task, Tasks
  <2>3. pending' = Append(pending, Task("send", Message(t)))
    BY <1>6 DEF QueueSend
  <2>4. /\ pending' \in Seq(Tasks) /\ WholeMessages'
        /\ pending' # <<>>
    <3>1. pending \in Seq(Tasks)
      BY DEF TypeOK
    <3>. HIDE DEF Task
    <3>. QED
      BY <2>2, <2>3, <3>1, AppendProperties DEF WholeMessages
  <2>5. /\ sent' = [sent EXCEPT ![t] = @ + 1]
        /\ closes > 0 => late' = [late EXCEPT ![t] = @ + 1]
        /\ closes = 0 => late' = late
        /\ checked' = checked \ {t}
        /\ UNCHANGED <<establishing, inEpoll, watching, closed, out, outFreed, revent,
                       user, peerGone, signals, wire, closes, gone, crashed>>
    BY <1>6 DEF QueueSend, Accept
  <2>6. /\ sent' \in [Senders -> 0 .. MaxSends] /\ late' \in [Senders -> 0 .. MaxSends]
        /\ \A s \in Senders : late'[s] <= sent'[s]
        /\ \A s \in Senders \ {t} : sent'[s] = sent[s] /\ late'[s] = late[s]
        /\ closes = 0 => late' = late
        /\ late'[t] <= late[t] + 1
    BY <2>1, <2>5, OneMoreSend
  <2>7. TypeOK'
    BY <2>4, <2>5, <2>6, Zenon DEF TypeOK, Bytes, Tasks, establishing
  <2>8. SendsCounted'
    <3>1. \A u \in checked' : u \in checked /\ u \in Senders \ {t}
      BY <2>5 DEF TypeOK, Senders
    <3>. QED
      BY <2>5, <2>6, <3>1 DEF SendsCounted
  <2>9. FewLateSends'
    <3>1. ~Pooled => late[t] = 0
      BY <2>1 DEF SendsCounted
    <3>2. Loop \in Senders \ {t} /\ \A u \in Threads \ {t} : u \in Senders \ {t}
      BY <2>1 DEF Senders
    <3>3. ~Pooled => late'[t] <= 1
      BY <2>1, <2>6, <3>1
    <3>. QED
      BY <2>5, <2>6, <3>2, <3>3 DEF FewLateSends
  <2>10. BeforeEstablished'
    BY <2>1, <2>5 DEF BeforeEstablished
  <2>11. ClosedStays' /\ UnsentAsks' /\ ClosedIsDeaf' /\ ClosedOnce'
    BY <2>5 DEF ClosedStays, UnsentAsks, Asked, Event, ClosedIsDeaf, ClosedOnce
  <2>. QED
    BY <2>4, <2>7, <2>8, <2>9, <2>10, <2>11
<1>7. CASE Poll
  <2>1. TypeOK'
    BY <1>7 DEF Poll, Idle, Watched, TypeOK, Stages, Vias, Senders
  <2>2. BeforeEstablished'
    BY <1>7 DEF Poll, Idle, Watched, BeforeEstablished, TypeOK
  <2>3. WholeMessages' /\ ClosedStays' /\ SendsCounted' /\ UnsentAsks' /\ ClosedIsDeaf'
        /\ ClosedOnce' /\ FewLateSends'
    BY <1>7 DEF Poll, Idle, Watched, WholeMessages, ClosedStays, SendsCounted, UnsentAsks,
       Asked, Event, ClosedIsDeaf, ClosedOnce, FewLateSends
  <2>. QED
    BY <2>1, <2>2, <2>3
<1>8. CASE ReadCallBack
  <2>1. /\ revent # {} /\ revent' \subseteq revent
        /\ UNCHANGED <<establishing, out, outFreed, pending, checked, sent, peerGone,
                       signals, wire, late, gone, crashed>>
    BY <1>8 DEF ReadCallBack
  <2>2. /\ user' \in BOOLEAN
        /\ (~closed /\ Close) \/ UNCHANGED <<inEpoll, watching, closed, closes>>
    BY <1>8, Zenon DEF ReadCallBack, Close
  <2>3. signals' \in 0 .. MaxSignals
    BY <2>1 DEF TypeOK
  <2>. QED
    BY <2>1, <2>2, <2>3, AfterCallBack
<1>9. CASE WriteCallBack
  <2>1. revent # {} /\ revent' = {} /\ user \in BOOLEAN /\ signals \in 0 .. MaxSignals
    BY <1>9 DEF WriteCallBack, TypeOK
  <2>2. ASSUME WriteOut, ~closed,
               UNCHANGED <<inEpoll, closed, closes, user>>,
               UNCHANGED <<establishing, checked, sent, peerGone, late, gone, crashed>>
        PROVE  IndInv'
    <3>1. /\ wire' \in Seq(Bytes) /\ out' \in Seq(Bytes)
          /\ pending' \in Seq(Tasks) /\ outFreed' \in BOOLEAN
          /\ watchOut' \in BOOLEAN /\ kernel' \in SUBSET {"in", "out"}
          /\ stray' \in BOOLEAN
          /\ signals' \in 0 .. MaxSignals
          /\ outFreed' => out' = <<>>
          /\ UnsentAsks'
          /\ pending' = pending \/ pending' = Append(pending, Task("complete", out))
      BY <2>2, WriteKeepsTypes
    <3>2. out # <<>>
      BY <2>2 DEF WriteOut
    <3>3. TypeOK'
      BY <2>1, <2>2, <3>1, Zenon DEF TypeOK, Bytes, Tasks, establishing
    <3>4. WholeMessages'
      <4>1. out \in Seq(Bytes) /\ pending \in Seq(Tasks)
        BY DEF TypeOK
      <4>. QED
        BY <3>1, <4>1, TaskAfter DEF WholeMessages
    <3>5. BeforeEstablished'
      BY <2>1, <2>2, <3>2 DEF BeforeEstablished
    <3>. QED
      BY <2>2, <3>1, <3>3, <3>4, <3>5
         DEF ClosedStays, SendsCounted, ClosedIsDeaf, ClosedOnce, FewLateSends
  <2>3. ASSUME UNCHANGED <<out, outFreed, pending, wire>>,
               UNCHANGED <<establishing, checked, sent, peerGone, late, gone, crashed>>,
               signals' \in 0 .. MaxSignals,
               user' \in BOOLEAN,
               (~closed /\ Close) \/ UNCHANGED <<inEpoll, watching, closed, closes>>
        PROVE  IndInv'
    BY <2>1, <2>3, AfterCallBack
  <2>4. Interrupted => signals' \in 0 .. MaxSignals
    BY <2>1 DEF Interrupted
  <2>5. Close => user' \in BOOLEAN
    BY DEF Close
  <2>. QED
    BY <1>9, <2>1, <2>2, <2>3, <2>4, <2>5 DEF WriteCallBack
<1>10. CASE RunTask
  <2>1. /\ pending # <<>> /\ revent = {} /\ crashed = "no"
        /\ UNCHANGED <<establishing, inEpoll, closed, outFreed, checked, sent, revent,
                       peerGone, closes, late>>
    BY <1>10 DEF RunTask, Idle
  <2>2. /\ Head(pending) \in Tasks /\ Tail(pending) \in Seq(Tasks)
        /\ Head(pending) = pending[1] /\ 1 \in DOMAIN pending
        /\ Len(Tail(pending)) = Len(pending) - 1
        /\ \A i \in DOMAIN Tail(pending) : Tail(pending)[i] = pending[i + 1]
        /\ \A i \in DOMAIN Tail(pending) : i + 1 \in DOMAIN pending
    BY <2>1 DEF TypeOK
  <2>3. \A i \in DOMAIN Tail(pending) :
           Tail(pending)[i].kind = "send" => Len(Tail(pending)[i].bytes) = MsgLen
    BY <2>2 DEF WholeMessages
  <2>4. Head(pending).bytes \in Seq(Bytes)
    BY <2>2 DEF Tasks
  <2>5. /\ out' \in Seq(Bytes) /\ wire' \in Seq(Bytes) /\ gone' \subseteq Bytes
        /\ pending' \in Seq(Tasks)
        /\ watchOut' \in BOOLEAN /\ kernel' \in SUBSET {"in", "out"}
        /\ stray' \in BOOLEAN
        /\ signals' \in 0 .. MaxSignals
        /\ crashed' \in {crashed, "send"}
        /\ outFreed => out' = <<>>
        /\ UnsentAsks'
        /\ user' \in BOOLEAN
        /\ WholeMessages'
    <3>1. CASE /\ Head(pending).kind = "send"
               /\ SendInLoop(Head(pending).bytes, Tail(pending))
               /\ UNCHANGED user
      <4>1. Len(Head(pending).bytes) = MsgLen
        BY <2>2, <3>1 DEF WholeMessages
      <4>2. WholeMessages'
        BY <2>2, <2>3, <2>4, <3>1, <4>1, SendKeepsTypes, TaskAfter DEF WholeMessages
      <4>3. user' \in BOOLEAN
        BY <3>1 DEF TypeOK
      <4>. QED
        BY <2>1, <2>2, <2>4, <3>1, <4>1, <4>2, <4>3, SendKeepsTypes
    <3>2. CASE /\ Head(pending).kind = "complete"
               /\ pending' = Tail(pending)
               /\ user' = TRUE
               /\ UNCHANGED <<out, watching, signals, wire, gone, crashed>>
      BY <2>1, <2>2, <2>3, <3>2 DEF TypeOK, UnsentAsks, Asked, Event, WholeMessages
    <3>. QED
      BY <1>10, <3>1, <3>2 DEF RunTask
  <2>6. TypeOK'
    BY <2>1, <2>5 DEF TypeOK, Bytes, Tasks
  <2>7. BeforeEstablished'
    BY <2>1 DEF BeforeEstablished
  <2>. QED
    BY <2>1, <2>5, <2>6, <2>7
       DEF ClosedStays, SendsCounted, ClosedIsDeaf, ClosedOnce, FewLateSends
<1>11. CASE UserSends
  <2>1. /\ crashed = "no" /\ user /\ ~closed /\ sent[Loop] < MaxSends
        /\ SendInLoop(Message(Loop), pending)
        /\ sent' = [sent EXCEPT ![Loop] = @ + 1]
        /\ closes = 0 => late' = late
        /\ closes > 0 => late' = [late EXCEPT ![Loop] = @ + 1]
        /\ UNCHANGED <<establishing, inEpoll, closed, outFreed, checked, revent, user,
                       peerGone, closes>>
    BY <1>11 DEF UserSends, Accept
  <2>2. Loop \in Senders /\ \A t \in Threads : t \in Senders /\ t # Loop
    BY DEF Senders
  <2>3. Message(Loop) \in Seq(Bytes) /\ Len(Message(Loop)) = MsgLen
    BY <2>1, <2>2, MessageProperties
  <2>4. /\ out' \in Seq(Bytes) /\ wire' \in Seq(Bytes) /\ gone' \subseteq Bytes
        /\ pending' \in Seq(Tasks)
        /\ pending' = pending \/ pending' = Append(pending, Task("complete", Message(Loop)))
        /\ watchOut' \in BOOLEAN /\ kernel' \in SUBSET {"in", "out"}
        /\ stray' \in BOOLEAN
        /\ signals' \in 0 .. MaxSignals
        /\ crashed' \in {crashed, "send"}
        /\ outFreed => out' = <<>>
        /\ UnsentAsks'
    <3>1. pending \in Seq(Tasks)
      BY DEF TypeOK
    <3>. QED
      BY <2>1, <2>3, <3>1, SendKeepsTypes
  <2>5. WholeMessages'
    BY <2>3, <2>4, TaskAfter DEF TypeOK, WholeMessages
  <2>6. ~Pooled => closes = 0
    BY <2>1 DEF ClosedStays, TypeOK
  <2>7. /\ sent' \in [Senders -> 0 .. MaxSends] /\ late' \in [Senders -> 0 .. MaxSends]
        /\ \A s \in Senders : late'[s] <= sent'[s]
        /\ \A s \in Senders \ {Loop} : sent'[s] = sent[s]
        /\ closes = 0 => late' = late
    BY <2>1, <2>2, OneMoreSend
  <2>8. TypeOK'
    BY <2>1, <2>4, <2>7 DEF TypeOK, Bytes, Tasks
  <2>9. SendsCounted'
    BY <2>1, <2>2, <2>6, <2>7 DEF TypeOK, SendsCounted
  <2>10. BeforeEstablished'
    BY <2>1, <2>4 DEF BeforeEstablished
  <2>. QED
    BY <2>1, <2>4, <2>5, <2>6, <2>8, <2>9, <2>10
       DEF ClosedStays, ClosedIsDeaf, ClosedOnce, FewLateSends
<1>12. CASE UserTakesOut
  <2>1. TypeOK'
    <3>1. out' \in Seq(Bytes) /\ gone' \subseteq Bytes /\ (outFreed => out' = <<>>)
      <4>1. ASSUME NEW n \in 1 .. Len(out), out' = SubSeq(out, n + 1, Len(out)),
                   gone' = gone \cup ToSet(SubSeq(out, 1, n))
            PROVE  /\ out' \in Seq(Bytes) /\ gone' \subseteq Bytes /\ out # <<>>
        <5>1. out \in Seq(Bytes) /\ gone \subseteq Bytes
          BY DEF TypeOK
        <5>2. SubSeq(out, 1, n) \in Seq(Bytes) /\ SubSeq(out, n + 1, Len(out)) \in Seq(Bytes)
          BY <5>1, SplitProperties
        <5>3. ToSet(SubSeq(out, 1, n)) \subseteq Bytes
          BY <5>2 DEF ToSet
        <5>. QED
          BY <4>1, <5>1, <5>2, <5>3
      <4>2. ASSUME UNCHANGED <<out, gone>>
            PROVE  /\ out' \in Seq(Bytes) /\ gone' \subseteq Bytes
                   /\ outFreed => out' = <<>>
        BY <4>2 DEF TypeOK
      <4>3. outFreed => out = <<>>
        BY DEF TypeOK
      <4>. QED
        BY <1>12, <4>1, <4>2, <4>3 DEF UserTakesOut
    <3>2. crashed' \in {crashed, "getBufferOut"}
      BY <1>12 DEF UserTakesOut
    <3>. QED
      BY <1>12, <3>1, <3>2 DEF UserTakesOut, TypeOK, Bytes, Tasks
  <2>2. BeforeEstablished'
    BY <1>12 DEF UserTakesOut, BeforeEstablished, TypeOK
  <2>3. UnsentAsks'
    BY <1>12 DEF UserTakesOut, UnsentAsks, Asked, Event, BeforeEstablished, TypeOK
  <2>4. WholeMessages' /\ ClosedStays' /\ SendsCounted' /\ ClosedIsDeaf' /\ ClosedOnce'
        /\ FewLateSends'
    BY <1>12 DEF UserTakesOut, WholeMessages, ClosedStays, SendsCounted, ClosedIsDeaf,
       ClosedOnce, FewLateSends
  <2>. QED
    BY <2>1, <2>2, <2>3, <2>4
<1>13. CASE UserReturns
  <2>1. TypeOK'
    BY <1>13 DEF UserReturns, TypeOK, Stages, Vias, Senders
  <2>2. BeforeEstablished'
    BY <1>13 DEF UserReturns, BeforeEstablished, TypeOK
  <2>3. ClosedIsDeaf'
    BY <1>13 DEF UserReturns, ClosedIsDeaf, TypeOK
  <2>4. WholeMessages' /\ ClosedStays' /\ SendsCounted' /\ UnsentAsks' /\ ClosedOnce'
        /\ FewLateSends'
    BY <1>13 DEF UserReturns, WholeMessages, ClosedStays, SendsCounted, UnsentAsks, Asked,
       Event, ClosedOnce, FewLateSends
  <2>. QED
    BY <2>1, <2>2, <2>3, <2>4
<1>14. CASE UNCHANGED vars
  BY <1>14 DEF vars, TypeOK, WholeMessages, BeforeEstablished, ClosedStays, SendsCounted,
               UnsentAsks, Asked, Event, ClosedIsDeaf, ClosedOnce, FewLateSends
<1>. QED
  BY <1>0, <1>1, <1>2, <1>3, <1>4, <1>5, <1>6, <1>7, <1>8, <1>9, <1>10, <1>11, <1>12,
     <1>13, <1>14 DEF Next

LEMMA AlwaysInv == Spec => []IndInv
<1>1. Init => IndInv
  BY InitInv
<1>2. IndInv /\ [Next]_vars => IndInv'
  BY NextInv
<1>. QED
  BY <1>1, <1>2, PTL DEF Spec

\* TcpConn::establish, send, sendInLoop, readCallBack and writeCallBack keep every
\* member within its type, and an _out that was reset() is never written to.
THEOREM TypeCorrect == Spec => []TypeOK
<1>1. IndInv => TypeOK
  BY DEF IndInv
<1>. QED
  BY <1>1, AlwaysInv, PTL

\* sendInLoop and writeCallBack: as long as the connection is registered, its
\* channel asks for EPOLLOUT for bytes that a partial write left in _out, and
\* without a pool the kernel watches for it.
THEOREM UnsentAreWatched == Spec => []UnsentIsWatched
<1>1. IndInv => UnsentIsWatched
  BY DEF IndInv, UnsentAsks, Asked, Event, UnsentIsWatched
<1>. QED
  BY <1>1, AlwaysInv, PTL

\* TcpConn::close: once establish() has written _isChannelClosed, a connection
\* with the mark is not in the epoll instance.
THEOREM ClosedAreDeaf == Spec => []ClosedIsDeaf
<1>1. IndInv => ClosedIsDeaf
  BY DEF IndInv
<1>. QED
  BY <1>1, AlwaysInv, PTL

\* readCallBack and writeCallBack: without a pool, _close_callback runs at most once.
THEOREM ClosesOnce == Spec => []ClosedOnce
<1>1. IndInv => ClosedOnce
  BY DEF IndInv
<1>. QED
  BY <1>1, AlwaysInv, PTL

\* TcpConn::send: without a pool, a thread that was past the test when the
\* connection closed sends one more message, and no thread sends a second.
THEOREM LateSendsAreFew == Spec => []FewLateSends
<1>1. IndInv => FewLateSends
  BY DEF IndInv
<1>. QED
  BY <1>1, AlwaysInv, PTL

-----------------------------------------------------------------------------
(***************************************************************************)
(* The bytes of a TcpConn leave in the order in which they were sent, none *)
(* vanishes and none is reported sent while it is still waiting.           *)
(***************************************************************************)
\* Every byte of P was sent before every byte of Q of the same thread.
Before(P, Q) == \A p \in P, q \in Q : p[1] = q[1] => p[2] < q[2]

\* The bytes of each thread are in order in s.
Rising(s) == \A i, j \in DOMAIN s : i < j /\ s[i][1] = s[j][1] => s[i][2] < s[j][2]

\* The sends in a queue, and their bytes.
Sends(q) == {i \in DOMAIN q : q[i].kind = "send"}
Backlog(q) == UNION {ToSet(q[i].bytes) : i \in Sends(q)}

\* What is on the wire, then what is buffered, then the queue's sends.
InOrder(w, o, q) ==
    /\ Rising(w) /\ Rising(o) /\ Before(ToSet(w), ToSet(o))
    /\ \A i \in Sends(q) : Rising(q[i].bytes)
    /\ \A i \in Sends(q) : Before(ToSet(w), ToSet(q[i].bytes))
    /\ \A i \in Sends(q) : Before(ToSet(o), ToSet(q[i].bytes))
    /\ \A i, j \in Sends(q) : i < j => Before(ToSet(q[i].bytes), ToSet(q[j].bytes))

\* The completions in a queue are about bytes of S.
Completions(q, S) ==
    \A i \in DOMAIN q : q[i].kind = "complete" => ToSet(q[i].bytes) \subseteq S

(***************************************************************************)
(* The second inductive invariant, about the bytes.  The loop's thread     *)
(* never queues, so what it sends at once overtakes none of its bytes.     *)
(***************************************************************************)
Ordered == InOrder(wire, out, pending)

OthersQueue == \A b \in Backlog(pending) : b[1] \in Threads

\* What failed or was taken back is not waiting any more.
GoneIsGone == gone \cap (ToSet(out) \cup Backlog(pending)) = {}

Completed == Completions(pending, ToSet(wire) \cup gone)

Held == ToSet(wire) \cup ToSet(out) \cup gone \cup Backlog(pending)

AllHeld == Held \subseteq Accepted /\ (crashed = "no" => Accepted \subseteq Held)

DataInv ==
    /\ Ordered
    /\ OthersQueue
    /\ GoneIsGone
    /\ Completed
    /\ AllHeld

-----------------------------------------------------------------------------
(***************************************************************************)
(* Cutting and joining sequences of bytes.                                 *)
(***************************************************************************)
LEMMA CutBytes ==
    ASSUME NEW q \in Seq(Bytes), Rising(q), NEW n \in 0 .. Len(q)
    PROVE  /\ SubSeq(q, 1, n) \in Seq(Bytes) /\ Rising(SubSeq(q, 1, n))
           /\ SubSeq(q, n + 1, Len(q)) \in Seq(Bytes) /\ Rising(SubSeq(q, n + 1, Len(q)))
           /\ Before(ToSet(SubSeq(q, 1, n)), ToSet(SubSeq(q, n + 1, Len(q))))
           /\ ToSet(q) = ToSet(SubSeq(q, 1, n)) \cup ToSet(SubSeq(q, n + 1, Len(q)))
<1> DEFINE p == SubSeq(q, 1, n)
           r == SubSeq(q, n + 1, Len(q))
<1>1. /\ p \in Seq(Bytes) /\ Len(p) = n /\ \A i \in 1 .. n : p[i] = q[i]
      /\ r \in Seq(Bytes) /\ Len(r) = Len(q) - n
      /\ \A i \in 1 .. Len(q) - n : r[i] = q[n + i]
      /\ Len(q) \in Nat /\ DOMAIN q = 1 .. Len(q)
  BY SplitProperties
<1> HIDE DEF p, r
<1>2. DOMAIN p = 1 .. n /\ DOMAIN r = 1 .. Len(q) - n
  BY <1>1
<1>3. Rising(p)
  <2> SUFFICES ASSUME NEW i \in DOMAIN p, NEW j \in DOMAIN p, i < j, p[i][1] = p[j][1]
               PROVE  p[i][2] < p[j][2]
    BY DEF Rising
  <2>1. i \in DOMAIN q /\ j \in DOMAIN q /\ p[i] = q[i] /\ p[j] = q[j]
    BY <1>1, <1>2
  <2>. QED
    BY <2>1 DEF Rising
<1>4. Rising(r)
  <2> SUFFICES ASSUME NEW i \in DOMAIN r, NEW j \in DOMAIN r, i < j, r[i][1] = r[j][1]
               PROVE  r[i][2] < r[j][2]
    BY DEF Rising
  <2>1. n + i \in DOMAIN q /\ n + j \in DOMAIN q /\ n + i < n + j
    BY <1>1, <1>2
  <2>2. r[i] = q[n + i] /\ r[j] = q[n + j]
    BY <1>1, <1>2
  <2>. QED
    BY <2>1, <2>2 DEF Rising
<1>5. Before(ToSet(p), ToSet(r))
  <2> SUFFICES ASSUME NEW i \in DOMAIN p, NEW j \in DOMAIN r, p[i][1] = r[j][1]
               PROVE  p[i][2] < r[j][2]
    BY DEF Before, ToSet
  <2>1. i \in DOMAIN q /\ n + j \in DOMAIN q /\ i < n + j
    BY <1>1, <1>2
  <2>2. p[i] = q[i] /\ r[j] = q[n + j]
    BY <1>1, <1>2
  <2>. QED
    BY <2>1, <2>2 DEF Rising
<1>6. ToSet(q) = ToSet(p) \cup ToSet(r)
  <2>1. ASSUME NEW i \in DOMAIN q
        PROVE  q[i] \in ToSet(p) \cup ToSet(r)
    <3>1. CASE i <= n
      <4>1. i \in DOMAIN p /\ p[i] = q[i]
        BY <1>1, <1>2, <3>1
      <4>. QED
        BY <4>1 DEF ToSet
    <3>2. CASE i > n
      <4>1. i - n \in DOMAIN r /\ n + (i - n) = i
        BY <1>1, <1>2, <3>2
      <4>2. r[i - n] = q[i]
        BY <1>1, <1>2, <4>1
      <4>. QED
        BY <4>1, <4>2 DEF ToSet
    <3>. QED
      BY <1>1, <3>1, <3>2
  <2>2. ASSUME NEW i \in DOMAIN p
        PROVE  p[i] \in ToSet(q)
    <3>1. i \in DOMAIN q /\ p[i] = q[i]
      BY <1>1, <1>2
    <3>. QED
      BY <3>1 DEF ToSet
  <2>3. ASSUME NEW i \in DOMAIN r
        PROVE  r[i] \in ToSet(q)
    <3>1. n + i \in DOMAIN q /\ r[i] = q[n + i]
      BY <1>1, <1>2
    <3>. QED
      BY <3>1 DEF ToSet
  <2>. QED
    BY <2>1, <2>2, <2>3 DEF ToSet
<1>. QED
  BY <1>1, <1>3, <1>4, <1>5, <1>6 DEF p, r

LEMMA JoinBytes ==
    ASSUME NEW p \in Seq(Bytes), NEW r \in Seq(Bytes), Rising(p), Rising(r),
           Before(ToSet(p), ToSet(r))
    PROVE  /\ p \o r \in Seq(Bytes) /\ Rising(p \o r)
           /\ ToSet(p \o r) = ToSet(p) \cup ToSet(r)
<1> DEFINE q == p \o r
<1>1. /\ q \in Seq(Bytes) /\ Len(q) = Len(p) + Len(r)
      /\ \A i \in 1 .. Len(p) + Len(r) :
            q[i] = IF i <= Len(p) THEN p[i] ELSE r[i - Len(p)]
      /\ DOMAIN q = 1 .. Len(p) + Len(r) /\ DOMAIN p = 1 .. Len(p) /\ DOMAIN r = 1 .. Len(r)
      /\ Len(p) \in Nat /\ Len(r) \in Nat
  BY ConcatProperties
<1> HIDE DEF q
<1>2. \A i \in DOMAIN q : \/ i \in DOMAIN p /\ q[i] = p[i]
                          \/ i - Len(p) \in DOMAIN r /\ i > Len(p) /\ q[i] = r[i - Len(p)]
  BY <1>1
<1>3. Rising(q)
  <2> SUFFICES ASSUME NEW i \in DOMAIN q, NEW j \in DOMAIN q, i < j, q[i][1] = q[j][1]
               PROVE  q[i][2] < q[j][2]
    BY DEF Rising
  <2>1. CASE i \in DOMAIN p /\ j \in DOMAIN p /\ q[i] = p[i] /\ q[j] = p[j]
    BY <2>1 DEF Rising
  <2>2. CASE /\ i - Len(p) \in DOMAIN r /\ q[i] = r[i - Len(p)]
             /\ j - Len(p) \in DOMAIN r /\ q[j] = r[j - Len(p)]
    <3>1. i - Len(p) < j - Len(p)
      BY <1>1
    <3>. QED
      BY <2>2, <3>1 DEF Rising
  <2>3. CASE i \in DOMAIN p /\ q[i] = p[i] /\ j - Len(p) \in DOMAIN r /\ q[j] = r[j - Len(p)]
    <3>1. q[i] \in ToSet(p) /\ q[j] \in ToSet(r)
      BY <2>3 DEF ToSet
    <3>. QED
      BY <3>1 DEF Before
  <2>4. ~(i > Len(p) /\ j \in DOMAIN p)
    BY <1>1
  <2>. QED
    BY <1>2, <2>1, <2>2, <2>3, <2>4
<1>4. ToSet(q) = ToSet(p) \cup ToSet(r)
  <2>1. ToSet(q) \subseteq ToSet(p) \cup ToSet(r)
    BY <1>2 DEF ToSet
  <2>2. ASSUME NEW i \in DOMAIN p
        PROVE  p[i] \in ToSet(q)
    <3>1. i \in DOMAIN q /\ q[i] = p[i]
      BY <1>1
    <3>. QED
      BY <3>1 DEF ToSet
  <2>3. ASSUME NEW i \in DOMAIN r
        PROVE  r[i] \in ToSet(q)
    <3>1. Len(p) + i \in DOMAIN q /\ Len(p) + i > Len(p) /\ Len(p) + i - Len(p) = i
      BY <1>1
    <3>2. q[Len(p) + i] = r[i]
      BY <1>1, <3>1
    <3>. QED
      BY <3>1, <3>2 DEF ToSet
  <2>. QED
    BY <2>1, <2>2, <2>3 DEF ToSet
<1>. QED
  BY <1>1, <1>3, <1>4 DEF q

\* What was sent before something else is not that.
LEMMA BeforeIsDisjoint ==
    ASSUME NEW P, NEW Q, P \subseteq Bytes, Before(P, Q)
    PROVE  P \cap Q = {}
<1> SUFFICES ASSUME NEW p \in P, p \in Q
             PROVE  FALSE
  OBVIOUS
<1>1. p[2] < p[2]
  BY DEF Before
<1>2. p[2] \in Int
  BY ConnAssumption DEF Bytes
<1>. QED
  BY <1>1, <1>2

-----------------------------------------------------------------------------
(***************************************************************************)
(* What a task more or less in the queue changes.                          *)
(***************************************************************************)
LEMMA CompletionQueued ==
    ASSUME NEW q \in Seq(Tasks), NEW b \in Seq(Bytes), NEW S,
           Completions(q, S), ToSet(b) \subseteq S
    PROVE  /\ Sends(Append(q, Task("complete", b))) = Sends(q)
           /\ \A i \in Sends(q) : Append(q, Task("complete", b))[i] = q[i]
           /\ Backlog(Append(q, Task("complete", b))) = Backlog(q)
           /\ Completions(Append(q, Task("complete", b)), S)
<1> DEFINE r == Append(q, Task("complete", b))
<1>1. /\ Task("complete", b) \in Tasks /\ Task("complete", b).kind = "complete"
      /\ Task("complete", b).bytes = b
  BY DEF Task, Tasks
<1>2. /\ DOMAIN q = 1 .. Len(q) /\ Len(q) \in Nat /\ DOMAIN r = 1 .. Len(q) + 1
      /\ \A i \in 1 .. Len(q) : r[i] = q[i]
      /\ r[Len(q) + 1].kind = "complete" /\ r[Len(q) + 1].bytes = b
  <2> HIDE DEF Task
  <2>. QED
    BY <1>1, AppendProperties
<1> HIDE DEF r
<1>3. \A i \in DOMAIN r : i \in DOMAIN q \/ i = Len(q) + 1
  BY <1>2
<1>4. Sends(r) = Sends(q) /\ \A i \in Sends(q) : r[i] = q[i]
  BY <1>2, <1>3 DEF Sends
<1>5. Backlog(r) = Backlog(q)
  BY <1>4 DEF Backlog
<1>6. Completions(r, S)
  BY <1>2, <1>3 DEF Completions
<1>. QED
  BY <1>4, <1>5, <1>6 DEF r

LEMMA SendQueued ==
    ASSUME NEW q \in Seq(Tasks), NEW b \in Seq(Bytes), NEW S, Completions(q, S)
    PROVE  /\ Sends(Append(q, Task("send", b))) = Sends(q) \cup {Len(q) + 1}
           /\ Sends(q) \subseteq 1 .. Len(q)
           /\ \A i \in Sends(q) : Append(q, Task("send", b))[i] = q[i]
           /\ Append(q, Task("send", b))[Len(q) + 1].bytes = b
           /\ Backlog(Append(q, Task("send", b))) = Backlog(q) \cup ToSet(b)
           /\ Completions(Append(q, Task("send", b)), S)
<1> DEFINE r == Append(q, Task("send", b))
<1>1. /\ Task("send", b) \in Tasks /\ Task("send", b).kind = "send"
      /\ Task("send", b).bytes = b
  BY DEF Task, Tasks
<1>2. /\ DOMAIN q = 1 .. Len(q) /\ Len(q) \in Nat /\ DOMAIN r = 1 .. Len(q) + 1
      /\ \A i \in 1 .. Len(q) : r[i] = q[i]
      /\ r[Len(q) + 1].kind = "send" /\ r[Len(q) + 1].bytes = b
  <2> HIDE DEF Task
  <2>. QED
    BY <1>1, AppendProperties
<1> HIDE DEF r
<1>3. \A i \in DOMAIN r : i \in DOMAIN q \/ i = Len(q) + 1
  BY <1>2
<1>4. /\ Sends(r) = Sends(q) \cup {Len(q) + 1} /\ Sends(q) \subseteq 1 .. Len(q)
      /\ \A i \in Sends(q) : r[i] = q[i]
  <2>1. \A i \in DOMAIN q : i \in DOMAIN r /\ r[i] = q[i]
    BY <1>2
  <2>2. Len(q) + 1 \in DOMAIN r
    BY <1>2
  <2>. QED
    BY <1>2, <1>3, <2>1, <2>2 DEF Sends
<1>5. Backlog(r) = Backlog(q) \cup ToSet(b)
  BY <1>2, <1>4 DEF Backlog
<1>6. Completions(r, S)
  BY <1>2, <1>3 DEF Completions
<1>. QED
  BY <1>2, <1>4, <1>5, <1>6 DEF r

LEMMA TaskTaken ==
    ASSUME NEW q \in Seq(Tasks), q # <<>>, NEW S, Completions(q, S)
    PROVE  /\ Head(q) \in Tasks /\ Tail(q) \in Seq(Tasks)
           /\ Head(q) = q[1] /\ 1 \in DOMAIN q
           /\ \A i \in Sends(Tail(q)) :
                 i \in Nat /\ i + 1 \in Sends(q) /\ i + 1 > 1 /\ Tail(q)[i] = q[i + 1]
           /\ Backlog(q) = Backlog(Tail(q))
                              \cup (IF Head(q).kind = "send" THEN ToSet(Head(q).bytes) ELSE {})
           /\ Completions(Tail(q), S)
<1> DEFINE r == Tail(q)
<1>1. /\ Head(q) \in Tasks /\ r \in Seq(Tasks) /\ Head(q) = q[1]
      /\ DOMAIN q = 1 .. Len(q) /\ Len(q) \in Nat /\ Len(q) >= 1
      /\ Len(r) = Len(q) - 1 /\ DOMAIN r = 1 .. Len(q) - 1
      /\ \A i \in 1 .. Len(q) - 1 : r[i] = q[i + 1]
  BY HeadTailProperties
<1> HIDE DEF r
<1>2. \A i \in DOMAIN r : i \in Nat /\ i + 1 \in DOMAIN q /\ i + 1 > 1 /\ r[i] = q[i + 1]
  BY <1>1
<1>3. \A i \in DOMAIN q : i = 1 \/ (i - 1 \in DOMAIN r /\ r[i - 1] = q[i])
  <2> SUFFICES ASSUME NEW i \in DOMAIN q, i # 1
               PROVE  i - 1 \in DOMAIN r /\ r[i - 1] = q[i]
    OBVIOUS
  <2>1. i - 1 \in 1 .. Len(q) - 1 /\ i - 1 + 1 = i
    BY <1>1
  <2>. QED
    BY <1>1, <2>1
<1>4. \A i \in Sends(r) : i \in Nat /\ i + 1 \in Sends(q) /\ i + 1 > 1 /\ r[i] = q[i + 1]
  BY <1>2 DEF Sends
<1>5. 1 \in DOMAIN q
  BY <1>1
<1>6. Backlog(q) = Backlog(r) \cup (IF q[1].kind = "send" THEN ToSet(q[1].bytes) ELSE {})
  <2>1. \A i \in Sends(q) : i = 1 \/ (i - 1 \in Sends(r) /\ r[i - 1] = q[i])
    BY <1>3 DEF Sends
  <2>2. q[1].kind = "send" <=> 1 \in Sends(q)
    BY <1>5 DEF Sends
  <2>3. Backlog(q) \subseteq Backlog(r) \cup (IF 1 \in Sends(q) THEN ToSet(q[1].bytes) ELSE {})
    BY <2>1 DEF Backlog
  <2>4. Backlog(r) \subseteq Backlog(q)
    BY <1>4 DEF Backlog
  <2>5. 1 \in Sends(q) => ToSet(q[1].bytes) \subseteq Backlog(q)
    BY DEF Backlog
  <2>. QED
    BY <2>2, <2>3, <2>4, <2>5
<1>7. Completions(r, S)
  BY <1>2 DEF Completions
<1>. QED
  BY <1>1, <1>4, <1>5, <1>6, <1>7 DEF r

-----------------------------------------------------------------------------
\* The next message of a thread continues what the thread has sent.
LEMMA NextMessage ==
    ASSUME TypeOK, NEW s \in Senders, sent[s] < MaxSends
    PROVE  /\ Rising(Message(s))
           /\ \A b \in ToSet(Message(s)) : b[1] = s
           /\ Before(Accepted, ToSet(Message(s)))
           /\ Accepted \subseteq Bytes
           /\ sent' = [sent EXCEPT ![s] = @ + 1] =>
                 Accepted' = Accepted \cup ToSet(Message(s))
<1> DEFINE k(u) == sent[u] * MsgLen
<1>1. /\ MsgLen \in Nat /\ MaxSends \in Nat
      /\ \A u \in Senders : sent[u] \in Nat /\ sent[u] <= MaxSends
      /\ sent \in [Senders -> 0 .. MaxSends]
  BY ConnAssumption DEF TypeOK
<1>2. \A u \in Senders : k(u) \in Nat
  BY <1>1
<1>3. /\ DOMAIN Message(s) = 1 .. MsgLen
      /\ \A i \in 1 .. MsgLen : Message(s)[i] = <<s, k(s) + i>>
  BY MessageProperties DEF Message
<1>4. (sent[s] + 1) * MsgLen = k(s) + MsgLen
  BY <1>1, OneMore
<1>5. \A u \in Senders : k(u) <= MaxSends * MsgLen
  <2> SUFFICES ASSUME NEW u \in Senders
               PROVE  k(u) <= MaxSends * MsgLen
    OBVIOUS
  <2>1. CASE sent[u] = MaxSends
    BY <1>1, <2>1
  <2>2. CASE sent[u] + 1 <= MaxSends
    <3>1. /\ sent[u] * MsgLen + MsgLen = (sent[u] + 1) * MsgLen
          /\ (sent[u] + 1) * MsgLen <= MaxSends * MsgLen
          /\ sent[u] * MsgLen \in Nat
      BY <1>1, <2>2, OneMore
    <3>2. MaxSends * MsgLen \in Nat /\ (sent[u] + 1) * MsgLen \in Nat
      BY <1>1
    <3>. QED
      BY <1>1, <3>1, <3>2
  <2>. QED
    BY <1>1, <2>1, <2>2
<1>6. Accepted = UNION {{u} \X (1 .. k(u)) : u \in Senders}
  BY DEF Accepted
<1>7. ASSUME sent' = [sent EXCEPT ![s] = @ + 1]
      PROVE  Accepted' = UNION {{u} \X (1 .. IF u = s THEN k(s) + MsgLen ELSE k(u)) : u \in Senders}
  <2>1. \A u \in Senders : sent'[u] * MsgLen = IF u = s THEN k(s) + MsgLen ELSE k(u)
    BY <1>1, <1>4, <1>7
  <2>2. Accepted' = UNION {{u} \X (1 .. sent'[u] * MsgLen) : u \in Senders}
    BY DEF Accepted
  <2> HIDE DEF k
  <2>. QED
    BY <2>1, <2>2
<1>8. \A u \in Senders : 1 .. k(u) \subseteq 1 .. MaxSends * MsgLen
  <2>1. MaxSends * MsgLen \in Nat
    BY <1>1
  <2> HIDE DEF k
  <2>. QED
    BY <1>2, <1>5, <2>1
<1> HIDE DEF k
<1>9. Rising(Message(s))
  BY <1>2, <1>3 DEF Rising
<1>10. \A b \in ToSet(Message(s)) : b[1] = s /\ b[2] > k(s)
  BY <1>1, <1>2, <1>3 DEF ToSet
<1>11. \A b \in Accepted : b[1] \in Senders /\ b[2] \in 1 .. k(b[1])
  BY <1>6
<1>12. Before(Accepted, ToSet(Message(s)))
  <2> SUFFICES ASSUME NEW b \in Accepted, NEW c \in ToSet(Message(s)), b[1] = c[1]
               PROVE  b[2] < c[2]
    BY DEF Before
  <2>1. b[2] \in 1 .. k(s) /\ c[2] > k(s)
    BY <1>10, <1>11
  <2>2. PICK i \in 1 .. MsgLen : c = <<s, k(s) + i>>
    BY <1>3 DEF ToSet
  <2>. QED
    BY <1>1, <1>2, <2>1, <2>2
<1>13. Accepted \subseteq Bytes
  BY <1>6, <1>8 DEF Bytes
<1>14. ASSUME sent' = [sent EXCEPT ![s] = @ + 1]
       PROVE  Accepted' = Accepted \cup ToSet(Message(s))
  <2>1. ToSet(Message(s)) = {s} \X (k(s) + 1 .. k(s) + MsgLen)
    <3>1. ASSUME NEW n \in k(s) + 1 .. k(s) + MsgLen
          PROVE  <<s, n>> \in ToSet(Message(s))
      <4>1. n - k(s) \in 1 .. MsgLen /\ k(s) + (n - k(s)) = n
        BY <1>1, <1>2
      <4>2. Message(s)[n - k(s)] = <<s, n>>
        BY <1>3, <4>1
      <4>. QED
        BY <1>3, <4>1, <4>2 DEF ToSet
    <3>2. ASSUME NEW i \in 1 .. MsgLen
          PROVE  k(s) + i \in k(s) + 1 .. k(s) + MsgLen
      BY <1>1, <1>2
    <3>3. ToSet(Message(s)) = {<<s, k(s) + i>> : i \in 1 .. MsgLen}
      BY <1>3 DEF ToSet
    <3>. QED
      BY <3>1, <3>2, <3>3
  <2>2. 1 .. k(s) + MsgLen = (1 .. k(s)) \cup (k(s) + 1 .. k(s) + MsgLen)
    BY <1>1, <1>2
  <2>. QED
    BY <1>6, <1>7, <1>14, <2>1, <2>2
<1>. QED
  BY <1>9, <1>10, <1>12, <1>13, <1>14

-----------------------------------------------------------------------------
(***************************************************************************)
(* sendInLoop, when bytes may leave after what is on the wire and in _out  *)
(* and before the sends that are queued.                                   *)
(***************************************************************************)
Ready(bytes, queue) ==
    /\ InOrder(wire, out, queue)
    /\ Rising(bytes)
    /\ Before(ToSet(wire), ToSet(bytes)) /\ Before(ToSet(out), ToSet(bytes))
    /\ \A i \in Sends(queue) : Before(ToSet(bytes), ToSet(queue[i].bytes))
    /\ gone \cap (ToSet(out) \cup ToSet(bytes) \cup Backlog(queue)) = {}
    /\ Completions(queue, ToSet(wire) \cup gone)

\* The bytes that left the queue.
Left == ToSet(wire) \cup ToSet(out) \cup gone

LEMMA SendKeepsOrder ==
    ASSUME TypeOK, NEW bytes \in Seq(Bytes), Len(bytes) = MsgLen,
           NEW queue \in Seq(Tasks), SendInLoop(bytes, queue), Ready(bytes, queue)
    PROVE  /\ Ordered' /\ GoneIsGone' /\ Completed'
           /\ Backlog(pending') = Backlog(queue)
           /\ Left \subseteq Left' /\ Left' \subseteq Left \cup ToSet(bytes)
           /\ crashed' = "no" => Left' = Left \cup ToSet(bytes)
<1>1. CASE Lost(bytes, queue)
  BY <1>1 DEF Lost, Ready, Ordered, GoneIsGone, Completed, Left
<1>2. CASE Buffered(bytes, queue)
  <2>1. /\ wire' = wire /\ gone' = gone /\ pending' = queue
        /\ Rising(out') /\ ToSet(out') = ToSet(out) \cup ToSet(bytes)
    BY <1>2, JoinBytes DEF Buffered, Ready, InOrder, TypeOK
  <2>2. Ordered'
    BY <2>1 DEF Ready, Ordered, InOrder, Before
  <2>. QED
    BY <2>1, <2>2 DEF Ready, GoneIsGone, Completed, Left
<1>3. ASSUME NEW n \in 1 .. Len(bytes), Written(bytes, queue, n)
      PROVE  /\ Ordered' /\ GoneIsGone' /\ Completed'
             /\ Backlog(pending') = Backlog(queue)
             /\ Left' = Left \cup ToSet(bytes)
  <2> DEFINE p == SubSeq(bytes, 1, n)
             r == SubSeq(bytes, n + 1, Len(bytes))
  <2>1. /\ p \in Seq(Bytes) /\ Rising(p) /\ r \in Seq(Bytes) /\ Rising(r)
        /\ Before(ToSet(p), ToSet(r)) /\ ToSet(bytes) = ToSet(p) \cup ToSet(r)
    BY CutBytes DEF Ready
  <2>2. out = <<>> /\ wire' = wire \o p /\ out' = r /\ gone' = gone
    BY <1>3 DEF Written
  <2> HIDE DEF p, r
  <2>3. Rising(wire') /\ ToSet(wire') = ToSet(wire) \cup ToSet(p)
    <3>1. Before(ToSet(wire), ToSet(p))
      BY <2>1 DEF Ready, Before
    <3>. QED
      BY <2>1, <2>2, <3>1, JoinBytes DEF Ready, InOrder, TypeOK
  <2>4. ToSet(out) = {}
    BY <2>2 DEF ToSet
  <2>5. InOrder(wire', out', queue)
    BY <2>1, <2>2, <2>3 DEF Ready, InOrder, Before
  <2>6. CASE pending' = queue
    BY <2>1, <2>2, <2>3, <2>4, <2>5, <2>6
       DEF Ready, Ordered, GoneIsGone, Completed, Completions, Left
  <2>7. CASE pending' = Append(queue, Task("complete", bytes)) /\ r = <<>>
    <3>1. ToSet(r) = {}
      BY <2>7 DEF ToSet
    <3>2. Completions(queue, ToSet(wire') \cup gone')
      BY <2>2, <2>3 DEF Ready, Completions
    <3>3. /\ Sends(pending') = Sends(queue)
          /\ \A i \in Sends(queue) : pending'[i] = queue[i]
          /\ Backlog(pending') = Backlog(queue)
          /\ Completions(pending', ToSet(wire') \cup gone')
      BY <2>1, <2>3, <2>7, <3>1, <3>2, CompletionQueued
    <3>4. Ordered'
      BY <2>5, <3>3 DEF Ordered, InOrder
    <3>. QED
      BY <2>1, <2>2, <2>3, <2>4, <3>1, <3>3, <3>4 DEF Ready, GoneIsGone, Completed, Left
  <2>8. CASE n < Len(bytes)
    BY <1>3, <2>6, <2>8 DEF Written
  <2>9. CASE n = Len(bytes)
    <3>1. r = <<>>
      BY <2>9, SubSeqEmpty DEF r
    <3>2. ~(n < Len(bytes))
      BY <2>9
    <3>3. pending' = Append(queue, Task("complete", bytes))
      BY <1>3, <3>2 DEF Written
    <3>. QED
      BY <2>7, <3>1, <3>3
  <2>. QED
    BY <2>8, <2>9
<1>4. CASE Dropped(bytes, queue)
  <2>1. /\ out = <<>> /\ wire' = wire /\ out' = out /\ gone' = gone \cup ToSet(bytes)
        /\ pending' = Append(queue, Task("complete", bytes))
    BY <1>4 DEF Dropped
  <2>2. Completions(queue, ToSet(wire') \cup gone')
    BY <2>1 DEF Ready, Completions
  <2>3. /\ Sends(pending') = Sends(queue)
        /\ \A i \in Sends(queue) : pending'[i] = queue[i]
        /\ Backlog(pending') = Backlog(queue)
        /\ Completions(pending', ToSet(wire') \cup gone')
    BY <2>1, <2>2, CompletionQueued
  <2>4. Ordered'
    BY <2>1, <2>3 DEF Ready, Ordered, InOrder
  <2>5. ToSet(bytes) \cap Backlog(queue) = {}
    <3>1. ToSet(bytes) \subseteq Bytes
      BY DEF ToSet
    <3>2. Before(ToSet(bytes), Backlog(queue))
      BY DEF Ready, Before, Backlog
    <3>. QED
      BY <3>1, <3>2, BeforeIsDisjoint
  <2>6. ToSet(out) = {}
    BY <2>1 DEF ToSet
  <2>. QED
    BY <2>1, <2>3, <2>4, <2>5, <2>6 DEF Ready, GoneIsGone, Completed, Left
<1>. QED
  BY <1>1, <1>2, <1>3, <1>4, SendCases

-----------------------------------------------------------------------------
(***************************************************************************)
(* The steps.                                                              *)
(***************************************************************************)
LEMMA NothingMoves ==
    ASSUME DataInv, UNCHANGED <<wire, out, pending, gone, sent, crashed>>
    PROVE  DataInv'
BY DEF DataInv, Ordered, OthersQueue, GoneIsGone, Completed, AllHeld, Held, Accepted

LEMMA QueueSendKeepsOrder ==
    ASSUME IndInv, DataInv, NEW t \in Threads, QueueSend(t)
    PROVE  DataInv'
<1> DEFINE bytes == Message(t)
<1>1. /\ TypeOK /\ t \in Senders /\ sent[t] < MaxSends
      /\ pending \in Seq(Tasks)
      /\ pending' = Append(pending, Task("send", bytes))
      /\ sent' = [sent EXCEPT ![t] = @ + 1]
      /\ UNCHANGED <<out, wire, gone, crashed>>
  BY DEF IndInv, TypeOK, Senders, SendsCounted, QueueSend, Accept
<1>2. bytes \in Seq(Bytes)
  BY <1>1, MessageProperties
<1>3. /\ Rising(bytes) /\ \A b \in ToSet(bytes) : b[1] = t
      /\ Before(Accepted, ToSet(bytes)) /\ Accepted \subseteq Bytes
      /\ Accepted' = Accepted \cup ToSet(bytes)
  BY <1>1, NextMessage
<1> HIDE DEF bytes
<1>4. /\ Sends(pending') = Sends(pending) \cup {Len(pending) + 1}
      /\ Sends(pending) \subseteq 1 .. Len(pending)
      /\ \A i \in Sends(pending) : pending'[i] = pending[i]
      /\ pending'[Len(pending) + 1].bytes = bytes
      /\ Backlog(pending') = Backlog(pending) \cup ToSet(bytes)
      /\ Completions(pending', ToSet(wire) \cup gone)
  BY <1>1, <1>2, SendQueued DEF DataInv, Completed
<1>5. /\ ToSet(wire) \subseteq Accepted /\ ToSet(out) \subseteq Accepted
      /\ gone \subseteq Accepted
      /\ \A i \in Sends(pending) : ToSet(pending[i].bytes) \subseteq Accepted
  BY DEF DataInv, AllHeld, Held, Backlog
<1>6. Ordered'
  <2>1. /\ Before(ToSet(wire), ToSet(bytes)) /\ Before(ToSet(out), ToSet(bytes))
        /\ \A i \in Sends(pending) : Before(ToSet(pending[i].bytes), ToSet(bytes))
    BY <1>3, <1>5 DEF Before
  <2>2. \A i, j \in Sends(pending') :
           i < j => Before(ToSet(pending'[i].bytes), ToSet(pending'[j].bytes))
    <3>1. SUFFICES ASSUME NEW i \in Sends(pending'), NEW j \in Sends(pending'), i < j
                   PROVE  Before(ToSet(pending'[i].bytes), ToSet(pending'[j].bytes))
      OBVIOUS
    <3>2. Len(pending) \in Nat
      BY <1>1
    <3>3. i \in Sends(pending)
      BY <1>4, <3>1, <3>2
    <3>4. CASE j \in Sends(pending)
      BY <1>4, <3>1, <3>3, <3>4 DEF DataInv, Ordered, InOrder
    <3>5. CASE j = Len(pending) + 1
      BY <1>4, <2>1, <3>3, <3>5
    <3>. QED
      BY <1>4, <3>4, <3>5
  <2>3. \A i \in Sends(pending') : i \in Sends(pending) \/ pending'[i].bytes = bytes
    BY <1>4
  <2>. QED
    BY <1>1, <1>3, <1>4, <2>1, <2>2, <2>3 DEF DataInv, Ordered, InOrder
<1>7. ToSet(bytes) \cap gone = {}
  BY <1>3, <1>5, BeforeIsDisjoint
<1>8. OthersQueue' /\ GoneIsGone' /\ Completed' /\ AllHeld'
  BY <1>1, <1>3, <1>4, <1>7 DEF DataInv, OthersQueue, GoneIsGone, Completed, AllHeld, Held
<1>. QED
  BY <1>6, <1>8 DEF DataInv

LEMMA WriteKeepsOrder ==
    ASSUME IndInv, DataInv, WriteOut, UNCHANGED <<gone, sent, crashed>>
    PROVE  DataInv'
<1>1. PICK n \in 1 .. Len(out) :
         /\ wire' = wire \o SubSeq(out, 1, n)
         /\ out' = SubSeq(out, n + 1, Len(out))
         /\ n = Len(out) => pending' = Append(pending, Task("complete", out))
         /\ n # Len(out) => pending' = pending
  BY DEF WriteOut
<1>2. /\ out \in Seq(Bytes) /\ wire \in Seq(Bytes) /\ pending \in Seq(Tasks)
      /\ InOrder(wire, out, pending)
  BY DEF IndInv, TypeOK, DataInv, Ordered
<1> DEFINE p == SubSeq(out, 1, n)
           r == SubSeq(out, n + 1, Len(out))
<1>3. /\ p \in Seq(Bytes) /\ Rising(p) /\ r \in Seq(Bytes) /\ Rising(r)
      /\ Before(ToSet(p), ToSet(r)) /\ ToSet(out) = ToSet(p) \cup ToSet(r)
  BY <1>2, CutBytes DEF InOrder
<1>4. n = Len(out) => r = <<>>
  BY <1>2, SubSeqEmpty
<1>5. wire' = wire \o p /\ out' = r
  BY <1>1
<1> HIDE DEF p, r
<1>6. Rising(wire') /\ ToSet(wire') = ToSet(wire) \cup ToSet(p)
  <2>1. Before(ToSet(wire), ToSet(p))
    BY <1>2, <1>3 DEF InOrder, Before
  <2>. QED
    BY <1>2, <1>3, <1>5, <2>1, JoinBytes DEF InOrder
<1>7. InOrder(wire', out', pending)
  BY <1>2, <1>3, <1>5, <1>6 DEF InOrder, Before
<1>8. Completions(pending, ToSet(wire') \cup gone)
  BY <1>6 DEF DataInv, Completed, Completions
<1>9. /\ Sends(pending') = Sends(pending)
      /\ \A i \in Sends(pending) : pending'[i] = pending[i]
      /\ Backlog(pending') = Backlog(pending)
      /\ Completions(pending', ToSet(wire') \cup gone)
  <2>1. CASE n # Len(out)
    BY <1>1, <1>8, <2>1
  <2>2. CASE n = Len(out)
    <3>1. ToSet(r) = {}
      BY <1>4, <2>2 DEF ToSet
    <3>2. ToSet(out) \subseteq ToSet(wire') \cup gone
      BY <1>3, <1>6, <3>1
    <3>. QED
      BY <1>1, <1>2, <1>8, <2>2, <3>2, CompletionQueued
  <2>. QED
    BY <2>1, <2>2
<1>10. Ordered'
  BY <1>7, <1>9 DEF Ordered, InOrder
<1>11. OthersQueue' /\ GoneIsGone' /\ Completed'
  BY <1>3, <1>5, <1>9 DEF DataInv, OthersQueue, GoneIsGone, Completed
<1>12. Held' = Held /\ Accepted' = Accepted
  BY <1>3, <1>5, <1>6, <1>9 DEF Held, Accepted
<1>. QED
  BY <1>10, <1>11, <1>12 DEF DataInv, AllHeld

LEMMA RunTaskKeepsOrder ==
    ASSUME IndInv, DataInv, RunTask
    PROVE  DataInv'
<1> DEFINE bytes == Head(pending).bytes
           queue == Tail(pending)
<1>1. /\ TypeOK /\ pending # <<>> /\ pending \in Seq(Tasks) /\ UNCHANGED sent
      /\ crashed = "no"
      /\ Completions(pending, ToSet(wire) \cup gone)
      /\ InOrder(wire, out, pending)
  BY DEF IndInv, TypeOK, DataInv, Ordered, Completed, RunTask, Idle
<1>2. /\ Head(pending) \in Tasks /\ queue \in Seq(Tasks)
      /\ Head(pending) = pending[1] /\ 1 \in DOMAIN pending
      /\ \A i \in Sends(queue) :
            i \in Nat /\ i + 1 \in Sends(pending) /\ i + 1 > 1 /\ queue[i] = pending[i + 1]
      /\ Backlog(pending) = Backlog(queue)
                               \cup (IF Head(pending).kind = "send" THEN ToSet(bytes) ELSE {})
      /\ Completions(queue, ToSet(wire) \cup gone)
  BY <1>1, TaskTaken
<1>3. bytes \in Seq(Bytes)
  BY <1>2 DEF Tasks
<1> HIDE DEF queue
<1>4. InOrder(wire, out, queue)
  <2>1. \A i, j \in Sends(queue) : i < j => i + 1 < j + 1
    BY <1>2
  <2>. QED
    BY <1>1, <1>2, <2>1 DEF InOrder
<1>5. Accepted' = Accepted
  BY <1>1 DEF Accepted
<1>6. CASE Head(pending).kind = "send"
  <2>1. SendInLoop(bytes, queue)
    BY <1>6 DEF RunTask, queue
  <2>2. Len(bytes) = MsgLen
    BY <1>2, <1>6 DEF IndInv, WholeMessages
  <2>3. 1 \in Sends(pending) /\ Backlog(pending) = Backlog(queue) \cup ToSet(bytes)
    BY <1>2, <1>6 DEF Sends
  <2>4. Ready(bytes, queue)
    <3>1. Rising(bytes) /\ Before(ToSet(wire), ToSet(bytes)) /\ Before(ToSet(out), ToSet(bytes))
      BY <1>1, <1>2, <2>3 DEF InOrder
    <3>2. \A i \in Sends(queue) : Before(ToSet(bytes), ToSet(queue[i].bytes))
      BY <1>1, <1>2, <2>3 DEF InOrder
    <3>3. gone \cap (ToSet(out) \cup ToSet(bytes) \cup Backlog(queue)) = {}
      BY <2>3 DEF DataInv, GoneIsGone
    <3>. QED
      BY <1>2, <1>4, <3>1, <3>2, <3>3 DEF Ready
  <2>5. /\ Ordered' /\ GoneIsGone' /\ Completed'
        /\ Backlog(pending') = Backlog(queue)
        /\ Left \subseteq Left' /\ Left' \subseteq Left \cup ToSet(bytes)
        /\ crashed' = "no" => Left' = Left \cup ToSet(bytes)
    BY <1>1, <1>2, <1>3, <2>1, <2>2, <2>4, SendKeepsOrder
  <2>6. OthersQueue'
    BY <2>3, <2>5 DEF DataInv, OthersQueue
  <2>7. /\ Held' \subseteq Held
        /\ crashed' = "no" => Held' = Held
    BY <2>3, <2>5 DEF Held, Left
  <2>8. AllHeld'
    BY <1>1, <1>5, <2>7 DEF DataInv, AllHeld
  <2>. QED
    BY <2>5, <2>6, <2>8 DEF DataInv
<1>7. CASE Head(pending).kind = "complete"
  <2>1. pending' = queue /\ UNCHANGED <<out, wire, gone, crashed>>
    BY <1>7 DEF RunTask, queue
  <2>2. Backlog(pending') = Backlog(pending)
    BY <1>2, <1>7, <2>1
  <2>3. Held' = Held
    BY <2>1, <2>2 DEF Held
  <2>. QED
    BY <1>2, <1>4, <1>5, <2>1, <2>2, <2>3
       DEF DataInv, Ordered, OthersQueue, GoneIsGone, Completed, AllHeld
<1>. QED
  BY <1>2, <1>6, <1>7 DEF Tasks

LEMMA UserSendsKeepsOrder ==
    ASSUME IndInv, DataInv, UserSends
    PROVE  DataInv'
<1> DEFINE bytes == Message(Loop)
<1>1. /\ TypeOK /\ Loop \in Senders /\ sent[Loop] < MaxSends /\ pending \in Seq(Tasks)
      /\ crashed = "no"
      /\ SendInLoop(bytes, pending)
      /\ sent' = [sent EXCEPT ![Loop] = @ + 1]
      /\ Loop \notin Threads
  BY ConnAssumption DEF IndInv, TypeOK, Senders, UserSends, Accept
<1>2. bytes \in Seq(Bytes) /\ Len(bytes) = MsgLen
  BY <1>1, MessageProperties
<1>3. /\ Rising(bytes) /\ \A b \in ToSet(bytes) : b[1] = Loop
      /\ Before(Accepted, ToSet(bytes)) /\ Accepted \subseteq Bytes
      /\ Accepted' = Accepted \cup ToSet(bytes)
  BY <1>1, NextMessage
<1> HIDE DEF bytes
<1>4. /\ ToSet(wire) \subseteq Accepted /\ ToSet(out) \subseteq Accepted
      /\ gone \subseteq Accepted
  BY DEF DataInv, AllHeld, Held
<1>5. Ready(bytes, pending)
  <2>1. Before(ToSet(wire), ToSet(bytes)) /\ Before(ToSet(out), ToSet(bytes))
    BY <1>3, <1>4 DEF Before
  <2>2. \A i \in Sends(pending) : Before(ToSet(bytes), ToSet(pending[i].bytes))
    <3>1. \A i \in Sends(pending) : \A b \in ToSet(pending[i].bytes) : b[1] \in Threads
      BY DEF DataInv, OthersQueue, Backlog
    <3>. QED
      BY <1>1, <1>3, <3>1 DEF Before
  <2>3. ToSet(bytes) \cap gone = {}
    BY <1>3, <1>4, BeforeIsDisjoint
  <2>. QED
    BY <1>3, <2>1, <2>2, <2>3 DEF DataInv, Ordered, GoneIsGone, Completed, Ready
<1>6. /\ Ordered' /\ GoneIsGone' /\ Completed'
      /\ Backlog(pending') = Backlog(pending)
      /\ Left \subseteq Left' /\ Left' \subseteq Left \cup ToSet(bytes)
      /\ crashed' = "no" => Left' = Left \cup ToSet(bytes)
  BY <1>1, <1>2, <1>5, SendKeepsOrder
<1>7. OthersQueue'
  BY <1>6 DEF DataInv, OthersQueue
<1>8. AllHeld'
  BY <1>1, <1>3, <1>6 DEF DataInv, AllHeld, Held, Left
<1>. QED
  BY <1>6, <1>7, <1>8 DEF DataInv

LEMMA UserTakesOutKeepsOrder ==
    ASSUME IndInv, DataInv, UserTakesOut
    PROVE  DataInv'
<1>1. UNCHANGED <<wire, pending, sent>> /\ crashed = "no"
  BY DEF UserTakesOut
<1>2. CASE crashed' = "getBufferOut" /\ UNCHANGED <<out, gone>>
  BY <1>1, <1>2 DEF DataInv, Ordered, OthersQueue, GoneIsGone, Completed, AllHeld, Held,
     Accepted
<1>3. ASSUME NEW n \in 1 .. Len(out), out' = SubSeq(out, n + 1, Len(out)),
             gone' = gone \cup ToSet(SubSeq(out, 1, n)), UNCHANGED crashed
      PROVE  DataInv'
  <2> DEFINE p == SubSeq(out, 1, n)
             r == SubSeq(out, n + 1, Len(out))
  <2>1. /\ out \in Seq(Bytes) /\ wire \in Seq(Bytes) /\ InOrder(wire, out, pending)
    BY DEF IndInv, TypeOK, DataInv, Ordered
  <2>2. /\ p \in Seq(Bytes) /\ Rising(r)
        /\ Before(ToSet(p), ToSet(r)) /\ ToSet(out) = ToSet(p) \cup ToSet(r)
    BY <2>1, CutBytes DEF InOrder
  <2>3. out' = r /\ gone' = gone \cup ToSet(p)
    BY <1>3
  <2> HIDE DEF p, r
  <2>4. ToSet(p) \subseteq Bytes
    BY <2>2 DEF ToSet
  <2>5. Ordered'
    BY <1>1, <2>1, <2>2, <2>3 DEF Ordered, InOrder, Before
  <2>6. ToSet(p) \cap ToSet(r) = {}
    BY <2>2, <2>4, BeforeIsDisjoint
  <2>7. ToSet(p) \cap Backlog(pending) = {}
    <3>1. Before(ToSet(p), Backlog(pending))
      BY <2>1, <2>2 DEF InOrder, Before, Backlog
    <3>. QED
      BY <2>4, <3>1, BeforeIsDisjoint
  <2>8. OthersQueue' /\ GoneIsGone'
    BY <1>1, <2>2, <2>3, <2>6, <2>7 DEF DataInv, OthersQueue, GoneIsGone
  <2>9. Completed'
    BY <1>1, <2>3 DEF DataInv, Completed, Completions
  <2>10. Held' = Held /\ Accepted' = Accepted
    BY <1>1, <2>2, <2>3 DEF Held, Accepted
  <2>. QED
    BY <1>3, <2>5, <2>8, <2>9, <2>10 DEF DataInv, AllHeld
<1>. QED
  BY <1>2, <1>3 DEF UserTakesOut

LEMMA InitData == Init => DataInv
<1> SUFFICES ASSUME Init
             PROVE  DataInv
  OBVIOUS
<1>1. wire = <<>> /\ out = <<>> /\ pending = <<>> /\ gone = {} /\ crashed = "no"
  BY DEF Init
<1>2. ToSet(wire) = {} /\ ToSet(out) = {} /\ DOMAIN wire = {} /\ DOMAIN out = {}
  BY <1>1 DEF ToSet
<1>3. DOMAIN pending = {} /\ Sends(pending) = {} /\ Backlog(pending) = {}
  BY <1>1 DEF Sends, Backlog
<1>4. Accepted = {}
  <2>1. \A s \in Senders : sent[s] = 0
    BY DEF Init
  <2>2. \A s \in Senders : 1 .. sent[s] * MsgLen = {}
    BY <2>1, ConnAssumption
  <2>. QED
    BY <2>2 DEF Accepted
<1>5. Ordered
  BY <1>2, <1>3 DEF Ordered, InOrder, Rising, Before
<1>. QED
  BY <1>1, <1>2, <1>3, <1>4, <1>5
     DEF DataInv, OthersQueue, GoneIsGone, Completed, Completions, AllHeld, Held

LEMMA NextData == IndInv /\ DataInv /\ [Next]_vars => DataInv'
<1> SUFFICES ASSUME IndInv, DataInv, [Next]_vars
             PROVE  DataInv'
  OBVIOUS
<1>1. CASE Fill \/ Register \/ ClearClosed \/ Connect
  BY <1>1, NothingMoves DEF Fill, Register, ClearClosed, Connect
<1>2. CASE PeerCloses \/ Poll \/ ReadCallBack \/ UserReturns
  BY <1>2, NothingMoves DEF PeerCloses, Poll, ReadCallBack, UserReturns
<1>3. ASSUME NEW t \in Threads, BeginSend(t)
      PROVE  DataInv'
  BY <1>3, NothingMoves DEF BeginSend
<1>4. ASSUME NEW t \in Threads, QueueSend(t)
      PROVE  DataInv'
  BY <1>4, QueueSendKeepsOrder
<1>5. CASE WriteCallBack
  <2>1. CASE WriteOut
    BY <1>5, <2>1, WriteKeepsOrder DEF WriteCallBack
  <2>2. CASE UNCHANGED <<out, pending, wire>>
    BY <1>5, <2>2, NothingMoves DEF WriteCallBack
  <2>. QED
    BY <1>5, <2>1, <2>2 DEF WriteCallBack
<1>6. CASE RunTask
  BY <1>6, RunTaskKeepsOrder
<1>7. CASE UserSends
  BY <1>7, UserSendsKeepsOrder
<1>8. CASE UserTakesOut
  BY <1>8, UserTakesOutKeepsOrder
<1>9. CASE UNCHANGED vars
  BY <1>9, NothingMoves DEF vars
<1>. QED
  BY <1>1, <1>2, <1>3, <1>4, <1>5, <1>6, <1>7, <1>8, <1>9 DEF Next

LEMMA AlwaysData == Spec => [](IndInv /\ DataInv)
<1>1. Init => DataInv
  BY InitData
<1>2. IndInv /\ DataInv /\ [Next]_vars => DataInv'
  BY NextData
<1>. QED
  BY <1>1, <1>2, AlwaysInv, PTL DEF Spec

-----------------------------------------------------------------------------
\* The stretches are the wire, _out, and the sends of the queue.
LEMMA StretchesAre ==
    ASSUME TypeOK
    PROVE  /\ DOMAIN Stretches = 1 .. Len(pending) + 2 /\ Len(pending) \in Nat
           /\ DOMAIN pending = 1 .. Len(pending)
           /\ Stretches[1] = wire /\ Stretches[2] = out
           /\ \A i \in DOMAIN pending : Stretches[i + 2] = Queued(i)
           /\ \A a \in DOMAIN Stretches \ {1, 2} :
                 a - 2 \in DOMAIN pending /\ Stretches[a] = Queued(a - 2)
<1>1. /\ wire \in Seq(Bytes) /\ out \in Seq(Bytes) /\ pending \in Seq(Tasks)
      /\ Len(pending) \in Nat /\ DOMAIN pending = 1 .. Len(pending)
  BY DEF TypeOK
<1> DEFINE rest == [i \in DOMAIN pending |-> Queued(i)]
           first == <<wire, out>>
<1>2. first \in Seq(Seq(Bytes)) /\ Len(first) = 2 /\ first[1] = wire /\ first[2] = out
  BY <1>1
<1>3. rest \in Seq(Seq(Bytes)) /\ Len(rest) = Len(pending)
  <2>1. ASSUME NEW i \in DOMAIN pending
        PROVE  Queued(i) \in Seq(Bytes)
    <3>1. pending[i] \in Tasks
      BY <1>1
    <3>2. pending[i].bytes \in Seq(Bytes)
      BY <3>1 DEF Tasks
    <3>. QED
      BY <3>2 DEF Queued
  <2>. QED
    BY <1>1, <2>1
<1>4. \A i \in DOMAIN pending : rest[i] = Queued(i)
  OBVIOUS
<1>5. Stretches = first \o rest
  BY DEF Stretches
<1> HIDE DEF first, rest
<1>6. /\ Len(first \o rest) = 2 + Len(pending) /\ first \o rest \in Seq(Seq(Bytes))
      /\ \A a \in 1 .. 2 + Len(pending) :
            (first \o rest)[a] = IF a <= 2 THEN first[a] ELSE rest[a - 2]
  <2>1. /\ first \o rest \in Seq(Seq(Bytes)) /\ Len(first \o rest) = Len(first) + Len(rest)
        /\ \A a \in 1 .. Len(first) + Len(rest) :
              (first \o rest)[a] = IF a <= Len(first) THEN first[a] ELSE rest[a - Len(first)]
    BY <1>2, <1>3, ConcatProperties, Zenon
  <2>. QED
    BY <1>2, <1>3, <2>1
<1>7. DOMAIN Stretches = 1 .. Len(pending) + 2
  BY <1>1, <1>5, <1>6
<1>8. Stretches[1] = wire /\ Stretches[2] = out
  BY <1>1, <1>2, <1>5, <1>6
<1>9. ASSUME NEW a \in DOMAIN Stretches \ {1, 2}
      PROVE  a - 2 \in DOMAIN pending /\ Stretches[a] = Queued(a - 2)
  <2>1. a \in 1 .. 2 + Len(pending) /\ ~(a <= 2) /\ a - 2 \in 1 .. Len(pending)
    BY <1>1, <1>7
  <2>. QED
    BY <1>1, <1>4, <1>5, <1>6, <2>1
<1>10. ASSUME NEW i \in DOMAIN pending, NEW a, a = i + 2
       PROVE  Stretches[a] = Queued(i)
  <2>1. a \in DOMAIN Stretches \ {1, 2} /\ a - 2 = i
    BY <1>1, <1>7, <1>10
  <2>. QED
    BY <1>9, <2>1
<1>. QED
  BY <1>1, <1>7, <1>8, <1>9, <1>10

\* TcpConn::send, sendInLoop and writeCallBack: the bytes of each thread go to the
\* kernel in the order in which it sent them, and none twice.
THEOREM InOrderOnTheWire == Spec => []SentInOrder
<1>1. IndInv /\ DataInv => SentInOrder
  <2> SUFFICES ASSUME IndInv, DataInv,
                      NEW a \in DOMAIN Stretches, NEW b \in DOMAIN Stretches,
                      NEW i \in DOMAIN Stretches[a], NEW j \in DOMAIN Stretches[b],
                      a < b \/ (a = b /\ i < j),
                      Stretches[a][i][1] = Stretches[b][j][1]
               PROVE  Stretches[a][i][2] < Stretches[b][j][2]
    BY DEF SentInOrder
  <2>1. /\ DOMAIN Stretches = 1 .. Len(pending) + 2 /\ Len(pending) \in Nat
        /\ DOMAIN pending = 1 .. Len(pending)
        /\ Stretches[1] = wire /\ Stretches[2] = out
        /\ \A c \in DOMAIN Stretches \ {1, 2} :
              c - 2 \in DOMAIN pending /\ Stretches[c] = Queued(c - 2)
    BY StretchesAre DEF IndInv
  <2>2. ASSUME NEW c \in DOMAIN Stretches \ {1, 2}, DOMAIN Stretches[c] # {}
        PROVE  c - 2 \in Sends(pending) /\ Stretches[c] = pending[c - 2].bytes
    BY <2>1, <2>2 DEF Queued, Sends
  <2>3. InOrder(wire, out, pending)
    BY DEF DataInv, Ordered
  <2>4. Stretches[a][i] \in ToSet(Stretches[a]) /\ Stretches[b][j] \in ToSet(Stretches[b])
    BY DEF ToSet
  <2> HIDE DEF Stretches
  <2>5. CASE a = b
    <3>1. Rising(Stretches[a])
      BY <2>1, <2>2, <2>3 DEF InOrder
    <3>2. i < j
      BY <2>1, <2>5
    <3>. QED
      BY <2>5, <3>1, <3>2 DEF Rising
  <2>6. CASE a < b
    <3>1. Before(ToSet(Stretches[a]), ToSet(Stretches[b]))
      <4>1. CASE a = 1 /\ b = 2
        BY <2>1, <2>3, <4>1 DEF InOrder
      <4>2. CASE a = 1 /\ b \notin {1, 2}
        BY <2>1, <2>2, <2>3, <4>2 DEF InOrder
      <4>3. CASE a = 2 /\ b \notin {1, 2}
        BY <2>1, <2>2, <2>3, <4>3 DEF InOrder
      <4>4. CASE a \notin {1, 2} /\ b \notin {1, 2}
        <5>1. a - 2 < b - 2
          BY <2>1, <2>6
        <5>. QED
          BY <2>2, <2>3, <4>4, <5>1 DEF InOrder
      <4>5. a \in Nat /\ b \in Nat /\ a >= 1 /\ b > 1 /\ (a # 1 => b > 2)
        BY <2>1, <2>6
      <4>. QED
        BY <4>1, <4>2, <4>3, <4>4, <4>5
    <3>. QED
      BY <2>4, <3>1 DEF Before
  <2>. QED
    BY <2>5, <2>6
<1>. QED
  BY <1>1, AlwaysData, PTL

\* The union of the stretches is what is held, without what is gone.
LEMMA StretchesHold ==
    ASSUME TypeOK
    PROVE  UNION {ToSet(Stretches[a]) : a \in DOMAIN Stretches} =
              ToSet(wire) \cup ToSet(out) \cup Backlog(pending)
<1>1. /\ DOMAIN Stretches = 1 .. Len(pending) + 2 /\ Len(pending) \in Nat
      /\ DOMAIN pending = 1 .. Len(pending)
      /\ Stretches[1] = wire /\ Stretches[2] = out
      /\ \A i \in DOMAIN pending : Stretches[i + 2] = Queued(i)
      /\ \A c \in DOMAIN Stretches \ {1, 2} :
            c - 2 \in DOMAIN pending /\ Stretches[c] = Queued(c - 2)
  BY StretchesAre
<1> HIDE DEF Stretches
<1>2. \A i \in DOMAIN pending : ToSet(Queued(i)) \subseteq Backlog(pending)
  BY DEF Queued, Backlog, Sends, ToSet
<1>3. \A i \in Sends(pending) : i \in DOMAIN pending /\ Queued(i) = pending[i].bytes
  BY DEF Queued, Sends
<1>4. 1 \in DOMAIN Stretches /\ 2 \in DOMAIN Stretches
      /\ \A i \in DOMAIN pending : i + 2 \in DOMAIN Stretches
  BY <1>1
<1>5. Backlog(pending) \subseteq UNION {ToSet(Stretches[a]) : a \in DOMAIN Stretches}
  BY <1>1, <1>3, <1>4 DEF Backlog
<1>6. ASSUME NEW a \in DOMAIN Stretches
      PROVE  ToSet(Stretches[a]) \subseteq ToSet(wire) \cup ToSet(out) \cup Backlog(pending)
  BY <1>1, <1>2
<1>. QED
  BY <1>1, <1>4, <1>5, <1>6

\* TcpConn::send, sendInLoop and writeCallBack: a byte that was accepted is with
\* the kernel, buffered, queued, or gone with a failed write or to user code.
THEOREM NoByteVanishes == Spec => []NothingVanishes
<1>1. IndInv /\ DataInv => NothingVanishes
  <2> SUFFICES ASSUME IndInv, DataInv, crashed = "no"
               PROVE  Accepted = (UNION {ToSet(Stretches[a]) : a \in DOMAIN Stretches}) \cup gone
    BY DEF NothingVanishes
  <2>1. Accepted = Held
    BY DEF DataInv, AllHeld
  <2>2. UNION {ToSet(Stretches[a]) : a \in DOMAIN Stretches} =
           ToSet(wire) \cup ToSet(out) \cup Backlog(pending)
    BY StretchesHold DEF IndInv
  <2>3. Held = ToSet(wire) \cup ToSet(out) \cup Backlog(pending) \cup gone
    BY DEF Held
  <2>. QED
    BY <2>1, <2>2, <2>3, Zenon
<1>. QED
  BY <1>1, AlwaysData, PTL

\* sendInLoop and writeCallBack queue _complete_callback only for bytes of which
\* none is buffered or queued any more, a message's or a drained buffer's; bytes
\* of other messages may be.
THEOREM CompletedIsGone == Spec => []CompleteMeansGone
<1>1. IndInv /\ DataInv => CompleteMeansGone
  <2> SUFFICES ASSUME IndInv, DataInv,
                      NEW i \in DOMAIN pending, pending[i].kind = "complete",
                      NEW a \in DOMAIN Stretches \ {1}
               PROVE  ToSet(pending[i].bytes) \cap ToSet(Stretches[a]) = {}
    BY DEF CompleteMeansGone
  <2>1. ToSet(pending[i].bytes) \subseteq ToSet(wire) \cup gone
    BY DEF DataInv, Completed, Completions
  <2>2. /\ Stretches[2] = out
        /\ \A c \in DOMAIN Stretches \ {1, 2} :
              c - 2 \in DOMAIN pending /\ Stretches[c] = Queued(c - 2)
    BY StretchesAre DEF IndInv
  <2> HIDE DEF Stretches
  <2>3. \A k \in DOMAIN pending : ToSet(Queued(k)) \subseteq Backlog(pending)
    BY DEF Queued, Backlog, Sends, ToSet
  <2>4. ToSet(Stretches[a]) \subseteq ToSet(out) \cup Backlog(pending)
    BY <2>2, <2>3
  <2>5. ToSet(wire) \cap (ToSet(out) \cup Backlog(pending)) = {}
    <3>1. ToSet(wire) \subseteq Bytes
      BY DEF IndInv, TypeOK, ToSet
    <3>2. Before(ToSet(wire), ToSet(out) \cup Backlog(pending))
      BY DEF DataInv, Ordered, InOrder, Before, Backlog
    <3>. QED
      BY <3>1, <3>2, BeforeIsDisjoint
  <2>. QED
    BY <2>1, <2>4, <2>5 DEF DataInv, GoneIsGone
<1>. QED
  BY <1>1, AlwaysData, PTL
=============================================================================
