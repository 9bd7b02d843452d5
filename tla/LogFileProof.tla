---------------------------- MODULE LogFileProof ----------------------------
(***************************************************************************)
(* Proofs about LogFile, for any limits, intervals, records and clocks:    *)
(* what append() reports as written is in the file, whole, once and in one *)
(* piece, and neither a new day nor a late flush goes unnoticed for more   *)
(* than the appends that _count lets pass.                                 *)
(***************************************************************************)
EXTENDS LogFile, SequenceTheorems, FiniteSetTheorems, TLAPS

Bytes == (1 .. MaxRecords) \X (1 .. MaxLen)

(***************************************************************************)
(* The inductive invariant, in three parts.                                *)
(*                                                                         *)
(* The record being written: its bytes so far are the file's last ones.    *)
(***************************************************************************)
Writing == pc \in {"first", "retry"}

OneAtATime ==
    /\ pc # "idle" => record > 0
    /\ pc = "first" => curwritten = 0
    /\ \A i \in DOMAIN bytes : bytes[i][1] <= record
    /\ Writing =>
         \E s \in 0 .. Len(bytes) :
            /\ Len(bytes) = s + curwritten
            /\ \A i \in 1 .. s : bytes[i][1] < record
            /\ \A i \in 1 .. curwritten : \A j : j = s + i => bytes[j] = <<record, i>>

(***************************************************************************)
(* The records written: each is a run of bytes, and none of its bytes is   *)
(* elsewhere.                                                              *)
(***************************************************************************)
IsRun(r, l) ==
    \E s \in 0 .. Len(bytes) :
        /\ s + l <= Len(bytes)
        /\ \A i \in 1 .. l : \A j : j = s + i => bytes[j] = <<r, i>>
        /\ \A i \in DOMAIN bytes : bytes[i][1] = r => i \in s + 1 .. s + l

OfAccepted == {i \in DOMAIN bytes : \E a \in accepted : bytes[i][1] = a[1]}

AcceptedAreRuns ==
    /\ \A a \in accepted :
          a[1] <= record /\ (Writing => a[1] < record) /\ IsRun(a[1], a[2])
    /\ writtenBytes = Cardinality(OfAccepted)

(***************************************************************************)
(* The clock, until it is set back: nothing is later than now, a byte that *)
(* is not flushed was written after the last flush, and the appends that   *)
(* ended overdue are counted by _count, or the file is about to be rolled. *)
(***************************************************************************)
InTime ==
    jumps = 0 =>
        /\ lastRoll <= lastFlush /\ lastFlush <= now
        /\ oldest # Never => lastFlush <= oldest /\ oldest <= now
        /\ pc # "roll" => overdue <= count
        /\ pc = "roll" => overdue = 0 \/ lastRoll < now

IndInv == TypeOK /\ OneAtATime /\ AcceptedAreRuns /\ InTime

-----------------------------------------------------------------------------
(* Lemmas about the operators. *)

\* Whole days fit into a time a natural number of times.
LEMMA PeriodIsTime ==
    ASSUME NEW t \in Nat
    PROVE  Period(t) \in Nat
<1> DEFINE q == t \div Day
           r == t % Day
<1>1. Day \in Nat /\ Day > 0
  BY LogFileAssumption
<1>2. q \in Int /\ r \in 0 .. Day - 1 /\ t = Day * q + r
  BY <1>1
<1> HIDE DEF q, r
<1>3. q >= 0
  <2>1. SUFFICES ASSUME q <= -1
                 PROVE  FALSE
    BY <1>2
  <2>2. Day * (q + 1) <= 0
    BY <1>1, <1>2, <2>1
  <2>3. Day * (q + 1) = Day * q + Day
    BY <1>1, <1>2
  <2>. QED
    BY <1>1, <1>2, <2>2, <2>3
<1>4. q * Day \in Nat
  BY <1>1, <1>2, <1>3
<1>. QED
  BY <1>4 DEF Period, q

\* A write adds the next bytes of the record to the file, if any.
LEMMA WriteAdds ==
    ASSUME TypeOK, record > 0, NEW k, Write(k)
    PROVE  /\ k \in Nat /\ curwritten + k \in 0 .. len
           /\ bytes' \in Seq(Bytes)
           /\ Len(bytes) \in Nat /\ Len(bytes') = Len(bytes) + k
           /\ \A i \in 1 .. Len(bytes) : bytes'[i] = bytes[i]
           /\ \A i \in 1 .. k : \A j :
                 j = Len(bytes) + i => bytes'[j] = <<record, curwritten + i>>
           /\ oldest' = oldest \/ (oldest = Never /\ oldest' = now)
<1> DEFINE more == [i \in 1 .. k |-> <<record, curwritten + i>>]
<1>1. /\ record \in 1 .. MaxRecords /\ len \in 0 .. MaxLen /\ curwritten \in 0 .. len
      /\ bytes \in Seq(Bytes)
  BY LogFileAssumption DEF TypeOK, Bytes
<1>2. k \in Nat /\ curwritten + k \in 0 .. len
  BY <1>1, LogFileAssumption DEF Write
<1>3. /\ more \in Seq(Bytes) /\ Len(more) = k
      /\ \A i \in 1 .. k : more[i] = <<record, curwritten + i>>
  <2>1. ASSUME NEW i \in 1 .. k
        PROVE  <<record, curwritten + i>> \in Bytes
    <3>1. curwritten + i \in 1 .. MaxLen
      BY <1>1, <1>2, LogFileAssumption
    <3>. QED
      BY <1>1, <3>1 DEF Bytes
  <2>2. more \in [1 .. k -> Bytes]
    BY <2>1
  <2>. QED
    BY <1>2, <2>2, LenProperties, SeqDef
<1>4. bytes' = bytes \o more
  BY DEF Write
<1> HIDE DEF more
<1>5. /\ bytes \o more \in Seq(Bytes)
      /\ Len(bytes \o more) = Len(bytes) + Len(more)
      /\ \A i \in 1 .. Len(bytes) + Len(more) :
            (bytes \o more)[i] = IF i <= Len(bytes) THEN bytes[i] ELSE more[i - Len(bytes)]
  BY <1>1, <1>3, ConcatProperties
<1>6. Len(bytes) \in Nat
  BY <1>1
<1>7. bytes' \in Seq(Bytes) /\ Len(bytes') = Len(bytes) + k
  BY <1>3, <1>4, <1>5
<1>8. ASSUME NEW i \in 1 .. Len(bytes)
      PROVE  bytes'[i] = bytes[i]
  <2>1. i \in 1 .. Len(bytes) + Len(more) /\ i <= Len(bytes)
    BY <1>2, <1>3, <1>6
  <2>. QED
    BY <1>4, <1>5, <2>1
<1>9. ASSUME NEW i \in 1 .. k, NEW j, j = Len(bytes) + i
      PROVE  bytes'[j] = <<record, curwritten + i>>
  <2>1. /\ j \in 1 .. Len(bytes) + Len(more) /\ ~(j <= Len(bytes))
        /\ j - Len(bytes) = i
    BY <1>2, <1>3, <1>6, <1>9
  <2>. QED
    BY <1>3, <1>4, <1>5, <2>1
<1>10. oldest' = oldest \/ (oldest = Never /\ oldest' = now)
  BY DEF Write
<1>. QED
  BY <1>2, <1>6, <1>7, <1>8, <1>9, <1>10

\* How a write of AppendFile::append can end: the record is complete, there is
\* more to write, or append gives up.
LEMMA WriteEnds ==
    ASSUME TypeOK, OneAtATime, FirstWrite \/ Retry
    PROVE  /\ Writing /\ record > 0
           /\ UNCHANGED <<world, startOfPeriod, lastRoll, lastFlush, count, record, len,
                          overdue>>
           /\ \E k : /\ Write(k)
                     /\ \/ /\ curwritten' = curwritten + k /\ curwritten' = len
                           /\ Complete
                        \/ /\ curwritten' = curwritten + k /\ curwritten' <= len
                           /\ pc' = "retry" /\ UNCHANGED <<writtenBytes, accepted>>
                        \/ /\ pc' = "appended"
                           /\ UNCHANGED <<curwritten, writtenBytes, accepted>>
<1>1. Writing /\ record > 0
  BY DEF Writing, OneAtATime, FirstWrite, Retry
<1>2. len \in Nat /\ curwritten \in Nat
  BY LogFileAssumption DEF TypeOK
<1>3. CASE FirstWrite
  <2>1. curwritten = 0
    BY <1>3 DEF FirstWrite, OneAtATime
  <2>2. PICK k \in 0 .. len :
           /\ Write(k)
           /\ curwritten' = k
           /\ \/ k = len /\ Complete
              \/ k < len /\ pc' = "retry" /\ UNCHANGED <<writtenBytes, accepted>>
    BY <1>3 DEF FirstWrite
  <2>3. curwritten' = curwritten + k
    BY <1>2, <2>1, <2>2
  <2>4. k = len \/ k <= len
    BY <1>2
  <2>. QED
    BY <1>1, <1>3, <2>2, <2>3, <2>4 DEF FirstWrite
<1>4. CASE Retry
  <2>1. PICK k \in 0 .. (len - curwritten) :
           /\ Write(k)
           /\ \/ /\ curwritten = 0
                 /\ pc' = "appended"
                 /\ UNCHANGED <<curwritten, writtenBytes, accepted>>
              \/ /\ curwritten > 0
                 /\ curwritten' = curwritten + k
                 /\ \/ curwritten' = len /\ Complete
                    \/ curwritten' < len /\ UNCHANGED <<pc, writtenBytes, accepted>>
    BY <1>4 DEF Retry
  <2>2. pc = "retry"
    BY <1>4 DEF Retry
  <2>3. curwritten + k <= len
    BY <1>2
  <2>. QED
    BY <1>1, <1>4, <2>1, <2>2, <2>3 DEF Retry
<1>. QED
  BY <1>3, <1>4

\* What is between two places, counted.
LEMMA RunLength ==
    ASSUME NEW s \in Nat, NEW l \in Nat
    PROVE  IsFiniteSet(s + 1 .. s + l) /\ Cardinality(s + 1 .. s + l) = l
<1>1. s + 1 \in Int /\ s + l \in Int
  OBVIOUS
<1>2. /\ IsFiniteSet(s + 1 .. s + l)
      /\ Cardinality(s + 1 .. s + l)
           = IF s + 1 > s + l THEN 0 ELSE (s + l) - (s + 1) + 1
  BY <1>1, FS_Interval
<1>. QED
  BY <1>2

-----------------------------------------------------------------------------
(* The file and its records. *)

\* Steps that leave the file and the record alone keep what is said of both.
LEMMA SameFile ==
    ASSUME OneAtATime, AcceptedAreRuns, UNCHANGED <<bytes, accepted, writtenBytes>>,
           \/ UNCHANGED <<record, curwritten>> /\ (pc' = pc \/ ~Writing')
           \/ ~Writing' /\ record' = record,
           pc' # "idle" => pc # "idle"
    PROVE  OneAtATime' /\ AcceptedAreRuns'
<1>1. record' = record
  OBVIOUS
<1>2. Writing' => Writing /\ curwritten' = curwritten /\ pc' = pc
  BY DEF Writing
<1>3. OneAtATime'
  <2>1. pc' = "first" => curwritten' = 0
    BY <1>2 DEF OneAtATime, Writing
  <2>. QED
    BY <1>1, <1>2, <2>1 DEF OneAtATime
<1>4. \A r, l : (IsRun(r, l))' = IsRun(r, l)
  BY DEF IsRun
<1>5. OfAccepted' = OfAccepted
  BY DEF OfAccepted
<1>6. AcceptedAreRuns'
  BY <1>1, <1>2, <1>4, <1>5 DEF AcceptedAreRuns, IsRun
<1>. QED
  BY <1>3, <1>6

\* A new record begins behind all that the file has.
LEMMA AppendRuns ==
    ASSUME TypeOK, OneAtATime, AcceptedAreRuns, NEW l \in 0 .. MaxLen, AppendRecord(l)
    PROVE  OneAtATime' /\ AcceptedAreRuns'
<1>1. /\ record' = record + 1 /\ curwritten' = 0 /\ pc' = "first"
      /\ UNCHANGED <<bytes, accepted, writtenBytes>>
  BY DEF AppendRecord, file
<1>2. /\ record \in Nat /\ bytes \in Seq(Bytes) /\ Len(bytes) \in Nat
      /\ DOMAIN bytes = 1 .. Len(bytes)
      /\ \A i \in DOMAIN bytes : bytes[i][1] \in Nat
  <2>1. bytes \in Seq(Bytes)
    BY DEF TypeOK, Bytes
  <2>2. ASSUME NEW i \in DOMAIN bytes
        PROVE  bytes[i][1] \in Nat
    <3>1. bytes[i] \in Bytes
      BY <2>1
    <3>. QED
      BY <3>1 DEF Bytes
  <2>. QED
    BY <2>1, <2>2, LogFileAssumption DEF TypeOK
<1>3. \A i \in DOMAIN bytes : bytes[i][1] <= record
  BY DEF OneAtATime
<1>4. \A i \in DOMAIN bytes : bytes[i][1] < record + 1
  BY <1>2, <1>3
<1>5. OneAtATime'
  <2>1. record' > 0 /\ (pc' = "first" => curwritten' = 0)
    BY <1>1, <1>2
  <2>2. \A i \in DOMAIN bytes' : bytes'[i][1] <= record'
    BY <1>1, <1>2, <1>4
  <2>3. \E s \in 0 .. Len(bytes') :
           /\ Len(bytes') = s + curwritten'
           /\ \A i \in 1 .. s : bytes'[i][1] < record'
           /\ \A i \in 1 .. curwritten' : \A j : j = s + i => bytes'[j] = <<record', i>>
    <3>1. /\ Len(bytes) \in 0 .. Len(bytes) /\ Len(bytes) = Len(bytes) + 0
          /\ \A i \in 1 .. Len(bytes) : bytes[i][1] < record + 1
          /\ 1 .. 0 = {}
      BY <1>2, <1>4
    <3>. QED
      BY <1>1, <3>1
  <2>. QED
    BY <2>1, <2>2, <2>3 DEF OneAtATime
<1>6. ASSUME NEW a \in accepted
      PROVE  a[1] < record' /\ a[1] <= record'
  <2>1. a[1] <= record
    BY DEF AcceptedAreRuns
  <2>2. a[1] \in Nat
    BY DEF TypeOK
  <2>. QED
    BY <1>1, <1>2, <2>1, <2>2
<1>7. AcceptedAreRuns'
  BY <1>1, <1>6 DEF AcceptedAreRuns, IsRun, OfAccepted
<1>. QED
  BY <1>5, <1>7

\* Writing goes on behind the record's earlier bytes.
LEMMA WriteRuns ==
    ASSUME TypeOK, OneAtATime, AcceptedAreRuns, FirstWrite \/ Retry
    PROVE  OneAtATime' /\ AcceptedAreRuns'
<1>1. Writing /\ record > 0 /\ record' = record /\ len' = len
  BY WriteEnds
<1>2. PICK k : /\ Write(k)
               /\ \/ /\ curwritten' = curwritten + k /\ curwritten' = len
                     /\ Complete
                  \/ /\ curwritten' = curwritten + k /\ curwritten' <= len
                     /\ pc' = "retry" /\ UNCHANGED <<writtenBytes, accepted>>
                  \/ /\ pc' = "appended"
                     /\ UNCHANGED <<curwritten, writtenBytes, accepted>>
  BY WriteEnds
<1> DEFINE n == Len(bytes)
<1>3. /\ k \in Nat /\ curwritten + k \in 0 .. len
      /\ bytes' \in Seq(Bytes) /\ bytes \in Seq(Bytes)
      /\ n \in Nat /\ Len(bytes') = n + k
      /\ \A i \in 1 .. n : bytes'[i] = bytes[i]
      /\ \A i \in 1 .. k : \A j : j = n + i => bytes'[j] = <<record, curwritten + i>>
  BY <1>1, <1>2, WriteAdds DEF TypeOK, Bytes
<1>4. record \in Nat /\ curwritten \in Nat /\ len \in Nat
  BY LogFileAssumption DEF TypeOK
<1>5. DOMAIN bytes = 1 .. n /\ DOMAIN bytes' = 1 .. (n + k)
  BY <1>3
<1> HIDE DEF n
<1>6. \A i \in 1 .. n : bytes[i][1] \in Nat /\ bytes[i][1] <= record
  <2>1. ASSUME NEW i \in 1 .. n
        PROVE  bytes[i][1] \in Nat /\ bytes[i][1] <= record
    <3>1. bytes[i] \in Bytes
      BY <1>3, <1>5
    <3>2. bytes[i][1] \in Nat
      BY <3>1 DEF Bytes
    <3>3. bytes[i][1] <= record
      BY <1>5 DEF OneAtATime
    <3>. QED
      BY <3>2, <3>3
  <2>. QED
    BY <2>1
\* a place is an old one or a new one of this record
<1>7. ASSUME NEW j \in 1 .. (n + k)
      PROVE  \/ j \in 1 .. n /\ bytes'[j] = bytes[j]
             \/ j \in n + 1 .. n + k /\ bytes'[j][1] = record
  <2>1. CASE j <= n
    BY <1>3, <2>1
  <2>2. CASE ~(j <= n)
    <3>1. j - n \in 1 .. k /\ j = n + (j - n) /\ j \in n + 1 .. n + k
      BY <1>3, <2>2
    <3>2. bytes'[j] = <<record, curwritten + (j - n)>>
      BY <1>3, <3>1
    <3>. QED
      BY <3>1, <3>2
  <2>. QED
    BY <2>1, <2>2
<1>8. PICK s \in 0 .. n :
         /\ n = s + curwritten
         /\ \A i \in 1 .. s : bytes[i][1] < record
         /\ \A i \in 1 .. curwritten : \A j : j = s + i => bytes[j] = <<record, i>>
  BY <1>1 DEF OneAtATime, n
\* the record's bytes, with the new ones
<1>9. ASSUME NEW i \in 1 .. (curwritten + k), NEW j, j = s + i
      PROVE  bytes'[j] = <<record, i>>
  <2>1. CASE i <= curwritten
    <3>1. i \in 1 .. curwritten /\ j \in 1 .. n
      BY <1>3, <1>4, <1>8, <1>9, <2>1
    <3>2. bytes[j] = <<record, i>>
      BY <1>8, <1>9, <3>1
    <3>. QED
      BY <1>3, <3>1, <3>2
  <2>2. CASE ~(i <= curwritten)
    <3>1. i - curwritten \in 1 .. k /\ j = n + (i - curwritten)
      BY <1>3, <1>4, <1>8, <1>9, <2>2
    <3>2. bytes'[j] = <<record, curwritten + (i - curwritten)>>
      BY <1>3, <3>1
    <3>3. curwritten + (i - curwritten) = i
      BY <1>4
    <3>. QED
      BY <3>2, <3>3
  <2>. QED
    BY <2>1, <2>2
<1>10. \A i \in 1 .. s : bytes'[i][1] < record
  <2>1. ASSUME NEW i \in 1 .. s
        PROVE  bytes'[i][1] < record
    <3>1. i \in 1 .. n
      BY <1>3, <1>8
    <3>. QED
      BY <1>3, <1>8, <3>1
  <2>. QED
    BY <2>1
<1>11. \A i \in DOMAIN bytes' : bytes'[i][1] <= record
  <2>1. ASSUME NEW i \in 1 .. (n + k)
        PROVE  bytes'[i][1] <= record
    BY <1>4, <1>6, <1>7
  <2>. QED
    BY <1>5, <2>1
<1>12. OneAtATime'
  <2>1. pc' \in {"retry", "appended"}
    BY <1>2 DEF Complete
  <2>2. ASSUME Writing'
        PROVE  \E t \in 0 .. Len(bytes') :
                  /\ Len(bytes') = t + curwritten'
                  /\ \A i \in 1 .. t : bytes'[i][1] < record'
                  /\ \A i \in 1 .. curwritten' : \A j : j = t + i => bytes'[j] = <<record', i>>
    <3>1. curwritten' = curwritten + k
      BY <1>2, <2>2 DEF Writing, Complete
    <3>2. s \in 0 .. Len(bytes') /\ Len(bytes') = s + curwritten'
      BY <1>3, <1>4, <1>8, <3>1
    <3>. QED
      BY <1>1, <1>9, <1>10, <3>1, <3>2
  <2>. QED
    BY <1>1, <1>11, <2>1, <2>2 DEF OneAtATime
\* the runs of other records stay as they are
<1>13. ASSUME NEW r \in Nat, r < record, NEW l \in Nat, IsRun(r, l)
       PROVE  (IsRun(r, l))'
  <2>1. PICK t \in 0 .. n :
           /\ t + l <= n
           /\ \A i \in 1 .. l : \A j : j = t + i => bytes[j] = <<r, i>>
           /\ \A i \in 1 .. n : bytes[i][1] = r => i \in t + 1 .. t + l
    BY <1>5, <1>13 DEF IsRun, n
  <2>2. t \in 0 .. Len(bytes') /\ t + l <= Len(bytes')
    BY <1>3, <2>1
  <2>3. ASSUME NEW i \in 1 .. l, NEW j, j = t + i
        PROVE  bytes'[j] = <<r, i>>
    <3>1. j \in 1 .. n
      BY <1>3, <2>1, <2>3
    <3>. QED
      BY <1>3, <2>1, <2>3, <3>1
  <2>4. ASSUME NEW i \in 1 .. (n + k), bytes'[i][1] = r
        PROVE  i \in t + 1 .. t + l
    <3>1. i \in 1 .. n /\ bytes'[i] = bytes[i]
      BY <1>4, <1>7, <1>13, <2>4
    <3>. QED
      BY <2>1, <2>4, <3>1
  <2>. QED
    BY <1>5, <2>2, <2>3, <2>4 DEF IsRun
<1>14. ASSUME NEW a \in accepted
       PROVE  a[1] \in Nat /\ a[2] \in Nat /\ a[1] < record /\ (IsRun(a[1], a[2]))'
  <2>1. a[1] \in Nat /\ a[2] \in Nat
    BY DEF TypeOK
  <2>2. a[1] < record /\ IsRun(a[1], a[2])
    BY <1>1 DEF AcceptedAreRuns
  <2>. QED
    BY <1>13, <2>1, <2>2
<1>15. OfAccepted = {i \in 1 .. n : \E a \in accepted : bytes[i][1] = a[1]}
  BY <1>5 DEF OfAccepted
<1>16. ASSUME NEW j \in 1 .. (n + k)
       PROVE  (\E a \in accepted : bytes'[j][1] = a[1]) <=> j \in OfAccepted
  <2>1. CASE j \in 1 .. n /\ bytes'[j] = bytes[j]
    BY <1>15, <2>1
  <2>2. CASE j \in n + 1 .. n + k /\ bytes'[j][1] = record
    <3>1. j \notin OfAccepted
      BY <1>3, <1>15, <2>2
    <3>2. ~\E a \in accepted : bytes'[j][1] = a[1]
      BY <1>4, <1>14, <2>2
    <3>. QED
      BY <3>1, <3>2
  <2>. QED
    BY <1>7, <2>1, <2>2
<1>17. OfAccepted \subseteq 1 .. (n + k)
  BY <1>3, <1>15
<1>18. CASE curwritten' = curwritten + k /\ curwritten' = len /\ Complete
  <2>1. /\ writtenBytes' = writtenBytes + len
        /\ accepted' = accepted \cup {<<record, len>>}
        /\ ~Writing'
    BY <1>18 DEF Complete, Writing
  <2>2. curwritten + k = len
    BY <1>18
  <2>3. ASSUME NEW r, r = record, NEW l, l = len
        PROVE  (IsRun(r, l))'
    <3>1. s \in 0 .. Len(bytes') /\ s + len = Len(bytes')
      BY <1>3, <1>4, <1>8, <2>2
    <3>2. ASSUME NEW i \in 1 .. (n + k), bytes'[i][1] = record
          PROVE  i \in s + 1 .. s + len
      <4>1. ~(i \in 1 .. s)
        BY <1>4, <1>10, <3>2
      <4>. QED
        BY <1>3, <1>4, <1>8, <2>2, <4>1
    <3>3. \A i \in 1 .. len : \A j : j = s + i => bytes'[j] = <<record, i>>
      BY <1>9, <2>2
    <3>4. s + len <= Len(bytes')
      BY <1>3, <1>4, <1>8, <3>1
    <3>. QED
      BY <1>5, <2>3, <3>1, <3>2, <3>3, <3>4 DEF IsRun
  <2>4. ASSUME NEW a \in accepted'
        PROVE  a[1] <= record' /\ (IsRun(a[1], a[2]))'
    <3>1. CASE a \in accepted
      BY <1>1, <1>4, <1>14, <3>1
    <3>2. CASE a = <<record, len>>
      <4>1. a[1] = record /\ a[2] = len
        BY <3>2
      <4>2. (IsRun(a[1], a[2]))'
        BY <2>3, <4>1
      <4>. QED
        BY <1>1, <1>4, <4>1, <4>2
    <3>. QED
      BY <2>1, <3>1, <3>2
  <2>5. OfAccepted' = OfAccepted \cup (s + 1 .. s + len)
    <3>1. OfAccepted' = {j \in 1 .. (n + k) : \E a \in accepted' : bytes'[j][1] = a[1]}
      BY <1>5 DEF OfAccepted
    <3>2. ASSUME NEW j \in 1 .. (n + k)
          PROVE  (\E a \in accepted' : bytes'[j][1] = a[1])
                   <=> j \in OfAccepted \/ bytes'[j][1] = record
      <4>1. (\E a \in accepted' : bytes'[j][1] = a[1])
              <=> (\E a \in accepted : bytes'[j][1] = a[1]) \/ bytes'[j][1] = record
        <5>1. PICK new : new = <<record, len>>
          OBVIOUS
        <5>2. new[1] = record /\ accepted' = accepted \cup {new}
          BY <2>1, <5>1
        <5>. QED
          BY <5>2, Zenon
      <4>. QED
        BY <1>16, <4>1
    <3>3. ASSUME NEW j \in 1 .. (n + k)
          PROVE  bytes'[j][1] = record <=> j \in s + 1 .. s + len
      <4>1. ASSUME j \in s + 1 .. s + len
            PROVE  bytes'[j][1] = record
        <5>1. j - s \in 1 .. (curwritten + k) /\ j = s + (j - s)
          BY <1>3, <1>4, <1>8, <2>2, <4>1
        <5>2. bytes'[j] = <<record, j - s>>
          BY <1>9, <5>1
        <5>. QED
          BY <5>2
      <4>2. ASSUME ~(j \in s + 1 .. s + len)
            PROVE  bytes'[j][1] # record
        <5>1. j \in 1 .. s
          BY <1>3, <1>4, <1>8, <2>2, <4>2
        <5>2. bytes'[j][1] < record
          BY <1>10, <5>1
        <5>. QED
          BY <1>4, <5>2
      <4>. QED
        BY <4>1, <4>2
    <3>4. s + 1 .. s + len \subseteq 1 .. (n + k)
      BY <1>3, <1>4, <1>8, <2>2
    <3>. QED
      BY <1>17, <3>1, <3>2, <3>3, <3>4
  <2>6. OfAccepted \cap (s + 1 .. s + len) = {}
    <3>1. ASSUME NEW j \in OfAccepted
          PROVE  ~(j \in s + 1 .. s + len)
      <4>1. j \in 1 .. n /\ \E a \in accepted : bytes[j][1] = a[1]
        BY <1>15
      <4>2. PICK a \in accepted : bytes[j][1] = a[1]
        BY <4>1
      <4>3. bytes[j][1] # record
        BY <1>4, <1>14, <4>2
      <4>4. SUFFICES ASSUME j \in s + 1 .. s + len
                     PROVE  FALSE
        OBVIOUS
      <4>5. j - s \in 1 .. curwritten /\ j = s + (j - s)
        BY <1>3, <1>4, <1>8, <4>1, <4>4
      <4>6. bytes[j] = <<record, j - s>>
        BY <1>8, <4>5
      <4>. QED
        BY <4>3, <4>6
    <3>. QED
      BY <3>1
  <2>7. Cardinality(OfAccepted') = Cardinality(OfAccepted) + len
    <3>1. IsFiniteSet(OfAccepted)
      <4>1. IsFiniteSet(1 .. n)
        BY <1>3, FS_Interval
      <4>2. OfAccepted \in SUBSET (1 .. n)
        BY <1>15
      <4>. QED
        BY <4>1, <4>2, FS_Subset
    <3>2. s \in Nat
      BY <1>3, <1>8
    <3>3. IsFiniteSet(s + 1 .. s + len) /\ Cardinality(s + 1 .. s + len) = len
      BY <1>4, <3>2, RunLength
    <3>4. Cardinality(OfAccepted \cup (s + 1 .. s + len))
            = Cardinality(OfAccepted) + Cardinality(s + 1 .. s + len)
                - Cardinality(OfAccepted \cap (s + 1 .. s + len))
      BY <3>1, <3>3, FS_Union
    <3>5. Cardinality(OfAccepted \cap (s + 1 .. s + len)) = 0
      BY <2>6, FS_EmptySet
    <3>6. Cardinality(OfAccepted) \in Nat
      BY <3>1, FS_CardinalityType
    <3>. QED
      BY <1>4, <2>5, <3>3, <3>4, <3>5, <3>6
  <2>8. writtenBytes' = Cardinality(OfAccepted')
    BY <2>1, <2>7 DEF AcceptedAreRuns
  <2>. QED
    BY <1>12, <2>1, <2>4, <2>8 DEF AcceptedAreRuns
<1>19. CASE UNCHANGED <<writtenBytes, accepted>>
  <2>1. OfAccepted' = OfAccepted
    <3>1. OfAccepted' = {j \in 1 .. (n + k) : \E a \in accepted : bytes'[j][1] = a[1]}
      BY <1>5, <1>19 DEF OfAccepted
    <3>. QED
      BY <1>16, <1>17, <3>1
  <2>2. ASSUME NEW a \in accepted'
        PROVE  a[1] <= record' /\ (Writing' => a[1] < record') /\ (IsRun(a[1], a[2]))'
    BY <1>1, <1>4, <1>14, <1>19
  <2>. QED
    BY <1>12, <1>19, <2>1, <2>2 DEF AcceptedAreRuns
<1>. QED
  BY <1>2, <1>18, <1>19

\* A new file has no records.
LEMMA RollRuns ==
    ASSUME OneAtATime, AcceptedAreRuns, RollFile
    PROVE  OneAtATime' /\ AcceptedAreRuns'
<1>1. pc' = "idle" /\ ~Writing' /\ record' = record
  BY DEF RollFile, Writing, call
<1>2. CASE now > lastRoll /\ bytes' = <<>> /\ accepted' = {} /\ writtenBytes' = 0
  <2>1. OneAtATime'
    BY <1>1, <1>2 DEF OneAtATime
  <2>2. OfAccepted' = {}
    BY <1>2 DEF OfAccepted
  <2>3. AcceptedAreRuns'
    BY <1>2, <2>2, FS_EmptySet DEF AcceptedAreRuns
  <2>. QED
    BY <2>1, <2>3
<1>3. CASE UNCHANGED <<bytes, accepted, writtenBytes>>
  BY <1>1, <1>3, SameFile DEF RollFile
<1>. QED
  BY <1>2, <1>3 DEF RollFile, file

-----------------------------------------------------------------------------
(* Types and the clock, action by action. *)

\* The parts of TypeOK: the clock's, and the file's.
TypeClock ==
    /\ now \in Nat /\ jumps \in 0 .. MaxJumps
    /\ startOfPeriod \in Nat /\ lastRoll \in Nat /\ lastFlush \in Nat
    /\ startOfPeriod = Period(lastRoll)
    /\ count \in 0 .. CheckEveryN - 1
    /\ oldest \in Nat \cup {Never}
    /\ overdue \in Nat

TypeFile ==
    /\ writtenBytes \in Nat
    /\ pc \in Places
    /\ record \in 0 .. MaxRecords
    /\ len \in 0 .. MaxLen /\ curwritten \in 0 .. len
    /\ bytes \in Seq(Bytes)
    /\ accepted \subseteq (1 .. MaxRecords) \X (0 .. MaxLen)

LEMMA TypeParts == TypeOK <=> TypeClock /\ TypeFile /\ full \in BOOLEAN
<1>. QED
  BY Zenon DEF TypeOK, TypeClock, TypeFile, Bytes

\* The world's steps and flush() leave the file and its record alone.
LEMMA WorldInv ==
    ASSUME IndInv, Tick \/ ClockBack \/ DiskChanges \/ Flush
    PROVE  IndInv'
<1> USE DEF IndInv
<1>1. /\ UNCHANGED <<writtenBytes, pc, record, len, curwritten, bytes, accepted>>
      /\ UNCHANGED <<startOfPeriod, lastRoll, lastFlush, count, overdue>>
      /\ full' = full \/ full' = ~full
      /\ \/ now' = now \/ (now' = now + 1 /\ jumps' = jumps)
         \/ (now' \in 1 .. (now - 1) /\ jumps' = jumps + 1 /\ jumps < MaxJumps)
      /\ jumps' = jumps \/ (jumps' = jumps + 1 /\ jumps < MaxJumps)
      /\ now' = now => jumps' = jumps
      /\ oldest' = oldest \/ oldest' = Never
  BY DEF Tick, ClockBack, DiskChanges, Flush, world, file, unflushed, call
<1>2. TypeClock /\ TypeFile /\ full \in BOOLEAN
  BY TypeParts
<1>3. TypeFile'
  BY <1>1, <1>2 DEF TypeFile
<1>4. TypeClock'
  <2>1. now' \in Nat /\ jumps' \in 0 .. MaxJumps
    BY <1>1, <1>2, LogFileAssumption DEF TypeClock
  <2>2. startOfPeriod' = Period(lastRoll')
    BY <1>1, <1>2 DEF TypeClock, Period
  <2>. QED
    BY <1>1, <1>2, <2>1, <2>2, Zenon DEF TypeClock, Period
<1>5. full' \in BOOLEAN
  BY <1>1, <1>2, Zenon
<1>6. TypeOK'
  BY <1>3, <1>4, <1>5, Zenon DEF TypeOK, TypeClock, TypeFile, Bytes
<1>7. OneAtATime' /\ AcceptedAreRuns'
  BY <1>1, SameFile
<1>8. InTime'
  <2>1. SUFFICES ASSUME jumps' = 0
                 PROVE  /\ lastRoll' <= lastFlush' /\ lastFlush' <= now'
                        /\ oldest' # Never => lastFlush' <= oldest' /\ oldest' <= now'
                        /\ pc' # "roll" => overdue' <= count'
                        /\ pc' = "roll" => overdue' = 0 \/ lastRoll' < now'
    BY DEF InTime
  <2>2. jumps = 0 /\ (now' = now \/ now' = now + 1)
    BY <1>1, <1>2, <2>1, LogFileAssumption DEF TypeClock
  <2>3. /\ lastRoll <= lastFlush /\ lastFlush <= now
        /\ oldest # Never => lastFlush <= oldest /\ oldest <= now
        /\ pc # "roll" => overdue <= count
        /\ pc = "roll" => overdue = 0 \/ lastRoll < now
    BY <2>2 DEF InTime
  <2>4. now <= now' /\ now \in Nat /\ lastFlush \in Nat /\ lastRoll \in Nat
    BY <1>2, <2>2 DEF TypeClock
  <2>5. now' \in Nat
    BY <2>2, <2>4
  <2>6. lastFlush' <= now'
    BY <1>1, <2>3, <2>4, <2>5
  <2>7. oldest' # Never => lastFlush' <= oldest' /\ oldest' <= now'
    BY <1>1, <1>2, <2>3, <2>4, <2>5 DEF TypeClock
  <2>8. pc' = "roll" => overdue' = 0 \/ lastRoll' < now'
    BY <1>1, <2>3, <2>4, <2>5
  <2>. QED
    BY <1>1, <2>3, <2>6, <2>7, <2>8
<1>. QED
  BY <1>6, <1>7, <1>8

\* append() begins a record.
LEMMA AppendInv ==
    ASSUME IndInv, NEW l \in 0 .. MaxLen, AppendRecord(l)
    PROVE  IndInv'
<1> USE DEF IndInv
<1>1. /\ record' = record + 1 /\ record < MaxRecords /\ len' = l /\ curwritten' = 0
      /\ pc' = "first" /\ pc = "idle"
      /\ UNCHANGED <<now, jumps, full, startOfPeriod, lastRoll, lastFlush, count, oldest,
                     overdue, writtenBytes, bytes, accepted>>
  BY DEF AppendRecord, world, file, unflushed
<1>2. TypeClock /\ TypeFile /\ full \in BOOLEAN
  BY TypeParts
<1>3. TypeFile'
  <2>1. record' \in 0 .. MaxRecords /\ curwritten' \in 0 .. len'
    BY <1>1, <1>2, LogFileAssumption DEF TypeFile
  <2>. QED
    BY <1>1, <1>2, <2>1 DEF TypeFile, Places
<1>4. TypeClock'
  BY <1>1, <1>2, Zenon DEF TypeClock, Period
<1>5. TypeOK'
  BY <1>1, <1>2, <1>3, <1>4, Zenon DEF TypeOK, TypeClock, TypeFile, Bytes
<1>6. OneAtATime' /\ AcceptedAreRuns'
  BY AppendRuns
<1>7. InTime'
  BY <1>1 DEF InTime
<1>. QED
  BY <1>5, <1>6, <1>7

\* A write of AppendFile::append.
LEMMA WriteInv ==
    ASSUME IndInv, FirstWrite \/ Retry
    PROVE  IndInv'
<1> USE DEF IndInv
<1>1. /\ Writing /\ record > 0
      /\ UNCHANGED <<now, jumps, full, startOfPeriod, lastRoll, lastFlush, count, record,
                     len, overdue>>
  BY WriteEnds DEF world
<1>2. PICK k : /\ Write(k)
               /\ \/ /\ curwritten' = curwritten + k /\ curwritten' = len
                     /\ Complete
                  \/ /\ curwritten' = curwritten + k /\ curwritten' <= len
                     /\ pc' = "retry" /\ UNCHANGED <<writtenBytes, accepted>>
                  \/ /\ pc' = "appended"
                     /\ UNCHANGED <<curwritten, writtenBytes, accepted>>
  BY WriteEnds
<1>3. /\ k \in Nat /\ curwritten + k \in 0 .. len /\ bytes' \in Seq(Bytes)
      /\ oldest' = oldest \/ (oldest = Never /\ oldest' = now)
  BY <1>1, <1>2, WriteAdds
<1>4. TypeClock /\ TypeFile /\ full \in BOOLEAN
  BY TypeParts
<1>5. TypeFile'
  <2>1. record \in 1 .. MaxRecords /\ len \in 0 .. MaxLen /\ len \in Nat
    BY <1>1, <1>4, LogFileAssumption DEF TypeFile
  <2>2. curwritten' \in 0 .. len
    BY <1>2, <1>3, <1>4 DEF TypeFile
  <2>3. <<record, len>> \in (1 .. MaxRecords) \X (0 .. MaxLen)
    BY <2>1
  <2>4. accepted' \subseteq (1 .. MaxRecords) \X (0 .. MaxLen)
    BY <1>2, <1>4, <2>3 DEF TypeFile, Complete
  <2>5. writtenBytes' \in Nat /\ pc' \in Places
    BY <1>2, <1>4, <2>1 DEF TypeFile, Complete, Places
  <2>. QED
    BY <1>1, <1>3, <1>4, <2>2, <2>4, <2>5 DEF TypeFile
<1>6. TypeClock'
  <2>1. oldest' \in Nat \cup {Never}
    BY <1>3, <1>4 DEF TypeClock
  <2>. QED
    BY <1>1, <1>4, <2>1, Zenon DEF TypeClock, Period
<1>7. TypeOK'
  BY <1>1, <1>4, <1>5, <1>6, Zenon DEF TypeOK, TypeClock, TypeFile, Bytes
<1>8. OneAtATime' /\ AcceptedAreRuns'
  BY WriteRuns
<1>9. InTime'
  <2>1. pc # "roll" /\ pc' # "roll"
    BY <1>1, <1>2 DEF Writing, Complete
  <2>2. SUFFICES ASSUME jumps' = 0
                 PROVE  /\ lastRoll' <= lastFlush' /\ lastFlush' <= now'
                        /\ oldest' # Never => lastFlush' <= oldest' /\ oldest' <= now'
                        /\ overdue' <= count'
    BY <2>1 DEF InTime
  <2>3. /\ lastRoll <= lastFlush /\ lastFlush <= now
        /\ oldest # Never => lastFlush <= oldest /\ oldest <= now
        /\ overdue <= count
    BY <1>1, <2>1, <2>2 DEF InTime
  <2>4. now \in Nat /\ now <= now
    BY <1>4 DEF TypeClock
  <2>. QED
    BY <1>1, <1>3, <2>3, <2>4
<1>. QED
  BY <1>7, <1>8, <1>9

\* What append_unlocked looks at after a record, without rolling yet.
LEMMA CheckInv ==
    ASSUME IndInv, SizeReached \/ OnlyCount \/ DayOver \/ FlushDue \/ NothingDue
    PROVE  IndInv'
<1> USE DEF IndInv
<1>1. /\ pc = "appended" /\ pc' \in {"idle", "roll"}
      /\ UNCHANGED <<now, jumps, full, startOfPeriod, lastRoll, writtenBytes, bytes,
                     accepted, record, len, curwritten>>
  BY DEF SizeReached, OnlyCount, DayOver, FlushDue, NothingDue, TimeToCheck, world, file, call
<1>2. TypeClock /\ TypeFile /\ full \in BOOLEAN
  BY TypeParts
<1>3. TypeFile'
  BY <1>1, <1>2 DEF TypeFile, Places
<1>4. /\ count \in Nat /\ count < CheckEveryN /\ CheckEveryN \in Nat /\ CheckEveryN > 0
      /\ overdue \in Nat /\ now \in Nat /\ lastRoll \in Nat /\ lastFlush \in Nat
      /\ oldest \in Nat \cup {Never} /\ FlushInterval \in Nat
      /\ startOfPeriod = Period(lastRoll)
  BY <1>2, LogFileAssumption DEF TypeClock
<1>5. NoteOverdue => overdue' \in Nat /\ overdue' <= overdue + 1
  BY <1>4 DEF NoteOverdue
<1>6. TypeClock'
  <2>1. /\ count' \in 0 .. CheckEveryN - 1 /\ overdue' \in Nat
        /\ lastFlush' \in Nat /\ oldest' \in Nat \cup {Never}
    <3>1. CASE SizeReached
      BY <1>4, <1>5, <3>1 DEF SizeReached, unflushed
    <3>2. CASE OnlyCount
      BY <1>4, <1>5, <3>2 DEF OnlyCount, unflushed
    <3>3. CASE DayOver
      BY <1>4, <1>5, <3>3 DEF DayOver, TimeToCheck, unflushed
    <3>4. CASE FlushDue
      BY <1>4, <3>4 DEF FlushDue, TimeToCheck
    <3>5. CASE NothingDue
      BY <1>4, <1>5, <3>5 DEF NothingDue, TimeToCheck, unflushed
    <3>. QED
      BY <3>1, <3>2, <3>3, <3>4, <3>5
  <2>. QED
    BY <1>1, <1>2, <2>1, Zenon DEF TypeClock, Period
<1>7. TypeOK'
  BY <1>1, <1>2, <1>3, <1>6, Zenon DEF TypeOK, TypeClock, TypeFile, Bytes
<1>8. OneAtATime' /\ AcceptedAreRuns'
  BY <1>1, SameFile DEF Writing
<1>9. InTime'
  <2>1. SUFFICES ASSUME jumps' = 0
                 PROVE  /\ lastRoll' <= lastFlush' /\ lastFlush' <= now'
                        /\ oldest' # Never => lastFlush' <= oldest' /\ oldest' <= now'
                        /\ pc' # "roll" => overdue' <= count'
                        /\ pc' = "roll" => overdue' = 0 \/ lastRoll' < now'
    BY DEF InTime
  <2>2. /\ lastRoll <= lastFlush /\ lastFlush <= now
        /\ oldest # Never => lastFlush <= oldest /\ oldest <= now
        /\ overdue <= count
    BY <1>1, <2>1 DEF InTime
  \* what is overdue is so in a later second than that of the last roll
  <2>3. Overdue => lastRoll < now
    <3>1. ASSUME Period(now) # startOfPeriod
          PROVE  lastRoll < now
      <4>1. now # lastRoll
        BY <1>4, <3>1
      <4>. QED
        BY <1>4, <2>2, <4>1
    <3>2. ASSUME oldest # Never, now - oldest > FlushInterval
          PROVE  lastRoll < now
      <4>1. oldest \in Nat /\ lastFlush <= oldest
        BY <1>4, <2>2, <3>2
      <4>. QED
        BY <1>4, <2>2, <3>2, <4>1
    <3>. QED
      BY <3>1, <3>2 DEF Overdue
  <2>4. NoteOverdue => overdue' = 0 \/ (Overdue /\ overdue' = overdue + 1)
    BY DEF NoteOverdue
  <2>5. CASE SizeReached
    BY <1>1, <1>4, <2>2, <2>3, <2>4, <2>5 DEF SizeReached, unflushed
  <2>6. CASE OnlyCount
    BY <1>1, <1>4, <2>2, <2>4, <2>6 DEF OnlyCount, unflushed
  <2>7. CASE DayOver
    <3>1. Overdue
      BY <2>7 DEF DayOver, Overdue
    <3>. QED
      BY <1>1, <1>4, <2>2, <2>3, <2>7, <3>1 DEF DayOver, unflushed
  <2>8. CASE FlushDue
    BY <1>1, <1>4, <2>2, <2>8 DEF FlushDue, TimeToCheck
  <2>9. CASE NothingDue
    <3>1. ~Overdue
      <4>1. Period(now) = startOfPeriod /\ now - lastFlush <= FlushInterval
        BY <1>4, <2>9 DEF NothingDue, FlushIsDue
      <4>2. ~(oldest # Never /\ now - oldest > FlushInterval)
        <5>1. SUFFICES ASSUME oldest # Never, now - oldest > FlushInterval
                       PROVE  FALSE
          OBVIOUS
        <5>2. oldest \in Nat /\ lastFlush <= oldest
          BY <1>4, <2>2, <5>1
        <5>. QED
          BY <1>4, <4>1, <5>1, <5>2
      <4>. QED
        BY <4>1, <4>2 DEF Overdue
    <3>2. overdue' = 0 /\ count' = 0 /\ pc' = "idle" /\ UNCHANGED <<lastFlush, oldest>>
      BY <2>9, <3>1 DEF NothingDue, TimeToCheck, NoteOverdue, unflushed
    <3>. QED
      BY <1>1, <1>4, <2>2, <3>2
  <2>. QED
    BY <2>5, <2>6, <2>7, <2>8, <2>9
<1>. QED
  BY <1>7, <1>8, <1>9

\* rollFile() opens a new file or leaves everything as it is.
LEMMA RollInv ==
    ASSUME IndInv, RollFile
    PROVE  IndInv'
<1> USE DEF IndInv
<1>1. /\ pc = "roll" /\ pc' = "idle"
      /\ UNCHANGED <<now, jumps, full, count, record, len, curwritten>>
  BY DEF RollFile, world, call
<1>2. TypeClock /\ TypeFile /\ full \in BOOLEAN
  BY TypeParts
<1>3. OneAtATime' /\ AcceptedAreRuns'
  BY RollRuns
<1>4. CASE /\ now > lastRoll /\ lastRoll' = now /\ lastFlush' = now
           /\ startOfPeriod' = Period(now)
           /\ writtenBytes' = 0 /\ bytes' = <<>> /\ accepted' = {}
           /\ oldest' = Never /\ overdue' = 0
  <2>1. TypeFile'
    <3>1. <<>> \in Seq(Bytes)
      OBVIOUS
    <3>. QED
      BY <1>1, <1>2, <1>4, <3>1 DEF TypeFile, Places
  <2>2. TypeClock'
    <3>1. now \in Nat
      BY <1>2 DEF TypeClock
    <3>2. Period(now) \in Nat /\ Period(now) = Period(lastRoll')
      BY <1>4, <3>1, PeriodIsTime DEF Period
    <3>. QED
      BY <1>1, <1>2, <1>4, <3>1, <3>2 DEF TypeClock, Period
  <2>3. TypeOK'
    BY <1>1, <1>2, <2>1, <2>2, Zenon DEF TypeOK, TypeClock, TypeFile, Bytes
  <2>4. InTime'
    BY <1>1, <1>2, <1>4 DEF InTime, TypeClock
  <2>. QED
    BY <1>3, <2>3, <2>4
<1>5. CASE /\ now <= lastRoll
           /\ UNCHANGED <<startOfPeriod, lastRoll, writtenBytes, bytes, accepted, lastFlush,
                          oldest, overdue>>
  <2>1. TypeFile'
    BY <1>1, <1>2, <1>5 DEF TypeFile, Places
  <2>2. TypeClock'
    BY <1>1, <1>2, <1>5, Zenon DEF TypeClock, Period
  <2>3. TypeOK'
    BY <1>1, <1>2, <2>1, <2>2, Zenon DEF TypeOK, TypeClock, TypeFile, Bytes
  <2>4. InTime'
    <3>1. overdue \in Nat /\ count \in Nat /\ now \in Nat /\ lastRoll \in Nat
      BY <1>2, LogFileAssumption DEF TypeClock
    <3>2. jumps = 0 => overdue = 0
      BY <1>1, <1>5, <3>1 DEF InTime
    <3>. QED
      BY <1>1, <1>5, <3>1, <3>2 DEF InTime
  <2>. QED
    BY <1>3, <2>3, <2>4
<1>. QED
  BY <1>4, <1>5 DEF RollFile, file, unflushed

-----------------------------------------------------------------------------
\* The file that the constructor opens satisfies the inductive invariant.
LEMMA InitInv == Init => IndInv
<1> SUFFICES ASSUME Init
             PROVE  IndInv
  OBVIOUS
<1> USE DEF Init
<1>1. now \in Nat /\ Period(now) \in Nat
  BY PeriodIsTime, LogFileAssumption
<1>2. TypeOK
  <2>1. TypeClock
    BY <1>1, LogFileAssumption DEF TypeClock
  <2>2. TypeFile
    <3>1. <<>> \in Seq(Bytes)
      OBVIOUS
    <3>. QED
      BY <3>1, LogFileAssumption DEF TypeFile, Places
  <2>. QED
    BY <2>1, <2>2, TypeParts, Zenon
<1>3. OneAtATime
  BY DEF OneAtATime, Writing
<1>4. AcceptedAreRuns
  <2>1. OfAccepted = {}
    BY DEF OfAccepted
  <2>. QED
    BY <2>1, FS_EmptySet DEF AcceptedAreRuns
<1>5. InTime
  BY <1>1 DEF InTime
<1>. QED
  BY <1>2, <1>3, <1>4, <1>5 DEF IndInv

\* Every step keeps the inductive invariant.
LEMMA NextInv == IndInv /\ [Next]_vars => IndInv'
<1> SUFFICES ASSUME IndInv, [Next]_vars
             PROVE  IndInv'
  OBVIOUS
<1>1. CASE Tick \/ ClockBack \/ DiskChanges \/ Flush
  BY <1>1, WorldInv
<1>2. ASSUME NEW l \in 0 .. MaxLen, AppendRecord(l)
      PROVE  IndInv'
  BY <1>2, AppendInv
<1>3. CASE FirstWrite \/ Retry
  BY <1>3, WriteInv
<1>4. CASE SizeReached \/ OnlyCount \/ DayOver \/ FlushDue \/ NothingDue
  BY <1>4, CheckInv
<1>5. CASE RollFile
  BY <1>5, RollInv
<1>6. CASE UNCHANGED vars
  <2>1. TypeOK'
    BY <1>6, Zenon DEF IndInv, vars, TypeOK, Period
  <2>2. OneAtATime' /\ AcceptedAreRuns'
    BY <1>6, SameFile DEF IndInv, vars
  <2>3. InTime'
    BY <1>6 DEF IndInv, vars, InTime
  <2>. QED
    BY <2>1, <2>2, <2>3 DEF IndInv
<1>. QED
  BY <1>1, <1>2, <1>3, <1>4, <1>5, <1>6 DEF Next, AppendStep

\* The inductive invariant always holds.
LEMMA AlwaysInv == Spec => []IndInv
<1>. QED
  BY InitInv, NextInv, PTL DEF Spec

\* A run of bytes is a whole record, and as long as the record.
LEMMA RunsAreWhole == IndInv => AcceptedIsWhole
<1> SUFFICES ASSUME IndInv
             PROVE  AcceptedIsWhole
  OBVIOUS
<1>1. DOMAIN bytes = 1 .. Len(bytes) /\ Len(bytes) \in Nat
  BY DEF IndInv, TypeOK
<1>2. ASSUME NEW a \in accepted
      PROVE  /\ IsWhole(a[1], a[2])
             /\ Cardinality({i \in DOMAIN bytes : bytes[i][1] = a[1]}) = a[2]
  <2>1. a[1] \in Nat /\ a[2] \in Nat /\ IsRun(a[1], a[2])
    BY DEF IndInv, TypeOK, AcceptedAreRuns
  <2> DEFINE r == a[1]
             l == a[2]
  <2>2. PICK s \in 0 .. Len(bytes) :
           /\ s + l <= Len(bytes)
           /\ \A i \in 1 .. l : \A j : j = s + i => bytes[j] = <<r, i>>
           /\ \A i \in DOMAIN bytes : bytes[i][1] = r => i \in s + 1 .. s + l
    BY <2>1 DEF IsRun
  <2> HIDE DEF r, l
  <2>3. l \in Nat /\ s \in Nat
    BY <1>1, <2>1 DEF l
  <2>4. IsWhole(r, l)
    <3>1. s \in 0 .. Len(bytes) - l
      BY <1>1, <2>2, <2>3
    <3>2. \A i \in 1 .. l : bytes[s + i] = <<r, i>>
      BY <2>2
    <3>. QED
      BY <3>1, <3>2 DEF IsWhole
  <2>5. {i \in DOMAIN bytes : bytes[i][1] = r} = s + 1 .. s + l
    <3>1. ASSUME NEW j \in s + 1 .. s + l
          PROVE  j \in DOMAIN bytes /\ bytes[j][1] = r
      <4>1. j - s \in 1 .. l /\ j = s + (j - s) /\ j \in 1 .. Len(bytes)
        BY <1>1, <2>2, <2>3
      <4>2. bytes[j] = <<r, j - s>>
        BY <2>2, <4>1
      <4>. QED
        BY <1>1, <4>1, <4>2
    <3>. QED
      BY <2>2, <3>1
  <2>6. Cardinality(s + 1 .. s + l) = l
    BY <2>3, RunLength
  <2>. QED
    BY <2>4, <2>5, <2>6 DEF r, l
<1>3. writtenBytes = Cardinality(OfAccepted)
  BY DEF IndInv, AcceptedAreRuns
<1>. QED
  BY <1>2, <1>3 DEF AcceptedIsWhole, OfAccepted

\* What _count allows is less than CheckEveryN.
LEMMA CountIsSmall == IndInv => OverdueIsNoticed
<1> SUFFICES ASSUME IndInv, pc = "idle", jumps = 0
             PROVE  overdue < CheckEveryN
  BY DEF OverdueIsNoticed
<1>1. overdue <= count
  BY DEF IndInv, InTime
<1>2. overdue \in Nat /\ count \in 0 .. CheckEveryN - 1 /\ CheckEveryN \in Nat
  BY LogFileAssumption DEF IndInv, TypeOK
<1>. QED
  BY <1>1, <1>2

-----------------------------------------------------------------------------
(***************************************************************************)
(* The variables of LogFile and AppendFile keep their types, for any sizes *)
(* and intervals; _count stays below checkEveryN, and the period that is   *)
(* compared with the clock is the day in which the file was opened.        *)
(***************************************************************************)
THEOREM TypeCorrect == Spec => []TypeOK
<1>1. IndInv => TypeOK
  BY DEF IndInv
<1>. QED
  BY AlwaysInv, <1>1, PTL

(***************************************************************************)
(* Every record for which AppendFile::append returned true is in the open  *)
(* file once, whole and in one piece, over any number of short and failed  *)
(* writes, and _writtenBytes is the size of these records.                 *)
(***************************************************************************)
THEOREM AcceptedAreWhole == Spec => []AcceptedIsWhole
<1>. QED
  BY AlwaysInv, RunsAreWhole, PTL

(***************************************************************************)
(* While the clock is not set back, fewer than checkEveryN appends in a    *)
(* row leave the file of another day open or bytes unflushed for longer    *)
(* than the flush interval.                                                *)
(***************************************************************************)
THEOREM OverdueAreNoticed == Spec => []OverdueIsNoticed
<1>. QED
  BY AlwaysInv, CountIsSmall, PTL
=============================================================================
