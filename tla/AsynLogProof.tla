----------------------------- MODULE AsynLogProof -----------------------------
(***************************************************************************)
(* Proofs about AsynLog, for records and buffers of any size and any limit *)
(* of the backlog: the assertions of threadFUNC about its spare buffers    *)
(* hold, records are given to the LogFile once and in the order of the     *)
(* calls to append, and the current buffer always has a byte free.         *)
(***************************************************************************)
EXTENDS AsynLog, SequenceTheorems, WellFoundedInduction, TLAPS

(***************************************************************************)
(* The shape of the state: TypeOK without what it says of the file and the *)
(* room in a buffer, which the assertions do not depend on.                *)
(***************************************************************************)
Shape ==
    /\ sizes \in Seq(Nat)
    /\ curBuffer \in Buffers
    /\ hasNext \in BOOLEAN
    /\ pBuffers \in Seq(Buffers)
    /\ pc \in Places
    /\ spare1 \in BOOLEAN /\ spare2 \in BOOLEAN
    /\ toWrite \in Seq(Buffers)

(***************************************************************************)
(* The inductive invariant.  That enough written buffers remain at the end *)
(* of a round is decided before it begins: append() only takes the next    *)
(* buffer away when it hands a full one over, so that the critical section *)
(* gives the second spare away only with two buffers to write.             *)
(***************************************************************************)
NextMissingMeansFull == ~hasNext => pBuffers # <<>>

SparesBetweenRounds ==
    pc \notin {"write", "recycle", "aborted"} => spare1 /\ spare2 /\ toWrite = <<>>

EnoughToRecycle ==
    pc \in {"write", "recycle"} => toWrite # <<>> /\ Len(toWrite) >= Missing

IndInv ==
    /\ Shape
    /\ NextMissingMeansFull
    /\ SparesBetweenRounds
    /\ EnoughToRecycle

-----------------------------------------------------------------------------
\* What was a list of buffers of records still is one when a record is added.
LEMMA BuffersGrow ==
    ASSUME sizes \in Seq(Nat), NEW n \in Nat, sizes' = Append(sizes, n)
    PROVE  /\ sizes' \in Seq(Nat)
           /\ Records \subseteq Records'
           /\ Buffers \subseteq Buffers'
           /\ Seq(Buffers) \subseteq Seq(Buffers')
           /\ Len(sizes) + 1 \in Records'
<1>1. /\ sizes' \in Seq(Nat)
      /\ Records \subseteq Records' /\ Len(sizes) + 1 \in Records'
  BY DEF Records
<1>2. Buffers \subseteq Buffers'
  BY <1>1, SeqMonotonic DEF Buffers
<1>3. Seq(Buffers) \subseteq Seq(Buffers')
  BY <1>2, SeqMonotonic
<1>. QED
  BY <1>1, <1>2, <1>3

\* Cutting a backlog leaves buffers enough for the two spares.
LEMMA CutKeepsTwo ==
    ASSUME toWrite \in Seq(Buffers)
    PROVE  /\ Keep \in Seq(Buffers)
           /\ Len(Keep) = Len(toWrite) \/ Len(Keep) = 2
<1>1. CASE Len(toWrite) > MaxBuffers
  <2>1. Len(toWrite) \in Nat /\ 2 <= Len(toWrite)
    BY <1>1, LogAssumption
  <2>2. Keep = SubSeq(toWrite, 1, 2)
    BY <1>1 DEF Keep, Backlog
  <2>. QED
    BY <2>1, <2>2
<1>2. CASE ~(Len(toWrite) > MaxBuffers)
  BY <1>2 DEF Keep, Backlog
<1>. QED
  BY <1>1, <1>2

\* At most both spares are missing.
LEMMA MissingIsSmall ==
    /\ Missing \in 0 .. 2
    /\ spare1 /\ spare2 => Missing = 0
    /\ spare2 => Missing <= 1
  BY DEF Missing

\* A logger that was just constructed satisfies the inductive invariant.
LEMMA InitInv == Init => IndInv
<1> SUFFICES ASSUME Init
             PROVE  IndInv
  OBVIOUS
<1>1. Shape
  <2>1. <<>> \in Buffers
    BY DEF Buffers
  <2>. QED
    BY <2>1 DEF Init, Shape, Places
<1>. QED
  BY <1>1 DEF Init, IndInv, NextMissingMeansFull, SparesBetweenRounds, EnoughToRecycle

-----------------------------------------------------------------------------
\* The critical section keeps the invariant, whatever there is to swap out.
LEMMA SwapOutInv ==
    ASSUME IndInv, pc = "lock", SwapOut
    PROVE  IndInv'
<1> USE DEF IndInv
<1>1. spare1 /\ spare2 /\ toWrite = <<>>
  BY DEF SparesBetweenRounds
<1>2. Buffers' = Buffers
  BY DEF SwapOut, Buffers, Records
<1>3. /\ toWrite' = Append(pBuffers, curBuffer)
      /\ toWrite' \in Seq(Buffers)
      /\ Len(toWrite') = Len(pBuffers) + 1
      /\ Len(pBuffers) \in Nat
  BY DEF SwapOut, Shape
<1>4. /\ pBuffers' = <<>> /\ curBuffer' = <<>>
      /\ spare1' = FALSE /\ spare2' = hasNext /\ hasNext' = TRUE
      /\ pc' = "write" /\ sizes' = sizes
  BY <1>1 DEF SwapOut, Refill, Shape
<1>5. Shape'
  <2>1. <<>> \in Buffers /\ <<>> \in Seq(Buffers)
    BY DEF Buffers
  <2>. QED
    BY <1>2, <1>3, <1>4, <2>1 DEF Shape, Places
<1>6. EnoughToRecycle'
  <2>1. CASE hasNext
    <3>1. Missing' = 1
      BY <1>4, <2>1 DEF Missing
    <3>. QED
      BY <1>3, <3>1 DEF EnoughToRecycle
  <2>2. CASE ~hasNext
    <3>1. Missing' = 2
      BY <1>4, <2>2 DEF Missing
    <3>2. Len(pBuffers) >= 1
      BY <2>2, <1>3 DEF NextMissingMeansFull, Shape
    <3>. QED
      BY <1>3, <3>1, <3>2 DEF EnoughToRecycle
  <2>. QED
    BY <2>1, <2>2
<1>. QED
  BY <1>4, <1>5, <1>6 DEF NextMissingMeansFull, SparesBetweenRounds
-----------------------------------------------------------------------------
\* append() with a record of any length, not only one of those in Lens: the
\* lines of log statements are appended too.
AnyAppend == \E len \in Nat : AppendRecord(len)

\* Every step of the callers and of the log thread keeps the invariant.
LEMMA NextInv == IndInv /\ ([Next]_vars \/ AnyAppend) => IndInv'
<1> SUFFICES ASSUME IndInv, [Next]_vars \/ AnyAppend
             PROVE  IndInv'
  OBVIOUS
<1> USE DEF IndInv
<1>1. CASE Start
  BY <1>1 DEF Start, shared, Shape, Places, Buffers, Records, Missing,
              NextMissingMeansFull, SparesBetweenRounds, EnoughToRecycle
<1>2. CASE Stop
  BY <1>2 DEF Stop, shared, Shape, Buffers, Records, Missing,
              NextMissingMeansFull, SparesBetweenRounds, EnoughToRecycle
<1>3. ASSUME NEW len \in Nat, AppendRecord(len)
      PROVE  IndInv'
  <2>1. UNCHANGED <<pc, spare1, spare2, toWrite>>
    BY <1>3 DEF AppendRecord
  <2>2. PICK n \in Nat : sizes' = Append(sizes, n)
    <3>1. Stored(len) \in Nat
      BY LogAssumption DEF Stored, NullLength
    <3>. QED
      BY <1>3, <3>1 DEF AppendRecord
  <2>3. /\ sizes' \in Seq(Nat)
        /\ Buffers \subseteq Buffers' /\ Seq(Buffers) \subseteq Seq(Buffers')
        /\ Len(sizes) + 1 \in Records'
    BY <2>2, BuffersGrow DEF Shape
  <2>4. curBuffer' \in Buffers'
    <3>1. PICK buffer \in Buffers :
             curBuffer' = buffer \/ curBuffer' = Append(buffer, Len(sizes) + 1)
      <4>1. <<>> \in Buffers /\ curBuffer \in Buffers
        BY DEF Buffers, Shape
      <4>. QED
        BY <1>3, <4>1 DEF AppendRecord
    <3>. QED
      BY <2>3, <3>1 DEF Buffers
  <2>5. pBuffers' \in Seq(Buffers') /\ NextMissingMeansFull'
    <3>1. CASE NoRoom(len)
      <4>1. pBuffers' = Append(pBuffers, curBuffer)
        BY <1>3, <3>1 DEF AppendRecord, HandOver
      <4>2. pBuffers' \in Seq(Buffers) /\ pBuffers' # <<>>
        BY <4>1 DEF Shape
      <4>. QED
        BY <2>3, <4>2 DEF NextMissingMeansFull
    <3>2. CASE ~NoRoom(len)
      <4>1. pBuffers' = pBuffers /\ hasNext' = hasNext
        BY <1>3, <3>2 DEF AppendRecord, HandOver, Shape
      <4>. QED
        BY <2>3, <4>1 DEF NextMissingMeansFull, Shape
    <3>. QED
      BY <3>1, <3>2
  <2>6. Shape'
    <3>1. hasNext' \in BOOLEAN
      BY <1>3 DEF AppendRecord, HandOver
    <3>2. toWrite' \in Seq(Buffers')
      BY <2>1, <2>3 DEF Shape
    <3>. QED
      BY <2>1, <2>3, <2>4, <2>5, <3>1, <3>2, Zenon DEF Shape
  <2>. QED
    BY <2>1, <2>5, <2>6 DEF SparesBetweenRounds, EnoughToRecycle, Missing
<1>4. CASE ThreadBegins
  BY <1>4 DEF ThreadBegins, shared, Shape, Places, Buffers, Records, Missing,
              NextMissingMeansFull, SparesBetweenRounds, EnoughToRecycle
<1>5. CASE Top
  BY <1>5 DEF Top, shared, Shape, Places, Buffers, Records, Missing,
              NextMissingMeansFull, SparesBetweenRounds, EnoughToRecycle
<1>6. CASE TakeRecords
  BY <1>6, SwapOutInv DEF TakeRecords
<1>7. CASE TakeNothing
  BY <1>7, SwapOutInv DEF TakeNothing
<1>8. CASE WriteBuffers
  <2>1. /\ pc = "write" /\ pc' = "recycle"
        /\ toWrite' = Keep
        /\ UNCHANGED <<curBuffer, hasNext, pBuffers, sizes, spare1, spare2>>
    BY <1>8 DEF WriteBuffers, shared
  <2>2. Keep \in Seq(Buffers) /\ (Len(Keep) = Len(toWrite) \/ Len(Keep) = 2)
    BY CutKeepsTwo DEF Shape
  <2>3. Keep # <<>> /\ Len(Keep) >= Missing
    <3>1. toWrite # <<>> /\ Len(toWrite) >= Missing
      BY <2>1 DEF EnoughToRecycle
    <3>2. Len(toWrite) >= 1
      BY <3>1 DEF Shape
    <3>3. Missing \in 0 .. 2
      BY MissingIsSmall
    <3>4. Len(Keep) >= Missing /\ Len(Keep) >= 1
      BY <2>2, <3>1, <3>2, <3>3
    <3>. QED
      BY <2>2, <3>4
  <2>4. Missing' = Missing
    BY <2>1 DEF Missing
  <2>5. Shape'
    BY <2>1, <2>2 DEF Shape, Places, Buffers, Records
  <2>. QED
    BY <2>1, <2>3, <2>4, <2>5
       DEF NextMissingMeansFull, SparesBetweenRounds, EnoughToRecycle
<1>9. CASE Recycle
  <2>1. <<>> \in Seq(Buffers)
    OBVIOUS
  <2>. QED
    BY <1>9, <2>1 DEF Recycle, shared, Shape, Places, Buffers, Records,
                      NextMissingMeansFull, SparesBetweenRounds, EnoughToRecycle
<1>10. CASE Abort
  BY <1>10 DEF Abort, shared, Shape, Places, Buffers, Records, Missing,
               NextMissingMeansFull, SparesBetweenRounds, EnoughToRecycle
<1>11. CASE UNCHANGED vars
  BY <1>11 DEF vars, shared, Shape, Buffers, Records, Missing,
               NextMissingMeansFull, SparesBetweenRounds, EnoughToRecycle
<1>12. CASE Disk
  BY <1>12 DEF Disk, DiskFills, DiskFreed, shared, Shape, Buffers, Records, Missing,
               NextMissingMeansFull, SparesBetweenRounds, EnoughToRecycle
<1>. QED
  BY <1>1, <1>2, <1>3, <1>4, <1>5, <1>6, <1>7, <1>8, <1>9, <1>10, <1>11, <1>12,
     LogAssumption
     DEF Next, ThreadStep, AnyAppend

\* The inductive invariant contains the assertions of the code.
LEMMA InvGivesSpares == IndInv => SparesSuffice
  BY DEF IndInv, SparesBetweenRounds, EnoughToRecycle, SparesSuffice

\* The inductive invariant always holds.
LEMMA AlwaysInv == Spec => []IndInv
<1>. QED
  BY InitInv, NextInv, PTL DEF Spec

-----------------------------------------------------------------------------
(***************************************************************************)
(* Lists of buffers, for the order of the records.                         *)
(***************************************************************************)

\* The records of a list are those at its positions.
LEMMA RecordsAre ==
    ASSUME NEW P \in Seq(Seq(Nat)), NEW r
    PROVE  r \in RecordsOf(P)
             <=> \E i \in 1 .. Len(P) : \E m \in 1 .. Len(P[i]) : P[i][m] = r
<1>1. DOMAIN P = 1 .. Len(P)
  OBVIOUS
<1>2. ASSUME NEW i \in 1 .. Len(P)
      PROVE  DOMAIN P[i] = 1 .. Len(P[i])
  <2>1. P[i] \in Seq(Nat)
    BY ElementOfSeq
  <2>. QED
    BY <2>1
<1>3. RecordsOf(P) = UNION {ToSet(P[i]) : i \in 1 .. Len(P)}
  BY <1>1, Zenon DEF RecordsOf
<1>4. ASSUME NEW i \in 1 .. Len(P)
      PROVE  r \in ToSet(P[i]) <=> \E m \in 1 .. Len(P[i]) : P[i][m] = r
  <2>1. ToSet(P[i]) = {P[i][m] : m \in 1 .. Len(P[i])}
    BY <1>2, Zenon DEF ToSet
  <2>. QED
    BY <2>1
<1>5. r \in RecordsOf(P) <=> \E i \in 1 .. Len(P) : r \in ToSet(P[i])
  BY <1>3
<1>. QED
  BY <1>4, <1>5, Zenon

\* The order, by the positions.
LEMMA InOrderAre ==
    ASSUME NEW P \in Seq(Seq(Nat))
    PROVE  InOrder(P)
             <=> \A i, j \in 1 .. Len(P) :
                    \A m \in 1 .. Len(P[i]), n \in 1 .. Len(P[j]) :
                        i < j \/ (i = j /\ m < n) => P[i][m] < P[j][n]
<1>1. DOMAIN P = 1 .. Len(P)
  OBVIOUS
<1>2. ASSUME NEW i \in 1 .. Len(P)
      PROVE  DOMAIN P[i] = 1 .. Len(P[i])
  <2>1. P[i] \in Seq(Nat)
    BY ElementOfSeq
  <2>. QED
    BY <2>1
<1>. QED
  BY <1>1, <1>2, Zenon DEF InOrder

\* Another buffer that is empty changes neither the order nor the records.
LEMMA AnotherEmpty ==
    ASSUME NEW P \in Seq(Seq(Nat)), InOrder(P)
    PROVE  /\ Append(P, <<>>) \in Seq(Seq(Nat))
           /\ InOrder(Append(P, <<>>))
           /\ RecordsOf(Append(P, <<>>)) = RecordsOf(P)
<1> DEFINE Q == Append(P, <<>>)
<1>1. <<>> \in Seq(Nat) /\ Len(<<>>) = 0
  OBVIOUS
<1>2. /\ Q \in Seq(Seq(Nat))
      /\ Len(Q) = Len(P) + 1 /\ Len(P) \in Nat
      /\ \A i \in 1 .. Len(P) : Q[i] = P[i]
      /\ Q[Len(P) + 1] = <<>>
  BY <1>1, AppendProperties, LenProperties
<1> HIDE DEF Q
<1>3. ASSUME NEW i \in 1 .. Len(Q), NEW m \in 1 .. Len(Q[i])
      PROVE  i \in 1 .. Len(P) /\ Q[i] = P[i]
  <2>1. CASE i = Len(P) + 1
    <3>1. Len(Q[i]) = 0
      BY <1>1, <1>2, <2>1
    <3>. QED
      BY <3>1
  <2>2. CASE i # Len(P) + 1
    <3>1. i \in 1 .. Len(P)
      BY <1>2, <2>2
    <3>. QED
      BY <1>2, <3>1
  <2>. QED
    BY <2>1, <2>2
<1>4. InOrder(Q)
  <2>1. \A i, j \in 1 .. Len(P) :
            \A m \in 1 .. Len(P[i]), n \in 1 .. Len(P[j]) :
                i < j \/ (i = j /\ m < n) => P[i][m] < P[j][n]
    BY InOrderAre
  <2>2. ASSUME NEW i \in 1 .. Len(Q), NEW j \in 1 .. Len(Q),
               NEW m \in 1 .. Len(Q[i]), NEW n \in 1 .. Len(Q[j]),
               i < j \/ (i = j /\ m < n)
        PROVE  Q[i][m] < Q[j][n]
    <3>1. i \in 1 .. Len(P) /\ Q[i] = P[i]
      BY <1>3
    <3>2. j \in 1 .. Len(P) /\ Q[j] = P[j]
      BY <1>3
    <3>. QED
      BY <2>1, <2>2, <3>1, <3>2
  <2>. QED
    BY <1>2, <2>2, InOrderAre
<1>5. ASSUME NEW r
      PROVE  r \in RecordsOf(Q) <=> r \in RecordsOf(P)
  <2>1. r \in RecordsOf(Q)
          <=> \E i \in 1 .. Len(Q) : \E m \in 1 .. Len(Q[i]) : Q[i][m] = r
    BY <1>2, RecordsAre
  <2>2. r \in RecordsOf(P)
          <=> \E i \in 1 .. Len(P) : \E m \in 1 .. Len(P[i]) : P[i][m] = r
    BY RecordsAre
  <2>3. ASSUME NEW i \in 1 .. Len(P)
        PROVE  i \in 1 .. Len(Q) /\ Q[i] = P[i]
    BY <1>2
  <2>. QED
    BY <1>3, <2>1, <2>2, <2>3, Zenon
<1>. QED
  BY <1>2, <1>4, <1>5, Zenon DEF Q

\* A record put behind all others into the last buffer keeps the order.
LEMMA AnotherRecord ==
    ASSUME NEW P \in Seq(Seq(Nat)), NEW c \in Seq(Nat), InOrder(Append(P, c)),
           NEW r \in Nat, \A x \in RecordsOf(Append(P, c)) : x < r
    PROVE  /\ Append(P, Append(c, r)) \in Seq(Seq(Nat))
           /\ InOrder(Append(P, Append(c, r)))
           /\ RecordsOf(Append(P, Append(c, r))) = RecordsOf(Append(P, c)) \cup {r}
<1> DEFINE O == Append(P, c)
           d == Append(c, r)
           Q == Append(P, d)
           last == Len(P) + 1
<1>1. /\ O \in Seq(Seq(Nat)) /\ Len(O) = last /\ O[last] = c
      /\ \A i \in 1 .. Len(P) : O[i] = P[i]
  BY AppendProperties
<1>2. /\ d \in Seq(Nat) /\ Len(d) = Len(c) + 1 /\ d[Len(c) + 1] = r
      /\ \A m \in 1 .. Len(c) : d[m] = c[m]
  BY AppendProperties
<1> HIDE DEF d
<1>3. /\ Q \in Seq(Seq(Nat)) /\ Len(Q) = last /\ Q[last] = d
      /\ \A i \in 1 .. Len(P) : Q[i] = P[i]
  BY <1>2, AppendProperties
<1>4. Len(P) \in Nat /\ Len(c) \in Nat
  OBVIOUS
<1> HIDE DEF O, Q
\* a place of Q is that of r or one of O
<1>5. ASSUME NEW i \in 1 .. Len(Q), NEW m \in 1 .. Len(Q[i]),
             ~(i = last /\ m = Len(c) + 1)
      PROVE  i \in 1 .. Len(O) /\ m \in 1 .. Len(O[i]) /\ Q[i][m] = O[i][m]
  <2>1. CASE i = last
    <3>1. Q[i] = d /\ O[i] = c /\ i \in 1 .. Len(O)
      BY <1>1, <1>3, <1>4, <2>1
    <3>2. m \in 1 .. Len(c)
      BY <1>2, <1>4, <1>5, <2>1, <3>1
    <3>. QED
      BY <1>2, <3>1, <3>2
  <2>2. CASE i # last
    <3>1. i \in 1 .. Len(P)
      BY <1>3, <1>4, <2>2
    <3>2. Q[i] = O[i] /\ i \in 1 .. Len(O)
      BY <1>1, <1>3, <1>4, <3>1
    <3>. QED
      BY <3>2
  <2>. QED
    BY <2>1, <2>2
<1>6. ASSUME NEW i \in 1 .. Len(O), NEW m \in 1 .. Len(O[i])
      PROVE  i \in 1 .. Len(Q) /\ m \in 1 .. Len(Q[i]) /\ Q[i][m] = O[i][m]
  <2>1. CASE i = last
    <3>1. Q[i] = d /\ O[i] = c /\ i \in 1 .. Len(Q)
      BY <1>1, <1>3, <1>4, <2>1
    <3>2. m \in 1 .. Len(c) /\ m \in 1 .. Len(d)
      BY <1>2, <1>4, <3>1
    <3>. QED
      BY <1>2, <3>1, <3>2
  <2>2. CASE i # last
    <3>1. i \in 1 .. Len(P)
      BY <1>1, <1>4, <2>2
    <3>2. Q[i] = O[i] /\ i \in 1 .. Len(Q)
      BY <1>1, <1>3, <1>4, <3>1
    <3>. QED
      BY <3>2
  <2>. QED
    BY <2>1, <2>2
<1>7. last \in 1 .. Len(Q) /\ Len(c) + 1 \in 1 .. Len(Q[last]) /\ Q[last][Len(c) + 1] = r
  BY <1>2, <1>3, <1>4
<1>8. ASSUME NEW x
      PROVE  x \in RecordsOf(O)
               <=> \E i \in 1 .. Len(O) : \E m \in 1 .. Len(O[i]) : O[i][m] = x
  BY <1>1, RecordsAre
<1>9. InOrder(Q)
  <2>1. \A i, j \in 1 .. Len(O) :
            \A m \in 1 .. Len(O[i]), n \in 1 .. Len(O[j]) :
                i < j \/ (i = j /\ m < n) => O[i][m] < O[j][n]
    BY <1>1, InOrderAre DEF O
  <2>2. ASSUME NEW i \in 1 .. Len(Q), NEW j \in 1 .. Len(Q),
               NEW m \in 1 .. Len(Q[i]), NEW n \in 1 .. Len(Q[j]),
               i < j \/ (i = j /\ m < n)
        PROVE  Q[i][m] < Q[j][n]
    <3>1. ~(i = last /\ m = Len(c) + 1)
      BY <1>2, <1>3, <1>4, <2>2
    <3>2. i \in 1 .. Len(O) /\ m \in 1 .. Len(O[i]) /\ Q[i][m] = O[i][m]
      BY <1>5, <3>1
    <3>3. CASE j = last /\ n = Len(c) + 1
      <4>1. O[i][m] \in RecordsOf(O)
        BY <1>8, <3>2
      <4>2. O[i][m] < r
        BY <4>1 DEF O
      <4>. QED
        BY <1>7, <3>2, <3>3, <4>2
    <3>4. CASE ~(j = last /\ n = Len(c) + 1)
      <4>1. j \in 1 .. Len(O) /\ n \in 1 .. Len(O[j]) /\ Q[j][n] = O[j][n]
        BY <1>5, <3>4
      <4>. QED
        BY <2>1, <2>2, <3>2, <4>1
    <3>. QED
      BY <3>3, <3>4
  <2>. QED
    BY <1>3, <2>2, InOrderAre
<1>10. ASSUME NEW x
       PROVE  x \in RecordsOf(Q) <=> x \in RecordsOf(O) \/ x = r
  <2>1. x \in RecordsOf(Q)
          <=> \E i \in 1 .. Len(Q) : \E m \in 1 .. Len(Q[i]) : Q[i][m] = x
    BY <1>3, RecordsAre
  <2>2. ASSUME x \in RecordsOf(Q)
        PROVE  x \in RecordsOf(O) \/ x = r
    <3>1. PICK i \in 1 .. Len(Q) : \E m \in 1 .. Len(Q[i]) : Q[i][m] = x
      BY <2>1, <2>2
    <3>2. PICK m \in 1 .. Len(Q[i]) : Q[i][m] = x
      BY <3>1
    <3>3. CASE i = last /\ m = Len(c) + 1
      BY <1>7, <3>2, <3>3
    <3>4. CASE ~(i = last /\ m = Len(c) + 1)
      BY <1>5, <1>8, <3>2, <3>4
    <3>. QED
      BY <3>3, <3>4
  <2>3. ASSUME x \in RecordsOf(O)
        PROVE  x \in RecordsOf(Q)
    <3>1. PICK i \in 1 .. Len(O) : \E m \in 1 .. Len(O[i]) : O[i][m] = x
      BY <1>8, <2>3
    <3>2. PICK m \in 1 .. Len(O[i]) : O[i][m] = x
      BY <3>1
    <3>. QED
      BY <1>6, <2>1, <3>2
  <2>4. ASSUME x = r
        PROVE  x \in RecordsOf(Q)
    BY <1>7, <2>1, <2>4, Zenon
  <2>. QED
    BY <2>2, <2>3, <2>4
<1>. QED
  BY <1>3, <1>9, <1>10, Zenon DEF O, Q, d

\* A list whose full buffers are some of another one's, at places h in the same
\* order, is in order if the other is.
LEMMA Thinned ==
    ASSUME NEW P \in Seq(Seq(Nat)), InOrder(P), NEW Q \in Seq(Seq(Nat)),
           NEW h \in [1 .. Len(Q) -> Int],
           \A i \in 1 .. Len(Q) :
               Len(Q[i]) = 0 \/ (h[i] \in 1 .. Len(P) /\ Q[i] = P[h[i]]),
           \A i, j \in 1 .. Len(Q) :
               i < j /\ Len(Q[i]) # 0 /\ Len(Q[j]) # 0 => h[i] < h[j]
    PROVE  InOrder(Q)
<1>1. \A i, j \in 1 .. Len(P) :
          \A m \in 1 .. Len(P[i]), n \in 1 .. Len(P[j]) :
              i < j \/ (i = j /\ m < n) => P[i][m] < P[j][n]
  BY InOrderAre
<1>2. ASSUME NEW i \in 1 .. Len(Q), NEW j \in 1 .. Len(Q),
             NEW m \in 1 .. Len(Q[i]), NEW n \in 1 .. Len(Q[j]),
             i < j \/ (i = j /\ m < n)
      PROVE  Q[i][m] < Q[j][n]
  <2>1. Len(Q[i]) # 0 /\ Len(Q[j]) # 0
    OBVIOUS
  <2>2. h[i] \in 1 .. Len(P) /\ Q[i] = P[h[i]]
    BY <2>1
  <2>3. h[j] \in 1 .. Len(P) /\ Q[j] = P[h[j]]
    BY <2>1
  <2>4. h[i] < h[j] \/ (h[i] = h[j] /\ m < n)
    BY <1>2, <2>1
  <2>. QED
    BY <1>1, <2>2, <2>3, <2>4
<1>. QED
  BY <1>2, InOrderAre

\* The records of two lists, one behind the other; in order, none is in both.
LEMMA TwoLists ==
    ASSUME NEW A \in Seq(Seq(Nat)), NEW B \in Seq(Seq(Nat))
    PROVE  /\ A \o B \in Seq(Seq(Nat))
           /\ RecordsOf(A \o B) = RecordsOf(A) \cup RecordsOf(B)
           /\ InOrder(A \o B) => RecordsOf(A) \cap RecordsOf(B) = {}
<1> DEFINE C == A \o B
<1>1. /\ C \in Seq(Seq(Nat)) /\ Len(C) = Len(A) + Len(B)
      /\ Len(A) \in Nat /\ Len(B) \in Nat
      /\ \A i \in 1 .. Len(A) + Len(B) : C[i] = IF i <= Len(A) THEN A[i] ELSE B[i - Len(A)]
  BY ConcatProperties
<1> HIDE DEF C
<1>2. ASSUME NEW i \in 1 .. Len(A)
      PROVE  i \in 1 .. Len(C) /\ C[i] = A[i]
  BY <1>1
<1>3. ASSUME NEW j \in 1 .. Len(B), NEW k, k = Len(A) + j
      PROVE  k \in 1 .. Len(C) /\ C[k] = B[j]
  <2>1. k \in 1 .. Len(A) + Len(B) /\ ~(k <= Len(A)) /\ k - Len(A) = j
    BY <1>1, <1>3
  <2>. QED
    BY <1>1, <2>1
<1>4. ASSUME NEW k \in 1 .. Len(C)
      PROVE  \/ k \in 1 .. Len(A) /\ C[k] = A[k]
             \/ \E j \in 1 .. Len(B) : C[k] = B[j]
  <2>1. CASE k <= Len(A)
    BY <1>1, <2>1
  <2>2. CASE ~(k <= Len(A))
    <3>1. k - Len(A) \in 1 .. Len(B) /\ C[k] = B[k - Len(A)]
      BY <1>1, <2>2
    <3>. QED
      BY <3>1
  <2>. QED
    BY <2>1, <2>2
<1>5. ASSUME NEW x
      PROVE  /\ x \in RecordsOf(A)
                  <=> \E i \in 1 .. Len(A) : \E m \in 1 .. Len(A[i]) : A[i][m] = x
             /\ x \in RecordsOf(B)
                  <=> \E i \in 1 .. Len(B) : \E m \in 1 .. Len(B[i]) : B[i][m] = x
             /\ x \in RecordsOf(C)
                  <=> \E i \in 1 .. Len(C) : \E m \in 1 .. Len(C[i]) : C[i][m] = x
  BY <1>1, RecordsAre
<1>6. ASSUME NEW x
      PROVE  x \in RecordsOf(C) <=> x \in RecordsOf(A) \/ x \in RecordsOf(B)
  <2>1. ASSUME x \in RecordsOf(C)
        PROVE  x \in RecordsOf(A) \/ x \in RecordsOf(B)
    <3>1. PICK k \in 1 .. Len(C) : \E m \in 1 .. Len(C[k]) : C[k][m] = x
      BY <1>5, <2>1
    <3>. QED
      BY <1>4, <1>5, <3>1
  <2>2. ASSUME x \in RecordsOf(A)
        PROVE  x \in RecordsOf(C)
    BY <1>2, <1>5, <2>2
  <2>3. ASSUME x \in RecordsOf(B)
        PROVE  x \in RecordsOf(C)
    <3>1. PICK j \in 1 .. Len(B) : \E m \in 1 .. Len(B[j]) : B[j][m] = x
      BY <1>5, <2>3
    <3>. QED
      BY <1>3, <1>5, <3>1
  <2>. QED
    BY <2>1, <2>2, <2>3
<1>7. ASSUME InOrder(C), NEW x \in RecordsOf(A), x \in RecordsOf(B)
      PROVE  FALSE
  <2>1. PICK i \in 1 .. Len(A) : \E m \in 1 .. Len(A[i]) : A[i][m] = x
    BY <1>5, <1>7
  <2>2. PICK m \in 1 .. Len(A[i]) : A[i][m] = x
    BY <2>1
  <2>3. PICK j \in 1 .. Len(B) : \E n \in 1 .. Len(B[j]) : B[j][n] = x
    BY <1>5, <1>7
  <2>4. PICK n \in 1 .. Len(B[j]) : B[j][n] = x
    BY <2>3
  <2>5. PICK k : k = Len(A) + j
    OBVIOUS
  <2>6. k \in 1 .. Len(C) /\ C[k] = B[j] /\ i \in 1 .. Len(C) /\ C[i] = A[i] /\ i < k
    BY <1>1, <1>2, <1>3, <2>5
  <2>7. \A a, b \in 1 .. Len(C) :
            \A u \in 1 .. Len(C[a]), v \in 1 .. Len(C[b]) :
                a < b \/ (a = b /\ u < v) => C[a][u] < C[b][v]
    BY <1>1, <1>7, InOrderAre
  <2>8. C[i][m] < C[k][n]
    BY <2>2, <2>4, <2>6, <2>7
  <2>9. x < x
    BY <2>2, <2>4, <2>6, <2>8
  <2>10. x \in Nat
    <3>1. A[i] \in Seq(Nat)
      BY ElementOfSeq
    <3>. QED
      BY <2>2, <3>1
  <2>. QED
    BY <2>9, <2>10
<1>. QED
  BY <1>1, <1>6, <1>7, Zenon DEF C

\* Appending to the second of two lists appends to both together.
LEMMA Behind ==
    ASSUME NEW S, NEW A \in Seq(S), NEW B \in Seq(S), NEW e \in S
    PROVE  A \o Append(B, e) = Append(A \o B, e)
<1>1. Append(B, e) = B \o <<e>> /\ <<e>> \in Seq(S)
  BY AppendIsConcat
<1>2. A \o B \in Seq(S)
  BY ConcatProperties
<1>3. Append(A \o B, e) = (A \o B) \o <<e>>
  BY <1>2, AppendIsConcat
<1>4. (A \o B) \o <<e>> = A \o (B \o <<e>>)
  BY <1>1, ConcatAssociative
<1>. QED
  BY <1>1, <1>3, <1>4

\* The places of three lists, one behind the other.
LEMMA ThreeLists ==
    ASSUME NEW S, NEW A \in Seq(S), NEW B \in Seq(S), NEW C \in Seq(S)
    PROVE  /\ (A \o B) \o C \in Seq(S)
           /\ Len((A \o B) \o C) = Len(A) + Len(B) + Len(C)
           /\ \A i \in 1 .. Len(A) : ((A \o B) \o C)[i] = A[i]
           /\ \A j \in 1 .. Len(B) : \A k : k = Len(A) + j => ((A \o B) \o C)[k] = B[j]
           /\ \A j \in 1 .. Len(C) : \A k :
                 k = Len(A) + Len(B) + j => ((A \o B) \o C)[k] = C[j]
<1>1. Len(A) \in Nat /\ Len(B) \in Nat /\ Len(C) \in Nat
  OBVIOUS
<1>2. ASSUME NEW U \in Seq(S), NEW V \in Seq(S)
      PROVE  /\ U \o V \in Seq(S) /\ Len(U \o V) = Len(U) + Len(V)
             /\ \A i \in 1 .. Len(U) : (U \o V)[i] = U[i]
             /\ \A j \in 1 .. Len(V) : \A k : k = Len(U) + j => (U \o V)[k] = V[j]
  <2>1. /\ U \o V \in Seq(S) /\ Len(U \o V) = Len(U) + Len(V)
        /\ \A i \in 1 .. Len(U) + Len(V) :
              (U \o V)[i] = IF i <= Len(U) THEN U[i] ELSE V[i - Len(U)]
        /\ Len(U) \in Nat /\ Len(V) \in Nat
    BY ConcatProperties
  <2>2. ASSUME NEW j \in 1 .. Len(V), NEW k, k = Len(U) + j
        PROVE  (U \o V)[k] = V[j]
    <3>1. k \in 1 .. Len(U) + Len(V) /\ ~(k <= Len(U)) /\ k - Len(U) = j
      BY <2>1, <2>2
    <3>. QED
      BY <2>1, <3>1
  <2>3. ASSUME NEW i \in 1 .. Len(U)
        PROVE  (U \o V)[i] = U[i]
    <3>1. i \in 1 .. Len(U) + Len(V) /\ i <= Len(U)
      BY <2>1
    <3>. QED
      BY <2>1, <3>1
  <2>. QED
    BY <2>1, <2>2, <2>3
<1> DEFINE D == A \o B
           E == D \o C
<1>3. /\ D \in Seq(S) /\ Len(D) = Len(A) + Len(B)
      /\ \A i \in 1 .. Len(A) : D[i] = A[i]
      /\ \A j \in 1 .. Len(B) : \A k : k = Len(A) + j => D[k] = B[j]
  BY <1>2
<1> HIDE DEF D
<1>4. /\ E \in Seq(S) /\ Len(E) = Len(D) + Len(C)
      /\ \A i \in 1 .. Len(D) : E[i] = D[i]
      /\ \A j \in 1 .. Len(C) : \A k : k = Len(D) + j => E[k] = C[j]
  BY <1>2, <1>3
<1> HIDE DEF E
<1>5. ASSUME NEW i \in 1 .. Len(A)
      PROVE  E[i] = A[i]
  <2>1. i \in 1 .. Len(D)
    BY <1>1, <1>3
  <2>. QED
    BY <1>3, <1>4, <2>1
<1>6. ASSUME NEW j \in 1 .. Len(B), NEW k, k = Len(A) + j
      PROVE  E[k] = B[j]
  <2>1. k \in 1 .. Len(D)
    BY <1>1, <1>3, <1>6
  <2>. QED
    BY <1>3, <1>4, <1>6, <2>1
<1>7. ASSUME NEW j \in 1 .. Len(C), NEW k, k = Len(A) + Len(B) + j
      PROVE  E[k] = C[j]
  BY <1>3, <1>4, <1>7
<1>. QED
  BY <1>1, <1>3, <1>4, <1>5, <1>6, <1>7 DEF D, E

-----------------------------------------------------------------------------
(***************************************************************************)
(* The second invariant: the order, and where the records are.             *)
(***************************************************************************)
OrderInv ==
    /\ file \in Seq(Buffers)
    /\ dropped \subseteq Records
    /\ KeptInOrder

\* what comes before the full buffers
Outside == file \o (IF pc = "write" THEN toWrite ELSE <<>>)

\* what the current buffer is behind
Handed == Outside \o pBuffers

\* The pipeline is a list of lists of numbers that ends with the current buffer.
LEMMA PipelineShape ==
    ASSUME Shape, file \in Seq(Buffers)
    PROVE  /\ Seq(Buffers) \subseteq Seq(Seq(Nat))
           /\ Outside \in Seq(Seq(Nat)) /\ Handed \in Seq(Seq(Nat))
           /\ Pipeline = Append(Handed, curBuffer)
           /\ Pipeline = Outside \o Append(pBuffers, curBuffer)
           /\ Pipeline \in Seq(Seq(Nat))
           /\ RecordsOf(Pipeline) \subseteq Records
<1>1. Records \subseteq Nat
  BY DEF Records
<1>2. Buffers \subseteq Seq(Nat)
  BY <1>1, SeqMonotonic DEF Buffers
<1>3. Seq(Buffers) \subseteq Seq(Seq(Nat))
  BY <1>2, SeqMonotonic
<1>4. curBuffer \in Buffers /\ pBuffers \in Seq(Buffers) /\ toWrite \in Seq(Buffers)
  BY DEF Shape
<1>5. Outside \in Seq(Buffers)
  <2>1. (IF pc = "write" THEN toWrite ELSE <<>>) \in Seq(Buffers)
    BY <1>4, EmptySeq
  <2>. QED
    BY <2>1, ConcatProperties DEF Outside
<1>6. Handed \in Seq(Buffers)
  BY <1>4, <1>5, ConcatProperties DEF Handed
<1>7. Pipeline = Outside \o Append(pBuffers, curBuffer)
  BY DEF Pipeline, Outside
<1>8. Outside \o Append(pBuffers, curBuffer) = Append(Handed, curBuffer)
  BY <1>4, <1>5, Behind DEF Handed
<1>9. Pipeline \in Seq(Buffers)
  BY <1>4, <1>6, <1>7, <1>8, AppendProperties
<1>10. ASSUME NEW r \in RecordsOf(Pipeline)
       PROVE  r \in Records
  <2>1. Pipeline \in Seq(Seq(Nat))
    BY <1>3, <1>9
  <2>2. \E i \in 1 .. Len(Pipeline) : \E m \in 1 .. Len(Pipeline[i]) : Pipeline[i][m] = r
    BY <2>1, RecordsAre
  <2>3. PICK i \in 1 .. Len(Pipeline) : \E m \in 1 .. Len(Pipeline[i]) : Pipeline[i][m] = r
    BY <2>2
  <2>4. PICK m \in 1 .. Len(Pipeline[i]) : Pipeline[i][m] = r
    BY <2>3
  <2>5. Pipeline[i] \in Seq(Records)
    BY <1>9, ElementOfSeq DEF Buffers
  <2>. QED
    BY <2>4, <2>5, ElementOfSeq
<1>. QED
  BY <1>3, <1>5, <1>6, <1>7, <1>8, <1>9, <1>10

\* A step that leaves the lists alone keeps the order.
LEMMA SameOrder ==
    ASSUME OrderInv, UNCHANGED <<sizes, file, pBuffers, curBuffer, dropped>>,
           Alive' => Alive,
           (IF pc = "write" THEN toWrite ELSE <<>>)'
             = (IF pc = "write" THEN toWrite ELSE <<>>) \/ ~Alive'
    PROVE  OrderInv'
<1>1. file' \in Seq(Buffers)' /\ dropped' \subseteq Records'
  BY DEF OrderInv, Buffers, Records
<1>2. ASSUME Alive'
      PROVE  /\ (InOrder(Pipeline))' /\ (RecordsOf(Pipeline))' = (Kept \ dropped)'
  <2>1. Pipeline' = Pipeline
    BY <1>2 DEF Pipeline
  <2>2. InOrder(Pipeline) /\ RecordsOf(Pipeline) = Kept \ dropped
    BY <1>2 DEF OrderInv, KeptInOrder
  <2>3. Kept' = Kept /\ dropped' = dropped
    BY DEF Kept, Records
  <2>. QED
    BY <2>1, <2>2, <2>3 DEF InOrder, RecordsOf
<1>. QED
  BY <1>1, <1>2 DEF OrderInv, KeptInOrder

\* The first state satisfies the second invariant: there are no records.
LEMMA OrderInit == Init => OrderInv
<1> SUFFICES ASSUME Init
             PROVE  OrderInv
  OBVIOUS
<1>1. Shape /\ file \in Seq(Buffers) /\ dropped = {} /\ Records = {}
  BY InitInv DEF IndInv, Init, Records
<1>2. Pipeline = <<<<>>>>
  BY DEF Init, Pipeline
<1>3. InOrder(Pipeline)
  BY <1>2 DEF InOrder
<1>4. RecordsOf(Pipeline) = {} /\ Kept = {}
  BY <1>1, PipelineShape DEF Kept
<1>. QED
  BY <1>1, <1>3, <1>4 DEF OrderInv, KeptInOrder

\* What append() does to the pipeline: a new last buffer or the same one, and
\* into it the record, if it is taken.
LEMMA AppendOrder ==
    ASSUME Shape, OrderInv, NEW len \in Nat, AppendRecord(len)
    PROVE  OrderInv'
<1> DEFINE n == Len(sizes)
           handed == IF NoRoom(len) THEN Pipeline ELSE Handed
           buffer == IF NoRoom(len) THEN <<>> ELSE curBuffer
           taken == Takes(Cap, Used(buffer), len)
<1>1. /\ n \in Nat /\ sizes \in Seq(Nat)
      /\ curBuffer \in Buffers /\ pBuffers \in Seq(Buffers)
      /\ file \in Seq(Buffers) /\ dropped \subseteq Records
      /\ Buffers \subseteq Seq(Nat) /\ Seq(Buffers) \subseteq Seq(Seq(Nat))
  <2>1. Records \subseteq Nat
    BY DEF Records
  <2>2. Buffers \subseteq Seq(Nat)
    BY <2>1, SeqMonotonic DEF Buffers
  <2>3. Seq(Buffers) \subseteq Seq(Seq(Nat))
    BY <2>2, SeqMonotonic
  <2>. QED
    BY <2>2, <2>3 DEF Shape, OrderInv
<1>2. /\ Outside \in Seq(Seq(Nat)) /\ Handed \in Seq(Seq(Nat))
      /\ Pipeline = Append(Handed, curBuffer)
      /\ Pipeline = Outside \o Append(pBuffers, curBuffer)
      /\ Pipeline \in Seq(Seq(Nat))
      /\ RecordsOf(Pipeline) \subseteq Records
  BY <1>1, PipelineShape
<1>3. /\ Alive /\ Alive' /\ UNCHANGED <<pc, toWrite, file, dropped>>
      /\ pBuffers' = IF NoRoom(len) THEN Append(pBuffers, curBuffer) ELSE pBuffers
      /\ \/ /\ taken
            /\ sizes' = Append(sizes, Stored(len))
            /\ curBuffer' = Append(buffer, n + 1)
         \/ /\ ~taken
            /\ sizes' = Append(sizes, 0)
            /\ curBuffer' = buffer
  BY DEF AppendRecord, HandOver, Alive, written
<1>4. InOrder(Pipeline) /\ RecordsOf(Pipeline) = Kept \ dropped
  BY <1>3 DEF OrderInv, KeptInOrder
\* the numbers and the sizes
<1>5. /\ Records' = Records \cup {n + 1} /\ n + 1 \notin Records
      /\ Buffers \subseteq Buffers' /\ Seq(Buffers) \subseteq Seq(Buffers')
  <2>1. Stored(len) \in Nat
    BY DEF Stored, NullLength
  <2>2. PICK v \in Nat : sizes' = Append(sizes, v)
    BY <1>3, <2>1
  <2>3. Len(sizes') = n + 1
    BY <1>1, <2>2
  <2>4. Records' = Records \cup {n + 1} /\ n + 1 \notin Records
    BY <1>1, <2>3 DEF Records
  <2>. QED
    BY <1>1, <2>2, <2>4, BuffersGrow
<1>6. Kept' = IF taken THEN Kept \cup {n + 1} ELSE Kept
  <2>1. Stored(len) \in Nat /\ Stored(len) > 0
    BY DEF Stored, NullLength
  <2>2. ASSUME NEW v \in Nat, sizes' = Append(sizes, v)
        PROVE  Kept' = Kept \cup (IF v > 0 THEN {n + 1} ELSE {})
    <3>1. /\ \A r \in Records : sizes'[r] = sizes[r]
          /\ sizes'[n + 1] = v
      BY <1>1, <2>2, AppendProperties DEF Records
    <3>. QED
      BY <1>5, <3>1 DEF Kept
  <2>3. CASE taken
    BY <1>3, <2>1, <2>2, <2>3
  <2>4. CASE ~taken
    <3>1. sizes' = Append(sizes, 0)
      BY <1>3, <2>4
    <3>2. Kept' = Kept \cup (IF 0 > 0 THEN {n + 1} ELSE {})
      BY <2>2, <3>1, Zenon
    <3>. QED
      BY <2>4, <3>2
  <2>. QED
    BY <2>3, <2>4
<1>7. \A x \in RecordsOf(Pipeline) : x < n + 1
  BY <1>1, <1>2 DEF Records
\* the pipeline before the record is stored
<1>8. /\ handed \in Seq(Seq(Nat)) /\ buffer \in Seq(Nat)
      /\ InOrder(Append(handed, buffer))
      /\ RecordsOf(Append(handed, buffer)) = RecordsOf(Pipeline)
  <2>1. CASE NoRoom(len)
    <3>1. handed = Pipeline /\ buffer = <<>>
      BY <2>1, Zenon
    <3>2. curBuffer \in Seq(Nat) /\ <<>> \in Seq(Nat)
      BY <1>1
    <3>3. InOrder(Append(Pipeline, <<>>)) /\ RecordsOf(Append(Pipeline, <<>>)) = RecordsOf(Pipeline)
      BY <1>2, <1>4, AnotherEmpty
    <3> HIDE DEF handed, buffer
    <3>. QED
      BY <1>2, <3>1, <3>2, <3>3
  <2>2. CASE ~NoRoom(len)
    BY <1>1, <1>2, <1>4, <2>2
  <2>. QED
    BY <2>1, <2>2
<1>9. Pipeline' = Append(handed, curBuffer')
  <2>1. Outside' = Outside
    BY <1>3 DEF Outside
  <2>2. Pipeline' = Outside \o Append(pBuffers', curBuffer')
    BY <2>1 DEF Pipeline, Outside
  <2>3. curBuffer' \in Seq(Nat)
    <3>1. Append(buffer, n + 1) \in Seq(Nat)
      <4> HIDE DEF buffer
      <4>. QED
        BY <1>1, <1>8, AppendProperties
    <3> HIDE DEF buffer, taken
    <3>. QED
      BY <1>3, <1>8, <3>1
  <2>4. pBuffers' \in Seq(Seq(Nat)) /\ Outside \o pBuffers' = handed
    <3>1. CASE NoRoom(len)
      <4>1. pBuffers' = Append(pBuffers, curBuffer)
        BY <1>3, <3>1
      <4>2. pBuffers \in Seq(Seq(Nat)) /\ curBuffer \in Seq(Nat)
        BY <1>1
      <4>. QED
        BY <1>2, <3>1, <4>1, <4>2, AppendProperties
    <3>2. CASE ~NoRoom(len)
      BY <1>1, <1>3, <3>2 DEF Handed
    <3>. QED
      BY <3>1, <3>2
  <2> HIDE DEF handed
  <2>5. Outside \o Append(pBuffers', curBuffer') = Append(Outside \o pBuffers', curBuffer')
    BY <1>2, <2>3, <2>4, Behind
  <2>. QED
    BY <2>2, <2>4, <2>5
<1> HIDE DEF handed, buffer, taken
<1>10. InOrder(Pipeline') /\ RecordsOf(Pipeline') = Kept' \ dropped'
  <2>1. CASE taken
    <3>1. Pipeline' = Append(handed, Append(buffer, n + 1))
      BY <1>3, <1>9, <2>1
    <3>2. /\ InOrder(Append(handed, Append(buffer, n + 1)))
          /\ RecordsOf(Append(handed, Append(buffer, n + 1)))
               = RecordsOf(Append(handed, buffer)) \cup {n + 1}
      <4>1. n + 1 \in Nat /\ \A x \in RecordsOf(Append(handed, buffer)) : x < n + 1
        BY <1>1, <1>7, <1>8
      <4> HIDE DEF n
      <4>. QED
        BY <1>8, <4>1, AnotherRecord
    <3>3. n + 1 \notin dropped
      BY <1>1, <1>5
    <3>. QED
      BY <1>3, <1>4, <1>6, <1>8, <2>1, <3>1, <3>2, <3>3
  <2>2. CASE ~taken
    BY <1>3, <1>4, <1>6, <1>8, <1>9, <2>2
  <2>. QED
    BY <2>1, <2>2
<1>11. file' \in Seq(Buffers') /\ dropped' \subseteq Records'
  BY <1>1, <1>3, <1>5
<1>. QED
  BY <1>10, <1>11 DEF OrderInv, KeptInOrder, InOrder, RecordsOf

\* The critical section puts an empty buffer behind the pipeline.
LEMMA SwapOutOrder ==
    ASSUME IndInv, OrderInv, pc = "lock", SwapOut
    PROVE  OrderInv'
<1>1. /\ UNCHANGED <<sizes, file, dropped>> /\ Alive
      /\ toWrite' = Append(pBuffers, curBuffer)
      /\ pBuffers' = <<>> /\ curBuffer' = <<>> /\ pc' = "write"
  BY DEF SwapOut, IndInv, SparesBetweenRounds, written, Alive
<1>2. Shape /\ file \in Seq(Buffers)
  BY DEF IndInv, OrderInv
<1>3. /\ curBuffer \in Buffers /\ pBuffers \in Seq(Buffers)
      /\ Seq(Buffers) \subseteq Seq(Seq(Nat))
      /\ Outside \in Seq(Seq(Nat)) /\ Handed \in Seq(Seq(Nat))
      /\ Pipeline = Append(Handed, curBuffer)
      /\ Pipeline = Outside \o Append(pBuffers, curBuffer)
  BY <1>2, PipelineShape DEF Shape
<1>4. Pipeline \in Seq(Seq(Nat))
  BY <1>2, PipelineShape
<1>5. Pipeline = file \o Append(pBuffers, curBuffer)
  <2>1. Outside = file
    BY <1>2, ConcatEmptySeq DEF Outside
  <2>. QED
    BY <1>3, <2>1
<1>6. Pipeline' = Append(Pipeline, <<>>)
  <2>1. Pipeline' = (file \o Append(pBuffers, curBuffer)) \o Append(<<>>, <<>>)
    BY <1>1 DEF Pipeline
  <2>2. Append(<<>>, <<>>) = <<<<>>>>
    OBVIOUS
  <2>3. <<>> \in Seq(Nat)
    OBVIOUS
  <2>4. Append(Pipeline, <<>>) = Pipeline \o <<<<>>>>
    BY <1>4, <2>3, AppendIsConcat
  <2>. QED
    BY <1>5, <2>1, <2>2, <2>4
<1>7. InOrder(Pipeline) /\ RecordsOf(Pipeline) = Kept \ dropped
  BY <1>1 DEF OrderInv, KeptInOrder
<1>8. InOrder(Pipeline') /\ RecordsOf(Pipeline') = RecordsOf(Pipeline)
  BY <1>4, <1>6, <1>7, AnotherEmpty
<1>9. Kept' = Kept
  BY <1>1 DEF Kept, Records
<1>10. file' \in Seq(Buffers') /\ dropped' \subseteq Records'
  BY <1>1 DEF OrderInv, Buffers, Records
<1>. QED
  BY <1>1, <1>7, <1>8, <1>9, <1>10 DEF OrderInv, KeptInOrder, InOrder, RecordsOf

\* Writing the first buffers of a round behind the file, with an empty one
\* between, and leaving the others out keeps the order.
LEMMA WriteInOrder ==
    ASSUME NEW F \in Seq(Seq(Nat)), NEW T \in Seq(Seq(Nat)), NEW R \in Seq(Seq(Nat)),
           NEW N \in Seq(Seq(Nat)), NEW G \in Seq(Seq(Nat)),
           \A i \in 1 .. Len(N) : Len(N[i]) = 0,
           Len(G) <= Len(T), \A i \in 1 .. Len(G) : G[i] = T[i],
           InOrder((F \o T) \o R)
    PROVE  InOrder(((F \o N) \o G) \o R)
<1> DEFINE f == Len(F)  t == Len(T)  r == Len(R)  n == Len(N)  g == Len(G)
           P == (F \o T) \o R
           Q == ((F \o N) \o G) \o R
<1>1. f \in Nat /\ t \in Nat /\ r \in Nat /\ n \in Nat /\ g \in Nat
  OBVIOUS
\* the places of P
<1>2. /\ P \in Seq(Seq(Nat)) /\ Len(P) = f + t + r
      /\ \A i \in 1 .. f : P[i] = F[i]
      /\ \A j \in 1 .. t : \A k : k = f + j => P[k] = T[j]
      /\ \A j \in 1 .. r : \A k : k = f + t + j => P[k] = R[j]
  <2>1. PICK S : S = Seq(Nat)
    OBVIOUS
  <2>2. F \in Seq(S) /\ T \in Seq(S) /\ R \in Seq(S)
    BY <2>1
  <2> HIDE DEF f, t, r, P
  <2>3. (F \o T) \o R \in Seq(S) /\ Len((F \o T) \o R) = Len(F) + Len(T) + Len(R)
    BY <2>2, ThreeLists
  <2>4. \A i \in 1 .. Len(F) : ((F \o T) \o R)[i] = F[i]
    BY <2>2, ThreeLists
  <2>5. ASSUME NEW j \in 1 .. Len(T), NEW k, k = Len(F) + j
        PROVE  ((F \o T) \o R)[k] = T[j]
    BY <2>2, <2>5, ThreeLists
  <2>6. ASSUME NEW j \in 1 .. Len(R), NEW k, k = Len(F) + Len(T) + j
        PROVE  ((F \o T) \o R)[k] = R[j]
    BY <2>2, <2>6, ThreeLists
  <2>. QED
    BY <2>1, <2>3, <2>4, <2>5, <2>6, Zenon DEF P, f, t, r
\* the places of Q
<1>3. /\ Q \in Seq(Seq(Nat)) /\ Len(Q) = f + n + g + r
      /\ \A i \in 1 .. f : Q[i] = F[i]
      /\ \A j \in 1 .. n : \A k : k = f + j => Q[k] = N[j]
      /\ \A j \in 1 .. g : \A k : k = f + n + j => Q[k] = G[j]
      /\ \A j \in 1 .. r : \A k : k = f + n + g + j => Q[k] = R[j]
  <2> DEFINE A == F \o N
             B == A \o <<>>
  <2>1. <<>> \in Seq(Seq(Nat)) /\ Len(<<>>) = 0
    OBVIOUS
  <2>2. /\ B \in Seq(Seq(Nat)) /\ Len(B) = f + n + 0
        /\ \A i \in 1 .. f : B[i] = F[i]
        /\ \A j \in 1 .. n : \A k : k = f + j => B[k] = N[j]
    BY <2>1, ThreeLists
  <2>3. A \in Seq(Seq(Nat)) /\ B = A
    <3>1. A \in Seq(Seq(Nat))
      BY ConcatProperties
    <3>. QED
      BY <3>1, ConcatEmptySeq
  <2> HIDE DEF A, B
  <2>4. /\ (A \o G) \o R \in Seq(Seq(Nat)) /\ Len((A \o G) \o R) = Len(A) + g + r
        /\ \A i \in 1 .. Len(A) : ((A \o G) \o R)[i] = A[i]
        /\ \A j \in 1 .. g : \A k : k = Len(A) + j => ((A \o G) \o R)[k] = G[j]
        /\ \A j \in 1 .. r : \A k : k = Len(A) + g + j => ((A \o G) \o R)[k] = R[j]
    <3>1. PICK S : S = Seq(Nat)
      OBVIOUS
    <3>2. A \in Seq(S) /\ G \in Seq(S) /\ R \in Seq(S)
      BY <2>3, <3>1
    <3> HIDE DEF f, n, P, Q
    <3>3. (A \o G) \o R \in Seq(S) /\ Len((A \o G) \o R) = Len(A) + Len(G) + Len(R)
      BY <3>2, ThreeLists
    <3>4. \A i \in 1 .. Len(A) : ((A \o G) \o R)[i] = A[i]
      BY <3>2, ThreeLists
    <3>5. ASSUME NEW j \in 1 .. Len(G), NEW k, k = Len(A) + j
          PROVE  ((A \o G) \o R)[k] = G[j]
      BY <3>2, <3>5, ThreeLists
    <3>6. ASSUME NEW j \in 1 .. Len(R), NEW k, k = Len(A) + Len(G) + j
          PROVE  ((A \o G) \o R)[k] = R[j]
      BY <3>2, <3>6, ThreeLists
    <3>. QED
      BY <3>1, <3>3, <3>4, <3>5, <3>6, Zenon DEF g, r
  <2>5. Q = (A \o G) \o R
    BY DEF A
  <2> HIDE DEF Q, f, n, g, r
  <2>6. Len(A) = f + n
    BY <1>1, <2>2, <2>3
  <2>7. ASSUME NEW i \in 1 .. f
        PROVE  Q[i] = F[i]
    <3>1. i \in 1 .. Len(A)
      BY <1>1, <2>6
    <3>. QED
      BY <2>2, <2>3, <2>4, <2>5, <3>1
  <2>8. ASSUME NEW j \in 1 .. n, NEW k, k = f + j
        PROVE  Q[k] = N[j]
    <3>1. k \in 1 .. Len(A)
      BY <1>1, <2>6, <2>8
    <3>. QED
      BY <2>2, <2>3, <2>4, <2>5, <2>8, <3>1
  <2>9. Q \in Seq(Seq(Nat)) /\ Len(Q) = f + n + g + r
    BY <2>4, <2>5, <2>6
  <2>10. ASSUME NEW j \in 1 .. g, NEW k, k = f + n + j
         PROVE  Q[k] = G[j]
    BY <2>4, <2>5, <2>6, <2>10
  <2>11. ASSUME NEW j \in 1 .. r, NEW k, k = f + n + g + j
         PROVE  Q[k] = R[j]
    BY <2>4, <2>5, <2>6, <2>11
  <2>. QED
    BY <2>7, <2>8, <2>9, <2>10, <2>11, Zenon
<1> DEFINE h == [i \in 1 .. Len(Q) |-> IF i <= f THEN i
                                        ELSE IF i <= f + n + g THEN i - n
                                        ELSE i - n - g + t]
<1> HIDE DEF P, Q, f, t, r, n, g
<1>4. h \in [1 .. Len(Q) -> Int]
  BY <1>1, <1>3
<1>5. ASSUME NEW i \in 1 .. Len(Q)
      PROVE  Len(Q[i]) = 0 \/ (h[i] \in 1 .. Len(P) /\ Q[i] = P[h[i]])
  <2>1. CASE i <= f
    <3>1. i \in 1 .. f /\ h[i] = i /\ i \in 1 .. Len(P)
      BY <1>1, <1>2, <2>1 DEF h
    <3>. QED
      BY <1>2, <1>3, <3>1
  <2>2. CASE f < i /\ i <= f + n
    <3>1. i - f \in 1 .. n /\ i = f + (i - f)
      BY <1>1, <2>2
    <3>2. Q[i] = N[i - f]
      BY <1>3, <3>1
    <3>. QED
      BY <3>1, <3>2 DEF n
  <2>3. CASE f + n < i /\ i <= f + n + g
    <3>1. PICK j \in 1 .. g : i = f + n + j
      <4>1. i - f - n \in 1 .. g /\ i = f + n + (i - f - n)
        BY <1>1, <2>3
      <4>. QED
        BY <4>1
    <3>2. h[i] = f + j
      BY <1>1, <2>3, <3>1 DEF h
    <3>3. j \in 1 .. t
      BY <1>1, <3>1 DEF g, t
    <3>4. Q[i] = G[j] /\ P[h[i]] = T[j]
      BY <1>2, <1>3, <3>1, <3>2, <3>3
    <3>5. G[j] = T[j]
      BY <3>1 DEF g
    <3>6. f + j \in 1 .. Len(P)
      BY <1>1, <1>2, <3>3
    <3>. QED
      BY <3>2, <3>4, <3>5, <3>6
  <2>4. CASE f + n + g < i
    <3>1. PICK j \in 1 .. r : i = f + n + g + j
      <4>1. i - f - n - g \in 1 .. r /\ i = f + n + g + (i - f - n - g)
        BY <1>1, <1>3, <2>4
      <4>. QED
        BY <4>1
    <3>2. h[i] = f + t + j
      BY <1>1, <2>4, <3>1 DEF h
    <3>3. Q[i] = R[j] /\ P[h[i]] = R[j]
      BY <1>2, <1>3, <3>1, <3>2
    <3>4. f + t + j \in 1 .. Len(P)
      BY <1>1, <1>2
    <3>. QED
      BY <3>2, <3>3, <3>4
  <2>. QED
    BY <1>1, <2>1, <2>2, <2>3, <2>4
<1>6. ASSUME NEW i \in 1 .. Len(Q), NEW j \in 1 .. Len(Q),
             i < j, Len(Q[i]) # 0, Len(Q[j]) # 0
      PROVE  h[i] < h[j]
  <2>1. ASSUME NEW k \in 1 .. Len(Q), Len(Q[k]) # 0
        PROVE  k <= f \/ f + n < k
    <3>1. SUFFICES ASSUME f < k, k <= f + n
                   PROVE  FALSE
      BY <1>1
    <3>2. k - f \in 1 .. n /\ k = f + (k - f)
      BY <1>1, <3>1
    <3>3. Q[k] = N[k - f]
      BY <1>3, <3>2
    <3>. QED
      BY <2>1, <3>2, <3>3 DEF n
  <2>2. (i <= f \/ f + n < i) /\ (j <= f \/ f + n < j)
    BY <1>6, <2>1
  <2>3. g <= t
    BY DEF g, t
  <2>. QED
    BY <1>1, <1>6, <2>2, <2>3
<1> HIDE DEF h
<1>7. InOrder(P)
  BY DEF P
<1>8. InOrder(Q)
  BY <1>2, <1>3, <1>4, <1>5, <1>6, <1>7, Thinned
<1>. QED
  BY <1>8 DEF Q

\* The buffers that are written are the first ones of the round, and the empty
\* one that is left out, the last, has no records.
LEMMA GivenIsStart ==
    ASSUME NEW S, S \subseteq Seq(Nat), toWrite \in Seq(S), toWrite # <<>>
    PROVE  /\ Given \in Seq(S) /\ Keep \in Seq(S)
           /\ Len(Given) <= Len(toWrite)
           /\ \A i \in 1 .. Len(Given) : Given[i] = toWrite[i]
           /\ RecordsOf(Given) = RecordsOf(Keep)
           /\ RecordsOf(Keep) \subseteq RecordsOf(toWrite)
<1>1. /\ Keep \in Seq(S) /\ Len(Keep) \in 1 .. Len(toWrite)
      /\ \A i \in 1 .. Len(Keep) : Keep[i] = toWrite[i]
  <2>1. Len(toWrite) \in Nat /\ Len(toWrite) >= 1
    OBVIOUS
  <2>2. CASE Backlog
    <3>1. 2 <= Len(toWrite)
      BY <2>1, <2>2, LogAssumption DEF Backlog
    <3>2. \A i \in 1 .. 2 : toWrite[i] \in S
      BY <2>1, <3>1
    <3>3. Keep = SubSeq(toWrite, 1, 2)
      BY <2>2 DEF Keep
    <3>4. /\ Keep \in Seq(S) /\ Len(Keep) = 2
          /\ \A i \in 1 .. 2 : Keep[i] = toWrite[i]
      BY <3>2, <3>3, SubSeqProperties
    <3>. QED
      BY <2>1, <3>1, <3>4
  <2>3. CASE ~Backlog
    BY <2>1, <2>3 DEF Keep
  <2>. QED
    BY <2>2, <2>3
<1> DEFINE k == Len(Keep)
<1>2. /\ Given \in Seq(S) /\ Len(Given) \in {k - 1, k}
      /\ \A i \in 1 .. Len(Given) : Given[i] = Keep[i]
      /\ Len(Given) = k \/ Keep[k] = <<>>
  <2>1. CASE Last(Keep) = <<>>
    <3>1. Given = SubSeq(Keep, 1, k - 1) /\ Keep[k] = <<>>
      BY <2>1 DEF Given, Front, Last
    <3>2. \A i \in 1 .. k - 1 : Keep[i] \in S
      BY <1>1
    <3>3. /\ Given \in Seq(S) /\ Len(Given) = k - 1
          /\ \A i \in 1 .. k - 1 : Given[i] = Keep[i]
      <4>1. k \in Int /\ k - 1 \in Int /\ 1 \in Int /\ k >= 1
        BY <1>1
      <4> HIDE DEF k
      <4>2. /\ SubSeq(Keep, 1, k - 1) \in Seq(S)
            /\ Len(SubSeq(Keep, 1, k - 1)) = IF 1 <= k - 1 THEN (k - 1) - 1 + 1 ELSE 0
            /\ \A i \in 1 .. (k - 1) - 1 + 1 : SubSeq(Keep, 1, k - 1)[i] = Keep[1 + i - 1]
        BY <3>2, <4>1, SubSeqProperties
      <4>3. Len(Given) = k - 1
        BY <3>1, <4>1, <4>2
      <4>4. ASSUME NEW i \in 1 .. k - 1
            PROVE  Given[i] = Keep[i]
        <5>1. i \in 1 .. (k - 1) - 1 + 1 /\ 1 + i - 1 = i
          BY <4>1
        <5>. QED
          BY <3>1, <4>2, <5>1
      <4>. QED
        BY <3>1, <4>2, <4>3, <4>4
    <3>. QED
      BY <3>1, <3>3
  <2>2. CASE Last(Keep) # <<>>
    BY <1>1, <2>2 DEF Given
  <2>. QED
    BY <2>1, <2>2
<1>3. /\ Len(Given) <= Len(toWrite)
      /\ \A i \in 1 .. Len(Given) : Given[i] = toWrite[i]
  <2>1. k \in Nat /\ k <= Len(toWrite) /\ \A i \in 1 .. k : Keep[i] = toWrite[i]
    BY <1>1
  <2>. QED
    BY <1>2, <2>1
<1>4. /\ Given \in Seq(Seq(Nat)) /\ Keep \in Seq(Seq(Nat)) /\ toWrite \in Seq(Seq(Nat))
  <2>1. Seq(S) \subseteq Seq(Seq(Nat))
    BY SeqMonotonic
  <2>. QED
    BY <1>1, <1>2, <2>1
<1>5. ASSUME NEW x
      PROVE  /\ x \in RecordsOf(Given)
                  <=> \E i \in 1 .. Len(Given) : \E m \in 1 .. Len(Given[i]) : Given[i][m] = x
             /\ x \in RecordsOf(Keep)
                  <=> \E i \in 1 .. Len(Keep) : \E m \in 1 .. Len(Keep[i]) : Keep[i][m] = x
             /\ x \in RecordsOf(toWrite)
                  <=> \E i \in 1 .. Len(toWrite) :
                         \E m \in 1 .. Len(toWrite[i]) : toWrite[i][m] = x
  BY <1>4, RecordsAre
<1>6. ASSUME NEW i \in 1 .. Len(Keep), NEW m \in 1 .. Len(Keep[i])
      PROVE  i \in 1 .. Len(Given)
  <2>1. CASE Len(Given) = k
    BY <2>1
  <2>2. CASE Keep[k] = <<>> /\ Len(Given) = k - 1
    <3>1. i # k
      <4>1. Len(Keep[k]) = 0
        BY <2>2
      <4>. QED
        BY <4>1
    <3>. QED
      BY <1>1, <2>2, <3>1
  <2>. QED
    BY <1>2, <2>1, <2>2
<1>7. \A i \in 1 .. Len(Given) : i \in 1 .. Len(Keep)
  BY <1>1, <1>2
<1>8. \A i \in 1 .. Len(Keep) : i \in 1 .. Len(toWrite)
  BY <1>1
<1>9. ASSUME NEW x
      PROVE  x \in RecordsOf(Given) <=> x \in RecordsOf(Keep)
  BY <1>2, <1>5, <1>6, <1>7, Zenon
<1>10. ASSUME NEW x \in RecordsOf(Keep)
       PROVE  x \in RecordsOf(toWrite)
  BY <1>1, <1>5, <1>8, Zenon
<1>. QED
  BY <1>1, <1>2, <1>3, <1>9, <1>10

\* Writing a round keeps the order, and what the cut drops is accounted for.
LEMMA WriteOrder ==
    ASSUME IndInv, OrderInv, WriteBuffers
    PROVE  OrderInv'
<1> DEFINE R == Append(pBuffers, curBuffer)
<1>1. /\ pc = "write" /\ pc' = "recycle" /\ toWrite # <<>>
      /\ file' = (file \o Notice) \o Given
      /\ dropped' = dropped \cup (RecordsOf(toWrite) \ RecordsOf(Keep))
      /\ UNCHANGED <<sizes, pBuffers, curBuffer>>
  BY DEF WriteBuffers, shared, IndInv, EnoughToRecycle
<1>2. /\ toWrite \in Seq(Buffers) /\ file \in Seq(Buffers) /\ dropped \subseteq Records
      /\ pBuffers \in Seq(Buffers) /\ curBuffer \in Buffers
  BY DEF IndInv, Shape, OrderInv
<1>3. Seq(Buffers) \subseteq Seq(Seq(Nat)) /\ Buffers \subseteq Seq(Nat)
  <2>1. Records \subseteq Nat
    BY DEF Records
  <2>2. Buffers \subseteq Seq(Nat)
    BY <2>1, SeqMonotonic DEF Buffers
  <2>. QED
    BY <2>2, SeqMonotonic
<1>4. /\ Given \in Seq(Buffers) /\ Keep \in Seq(Buffers)
      /\ Len(Given) <= Len(toWrite)
      /\ \A i \in 1 .. Len(Given) : Given[i] = toWrite[i]
      /\ RecordsOf(Given) = RecordsOf(Keep)
      /\ RecordsOf(Keep) \subseteq RecordsOf(toWrite)
  BY <1>1, <1>2, <1>3, GivenIsStart
<1>5. /\ Notice \in Seq(Buffers)
      /\ \A i \in 1 .. Len(Notice) : Len(Notice[i]) = 0
      /\ RecordsOf(Notice) = {}
  <2>1. CASE Backlog
    <3>1. Notice = <<<<>>>> /\ <<>> \in Buffers
      BY <2>1 DEF Notice, Buffers
    <3>2. Len(Notice) = 1 /\ Notice[1] = <<>>
      BY <3>1
    <3>3. RecordsOf(Notice) = {}
      BY <3>1 DEF RecordsOf, ToSet
    <3>. QED
      BY <3>1, <3>2, <3>3
  <2>2. CASE ~Backlog
    <3>1. Notice = <<>>
      BY <2>2 DEF Notice
    <3>. QED
      BY <3>1 DEF RecordsOf
  <2>. QED
    BY <2>1, <2>2
<1>6. R \in Seq(Buffers)
  BY <1>2, AppendProperties
<1>7. InOrder(Pipeline) /\ RecordsOf(Pipeline) = Kept \ dropped
  BY <1>1 DEF OrderInv, KeptInOrder, Alive
<1>8. Pipeline = (file \o toWrite) \o R
  BY <1>1 DEF Pipeline
<1>9. (file \o Notice) \o Given \in Seq(Buffers)
  BY <1>2, <1>4, <1>5, ConcatProperties
<1>10. Pipeline' = ((file \o Notice) \o Given) \o R
  <2>1. Pipeline' = (file' \o <<>>) \o R
    BY <1>1 DEF Pipeline
  <2>2. file' \o <<>> = file'
    BY <1>1, <1>9, ConcatEmptySeq
  <2>. QED
    BY <1>1, <2>1, <2>2
<1>11. /\ toWrite \in Seq(Seq(Nat)) /\ file \in Seq(Seq(Nat)) /\ R \in Seq(Seq(Nat))
       /\ Given \in Seq(Seq(Nat)) /\ Keep \in Seq(Seq(Nat)) /\ Notice \in Seq(Seq(Nat))
  BY <1>2, <1>3, <1>4, <1>5, <1>6
<1> HIDE DEF R
<1>12. InOrder(Pipeline')
  BY <1>4, <1>5, <1>7, <1>8, <1>10, <1>11, WriteInOrder
<1>13. RecordsOf(Pipeline') = Kept \ dropped'
  <2>1. /\ file \o toWrite \in Seq(Seq(Nat))
        /\ RecordsOf(file \o toWrite) = RecordsOf(file) \cup RecordsOf(toWrite)
    BY <1>11, TwoLists
  <2>2. /\ RecordsOf(Pipeline) = RecordsOf(file \o toWrite) \cup RecordsOf(R)
        /\ RecordsOf(file \o toWrite) \cap RecordsOf(R) = {}
    BY <1>7, <1>8, <1>11, <2>1, TwoLists
  <2>3. /\ toWrite \o R \in Seq(Seq(Nat))
        /\ RecordsOf(toWrite \o R) = RecordsOf(toWrite) \cup RecordsOf(R)
    BY <1>11, TwoLists
  <2>4. RecordsOf(file) \cap RecordsOf(toWrite \o R) = {}
    <3>1. (file \o toWrite) \o R = file \o (toWrite \o R)
      <4>1. PICK S : S = Seq(Nat)
        OBVIOUS
      <4>2. file \in Seq(S) /\ toWrite \in Seq(S) /\ R \in Seq(S)
        BY <1>11, <4>1
      <4>. QED
        BY <4>2, ConcatAssociative
    <3>2. Pipeline = file \o (toWrite \o R)
      BY <1>8, <3>1
    <3>. QED
      BY <1>7, <1>11, <2>3, <3>2, TwoLists
  <2>5. /\ file \o Notice \in Seq(Seq(Nat))
        /\ RecordsOf(file \o Notice) = RecordsOf(file) \cup RecordsOf(Notice)
    BY <1>11, TwoLists
  <2>6. /\ (file \o Notice) \o Given \in Seq(Seq(Nat))
        /\ RecordsOf((file \o Notice) \o Given)
             = RecordsOf(file \o Notice) \cup RecordsOf(Given)
    BY <1>11, <2>5, TwoLists
  <2>7. RecordsOf(Pipeline') = RecordsOf((file \o Notice) \o Given) \cup RecordsOf(R)
    BY <1>10, <1>11, <2>6, TwoLists
  <2>8. RecordsOf(Pipeline') = RecordsOf(file) \cup RecordsOf(Keep) \cup RecordsOf(R)
    BY <1>4, <1>5, <2>5, <2>6, <2>7
  <2>. QED
    BY <1>1, <1>4, <1>7, <2>1, <2>2, <2>3, <2>4, <2>8
<1>14. Kept' = Kept
  BY <1>1 DEF Kept, Records
<1>15. file' \in Seq(Buffers') /\ dropped' \subseteq Records'
  <2>1. Buffers' = Buffers /\ Records' = Records
    BY <1>1 DEF Buffers, Records
  <2>2. RecordsOf(toWrite) \subseteq Records
    <3>1. ASSUME NEW x \in RecordsOf(toWrite)
          PROVE  x \in Records
      <4>1. PICK i \in 1 .. Len(toWrite) : \E m \in 1 .. Len(toWrite[i]) : toWrite[i][m] = x
        BY <1>11, RecordsAre
      <4>2. toWrite[i] \in Seq(Records)
        BY <1>2, ElementOfSeq DEF Buffers
      <4>. QED
        BY <4>1, <4>2, ElementOfSeq
    <3>. QED
      BY <3>1
  <2>. QED
    BY <1>1, <1>2, <1>9, <2>1, <2>2
<1>. QED
  BY <1>12, <1>13, <1>14, <1>15 DEF OrderInv, KeptInOrder, InOrder, RecordsOf

\* Every step of the callers and of the log thread keeps the order.
LEMMA OrderNext == IndInv /\ OrderInv /\ ([Next]_vars \/ AnyAppend) => OrderInv'
<1> SUFFICES ASSUME IndInv, OrderInv, [Next]_vars \/ AnyAppend
             PROVE  OrderInv'
  OBVIOUS
<1>1. CASE Start
  BY <1>1, SameOrder DEF Start, shared, written, Alive
<1>2. CASE Stop
  BY <1>2, SameOrder DEF Stop, shared, written, Alive
<1>3. ASSUME NEW len \in Nat, AppendRecord(len)
      PROVE  OrderInv'
  BY <1>3, AppendOrder DEF IndInv
<1>4. CASE ThreadBegins
  BY <1>4, SameOrder DEF ThreadBegins, shared, written, Alive
<1>5. CASE Top
  BY <1>5, SameOrder DEF Top, shared, written, Alive
<1>6. CASE TakeRecords
  BY <1>6, SwapOutOrder DEF TakeRecords
<1>7. CASE TakeNothing
  BY <1>7, SwapOutOrder DEF TakeNothing
<1>8. CASE WriteBuffers
  BY <1>8, WriteOrder
<1>9. CASE Recycle
  BY <1>9, SameOrder DEF Recycle, shared, Alive
<1>10. CASE Abort
  BY <1>10, SameOrder DEF Abort, shared, written, Alive
<1>11. CASE UNCHANGED vars
  BY <1>11, SameOrder DEF vars, shared, written, Alive
<1>12. CASE Disk
  BY <1>12, SameOrder DEF Disk, DiskFills, DiskFreed, shared, Alive
<1>. QED
  BY <1>1, <1>2, <1>3, <1>4, <1>5, <1>6, <1>7, <1>8, <1>9, <1>10, <1>11, <1>12,
     LogAssumption
     DEF Next, ThreadStep, AnyAppend

-----------------------------------------------------------------------------
(***************************************************************************)
(* Induction over the natural numbers, and what it says of a fold over a   *)
(* sequence: FoldLeft of the community modules is a recursive function     *)
(* chosen by its equation, over the sets of the sequence's indices.        *)
(***************************************************************************)
\* Induction over the natural numbers, for a set of them.
LEMMA SetInduction ==
    ASSUME NEW S, 0 \in S, \A n \in Nat : n \in S => n + 1 \in S
    PROVE  \A n \in Nat : n \in S
<1> DEFINE T == {n \in Nat : n \notin S}
           R == OpToRel(<, Nat)
<1>1. SUFFICES ASSUME T # {}
               PROVE  FALSE
  OBVIOUS
<1>2. IsWellFoundedOn(R, Nat)
  BY NatLessThanWellFounded, Zenon
<1>3. PICK m \in T : \A n \in T : ~ (<<n, m>> \in R)
  <2>1. T \subseteq Nat
    OBVIOUS
  <2> HIDE DEF T, R
  <2>. QED
    BY <1>1, <1>2, <2>1, WFMin
<1>4. m \in Nat /\ m # 0
  OBVIOUS
<1>5. m - 1 \in Nat /\ m - 1 < m /\ (m - 1) + 1 = m
  BY <1>4
<1>6. m - 1 \notin T
  <2>1. m - 1 \in T => <<m - 1, m>> \in R
    BY <1>4, <1>5 DEF OpToRel
  <2>. QED
    BY <1>3, <2>1
<1>. QED
  BY <1>5, <1>6

\* The greatest element of a set that has one.
LEMMA MaxIsGreatest ==
    ASSUME NEW S, NEW m \in S, S \subseteq Int, \A x \in S : x <= m
    PROVE  Max(S) = m
<1>1. Max(S) \in S /\ \A y \in S : Max(S) >= y
  <2>1. \E x \in S : \A y \in S : x >= y
    <3>1. \A y \in S : m >= y
      OBVIOUS
    <3>. QED
      BY <3>1
  <2>. QED
    BY <2>1 DEF Max
<1>2. Max(S) >= m /\ Max(S) <= m /\ Max(S) \in Int /\ m \in Int
  BY <1>1
<1>. QED
  BY <1>2

\* A non-empty set of numbers up to n has a greatest one.
LEMMA MaxExists ==
    ASSUME NEW n \in Nat, NEW S \in SUBSET (1 .. n), S # {}
    PROVE  Max(S) \in S /\ \A x \in S : x <= Max(S)
<1> DEFINE Up == {k \in Nat : \A T \in SUBSET (1 .. k) : T # {} => \E m \in T : \A x \in T : x <= m}
<1>1. 0 \in Up
  <2>1. 1 .. 0 = {}
    OBVIOUS
  <2>. QED
    BY <2>1
<1>2. ASSUME NEW k \in Nat, k \in Up
      PROVE  k + 1 \in Up
  <2>1. ASSUME NEW T \in SUBSET (1 .. k + 1), T # {}
        PROVE  \E m \in T : \A x \in T : x <= m
    <3>1. CASE k + 1 \in T
      BY <3>1
    <3>2. CASE k + 1 \notin T
      <4>1. T \in SUBSET (1 .. k)
        BY <3>2
      <4>. QED
        BY <1>2, <2>1, <4>1
    <3>. QED
      BY <3>1, <3>2
  <2>. QED
    BY <2>1
<1>3. n \in Up
  <2> HIDE DEF Up
  <2>. QED
    BY <1>1, <1>2, SetInduction
<1>4. PICK m \in S : \A x \in S : x <= m
  BY <1>3
<1>5. Max(S) = m
  <2>1. S \subseteq Int
    OBVIOUS
  <2>. QED
    BY <1>4, <2>1, MaxIsGreatest
<1>. QED
  BY <1>4, <1>5

\* What a fold is made of: the elements of seq are put to base one by one.
FoldData(A, X, op, base, seq) ==
    op \in [A \X X -> A] /\ base \in A /\ seq \in Seq(X)

\* The equation of MapThenFoldSet, for the sets of indices of a sequence.
FoldStep(g, op, base, seq, s) ==
    g[s] = IF s = {} THEN base ELSE op[<<g[s \ {Max(s)}], seq[Max(s)]>>]

FoldFunctions(A, op, base, seq) ==
    {g \in [SUBSET DOMAIN seq -> A] : \A s \in SUBSET DOMAIN seq : FoldStep(g, op, base, seq, s)}

\* A function that satisfies it where what it is put to has its type.
Follows(it, A, op, base, seq) ==
    /\ it[{}] = base
    /\ \A s \in SUBSET DOMAIN seq :
          s # {} /\ it[s \ {Max(s)}] \in A => FoldStep(it, op, base, seq, s)

\* The values that a fold goes through: chain[k] after the first k elements.
Chains(A, op, base, seq) ==
    {f \in [0 .. Len(seq) -> A] :
        /\ f[0] = base
        /\ \A k \in 0 .. Len(seq) - 1 : f[k + 1] = op[<<f[k], seq[k + 1]>>]}

\* The function that MapThenFoldSet chooses exists.
LEMMA FoldExists ==
    ASSUME NEW A, NEW X, NEW op, NEW base, NEW seq, FoldData(A, X, op, base, seq)
    PROVE  FoldFunctions(A, op, base, seq) # {}
<1> USE DEF FoldData
<1> DEFINE n == Len(seq)
           Folds(k) == {g \in [SUBSET (1 .. k) -> A] : \A s \in SUBSET (1 .. k) :
                          g[s] = IF s = {} THEN base ELSE op[<<g[s \ {Max(s)}], seq[Max(s)]>>]}
           Up == {k \in Nat : k <= n => Folds(k) # {}}
<1>1. n \in Nat /\ DOMAIN seq = 1 .. n /\ \A k \in 1 .. n : seq[k] \in X
  OBVIOUS
<1>2. 0 \in Up
  <2>1. SUBSET (1 .. 0) = {{}}
    OBVIOUS
  <2>2. [s \in SUBSET (1 .. 0) |-> base] \in Folds(0)
    BY <2>1
  <2>. QED
    BY <2>2
<1> HIDE DEF n
<1>3. ASSUME NEW k \in Nat, k \in Up
      PROVE  k + 1 \in Up
  <2>1. SUFFICES ASSUME k + 1 <= n
                 PROVE  Folds(k + 1) # {}
    <3> HIDE DEF Folds
    <3>. QED
      OBVIOUS
  <2>2. PICK g \in Folds(k) : TRUE
    <3> HIDE DEF Folds
    <3>1. k <= n
      BY <1>1, <2>1
    <3>. QED
      BY <1>3, <3>1
  <2> DEFINE h == [s \in SUBSET (1 .. k + 1) |->
                     IF k + 1 \in s THEN op[<<g[s \ {k + 1}], seq[k + 1]>>] ELSE g[s]]
  <2>3. ASSUME NEW s \in SUBSET (1 .. k + 1), k + 1 \notin s
        PROVE  s \in SUBSET (1 .. k)
    BY <2>3
  <2>4. seq[k + 1] \in X
    BY <1>1, <2>1
  <2>5. ASSUME NEW s \in SUBSET (1 .. k + 1), k + 1 \in s
        PROVE  /\ s \ {k + 1} \in SUBSET (1 .. k) /\ Max(s) = k + 1
               /\ h[s] = op[<<g[s \ {k + 1}], seq[k + 1]>>]
               /\ h[s \ {k + 1}] = g[s \ {k + 1}]
               /\ h[s] \in A
    <3>1. s \ {k + 1} \in SUBSET (1 .. k) /\ s \ {k + 1} \in SUBSET (1 .. k + 1)
      OBVIOUS
    <3>2. Max(s) = k + 1
      <4>1. s \subseteq Int /\ \A x \in s : x <= k + 1
        OBVIOUS
      <4>. QED
        BY <2>5, <4>1, MaxIsGreatest
    <3>3. h[s] = op[<<g[s \ {k + 1}], seq[k + 1]>>] /\ h[s \ {k + 1}] = g[s \ {k + 1}]
      BY <2>5, <3>1
    <3>4. g[s \ {k + 1}] \in A
      BY <3>1
    <3>. QED
      BY <2>4, <3>1, <3>2, <3>3, <3>4
  <2>6. ASSUME NEW s \in SUBSET (1 .. k + 1), k + 1 \notin s
        PROVE  /\ h[s] = g[s] /\ h[s] \in A
               /\ h[s] = IF s = {} THEN base ELSE op[<<h[s \ {Max(s)}], seq[Max(s)]>>]
    <3>1. s \in SUBSET (1 .. k) /\ h[s] = g[s]
      BY <2>3, <2>6
    <3>2. s \ {Max(s)} \in SUBSET (1 .. k) /\ s \ {Max(s)} \in SUBSET (1 .. k + 1)
      BY <3>1
    <3>3. h[s \ {Max(s)}] = g[s \ {Max(s)}]
      BY <2>6, <3>2
    <3>. QED
      BY <3>1, <3>3
  <2>7. \A s \in SUBSET (1 .. k + 1) : h[s] \in A
    BY <2>5, <2>6
  <2>8. \A s \in SUBSET (1 .. k + 1) :
           h[s] = IF s = {} THEN base ELSE op[<<h[s \ {Max(s)}], seq[Max(s)]>>]
    <3>1. ASSUME NEW s \in SUBSET (1 .. k + 1)
          PROVE  h[s] = IF s = {} THEN base ELSE op[<<h[s \ {Max(s)}], seq[Max(s)]>>]
      <4>1. CASE k + 1 \in s
        <5>1. s # {}
          BY <4>1
        <5> HIDE DEF h
        <5>. QED
          BY <2>5, <4>1, <5>1
      <4>2. CASE k + 1 \notin s
        BY <2>6, <4>2
      <4>. QED
        BY <4>1, <4>2
    <3>. QED
      BY <3>1
  <2>9. h \in [SUBSET (1 .. k + 1) -> A]
    <3>1. h = [s \in SUBSET (1 .. k + 1) |-> h[s]]
      OBVIOUS
    <3> HIDE DEF h
    <3>. QED
      BY <2>7, <3>1
  <2>. QED
    <3> HIDE DEF h
    <3>. QED
      BY <2>8, <2>9
<1>4. n \in Up
  <2> HIDE DEF Up
  <2>. QED
    BY <1>1, <1>2, <1>3, SetInduction
<1>5. PICK g \in Folds(n) : TRUE
  <2> HIDE DEF Folds
  <2>. QED
    BY <1>1, <1>4
<1>. QED
  BY <1>1, <1>5 DEF FoldFunctions, FoldStep

\* What a function that satisfies the equation of MapThenFoldSet is for the
\* elements of a sequence from first to last.
LEMMA FoldIsChain ==
    ASSUME NEW A, NEW X, NEW op, NEW base, NEW seq, NEW it,
           FoldData(A, X, op, base, seq), Follows(it, A, op, base, seq)
    PROVE  \E f \in Chains(A, op, base, seq) : f[Len(seq)] = it[DOMAIN seq]
<1> USE DEF FoldData
<1>0. it[{}] = base /\ \A s \in SUBSET DOMAIN seq :
         s # {} /\ it[s \ {Max(s)}] \in A
            => it[s] = op[<<it[s \ {Max(s)}], seq[Max(s)]>>]
  BY DEF Follows, FoldStep
<1> DEFINE n == Len(seq)
           f == [k \in 0 .. n |-> it[1 .. k]]
           Up == {k \in Nat : k <= n => f[k] \in A}
<1>1. n \in Nat /\ DOMAIN seq = 1 .. n /\ \A k \in 1 .. n : seq[k] \in X
  OBVIOUS
<1>2. f[0] = base /\ f[n] = it[DOMAIN seq]
  <2>1. 1 .. 0 = {}
    OBVIOUS
  <2>. QED
    BY <1>0, <1>1, <2>1
<1> HIDE DEF n
<1>3. ASSUME NEW k \in 0 .. n - 1, f[k] \in A
      PROVE  f[k + 1] = op[<<f[k], seq[k + 1]>>] /\ f[k + 1] \in A
  <2>1. k \in Nat /\ k + 1 \in 1 .. n /\ k \in 0 .. n /\ k + 1 \in 0 .. n
    BY <1>1
  <2>2. (1 .. k + 1) \ {k + 1} = 1 .. k /\ 1 .. k + 1 \in SUBSET DOMAIN seq /\ k + 1 \in 1 .. k + 1
    BY <1>1, <2>1
  <2>3. Max(1 .. k + 1) = k + 1
    <3>1. 1 .. k + 1 \subseteq Int /\ \A x \in 1 .. k + 1 : x <= k + 1
      OBVIOUS
    <3>. QED
      BY <2>2, <3>1, MaxIsGreatest
  <2>4. f[k] = it[1 .. k] /\ f[k + 1] = it[1 .. k + 1]
    BY <2>1
  <2>5. 1 .. k + 1 # {}
    BY <2>2
  <2>6. it[1 .. k + 1] = op[<<it[1 .. k], seq[k + 1]>>]
    <3> HIDE DEF f
    <3>. QED
      BY <1>0, <1>3, <2>2, <2>3, <2>4, <2>5
  <2>. QED
    BY <1>1, <1>3, <2>1, <2>4, <2>6
<1>4. ASSUME NEW k \in 0 .. n
      PROVE  f[k] \in A
  <2>1. 0 \in Up
    BY <1>2
  <2>2. ASSUME NEW j \in Nat, j \in Up
        PROVE  j + 1 \in Up
    <3>1. CASE j + 1 <= n
      <4>1. j \in 0 .. n - 1 /\ f[j] \in A
        BY <1>1, <2>2, <3>1
      <4> HIDE DEF f
      <4>2. f[j + 1] \in A
        BY <1>3, <4>1
      <4>. QED
        BY <2>2, <4>2
    <3>2. CASE ~(j + 1 <= n)
      BY <3>2
    <3>. QED
      BY <3>1, <3>2
  <2>3. k \in Up
    <3> HIDE DEF Up
    <3>. QED
      BY <1>1, <2>1, <2>2, SetInduction
  <2>. QED
    BY <1>1, <2>3
<1>5. f \in [0 .. n -> A]
  BY <1>4
<1>6. \A k \in 0 .. n - 1 : f[k + 1] = op[<<f[k], seq[k + 1]>>]
  <2>1. \A k \in 0 .. n - 1 : k \in 0 .. n
    BY <1>1
  <2>. QED
    BY <1>3, <1>4, <2>1
<1>7. f \in Chains(A, op, base, seq)
  <2> HIDE DEF f
  <2>. QED
    BY <1>2, <1>5, <1>6 DEF Chains, n
<1>. QED
  BY <1>2, <1>7 DEF n

\* Two chains agree as long as their sequences do.
LEMMA ChainsAgree ==
    ASSUME NEW A, NEW op, NEW base, NEW p, NEW q, Len(p) \in Nat, Len(q) \in Nat,
           Len(p) <= Len(q), \A k \in 1 .. Len(p) : p[k] = q[k],
           NEW f \in Chains(A, op, base, p), NEW g \in Chains(A, op, base, q)
    PROVE  \A k \in 0 .. Len(p) : f[k] = g[k]
<1> DEFINE n == Len(p)
           Up == {k \in Nat : k <= n => f[k] = g[k]}
<1>1. 0 \in Up
  BY DEF Chains
<1>2. ASSUME NEW k \in Nat, k \in Up
      PROVE  k + 1 \in Up
  <2>1. CASE k + 1 <= n
    <3>1. k \in 0 .. Len(p) - 1 /\ k \in 0 .. Len(q) - 1 /\ p[k + 1] = q[k + 1] /\ f[k] = g[k]
      BY <1>2, <2>1
    <3>2. f[k + 1] = op[<<f[k], p[k + 1]>>] /\ g[k + 1] = op[<<g[k], q[k + 1]>>]
      BY <3>1 DEF Chains
    <3>. QED
      BY <3>1, <3>2
  <2>2. CASE ~(k + 1 <= n)
    BY <2>2
  <2>. QED
    BY <2>1, <2>2
<1>3. ASSUME NEW k \in 0 .. n
      PROVE  f[k] = g[k]
  <2>1. k \in Up
    <3> HIDE DEF Up
    <3>. QED
      BY <1>1, <1>2, SetInduction
  <2>. QED
    BY <2>1
<1>. QED
  BY <1>3

\* One more element: one more application.
LEMMA ChainOfAppend ==
    ASSUME NEW A, NEW X, NEW op, NEW base, NEW seq \in Seq(X), NEW x \in X,
           NEW f \in Chains(A, op, base, seq), NEW g \in Chains(A, op, base, Append(seq, x))
    PROVE  g[Len(Append(seq, x))] = op[<<f[Len(seq)], x>>]
<1> DEFINE n == Len(seq)
           w == Append(seq, x)
<1>1. n \in Nat /\ Len(w) = n + 1 /\ w[n + 1] = x /\ \A k \in 1 .. n : seq[k] = w[k]
  OBVIOUS
<1>2. f[n] = g[n]
  <2>1. Len(w) \in Nat /\ n <= Len(w) /\ g \in Chains(A, op, base, w)
    BY <1>1
  <2> HIDE DEF w
  <2>2. \A k \in 0 .. n : f[k] = g[k]
    BY <1>1, <2>1, ChainsAgree
  <2>. QED
    BY <1>1, <2>2
<1>3. g[n + 1] = op[<<g[n], w[n + 1]>>]
  BY <1>1 DEF Chains
<1>. QED
  BY <1>1, <1>2, <1>3

\* A set of indices of a sequence has a greatest one.
LEMMA IndexOfMax ==
    ASSUME NEW X, NEW seq \in Seq(X), NEW s \in SUBSET DOMAIN seq, s # {}
    PROVE  seq[Max(s)] \in X /\ s \ {Max(s)} \in SUBSET DOMAIN seq
<1>1. DOMAIN seq = 1 .. Len(seq) /\ Len(seq) \in Nat
  OBVIOUS
<1>2. Max(s) \in DOMAIN seq
  BY <1>1, MaxExists
<1>. QED
  BY <1>1, <1>2

-----------------------------------------------------------------------------
(***************************************************************************)
(* The room in the current buffer.                                         *)
(***************************************************************************)
\* Used, for any lengths of the records
UsedOf(lengths, buffer) == FoldLeft(LAMBDA n, r : n + lengths[r], 0, buffer)

\* the operation it folds with
AddRecord(lengths) == [x \in Nat \X DOMAIN lengths |-> x[1] + lengths[x[2]]]

\* Used goes through a chain of sums.
LEMMA UsedIsChain ==
    ASSUME NEW lengths \in Seq(Nat), NEW buffer \in Seq(DOMAIN lengths)
    PROVE  \E f \in Chains(Nat, AddRecord(lengths), 0, buffer) :
              f[Len(buffer)] = UsedOf(lengths, buffer)
<1> DEFINE Body(g) == [s \in SUBSET DOMAIN buffer |->
                          IF s = {} THEN 0 ELSE g[s \ {Max(s)}] + lengths[buffer[Max(s)]]]
           it == CHOOSE g : g = Body(g)
<1>1. UsedOf(lengths, buffer) = it[DOMAIN buffer]
  BY DEF UsedOf, FoldLeft, MapThenFoldSet
<1>2. /\ FoldData(Nat, DOMAIN lengths, AddRecord(lengths), 0, buffer)
      /\ \A a \in Nat, r \in DOMAIN lengths : AddRecord(lengths)[<<a, r>>] = a + lengths[r]
  <2>1. \A a \in Nat, r \in DOMAIN lengths : a + lengths[r] \in Nat
    OBVIOUS
  <2>. QED
    BY <2>1 DEF FoldData, AddRecord
<1>3. \A s \in SUBSET DOMAIN buffer :
        s # {} => buffer[Max(s)] \in DOMAIN lengths /\ s \ {Max(s)} \in SUBSET DOMAIN buffer
  BY IndexOfMax
<1>4. PICK g \in FoldFunctions(Nat, AddRecord(lengths), 0, buffer) : TRUE
  <2> HIDE DEF it
  <2>. QED
    BY <1>2, FoldExists
<1>5. g = Body(g)
  <2>1. \A s \in SUBSET DOMAIN buffer :
          g[s] = IF s = {} THEN 0 ELSE g[s \ {Max(s)}] + lengths[buffer[Max(s)]]
    BY <1>2, <1>3, <1>4 DEF FoldFunctions, FoldStep
  <2>2. g = [s \in SUBSET DOMAIN buffer |-> g[s]]
    BY <1>4 DEF FoldFunctions
  <2>. QED
    BY <2>1, <2>2
<1>6. it = Body(it)
  <2> HIDE DEF Body
  <2>. QED
    BY <1>5, Zenon
<1> HIDE DEF it
<1>7. ASSUME NEW s \in SUBSET DOMAIN buffer
      PROVE  it[s] = IF s = {} THEN 0 ELSE it[s \ {Max(s)}] + lengths[buffer[Max(s)]]
  <2>1. it[s] = Body(it)[s]
    <3> HIDE DEF Body
    <3>. QED
      BY <1>6
  <2>. QED
    BY <2>1
<1> HIDE DEF Body
<1>8. Follows(it, Nat, AddRecord(lengths), 0, buffer)
  BY <1>2, <1>3, <1>7 DEF Follows, FoldStep
<1>. QED
  BY <1>1, <1>2, <1>8, FoldIsChain

\* The bytes in a buffer, and that those of the records before stay the same.
LEMMA UsedLaws ==
    ASSUME NEW lengths \in Seq(Nat), NEW n \in Nat, NEW buffer \in Seq(1 .. Len(lengths))
    PROVE  LET longer == Append(lengths, n)
               r == Len(lengths) + 1
           IN /\ UsedOf(lengths, <<>>) = 0
              /\ UsedOf(lengths, buffer) \in Nat
              /\ UsedOf(longer, buffer) = UsedOf(lengths, buffer)
              /\ UsedOf(longer, Append(buffer, r)) = UsedOf(lengths, buffer) + n
<1> DEFINE longer == Append(lengths, n)
           r == Len(lengths) + 1
           D == DOMAIN lengths
           E == DOMAIN longer
<1>1. /\ D = 1 .. Len(lengths) /\ E = 1 .. r /\ longer \in Seq(Nat) /\ r \in E
      /\ longer[r] = n /\ \A x \in D : x \in E /\ longer[x] = lengths[x]
  OBVIOUS
<1>2. buffer \in Seq(D) /\ D \subseteq E /\ Len(buffer) \in Nat
  BY <1>1
<1> HIDE DEF D, E, longer, r
<1>3. buffer \in Seq(E) /\ Append(buffer, r) \in Seq(E) /\ <<>> \in Seq(D) /\ Len(<<>>) = 0
  <2>1. buffer \in Seq(E)
    BY <1>2, SeqMonotonic
  <2>. QED
    BY <1>1, <2>1
<1>4. PICK e \in Chains(Nat, AddRecord(lengths), 0, <<>>) : e[Len(<<>>)] = UsedOf(lengths, <<>>)
  BY <1>3, UsedIsChain DEF D
<1>5. PICK f \in Chains(Nat, AddRecord(lengths), 0, buffer) :
         f[Len(buffer)] = UsedOf(lengths, buffer)
  BY <1>2, UsedIsChain DEF D
<1>6. PICK g \in Chains(Nat, AddRecord(longer), 0, buffer) :
         g[Len(buffer)] = UsedOf(longer, buffer)
  BY <1>1, <1>3, UsedIsChain DEF E
<1>7. PICK h \in Chains(Nat, AddRecord(longer), 0, Append(buffer, r)) :
         h[Len(Append(buffer, r))] = UsedOf(longer, Append(buffer, r))
  BY <1>1, <1>3, UsedIsChain DEF E
<1>8. UsedOf(lengths, <<>>) = 0
  BY <1>3, <1>4 DEF Chains
<1>9. UsedOf(lengths, buffer) \in Nat
  <2>1. f \in [0 .. Len(buffer) -> Nat] /\ Len(buffer) \in 0 .. Len(buffer)
    BY <1>2, <1>5 DEF Chains
  <2>. QED
    BY <1>5, <2>1
<1>10. g \in Chains(Nat, AddRecord(lengths), 0, buffer)
  <2>1. ASSUME NEW k \in 0 .. Len(buffer) - 1
        PROVE  g[k + 1] = AddRecord(lengths)[<<g[k], buffer[k + 1]>>]
    <3>1. g[k + 1] = AddRecord(longer)[<<g[k], buffer[k + 1]>>] /\ g[k] \in Nat
      <4>1. k \in 0 .. Len(buffer) /\ g \in [0 .. Len(buffer) -> Nat]
        BY <1>2, <1>6 DEF Chains
      <4>2. g[k + 1] = AddRecord(longer)[<<g[k], buffer[k + 1]>>]
        BY <1>6 DEF Chains
      <4>. QED
        BY <4>1, <4>2
    <3>2. buffer[k + 1] \in D
      BY <1>2
    <3>3. g[k + 1] = g[k] + longer[buffer[k + 1]]
      BY <1>1, <3>1, <3>2 DEF AddRecord, E
    <3>4. AddRecord(lengths)[<<g[k], buffer[k + 1]>>] = g[k] + lengths[buffer[k + 1]]
      BY <3>1, <3>2 DEF AddRecord, D
    <3>. QED
      BY <1>1, <3>2, <3>3, <3>4
  <2>. QED
    BY <1>6, <2>1 DEF Chains
<1>11. g[Len(buffer)] = f[Len(buffer)]
  BY <1>2, <1>5, <1>10, ChainsAgree
<1>12. UsedOf(longer, Append(buffer, r)) = AddRecord(longer)[<<g[Len(buffer)], r>>]
  <2> DEFINE op == AddRecord(longer)
             A == Nat
  <2>1. g \in Chains(A, op, 0, buffer) /\ h \in Chains(A, op, 0, Append(buffer, r))
    BY <1>6, <1>7
  <2>2. buffer \in Seq(E) /\ r \in E
    BY <1>1, <1>3
  <2> HIDE DEF op, A
  <2>3. h[Len(Append(buffer, r))] = op[<<g[Len(buffer)], r>>]
    BY <2>1, <2>2, ChainOfAppend
  <2>. QED
    BY <1>7, <2>3 DEF op
<1>13. UsedOf(longer, Append(buffer, r)) = UsedOf(lengths, buffer) + n
  <2>1. g[Len(buffer)] \in Nat
    BY <1>5, <1>9, <1>11
  <2>. QED
    BY <1>1, <1>5, <1>11, <1>12, <2>1 DEF AddRecord, E
<1>. QED
  BY <1>5, <1>6, <1>8, <1>9, <1>11, <1>13 DEF longer, r

(***************************************************************************)
(* The third invariant: there is always a byte free in the current buffer, *)
(* and no more is flushed than was written.                                *)
(***************************************************************************)
RoomInv ==
    /\ running \in BOOLEAN
    /\ Used(curBuffer) < Cap
    /\ flushed \in 0 .. Len(file)
    /\ failed \subseteq 1 .. Len(file)
    /\ stuck \in BOOLEAN

\* Used is UsedOf the records so far.
LEMMA UsedIs ==
    /\ \A buffer : Used(buffer) = UsedOf(sizes, buffer)
    /\ Used(curBuffer)' = UsedOf(sizes', curBuffer')
<1>1. \A buffer : Used(buffer) = UsedOf(sizes, buffer)
  BY DEF Used, UsedOf
<1>2. Used(curBuffer)' = UsedOf(sizes', curBuffer')
  BY DEF Used, UsedOf, FoldLeft, MapThenFoldSet
<1>. QED
  BY <1>1, <1>2

\* A new buffer is empty.
LEMMA RoomInit == Init => RoomInv
<1> SUFFICES ASSUME Init
             PROVE  RoomInv
  OBVIOUS
<1>1. UsedOf(<<>>, <<>>) = 0
  <2>1. <<>> \in Seq(Nat) /\ <<>> \in Seq(1 .. Len(<<>>)) /\ 0 \in Nat
    OBVIOUS
  <2>. QED
    BY <2>1, UsedLaws
<1>2. Used(curBuffer) = 0
  BY <1>1, UsedIs DEF Init
<1>3. flushed = 0 /\ file = <<>> /\ running \in BOOLEAN
  BY DEF Init
<1>4. flushed \in 0 .. Len(file)
  BY <1>3
<1>5. failed \subseteq 1 .. Len(file) /\ stuck \in BOOLEAN
  BY DEF Init
<1>. QED
  BY <1>2, <1>3, <1>4, <1>5, LogAssumption DEF RoomInv

\* append() looks again for the room it found, or made.
LEMMA AppendRoom ==
    ASSUME Shape, RoomInv, NEW len \in Nat, AppendRecord(len)
    PROVE  RoomInv'
<1> DEFINE buffer == IF NoRoom(len) THEN <<>> ELSE curBuffer
           n == IF Takes(Cap, Used(buffer), len) THEN Stored(len) ELSE 0
<1>1. sizes \in Seq(Nat) /\ curBuffer \in Seq(1 .. Len(sizes)) /\ Stored(len) \in Nat /\ n \in Nat
  <2>1. Stored(len) \in Nat
    BY DEF Stored, NullLength
  <2>2. n \in Nat
    BY <2>1
  <2>. QED
    BY <2>1, <2>2 DEF Shape, Buffers, Records
<1>2. buffer \in Seq(1 .. Len(sizes))
  <2>1. <<>> \in Seq(1 .. Len(sizes))
    OBVIOUS
  <2>. QED
    BY <1>1, <2>1
<1>3. /\ sizes' = Append(sizes, n)
      /\ curBuffer' = IF Takes(Cap, Used(buffer), len) THEN Append(buffer, Len(sizes) + 1)
                                                       ELSE buffer
      /\ UNCHANGED <<running, file, flushed, failed, stuck>>
  BY DEF AppendRecord, written
<1>4. Used(buffer) < Cap /\ Used(buffer) \in Nat
  <2>1. Used(<<>>) = 0 /\ Used(curBuffer) \in Nat
    BY <1>1, UsedLaws, UsedIs
  <2>. QED
    BY <2>1, LogAssumption DEF RoomInv
<1> HIDE DEF buffer
<1>5. Used(curBuffer)' < Cap
  <2>1. CASE Takes(Cap, Used(buffer), len)
    <3>1. Used(curBuffer)' = Used(buffer) + Stored(len)
      BY <1>1, <1>2, <1>3, <2>1, UsedLaws, UsedIs
    <3>. QED
      BY <1>1, <1>4, <2>1, <3>1, LogAssumption DEF Takes, Available
  <2>2. CASE ~Takes(Cap, Used(buffer), len)
    <3>1. Used(curBuffer)' = Used(buffer)
      BY <1>1, <1>2, <1>3, <2>2, UsedLaws, UsedIs
    <3>. QED
      BY <1>4, <3>1
  <2>. QED
    BY <2>1, <2>2
<1>. QED
  BY <1>3, <1>5 DEF RoomInv

\* What a round gives the file are buffers.
LEMMA WriteShape ==
    ASSUME Shape, EnoughToRecycle, WriteBuffers
    PROVE  Notice \in Seq(Buffers) /\ Given \in Seq(Buffers)
<1>1. toWrite \in Seq(Buffers) /\ toWrite # <<>>
  BY DEF Shape, EnoughToRecycle, WriteBuffers
<1>2. Buffers \subseteq Seq(Nat) /\ <<>> \in Buffers
  <2>1. Records \subseteq Nat
    BY DEF Records
  <2>2. Buffers \subseteq Seq(Nat)
    BY <2>1, SeqMonotonic DEF Buffers
  <2>3. <<>> \in Buffers
    BY DEF Buffers
  <2>. QED
    BY <2>2, <2>3
<1>3. Given \in Seq(Buffers)
  BY <1>1, <1>2, GivenIsStart
<1>4. Notice \in Seq(Buffers)
  <2> HIDE DEF Backlog
  <2>. QED
    BY <1>2 DEF Notice
<1>. QED
  BY <1>3, <1>4

\* Every step of the callers and of the log thread leaves a byte free.
LEMMA RoomNext ==
    IndInv /\ OrderInv /\ RoomInv /\ ([Next]_vars \/ AnyAppend) => RoomInv'
<1> SUFFICES ASSUME IndInv, OrderInv, RoomInv, [Next]_vars \/ AnyAppend
             PROVE  RoomInv'
  OBVIOUS
<1>0. Shape
  BY DEF IndInv
<1>1. ASSUME running' \in BOOLEAN, UNCHANGED <<shared, file>>,
             flushed' = flushed \/ flushed' = Len(file),
             failed' \subseteq 1 .. Len(file), stuck' \in BOOLEAN
      PROVE  RoomInv'
  <2>1. Used(curBuffer)' = Used(curBuffer)
    BY <1>1, UsedIs DEF shared
  <2>. QED
    BY <1>1, <2>1 DEF RoomInv
<1>2. CASE Start
  BY <1>1, <1>2 DEF Start, written, RoomInv
<1>3. CASE Stop
  BY <1>1, <1>3 DEF Stop, written, RoomInv
<1>4. ASSUME NEW len \in Nat, AppendRecord(len)
      PROVE  RoomInv'
  BY <1>0, <1>4, AppendRoom
<1>5. CASE ThreadBegins
  BY <1>1, <1>5 DEF ThreadBegins, written, RoomInv
<1>6. CASE Top
  BY <1>1, <1>6 DEF Top, written, RoomInv
<1>7. CASE SwapOut
  <2>1. UsedOf(sizes, <<>>) = 0
    BY <1>0, UsedLaws DEF Shape, Buffers, Records
  <2>2. Used(curBuffer)' = 0
    BY <1>7, <2>1, UsedIs DEF SwapOut
  <2>. QED
    BY <1>7, <2>2, LogAssumption DEF SwapOut, written, RoomInv
<1>8. CASE WriteBuffers
  <2>1. Used(curBuffer)' = Used(curBuffer)
    BY <1>8, UsedIs DEF WriteBuffers, shared
  <2>2. Len(file') >= Len(file) /\ Len(file') \in Nat
    <3>1. file' = file \o Notice \o Given
      BY <1>8 DEF WriteBuffers
    <3>2. Notice \in Seq(Buffers) /\ Given \in Seq(Buffers) /\ file \in Seq(Buffers)
      BY <1>8, WriteShape DEF IndInv, OrderInv
    <3>. QED
      BY <3>1, <3>2, ConcatProperties, LenProperties
  <2>3. failed' \subseteq failed \cup (Len(file) + 1 .. Len(file'))
    BY <1>8 DEF WriteBuffers, LoseSome
  <2>4. failed' \subseteq 1 .. Len(file') /\ flushed' \in 0 .. Len(file')
    <3>1. failed \subseteq 1 .. Len(file) /\ flushed \in 0 .. Len(file) /\ flushed' = flushed
      BY <1>8 DEF WriteBuffers, RoomInv
    <3>. QED
      BY <2>2, <2>3, <3>1, LenProperties
  <2>. QED
    BY <1>8, <2>1, <2>4 DEF WriteBuffers, RoomInv
<1>9. CASE Recycle
  <2>1. failed' \subseteq failed \cup (flushed + 1 .. Len(file))
    BY <1>9 DEF Recycle, LoseSome
  <2>2. failed' \subseteq 1 .. Len(file)
    BY <2>1 DEF RoomInv
  <2>. QED
    BY <1>1, <1>9, <2>2 DEF Recycle, RoomInv
<1>10. CASE Abort
  BY <1>1, <1>10 DEF Abort, written, RoomInv
<1>11. CASE UNCHANGED vars
  BY <1>1, <1>11 DEF vars, written, RoomInv
<1>12. CASE Disk
  BY <1>1, <1>12 DEF Disk, DiskFills, DiskFreed, RoomInv
<1>. QED
  BY <1>2, <1>3, <1>4, <1>5, <1>6, <1>7, <1>8, <1>9, <1>10, <1>11, <1>12, LogAssumption
     DEF Next, ThreadStep, AnyAppend, TakeRecords, TakeNothing

\* TypeOK, from the three invariants.
LEMMA TypeInv == IndInv /\ OrderInv /\ RoomInv => TypeOK
<1> SUFFICES ASSUME IndInv, OrderInv, RoomInv
             PROVE  TypeOK
  OBVIOUS
<1>1. failed \subseteq DOMAIN file
  <2>1. DOMAIN file = 1 .. Len(file)
    BY DEF OrderInv
  <2>. QED
    BY <2>1 DEF RoomInv
<1>. QED
  BY <1>1 DEF IndInv, Shape, OrderInv, RoomInv, TypeOK

-----------------------------------------------------------------------------
(***************************************************************************)
(* No assertion of threadFUNC about its buffers fails, whatever the size   *)
(* of a buffer and the limit of the backlog, as long as the limit is not   *)
(* zero.                                                                   *)
(***************************************************************************)
THEOREM SparesAlwaysSuffice == Spec => []SparesSuffice
<1>. QED
  BY AlwaysInv, InvGivesSpares, PTL

(***************************************************************************)
(* Until the process aborts, what was given to the LogFile, the buffers    *)
(* being written, the full ones and the current one hold the records in    *)
(* the order of the calls to append, each one once, and no record that was *)
(* stored is missing unless a backlog was cut: for records and buffers of  *)
(* any size, any limit of the backlog but zero, any failures of the disk,  *)
(* and any interleaving of the callers with the steps of threadFUNC.       *)
(***************************************************************************)
THEOREM RecordsKeepOrder == Spec => []KeptInOrder
<1>1. OrderInv => KeptInOrder
  BY DEF OrderInv
<1>. QED
  BY AlwaysInv, OrderInit, OrderNext, <1>1, PTL DEF Spec

(***************************************************************************)
(* Every variable keeps its type; the current buffer has a byte free, even *)
(* after records that are empty or larger than a buffer, and no more       *)
(* buffers are flushed than were written.                                  *)
(***************************************************************************)
THEOREM TypesHold == Spec => []TypeOK
<1>. QED
  BY AlwaysInv, OrderInit, OrderNext, RoomInit, RoomNext, TypeInv, PTL DEF Spec
=============================================================================
