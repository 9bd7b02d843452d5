------------------------------ MODULE BufferProof ------------------------------
(***************************************************************************)
(* Proofs about Buffer, for any amount of bytes: as long as the user is on *)
(* the loop's thread its offset stays within the vector and it is a queue  *)
(* of bytes; on another thread neither holds.                              *)
(***************************************************************************)
EXTENDS Buffer, SequenceTheorems, TLAPS

(***************************************************************************)
(* The inductive invariant; besides the types it is about a buffer that is *)
(* not shared.  A call that takes less than everything still does when it  *)
(* removes the bytes, as nothing comes in between.  What it copied, and    *)
(* what writeCallBack has written, is still the front of the contents, and *)
(* the bytes in the buffer and those taken are all that were appended.     *)
(***************************************************************************)
TakesAPart == ~Shared /\ user # "away" /\ ~all => wanted < Size

TakeSize == IF all THEN Size ELSE wanted

CopyIsCurrent ==
    ~Shared /\ user = "copied" => copy = SubSeq(Contents, 1, TakeSize)

WrittenIsCurrent ==
    ~Shared /\ writing # <<>> =>
        /\ user = "away"
        /\ Len(writing) < Size
        /\ writing = SubSeq(Contents, 1, Len(writing))

NothingLost == ~Shared => Len(taken) + Size = appended

IndInv ==
    /\ TypeOK
    /\ TakesAPart
    /\ CopyIsCurrent
    /\ WrittenIsCurrent
    /\ NothingLost

-----------------------------------------------------------------------------
(* What the operators of the module return. *)

\* Bytes from the offset on, appended to: the offset does not matter.
LEMMA DropOfConcat ==
    ASSUME NEW S, NEW v \in Seq(S), NEW b \in Seq(S), NEW k \in 0 .. Len(v)
    PROVE  SubSeq(v \o b, k + 1, Len(v \o b)) = SubSeq(v, k + 1, Len(v)) \o b
<1> DEFINE w == v \o b
           left == SubSeq(w, k + 1, Len(w))
           d == SubSeq(v, k + 1, Len(v))
<1>1. Len(v) \in Nat /\ Len(b) \in Nat /\ k \in Nat /\ k <= Len(v)
  OBVIOUS
<1>2. /\ w \in Seq(S) /\ Len(w) = Len(v) + Len(b)
      /\ \A i \in 1 .. Len(v) + Len(b) : w[i] = IF i <= Len(v) THEN v[i] ELSE b[i - Len(v)]
  BY ConcatProperties
<1> HIDE DEF w
<1>3. /\ left \in Seq(S) /\ Len(left) = Len(w) - k
      /\ \A i \in 1 .. Len(w) - k : left[i] = w[k + i]
  <2>1. \A i \in k + 1 .. Len(w) : w[i] \in S
    BY <1>1, <1>2
  <2>2. /\ left \in Seq(S) /\ Len(left) = IF k + 1 <= Len(w) THEN Len(w) - (k + 1) + 1 ELSE 0
        /\ \A i \in 1 .. Len(w) - (k + 1) + 1 : left[i] = w[(k + 1) + i - 1]
    BY <1>1, <1>2, <2>1, SubSeqProperties
  <2>. QED
    BY <1>1, <1>2, <2>2
<1>4. /\ d \in Seq(S) /\ Len(d) = Len(v) - k
      /\ \A i \in 1 .. Len(v) - k : d[i] = v[k + i]
  <2>1. \A i \in k + 1 .. Len(v) : v[i] \in S
    BY <1>1
  <2>2. /\ d \in Seq(S) /\ Len(d) = IF k + 1 <= Len(v) THEN Len(v) - (k + 1) + 1 ELSE 0
        /\ \A i \in 1 .. Len(v) - (k + 1) + 1 : d[i] = v[(k + 1) + i - 1]
    BY <1>1, <2>1, SubSeqProperties
  <2>. QED
    BY <1>1, <2>2
<1> HIDE DEF left, d
<1>5. /\ d \o b \in Seq(S) /\ Len(d \o b) = Len(d) + Len(b)
      /\ \A i \in 1 .. Len(d) + Len(b) : (d \o b)[i] = IF i <= Len(d) THEN d[i] ELSE b[i - Len(d)]
  BY <1>4, ConcatProperties
<1>6. Len(left) = Len(d \o b)
  BY <1>1, <1>2, <1>3, <1>4, <1>5
<1>7. ASSUME NEW i \in 1 .. Len(left)
      PROVE  left[i] = (d \o b)[i]
  <2>1. left[i] = w[k + i] /\ k + i \in 1 .. Len(v) + Len(b)
    BY <1>1, <1>2, <1>3
  <2>2. CASE i <= Len(d)
    BY <1>1, <1>2, <1>3, <1>4, <1>5, <2>1, <2>2
  <2>3. CASE ~(i <= Len(d))
    <3>1. /\ (d \o b)[i] = b[i - Len(d)]
          /\ w[k + i] = b[k + i - Len(v)]
      BY <1>1, <1>2, <1>3, <1>4, <1>5, <2>1, <2>3
    <3>2. i - Len(d) = k + i - Len(v)
      BY <1>1, <1>4
    <3>. QED
      BY <2>1, <3>1, <3>2
  <2>. QED
    BY <2>2, <2>3
<1>8. left = d \o b
  BY <1>3, <1>5, <1>6, <1>7, SeqEqual
<1>. QED
  BY <1>8 DEF left, d, w

\* Moving the offset on removes what it moves over from the contents.
LEMMA DropOfDrop ==
    ASSUME NEW S, NEW v \in Seq(S), NEW k \in 0 .. Len(v), NEW n \in 0 .. Len(v) - k
    PROVE  LET d == SubSeq(v, k + 1, Len(v))
           IN SubSeq(v, k + n + 1, Len(v)) = SubSeq(d, n + 1, Len(d))
<1> DEFINE d == SubSeq(v, k + 1, Len(v))
           x == SubSeq(v, k + n + 1, Len(v))
           y == SubSeq(d, n + 1, Len(d))
<1>1. Len(v) \in Nat /\ k \in Nat /\ k <= Len(v) /\ n \in Nat /\ k + n <= Len(v)
  OBVIOUS
<1>2. /\ d \in Seq(S) /\ Len(d) = Len(v) - k
      /\ \A i \in 1 .. Len(v) - k : d[i] = v[k + i]
  <2>1. \A i \in k + 1 .. Len(v) : v[i] \in S
    BY <1>1
  <2>2. /\ d \in Seq(S) /\ Len(d) = IF k + 1 <= Len(v) THEN Len(v) - (k + 1) + 1 ELSE 0
        /\ \A i \in 1 .. Len(v) - (k + 1) + 1 : d[i] = v[(k + 1) + i - 1]
    BY <1>1, <2>1, SubSeqProperties
  <2>. QED
    BY <1>1, <2>2
<1>3. /\ x \in Seq(S) /\ Len(x) = Len(v) - k - n
      /\ \A i \in 1 .. Len(v) - k - n : x[i] = v[k + n + i]
  <2>1. \A i \in k + n + 1 .. Len(v) : v[i] \in S
    BY <1>1
  <2>2. /\ x \in Seq(S)
        /\ Len(x) = IF k + n + 1 <= Len(v) THEN Len(v) - (k + n + 1) + 1 ELSE 0
        /\ \A i \in 1 .. Len(v) - (k + n + 1) + 1 : x[i] = v[(k + n + 1) + i - 1]
    BY <1>1, <2>1, SubSeqProperties
  <2>. QED
    BY <1>1, <2>2
<1> HIDE DEF d, x
<1>4. /\ y \in Seq(S) /\ Len(y) = Len(v) - k - n
      /\ \A i \in 1 .. Len(v) - k - n : y[i] = d[n + i]
  <2>1. \A i \in n + 1 .. Len(d) : d[i] \in S
    BY <1>1, <1>2
  <2>2. /\ y \in Seq(S)
        /\ Len(y) = IF n + 1 <= Len(d) THEN Len(d) - (n + 1) + 1 ELSE 0
        /\ \A i \in 1 .. Len(d) - (n + 1) + 1 : y[i] = d[(n + 1) + i - 1]
    BY <1>1, <1>2, <2>1, SubSeqProperties
  <2>. QED
    BY <1>1, <1>2, <2>2
<1> HIDE DEF y
<1>5. \A i \in 1 .. Len(x) : x[i] = y[i]
  <2> SUFFICES ASSUME NEW i \in 1 .. Len(x)
               PROVE  x[i] = y[i]
    OBVIOUS
  <2>1. x[i] = v[k + n + i] /\ y[i] = d[n + i]
    BY <1>3, <1>4
  <2>2. d[n + i] = v[k + (n + i)]
    BY <1>1, <1>2, <1>3
  <2>3. k + (n + i) = k + n + i
    BY <1>1
  <2>. QED
    BY <2>1, <2>2, <2>3
<1>6. x = y
  BY <1>3, <1>4, <1>5, SeqEqual
<1>. QED
  BY <1>6 DEF x, y, d

\* data() and size() belong together.
LEMMA ContentsProperties ==
    ASSUME TypeOK, cur <= Len(vector)
    PROVE  /\ Contents \in Seq(Bytes)
           /\ Size \in Nat /\ Len(Contents) = Size
           /\ cur \in Nat /\ Len(vector) \in Nat
<1>1. Len(vector) \in Nat /\ cur \in Nat /\ cur <= Len(vector)
  BY DEF TypeOK
<1>2. \A i \in cur + 1 .. Len(vector) : vector[i] \in Bytes
  BY <1>1 DEF TypeOK
<1>3. /\ Contents \in Seq(Bytes)
      /\ Len(Contents) = IF cur + 1 <= Len(vector) THEN Len(vector) - (cur + 1) + 1 ELSE 0
  BY <1>1, <1>2, SubSeqProperties DEF Contents
<1>. QED
  BY <1>1, <1>3 DEF Size

\* The first bytes of the contents, as many as there are.
LEMMA PrefixProperties ==
    ASSUME TypeOK, cur <= Len(vector), NEW n \in 0 .. Size
    PROVE  /\ SubSeq(Contents, 1, n) \in Seq(Bytes)
           /\ Len(SubSeq(Contents, 1, n)) = n
           /\ SubSeq(Contents, 1, Size) = Contents
<1>1. Contents \in Seq(Bytes) /\ Size \in Nat /\ Len(Contents) = Size
  BY ContentsProperties
<1>2. \A i \in 1 .. n : Contents[i] \in Bytes
  BY <1>1
<1>3. /\ SubSeq(Contents, 1, n) \in Seq(Bytes)
      /\ Len(SubSeq(Contents, 1, n)) = IF 1 <= n THEN n - 1 + 1 ELSE 0
  BY <1>1, <1>2, SubSeqProperties
<1>4. SubSeq(Contents, 1, Size) = Contents
  BY <1>1, SubSeqFull
<1>. QED
  BY <1>1, <1>3, <1>4

\* offset(k) and reset() remove the first bytes of the contents.
LEMMA OffsetProperties ==
    ASSUME TypeOK, cur <= Len(vector), NEW k \in 0 .. Size, Offset(k)
    PROVE  /\ Contents' = SubSeq(Contents, k + 1, Len(Contents))
           /\ vector' \in Seq(Bytes) /\ cur' \in 0 .. Len(vector')
           /\ Size' = Size - k
<1>1. /\ Contents \in Seq(Bytes) /\ Size \in Nat /\ Len(Contents) = Size
      /\ cur \in Nat /\ Len(vector) \in Nat
  BY ContentsProperties
<1>2. CASE k = Size
  <2>1. vector' = <<>> /\ cur' = 0
    BY <1>2 DEF Offset, Reset
  <2>2. Contents' = <<>> /\ Size' = 0
    <3>1. Contents' = SubSeq(<<>>, 1, 0)
      BY <2>1 DEF Contents
    <3>. QED
      BY <2>1, <3>1, SubSeqEmpty DEF Size
  <2>3. SubSeq(Contents, k + 1, Len(Contents)) = <<>>
    BY <1>1, <1>2, SubSeqEmpty
  <2>. QED
    BY <1>1, <1>2, <2>1, <2>2, <2>3
<1>3. CASE k # Size
  <2>1. cur' = cur + k /\ vector' = vector
    BY <1>3 DEF Offset
  <2>2. SubSeq(vector, cur + k + 1, Len(vector)) = SubSeq(Contents, k + 1, Len(Contents))
    <3>1. cur \in 0 .. Len(vector) /\ k \in 0 .. Len(vector) - cur /\ vector \in Seq(Bytes)
      BY DEF TypeOK, Size
    <3>. QED
      BY <3>1, DropOfDrop DEF Contents
  <2>3. Contents' = SubSeq(Contents, k + 1, Len(Contents))
    BY <2>1, <2>2 DEF Contents
  <2>4. cur + k \in 0 .. Len(vector)
    BY <1>1 DEF Size
  <2>5. Size' = Size - k
    BY <1>1, <2>1 DEF Size
  <2>. QED
    BY <2>1, <2>3, <2>4, <2>5 DEF TypeOK
<1>. QED
  BY <1>2, <1>3

\* What a call copies is what there is, or as much of it as it wants.
LEMMA TakeSizeInRange ==
    ASSUME TypeOK, TakesAPart, ~Shared, user # "away"
    PROVE  TakeSize \in 0 .. Size
<1>1. Size \in Nat
  BY ContentsProperties DEF TypeOK
<1>. QED
  BY <1>1 DEF TakeSize, TakesAPart, TypeOK

\* append adds its bytes behind the contents.
LEMMA AppendProperty ==
    ASSUME TypeOK, cur <= Len(vector), NEW n \in 1 .. MaxLen, AppendBytes(n)
    PROVE  /\ Contents' = Contents \o [i \in 1 .. n |-> appended + i]
           /\ vector' \in Seq(Bytes') /\ cur' \in 0 .. Len(vector')
           /\ Bytes \subseteq Bytes' /\ Seq(Bytes) \subseteq Seq(Bytes')
           /\ Size' = Size + n
<1> DEFINE b == [i \in 1 .. n |-> appended + i]
<1>1. n \in Nat /\ appended \in Nat /\ appended' = appended + n
  BY BufferAssumption DEF AppendBytes, TypeOK
<1>2. Bytes \subseteq Bytes' /\ Seq(Bytes) \subseteq Seq(Bytes')
  <2>1. Bytes \subseteq Bytes'
    BY <1>1 DEF Bytes
  <2>. QED
    BY <2>1, SeqMonotonic
<1>3. b \in Seq(Bytes') /\ Len(b) = n
  <2>1. \A i \in 1 .. n : appended + i \in Bytes'
    BY <1>1 DEF Bytes
  <2>. QED
    BY <1>1, <2>1
<1>4. vector' = vector \o b /\ cur' = cur
  BY DEF AppendBytes
<1> HIDE DEF b
<1>5. vector \in Seq(Bytes') /\ cur \in 0 .. Len(vector)
  BY <1>2 DEF TypeOK
<1>6. vector' \in Seq(Bytes') /\ Len(vector') = Len(vector) + n
  BY <1>3, <1>4, <1>5, ConcatProperties
<1>7. Contents' = Contents \o b
  <2>1. SubSeq(vector \o b, cur + 1, Len(vector \o b)) = SubSeq(vector, cur + 1, Len(vector)) \o b
    BY <1>3, <1>5, DropOfConcat
  <2>. QED
    BY <1>4, <2>1 DEF Contents
<1>8. cur' \in 0 .. Len(vector') /\ Size' = Size + n
  <2>1. Len(vector) \in Nat /\ cur \in Nat /\ cur <= Len(vector)
    BY <1>5
  <2>. QED
    BY <1>1, <1>4, <1>6, <2>1 DEF Size
<1>. QED
  BY <1>2, <1>6, <1>7, <1>8 DEF b

-----------------------------------------------------------------------------
\* An empty buffer satisfies the inductive invariant.
LEMMA InitInv == Init => IndInv
<1> SUFFICES ASSUME Init
             PROVE  IndInv
  OBVIOUS
<1>1. TypeOK
  <2>1. /\ vector \in Seq(Bytes) /\ copy \in Seq(Bytes) /\ taken \in Seq(Bytes)
        /\ writing \in Seq(Bytes) /\ Len(vector) = 0
    BY DEF Init
  <2>2. cur = 0 /\ appended = 0 /\ user = "away" /\ wanted = 0 /\ all \in BOOLEAN
    BY DEF Init
  <2>. QED
    BY <2>1, <2>2, BufferAssumption DEF TypeOK
<1>2. Len(taken) = 0 /\ Size = 0
  BY DEF Init, Size
<1>. QED
  BY <1>1, <1>2
     DEF Init, IndInv, TakesAPart, CopyIsCurrent, WrittenIsCurrent, NothingLost

\* The types, whichever thread the user is on.
LEMMA TypesKept ==
    ASSUME IndInv, [Next]_vars
    PROVE  TypeOK'
<1> USE BufferAssumption DEF IndInv, call
<1>0. Len(vector) \in Nat /\ cur \in Nat /\ Size \in Int
  BY DEF TypeOK, Size
<1>1. ASSUME NEW n \in 1 .. MaxLen, AppendBytes(n)
      PROVE  TypeOK'
  <2> DEFINE b == [i \in 1 .. n |-> appended + i]
  <2>1. n \in Nat /\ appended \in Nat /\ appended' = appended + n /\ appended + n <= MaxBytes
    BY <1>1 DEF AppendBytes, TypeOK
  <2>2. Seq(Bytes) \subseteq Seq(Bytes')
    <3>1. Bytes \subseteq Bytes'
      BY <2>1 DEF Bytes
    <3>. QED
      BY <3>1, SeqMonotonic
  <2>3. b \in Seq(Bytes') /\ Len(b) = n
    <3>1. \A i \in 1 .. n : appended + i \in Bytes'
      BY <2>1 DEF Bytes
    <3>. QED
      BY <2>1, <3>1
  <2> HIDE DEF b
  <2>4. vector' = vector \o b /\ vector \in Seq(Bytes')
    BY <1>1, <2>2 DEF AppendBytes, TypeOK, b
  <2>5. vector' \in Seq(Bytes') /\ Len(vector') = Len(vector) + n
    BY <2>3, <2>4, ConcatProperties
  <2>6. UNCHANGED <<cur, user, wanted, all, copy, writing, taken>>
    BY <1>1 DEF AppendBytes
  <2>. QED
    BY <1>0, <2>1, <2>2, <2>5, <2>6 DEF TypeOK
<1>2. ASSUME NEW n \in 0 .. MaxLen, RetriveGet(n)
      PROVE  TypeOK'
  BY <1>2 DEF RetriveGet, TypeOK, Bytes
<1>3. CASE RetriveGetAll
  BY <1>3 DEF RetriveGetAll, TypeOK, Bytes
<1>4. CASE CopyBytes
  <2>1. cur <= Len(vector) /\ Contents \in Seq(Bytes)
    BY <1>4, ContentsProperties DEF CopyBytes, InRange
  <2>2. copy' \in Seq(Bytes)
    <3>1. CASE all
      BY <1>4, <2>1, <3>1 DEF CopyBytes
    <3>2. CASE ~all
      <4>1. wanted \in 0 .. Size
        BY <1>4, <3>2 DEF CopyBytes, InRange, TypeOK
      <4>. QED
        BY <1>4, <2>1, <3>2, <4>1, PrefixProperties DEF CopyBytes
    <3>. QED
      BY <3>1, <3>2
  <2>. QED
    BY <1>4, <2>2 DEF CopyBytes, TypeOK, Bytes
<1>5. ASSUME NEW k \in Nat, Offset(k), ~Shared => k <= Size
      PROVE  vector' \in Seq(Bytes) /\ cur' \in Nat /\ (~Shared => cur' <= Len(vector'))
  <2>1. CASE k = Size
    BY <1>5, <2>1 DEF Offset, Reset
  <2>2. CASE k # Size
    BY <1>0, <1>5, <2>2 DEF Offset, TypeOK, Size
  <2>. QED
    BY <2>1, <2>2
<1>6. CASE Remove
  <2>1. vector' \in Seq(Bytes) /\ cur' \in Nat /\ (~Shared => cur' <= Len(vector'))
    <3>1. CASE all
      BY <1>6, <3>1 DEF Remove, Reset
    <3>2. CASE ~all
      <4>1. wanted \in Nat /\ Offset(wanted)
        BY <1>6, <3>2 DEF Remove, TypeOK
      <4>2. ~Shared => wanted <= Size
        <5>1. ~Shared => TakesAPart
          OBVIOUS
        <5>. QED
          BY <1>0, <1>6, <3>2, <4>1, <5>1 DEF Remove, TakesAPart
      <4>. QED
        BY <1>5, <4>1, <4>2
    <3>. QED
      BY <3>1, <3>2
  <2>2. taken' = taken \o copy /\ taken' \in Seq(Bytes)
    BY <1>6, ConcatProperties DEF Remove, TypeOK
  <2>. QED
    BY <1>6, <2>1, <2>2 DEF Remove, TypeOK, Bytes
<1>7. ASSUME NEW k \in 1 .. MaxBytes, WriteOut(k)
      PROVE  TypeOK'
  <2>1. cur <= Len(vector) /\ k \in 0 .. Size
    BY <1>0, <1>7 DEF WriteOut, Size
  <2>2. writing' \in Seq(Bytes)
    BY <1>7, <2>1, PrefixProperties DEF WriteOut
  <2>. QED
    BY <1>7, <2>2 DEF WriteOut, TypeOK, Bytes
<1>8. CASE MovePast
  <2>1. Len(writing) \in Nat /\ (~Shared => Len(writing) <= Size)
    BY <1>0, <1>8 DEF MovePast, WrittenIsCurrent, TypeOK
  <2>2. vector' \in Seq(Bytes) /\ cur' \in Nat /\ (~Shared => cur' <= Len(vector'))
    BY <1>5, <1>8, <2>1 DEF MovePast
  <2>3. taken' = taken \o writing /\ taken' \in Seq(Bytes)
    BY <1>8, ConcatProperties DEF MovePast, TypeOK
  <2>. QED
    BY <1>8, <2>2, <2>3 DEF MovePast, TypeOK, Bytes
<1>9. CASE UNCHANGED vars
  BY <1>9 DEF vars, TypeOK, Bytes
<1>. QED
  BY <1>1, <1>2, <1>3, <1>4, <1>6, <1>7, <1>8, <1>9 DEF Next

\* The rest of the invariant, of a buffer that is not shared.
LEMMA CurrentKept ==
    ASSUME IndInv, [Next]_vars, ~Shared
    PROVE  (TakesAPart /\ CopyIsCurrent /\ WrittenIsCurrent /\ NothingLost)'
<1> USE BufferAssumption DEF IndInv, call, LoopMayAct, UserMayAct
<1>0. /\ cur <= Len(vector)
      /\ Size \in Nat /\ Len(taken) \in Nat
      /\ Contents \in Seq(Bytes) /\ Len(Contents) = Size
  BY ContentsProperties DEF TypeOK
<1>1. ASSUME NEW n \in 1 .. MaxLen, AppendBytes(n)
      PROVE  (TakesAPart /\ CopyIsCurrent /\ WrittenIsCurrent /\ NothingLost)'
  <2>1. Size' = Size + n /\ n \in Nat
    BY <1>0, <1>1, AppendProperty
  <2>2. user' = "away" /\ writing' = <<>> /\ taken' = taken /\ appended' = appended + n
    BY <1>1 DEF AppendBytes
  <2>3. NothingLost'
    BY <1>0, <2>1, <2>2 DEF NothingLost
  <2>. QED
    BY <2>2, <2>3 DEF TakesAPart, CopyIsCurrent, WrittenIsCurrent
<1>2. ASSUME NEW n \in 0 .. MaxLen, RetriveGet(n)
      PROVE  (TakesAPart /\ CopyIsCurrent /\ WrittenIsCurrent /\ NothingLost)'
  <2>1. /\ user' = "measured" /\ wanted' = n /\ n \in Nat
        /\ all' = (n >= Size) /\ writing' = <<>>
        /\ UNCHANGED <<taken, appended>> /\ Size' = Size
    BY <1>2 DEF RetriveGet, Size
  <2>2. TakesAPart'
    <3>1. ~all' => ~(n >= Size)
      BY <2>1, Zenon
    <3>. QED
      BY <1>0, <2>1, <3>1 DEF TakesAPart
  <2>. QED
    BY <2>1, <2>2 DEF CopyIsCurrent, WrittenIsCurrent, NothingLost
<1>3. CASE RetriveGetAll
  BY <1>3 DEF RetriveGetAll, TakesAPart, CopyIsCurrent, WrittenIsCurrent, NothingLost,
              Size
<1>4. CASE CopyBytes
  <2>1. TakeSize \in 0 .. Size
    BY <1>4, TakeSizeInRange DEF CopyBytes
  <2>2. copy' = SubSeq(Contents, 1, TakeSize)
    BY <1>0, <1>4, <2>1, PrefixProperties DEF CopyBytes, TakeSize
  <2>3. Contents' = Contents /\ Size' = Size /\ TakeSize' = TakeSize
    BY <1>4 DEF CopyBytes, Contents, Size, TakeSize
  <2>. QED
    BY <1>4, <2>2, <2>3
       DEF CopyBytes, TakesAPart, CopyIsCurrent, WrittenIsCurrent, NothingLost
<1>5. CASE Remove
  <2>1. TakeSize \in 0 .. Size /\ Offset(TakeSize)
    BY <1>5, TakeSizeInRange DEF Remove, Offset, TakeSize
  <2>2. Size' = Size - TakeSize
    BY <1>0, <2>1, OffsetProperties
  <2>3. Len(taken') = Len(taken) + Len(copy)
    BY <1>5, ConcatProperties DEF Remove, TypeOK
  <2>4. Len(copy) = TakeSize
    BY <1>0, <1>5, <2>1, PrefixProperties DEF CopyIsCurrent, Remove
  <2>5. NothingLost'
    BY <1>0, <1>5, <2>1, <2>2, <2>3, <2>4 DEF NothingLost, Remove
  <2>. QED
    BY <1>5, <2>5 DEF Remove, TakesAPart, CopyIsCurrent, WrittenIsCurrent
<1>6. ASSUME NEW k \in 1 .. MaxBytes, WriteOut(k)
      PROVE  (TakesAPart /\ CopyIsCurrent /\ WrittenIsCurrent /\ NothingLost)'
  <2>1. k \in 0 .. Size /\ k < Size
    BY <1>0, <1>6 DEF WriteOut
  <2>2. /\ writing' = SubSeq(Contents, 1, k) /\ Len(writing') = k
        /\ user' = "away" /\ UNCHANGED <<vector, cur, appended, taken>>
    BY <1>0, <1>6, <2>1, PrefixProperties DEF WriteOut
  <2>3. Contents' = Contents /\ Size' = Size
    BY <2>2 DEF Contents, Size
  <2>. QED
    BY <2>1, <2>2, <2>3 DEF TakesAPart, CopyIsCurrent, WrittenIsCurrent, NothingLost
<1>7. CASE MovePast
  <2>1. /\ user = "away" /\ Len(writing) \in 0 .. Size
        /\ Offset(Len(writing))
    BY <1>0, <1>7 DEF MovePast, WrittenIsCurrent, TypeOK
  <2>2. Size' = Size - Len(writing)
    BY <1>0, <2>1, OffsetProperties
  <2>3. Len(taken') = Len(taken) + Len(writing)
    BY <1>7, ConcatProperties DEF MovePast, TypeOK
  <2>4. NothingLost'
    BY <1>0, <1>7, <2>1, <2>2, <2>3 DEF NothingLost, MovePast
  <2>. QED
    BY <1>7, <2>1, <2>4 DEF MovePast, TakesAPart, CopyIsCurrent, WrittenIsCurrent
<1>8. CASE UNCHANGED vars
  BY <1>8 DEF vars, TakesAPart, CopyIsCurrent, WrittenIsCurrent, NothingLost, Size,
              TakeSize, Contents
<1>. QED
  BY <1>1, <1>2, <1>3, <1>4, <1>5, <1>6, <1>7, <1>8 DEF Next

\* Every step of the loop's thread and of the user's keeps the invariant.
LEMMA NextInv == IndInv /\ [Next]_vars => IndInv'
<1> SUFFICES ASSUME IndInv, [Next]_vars
             PROVE  IndInv'
  OBVIOUS
<1>1. TypeOK'
  BY TypesKept
<1>2. CASE Shared
  BY <1>1, <1>2 DEF IndInv, TakesAPart, CopyIsCurrent, WrittenIsCurrent, NothingLost
<1>3. CASE ~Shared
  BY <1>1, <1>3, CurrentKept DEF IndInv
<1>. QED
  BY <1>2, <1>3

\* The inductive invariant always holds.
LEMMA AlwaysInv == Spec => []IndInv
<1>. QED
  BY InitInv, NextInv, PTL DEF Spec

-----------------------------------------------------------------------------
(***************************************************************************)
(* As long as the user is on the loop's thread, the offset never passes    *)
(* the end of the vector, where size() would wrap.  When it is on another  *)
(* thread, writeCallBack and the user may both move the offset past the    *)
(* same bytes; then the theorem only says that the other types hold.       *)
(***************************************************************************)
THEOREM TypeCorrect == Spec => []TypeOK
<1>1. IndInv => TypeOK
  BY DEF IndInv
<1>. QED
  BY <1>1, AlwaysInv, PTL

-----------------------------------------------------------------------------
\* An empty buffer is an empty queue.
LEMMA RefinesInit == Init => BQ!Init
<1> SUFFICES ASSUME Init
             PROVE  BQ!Init
  OBVIOUS
<1>1. Contents = SubSeq(<<>>, 1, 0)
  BY DEF Init, Contents
<1>. QED
  BY <1>1, SubSeqEmpty DEF Init, BQ!Init

\* To take no bytes is to do nothing, to take some is a Take of the queue's.
LEMMA RefinesTake ==
    ASSUME TypeOK, cur <= Len(vector), NEW k \in 0 .. Size, Offset(k),
           taken' = taken \o SubSeq(Contents, 1, k)
    PROVE  [BQ!Next]_BQ!vars
<1>1. /\ Contents \in Seq(Bytes) /\ Size \in Nat /\ Len(Contents) = Size
      /\ taken \in Seq(Bytes)
  BY ContentsProperties DEF TypeOK
<1>2. Contents' = SubSeq(Contents, k + 1, Len(Contents))
  BY OffsetProperties
<1>3. CASE k = 0
  <2>1. Contents' = Contents
    BY <1>1, <1>2, <1>3, SubSeqFull
  <2>2. SubSeq(Contents, 1, 0) = <<>>
    BY SubSeqEmpty
  <2>3. taken' = taken
    BY <1>1, <1>3, <2>2, ConcatEmptySeq
  <2>. QED
    BY <2>1, <2>3 DEF BQ!vars
<1>4. CASE k # 0
  <2>1. k \in 1 .. Len(Contents) /\ k <= Len(Contents)
    BY <1>1, <1>4
  <2>2. BQ!Take(k)
    BY <1>2, <2>1 DEF BQ!Take
  <2>. QED
    BY <2>1, <2>2 DEF BQ!Next
<1>. QED
  BY <1>3, <1>4

\* Every step of a buffer that is not shared is a step of the queue or none.
LEMMA RefinesNext ==
    ASSUME ~Shared
    PROVE  IndInv /\ [Next]_vars => [BQ!Next]_BQ!vars
<1> SUFFICES ASSUME IndInv, [Next]_vars
             PROVE  [BQ!Next]_BQ!vars
  OBVIOUS
<1> USE DEF IndInv, call
<1>0. cur <= Len(vector)
  BY DEF TypeOK
<1>1. ASSUME NEW n \in 1 .. MaxLen, AppendBytes(n)
      PROVE  BQ!Next
  <2>1. Contents' = Contents \o [i \in 1 .. n |-> appended + i]
    BY <1>0, <1>1, AppendProperty
  <2>2. appended = Len(taken) + Len(Contents)
    BY <1>0, ContentsProperties DEF NothingLost
  <2>3. BQ!Put(n)
    BY <1>1, <2>1, <2>2 DEF BQ!Put, AppendBytes
  <2>. QED
    BY <2>3 DEF BQ!Next
<1>2. ASSUME NEW n \in 0 .. MaxLen, RetriveGet(n)
      PROVE  UNCHANGED BQ!vars
  BY <1>2 DEF RetriveGet, BQ!vars, Contents
<1>3. CASE RetriveGetAll
  BY <1>3 DEF RetriveGetAll, BQ!vars, Contents
<1>4. CASE CopyBytes
  BY <1>4 DEF CopyBytes, BQ!vars, Contents
<1>5. CASE Remove
  <2>1. TakeSize \in 0 .. Size /\ Offset(TakeSize)
    BY <1>5, TakeSizeInRange DEF Remove, Offset, TakeSize
  <2>2. taken' = taken \o SubSeq(Contents, 1, TakeSize)
    BY <1>5 DEF Remove, CopyIsCurrent
  <2>. QED
    BY <1>0, <2>1, <2>2, RefinesTake
<1>6. ASSUME NEW k \in 1 .. MaxBytes, WriteOut(k)
      PROVE  UNCHANGED BQ!vars
  BY <1>6 DEF WriteOut, BQ!vars, Contents
<1>7. CASE MovePast
  <2>1. Len(writing) \in 0 .. Size /\ Offset(Len(writing))
    BY <1>0, <1>7, ContentsProperties DEF MovePast, WrittenIsCurrent, TypeOK
  <2>2. taken' = taken \o SubSeq(Contents, 1, Len(writing))
    BY <1>7 DEF MovePast, WrittenIsCurrent
  <2>. QED
    BY <1>0, <2>1, <2>2, RefinesTake
<1>8. CASE UNCHANGED vars
  BY <1>8 DEF vars, BQ!vars, Contents
<1>. QED
  BY <1>1, <1>2, <1>3, <1>4, <1>5, <1>6, <1>7, <1>8 DEF Next

(***************************************************************************)
(* A buffer whose user is on the loop's thread is a queue of bytes: they   *)
(* come out as they went in, each once and in order, whatever mix of       *)
(* appends, partial writes and partial and full takes there is.  (When it  *)
(* is shared it is not: TLC shows how a take loses an append.)             *)
(***************************************************************************)
THEOREM IsByteQueue ==
    ASSUME ~Shared
    PROVE  Spec => ImplementsByteQueue
<1>1. Init => BQ!Init
  BY RefinesInit
<1>2. IndInv /\ [Next]_vars => [BQ!Next]_BQ!vars
  BY RefinesNext
<1>. QED
  BY <1>1, <1>2, AlwaysInv, PTL DEF Spec, ImplementsByteQueue, BQ!Spec
=============================================================================
