-------------------------------- MODULE Buffer --------------------------------
(***************************************************************************)
(* The buffer of a connection: a vector of bytes and the offset up to      *)
(* which they have been taken.  The loop's thread appends what it reads; a *)
(* user takes bytes out, in steps: how many there are, their copy, and     *)
(* only then their removal.  writeCallBack, on the loop's thread, writes   *)
(* bytes to the socket and then moves the offset past them.                *)
(*                                                                         *)
(* m_thread_safe does not make these steps one: the lock_guard is the body *)
(* of an if and ends with it, before anything is done.  Shared says        *)
(* whether the user is on another thread than the loop's.                  *)
(***************************************************************************)
EXTENDS Integers, Sequences

CONSTANTS
    Shared,     \* the user's thread is not the loop's
    MaxLen,     \* bytes appended at once, at most
    MaxBytes    \* bound: bytes appended in all

ASSUME BufferAssumption ==
    Shared \in BOOLEAN /\ MaxLen \in Nat /\ MaxBytes \in Nat

VARIABLES
    vector,     \* the elements of the vector
    cur,        \* m_cur
    appended,   \* bytes appended so far
    user,       \* where the user's call is
    wanted,     \* how many bytes it takes; only of use when not all
    all,        \* it takes all there are, and resets
    copy,       \* what it has copied
    writing,    \* what writeCallBack has written and not yet moved past
    taken       \* history: what the calls have returned and the socket has taken

call == <<user, wanted, all, copy>>
vars == <<vector, cur, appended, user, wanted, all, copy, writing, taken>>

Bytes == 1 .. appended

\* size(), unless it wraps, and data()
Size == Len(vector) - cur
Contents == SubSeq(vector, cur + 1, Len(vector))

TypeOK ==
    /\ appended \in 0 .. MaxBytes
    /\ vector \in Seq(Bytes)
    /\ cur \in Nat /\ (~Shared => cur <= Len(vector))
    /\ user \in {"away", "measured", "copied"}
    /\ wanted \in Nat /\ all \in BOOLEAN
    /\ copy \in Seq(Bytes) /\ writing \in Seq(Bytes) /\ taken \in Seq(Bytes)

Init ==
    /\ vector = <<>> /\ cur = 0
    /\ appended = 0
    /\ user = "away" /\ wanted = 0 /\ all = FALSE /\ copy = <<>>
    /\ writing = <<>> /\ taken = <<>>

-----------------------------------------------------------------------------
(***************************************************************************)
(* A thread does one thing at a time: on the loop's thread nothing comes   *)
(* between the steps of a call, be it the user's or writeCallBack's.       *)
(***************************************************************************)
LoopMayAct == writing = <<>> /\ (user = "away" \/ Shared)

UserMayAct == writing = <<>> \/ Shared

\* Past the end of the vector size() wraps and reads are undefined: the model
\* has no such step.
InRange(n) == cur <= Len(vector) /\ n <= Size

\* append(), on the loop's thread
AppendBytes(n) ==
    /\ LoopMayAct
    /\ appended + n <= MaxBytes
    /\ appended' = appended + n
    /\ vector' = vector \o [i \in 1 .. n |-> appended + i]
    /\ UNCHANGED <<cur, call, writing, taken>>

\* retrive_get(n) asks for the size; with n bytes or less it is retrive_get_all()
RetriveGet(n) ==
    /\ UserMayAct /\ user = "away"
    /\ InRange(0)
    /\ user' = "measured"
    /\ wanted' = n
    /\ all' = (n >= Size)
    /\ UNCHANGED <<vector, cur, appended, copy, writing, taken>>

\* retrive_get_all()
RetriveGetAll ==
    /\ UserMayAct /\ user = "away"
    /\ user' = "measured"
    /\ wanted' = 0
    /\ all' = TRUE
    /\ UNCHANGED <<vector, cur, appended, copy, writing, taken>>

\* a bug: the string is built from begin(), which knows no offset
CopyFromBegin ==
    /\ UserMayAct /\ user = "measured"
    /\ user' = "copied"
    /\ copy' = SubSeq(vector, 1, IF all THEN Size ELSE wanted)
    /\ UNCHANGED <<vector, cur, appended, wanted, all, writing, taken>>

\* the string is built from data() and the size, or what was asked for
CopyBytes ==
    /\ UserMayAct /\ user = "measured"
    /\ InRange(IF all THEN 0 ELSE wanted)
    /\ user' = "copied"
    /\ copy' = IF all THEN Contents ELSE SubSeq(Contents, 1, wanted)
    /\ UNCHANGED <<vector, cur, appended, wanted, all, writing, taken>>

\* a bug: the offset is not cleared with the elements
ResetElements == vector' = <<>> /\ UNCHANGED cur

Reset == vector' = <<>> /\ cur' = 0

\* offset(k)
Offset(k) == IF k = Size THEN Reset ELSE cur' = cur + k /\ UNCHANGED vector

\* the bytes are removed and the string is returned
Remove ==
    /\ UserMayAct /\ user = "copied"
    /\ user' = "away"
    /\ taken' = taken \o copy
    /\ copy' = <<>>
    /\ IF all THEN Reset ELSE Offset(wanted)
    /\ UNCHANGED <<appended, wanted, all, writing>>

\* writeCallBack writes from data(), and the socket takes k bytes; if these are
\* all there are it drops the buffer, and the model says no more of it
WriteOut(k) ==
    /\ LoopMayAct
    /\ k < Size
    /\ writing' = SubSeq(Contents, 1, k)
    /\ UNCHANGED <<vector, cur, appended, call, taken>>

\* and then calls offset(), whatever is in the buffer by now (or drops the buffer
\* if just that many are left, which to the contents is the same)
MovePast ==
    /\ writing # <<>>
    /\ taken' = taken \o writing
    /\ writing' = <<>>
    /\ Offset(Len(writing))
    /\ UNCHANGED <<appended, call>>

-----------------------------------------------------------------------------
Next ==
    \/ \E n \in 1 .. MaxLen : AppendBytes(n)
    \/ \E n \in 0 .. MaxLen : RetriveGet(n)
    \/ RetriveGetAll \/ CopyBytes \/ Remove
    \/ \E k \in 1 .. MaxBytes : WriteOut(k)
    \/ MovePast

Spec == Init /\ [][Next]_vars

-----------------------------------------------------------------------------
\* The buffer is a queue of bytes: nothing is lost, repeated or reordered
\* however appends, partial writes and partial and full takes alternate.
BQ == INSTANCE ByteQueue WITH contents <- Contents

ImplementsByteQueue == BQ!Spec
=============================================================================
