------------------------------ MODULE ByteQueue ------------------------------
(***************************************************************************)
(* What a Buffer promises: bytes come out as they went in, each once and   *)
(* in order.  Bytes are numbered as they go in.                            *)
(***************************************************************************)
EXTENDS Naturals, Sequences

CONSTANT MaxLen     \* bytes appended at once, at most

VARIABLES
    contents,   \* the bytes in the queue
    taken       \* the bytes that were taken out

vars == <<contents, taken>>

Init == contents = <<>> /\ taken = <<>>

Put(n) ==
    /\ contents' = contents \o [i \in 1 .. n |-> Len(taken) + Len(contents) + i]
    /\ UNCHANGED taken

Take(n) ==
    /\ n <= Len(contents)
    /\ taken' = taken \o SubSeq(contents, 1, n)
    /\ contents' = SubSeq(contents, n + 1, Len(contents))

Next ==
    \/ \E n \in 1 .. MaxLen : Put(n)
    \/ \E n \in 1 .. Len(contents) : Take(n)

Spec == Init /\ [][Next]_vars
=============================================================================
