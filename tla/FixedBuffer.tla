----------------------------- MODULE FixedBuffer -----------------------------
(***************************************************************************)
(* FixedBuffer: a piece of text is stored whole or not at all, and one     *)
(* byte always stays free.  A stream builds a line in a small one, the     *)
(* asynchronous logger collects lines in big ones.                         *)
(***************************************************************************)
EXTENDS Integers

\* the length of "(null)", which replaces a null pointer and an empty text
NullLength == 6

Stored(len) == IF len = 0 THEN NullLength ELSE len

Available(size, used) == size - used

\* a bug: the byte that stays free is given away
TakesLast(size, used, len) == Available(size, used) >= Stored(len)

\* append() succeeds
Takes(size, used, len) == Available(size, used) > Stored(len)
=============================================================================
