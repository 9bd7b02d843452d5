------------------------------ MODULE LogStream ------------------------------
(***************************************************************************)
(* LogStream: the line that one log statement builds, piece by piece, in a *)
(* small FixedBuffer.  Each operator<< inserts its piece whole or leaves   *)
(* it out without a word, so a line is the sequence of the pieces in it.   *)
(*                                                                         *)
(* A piece is a text or a floating-point number of n characters, or a      *)
(* number n written in decimal or, for a pointer, in hexadecimal.          *)
(***************************************************************************)
EXTENDS FixedBuffer, Sequences, SequencesExt

CONSTANTS
    SmallSize,    \* kSmallSize: bytes in a stream's buffer
    MaxDecLength  \* kMaxDecLength: the room a number asks for

ASSUME StreamAssumption ==
    /\ SmallSize \in Nat \ {0}
    /\ MaxDecLength \in Nat

Kinds == {"text", "real", "dec", "hex"}
Pieces == [kind : Kinds, n : Nat] \cup [kind : {"dec"}, n : Int]

Text(n) == [kind |-> "text", n |-> n]
Dec(n) == [kind |-> "dec", n |-> n]
Hex(n) == [kind |-> "hex", n |-> n]
Real(n) == [kind |-> "real", n |-> n]

\* /, which rounds towards zero, and %, which has the sign of v
Quotient(v, base) == IF v < 0 THEN -((-v) \div base) ELSE v \div base
Remainder(v, base) == v - base * Quotient(v, base)

\* a bug: a table of the digits 0 to 9 only, not mirrored for remainders below zero
DigitUnmirrored(pos) == IF pos < 0 THEN 0 ELSE pos

\* the table of decimal digits is mirrored around zero
Digit(pos) == IF pos < 0 THEN -pos ELSE pos

(***************************************************************************)
(* The loop of convert and of convertHEX, lowest digit first.  It ends     *)
(* with the number divided down to zero, and only then does convert look   *)
(* for a sign: it never writes one.                                        *)
(***************************************************************************)
DigitsUpward(number, base) ==
    LET from[v \in Int] ==
            LET rest == Quotient(v, base)
            IN <<Digit(Remainder(v, base))>> \o (IF rest = 0 THEN <<>> ELSE from[rest])
    IN from[number]

Convert(v, base) == Reverse(DigitsUpward(v, base))

\* the characters a piece takes
Length(piece) ==
    CASE piece.kind = "text" -> Stored(piece.n)
      [] piece.kind = "real" -> piece.n
      [] piece.kind = "dec" -> Len(Convert(piece.n, 10))
      [] piece.kind = "hex" -> Len(Convert(piece.n, 16))

Size(line) == FoldLeft(LAMBDA n, piece : n + Length(piece), 0, line)

\* a bug: a number is inserted wherever there is room for a digit
NumberFitsTight(line) == Available(SmallSize, Size(line)) > 1

\* a bug: a number asks for the whole buffer
NumberFitsOnlyFirst(line) == Size(line) < MaxDecLength

\* formatInteger, and the operators for pointers and floating-point numbers
NumberFits(line) == Available(SmallSize, Size(line)) > MaxDecLength

HasRoom(line, piece) ==
    IF piece.kind = "text" THEN Takes(SmallSize, Size(line), piece.n)
                           ELSE NumberFits(line)

\* operator<<
Insert(line, piece) == IF HasRoom(line, piece) THEN Append(line, piece) ELSE line

Build(pieces) == FoldLeft(Insert, <<>>, pieces)
=============================================================================
