------------------------------ MODULE MCLogging ------------------------------
EXTENDS Logging

(***************************************************************************)
(* An ordinary line; one that leaves just enough room for its first number *)
(* and a few tempting bytes for its second one and for the line's end; and *)
(* the longest that is surely whole.                                       *)
(***************************************************************************)
MCStatements == {
    [level |-> DEBUG, pieces |-> <<Dec(-120), Text(1), Dec(0), Hex(48879)>>],
    [level |-> WARN, pieces |-> <<Text(3957), Dec(-7), Text(27), Dec(-2147483647)>>],
    [level |-> FATAL, pieces |-> <<Text(3920), Real(21)>>]}
=============================================================================
