----------------------------- MODULE MCTcpServer -----------------------------
(* TcpServer for TLC: connections are alike, and so are io loops. *)
EXTENDS TcpServer, TLC

Symmetry == Permutations(Conns) \cup Permutations(Loops)
=============================================================================
