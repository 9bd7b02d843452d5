----------------------------- MODULE MCEventLoop -----------------------------
(* EventLoop for TLC; the constants are given by the .cfg files. *)
EXTENDS EventLoop
=============================================================================
