----------------------------- MODULE MCSession -----------------------------
(* A small instance of Session for TLC: the constants are in the .cfg files. *)
EXTENDS Session
=============================================================================
