----------------------------- MODULE MCProfile -----------------------------
(* A small instance of Profile for TLC.                                     *)
EXTENDS Profile

CONSTANTS alice, bob

AliceAndBob == {alice, bob}
=============================================================================
