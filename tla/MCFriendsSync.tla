--------------------------- MODULE MCFriendsSync ---------------------------
(* Small instances of FriendsSync for TLC.                                  *)
EXTENDS FriendsSync, TLC

CONSTANTS alice, bob

OnlyAlice   == {alice}
AliceAndBob == {alice, bob}
Nobodys     == {}

Characters == Permutations(Names)
=============================================================================
