----------------------------- MODULE MCChannels -----------------------------
(* Small instances of Channels for TLC.                                     *)
EXTENDS Channels, TLC

CONSTANTS me, alice, bob, den, inn

MeAndAlice == {me, alice}
WithBob    == {me, alice, bob}
Den        == {den}
DenAndInn  == {den, inn}

Symmetric == Permutations(Names \ {Me}) \cup Permutations(Channel)
=============================================================================
