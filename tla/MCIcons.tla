------------------------------ MODULE MCIcons ------------------------------
(* A small instance of Icons for TLC.                                       *)
EXTENDS Icons

CONSTANTS me, alice, heart, room

MeAndAlice == {me, alice}
Heart      == {heart}
Room       == {room}
=============================================================================
