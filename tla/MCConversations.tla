-------------------------- MODULE MCConversations --------------------------
(* A small instance of Conversations for TLC.                               *)
EXTENDS Conversations

CONSTANTS alice

Alice   == {alice}
Private == {"priv"}
=============================================================================
