---------------------------- MODULE MessageStream ----------------------------
(* What a WebSocket promises the chat client: messages come one by one, whole,
   once and in the order they were sent, until the other end breaks the rules or
   the network fails.  Module Hybi shows how f-list_connection.c keeps the
   promise over a stream of bytes.                                          *)
EXTENDS Naturals, Sequences

VARIABLES
    sent,       \* the messages the chat server has sent
    delivered,  \* those handed to their handlers
    faulty,     \* the server has broken the rules, or the network has failed
    broken      \* the client has given the connection up

Init == /\ sent = <<>>
        /\ delivered = <<>>
        /\ faulty \in BOOLEAN
        /\ broken = FALSE

Send == /\ Len(sent') = Len(sent) + 1
        /\ SubSeq(sent', 1, Len(sent)) = sent
        /\ UNCHANGED <<delivered, faulty, broken>>

Fail == /\ faulty' = TRUE
        /\ UNCHANGED <<sent, delivered, broken>>

\* The next message, and no other.
Deliver == /\ Len(delivered) < Len(sent)
           /\ delivered' = Append(delivered, sent[Len(delivered) + 1])
           /\ UNCHANGED <<sent, faulty, broken>>

\* The client does not give up for nothing.
GiveUp == /\ faulty'
          /\ broken' = TRUE
          /\ UNCHANGED <<sent, delivered>>

\* Then nothing is promised any more: libpurple will close the connection.
Afterwards == broken /\ UNCHANGED broken

Next == Send \/ Fail \/ Deliver \/ GiveUp \/ Afterwards

Spec == Init /\ [][Next]_<<sent, delivered, faulty, broken>>
=============================================================================
