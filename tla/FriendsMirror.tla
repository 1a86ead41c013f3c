--------------------------- MODULE FriendsMirror ---------------------------
(* What the friends synchroniser promises to the rest of the plugin: a mirror
   of lists that live elsewhere, of which the ones it trusts are right.

   FriendsSync implements it: its dirty flags, timers, requests and
   notifications are one way of knowing which lists to trust.               *)

CONSTANT Lists

VARIABLES
    site,       \* what each list says where it is kept
    table,      \* what the mirror says of it
    trusted     \* the lists the mirror believes it has right

mirror == <<site, table, trusted>>

Init == trusted = {}

\* The mirror doubts some lists; only those may change where they are kept.
Change ==
    /\ trusted' \subseteq trusted
    /\ table' = table
    /\ \A list \in trusted' : site'[list] = site[list]

\* Lists are copied.  A list that is trusted already is left alone; one that is
\* not may be given any content, but is not trusted unless it is right.
Fill ==
    /\ trusted \subseteq trusted'
    /\ trusted' \subseteq Lists
    /\ site' = site
    /\ \A list \in trusted : table'[list] = table[list]
    /\ \A list \in trusted' \ trusted : table'[list] = site[list]

\* The end of a session: nothing is kept.
Forget ==
    /\ trusted' = {}
    /\ site' = site

Next == Change \/ Fill \/ Forget

Spec == Init /\ [][Next]_mirror

\* Trust is deserved: what the mirror says of a trusted list is what it says
\* where it is kept.
TrustIsDeserved == \A list \in trusted : table[list] = site[list]
=============================================================================
