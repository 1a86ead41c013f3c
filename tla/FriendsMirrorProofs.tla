------------------------ MODULE FriendsMirrorProofs ------------------------
(* What FriendsMirror promises, for every set of lists.                     *)
EXTENDS FriendsMirror, TLAPS

Inv == trusted \subseteq Lists /\ TrustIsDeserved

\* A trusted list is right, whatever sequence of changes, doubts and partial
\* copies came before: what an implementation of the mirror gains by it.
THEOREM TrustDeserved == Spec => []TrustIsDeserved
<1>1. Init => Inv
  BY DEF Init, Inv, TrustIsDeserved
<1>2. Inv /\ [Next]_mirror => Inv'
  <2> SUFFICES ASSUME Inv, [Next]_mirror
               PROVE  Inv'
    OBVIOUS
  <2> USE DEF Inv, TrustIsDeserved
  <2>1. CASE Change
    BY <2>1 DEF Change
  <2>2. CASE Fill
    BY <2>2 DEF Fill
  <2>3. CASE Forget
    BY <2>3 DEF Forget
  <2>4. CASE UNCHANGED mirror
    BY <2>4 DEF mirror
  <2> QED
    BY <2>1, <2>2, <2>3, <2>4 DEF Next
<1>3. Inv => TrustIsDeserved
  BY DEF Inv
<1> QED
  BY <1>1, <1>2, <1>3, PTL DEF Spec
=============================================================================
