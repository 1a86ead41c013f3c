------------------------------- MODULE MCHybi -------------------------------
(* A small instance of Hybi for TLC.  Limits are the lengths where the form
   of a header changes.                                                     *)
EXTENDS Hybi

Hello    == <<1, 200, 3>>
TooShort == <<5, 6>>
NoJSON   == <<9, 9, 9, 9>>
Said     == {Hello, TooShort, NoJSON}
PIN      == <<80, 73, 78>>
Sizes    == {0, 2}
Word     == [extra |-> 2, mask |-> <<>>]
Long     == [extra |-> 8, mask |-> <<255, 1, 0, 8>>]
AllForms == {Word, Long}
Limits   == {3, 125, 126, 65535, 65536, 2147483647}
NotJSON  == {NoJSON}
=============================================================================
