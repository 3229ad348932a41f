----------------------------- MODULE MCColumns ------------------------------
(* An index and another column, and one more to add, under a new name or   *)
(* under that of a dropped one; Lower and Upper are one choice in two      *)
(* spellings, Other is another.                                            *)
EXTENDS Columns, TLC

CONSTANTS Key, A, B, Empty, Lower, Upper, Other

AllNames == {Key, A, B}
AllCells == {Empty, Lower, Upper, Other}
Spelling == [c \in AllCells |-> IF c = Upper THEN Lower ELSE c]
Lists == {{Lower}}
OneReference == {{A}, {B}}
JustA == {A}
JustLower == {Lower}
OneOrder == {<<A, Key>>}
TwoHeaders == <<Key, A>>
TwoIds == (Key :> 1) @@ (A :> 2)
=============================================================================
