--------------------------- MODULE MCDatasetRows ----------------------------
(* Instances of DatasetRows: a dataset whose keys the client chooses and   *)
(* one with a generated key.  "1 " is "1" with a trailing space.           *)
EXTENDS DatasetRows, TLC

Keys == {"", "1", "2", "3", "1 "}
TwoTexts == {"", "x"}
StripSpace == [c \in Keys |-> IF c = "1 " THEN "1" ELSE c]
Numeral == [n \in RowNumbers |-> ToString(n)]

RequestSymmetry == Permutations(Requests)
=============================================================================
