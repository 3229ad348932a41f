---------------------------- MODULE MCVectorIndex ----------------------------
(* Instances of VectorIndex for TLC. *)
EXTENDS VectorIndex, TLC

Interchangeable ==
    Permutations(Values) \cup Permutations(Labels)
      \cup Permutations(Requests) \cup Permutations(Workers)
=============================================================================
