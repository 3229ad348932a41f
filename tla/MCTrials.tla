------------------------------ MODULE MCTrials ------------------------------
(* Trials with days short enough for a trial to run out.                   *)
EXTENDS Trials, TLC

Interchangeable ==
    Permutations(Requests) \cup Permutations(Editors) \cup Permutations(Rewards)

(* Nothing is claimed of what happens after a stale settings form was      *)
(* saved: those states are checked and not explored further.               *)
NotClobbered == ~clobbered
=============================================================================
