------------------------------ MODULE MCBilling ------------------------------
(* Instances of Billing for TLC. *)
EXTENDS Billing, TLC

Interchangeable ==
    Permutations(Subscriptions) \cup Permutations(Servers)
      \cup Permutations(Workers)

(* What StateFollowsStripe excepts need not be explored further. *)
NotUpset == ~upset

(* Bound: changes in the queue and in the workers' hands. *)
TwoChanges ==
    Len(queue) + Cardinality({w \in Workers : workers[w] # None}) <= 2

(* Bound: answered events the cache has forgotten, and handlers on their   *)
(* way to enqueue a change that is enqueued or carried out already.        *)
Again(s) ==
    \E step \in {"checked", "loaded", "saved", "read"} :
      At(s, step) /\ servers[s].event \in tracked
OneRepeat ==
    /\ Cardinality(handled \ cache) <= 1
    /\ Cardinality({s \in Servers : Again(s)}) <= 1
=============================================================================
