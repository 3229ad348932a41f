------------------------------ MODULE MCAccess ------------------------------
(* Keys, names and passwords of a kind are interchangeable, and so are the *)
(* visitors without a key.                                                 *)
EXTENDS Access, TLC

Interchangeable ==
    UNION {Permutations(kind) : kind \in {Keys, Names, Passwords, Visitors \ Agents}}
=============================================================================
