----------------------------- MODULE MCProjects -----------------------------
(* Projects, sections, datasets and clients of a kind are interchangeable. *)
EXTENDS Projects, TLC

Interchangeable ==
    Permutations(Projects) \cup Permutations(Sections) \cup Permutations(Datasets)
      \cup Permutations(Clients) \cup Permutations(GroupNames) \cup Permutations(Names)
=============================================================================
