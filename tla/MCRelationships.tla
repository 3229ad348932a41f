-------------------------- MODULE MCRelationships ---------------------------
(* Relationships on two target indexes, with a cell that refers to an      *)
(* asset.                                                                  *)
EXTENDS Relationships, TLC

CONSTANTS A, B, Asset, Empty

BothKeys == {A, B}
PlainCells == {A, B, Empty}
PlainAndAsset == {A, B, Asset, Empty}
Assets == {Asset}

PlainAndAssetStrip == [c \in PlainAndAsset |-> c]

Interchangeable == Permutations(Requests) \cup Permutations(SourceRows)
=============================================================================
