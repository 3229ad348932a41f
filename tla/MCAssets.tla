------------------------------ MODULE MCAssets ------------------------------
(* A row, two column names and two assets, the second to replace the first *)
(* or to sit beside it, attached by two requests; one has a thumbnail.     *)
EXTENDS Assets, TLC

CONSTANTS Large, Small

TwoKeys == {Large, Small}
OneThumbnail == (Large :> Parts) @@ (Small :> {"original"})
=============================================================================
