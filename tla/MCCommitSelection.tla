------------------------- MODULE MCCommitSelection -------------------------
(* Instances of CommitSelection for TLC: two commits, which have a file in    *)
(* common, and a selection of commits that are not adjacent.                  *)
EXTENDS CommitSelection, TLC

CONSTANTS s1, s2, s3, f1, f2

MCFiles == s1 :> <<f1, f2>> @@ s2 :> <<f2>> @@ s3 :> <<>>
=============================================================================
