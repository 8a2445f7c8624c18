---------------------------- MODULE MCGroupCommit ----------------------------
(* Instances of GroupCommit for TLC.                                       *)
EXTENDS GroupCommit, TLC

MCSymmetry == Permutations(Sessions)
=============================================================================
