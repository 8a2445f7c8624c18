---------------------------- MODULE MCCompaction ----------------------------
(***************************************************************************)
(* Instances of Compaction for TLC.                                        *)
(***************************************************************************)
EXTENDS Compaction

(* An empty batch, a small one, and a large one of two runs.               *)
RacingBatches == {<<>>, <<1>>, <<8, 8>>}
=============================================================================
