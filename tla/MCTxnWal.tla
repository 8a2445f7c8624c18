------------------------------ MODULE MCTxnWal ------------------------------
(* Instances of TxnWal for TLC.                                            *)
EXTENDS TxnWal, TLC

MCSymmetry == Permutations(Handles) \cup Permutations(Datas)
=============================================================================
