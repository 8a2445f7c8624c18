----------------------------- MODULE MCPersistGc -----------------------------
(* Instances of PersistGc for TLC.                                         *)
EXTENDS PersistGc, TLC

MCProcOf == [t \in Tasks |-> IF t \in {"t1", "t3"} THEN "p1" ELSE "p2"]

(* One process has all the tasks.                                          *)
MCOneProc == [t \in Tasks |-> "p1"]
MCTaskSymmetry == Permutations(Tasks)
=============================================================================
