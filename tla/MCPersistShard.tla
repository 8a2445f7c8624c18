--------------------------- MODULE MCPersistShard ---------------------------
(***************************************************************************)
(* Instances of PersistShard for TLC.                                      *)
(***************************************************************************)
EXTENDS PersistShard, TLC

In(l, u, e) == [lower |-> l, upper |-> u, empty |-> e]

(* Appends that meet, overlap and race; one over no interval, valid when   *)
(* it is empty and invalid when not.                                       *)
RacingAppends == {In(0, 1, FALSE), In(0, 2, FALSE), In(1, 2, FALSE),
                  In(1, 1, TRUE), In(1, 1, FALSE)}

(* Appends that race, for runs about something else.                       *)
TwoAppends == {In(0, 1, FALSE), In(0, 2, FALSE)}

(* Appends that close the shard, in one batch or in two.                   *)
OneAppend == {In(0, Top, FALSE)}
FinalAppends == {In(0, 1, FALSE), In(1, Top, FALSE), In(0, Top, FALSE)}

(* Two handles of each kind, spread over two processes.                    *)
MCProcOf == [h \in Handles |->
               IF h \in {"w1", "r1", "e1"} THEN "p1" ELSE "p2"]
MCEpochOf == [h \in SinceHandles |-> IF h = "e1" THEN 1 ELSE 2]
MCCriticalIdOf == [h \in SinceHandles |-> "c"]
=============================================================================
