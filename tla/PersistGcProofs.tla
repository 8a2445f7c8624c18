--------------------------- MODULE PersistGcProofs --------------------------
(***************************************************************************)
(* Proofs about PersistGc, for any number of processes, rollup tasks and   *)
(* readers, any thresholds and any number of versions and faults.          *)
(*                                                                         *)
(* Rollups are unlinked only after the diffs before a later one have been  *)
(* truncated, so whatever a version has dropped is below the earliest live *)
(* diff.  That is what makes the stale list of a collector safe: all of it *)
(* that is not below the earliest diff is still linked (RollupsInv).  The  *)
(* blobs that a truncation would orphan are gone before it (GcInv), and    *)
(* what they are is read off the diffs, which never bring back a part      *)
(* (PartsInv).                                                             *)
(***************************************************************************)
EXTENDS PersistGc, TLAPS, WellFoundedInduction

(* Every rollup that some version has linked.                              *)
Linked == UNION {versions[n].rollups : n \in 0 .. head}

(* DroppedParts and DroppedRollups, of any sequence of versions.           *)
PartDrops(V, n, m) ==
    UNION {V[i - 1].parts \ V[i].parts : i \in n + 1 .. m}
RollupDrops(V, n, m) ==
    UNION {V[i - 1].rollups \ V[i].rollups : i \in n + 1 .. m}

(* A part that a later version does not have was dropped by a diff in      *)
(* between, and no part comes back.                                        *)
PartsOK(V, h) ==
    \A m \in 0 .. h :
      /\ V[m].parts \subseteq 0 .. m
      /\ \A n \in 0 .. m :
           /\ V[n].parts \subseteq V[m].parts \cup PartDrops(V, n, m)
           /\ PartDrops(V, n, m) \cap V[m].parts = {}

(* A rollup that a later version does not have was dropped in between too. *)
RollupsOK(V, h) ==
    \A m \in 0 .. h : \A n \in 0 .. m :
      V[n].rollups \subseteq V[m].rollups \cup RollupDrops(V, n, m)

PartsInv == PartsOK(versions, head)

(* A rollup can come back, but only below the earliest live diff.          *)
RollupsInv ==
    /\ RollupsOK(versions, head)
    /\ \A k \in RollupDrops(versions, 0, head) : k.at < earliest

(* A task that has never seen its rollup linked knows that it is not.      *)
TaskInv(t) ==
    /\ task[t].pc = "idle" => \A k \in Linked : k.by # t
    /\ task[t].pc \in {"written", "unlinked"} => task[t].key.by = t
    /\ task[t].pc = "written" =>
         task[t].key \in rollupBlobs \/ task[t].key.at < earliest
    /\ \/ task[t].pc = "unlinked"
       \/ task[t].pc = "written" /\ ~task[t].ever
       => task[t].key \notin Linked

(* The diffs scanned by fetch_current_state begin at or before a rollup    *)
(* that the last of them has.                                              *)
FetchInv(p) ==
    fetching[p] # NoFetch =>
      /\ fetching[p].last >= 0
      /\ \E k \in versions[fetching[p].last].rollups :
           k.at >= fetching[p].first

(* The diffs that a collector is about to truncate name no blob that only  *)
(* they know of.                                                           *)
Emptied(first, to) ==
    /\ partBlobs \cap PartDrops(versions, first, to) = {}
    /\ rollupBlobs \cap RollupDrops(versions, first, to) = {}

(* A collector goes no further than the readers' holds, its diffs may be   *)
(* stale, it deletes before it truncates, and it truncates up to the       *)
(* latest rollup of its list before it unlinks the others.                 *)
GcInv(p) ==
    /\ gcReq[p] <= CurrentSince
    /\ gcReq[p] # None => cache[p] # None
    /\ gc[p].rollups \subseteq Linked
    /\ \A k \in gc[p].rollups : k.at <= CurrentSince
    /\ gc[p].pc \in {"initial", "delete", "truncate"} =>
         gc[p].first <= earliest
    /\ gc[p].pc \in {"delete", "truncate"} => Targets(gc[p]) # {}
    /\ gc[p].pc = "truncate" => Emptied(gc[p].first, Min(Targets(gc[p])))
    /\ gc[p].pc = "remove" =>
         \A k \in ToRemove(gc[p].rollups) : k.at < earliest

(* What holds of Consensus and Blob.                                       *)
LogInv ==
    /\ EarliestIsHeld /\ EarliestHasRollup /\ HeldPartsExist /\ NothingLeaks
    /\ PartsInv /\ RollupsInv

Inv ==
    /\ TypeOK
    /\ LogInv
    /\ \A t \in Tasks : TaskInv(t)
    /\ \A p \in Procs : FetchInv(p) /\ GcInv(p)

-----------------------------------------------------------------------------
(* Least and greatest members.                                             *)

(* A non-empty set of natural numbers has a least member.                  *)
LEMMA MinIsLeast ==
    ASSUME NEW S \in SUBSET Nat, S # {}
    PROVE  Min(S) \in S /\ \A y \in S : Min(S) <= y
<1>. DEFINE R == OpToRel(<, Nat)
<1>1. PICK x \in S : \A y \in S : ~(<<y, x>> \in R)
  <2>1. IsWellFoundedOn(R, Nat)
    BY NatLessThanWellFounded
  <2>. HIDE DEF R
  <2>. QED
    BY <2>1, WFMin
<1>2. \A y \in S : <<y, x>> \in R <=> y < x
  BY DEF OpToRel
<1>. HIDE DEF R
<1>3. \A y \in S : x =< y
  <2>1. \A y \in S : y \in Nat /\ x \in Nat /\ ~(y < x)
    BY <1>1, <1>2
  <2>. QED
    BY <2>1
<1>. QED
  BY <1>3 DEF Min

(* A non-empty set of natural numbers with a bound has a greatest member.  *)
LEMMA MaxIsGreatest ==
    ASSUME NEW N \in Nat, NEW S \in SUBSET (0 .. N), S # {}
    PROVE  Max(S) \in S /\ \A y \in S : y <= Max(S)
<1>. DEFINE T == {n \in Nat : N - n \in S}
<1>1. T \in SUBSET Nat /\ T # {}
  <2>1. PICK y \in S : TRUE
    OBVIOUS
  <2>2. N - y \in T
    BY <2>1
  <2>. QED
    BY <2>2
<1>2. \A n \in T : n \in Nat /\ N - n \in S
  OBVIOUS
<1>3. \A y \in S : y \in Int /\ N - y \in T
  OBVIOUS
<1>. HIDE DEF T
<1>4. PICK n \in T : \A m \in T : n <= m
  BY <1>1, MinIsLeast
<1>5. N - n \in S /\ \A y \in S : N - n >= y
  BY <1>2, <1>3, <1>4
<1>. QED
  BY <1>5 DEF Max

(* Of two numbers one is the least and one the greatest.                   *)
LEMMA PairMin ==
    ASSUME NEW a \in Int, NEW b \in Int
    PROVE  /\ Min({a, b}) \in {a, b}
           /\ Min({a, b}) <= a /\ Min({a, b}) <= b
<1>1. \E x \in {a, b} : \A y \in {a, b} : x =< y
  OBVIOUS
<1>. QED
  BY <1>1 DEF Min

(* The same for the greatest.                                               *)
LEMMA PairMax ==
    ASSUME NEW a \in Int, NEW b \in Int
    PROVE  /\ Max({a, b}) \in {a, b}
           /\ Max({a, b}) >= a /\ Max({a, b}) >= b
<1>1. \E x \in {a, b} : \A y \in {a, b} : x >= y
  OBVIOUS
<1>. QED
  BY <1>1 DEF Max

-----------------------------------------------------------------------------
(* Versions and their fields.                                              *)

(* The holds of a version, entry by entry.                                 *)
LEMMA HoldsType ==
    ASSUME NEW h \in Holds
    PROVE  /\ h \in [DOMAIN h -> SeqNos] /\ DOMAIN h \subseteq Readers
           /\ \A r \in DOMAIN h : h[r] \in Nat
  BY GcAssumption DEF Holds, SeqNos

(* Holds are functions from some of the readers to SeqNos.                 *)
LEMMA HoldsMake ==
    ASSUME NEW S \in SUBSET Readers, NEW h \in [S -> SeqNos]
    PROVE  h \in Holds
  BY DEF Holds

(* seqno_since is the least hold, or the version itself without holds.     *)
LEMMA SinceIsLeast ==
    ASSUME NEW v \in Version, NEW n \in Nat
    PROVE  /\ SeqNoSince(v, n) \in 0 .. n
           /\ \A r \in DOMAIN v.holds : SeqNoSince(v, n) <= v.holds[r]
           /\ \/ SeqNoSince(v, n) = n
              \/ \E r \in DOMAIN v.holds : SeqNoSince(v, n) = v.holds[r]
<1>. DEFINE S == {n} \cup {v.holds[r] : r \in DOMAIN v.holds}
<1>1. v.holds \in Holds
  BY DEF Version
<1>2. \A r \in DOMAIN v.holds : v.holds[r] \in Nat
  BY <1>1, HoldsType
<1>3. S \in SUBSET Nat /\ S # {}
  BY <1>2
<1>4. SeqNoSince(v, n) = Min(S)
  BY DEF SeqNoSince
<1>5. /\ n \in S
      /\ \A r \in DOMAIN v.holds : v.holds[r] \in S
      /\ \A s \in S : s = n \/ \E r \in DOMAIN v.holds : s = v.holds[r]
  OBVIOUS
<1>. HIDE DEF S
<1>6. Min(S) \in S /\ \A y \in S : Min(S) <= y
  BY <1>3, MinIsLeast
<1>7. Min(S) \in 0 .. n
  <2>1. Min(S) \in Nat /\ Min(S) <= n
    BY <1>3, <1>5, <1>6
  <2>. QED
    BY <2>1
<1>. QED
  BY <1>4, <1>5, <1>6, <1>7

(* maybe_gc changes only the bookkeeping of gc, and asks for nothing that  *)
(* a reader holds.                                                         *)
LEMMA MaybeGcRequests ==
    ASSUME NEW v \in Version, NEW n \in SeqNos, NEW isWrite \in BOOLEAN,
           NEW active, NEW late \in BOOLEAN
    PROVE  /\ MaybeGc(v, n, isWrite, active, late).v \in Version
           /\ MaybeGc(v, n, isWrite, active, late).v.rollups = v.rollups
           /\ MaybeGc(v, n, isWrite, active, late).v.parts = v.parts
           /\ MaybeGc(v, n, isWrite, active, late).v.holds = v.holds
           /\ MaybeGc(v, n, isWrite, active, late).req
                \in None .. SeqNoSince(v, n)
<1>. DEFINE since == SeqNoSince(v, n)
            next == MaybeGc(v, n, isWrite, active, late)
            should == /\ \/ since - v.lastGc >= GcThreshold(n, active)
                         \/ active /\ v.activeGc
                      /\ isWrite \/ NoWriters
                      /\ active /\ v.activeGc => late
            req == Min({since, v.lastGc + GcMaxVersions})
<1>. SUFFICES /\ next.v \in Version
              /\ next.v.rollups = v.rollups
              /\ next.v.parts = v.parts
              /\ next.v.holds = v.holds
              /\ next.req \in None .. since
  OBVIOUS
<1>1. since \in 0 .. n /\ n \in Nat /\ n <= MaxSeqNo /\ MaxSeqNo \in Nat
  BY SinceIsLeast, GcAssumption DEF SeqNos
<1>2. v.lastGc \in Nat /\ v.lastGc + GcMaxVersions \in Nat
  BY GcAssumption DEF Version, SeqNos
<1>. HIDE DEF since
<1>3. req \in 0 .. since
  <2>1. \A a, b \in Nat : Min({a, b}) \in 0 .. a
    BY PairMin
  <2>. QED
    BY <1>1, <1>2, <2>1
<1>4. req \in SeqNos
  BY <1>1, <1>3 DEF SeqNos
<1>5. next = IF should
             THEN [v |-> [v EXCEPT !.lastGc = req, !.activeGc = @ \/ active],
                   req |-> req]
             ELSE [v |-> v, req |-> None]
  BY DEF MaybeGc, since
<1>. HIDE DEF req, should
<1>6. CASE should
  <2>1. next.v = [v EXCEPT !.lastGc = req, !.activeGc = @ \/ active]
        /\ next.req = req
    BY <1>5, <1>6
  <2>. HIDE DEF next
  <2>2. next.v \in Version
    BY <1>4, <2>1 DEF Version
  <2>. QED
    BY <1>1, <1>3, <2>1, <2>2 DEF Version, None
<1>7. CASE ~should
  <2>1. next.v = v /\ next.req = None
    BY <1>5, <1>7
  <2>. HIDE DEF next
  <2>. QED
    BY <1>1, <2>1 DEF None
<1>. QED
  BY <1>6, <1>7

-----------------------------------------------------------------------------
(* Types, as the provers need them.                                        *)
Numbers ==
    /\ MaxSeqNo \in Nat
    /\ head \in Nat /\ head <= MaxSeqNo
    /\ earliest \in Nat /\ earliest <= head
    /\ CurrentSince \in Nat /\ CurrentSince <= head
    /\ Linked \subseteq Keys
    /\ \A k \in Keys : k.at \in Nat
    /\ \A p \in Procs : /\ gcReq[p] \in Int /\ cache[p] \in Int
                        /\ gc[p].first \in Nat /\ gc[p].last \in Nat
                        /\ gc[p].rollups \in SUBSET Keys

(* The type invariant gives these types.                                   *)
LEMMA Typed == TypeOK => Numbers
<1>. SUFFICES ASSUME TypeOK PROVE Numbers
  OBVIOUS
<1>1. /\ MaxSeqNo \in Nat /\ head \in Nat /\ head <= MaxSeqNo
      /\ earliest \in Nat /\ earliest <= head
      /\ \A k \in Keys : k.at \in Nat
  BY GcAssumption DEF TypeOK, SeqNos, Keys
<1>2. \A n \in 0 .. head : versions[n] \in Version /\ versions[n].rollups \subseteq Keys
  BY DEF TypeOK, Version
<1>3. CurrentSince \in Nat /\ CurrentSince <= head
  BY <1>1, <1>2, SinceIsLeast DEF CurrentSince, Current
<1>4. Linked \subseteq Keys
  BY <1>2 DEF Linked
<1>5. \A p \in Procs : /\ gcReq[p] \in Int /\ cache[p] \in Int
                       /\ gc[p].first \in Nat /\ gc[p].last \in Nat
                       /\ gc[p].rollups \in SUBSET Keys
  BY <1>1 DEF TypeOK, None, SeqNos
<1>. QED
  BY <1>1, <1>3, <1>4, <1>5 DEF Numbers

(* The same after a step.                                                  *)
LEMMA TypedNext == TypeOK' => Numbers'
<1>. SUFFICES ASSUME TypeOK' PROVE Numbers'
  OBVIOUS
<1>1. /\ MaxSeqNo \in Nat /\ head' \in Nat /\ head' <= MaxSeqNo
      /\ earliest' \in Nat /\ earliest' <= head'
      /\ \A k \in Keys : k.at \in Nat
  BY GcAssumption DEF TypeOK, SeqNos, Keys
<1>2. \A n \in 0 .. head' : versions'[n] \in Version /\ versions'[n].rollups \subseteq Keys
  BY DEF TypeOK, Version
<1>3. CurrentSince' \in Nat /\ CurrentSince' <= head'
  <2>1. versions'[head'] \in Version
    BY <1>1, <1>2
  <2>2. SeqNoSince(versions'[head'], head') \in 0 .. head'
    BY <1>1, <2>1, SinceIsLeast
  <2>3. CurrentSince' = SeqNoSince(versions'[head'], head')
    BY DEF CurrentSince, Current, SeqNoSince
  <2>. QED
    BY <1>1, <2>2, <2>3
<1>4. Linked' \subseteq Keys
  BY <1>2 DEF Linked
<1>5. \A p \in Procs : /\ gcReq'[p] \in Int /\ cache'[p] \in Int
                       /\ gc'[p].first \in Nat /\ gc'[p].last \in Nat
                       /\ gc'[p].rollups \in SUBSET Keys
  BY <1>1 DEF TypeOK, None, SeqNos
<1>. QED
  BY <1>1, <1>3, <1>4, <1>5 DEF Numbers

(* What has been linked is linked now or below the earliest live diff, so  *)
(* what is not below it is linked and in Blob, however stale the list that *)
(* it comes from.                                                          *)
LEMMA LinkedFromEarliest ==
    ASSUME Inv, NEW k \in Linked, k.at >= earliest
    PROVE  k \in Current.rollups /\ k \in rollupBlobs
<1>1. Numbers
  BY Typed DEF Inv
<1>2. PICK n \in 0 .. head : k \in versions[n].rollups
  BY DEF Linked
<1>3. \/ k \in versions[head].rollups
      \/ k \in RollupDrops(versions, n, head)
  BY <1>1, <1>2 DEF Inv, LogInv, RollupsInv, RollupsOK, Numbers
<1>4. RollupDrops(versions, n, head) \subseteq RollupDrops(versions, 0, head)
  BY <1>1, <1>2 DEF RollupDrops, Numbers
<1>5. k \notin RollupDrops(versions, 0, head)
  <2>1. k \in Keys /\ k.at \in Int /\ earliest \in Int
    BY <1>1 DEF Numbers
  <2>. QED
    BY <2>1 DEF Inv, LogInv, RollupsInv
<1>. QED
  BY <1>3, <1>4, <1>5 DEF Inv, LogInv, EarliestHasRollup, Current

(* No part that a held version has is among those dropped before it.       *)
LEMMA HeldIsNotDropped ==
    ASSUME Inv, NEW first \in Nat, NEW to \in Nat, to <= CurrentSince,
           NEW n \in CurrentSince .. head
    PROVE  versions[n].parts \cap PartDrops(versions, first, to) = {}
<1>1. Numbers
  BY Typed DEF Inv
<1>2. n \in 0 .. head /\ to <= n
  BY <1>1 DEF Numbers
<1>3. PartDrops(versions, first, to) \subseteq PartDrops(versions, 0, n)
  BY <1>1, <1>2 DEF PartDrops, Numbers
<1>4. PartDrops(versions, 0, n) \cap versions[n].parts = {}
  BY <1>2 DEF Inv, LogInv, PartsInv, PartsOK
<1>. QED
  BY <1>3, <1>4

(* The next rollup to truncate to is one of the list, and the parts that   *)
(* go with it are older than it.                                           *)
LEMMA NextTargetIsHeld ==
    ASSUME Inv, NEW p \in Procs, Targets(gc[p]) # {}
    PROVE  /\ Min(Targets(gc[p])) \in Nat
           /\ Min(Targets(gc[p])) > gc[p].first
           /\ Min(Targets(gc[p])) <= CurrentSince
           /\ Min(Targets(gc[p])) <= head
           /\ \E k \in gc[p].rollups : k.at = Min(Targets(gc[p]))
           /\ \A k \in gc[p].rollups : k.at > gc[p].first =>
                k.at >= Min(Targets(gc[p]))
<1>1. Numbers
  BY Typed DEF Inv
<1>2. /\ gc[p].rollups \in SUBSET Keys /\ gc[p].first \in Nat
      /\ \A k \in gc[p].rollups : k.at \in Nat /\ k.at <= CurrentSince
  BY <1>1 DEF Inv, GcInv, Numbers
<1>. DEFINE S == Targets(gc[p])
<1>3. /\ S \in SUBSET Nat
      /\ \A s \in S : s > gc[p].first /\ \E k \in gc[p].rollups : k.at = s
      /\ \A k \in gc[p].rollups : k.at > gc[p].first => k.at \in S
  BY <1>2 DEF Targets, AtOf
<1>. HIDE DEF S
<1>4. Min(S) \in S /\ \A y \in S : Min(S) <= y
  BY <1>3, MinIsLeast DEF S
<1>5. Min(S) \in Nat /\ Min(S) <= CurrentSince
  BY <1>2, <1>3, <1>4
<1>6. Min(S) <= head
  BY <1>1, <1>5 DEF Numbers
<1>7. \A k \in gc[p].rollups : k.at > gc[p].first => k.at >= Min(S)
  BY <1>2, <1>3, <1>4, <1>5
<1>. QED
  BY <1>3, <1>4, <1>5, <1>6, <1>7 DEF S

-----------------------------------------------------------------------------
(* A step that commits a version.                                          *)

(* What Commit does to Consensus.                                          *)
Extends(v) ==
    /\ head' = head + 1 /\ head' \in SeqNos /\ earliest' = earliest
    /\ versions' \in [0 .. head + 1 -> Version]
    /\ \A n \in 0 .. head : versions'[n] = versions[n]
    /\ versions'[head + 1].rollups = v.rollups
    /\ versions'[head + 1].parts = v.parts
    /\ versions'[head + 1].holds = v.holds

(* The version adds the part that is written for it, if any.               *)
PartsStep(v) ==
    \/ v.parts = Current.parts /\ partBlobs' = partBlobs
    \/ /\ head + 1 \in v.parts
       /\ v.parts \subseteq Current.parts \cup {head + 1}
       /\ partBlobs' = partBlobs \cup {head + 1}

(* It unlinks only rollups below the earliest live diff, and what it links *)
(* from there on is in Blob.                                               *)
RollupsStep(v) ==
    /\ \A k \in Current.rollups : k \in v.rollups \/ k.at < earliest
    /\ \A k \in v.rollups : \/ k \in Current.rollups
                            \/ k \in rollupBlobs
                            \/ k.at < earliest
    /\ rollupBlobs' = rollupBlobs

(* It has no hold below the present ones.                                  *)
HoldsStep(v) == \A r \in DOMAIN v.holds : v.holds[r] >= CurrentSince

(* Commit appends a version; what it asks a collector for is not held.     *)
LEMMA CommitExtends ==
    ASSUME Inv, NEW p \in Procs, NEW v \in Version, NEW isWrite \in BOOLEAN,
           NEW lost \in BOOLEAN, Commit(p, v, isWrite, lost)
    PROVE  /\ Extends(v)
           /\ gcReq' \in [Procs -> None .. head + 1]
           /\ cache' \in [Procs -> None .. head + 1]
           /\ \A q \in Procs :
                /\ \/ gcReq'[q] = gcReq[q]
                   \/ gcReq'[q] <= CurrentSince' /\ cache'[q] # None
                /\ cache[q] # None => cache'[q] # None
           /\ fetching' = fetching
<1>1. Numbers
  BY Typed DEF Inv
<1>2. head \in Nat /\ head + 1 \in SeqNos /\ cache[p] = head
  BY <1>1 DEF Commit, SeqNos, Numbers
<1>3. PICK late \in BOOLEAN :
        LET next == MaybeGc(v, head + 1, isWrite, p \in ActiveGcProcs, late)
        IN  /\ versions' = [n \in 0 .. head + 1 |->
                              IF n <= head THEN versions[n] ELSE next.v]
            /\ gcReq' = IF lost THEN gcReq
                        ELSE [gcReq EXCEPT ![p] = Max({@, next.req})]
  BY DEF Commit
<1>. DEFINE next == MaybeGc(v, head + 1, isWrite, p \in ActiveGcProcs, late)
<1>4. /\ next.v \in Version
      /\ next.v.rollups = v.rollups
      /\ next.v.parts = v.parts
      /\ next.v.holds = v.holds
      /\ next.req \in None .. SeqNoSince(v, head + 1)
  BY <1>2, MaybeGcRequests
<1>5. /\ versions' = [n \in 0 .. head + 1 |->
                        IF n <= head THEN versions[n] ELSE next.v]
      /\ gcReq' = IF lost THEN gcReq
                  ELSE [gcReq EXCEPT ![p] = Max({@, next.req})]
  BY <1>3
<1>. HIDE DEF next
<1>6. /\ \A n \in 0 .. head : versions'[n] = versions[n]
      /\ versions'[head + 1] = next.v
  BY <1>2, <1>5
<1>7. versions' \in [0 .. head + 1 -> Version]
  BY <1>2, <1>4, <1>5 DEF Inv, TypeOK
<1>8. Extends(v)
  BY <1>2, <1>4, <1>6, <1>7 DEF Extends, Commit
<1>9. CurrentSince' = SeqNoSince(v, head + 1)
  BY <1>8 DEF CurrentSince, Current, SeqNoSince, Extends
<1>10. SeqNoSince(v, head + 1) \in 0 .. head + 1
  BY <1>2, SinceIsLeast
<1>11. cache' \in [Procs -> None .. head + 1]
  <2>1. cache' = IF lost THEN cache ELSE [cache EXCEPT ![p] = head + 1]
    BY DEF Commit
  <2>2. head + 1 \in None .. head + 1
    BY <1>2 DEF None
  <2>3. cache \in [Procs -> None .. head + 1]
    BY <1>2 DEF Inv, TypeOK, None
  <2>. QED
    BY <2>1, <2>2, <2>3
<1>12. \A q \in Procs : cache[q] # None => cache'[q] # None
  BY <1>2 DEF Commit, Inv, TypeOK, None
<1>13. gcReq \in [Procs -> None .. head + 1]
  BY <1>2 DEF Inv, TypeOK, None
<1>14. CASE lost
  BY <1>5, <1>8, <1>11, <1>12, <1>13, <1>14 DEF Commit
<1>15. CASE ~lost
  <2>1. next.req \in Int /\ gcReq[p] \in Int
    BY <1>1, <1>4, <1>10 DEF Numbers, None
  <2>2. Max({gcReq[p], next.req}) \in {gcReq[p], next.req}
    BY <2>1, PairMax
  <2>3. gcReq' = [gcReq EXCEPT ![p] = Max({gcReq[p], next.req})]
    BY <1>5, <1>15
  <2>4. /\ \A q \in Procs \ {p} : gcReq'[q] = gcReq[q]
        /\ gcReq'[p] \in {gcReq[p], next.req}
    BY <1>13, <2>2, <2>3
  <2>5. next.req \in None .. head + 1 /\ next.req <= CurrentSince'
    BY <1>2, <1>4, <1>9, <1>10, <2>1 DEF None
  <2>6. gcReq' \in [Procs -> None .. head + 1]
    BY <1>13, <2>2, <2>3, <2>5
  <2>7. cache'[p] # None
    BY <1>2, <1>12 DEF None
  <2>. QED
    BY <1>8, <1>11, <1>12, <2>4, <2>5, <2>6, <2>7 DEF Commit
<1>. QED
  BY <1>14, <1>15

(* seqno_since does not go back.                                           *)
LEMMA SinceGrows ==
    ASSUME Inv, NEW v \in Version, Extends(v), HoldsStep(v)
    PROVE  /\ CurrentSince' \in Nat /\ CurrentSince <= CurrentSince'
           /\ CurrentSince' <= head + 1
<1>1. Numbers
  BY Typed DEF Inv
<1>2. CurrentSince' = SeqNoSince(v, head + 1)
  BY DEF CurrentSince, Current, SeqNoSince, Extends
<1>3. head \in Nat /\ CurrentSince \in Nat /\ CurrentSince <= head
  BY <1>1 DEF Numbers
<1>4. /\ SeqNoSince(v, head + 1) \in 0 .. head + 1
      /\ \/ SeqNoSince(v, head + 1) = head + 1
         \/ \E r \in DOMAIN v.holds : SeqNoSince(v, head + 1) = v.holds[r]
  BY <1>3, SinceIsLeast
<1>5. \A r \in DOMAIN v.holds : v.holds[r] >= CurrentSince
  BY DEF HoldsStep
<1>6. SeqNoSince(v, head + 1) >= CurrentSince
  <2>1. CASE SeqNoSince(v, head + 1) = head + 1
    BY <1>3, <2>1
  <2>2. CASE \E r \in DOMAIN v.holds : SeqNoSince(v, head + 1) = v.holds[r]
    BY <1>5, <2>2
  <2>. QED
    BY <1>4, <2>1, <2>2
<1>. QED
  BY <1>2, <1>3, <1>4, <1>6

(* The diffs of the versions that were there are unchanged.                *)
LEMMA DropsSame ==
    ASSUME NEW V, NEW W, NEW h \in Nat, \A m \in 0 .. h : W[m] = V[m],
           NEW n \in Nat, NEW m \in 0 .. h
    PROVE  /\ PartDrops(W, n, m) = PartDrops(V, n, m)
           /\ RollupDrops(W, n, m) = RollupDrops(V, n, m)
<1>1. \A i \in n + 1 .. m : W[i] = V[i] /\ W[i - 1] = V[i - 1]
  OBVIOUS
<1>. QED
  BY <1>1 DEF PartDrops, RollupDrops

(* The diff of a new version.                                              *)
LEMMA DropsGrow ==
    ASSUME NEW V, NEW W, NEW h \in Nat, \A m \in 0 .. h : W[m] = V[m],
           NEW n \in Nat
    PROVE  /\ n <= h =>
                /\ PartDrops(W, n, h + 1) =
                     PartDrops(V, n, h) \cup (V[h].parts \ W[h + 1].parts)
                /\ RollupDrops(W, n, h + 1) =
                     RollupDrops(V, n, h)
                       \cup (V[h].rollups \ W[h + 1].rollups)
           /\ n = h + 1 =>
                PartDrops(W, n, h + 1) = {} /\ RollupDrops(W, n, h + 1) = {}
<1>1. /\ PartDrops(W, n, h) = PartDrops(V, n, h)
      /\ RollupDrops(W, n, h) = RollupDrops(V, n, h)
  BY DropsSame
<1>2. ASSUME n <= h
      PROVE  /\ PartDrops(W, n, h + 1) =
                  PartDrops(W, n, h) \cup (V[h].parts \ W[h + 1].parts)
             /\ RollupDrops(W, n, h + 1) =
                  RollupDrops(W, n, h) \cup (V[h].rollups \ W[h + 1].rollups)
  <2>1. \A i : i \in n + 1 .. h + 1 <=> i \in n + 1 .. h \/ i = h + 1
    BY <1>2
  <2>2. W[h + 1 - 1] = V[h]
    OBVIOUS
  <2>. QED
    BY <2>1, <2>2 DEF PartDrops, RollupDrops
<1>3. ASSUME n = h + 1
      PROVE  PartDrops(W, n, h + 1) = {} /\ RollupDrops(W, n, h + 1) = {}
  <2>1. n + 1 .. h + 1 = {}
    BY <1>3
  <2>. QED
    BY <2>1 DEF PartDrops, RollupDrops
<1>. QED
  BY <1>1, <1>2, <1>3

(* A version that adds one part, of its own, keeps the parts in order.     *)
LEMMA PartsGrow ==
    ASSUME NEW V, NEW W, NEW h \in Nat, \A m \in 0 .. h : W[m] = V[m],
           PartsOK(V, h), W[h + 1].parts \subseteq V[h].parts \cup {h + 1}
    PROVE  PartsOK(W, h + 1)
<1>1. ASSUME NEW m \in 0 .. h
      PROVE  /\ W[m].parts \subseteq 0 .. m
             /\ \A n \in 0 .. m :
                  /\ W[n].parts \subseteq W[m].parts \cup PartDrops(W, n, m)
                  /\ PartDrops(W, n, m) \cap W[m].parts = {}
  <2>1. ASSUME NEW n \in 0 .. m PROVE PartDrops(W, n, m) = PartDrops(V, n, m)
    <3>1. n \in Nat
      OBVIOUS
    <3>. QED
      BY <3>1, DropsSame
  <2>2. \A n \in 0 .. m : W[n] = V[n]
    OBVIOUS
  <2>. QED
    BY <2>1, <2>2 DEF PartsOK
<1>2. W[h + 1].parts \subseteq 0 .. h + 1
  BY DEF PartsOK
<1>3. ASSUME NEW n \in 0 .. h
      PROVE  /\ W[n].parts \subseteq
                  W[h + 1].parts \cup PartDrops(W, n, h + 1)
             /\ PartDrops(W, n, h + 1) \cap W[h + 1].parts = {}
  <2>1. PartDrops(W, n, h + 1) =
          PartDrops(V, n, h) \cup (V[h].parts \ W[h + 1].parts)
    <3>1. n \in Nat /\ n <= h
      OBVIOUS
    <3>. QED
      BY <3>1, DropsGrow
  <2>2. /\ V[n].parts \subseteq V[h].parts \cup PartDrops(V, n, h)
        /\ PartDrops(V, n, h) \cap V[h].parts = {}
    BY DEF PartsOK
  <2>3. h + 1 \notin PartDrops(V, n, h)
    <3>1. \A i \in n + 1 .. h : h + 1 \notin V[i - 1].parts
      BY DEF PartsOK
    <3>. QED
      BY <3>1 DEF PartDrops
  <2>4. W[n] = V[n]
    OBVIOUS
  <2>. QED
    BY <2>1, <2>2, <2>3, <2>4
<1>4. PartDrops(W, h + 1, h + 1) = {}
  BY DropsGrow
<1>5. \A m : m \in 0 .. h + 1 <=> m \in 0 .. h \/ m = h + 1
  OBVIOUS
<1>. QED
  BY <1>1, <1>2, <1>3, <1>4, <1>5 DEF PartsOK

(* Any version keeps the rollups in order.                                 *)
LEMMA RollupsGrow ==
    ASSUME NEW V, NEW W, NEW h \in Nat, \A m \in 0 .. h : W[m] = V[m],
           RollupsOK(V, h)
    PROVE  RollupsOK(W, h + 1)
<1>1. ASSUME NEW m \in 0 .. h, NEW n \in 0 .. m
      PROVE  W[n].rollups \subseteq W[m].rollups \cup RollupDrops(W, n, m)
  <2>1. RollupDrops(W, n, m) = RollupDrops(V, n, m)
    <3>1. n \in Nat
      OBVIOUS
    <3>. QED
      BY <3>1, DropsSame
  <2>2. W[n] = V[n] /\ W[m] = V[m]
    OBVIOUS
  <2>. QED
    BY <2>1, <2>2 DEF RollupsOK
<1>2. ASSUME NEW n \in 0 .. h
      PROVE  W[n].rollups \subseteq
               W[h + 1].rollups \cup RollupDrops(W, n, h + 1)
  <2>1. RollupDrops(W, n, h + 1) =
          RollupDrops(V, n, h) \cup (V[h].rollups \ W[h + 1].rollups)
    <3>1. n \in Nat /\ n <= h
      OBVIOUS
    <3>. QED
      BY <3>1, DropsGrow
  <2>2. V[n].rollups \subseteq V[h].rollups \cup RollupDrops(V, n, h)
    BY DEF RollupsOK
  <2>3. W[n] = V[n]
    OBVIOUS
  <2>. QED
    BY <2>1, <2>2, <2>3
<1>3. \A m : m \in 0 .. h + 1 <=> m \in 0 .. h \/ m = h + 1
  OBVIOUS
<1>. QED
  BY <1>1, <1>2, <1>3 DEF RollupsOK

(* A step that commits such a version keeps Consensus and Blob right.      *)
LEMMA ExtendLog ==
    ASSUME Inv, TypeOK', NEW v \in Version, Extends(v), PartsStep(v),
           RollupsStep(v), HoldsStep(v)
    PROVE  LogInv'
<1>1. Numbers /\ Numbers'
  BY Typed, TypedNext DEF Inv
<1>2. PICK h \in Nat : h = head
  BY <1>1 DEF Numbers
<1>3. PICK V : V = versions
  OBVIOUS
<1>4. PICK W : W = versions'
  OBVIOUS
<1>5. /\ head' = h + 1 /\ earliest' = earliest
      /\ \A n \in 0 .. h : W[n] = V[n]
      /\ W[h + 1].rollups = v.rollups /\ W[h + 1].parts = v.parts
  BY <1>2, <1>3, <1>4 DEF Extends
<1>6. /\ earliest \in Nat /\ earliest <= h
      /\ CurrentSince \in Nat /\ CurrentSince <= h
      /\ CurrentSince' \in Nat /\ CurrentSince <= CurrentSince'
      /\ CurrentSince' <= h + 1
  BY <1>1, <1>2, SinceGrows DEF Numbers
<1>7. /\ Current = V[h] /\ Current' = W[h + 1]
  BY <1>2, <1>3, <1>4, <1>5 DEF Current
<1>8. EarliestIsHeld'
  <2>1. earliest <= CurrentSince
    BY DEF Inv, LogInv, EarliestIsHeld
  <2>. QED
    BY <1>5, <1>6, <2>1 DEF EarliestIsHeld
<1>9. EarliestHasRollup'
  <2>1. PICK k \in V[h].rollups : k.at = earliest
    BY <1>7 DEF Inv, LogInv, EarliestHasRollup, AtOf
  <2>2. k \in v.rollups
    BY <1>6, <1>7, <2>1 DEF RollupsStep
  <2>3. earliest' \in AtOf(Current'.rollups)
    BY <1>5, <1>7, <2>1, <2>2 DEF AtOf
  <2>4. ASSUME NEW l \in v.rollups, l.at >= earliest
        PROVE  l \in rollupBlobs
    <3>1. l.at \in Nat
      BY <1>1, <1>2, <1>4, <1>5, <2>4 DEF Extends, Version, Keys, SeqNos
    <3>2. ~(l.at < earliest)
      BY <1>6, <2>4, <3>1
    <3>. QED
      BY <2>4, <3>2
      DEF RollupsStep, Inv, LogInv, EarliestHasRollup
  <2>. QED
    BY <1>5, <1>7, <2>3, <2>4 DEF EarliestHasRollup, RollupsStep
<1>10. partBlobs \subseteq partBlobs' /\ v.parts \subseteq partBlobs'
  <2>1. V[h].parts \subseteq partBlobs
    BY <1>2, <1>3, <1>6 DEF Inv, LogInv, HeldPartsExist
  <2>. QED
    BY <1>7, <2>1 DEF PartsStep
<1>11. HeldPartsExist'
  <2>1. ASSUME NEW n \in CurrentSince' .. h PROVE W[n].parts \subseteq partBlobs'
    <3>1. n \in CurrentSince .. h /\ n \in 0 .. h
      BY <1>6, <2>1
    <3>2. V[n].parts \subseteq partBlobs
      BY <1>2, <1>3, <3>1 DEF Inv, LogInv, HeldPartsExist
    <3>. QED
      BY <1>5, <1>10, <3>1, <3>2
  <2>2. \A n \in CurrentSince' .. h + 1 : n \in CurrentSince' .. h \/ n = h + 1
    BY <1>6
  <2>3. \A n \in CurrentSince' .. h + 1 : W[n].parts \subseteq partBlobs'
    BY <1>5, <1>10, <2>1, <2>2
  <2>. QED
    BY <1>4, <1>5, <2>3 DEF HeldPartsExist
<1>12. NothingLeaks'
  <2>1. \A n \in earliest .. h : n \in earliest .. h + 1 /\ W[n] = V[n]
    BY <1>5, <1>6
  <2>2. h + 1 \in earliest .. h + 1
    BY <1>6
  <2>3. \A x \in partBlobs : \E n \in earliest .. h : x \in V[n].parts
    BY <1>2, <1>3 DEF Inv, LogInv, NothingLeaks
  <2>4. \A x \in partBlobs' : \E n \in earliest .. h + 1 : x \in W[n].parts
    BY <1>5, <2>1, <2>2, <2>3, <1>2 DEF PartsStep
  <2>5. \A k \in rollupBlobs :
          (\E n \in 0 .. h : k \in V[n].rollups)
            => \E n \in earliest .. h : k \in V[n].rollups
    BY <1>2, <1>3 DEF Inv, LogInv, NothingLeaks
  <2>6. \A n \in 0 .. h + 1 : n \in 0 .. h \/ n = h + 1
    OBVIOUS
  <2>7. \A k \in rollupBlobs :
          (\E n \in 0 .. h + 1 : k \in W[n].rollups)
            => \E n \in earliest .. h + 1 : k \in W[n].rollups
    BY <1>5, <2>1, <2>2, <2>5, <2>6
  <2>. QED
    BY <1>4, <1>5, <2>4, <2>7 DEF NothingLeaks, RollupsStep
<1>13. PartsInv'
  <2>1. W[h + 1].parts \subseteq V[h].parts \cup {h + 1}
    BY <1>2, <1>5, <1>7 DEF PartsStep
  <2>2. PartsOK(V, h)
    BY <1>2, <1>3 DEF Inv, LogInv, PartsInv
  <2>3. PartsOK(W, h + 1)
    BY <1>5, <2>1, <2>2, PartsGrow
  <2>. QED
    BY <1>4, <1>5, <2>3 DEF PartsInv
<1>14. RollupsInv'
  <2>1. RollupsOK(V, h)
    BY <1>2, <1>3 DEF Inv, LogInv, RollupsInv
  <2>2. RollupsOK(W, h + 1)
    BY <1>5, <2>1, RollupsGrow
  <2>3. RollupDrops(W, 0, h + 1) =
          RollupDrops(V, 0, h) \cup (V[h].rollups \ W[h + 1].rollups)
    <3>1. 0 \in Nat /\ 0 <= h
      OBVIOUS
    <3>. QED
      BY <1>5, <3>1, DropsGrow
  <2>4. \A k \in RollupDrops(V, 0, h) : k.at < earliest
    BY <1>2, <1>3 DEF Inv, LogInv, RollupsInv
  <2>5. \A k \in RollupDrops(W, 0, h + 1) : k.at < earliest
    BY <1>5, <1>7, <2>3, <2>4 DEF RollupsStep
  <2>. QED
    BY <1>4, <1>5, <2>2, <2>5 DEF RollupsInv
<1>. QED
  BY <1>8, <1>9, <1>11, <1>12, <1>13, <1>14 DEF LogInv

(* What has been linked stays so, and what the version links is added.     *)
LEMMA LinkedGrows ==
    ASSUME Inv, NEW v \in Version, Extends(v)
    PROVE  Linked' = Linked \cup v.rollups
<1>1. PICK h \in Nat : h = head
  BY Typed DEF Inv, Numbers
<1>2. /\ head' = h + 1 /\ \A n \in 0 .. h : versions'[n] = versions[n]
      /\ versions'[h + 1].rollups = v.rollups
  BY <1>1 DEF Extends
<1>3. \A n : n \in 0 .. h + 1 <=> n \in 0 .. h \/ n = h + 1
  OBVIOUS
<1>4. \A k : k \in Linked' <=> \E n \in 0 .. h + 1 : k \in versions'[n].rollups
  BY <1>2 DEF Linked
<1>5. \A k : k \in Linked <=> \E n \in 0 .. h : k \in versions[n].rollups
  BY <1>1 DEF Linked
<1>6. \A k : k \in Linked' <=> k \in Linked \/ k \in v.rollups
  BY <1>2, <1>3, <1>4, <1>5
<1>. QED
  BY <1>6

(* The collectors, when another version is committed.                      *)
LEMMA ExtendGc ==
    ASSUME Inv, TypeOK', NEW v \in Version, Extends(v), PartsStep(v),
           RollupsStep(v), HoldsStep(v), NEW q \in Procs,
           \/ gcReq'[q] = gcReq[q]
           \/ gcReq'[q] <= CurrentSince' /\ cache'[q] # None,
           cache[q] # None => cache'[q] # None,
           gc'[q] = gc[q] \/ gc'[q] = NoGc
    PROVE  GcInv(q)'
<1>1. Numbers /\ Numbers'
  BY Typed, TypedNext DEF Inv
<1>2. GcInv(q)
  BY DEF Inv
<1>3. /\ CurrentSince \in Nat /\ CurrentSince' \in Nat
      /\ CurrentSince <= CurrentSince'
      /\ earliest' = earliest
      /\ Linked \subseteq Linked'
  BY <1>1, SinceGrows, LinkedGrows DEF Numbers, Extends
<1>4. gcReq'[q] <= CurrentSince' /\ (gcReq'[q] # None => cache'[q] # None)
  <2>1. gcReq[q] \in Int /\ gcReq[q] <= CurrentSince
        /\ (gcReq[q] # None => cache[q] # None)
    BY <1>1, <1>2 DEF Numbers, GcInv
  <2>. QED
    BY <1>3, <2>1
<1>5. CASE gc'[q] = NoGc
  BY <1>4, <1>5 DEF GcInv, NoGc, Gc
<1>6. CASE gc'[q] = gc[q]
  <2>1. PICK g : g = gc[q]
    OBVIOUS
  <2>2. gc'[q] = g
    BY <1>6, <2>1
  <2>3. /\ g.rollups \subseteq Linked'
        /\ \A k \in g.rollups : k.at <= CurrentSince'
    <3>1. \A k \in g.rollups : k.at \in Nat /\ k.at <= CurrentSince
      BY <1>1, <1>2, <2>1 DEF GcInv, Numbers
    <3>. QED
      BY <1>2, <1>3, <2>1, <3>1 DEF GcInv
  <2>4. ASSUME g.pc = "truncate"
        PROVE  Emptied(g.first, Min(Targets(g)))'
    <3>1. /\ Targets(g) # {} /\ Emptied(g.first, Min(Targets(g)))
      BY <1>2, <2>1, <2>4 DEF GcInv
    <3>2. Min(Targets(g)) \in Nat /\ Min(Targets(g)) <= head
      BY <2>1, <3>1, NextTargetIsHeld
    <3>3. PICK to \in Nat : to = Min(Targets(g))
      BY <3>2
    <3>4. PICK first \in Nat : first = g.first
      BY <1>1, <2>1 DEF Numbers
    <3>5. PICK h \in Nat : h = head
      BY <1>1 DEF Numbers
    <3>6. PICK V : V = versions
      OBVIOUS
    <3>7. PICK W : W = versions'
      OBVIOUS
    <3>8. /\ PartDrops(W, first, to) = PartDrops(V, first, to)
          /\ RollupDrops(W, first, to) = RollupDrops(V, first, to)
      <4>1. \A m \in 0 .. h : W[m] = V[m]
        BY <3>5, <3>6, <3>7 DEF Extends
      <4>2. to \in 0 .. h
        BY <3>2, <3>3, <3>5
      <4>. QED
        BY <4>1, <4>2, DropsSame
    <3>9. /\ partBlobs \cap PartDrops(V, first, to) = {}
          /\ rollupBlobs \cap RollupDrops(V, first, to) = {}
      BY <3>1, <3>3, <3>4, <3>6 DEF Emptied
    <3>10. h + 1 \notin PartDrops(V, first, to)
      <4>1. \A i \in first + 1 .. to : h + 1 \notin V[i - 1].parts
        <5>1. ASSUME NEW i \in first + 1 .. to PROVE h + 1 \notin V[i - 1].parts
          <6>1. i - 1 \in 0 .. h
            BY <3>2, <3>3, <3>5
          <6>2. V[i - 1].parts \subseteq 0 .. (i - 1)
            BY <3>5, <3>6, <6>1 DEF Inv, LogInv, PartsInv, PartsOK
          <6>. QED
            BY <6>1, <6>2
        <5>. QED
          BY <5>1
      <4>. QED
        BY <4>1 DEF PartDrops
    <3>11. /\ partBlobs' \subseteq partBlobs \cup {h + 1}
           /\ rollupBlobs' = rollupBlobs
      BY <3>5 DEF PartsStep, RollupsStep
    <3>12. /\ partBlobs' \cap PartDrops(W, first, to) = {}
           /\ rollupBlobs' \cap RollupDrops(W, first, to) = {}
      BY <3>8, <3>9, <3>10, <3>11
    <3>. QED
      BY <3>3, <3>4, <3>7, <3>12 DEF Emptied
  <2>. QED
    BY <1>2, <1>3, <1>4, <2>1, <2>2, <2>3, <2>4 DEF GcInv
<1>. QED
  BY <1>5, <1>6

(* Diffs that were scanned stay what they are.                             *)
LEMMA ExtendFetch ==
    ASSUME Inv, NEW v \in Version, Extends(v), NEW q \in Procs,
           fetching'[q] = fetching[q]
    PROVE  FetchInv(q)'
<1>1. FetchInv(q) /\ head \in Nat
  BY Typed DEF Inv, Numbers
<1>2. fetching[q].last \in None .. head
  BY DEF Inv, TypeOK
<1>3. ASSUME fetching[q] # NoFetch PROVE fetching[q].last \in 0 .. head
  BY <1>1, <1>2, <1>3 DEF FetchInv, None
<1>. QED
  BY <1>1, <1>3 DEF FetchInv, Extends

(* The other rollup tasks.                                                 *)
LEMMA ExtendTask ==
    ASSUME Inv, NEW v \in Version, Extends(v), RollupsStep(v), NEW t \in Tasks,
           \A k \in v.rollups : k \in Linked \/ k.by # t,
           task'[t] = task[t]
    PROVE  TaskInv(t)'
<1>1. TaskInv(t)
  BY DEF Inv
<1>2. Linked' = Linked \cup v.rollups
  BY LinkedGrows
<1>3. earliest' = earliest /\ rollupBlobs' = rollupBlobs
  BY DEF Extends, RollupsStep
<1>. QED
  BY <1>1, <1>2, <1>3 DEF TaskInv

(* The types of a rollup task and of a collector.                          *)
TaskType ==
    [pc : {"idle", "written", "unlinked", "done"}, key : Keys, ever : BOOLEAN]
GcType ==
    [pc : {"idle", "fetch", "initial", "delete", "truncate", "remove"},
     req : SeqNos, rollups : SUBSET Keys, first : SeqNos, last : SeqNos]

(* A command that commits: what is left is to see what its version does    *)
(* and what becomes of the task that issued it.                            *)
LEMMA CommitPreserves ==
    ASSUME Inv, NEW p \in Procs, NEW v \in Version, NEW isWrite \in BOOLEAN,
           NEW lost \in BOOLEAN, Commit(p, v, isWrite, lost),
           lost => faults < MaxFaults,
           PartsStep(v), RollupsStep(v), HoldsStep(v),
           task' \in [Tasks -> TaskType], \A t \in Tasks : TaskInv(t)',
           commands' \in 0 .. MaxCommands,
           gc' = gc \/ gc' = [gc EXCEPT ![p] = NoGc]
    PROVE  Inv'
<1>1. Numbers
  BY Typed DEF Inv
<1>2. /\ Extends(v)
      /\ gcReq' \in [Procs -> None .. head + 1]
      /\ cache' \in [Procs -> None .. head + 1]
      /\ \A q \in Procs :
           /\ \/ gcReq'[q] = gcReq[q]
              \/ gcReq'[q] <= CurrentSince' /\ cache'[q] # None
           /\ cache[q] # None => cache'[q] # None
      /\ fetching' = fetching
  BY CommitExtends
<1>3. TypeOK'
  <2>1. /\ head' \in SeqNos /\ earliest' \in 0 .. head'
        /\ versions' \in [0 .. head' -> Version]
    BY <1>1, <1>2 DEF Extends, Numbers
  <2>2. partBlobs' \subseteq SeqNos /\ rollupBlobs' \subseteq Keys
    BY <1>2, <2>1 DEF Extends, PartsStep, RollupsStep, Inv, TypeOK
  <2>3. /\ cache' \in [Procs -> None .. head']
        /\ gcReq' \in [Procs -> None .. head']
    BY <1>2 DEF Extends
  <2>4. fetching' \in [Procs -> [first : None .. head', last : None .. head']]
    <3>1. None .. head \subseteq None .. head'
      BY <1>1, <1>2 DEF Extends, Numbers, None
    <3>. QED
      BY <1>2, <3>1 DEF Inv, TypeOK
  <2>5. gc' \in [Procs -> GcType]
    <3>1. gc \in [Procs -> GcType]
      BY DEF Inv, TypeOK, GcType
    <3>2. NoGc \in GcType
      BY GcAssumption DEF NoGc, Gc, GcType, SeqNos
    <3>. QED
      BY <3>1, <3>2
  <2>6. faults' \in 0 .. MaxFaults
    BY GcAssumption DEF Commit, Inv, TypeOK
  <2>. QED
    BY <2>1, <2>2, <2>3, <2>4, <2>5, <2>6 DEF TypeOK, TaskType, GcType
<1>4. LogInv'
  BY <1>2, <1>3, ExtendLog
<1>5. ASSUME NEW q \in Procs PROVE FetchInv(q)' /\ GcInv(q)'
  <2>1. gc'[q] = gc[q] \/ gc'[q] = NoGc
    BY DEF Inv, TypeOK
  <2>2. GcInv(q)'
    BY <1>2, <1>3, <2>1, ExtendGc
  <2>3. FetchInv(q)'
    BY <1>2, ExtendFetch
  <2>. QED
    BY <2>2, <2>3
<1>. QED
  BY <1>3, <1>4, <1>5 DEF Inv

(* The current version is one of the versions.                             *)
LEMMA CurrentIsVersion ==
    ASSUME Inv
    PROVE  /\ Current \in Version /\ Current.rollups \subseteq Linked
           /\ Current.rollups \subseteq Keys
           /\ head \in Nat /\ CurrentSince \in Nat /\ CurrentSince <= head
           /\ Current.holds \in Holds
           /\ \A r \in DOMAIN Current.holds : CurrentSince <= Current.holds[r]
<1>1. head \in Nat /\ CurrentSince \in Nat /\ CurrentSince <= head
  BY Typed DEF Inv, Numbers
<1>2. head \in 0 .. head
  BY <1>1
<1>3. Current \in Version
  BY <1>2 DEF Inv, TypeOK, Current
<1>4. Current.rollups \subseteq Linked
  BY <1>2 DEF Current, Linked
<1>5. \A r \in DOMAIN Current.holds : CurrentSince <= Current.holds[r]
  BY <1>1, <1>3, SinceIsLeast DEF CurrentSince
<1>. QED
  BY <1>1, <1>3, <1>4, <1>5 DEF Version

-----------------------------------------------------------------------------
(* The commands of writers, readers and compaction.                        *)

(* They leave the rollups alone.                                           *)
LEMMA ClientPreserves ==
    ASSUME Inv, NEW p \in Procs, NEW v \in Version, NEW isWrite \in BOOLEAN,
           ClientCommit(p, v, isWrite), v.rollups = Current.rollups,
           PartsStep(v), HoldsStep(v)
    PROVE  Inv'
<1>1. /\ Commit(p, v, isWrite, FALSE)
      /\ commands' = commands + 1 /\ commands < MaxCommands
      /\ UNCHANGED <<rollupBlobs, task, gc>>
  BY DEF ClientCommit
<1>2. Extends(v)
  BY <1>1, CommitExtends
<1>3. RollupsStep(v)
  BY <1>1 DEF RollupsStep
<1>4. \A t \in Tasks : TaskInv(t)'
  <2>1. \A t \in Tasks : \A k \in v.rollups : k \in Linked \/ k.by # t
    BY CurrentIsVersion
  <2>. QED
    BY <1>1, <1>2, <1>3, <2>1, ExtendTask
<1>5. task' \in [Tasks -> TaskType]
  BY <1>1 DEF Inv, TypeOK, TaskType
<1>6. commands' \in 0 .. MaxCommands
  BY <1>1, GcAssumption DEF Inv, TypeOK
<1>. QED
  BY <1>1, <1>3, <1>4, <1>5, <1>6, CommitPreserves

(* A version with other parts or other holds.                              *)
LEMMA VersionWith ==
    ASSUME NEW v \in Version, NEW parts \in SUBSET SeqNos,
           NEW holds \in Holds, NEW rollups \in SUBSET Keys
    PROVE  /\ [v EXCEPT !.parts = parts] \in Version
           /\ [v EXCEPT !.holds = holds] \in Version
           /\ [v EXCEPT !.rollups = rollups] \in Version
           /\ [v EXCEPT !.rollups = rollups, !.activeGc = FALSE] \in Version
  BY DEF Version

(* A command that adds a part: it is in Blob first.                        *)
LEMMA NewPartPreserves ==
    ASSUME Inv, NEW p \in Procs, NEW parts, NEW isWrite \in BOOLEAN,
           parts = Current.parts \cup {head + 1} \/ parts = {head + 1},
           ClientCommit(p, [Current EXCEPT !.parts = parts], isWrite),
           partBlobs' = partBlobs \cup {head + 1}
    PROVE  Inv'
<1>1. PICK v : v = [Current EXCEPT !.parts = parts]
  OBVIOUS
<1>2. head + 1 \in SeqNos
  BY CurrentIsVersion, GcAssumption DEF ClientCommit, Commit, SeqNos
<1>3. parts \in SUBSET SeqNos
  BY <1>2, CurrentIsVersion DEF Version
<1>4. v \in Version
  BY <1>1, <1>3, CurrentIsVersion, VersionWith DEF Version
<1>5. /\ v.rollups = Current.rollups /\ v.parts = parts
      /\ v.holds = Current.holds
  BY <1>1, CurrentIsVersion DEF Version
<1>6. PartsStep(v)
  BY <1>5 DEF PartsStep
<1>7. HoldsStep(v)
  <2>1. \A r \in DOMAIN Current.holds : Current.holds[r] \in Nat
    BY CurrentIsVersion, HoldsType
  <2>. QED
    BY <1>5, <2>1, CurrentIsVersion DEF HoldsStep
<1>. QED
  BY <1>1, <1>4, <1>5, <1>6, <1>7, ClientPreserves

(* compare_and_append and merge_res.                                       *)
LEMMA PartsPreserve ==
    ASSUME Inv, NEW p \in Procs, CompareAndAppend(p) \/ MergeRes(p)
    PROVE  Inv'
<1>1. CASE CompareAndAppend(p)
  <2>1. PICK parts : parts = Current.parts \cup {head + 1}
    OBVIOUS
  <2>2. /\ ClientCommit(p, [Current EXCEPT !.parts = parts], TRUE)
        /\ partBlobs' = partBlobs \cup {head + 1}
    BY <1>1, <2>1 DEF CompareAndAppend
  <2>. QED
    BY <2>1, <2>2, NewPartPreserves
<1>2. CASE MergeRes(p)
  <2>1. PICK parts : parts = {head + 1}
    OBVIOUS
  <2>2. /\ ClientCommit(p, [Current EXCEPT !.parts = parts], FALSE)
        /\ partBlobs' = partBlobs \cup {head + 1}
    BY <1>2, <2>1 DEF MergeRes
  <2>. QED
    BY <2>1, <2>2, NewPartPreserves
<1>. QED
  BY <1>1, <1>2

(* The holds of readers: a new reader holds the new version, and a hold    *)
(* only moves up.                                                          *)
LEMMA HoldsPreserve ==
    ASSUME Inv, NEW p \in Procs, NEW holds \in Holds, SetHolds(p, holds),
           \A r \in DOMAIN holds : holds[r] >= CurrentSince
    PROVE  Inv'
<1>1. PICK v : v = [Current EXCEPT !.holds = holds]
  OBVIOUS
<1>2. /\ ClientCommit(p, v, FALSE) /\ partBlobs' = partBlobs
  BY <1>1 DEF SetHolds
<1>3. v \in Version
  BY <1>1, CurrentIsVersion, VersionWith DEF Version
<1>4. /\ v.rollups = Current.rollups /\ v.parts = Current.parts
      /\ v.holds = holds
  BY <1>1, CurrentIsVersion DEF Version
<1>5. PartsStep(v) /\ HoldsStep(v)
  BY <1>2, <1>4 DEF PartsStep, HoldsStep
<1>. QED
  BY <1>2, <1>3, <1>4, <1>5, ClientPreserves

(* register, downgrade and expire: whatever the readers do.                *)
LEMMA ReaderPreserves ==
    ASSUME Inv, NEW p \in Procs, NEW r \in Readers,
           \/ RegisterReader(p, r) \/ DowngradeReader(p, r)
           \/ ExpireReader(p, r)
    PROVE  Inv'
<1>1. PICK h : h = Current.holds
  OBVIOUS
<1>2. /\ head \in Nat /\ CurrentSince \in Nat /\ CurrentSince <= head
      /\ DOMAIN h \subseteq Readers /\ h \in [DOMAIN h -> SeqNos]
      /\ \A s \in DOMAIN h : h[s] \in Nat /\ CurrentSince <= h[s]
  BY <1>1, CurrentIsVersion, HoldsType
<1>3. ASSUME NEW holds, SetHolds(p, holds) PROVE head + 1 \in SeqNos
  BY <1>2, <1>3, GcAssumption DEF SetHolds, ClientCommit, Commit, SeqNos
<1>4. CASE RegisterReader(p, r)
  <2>1. PICK holds : holds = [s \in DOMAIN h \cup {r} |->
                                IF s = r THEN head + 1 ELSE h[s]]
    OBVIOUS
  <2>2. SetHolds(p, holds)
    BY <1>1, <1>4, <2>1 DEF RegisterReader
  <2>3. holds \in [DOMAIN h \cup {r} -> SeqNos]
    BY <1>2, <1>3, <2>1, <2>2
  <2>4. holds \in Holds
    <3>1. DOMAIN h \cup {r} \in SUBSET Readers
      BY <1>2
    <3>. QED
      BY <2>3, <3>1, HoldsMake
  <2>5. \A s \in DOMAIN holds : holds[s] >= CurrentSince
    BY <1>2, <2>1
  <2>. QED
    BY <2>2, <2>4, <2>5, HoldsPreserve
<1>5. CASE DowngradeReader(p, r)
  <2>1. PICK n \in h[r] + 1 .. head + 1 :
          r \in DOMAIN h /\ SetHolds(p, [h EXCEPT ![r] = n])
    BY <1>1, <1>5 DEF DowngradeReader
  <2>2. PICK holds : holds = [h EXCEPT ![r] = n]
    OBVIOUS
  <2>3. SetHolds(p, holds)
    BY <2>1, <2>2
  <2>4. n \in SeqNos /\ n > h[r] /\ n \in Nat
    BY <1>2, <1>3, <2>1, <2>3, GcAssumption DEF SeqNos
  <2>5. holds \in [DOMAIN h -> SeqNos]
    BY <1>2, <2>1, <2>2, <2>4
  <2>6. holds \in Holds
    BY <1>2, <2>5, HoldsMake
  <2>7. \A s \in DOMAIN holds : holds[s] >= CurrentSince
    BY <1>2, <2>1, <2>2, <2>4
  <2>. QED
    BY <2>3, <2>6, <2>7, HoldsPreserve
<1>6. CASE ExpireReader(p, r)
  <2>1. PICK holds : holds = [s \in DOMAIN h \ {r} |-> h[s]]
    OBVIOUS
  <2>2. SetHolds(p, holds)
    BY <1>1, <1>6, <2>1 DEF ExpireReader
  <2>3. holds \in [DOMAIN h \ {r} -> SeqNos]
    BY <1>2, <2>1
  <2>4. holds \in Holds
    <3>1. DOMAIN h \ {r} \in SUBSET Readers
      BY <1>2
    <3>. QED
      BY <2>3, <3>1, HoldsMake
  <2>5. \A s \in DOMAIN holds : holds[s] >= CurrentSince
    BY <1>2, <2>1
  <2>. QED
    BY <2>2, <2>4, <2>5, HoldsPreserve
<1>. QED
  BY <1>4, <1>5, <1>6

-----------------------------------------------------------------------------
(* The commands that link and unlink rollups.                              *)

(* add_rollup answers whether the rollup is linked.                        *)
LEMMA AddRollupToLinks ==
    ASSUME NEW rollups \in SUBSET Keys, NEW key \in Keys
    PROVE  /\ AddRollupTo(rollups, key).applied \in BOOLEAN
           /\ \/ AddRollupTo(rollups, key).rollups = rollups
              \/ /\ AddRollupTo(rollups, key).rollups = rollups \cup {key}
                 /\ AddRollupTo(rollups, key).applied
  BY DEF AddRollupTo

(* What a version links is in Blob, or it is below the earliest live diff: *)
(* a retry of an add_rollup that has been undone meanwhile.                *)
LEMMA AddRollupPreserves ==
    ASSUME Inv, NEW t \in Tasks, AddRollup(t)
    PROVE  Inv'
<1>1. PICK key : key = task[t].key
  OBVIOUS
<1>2. PICK rollups, applied :
        /\ rollups = AddRollupTo(Current.rollups, key).rollups
        /\ applied = AddRollupTo(Current.rollups, key).applied
  OBVIOUS
<1>3. PICK p : p = ProcOf[t]
  OBVIOUS
<1>4. PICK v : v = [Current EXCEPT !.rollups = rollups]
  OBVIOUS
<1>5. PICK lost \in BOOLEAN :
        /\ task[t].pc = "written"
        /\ lost => faults < MaxFaults
        /\ Commit(p, v, FALSE, lost)
        /\ task' = [task EXCEPT ![t] =
             CASE lost -> Task("written", @.key, task[t].ever \/ applied)
               [] ~lost /\ (task[t].ever \/ applied) -> TaskDone
               [] OTHER -> Task("unlinked", @.key, FALSE)]
        /\ UNCHANGED <<blobVars, gc, commands>>
  BY <1>1, <1>2, <1>3, <1>4 DEF AddRollup
<1>6. /\ p \in Procs /\ key \in Keys /\ task \in [Tasks -> TaskType]
      /\ task[t].ever \in BOOLEAN
  BY <1>1, <1>3, GcAssumption DEF Inv, TypeOK, TaskType
<1>7. /\ applied \in BOOLEAN
      /\ \/ rollups = Current.rollups
         \/ rollups = Current.rollups \cup {key} /\ applied
  BY <1>2, <1>6, CurrentIsVersion, AddRollupToLinks
<1>8. rollups \in SUBSET Keys
  BY <1>6, <1>7, CurrentIsVersion
<1>9. v \in Version
  BY <1>4, <1>8, CurrentIsVersion DEF Version
<1>10. v.rollups = rollups /\ v.parts = Current.parts /\ v.holds = Current.holds
  BY <1>4, CurrentIsVersion DEF Version
<1>11. Extends(v)
  BY <1>5, <1>6, <1>9, CommitExtends
<1>12. TaskInv(t)
  BY DEF Inv
<1>13. /\ key.by = t /\ (key \in rollupBlobs \/ key.at < earliest)
       /\ ~task[t].ever => key \notin Linked
  BY <1>1, <1>5, <1>12 DEF TaskInv
<1>14. PartsStep(v) /\ RollupsStep(v) /\ HoldsStep(v)
  <2>1. \A r \in DOMAIN Current.holds : Current.holds[r] \in Nat
    BY CurrentIsVersion, HoldsType
  <2>2. HoldsStep(v)
    BY <1>10, <2>1, CurrentIsVersion DEF HoldsStep
  <2>3. PartsStep(v)
    BY <1>5, <1>10 DEF PartsStep, blobVars
  <2>4. RollupsStep(v)
    BY <1>5, <1>7, <1>10, <1>13 DEF RollupsStep, blobVars
  <2>. QED
    BY <2>2, <2>3, <2>4
<1>15. \/ \E ever \in BOOLEAN :
            /\ task'[t] = Task("written", key, ever)
            /\ ~ever => ~task[t].ever /\ ~applied
       \/ task'[t] = TaskDone
       \/ task'[t] = Task("unlinked", key, FALSE) /\ ~task[t].ever /\ ~applied
  <2>1. PICK ever : ever = (task[t].ever \/ applied)
    OBVIOUS
  <2>2. ever \in BOOLEAN /\ (~ever => ~task[t].ever /\ ~applied)
    BY <2>1
  <2>3. task'[t] = CASE lost -> Task("written", key, ever)
                     [] ~lost /\ ever -> TaskDone
                     [] OTHER -> Task("unlinked", key, FALSE)
    BY <1>1, <1>5, <1>6, <2>1
  <2>4. CASE lost
    BY <2>2, <2>3, <2>4
  <2>5. CASE ~lost /\ ever
    BY <2>3, <2>5
  <2>6. CASE ~lost /\ ~ever
    BY <2>2, <2>3, <2>6
  <2>. QED
    BY <2>2, <2>4, <2>5, <2>6
<1>16. \A u \in Tasks \ {t} : task'[u] = task[u]
  BY <1>5, <1>6
<1>17. task' \in [Tasks -> TaskType]
  <2>1. task'[t] \in TaskType
    <3>1. InitialKey \in Keys
      BY GcAssumption DEF InitialKey, Keys, SeqNos
    <3>2. \A ever \in BOOLEAN : /\ Task("written", key, ever) \in TaskType
                                /\ Task("unlinked", key, ever) \in TaskType
      BY <1>6 DEF Task, TaskType
    <3>3. TaskDone \in TaskType
      BY <3>1 DEF Task, TaskDone, TaskType
    <3>. QED
      BY <1>15, <3>2, <3>3
  <2>2. task' = [task EXCEPT ![t] = task'[t]]
    BY <1>5, <1>6
  <2>. QED
    BY <1>6, <2>1, <2>2
<1>18. TaskInv(t)'
  <2>1. Linked' = Linked \cup rollups
    BY <1>9, <1>10, <1>11, LinkedGrows
  <2>2. ~task[t].ever /\ ~applied => key \notin Linked'
    BY <1>7, <1>13, <2>1, CurrentIsVersion
  <2>3. earliest' = earliest /\ rollupBlobs' = rollupBlobs
    BY <1>5, <1>11 DEF Extends, blobVars
  <2>4. ASSUME NEW ever \in BOOLEAN, task'[t] = Task("written", key, ever),
               ~ever => ~task[t].ever /\ ~applied
        PROVE  TaskInv(t)'
    BY <1>13, <2>2, <2>3, <2>4 DEF Task, TaskInv
  <2>5. CASE task'[t] = TaskDone
    BY <2>5 DEF Task, TaskDone, TaskInv
  <2>6. CASE task'[t] = Task("unlinked", key, FALSE) /\ ~task[t].ever /\ ~applied
    BY <1>13, <2>2, <2>3, <2>6 DEF Task, TaskInv
  <2>. QED
    BY <1>15, <2>4, <2>5, <2>6
<1>19. ASSUME NEW u \in Tasks PROVE TaskInv(u)'
  <2>1. CASE u # t
    <3>1. \A k \in v.rollups : k \in Linked \/ k.by # u
      BY <1>7, <1>10, <1>13, <2>1, CurrentIsVersion
    <3>. QED
      BY <1>9, <1>11, <1>14, <1>16, <2>1, <3>1, ExtendTask
  <2>. QED
    BY <1>18, <2>1
<1>20. commands' \in 0 .. MaxCommands /\ gc' = gc
  BY <1>5 DEF Inv, TypeOK
<1>. QED
  BY <1>5, <1>6, <1>9, <1>14, <1>17, <1>19, <1>20, CommitPreserves

(* remove_rollups unlinks only rollups below the earliest live diff: the   *)
(* collector has truncated up to the latest of its list.                   *)
LEMMA RemoveRollupsPreserves ==
    ASSUME Inv, NEW p \in Procs, GcRemoveRollups(p)
    PROVE  Inv'
<1>1. PICK kept : kept = {k \in Current.rollups :
                            k.at \notin AtOf(ToRemove(gc[p].rollups))}
  OBVIOUS
<1>2. PICK v : v = [Current EXCEPT !.rollups = kept, !.activeGc = FALSE]
  OBVIOUS
<1>3. PICK lost \in BOOLEAN :
        /\ gc[p].pc = "remove"
        /\ lost => faults < MaxFaults
        /\ Commit(p, v, FALSE, lost)
        /\ gc' = gc \/ gc' = [gc EXCEPT ![p] = NoGc]
        /\ UNCHANGED <<blobVars, task, commands>>
  BY <1>1, <1>2 DEF GcRemoveRollups
<1>4. kept \in SUBSET Keys /\ kept \subseteq Current.rollups
  BY <1>1, CurrentIsVersion
<1>5. v \in Version
  BY <1>2, <1>4, CurrentIsVersion DEF Version
<1>6. v.rollups = kept /\ v.parts = Current.parts /\ v.holds = Current.holds
  BY <1>2, CurrentIsVersion DEF Version
<1>7. \A k \in Current.rollups : k \in kept \/ k.at < earliest
  <2>1. \A k \in ToRemove(gc[p].rollups) : k.at < earliest
    BY <1>3 DEF Inv, GcInv
  <2>. QED
    BY <1>1, <2>1 DEF AtOf
<1>8. PartsStep(v) /\ RollupsStep(v) /\ HoldsStep(v)
  <2>1. \A r \in DOMAIN Current.holds : Current.holds[r] \in Nat
    BY CurrentIsVersion, HoldsType
  <2>2. HoldsStep(v)
    BY <1>6, <2>1, CurrentIsVersion DEF HoldsStep
  <2>3. PartsStep(v)
    BY <1>3, <1>6 DEF PartsStep, blobVars
  <2>4. RollupsStep(v)
    BY <1>3, <1>4, <1>6, <1>7 DEF RollupsStep, blobVars
  <2>. QED
    BY <2>2, <2>3, <2>4
<1>9. Extends(v)
  BY <1>3, <1>5, CommitExtends
<1>10. \A t \in Tasks : TaskInv(t)'
  <2>1. \A t \in Tasks : \A k \in v.rollups : k \in Linked \/ k.by # t
    BY <1>4, <1>6, CurrentIsVersion
  <2>. QED
    BY <1>3, <1>5, <1>8, <1>9, <2>1, ExtendTask
<1>11. task' \in [Tasks -> TaskType] /\ commands' \in 0 .. MaxCommands
  BY <1>3 DEF Inv, TypeOK, TaskType
<1>. QED
  BY <1>3, <1>5, <1>8, <1>10, <1>11, CommitPreserves

-----------------------------------------------------------------------------
(* Steps that commit no version and leave Blob alone.                      *)

(* At most, diffs are truncated.                                           *)
Still ==
    /\ UNCHANGED <<head, versions, blobVars>>
    /\ earliest' \in earliest .. head
    /\ LogInv'

(* Nothing need be truncated.                                              *)
LEMMA LogFrame ==
    ASSUME Inv, UNCHANGED <<consensusVars, blobVars>>
    PROVE  Still
<1>1. LogInv'
  BY DEF Inv, LogInv, EarliestIsHeld, EarliestHasRollup, HeldPartsExist,
         NothingLeaks, PartsInv, RollupsInv, CurrentSince, Current,
         consensusVars, blobVars
<1>2. earliest \in earliest .. head
  BY Typed DEF Inv, Numbers
<1>. QED
  BY <1>1, <1>2 DEF Still, consensusVars, blobVars

(* What has been linked, and what is held, is the same.                    *)
LEMMA StillLinked ==
    ASSUME Inv, Still
    PROVE  /\ Linked' = Linked /\ CurrentSince' = CurrentSince
           /\ earliest \in Nat /\ earliest' \in Nat /\ earliest <= earliest'
  BY Typed DEF Inv, Still, Linked, CurrentSince, Current, Numbers

(* A process whose collector and requests are left alone.                  *)
LEMMA GcFrame ==
    ASSUME Inv, Still, NEW q \in Procs,
           gc'[q] = gc[q], gcReq'[q] = gcReq[q],
           cache[q] # None => cache'[q] # None
    PROVE  GcInv(q)'
<1>1. GcInv(q) /\ Numbers
  BY Typed DEF Inv
<1>2. PICK g : g = gc[q]
  OBVIOUS
<1>3. Emptied(g.first, Min(Targets(g)))' <=> Emptied(g.first, Min(Targets(g)))
  BY DEF Emptied, Still, blobVars
<1>4. /\ g.first \in Nat
      /\ \A k \in g.rollups : k.at \in Nat
      /\ \A k \in ToRemove(g.rollups) : k.at \in Nat
  BY <1>1, <1>2 DEF Numbers, ToRemove
<1>5. /\ g.first <= earliest => g.first <= earliest'
      /\ \A k \in ToRemove(g.rollups) : k.at < earliest => k.at < earliest'
  BY <1>4, StillLinked
<1>. QED
  BY <1>1, <1>2, <1>3, <1>5, StillLinked DEF GcInv

(* A process whose collector is idle.                                      *)
LEMMA NoGcFrame ==
    ASSUME Inv, Still, NEW q \in Procs,
           gc'[q] = NoGc, gcReq'[q] = None \/ gcReq'[q] = gcReq[q],
           gcReq'[q] # None => cache'[q] = cache[q]
    PROVE  GcInv(q)'
<1>1. GcInv(q) /\ Numbers
  BY Typed DEF Inv
<1>. QED
  BY <1>1, StillLinked DEF GcInv, NoGc, Gc, None, Numbers

(* A task that is left alone, or done.                                     *)
LEMMA TaskFrame ==
    ASSUME Inv, Still, NEW t \in Tasks,
           task'[t] = task[t] \/ task'[t] = TaskDone
    PROVE  TaskInv(t)'
<1>1. TaskInv(t)
  BY DEF Inv
<1>2. task[t].key.at \in Nat
  BY GcAssumption DEF Inv, TypeOK, Keys, SeqNos
<1>3. task[t].key.at < earliest => task[t].key.at < earliest'
  BY <1>2, StillLinked
<1>. QED
  BY <1>1, <1>3, StillLinked DEF TaskInv, TaskDone, Task, Still, blobVars

(* A process whose scan is left alone, or over.                            *)
LEMMA FetchFrame ==
    ASSUME Inv, Still, NEW q \in Procs,
           fetching'[q] = fetching[q] \/ fetching'[q] = NoFetch
    PROVE  FetchInv(q)'
  BY DEF Inv, FetchInv, Still

(* A crash, or a panic: the process forgets what it was doing.             *)
LEMMA RestartPreserves ==
    ASSUME Inv, NEW p \in Procs, Restart(p), Still, commands' = commands,
           faults' \in 0 .. MaxFaults
    PROVE  Inv'
<1>1. /\ \A q \in Procs \ {p} : /\ cache'[q] = cache[q]
                                /\ fetching'[q] = fetching[q]
                                /\ gcReq'[q] = gcReq[q] /\ gc'[q] = gc[q]
      /\ fetching'[p] = NoFetch
      /\ gcReq'[p] = None /\ gc'[p] = NoGc
      /\ \A t \in Tasks : task'[t] = task[t] \/ task'[t] = TaskDone
  BY DEF Restart, Inv, TypeOK
<1>2. TypeOK'
  <2>1. head \in Nat /\ earliest' \in 0 .. head
    BY Typed DEF Inv, Numbers, Still
  <2>2. /\ None \in None .. head
        /\ NoFetch \in [first : None .. head, last : None .. head]
    BY <2>1 DEF None, NoFetch
  <2>3. NoGc \in GcType /\ TaskDone \in TaskType
    BY GcAssumption
    DEF NoGc, Gc, GcType, SeqNos, TaskDone, Task, TaskType, InitialKey, Keys
  <2>4. /\ cache' \in [Procs -> None .. head]
        /\ gcReq' \in [Procs -> None .. head]
    BY <2>2 DEF Restart, Inv, TypeOK
  <2>5. fetching' \in [Procs -> [first : None .. head, last : None .. head]]
    BY <2>2 DEF Restart, Inv, TypeOK
  <2>6. gc' \in [Procs -> GcType]
    BY <2>3 DEF Restart, Inv, TypeOK, GcType
  <2>7. task' \in [Tasks -> TaskType]
    BY <2>3 DEF Restart, Inv, TypeOK, TaskType
  <2>. QED
    BY <2>1, <2>4, <2>5, <2>6, <2>7
    DEF Inv, TypeOK, Still, blobVars, GcType, TaskType
<1>3. \A t \in Tasks : TaskInv(t)'
  BY <1>1, TaskFrame
<1>4. \A q \in Procs : FetchInv(q)'
  BY <1>1, FetchFrame
<1>5. \A q \in Procs : GcInv(q)'
  BY <1>1, GcFrame, NoGcFrame
<1>. QED
  BY <1>2, <1>3, <1>4, <1>5 DEF Inv, Still

(* A step of a collector.                                                  *)
LEMMA GcStepPreserves ==
    ASSUME Inv, NEW p \in Procs, NEW g \in GcType, Still,
           gc' = [gc EXCEPT ![p] = g],
           UNCHANGED <<cache, fetching, task, boundVars>>,
           gcReq' = gcReq \/ gcReq' = [gcReq EXCEPT ![p] = None],
           GcInv(p)'
    PROVE  Inv'
<1>1. TypeOK'
  <2>1. head \in Nat /\ earliest' \in 0 .. head /\ None \in None .. head
    BY Typed DEF Inv, Numbers, Still, None
  <2>2. gc' \in [Procs -> GcType]
    BY DEF Inv, TypeOK, GcType
  <2>3. gcReq' \in [Procs -> None .. head]
    BY <2>1 DEF Inv, TypeOK
  <2>. QED
    BY <2>1, <2>2, <2>3 DEF Inv, TypeOK, Still, blobVars, boundVars, GcType
<1>2. \A t \in Tasks : TaskInv(t)'
  BY TaskFrame
<1>3. \A q \in Procs : FetchInv(q)'
  BY FetchFrame
<1>4. ASSUME NEW q \in Procs PROVE GcInv(q)'
  <2>1. CASE q # p
    <3>1. gc'[q] = gc[q] /\ gcReq'[q] = gcReq[q]
      BY <2>1 DEF Inv, TypeOK
    <3>. QED
      BY <3>1, GcFrame
  <2>. QED
    BY <2>1
<1>. QED
  BY <1>1, <1>2, <1>3, <1>4 DEF Inv, Still

(* A process that catches up.                                              *)
LEMMA CatchUpPreserves ==
    ASSUME Inv, NEW p \in Procs, UNCHANGED <<consensusVars, blobVars, task,
                                             gcReq, gc, boundVars>>,
           cache' \in [Procs -> None .. head],
           \A q \in Procs : cache[q] # None => cache'[q] # None,
           fetching' \in [Procs -> [first : None .. head, last : None .. head]],
           \A q \in Procs \ {p} : fetching'[q] = fetching[q],
           FetchInv(p)'
    PROVE  Inv'
<1>1. Still
  BY LogFrame
<1>2. TypeOK'
  BY DEF Inv, TypeOK, consensusVars, blobVars, boundVars
<1>3. \A t \in Tasks : TaskInv(t)'
  BY <1>1, TaskFrame
<1>4. \A q \in Procs : FetchInv(q)' /\ GcInv(q)'
  BY <1>1, FetchFrame, GcFrame
<1>. QED
  BY <1>1, <1>2, <1>3, <1>4 DEF Inv, Still

(* The live diffs begin at a rollup that the current version has.          *)
LEMMA ScanStarts ==
    ASSUME Inv
    PROVE  \E k \in versions[head].rollups : k.at >= earliest
<1>1. PICK k \in versions[head].rollups : k.at = earliest
  BY DEF Inv, LogInv, EarliestHasRollup, AtOf, Current
<1>2. earliest >= earliest
  BY Typed DEF Inv, Numbers
<1>. QED
  BY <1>1, <1>2

(* ApplyDiffs, ScanDiffs and FetchRollup.                                  *)
LEMMA FetchPreserves ==
    ASSUME Inv, NEW p \in Procs,
           ApplyDiffs(p) \/ ScanDiffs(p) \/ FetchRollup(p)
    PROVE  Inv'
<1>1. PICK h \in Nat, e \in Nat : h = head /\ e = earliest /\ e <= h
  BY Typed DEF Inv, Numbers
<1>2. PICK scan : scan = [first |-> e, last |-> h]
  OBVIOUS
<1>3. /\ scan \in [first : None .. h, last : None .. h]
      /\ NoFetch \in [first : None .. h, last : None .. h]
      /\ scan.first = e /\ scan.last = h
  BY <1>1, <1>2 DEF None, NoFetch
<1>4. /\ cache \in [Procs -> None .. h]
      /\ fetching \in [Procs -> [first : None .. h, last : None .. h]]
      /\ \A q \in Procs : FetchInv(q)
  BY <1>1 DEF Inv, TypeOK
<1>5. /\ UNCHANGED <<consensusVars, blobVars, task, gcReq, gc, boundVars>>
      /\ versions' = versions /\ head' = head /\ earliest' = earliest
  BY DEF ApplyDiffs, ScanDiffs, FetchRollup, consensusVars
<1>6. \E k \in versions[h].rollups : k.at >= e
  BY <1>1, ScanStarts
<1>7. CASE ApplyDiffs(p)
  <2>1. cache' = [cache EXCEPT ![p] = h] /\ fetching' = fetching
    BY <1>1, <1>7 DEF ApplyDiffs
  <2>2. h \in None .. h /\ h # None
    BY DEF None
  <2>3. /\ cache' \in [Procs -> None .. h]
        /\ \A q \in Procs : cache[q] # None => cache'[q] # None
    BY <1>4, <2>1, <2>2
  <2>4. FetchInv(p)'
    BY <1>4, <1>5, <2>1 DEF FetchInv
  <2>. QED
    BY <1>1, <1>4, <1>5, <2>1, <2>3, <2>4, CatchUpPreserves
<1>8. CASE ScanDiffs(p)
  <2>1. cache' = cache /\ fetching' = [fetching EXCEPT ![p] = scan]
    BY <1>1, <1>2, <1>8 DEF ScanDiffs
  <2>2. /\ fetching' \in [Procs -> [first : None .. h, last : None .. h]]
        /\ fetching'[p] = scan
        /\ \A q \in Procs \ {p} : fetching'[q] = fetching[q]
    BY <1>3, <1>4, <2>1
  <2>3. FetchInv(p)'
    BY <1>3, <1>5, <1>6, <2>2 DEF FetchInv
  <2>. QED
    BY <1>1, <1>4, <1>5, <2>1, <2>2, <2>3, CatchUpPreserves
<1>9. CASE FetchRollup(p)
  <2>1. fetching[p] # NoFetch
    BY <1>9 DEF FetchRollup
  <2>2. PICK c \in Int, l \in Int : c = cache[p] /\ l = fetching[p].last
    BY <1>4 DEF None
  <2>3. c \in None .. h /\ l \in 0 .. h
    BY <1>4, <2>1, <2>2 DEF FetchInv, None
  <2>4. PICK m : m = Max({c, l})
    OBVIOUS
  <2>5. m \in None .. h /\ m # None
    <3>1. m \in {c, l} /\ m >= l
      BY <2>4, PairMax
    <3>. QED
      BY <2>3, <3>1 DEF None
  <2>6. /\ cache' = cache \/ cache' = [cache EXCEPT ![p] = m]
        /\ \/ fetching' = [fetching EXCEPT ![p] = NoFetch]
           \/ fetching' = [fetching EXCEPT ![p] = scan]
    BY <1>1, <1>2, <1>9, <2>2, <2>4 DEF FetchRollup
  <2>7. /\ cache' \in [Procs -> None .. h]
        /\ \A q \in Procs : cache[q] # None => cache'[q] # None
    BY <1>4, <2>5, <2>6
  <2>8. /\ fetching' \in [Procs -> [first : None .. h, last : None .. h]]
        /\ fetching'[p] = scan \/ fetching'[p] = NoFetch
        /\ \A q \in Procs \ {p} : fetching'[q] = fetching[q]
    BY <1>3, <1>4, <2>6
  <2>9. FetchInv(p)'
    BY <1>3, <1>5, <1>6, <2>8 DEF FetchInv
  <2>. QED
    BY <1>1, <1>5, <2>7, <2>8, <2>9, CatchUpPreserves
<1>. QED
  BY <1>7, <1>8, <1>9

-----------------------------------------------------------------------------
(* Rollup tasks.                                                           *)

(* A step of a task that changes the rollups in Blob by its own alone.     *)
LEMMA TaskStepPreserves ==
    ASSUME Inv, NEW t \in Tasks, NEW new \in TaskType,
           task' = [task EXCEPT ![t] = new],
           UNCHANGED <<consensusVars, partBlobs, cache, fetching, gcReq, gc,
                       boundVars>>,
           NEW key \in Keys, key.by = t,
           \/ rollupBlobs' = rollupBlobs
           \/ key \notin Linked /\ rollupBlobs' = rollupBlobs \cup {key}
           \/ key \notin Linked /\ rollupBlobs' = rollupBlobs \ {key},
           TaskInv(t)'
    PROVE  Inv'
<1>1. Numbers
  BY Typed DEF Inv
<1>2. /\ head' = head /\ earliest' = earliest /\ versions' = versions
      /\ partBlobs' = partBlobs /\ Linked' = Linked
      /\ CurrentSince' = CurrentSince /\ Current' = Current
  BY DEF consensusVars, Linked, CurrentSince, Current
<1>3. \A k : k # key => (k \in rollupBlobs' <=> k \in rollupBlobs)
  OBVIOUS
<1>4. \A k \in Linked : k \in rollupBlobs' <=> k \in rollupBlobs
  BY <1>3
<1>5. TypeOK'
  BY <1>2 DEF Inv, TypeOK, TaskType, boundVars
<1>6. LogInv'
  <2>1. EarliestHasRollup'
    BY <1>2, <1>4, CurrentIsVersion
    DEF Inv, LogInv, EarliestHasRollup
  <2>2. EarliestIsHeld' /\ HeldPartsExist' /\ PartsInv' /\ RollupsInv'
    BY <1>2 DEF Inv, LogInv, EarliestIsHeld, HeldPartsExist, PartsInv,
                RollupsInv
  <2>3. NothingLeaks'
    <3>1. ASSUME NEW k \in rollupBlobs', NEW n \in 0 .. head,
                 k \in versions[n].rollups
          PROVE  \E m \in earliest .. head : k \in versions[m].rollups
      <4>1. k \in Linked
        BY <3>1 DEF Linked
      <4>. QED
        BY <1>4, <3>1, <4>1 DEF Inv, LogInv, NothingLeaks
    <3>. QED
      BY <1>2, <3>1 DEF Inv, LogInv, NothingLeaks
  <2>. QED
    BY <2>1, <2>2, <2>3 DEF LogInv
<1>7. ASSUME NEW s \in Tasks PROVE TaskInv(s)'
  <2>1. CASE s # t
    <3>1. task'[s] = task[s] /\ TaskInv(s)
      BY <2>1 DEF Inv, TypeOK
    <3>2. task[s].key.by = s =>
            (task[s].key \in rollupBlobs' <=> task[s].key \in rollupBlobs)
      BY <1>3, <2>1
    <3>. QED
      BY <1>2, <3>1, <3>2 DEF TaskInv
  <2>. QED
    BY <2>1
<1>8. ASSUME NEW q \in Procs PROVE FetchInv(q)' /\ GcInv(q)'
  <2>1. FetchInv(q) /\ GcInv(q)
    BY DEF Inv
  <2>2. PICK g : g = gc[q]
    OBVIOUS
  <2>3. ASSUME g.pc = "truncate"
        PROVE  Emptied(g.first, Min(Targets(g)))'
    <3>1. /\ Targets(g) # {} /\ Emptied(g.first, Min(Targets(g)))
      BY <2>1, <2>2, <2>3 DEF GcInv
    <3>2. PICK to \in Nat : to = Min(Targets(g)) /\ to <= head
      BY <2>2, <3>1, NextTargetIsHeld
    <3>3. RollupDrops(versions, g.first, to) \subseteq Linked
      <4>1. g.first \in Nat /\ head \in Nat
        BY <1>1, <2>2 DEF Numbers
      <4>2. \A i \in g.first + 1 .. to : i - 1 \in 0 .. head
        BY <3>2, <4>1
      <4>. QED
        BY <4>2 DEF RollupDrops, Linked
    <3>4. rollupBlobs \cap RollupDrops(versions, g.first, to) = {}
      BY <3>1, <3>2 DEF Emptied
    <3>5. rollupBlobs' \cap RollupDrops(versions, g.first, to) = {}
      BY <1>4, <3>3, <3>4
    <3>. QED
      BY <1>2, <3>1, <3>2, <3>5 DEF Emptied
  <2>. QED
    BY <1>2, <2>1, <2>2, <2>3 DEF FetchInv, GcInv
<1>. QED
  BY <1>5, <1>6, <1>7, <1>8 DEF Inv

(* WriteRollup, AddRollupMismatch and DeleteRollup.                        *)
LEMMA RollupTaskPreserves ==
    ASSUME Inv, NEW t \in Tasks,
           WriteRollup(t) \/ AddRollupMismatch(t) \/ DeleteRollup(t)
    PROVE  Inv'
<1>1. /\ UNCHANGED <<consensusVars, partBlobs, cache, fetching, gcReq, gc,
                     boundVars>>
      /\ earliest' = earliest /\ Linked' = Linked
  <2>1. /\ UNCHANGED <<head, earliest, versions, partBlobs>>
        /\ UNCHANGED <<cache, fetching, gcReq, gc, boundVars>>
    BY DEF WriteRollup, AddRollupMismatch, DeleteRollup, consensusVars,
           blobVars
  <2>. QED
    BY <2>1 DEF consensusVars, Linked
<1>2. /\ task \in [Tasks -> TaskType] /\ task[t] \in TaskType
      /\ task[t].key \in Keys /\ TaskInv(t)
  BY DEF Inv, TypeOK, TaskType
<1>3. CASE WriteRollup(t)
  <2>1. PICK key : key = [at |-> cache[ProcOf[t]], by |-> t]
    OBVIOUS
  <2>2. PICK new : new = Task("written", key, FALSE)
    OBVIOUS
  <2>3. /\ task[t].pc = "idle" /\ cache[ProcOf[t]] > 0
        /\ rollupBlobs' = rollupBlobs \cup {key}
        /\ task' = [task EXCEPT ![t] = new]
    BY <1>3, <2>1, <2>2 DEF WriteRollup
  <2>4. key \in Keys /\ key.by = t
    <3>1. ProcOf[t] \in Procs
      BY GcAssumption
    <3>2. cache[ProcOf[t]] \in SeqNos
      BY <2>3, <3>1, Typed DEF Inv, TypeOK, Numbers, SeqNos, None
    <3>. QED
      BY <2>1, <3>2 DEF Keys
  <2>5. new \in TaskType /\ new.pc = "written" /\ new.key = key /\ ~new.ever
    BY <2>2, <2>4 DEF Task, TaskType
  <2>6. key \notin Linked
    BY <1>2, <2>3, <2>4 DEF TaskInv
  <2>7. TaskInv(t)'
    <3>1. task'[t] = new
      BY <1>2, <2>3
    <3>. QED
      BY <1>1, <2>3, <2>4, <2>5, <2>6, <3>1 DEF TaskInv
  <2>. QED
    BY <1>1, <2>3, <2>4, <2>5, <2>6, <2>7, TaskStepPreserves
<1>4. CASE AddRollupMismatch(t)
  <2>1. PICK new : new = [task[t] EXCEPT !.ever = TRUE]
    OBVIOUS
  <2>2. /\ task[t].pc = "written" /\ rollupBlobs' = rollupBlobs
        /\ task' = [task EXCEPT ![t] = new]
    BY <1>4, <2>1 DEF AddRollupMismatch, blobVars
  <2>3. /\ new \in TaskType /\ new.pc = "written" /\ new.key = task[t].key
        /\ new.ever
    BY <1>2, <2>1, <2>2 DEF TaskType
  <2>4. task[t].key.by = t
    BY <1>2, <2>2 DEF TaskInv
  <2>5. TaskInv(t)'
    <3>1. task'[t] = new
      BY <1>2, <2>2
    <3>. QED
      BY <1>1, <1>2, <2>2, <2>3, <3>1 DEF TaskInv
  <2>. QED
    BY <1>1, <1>2, <2>2, <2>3, <2>4, <2>5, TaskStepPreserves
<1>5. CASE DeleteRollup(t)
  <2>1. /\ task[t].pc = "unlinked"
        /\ rollupBlobs' = rollupBlobs \ {task[t].key}
        /\ task' = [task EXCEPT ![t] = TaskDone]
    BY <1>5 DEF DeleteRollup
  <2>2. task[t].key.by = t /\ task[t].key \notin Linked
    BY <1>2, <2>1 DEF TaskInv
  <2>3. TaskDone \in TaskType
    BY GcAssumption DEF TaskDone, Task, TaskType, InitialKey, Keys, SeqNos
  <2>4. TaskInv(t)'
    <3>1. task'[t] = TaskDone
      BY <1>2, <2>1
    <3>. QED
      BY <3>1 DEF TaskInv, TaskDone, Task
  <2>. QED
    BY <1>1, <1>2, <2>1, <2>2, <2>3, <2>4, TaskStepPreserves
<1>. QED
  BY <1>3, <1>4, <1>5

-----------------------------------------------------------------------------
(* Collectors.                                                             *)

(* What a collector may do next, unless it has deleted something.          *)
LEMMA GcGoesOn ==
    ASSUME Inv, NEW p \in Procs, NEW g \in GcType, Still,
           gc' = [gc EXCEPT ![p] = g],
           UNCHANGED <<cache, fetching, task, boundVars>>,
           gcReq' = gcReq \/ gcReq' = [gcReq EXCEPT ![p] = None],
           g.rollups \subseteq Linked,
           \A k \in g.rollups : k.at <= CurrentSince,
           g.pc \in {"initial", "delete"} => g.first <= earliest',
           g.pc = "delete" => Targets(g) # {},
           g.pc # "truncate",
           g.pc = "remove" => \A k \in ToRemove(g.rollups) : k.at < earliest'
    PROVE  Inv'
<1>1. gc'[p] = g /\ (gcReq'[p] = gcReq[p] \/ gcReq'[p] = None)
  BY DEF Inv, TypeOK
<1>2. GcInv(p)'
  <2>1. gcReq'[p] <= CurrentSince /\ (gcReq'[p] # None => cache'[p] # None)
    BY <1>1, Typed DEF Inv, GcInv, None, Numbers
  <2>2. Linked' = Linked /\ CurrentSince' = CurrentSince
    BY StillLinked
  <2>. QED
    BY <1>1, <2>1, <2>2 DEF GcInv
<1>. QED
  BY <1>2, GcStepPreserves

(* A collector that is done, or gives up.                                  *)
LEMMA GcStops ==
    ASSUME Inv, NEW p \in Procs, GoOn(p, NoGc), Still, UNCHANGED boundVars
    PROVE  Inv'
<1>1. NoGc \in GcType
  BY GcAssumption DEF NoGc, Gc, GcType, SeqNos
<1>2. NoGc.pc = "idle" /\ NoGc.rollups = {}
  BY DEF NoGc, Gc
<1>. QED
  BY <1>1, <1>2, GcGoesOn DEF GoOn

(* A collector that panics.                                                *)
LEMMA PanicPreserves ==
    ASSUME Inv, NEW p \in Procs, NEW site, Panic(p, site), Still,
           UNCHANGED boundVars
    PROVE  Inv'
<1>1. commands' = commands /\ faults' \in 0 .. MaxFaults /\ Restart(p)
  BY DEF boundVars, Panic, Inv, TypeOK
<1>. QED
  BY <1>1, RestartPreserves

(* The collector goes on to the next rollup of its list, or to unlink what *)
(* precedes the last one: the diffs before that one are truncated.         *)
LEMMA NextTargetPreserves ==
    ASSUME Inv, NEW p \in Procs, NEW g \in GcType, Still, UNCHANGED boundVars,
           g.rollups = gc[p].rollups, g.first <= earliest',
           NextTarget(p, g)
    PROVE  Inv'
<1>1. Numbers /\ GcInv(p)
  BY Typed DEF Inv
<1>2. /\ g.rollups \subseteq Keys /\ g.first \in SeqNos /\ g.last \in SeqNos
      /\ g.first \in Nat /\ 0 \in SeqNos
      /\ g.rollups \subseteq Linked /\ \A k \in g.rollups : k.at <= CurrentSince
      /\ \A k \in g.rollups : k.at \in Nat
      /\ earliest' \in Nat
  BY <1>1, GcAssumption, StillLinked DEF GcType, GcInv, Numbers, SeqNos
<1>3. CASE Targets(g) = {}
  <2>1. PICK n : n = Gc("remove", 0, g.rollups, 0, 0)
    OBVIOUS
  <2>2. GoOn(p, n)
    BY <1>3, <2>1 DEF NextTarget
  <2>3. n \in GcType /\ n.pc = "remove" /\ n.rollups = g.rollups
    BY <1>2, <2>1 DEF Gc, GcType
  <2>4. \A l \in g.rollups : l.at <= g.first
    BY <1>2, <1>3 DEF Targets, AtOf
  <2>5. \A k \in ToRemove(n.rollups) : k.at < earliest'
    BY <1>2, <2>3, <2>4 DEF ToRemove
  <2>. QED
    BY <1>2, <2>2, <2>3, <2>5, GcGoesOn DEF GoOn
<1>4. CASE Targets(g) # {}
  <2>1. PICK n : n = Gc("delete", 0, g.rollups, g.first, g.last)
    OBVIOUS
  <2>2. GoOn(p, n) \/ \E site : Panic(p, site)
    BY <1>4, <2>1 DEF NextTarget
  <2>3. CASE GoOn(p, n)
    <3>1. /\ n \in GcType /\ n.pc = "delete" /\ n.rollups = g.rollups
          /\ n.first = g.first
      BY <1>2, <2>1 DEF Gc, GcType
    <3>2. Targets(n) # {}
      BY <1>4, <3>1 DEF Targets
    <3>. QED
      BY <1>2, <2>3, <3>1, <3>2, GcGoesOn DEF GoOn
  <2>4. CASE \E site : Panic(p, site)
    BY <2>4, PanicPreserves
  <2>. QED
    BY <2>2, <2>3, <2>4
<1>. QED
  BY <1>3, <1>4

(* A collection begins with the rollups of the cached state up to its      *)
(* request.                                                                *)
LEMMA GcStartPreserves ==
    ASSUME Inv, NEW p \in Procs, GcStart(p)
    PROVE  Inv'
<1>1. Numbers /\ GcInv(p)
  BY Typed DEF Inv
<1>2. PICK rollups : rollups = {k \in versions[cache[p]].rollups :
                                  k.at <= gcReq[p]}
  OBVIOUS
<1>3. PICK pc : pc = IF ToRemove(rollups) = {} THEN "remove" ELSE "fetch"
  OBVIOUS
<1>4. PICK g : g = Gc(pc, gcReq[p], rollups, 0, 0)
  OBVIOUS
<1>5. /\ gcReq[p] # None
      /\ gc' = [gc EXCEPT ![p] = g]
      /\ gcReq' = [gcReq EXCEPT ![p] = None]
      /\ UNCHANGED <<consensusVars, blobVars, cache, fetching, task, boundVars>>
  BY <1>2, <1>3, <1>4 DEF GcStart
<1>6. gcReq[p] \in SeqNos /\ 0 \in SeqNos /\ cache[p] \in 0 .. head
  <2>1. /\ gcReq[p] \in None .. head /\ cache[p] \in None .. head
        /\ cache[p] # None
    BY <1>1, <1>5 DEF Inv, TypeOK, GcInv
  <2>. QED
    BY <1>1, <1>5, <2>1 DEF None, SeqNos, Numbers
<1>7. rollups \subseteq Linked /\ rollups \in SUBSET Keys
  BY <1>1, <1>2, <1>6 DEF Linked, Numbers
<1>8. \A k \in rollups : k.at <= CurrentSince
  BY <1>1, <1>2, <1>7 DEF GcInv, Numbers
<1>9. /\ g \in GcType /\ g.rollups = rollups /\ g.pc \in {"remove", "fetch"}
      /\ g.pc = "remove" => ToRemove(g.rollups) = {}
  BY <1>3, <1>4, <1>6, <1>7 DEF Gc, GcType
<1>10. Still
  BY <1>5, LogFrame
<1>. QED
  BY <1>5, <1>7, <1>8, <1>9, <1>10, GcGoesOn

(* The diffs of a collector begin with the earliest one.                   *)
LEMMA GcFetchDiffsPreserves ==
    ASSUME Inv, NEW p \in Procs, GcFetchDiffs(p)
    PROVE  Inv'
<1>1. Numbers /\ GcInv(p) /\ gc[p] \in GcType
  BY Typed DEF Inv, TypeOK, GcType
<1>2. UNCHANGED <<consensusVars, blobVars, boundVars>> /\ earliest' = earliest
  BY DEF GcFetchDiffs, consensusVars
<1>3. Still
  BY <1>2, LogFrame
<1>4. PICK last : last = IF p \in ActiveGcProcs THEN Min({gc[p].req, head})
                         ELSE head
  OBVIOUS
<1>5. PICK g : g = Gc("initial", gc[p].req, gc[p].rollups, earliest, last)
  OBVIOUS
<1>6. \/ Panic(p, "state is initialized") \/ GoOn(p, NoGc) \/ GoOn(p, g)
  BY <1>4, <1>5 DEF GcFetchDiffs
<1>7. last \in SeqNos /\ earliest \in SeqNos
  <2>1. gc[p].req \in SeqNos /\ gc[p].req \in Int /\ head \in Int
        /\ head \in SeqNos
    BY <1>1 DEF GcType, SeqNos, Numbers, Inv, TypeOK
  <2>2. Min({gc[p].req, head}) \in {gc[p].req, head}
    BY <2>1, PairMin
  <2>. QED
    BY <1>1, <1>4, <2>1, <2>2 DEF Numbers, SeqNos
<1>8. /\ g \in GcType /\ g.rollups = gc[p].rollups /\ g.pc = "initial"
      /\ g.first = earliest
  BY <1>1, <1>5, <1>7 DEF Gc, GcType
<1>9. CASE GoOn(p, g)
  <2>1. earliest <= earliest'
    BY <1>1, <1>2 DEF Numbers
  <2>. QED
    BY <1>1, <1>2, <1>3, <1>8, <1>9, <2>1, GcGoesOn DEF GoOn, GcInv
<1>. QED
  BY <1>2, <1>3, <1>6, <1>9, PanicPreserves, GcStops

(* The first rollup is there, or the collector starts over or gives up.    *)
LEMMA GcFetchRollupPreserves ==
    ASSUME Inv, NEW p \in Procs, GcFetchRollup(p)
    PROVE  Inv'
<1>1. Numbers /\ GcInv(p) /\ gc[p] \in GcType
  BY Typed DEF Inv, TypeOK, GcType
<1>2. /\ UNCHANGED <<consensusVars, blobVars, boundVars>>
      /\ earliest' = earliest /\ gc[p].pc = "initial"
  BY DEF GcFetchRollup, consensusVars
<1>3. Still
  BY <1>2, LogFrame
<1>4. PICK g : g = [gc[p] EXCEPT !.pc = "fetch"]
  OBVIOUS
<1>5. NextTarget(p, gc[p]) \/ GoOn(p, NoGc) \/ GoOn(p, g)
  BY <1>4 DEF GcFetchRollup
<1>6. gc[p].first <= earliest'
  BY <1>1, <1>2 DEF GcInv
<1>7. CASE GoOn(p, g)
  <2>1. g \in GcType /\ g.rollups = gc[p].rollups /\ g.pc = "fetch"
    BY <1>1, <1>4 DEF GcType
  <2>. QED
    BY <1>1, <1>2, <1>3, <1>7, <2>1, GcGoesOn DEF GoOn, GcInv
<1>8. CASE NextTarget(p, gc[p])
  BY <1>1, <1>2, <1>3, <1>6, <1>8, NextTargetPreserves
<1>. QED
  BY <1>2, <1>3, <1>5, <1>7, <1>8, GcStops

(* Nothing to unlink.                                                      *)
LEMMA GcNoopPreserves ==
    ASSUME Inv, NEW p \in Procs, GcNoop(p)
    PROVE  Inv'
  BY LogFrame, GcStops DEF GcNoop

(* A crash.                                                                *)
LEMMA CrashPreserves ==
    ASSUME Inv, NEW p \in Procs, Crash(p)
    PROVE  Inv'
<1>1. faults' \in 0 .. MaxFaults
  BY GcAssumption DEF Crash, Inv, TypeOK
<1>2. Still
  BY LogFrame DEF Crash
<1>. QED
  BY <1>1, <1>2, RestartPreserves DEF Crash

(* What the diffs up to a collector's target dropped can go: no version    *)
(* that is held has it, and nobody will look for such a rollup again.      *)
LEMMA GcDeletePreserves ==
    ASSUME Inv, NEW p \in Procs, GcDeleteBlobs(p)
    PROVE  Inv'
<1>1. Numbers /\ GcInv(p) /\ gc[p] \in GcType
  BY Typed DEF Inv, TypeOK, GcType
<1>2. PICK first, to : first = gc[p].first /\ to = Min(Targets(gc[p]))
  OBVIOUS
<1>3. PICK parts, rollups : /\ parts = PartDrops(versions, first, to)
                            /\ rollups = RollupDrops(versions, first, to)
  OBVIOUS
<1>4. PICK g : g = [gc[p] EXCEPT !.pc = "truncate"]
  OBVIOUS
<1>5. /\ gc[p].pc = "delete"
      /\ partBlobs' = partBlobs \ parts
      /\ rollupBlobs' = rollupBlobs \ rollups
      /\ gc' = [gc EXCEPT ![p] = g]
      /\ UNCHANGED <<cache, fetching, task, gcReq>>
      /\ UNCHANGED <<head, earliest, versions, boundVars>>
  BY <1>2, <1>3, <1>4
  DEF GcDeleteBlobs, GoOn, consensusVars, DroppedParts, DroppedRollups,
      PartDrops, RollupDrops
<1>6. Targets(gc[p]) # {}
  BY <1>1, <1>5 DEF GcInv
<1>7. first \in Nat /\ to \in Nat /\ to <= CurrentSince /\ to <= head
  BY <1>1, <1>2, <1>6, NextTargetIsHeld DEF Numbers
<1>8. \A k \in rollups : k.at < earliest
  <2>1. rollups \subseteq RollupDrops(versions, 0, head)
    BY <1>1, <1>3, <1>7 DEF RollupDrops, Numbers
  <2>. QED
    BY <2>1 DEF Inv, LogInv, RollupsInv
<1>9. /\ Linked' = Linked /\ CurrentSince' = CurrentSince
      /\ Current' = Current
  BY <1>5 DEF Linked, CurrentSince, Current
<1>10. /\ g \in GcType /\ g.pc = "truncate" /\ g.rollups = gc[p].rollups
       /\ g.first = gc[p].first /\ Targets(g) = Targets(gc[p])
  BY <1>1, <1>4 DEF GcType, Targets
<1>11. /\ gc'[p] = g /\ gc' \in [Procs -> GcType]
       /\ \A q \in Procs \ {p} : gc'[q] = gc[q]
  BY <1>5, <1>10 DEF Inv, TypeOK, GcType
<1>12. TypeOK'
  BY <1>5, <1>11 DEF Inv, TypeOK, GcType, boundVars
<1>13. LogInv'
  <2>1. EarliestHasRollup'
    <3>1. \A k \in Current.rollups : k.at >= earliest => k \notin rollups
      <4>1. \A k \in Current.rollups : k.at \in Nat /\ earliest \in Nat
        BY <1>1, CurrentIsVersion DEF Numbers
      <4>. QED
        BY <1>8, <4>1
    <3>. QED
      BY <1>5, <1>9, <3>1 DEF Inv, LogInv, EarliestHasRollup
  <2>2. HeldPartsExist'
    <3>1. ASSUME NEW n \in CurrentSince .. head
          PROVE  versions[n].parts \subseteq partBlobs'
      <4>1. versions[n].parts \cap parts = {}
        BY <1>3, <1>7, HeldIsNotDropped
      <4>. QED
        BY <1>5, <4>1 DEF Inv, LogInv, HeldPartsExist
    <3>. QED
      BY <1>5, <1>9, <3>1 DEF HeldPartsExist
  <2>3. NothingLeaks'
    BY <1>5 DEF Inv, LogInv, NothingLeaks
  <2>4. EarliestIsHeld' /\ PartsInv' /\ RollupsInv'
    BY <1>5, <1>9 DEF Inv, LogInv, EarliestIsHeld, PartsInv, RollupsInv
  <2>. QED
    BY <2>1, <2>2, <2>3, <2>4 DEF LogInv
<1>14. ASSUME NEW t \in Tasks PROVE TaskInv(t)'
  <2>1. TaskInv(t) /\ task' = task
    BY <1>5 DEF Inv
  <2>2. task[t].key \in rollupBlobs =>
          task[t].key \in rollupBlobs' \/ task[t].key.at < earliest
    BY <1>5, <1>8
  <2>. QED
    BY <1>5, <1>9, <2>1, <2>2 DEF TaskInv
<1>15. ASSUME NEW q \in Procs PROVE FetchInv(q)'
  BY <1>5 DEF Inv, FetchInv
<1>16. ASSUME NEW q \in Procs PROVE GcInv(q)'
  <2>1. /\ GcInv(q) /\ gcReq' = gcReq /\ cache' = cache
        /\ earliest' = earliest /\ versions' = versions
    BY <1>5 DEF Inv
  <2>2. CASE q = p
    <3>1. Emptied(first, to)'
      BY <1>3, <1>5 DEF Emptied
    <3>2. gc'[q] = g /\ Targets(g) # {} /\ g.first = first
          /\ Min(Targets(g)) = to
      BY <1>2, <1>6, <1>10, <1>11, <2>2
    <3>3. Emptied(g.first, Min(Targets(g)))'
      BY <3>1, <3>2
    <3>. QED
      BY <1>5, <1>9, <1>10, <2>1, <2>2, <3>2, <3>3 DEF GcInv
  <2>3. CASE q # p
    <3>1. PICK o : o = gc[q]
      OBVIOUS
    <3>2. gc'[q] = o
      BY <1>11, <2>3, <3>1
    <3>3. Emptied(o.first, Min(Targets(o))) =>
            Emptied(o.first, Min(Targets(o)))'
      BY <1>5 DEF Emptied
    <3>. QED
      BY <1>9, <2>1, <3>1, <3>2, <3>3 DEF GcInv
  <2>. QED
    BY <2>2, <2>3
<1>. QED
  BY <1>12, <1>13, <1>14, <1>15, <1>16 DEF Inv

(* Truncation leaves a rollup to start from, and leaks nothing: what only  *)
(* the truncated diffs named is gone from Blob.                            *)
LEMMA TruncateIsStill ==
    ASSUME Inv, NEW p \in Procs, gc[p].pc = "truncate",
           earliest' = Max({earliest, Min(Targets(gc[p]))}),
           UNCHANGED <<head, versions, blobVars>>
    PROVE  Still /\ earliest' >= Min(Targets(gc[p]))
<1>1. Numbers /\ GcInv(p)
  BY Typed DEF Inv
<1>2. /\ Targets(gc[p]) # {} /\ gc[p].first <= earliest
      /\ Emptied(gc[p].first, Min(Targets(gc[p])))
  BY <1>1 DEF GcInv
<1>3. PICK first \in Nat, e \in Nat, h \in Nat, V \in {versions} :
        first = gc[p].first /\ e = earliest /\ h = head /\ V = versions
  BY <1>1 DEF Numbers
<1>4. PICK to \in Nat : to = Min(Targets(gc[p]))
  BY <1>2, NextTargetIsHeld
<1>5. /\ to <= CurrentSince /\ to <= h /\ first <= e /\ e <= h
      /\ \E k \in gc[p].rollups : k.at = to
  BY <1>1, <1>2, <1>3, <1>4, NextTargetIsHeld DEF Numbers
<1>6. earliest' \in {e, to} /\ earliest' >= e /\ earliest' >= to
  <2>1. PICK m : m = Max({e, to})
    OBVIOUS
  <2>2. m \in {e, to} /\ m >= e /\ m >= to
    BY <2>1, PairMax
  <2>3. earliest' = m
    BY <1>3, <1>4, <2>1
  <2>. QED
    BY <2>2, <2>3
<1>7. CASE earliest' = e
  BY <1>3, <1>4, <1>6, <1>7, LogFrame DEF consensusVars
<1>8. CASE earliest' = to
  <2>1. /\ CurrentSince' = CurrentSince /\ Current' = Current
        /\ rollupBlobs' = rollupBlobs /\ partBlobs' = partBlobs
        /\ versions' = V /\ head' = h /\ e <= to
    BY <1>3, <1>6, <1>8 DEF CurrentSince, Current, blobVars
  <2>2. EarliestIsHeld'
    BY <1>5, <1>8, <2>1 DEF EarliestIsHeld
  <2>3. EarliestHasRollup'
    <3>1. PICK k \in gc[p].rollups : k.at = to
      BY <1>5
    <3>2. k \in Linked /\ k.at >= earliest
      BY <1>1, <1>3, <2>1, <3>1 DEF GcInv
    <3>3. k \in Current.rollups
      BY <3>2, LinkedFromEarliest
    <3>4. \A l \in Current.rollups : l.at >= to => l.at >= e
      <4>1. \A l \in Current.rollups : l.at \in Nat
        BY <1>1, CurrentIsVersion DEF Numbers
      <4>. QED
        BY <2>1, <4>1
    <3>. QED
      BY <1>3, <1>8, <2>1, <3>1, <3>3, <3>4
      DEF Inv, LogInv, EarliestHasRollup, AtOf
  <2>4. HeldPartsExist' /\ PartsInv'
    BY <1>3, <2>1 DEF Inv, LogInv, HeldPartsExist, PartsInv
  <2>5. RollupsInv'
    <3>1. ASSUME NEW k \in RollupDrops(V, 0, h) PROVE k.at < to
      <4>1. k.at < e
        BY <1>3 DEF Inv, LogInv, RollupsInv
      <4>2. k \in Linked
        <5>1. PICK i \in 0 + 1 .. h : k \in V[i - 1].rollups
          BY DEF RollupDrops
        <5>2. i - 1 \in 0 .. h
          BY <5>1
        <5>. QED
          BY <1>3, <5>1, <5>2 DEF Linked
      <4>3. k.at \in Nat
        BY <1>1, <4>2 DEF Numbers
      <4>. QED
        BY <2>1, <4>1, <4>3
    <3>2. RollupsOK(V, h)
      BY <1>3 DEF Inv, LogInv, RollupsInv
    <3>. QED
      BY <1>8, <2>1, <3>1, <3>2 DEF RollupsInv
  <2>6. ASSUME NEW n \in e .. h
        PROVE  \E m \in to .. h :
                 /\ V[n].parts \cap partBlobs \subseteq V[m].parts
                 /\ V[n].rollups \cap rollupBlobs \subseteq V[m].rollups
    <3>1. CASE n >= to
      BY <3>1
    <3>2. CASE n < to
      <4>1. /\ to \in 0 .. h /\ n \in 0 .. to
        BY <1>5, <3>2
      <4>2. /\ V[n].parts \subseteq V[to].parts \cup PartDrops(V, n, to)
            /\ V[n].rollups \subseteq V[to].rollups \cup RollupDrops(V, n, to)
        BY <1>3, <4>1
        DEF Inv, LogInv, PartsInv, PartsOK, RollupsInv, RollupsOK
      <4>3. /\ PartDrops(V, n, to) \subseteq PartDrops(V, first, to)
            /\ RollupDrops(V, n, to) \subseteq RollupDrops(V, first, to)
        BY <1>5 DEF PartDrops, RollupDrops
      <4>4. /\ partBlobs \cap PartDrops(V, first, to) = {}
            /\ rollupBlobs \cap RollupDrops(V, first, to) = {}
        BY <1>2, <1>3, <1>4 DEF Emptied
      <4>5. /\ V[n].parts \cap partBlobs \subseteq V[to].parts
            /\ V[n].rollups \cap rollupBlobs \subseteq V[to].rollups
        BY <4>2, <4>3, <4>4
      <4>. QED
        BY <1>5, <4>5
    <3>. QED
      BY <3>1, <3>2
  <2>7. NothingLeaks'
    <3>1. partBlobs \subseteq UNION {V[n].parts : n \in to .. h}
      <4>1. ASSUME NEW x \in partBlobs
            PROVE  \E n \in to .. h : x \in V[n].parts
        <5>1. PICK n \in e .. h : x \in V[n].parts
          BY <1>3 DEF Inv, LogInv, NothingLeaks
        <5>. QED
          BY <2>6, <5>1
      <4>. QED
        BY <4>1
    <3>2. ASSUME NEW k \in rollupBlobs, NEW i \in 0 .. h, k \in V[i].rollups
          PROVE  \E n \in to .. h : k \in V[n].rollups
      <4>1. PICK n \in e .. h : k \in V[n].rollups
        BY <1>3, <3>2 DEF Inv, LogInv, NothingLeaks
      <4>. QED
        BY <2>6, <4>1
    <3>. QED
      BY <1>8, <2>1, <3>1, <3>2 DEF NothingLeaks
  <2>8. LogInv'
    BY <2>2, <2>3, <2>4, <2>5, <2>7 DEF LogInv
  <2>9. earliest' \in earliest .. head
    BY <1>3, <1>5, <1>8, <2>1
  <2>. QED
    BY <1>4, <1>6, <2>8, <2>9 DEF Still
<1>. QED
  BY <1>6, <1>7, <1>8

(* The diffs below the target are truncated, on to the next.               *)
LEMMA GcTruncatePreserves ==
    ASSUME Inv, NEW p \in Procs, GcTruncate(p)
    PROVE  Inv'
<1>1. PICK g : g = [gc[p] EXCEPT !.first = Min(Targets(gc[p]))]
  OBVIOUS
<1>2. /\ gc[p].pc = "truncate" /\ NextTarget(p, g)
      /\ earliest' = Max({earliest, Min(Targets(gc[p]))})
      /\ UNCHANGED <<head, versions, blobVars>> /\ UNCHANGED boundVars
  BY <1>1 DEF GcTruncate
<1>3. Still /\ earliest' >= Min(Targets(gc[p]))
  BY <1>2, TruncateIsStill
<1>4. Numbers /\ gc[p] \in GcType /\ Targets(gc[p]) # {}
  BY <1>2, Typed DEF Inv, TypeOK, GcType, GcInv
<1>5. /\ Min(Targets(gc[p])) \in SeqNos
      /\ Min(Targets(gc[p])) <= earliest'
  <2>1. Min(Targets(gc[p])) \in Nat /\ Min(Targets(gc[p])) <= head
    BY <1>4, NextTargetIsHeld
  <2>. QED
    BY <1>3, <1>4, <2>1, StillLinked DEF Numbers, SeqNos
<1>6. /\ g \in GcType /\ g.rollups = gc[p].rollups
      /\ g.first = Min(Targets(gc[p]))
  BY <1>1, <1>4, <1>5 DEF GcType
<1>. QED
  BY <1>2, <1>3, <1>5, <1>6, NextTargetPreserves

-----------------------------------------------------------------------------
(* The theorems.                                                           *)

(* A new shard: one version, one rollup.                                   *)
LEMMA InitInv == Init => Inv
<1>. SUFFICES ASSUME Init PROVE Inv
  OBVIOUS
<1>1. PICK v : v = [rollups |-> {InitialKey}, parts |-> {},
                    holds |-> [r \in {} |-> 0], lastGc |-> 0,
                    activeGc |-> FALSE]
  OBVIOUS
<1>2. /\ head = 0 /\ earliest = 0 /\ versions = [n \in {0} |-> v]
      /\ versions[0] = v /\ Current = v
      /\ partBlobs = {} /\ rollupBlobs = {InitialKey}
      /\ cache = [p \in Procs |-> 0] /\ fetching = [p \in Procs |-> NoFetch]
      /\ task = [t \in Tasks |-> NoTask] /\ gcReq = [p \in Procs |-> None]
      /\ gc = [p \in Procs |-> NoGc] /\ commands = 0 /\ faults = 0
  BY <1>1 DEF Init, Current
<1>3. 0 .. 0 = {0} /\ 0 \in SeqNos /\ 0 \in None .. 0 /\ None \in None .. 0
  BY GcAssumption DEF SeqNos, None
<1>4. InitialKey \in Keys /\ InitialKey.at = 0 /\ InitialKey.by = InitialTask
  BY <1>3 DEF InitialKey, Keys
<1>5. v \in Version /\ v.rollups = {InitialKey} /\ v.parts = {}
  <2>1. [r \in {} |-> 0] \in Holds
    <3>1. [r \in {} |-> 0] \in [{} -> SeqNos]
      OBVIOUS
    <3>. QED
      BY <3>1, HoldsMake
  <2>. QED
    BY <1>1, <1>3, <1>4, <2>1 DEF Version
<1>6. TypeOK
  <2>1. NoTask \in TaskType /\ NoGc \in GcType
    BY <1>3, <1>4 DEF NoTask, Task, TaskType, NoGc, Gc, GcType
  <2>2. NoFetch \in [first : None .. 0, last : None .. 0]
    BY <1>3 DEF NoFetch
  <2>3. task \in [Tasks -> TaskType] /\ gc \in [Procs -> GcType]
    BY <1>2, <2>1
  <2>4. fetching \in [Procs -> [first : None .. head, last : None .. head]]
    BY <1>2, <2>2
  <2>5. /\ cache \in [Procs -> None .. head]
        /\ gcReq \in [Procs -> None .. head]
    BY <1>2, <1>3
  <2>6. versions \in [0 .. head -> Version]
    BY <1>2, <1>3, <1>5
  <2>7. commands \in 0 .. MaxCommands /\ faults \in 0 .. MaxFaults
    BY <1>2, GcAssumption
  <2>. QED
    BY <1>2, <1>3, <1>4, <2>3, <2>4, <2>5, <2>6, <2>7
    DEF TypeOK, TaskType, GcType
<1>7. Linked = {InitialKey}
  BY <1>2, <1>3, <1>5 DEF Linked
<1>8. CurrentSince = 0
  <2>1. CurrentSince \in 0 .. 0
    BY <1>2, <1>5, SinceIsLeast DEF CurrentSince
  <2>. QED
    BY <2>1
<1>9. LogInv
  <2>1. PartDrops(versions, 0, 0) = {} /\ RollupDrops(versions, 0, 0) = {}
    BY DEF PartDrops, RollupDrops
  <2>2. PartsInv /\ RollupsInv
    BY <1>2, <1>3, <1>5, <2>1
    DEF PartsInv, PartsOK, RollupsInv, RollupsOK
  <2>3. EarliestHasRollup
    BY <1>2, <1>4, <1>5 DEF EarliestHasRollup, AtOf
  <2>4. EarliestIsHeld /\ HeldPartsExist
    BY <1>2, <1>3, <1>5, <1>8 DEF EarliestIsHeld, HeldPartsExist
  <2>5. NothingLeaks
    BY <1>2, <1>3, <1>5 DEF NothingLeaks
  <2>. QED
    BY <2>2, <2>3, <2>4, <2>5 DEF LogInv
<1>10. ASSUME NEW t \in Tasks PROVE TaskInv(t)
  <2>1. t # InitialTask
    BY GcAssumption
  <2>. QED
    BY <1>2, <1>4, <1>7, <2>1 DEF TaskInv, NoTask, Task
<1>11. ASSUME NEW p \in Procs PROVE FetchInv(p) /\ GcInv(p)
  BY <1>2, <1>7, <1>8 DEF FetchInv, GcInv, NoGc, Gc, None
<1>. QED
  BY <1>6, <1>9, <1>10, <1>11 DEF Inv

(* A step that changes nothing.                                            *)
LEMMA StutterPreserves ==
    ASSUME Inv, UNCHANGED vars
    PROVE  Inv'
<1>1. /\ UNCHANGED <<consensusVars, blobVars>>
      /\ UNCHANGED <<cache, fetching, task, gcReq, gc, boundVars>>
  BY DEF vars
<1>2. Still
  BY <1>1, LogFrame
<1>3. TypeOK'
  BY <1>1 DEF Inv, TypeOK, consensusVars, blobVars, boundVars
<1>4. \A t \in Tasks : TaskInv(t)'
  BY <1>1, <1>2, TaskFrame
<1>5. \A q \in Procs : FetchInv(q)' /\ GcInv(q)'
  BY <1>1, <1>2, FetchFrame, GcFrame
<1>. QED
  BY <1>2, <1>3, <1>4, <1>5 DEF Inv, Still

(* Every step preserves the invariant.                                     *)
LEMMA NextInv == Inv /\ [Next]_vars => Inv'
<1>. SUFFICES ASSUME Inv, [Next]_vars PROVE Inv'
  OBVIOUS
<1>1. ASSUME NEW p \in ClientProcs, CompareAndAppend(p) \/ MergeRes(p)
      PROVE  Inv'
  BY <1>1, PartsPreserve, GcAssumption
<1>2. ASSUME NEW p \in ClientProcs, NEW r \in Readers,
             \/ RegisterReader(p, r) \/ DowngradeReader(p, r)
             \/ ExpireReader(p, r)
      PROVE  Inv'
  BY <1>2, ReaderPreserves, GcAssumption
<1>3. ASSUME NEW p \in Procs, ApplyDiffs(p) \/ ScanDiffs(p) \/ FetchRollup(p)
      PROVE  Inv'
  BY <1>3, FetchPreserves
<1>4. ASSUME NEW p \in Procs,
             GcStart(p) \/ GcFetchDiffs(p) \/ GcFetchRollup(p)
      PROVE  Inv'
  BY <1>4, GcStartPreserves, GcFetchDiffsPreserves, GcFetchRollupPreserves
<1>5. ASSUME NEW p \in Procs, GcDeleteBlobs(p) \/ GcTruncate(p)
      PROVE  Inv'
  BY <1>5, GcDeletePreserves, GcTruncatePreserves
<1>6. ASSUME NEW p \in Procs, GcRemoveRollups(p) \/ GcNoop(p) \/ Crash(p)
      PROVE  Inv'
  BY <1>6, RemoveRollupsPreserves, GcNoopPreserves, CrashPreserves
<1>7. ASSUME NEW t \in Tasks,
             WriteRollup(t) \/ AddRollupMismatch(t) \/ DeleteRollup(t)
      PROVE  Inv'
  BY <1>7, RollupTaskPreserves
<1>8. ASSUME NEW t \in Tasks, AddRollup(t) PROVE Inv'
  BY <1>8, AddRollupPreserves
<1>9. CASE UNCHANGED vars
  BY <1>9, StutterPreserves
<1>. QED
  BY <1>1, <1>2, <1>3, <1>4, <1>5, <1>6, <1>7, <1>8, <1>9 DEF Next

(* The invariant holds throughout.                                         *)
LEMMA Invariance == Spec => []Inv
  BY InitInv, NextInv, PTL DEF Spec

(* Types: the SeqNos that collectors, caches and scans keep are never      *)
(* above the current version, whatever the others do meanwhile.            *)
THEOREM TypeCorrect == Spec => []TypeOK
<1>1. Inv => TypeOK
  BY DEF Inv
<1>. QED
  BY <1>1, Invariance, PTL

(* StateVersions: earliest <= current.seqno_since(), whatever the          *)
(* collectors of any number of processes truncate.                         *)
THEOREM NoHeldVersionIsTruncated == Spec => []EarliestIsHeld
<1>1. Inv => EarliestIsHeld
  BY DEF Inv, LogInv
<1>. QED
  BY <1>1, Invariance, PTL

(* The shard can always be recovered: the current state names a rollup for *)
(* the earliest live diff, and the rollups from there on are in Blob.      *)
THEOREM ShardIsRecoverable == Spec => []EarliestHasRollup
<1>1. Inv => EarliestHasRollup
  BY DEF Inv, LogInv
<1>. QED
  BY <1>1, Invariance, PTL

(* delete_and_truncate never deletes a part of a version that a reader may *)
(* still hold.                                                             *)
THEOREM HeldDataIsKept == Spec => []HeldPartsExist
<1>1. Inv => HeldPartsExist
  BY DEF Inv, LogInv
<1>. QED
  BY <1>1, Invariance, PTL

(* Whatever order the collectors, crashes and lost answers come in, every  *)
(* part and every linked rollup in Blob is named by a live version, so a   *)
(* later collection can find it.                                           *)
THEOREM BlobsAreNamed == Spec => []NothingLeaks
<1>1. Inv => NothingLeaks
  BY DEF Inv, LogInv
<1>. QED
  BY <1>1, Invariance, PTL

(* fetch_current_state: when the rollup it looks for is gone, the earliest *)
(* diff has moved on since it scanned them.                                *)
THEOREM RefetchIsJustified == Spec => []RefetchMakesProgress
<1>1. ASSUME Inv PROVE RefetchMakesProgress
  <2>. SUFFICES ASSUME NEW p \in Procs, fetching[p] # NoFetch
                PROVE  LET latest == LatestRollup(versions[fetching[p].last])
                       IN  /\ fetching[p].first <= latest.at + 1
                           /\ latest \in rollupBlobs
                                \/ earliest > fetching[p].first
    BY DEF RefetchMakesProgress
  <2>1. Numbers /\ FetchInv(p)
    BY Typed, <1>1 DEF Inv
  <2>2. PICK first \in Int, last \in 0 .. head :
          first = fetching[p].first /\ last = fetching[p].last
    <3>1. fetching[p] \in [first : None .. head, last : None .. head]
      BY <1>1 DEF Inv, TypeOK
    <3>. QED
      BY <2>1, <3>1 DEF FetchInv, None, Numbers
  <2>3. PICK v : v = versions[last]
    OBVIOUS
  <2>4. v.rollups \subseteq Keys /\ v.rollups \subseteq Linked
    BY <2>1, <2>2, <2>3 DEF Linked, Numbers
  <2>5. PICK k \in v.rollups : k.at >= first
    BY <2>1, <2>2, <2>3 DEF FetchInv
  <2>6. PICK ats : ats = AtOf(v.rollups)
    OBVIOUS
  <2>7. ats \in SUBSET (0 .. MaxSeqNo) /\ k.at \in ats /\ MaxSeqNo \in Nat
    BY <2>1, <2>4, <2>6 DEF AtOf, Keys, SeqNos, Numbers
  <2>8. Max(ats) \in ats /\ \A y \in ats : y <= Max(ats)
    BY <2>7, MaxIsGreatest
  <2>9. PICK latest : latest = LatestRollup(v)
    OBVIOUS
  <2>10. latest \in v.rollups /\ latest.at = Max(ats)
    <3>1. \E l \in v.rollups : l.at = Max(ats)
      BY <2>6, <2>8 DEF AtOf
    <3>. QED
      BY <2>6, <2>9, <3>1 DEF LatestRollup
  <2>11. latest.at \in Nat /\ earliest \in Nat /\ latest.at >= first
    <3>1. latest.at \in Nat /\ k.at \in Nat /\ earliest \in Nat
      BY <2>1, <2>4, <2>10 DEF Numbers
    <3>. QED
      BY <2>2, <2>5, <2>7, <2>8, <2>10, <3>1
  <2>12. latest.at >= earliest => latest \in rollupBlobs
    BY <1>1, <2>4, <2>10, LinkedFromEarliest
  <2>13. /\ first <= latest.at + 1
         /\ latest \in rollupBlobs \/ earliest > first
    BY <2>2, <2>11, <2>12
  <2>. QED
    BY <2>2, <2>3, <2>9, <2>13
<1>. QED
  BY <1>1, Invariance, PTL
=============================================================================
