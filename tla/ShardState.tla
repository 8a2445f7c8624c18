----------------------------- MODULE ShardState -----------------------------
(***************************************************************************)
(* The versioned state of one persist shard and its transition functions   *)
(* (persist-client/src/internal/state.rs, struct StateCollections).        *)
(*                                                                         *)
(* A frontier is a totally ordered antichain: 0 .. Top-1 stand for one     *)
(* timestamp each and Top for the empty antichain, which is beyond all of  *)
(* them.  The BTreeMaps of the code are functions whose DOMAIN is the set  *)
(* of registered ids.  A batch is identified by the call that wrote it.    *)
(* Rollups and garbage collection requests, which StateCollections also    *)
(* holds, do not influence any field kept here.                            *)
(***************************************************************************)
EXTENDS Integers, FiniteSets

CONSTANTS
    Writers,        \* WriterIds
    LeasedReaders,  \* LeasedReaderIds
    CriticalIds,    \* CriticalReaderIds
    InlineWriters,  \* the writers whose batches are one inline part
    Top,            \* the empty antichain
    InlineMax       \* INLINE_WRITES_TOTAL_MAX_BYTES, in inline batches

ASSUME TopAssumption == Top \in Nat \ {0}
ASSUME InlineAssumption == InlineWriters \subseteq Writers /\ InlineMax \in Nat

Frontier == 0 .. Top
Sentinel == 0          \* IdempotencyToken::SENTINEL
DefaultOpaque == 0     \* PersistEpoch::default(), below every real epoch

-----------------------------------------------------------------------------
(* Maps, as BTreeMap::insert and BTreeMap::remove change them.             *)

Insert(f, k, v) == [x \in DOMAIN f \cup {k} |-> IF x = k THEN v ELSE f[x]]
Without(f, S) == [x \in DOMAIN f \ S |-> f[x]]
IsMap(f, K, V) == DOMAIN f \subseteq K /\ f \in [DOMAIN f -> V]
NoEntries == [x \in {} |-> 0]

WriterState == [token : Nat, upper : Frontier]
LeasedReaderState == [seqno : Nat, since : Frontier]
CriticalReaderState == [opaque : Nat, since : Frontier]
HollowBatch == [token : Nat, lower : Frontier, upper : Frontier,
                inline : BOOLEAN, empty : BOOLEAN]

IsShardState(s) ==
    /\ s = [seqno |-> s.seqno, since |-> s.since, upper |-> s.upper,
            writers |-> s.writers, leased |-> s.leased,
            critical |-> s.critical, batches |-> s.batches]
    /\ s.seqno \in Nat
    /\ s.since \in Frontier
    /\ s.upper \in Frontier
    /\ IsMap(s.writers, Writers, WriterState)
    /\ IsMap(s.leased, LeasedReaders, LeasedReaderState)
    /\ IsMap(s.critical, CriticalIds, CriticalReaderState)
    /\ s.batches \subseteq HollowBatch

(* TypedState::new: the state a freshly initialised shard starts from.     *)
InitialState ==
    [seqno |-> 0, since |-> 0, upper |-> 0, writers |-> NoEntries,
     leased |-> NoEntries, critical |-> NoEntries, batches |-> {}]

-----------------------------------------------------------------------------
(* What a work_fn gives back: Break leaves the shard alone, Continue asks  *)
(* for the new state to be committed.                                      *)

Break(ret) == [flow |-> "Break", ret |-> ret]
Continue(st, ret) == [flow |-> "Continue", st |-> st, ret |-> ret]
(* An assert! or a panic! inside the work_fn.                              *)
Panic == [flow |-> "Panic"]

IsTombstone(s) ==
    /\ s.upper = Top
    /\ s.since = Top
    /\ DOMAIN s.writers = {}
    /\ DOMAIN s.leased = {}
    /\ DOMAIN s.critical = {}

ReaderSinces(s) == {s.leased[r].since : r \in DOMAIN s.leased}
                     \cup {s.critical[c].since : c \in DOMAIN s.critical}

Meet(S) == CHOOSE x \in S : \A y \in S : x <= y

(* update_since: meet over all readers, unchanged when there are none.     *)
UpdateSince(s) ==
    IF ReaderSinces(s) = {} THEN s
    ELSE [s EXCEPT !.since = Meet(ReaderSinces(s))]

CriticalSince(s) ==
    IF DOMAIN s.critical = {} THEN s.since
    ELSE Meet({s.critical[c].since : c \in DOMAIN s.critical})

(* seqno_since: the earliest state version some leased reader still needs. *)
SeqnoSince(s) ==
    Meet({s.seqno} \cup {s.leased[r].seqno : r \in DOMAIN s.leased})

-----------------------------------------------------------------------------
(* The commands.  In each of them s is the clone made by clone_apply,      *)
(* which already carries the next SeqNo.                                   *)

NextVersion(s) == [s EXCEPT !.seqno = @ + 1]

InlineBatches(s) == {b \in s.batches : b.inline}

WriterEntry(s, w) ==
    IF w \in DOMAIN s.writers THEN s.writers[w]
    ELSE [token |-> Sentinel, upper |-> 0]

PushBatchPastEnd(s, b) ==  \* mutant: off by one at the upper
    IF b.upper = b.lower THEN s
    ELSE [s EXCEPT !.batches = @ \cup {b}, !.upper = b.upper + 1]
PushBatch(s, b) ==
    IF b.upper = b.lower THEN s
    ELSE [s EXCEPT !.batches = @ \cup {b}, !.upper = b.upper]

CompareAndAppendUnchecked(s, w, b) ==  \* mutant: no expected upper
    LET e == WriterEntry(s, w) IN
    IF IsTombstone(s)
    THEN Break([err |-> "Upper", shard_upper |-> Top, writer_upper |-> Top])
    ELSE IF b.token = e.token THEN Break([err |-> "AlreadyCommitted"])
    ELSE Continue([PushBatch(s, b) EXCEPT
                     !.writers = Insert(s.writers, w,
                                   [token |-> b.token, upper |-> b.upper])],
                  "Ok")
CompareAndAppendNoToken(s, w, b) ==  \* mutant: does not record the write
    LET e == WriterEntry(s, w) IN
    IF s.upper # b.lower
    THEN Break([err |-> "Upper", shard_upper |-> s.upper,
                writer_upper |-> e.upper])
    ELSE Continue([PushBatch(s, b) EXCEPT
                     !.writers = Insert(s.writers, w, e)], "Ok")

CompareAndAppend(s, w, b) ==
    LET e == WriterEntry(s, w) IN
    IF IsTombstone(s)
    THEN Break([err |-> "Upper", shard_upper |-> Top, writer_upper |-> Top])
    ELSE IF b.upper < b.lower \/ (b.upper = b.lower /\ ~b.empty)
    THEN Break([err |-> "InvalidUsage"])
    ELSE IF b.token = e.token
    THEN IF b.upper = e.upper /\ b.upper <= s.upper
         THEN Break([err |-> "AlreadyCommitted"])
         ELSE Panic
    ELSE IF s.upper # b.lower
    THEN Break([err |-> "Upper", shard_upper |-> s.upper,
                writer_upper |-> e.upper])
    ELSE IF b.inline /\ Cardinality(InlineBatches(s)) + 1 >= InlineMax
    THEN Break([err |-> "InlineBackpressure"])
    ELSE IF ~(e.upper <= b.upper)
    THEN Panic
    ELSE Continue([PushBatch(s, b) EXCEPT
                     !.writers = Insert(s.writers, w,
                                   [token |-> b.token, upper |-> b.upper])],
                  "Ok")

ExpireWriter(s, w) ==
    IF IsTombstone(s) THEN Break("Ok")
    ELSE Continue([s EXCEPT !.writers = Without(@, {w})], "Ok")

RegisterAtMinimum(s, r, useCriticalSince) ==  \* mutant: since T::minimum()
    LET e == [seqno |-> s.seqno, since |-> 0]
    IN  IF IsTombstone(s) THEN Break(e)
        ELSE Continue([s EXCEPT !.leased = Insert(@, r, e)], e)
RegisterLeasedReader(s, r, useCriticalSince) ==
    LET e == [seqno |-> s.seqno,
              since |-> IF useCriticalSince THEN CriticalSince(s) ELSE s.since]
    IN  IF IsTombstone(s) THEN Break(e)
        ELSE Continue([s EXCEPT !.leased = Insert(@, r, e)], e)

DowngradeSinceNoHold(s, r, outstanding, newSince) ==
    \* mutant: drops the SeqNo hold instead of moving it to the oldest lease
    IF IsTombstone(s) \/ r \notin DOMAIN s.leased THEN Break(Top)
    ELSE LET old == s.leased[r]
             fwd == old.since < newSince
             new == [seqno |-> s.seqno,
                     since |-> IF fwd THEN newSince ELSE old.since]
             s1 == [s EXCEPT !.leased = Insert(@, r, new)]
         IN  Continue(IF fwd THEN UpdateSince(s1) ELSE s1, new.since)

(* The reader's seqno capability moves to the oldest version it still has  *)
(* outstanding; its since only ever moves forward.                         *)
DowngradeSince(s, r, outstanding, newSince) ==
    IF IsTombstone(s) \/ r \notin DOMAIN s.leased THEN Break(Top)
    ELSE LET old == s.leased[r]
             held == IF outstanding < s.seqno THEN outstanding ELSE s.seqno
             fwd == old.since < newSince
             new == [seqno |-> held,
                     since |-> IF fwd THEN newSince ELSE old.since]
             s1 == [s EXCEPT !.leased = Insert(@, r, new)]
         IN  IF outstanding < old.seqno THEN Panic
             ELSE Continue(IF fwd THEN UpdateSince(s1) ELSE s1, new.since)

ExpireOnTombstone(s, r) ==  \* mutant: no tombstone check
    Continue([s EXCEPT !.leased = Without(@, {r})], "Ok")
(* Neither expiry recomputes the shard's since: update_since is commented  *)
(* out there (database-issues#6885).                                       *)
ExpireLeasedReader(s, r) ==
    IF IsTombstone(s) THEN Break("Ok")
    ELSE Continue([s EXCEPT !.leased = Without(@, {r})], "Ok")

RegisterCriticalReader(s, c, opaque) ==
    LET e == [opaque |-> opaque, since |-> s.since]
    IN  IF IsTombstone(s) THEN Break(e)
        ELSE IF c \in DOMAIN s.critical THEN Continue(s, s.critical[c])
        ELSE Continue([s EXCEPT !.critical = Insert(@, c, e)], e)

CompareAndDowngradeSince(s, c, expected, newOpaque, newSince) ==
    IF IsTombstone(s) THEN Break([ok |-> TRUE, since |-> Top])
    ELSE IF c \notin DOMAIN s.critical THEN Panic
    ELSE LET old == s.critical[c]
             fwd == old.since <= newSince
             new == [opaque |-> newOpaque,
                     since |-> IF fwd THEN newSince ELSE old.since]
             s1 == [s EXCEPT !.critical = Insert(@, c, new)]
         IN  IF old.opaque # expected
             THEN Continue(s, [ok |-> FALSE, opaque |-> old.opaque,
                               since |-> old.since])
             ELSE Continue(IF fwd THEN UpdateSince(s1) ELSE s1,
                           [ok |-> TRUE, since |-> new.since])

(* Drops every handle, then simplifies the trace by one step: empty one    *)
(* batch (apply_tombstone_merge), or replace several empty ones by the     *)
(* single tombstone batch.                                                 *)
TombstoneBatch == [token |-> Sentinel, lower |-> 0, upper |-> Top,
                   inline |-> FALSE, empty |-> TRUE]

BecomeTombstoneNewTrace(s) ==  \* mutant: replaced by Trace::default()
    LET s1 == [s EXCEPT !.writers = NoEntries, !.leased = NoEntries,
                        !.critical = NoEntries]
        full == {b \in s.batches : ~b.empty}
    IN  IF s.upper # Top \/ s.since # Top THEN Panic
        ELSE IF full # {}
        THEN Continue([s1 EXCEPT !.batches =
                         {[b EXCEPT !.empty = TRUE] : b \in s.batches}], "Ok")
        ELSE Continue([s1 EXCEPT !.batches = {TombstoneBatch}, !.since = 0],
                      "Ok")
BecomeTombstoneAndShrink(s) ==
    LET s1 == [s EXCEPT !.writers = NoEntries, !.leased = NoEntries,
                        !.critical = NoEntries]
        full == {b \in s.batches : ~b.empty}
        (* map_batches visits the batches in the order of their frontiers  *)
        first == CHOOSE b \in full : \A o \in full : b.lower <= o.lower
    IN  IF s.upper # Top \/ s.since # Top THEN Panic
        ELSE IF full # {}
        THEN Continue([s1 EXCEPT !.batches =
                         (@ \ {first}) \cup {[first EXCEPT !.empty = TRUE,
                                                           !.inline = FALSE]}],
                      "Ok")
        ELSE IF Cardinality(s.batches) > 1
        THEN Continue([s1 EXCEPT !.batches = {TombstoneBatch}], "Ok")
        ELSE IF ~IsTombstone(s) THEN Continue(s1, "Ok")
        ELSE Break("Ok")

(* is_finalized: a tombstone that cannot be shrunk any further.            *)
IsSingleEmptyBatch(s) ==
    Cardinality(s.batches) <= 1 /\ \A b \in s.batches : b.empty
IsFinalized(s) == IsTombstone(s) /\ IsSingleEmptyBatch(s)

(* expire_at: the lease-expired handles leave the state.                   *)
ExpireAt(s, readers, writers) ==
    [s EXCEPT !.leased = Without(@, readers), !.writers = Without(@, writers)]

-----------------------------------------------------------------------------
(* Reads served from a state.                                              *)

SnapshotTooEarly(s, asOf) ==  \* mutant: does not wait for the upper
    IF asOf < s.since THEN [err |-> "AsOfHistoricalDistinctionsLost"]
    ELSE [ok |-> {b \in s.batches : ~(asOf < b.lower)}]
Snapshot(s, asOf) ==
    IF asOf < s.since THEN [err |-> "AsOfHistoricalDistinctionsLost"]
    ELSE IF s.upper <= asOf THEN [err |-> "AsOfNotYetAvailable"]
    ELSE [ok |-> {b \in s.batches : ~(asOf < b.lower)}]

-----------------------------------------------------------------------------
(* What a version promises by itself, and what may change from a version   *)
(* to a later one.                                                         *)

HoldsBack(s) == /\ \A r \in DOMAIN s.leased : s.since <= s.leased[r].since
                /\ \A c \in DOMAIN s.critical : s.since <= s.critical[c].since

VersionOK(s) ==
    /\ IsShardState(s)
    /\ HoldsBack(s)
    /\ \A r \in DOMAIN s.leased : s.leased[r].seqno <= s.seqno

Forward(s, t) == /\ s.seqno <= t.seqno
                 /\ s.since <= t.since
                 /\ s.upper <= t.upper
                 /\ SeqnoSince(s) <= SeqnoSince(t)

Succeeds(s, t) == Forward(s, t) /\ (IsTombstone(s) => IsTombstone(t))
=============================================================================
