------------------------------- MODULE Spine -------------------------------
(***************************************************************************)
(* The spine of a shard's trace, from persist-client/src/internal/         *)
(* trace.rs: the batches of a shard in layers of geometrically growing     *)
(* size, merged with the fuel that later batches bring, and the            *)
(* replacement of batches by the results of compaction.                    *)
(*                                                                         *)
(* A run is a record [id, len, of]: `of` names the written runs whose      *)
(* updates it holds.  A part (IdHollowBatch) is a record [id, lower,       *)
(* upper, since, len, runs, gone]: its id is a pair of bounds (SpineId),   *)
(* `gone` the written runs whose updates compaction cancelled out.  `of`   *)
(* and `gone` are bookkeeping of the model.  A spine batch is [id, lower,  *)
(* upper, since, len, parts], a layer [batches, merge], where merge is     *)
(* empty or holds one [since, work] (Option<IdFuelingMerge>, whose id is   *)
(* that of the layer).                                                     *)
(*                                                                         *)
(* A trace is [layers, since, upper, nextId, reqs, panicked]; layer 1 is   *)
(* level 0 of the code.  `reqs` collects the FueledMergeReqs of one        *)
(* operation (SpineLog), `panicked` that an assertion failed in it.        *)
(***************************************************************************)
EXTENDS Integers, Sequences, FiniteSets, SequencesExt, FiniteSetsExt

BATCHES_PER_LEVEL == 2

\* Powers of two.
Pow2[n \in Nat] == IF n = 0 THEN 1 ELSE 2 * Pow2[n - 1]

\* The element of a singleton.  A step of several parts takes its
\* intermediate traces from singletons, so that TLC computes each one once.
The(S) == CHOOSE x \in S : TRUE

NewTrace ==
  [layers |-> <<>>, since |-> 0, upper |-> 0, nextId |-> 0,
   reqs |-> {}, panicked |-> FALSE]

-----------------------------------------------------------------------------
(* Batches, parts and runs *)

\* Sum of the lens of a sequence of parts or batches.
SumLen(s) ==
  LET sum[i \in 0..Len(s)] == IF i = 0 THEN 0 ELSE s[i].len + sum[i - 1]
  IN sum[Len(s)]

RunsLen(runs) == SumLen(SetToSeq(runs))

\* Written runs whose updates a part accounts for.
Contents(part) == part.gone \cup UNION {r.of : r \in part.runs}

NumRuns(parts) == Cardinality(UNION {p.runs : p \in ToSet(parts)})

IsCompact(b) == NumRuns(b.parts) <= 1

\* The parts or batches continue each other, in ids and in time.
Chained(s) ==
  \A i \in 2..Len(s) :
    s[i].id[1] = s[i - 1].id[2] /\ s[i].lower = s[i - 1].upper

Covers(id, other) == id[1] <= other[1] /\ other[2] <= id[2]

\* SpineBatch::merged
Merged(part) ==
  [id |-> part.id, lower |-> part.lower, upper |-> part.upper,
   since |-> part.since, len |-> part.len, parts |-> <<part>>]

EmptyPart(id, lower, upper, since, gone) ==
  [id |-> id, lower |-> lower, upper |-> upper, since |-> since,
   len |-> 0, runs |-> {}, gone |-> gone]

\* Level of a batch of n updates: n.next_power_of_two().trailing_zeros().
LevelOf(n) ==
  CHOOSE k \in 0..n : Pow2[k] >= n /\ (k > 0 => Pow2[k - 1] < n)

-----------------------------------------------------------------------------
(* Layers *)

VacantLayer == [batches |-> <<>>, merge |-> <<>>]

IsVacant(l) == l.batches = <<>>
IsSingle(l) == Len(l.batches) = 1
IsFull(l)   == Len(l.batches) = BATCHES_PER_LEVEL

LayerLen(l) == SumLen(l.batches)

\* Spine batches, oldest to newest.
SpineBatches(t) ==
  LET from[i \in 0..Len(t.layers)] ==
        IF i = 0 THEN <<>> ELSE t.layers[i].batches \o from[i - 1]
  IN from[Len(t.layers)]

PartsOf(batches) ==
  LET upto[i \in 0..Len(batches)] ==
        IF i = 0 THEN <<>> ELSE upto[i - 1] \o batches[i].parts
  IN upto[Len(batches)]

AllParts(t) == PartsOf(SpineBatches(t))

BeginMerge(batches, frontier) ==
  [since |-> Max({b.since : b \in ToSet(batches)} \cup {frontier}),
   work  |-> SumLen(batches)]

\* The trace with at least n layers.
WithLayers(t, n) ==
  IF n <= Len(t.layers) THEN t
  ELSE [t EXCEPT !.layers =
          t.layers \o [k \in 1..(n - Len(t.layers)) |-> VacantLayer]]

\* insert_at: the push fails if the batch does not continue the layer, or the
\* layer still has a merge in progress.
PushAt(t, b, i) ==
  LET layers == WithLayers(t, i).layers
      old == layers[i]
      new == Append(old.batches, b)
      valid == /\ old.merge = <<>>
               /\ ~IsFull(old)
               /\ old.batches = <<>> \/ /\ Last(old.batches).id[2] = b.id[1]
                                        /\ Last(old.batches).upper = b.lower
      merge == IF Len(new) = BATCHES_PER_LEVEL
                 THEN <<BeginMerge(new, t.since)>> ELSE <<>>
  IN IF valid
       THEN [t EXCEPT !.layers =
               [layers EXCEPT ![i] = [batches |-> new, merge |-> merge]]]
       ELSE [t EXCEPT !.panicked = TRUE]

\* FuelingMerge::done
MergeDone(layer) ==
  LET first == Head(layer.batches)
      last  == Last(layer.batches)
      parts == PartsOf(layer.batches)
      batch == [id |-> <<first.id[1], last.id[2]>>, lower |-> first.lower,
                upper |-> last.upper, since |-> layer.merge[1].since,
                len |-> LayerLen(layer), parts |-> parts]
  IN IF LayerLen(layer) = 0
       THEN Merged(EmptyPart(batch.id, batch.lower, batch.upper, batch.since,
                             UNION {p.gone : p \in ToSet(parts)}))
       ELSE batch

\* FueledMergeReq for a spine batch.
MergeReq(b) ==
  [id |-> b.id, lower |-> b.lower, upper |-> b.upper, since |-> b.since,
   inputs |-> b.parts]

\* complete_at: the batch that an occupied layer amounts to.
Completed(layer) ==
  IF IsFull(layer) THEN MergeDone(layer) ELSE layer.batches[1]

CompleteAt(t, i) ==
  [t EXCEPT
     !.layers[i] = VacantLayer,
     !.reqs = IF IsFull(t.layers[i]) /\ LayerLen(t.layers[i]) > 0
                THEN @ \cup {MergeReq(MergeDone(t.layers[i]))} ELSE @]

\* Moves what completes at layer i to layer j.
CompleteInto(t, i, j) ==
  IF IsVacant(t.layers[i]) THEN t
  ELSE The({PushAt(left, done, j) :
              left \in {CompleteAt(t, i)}, done \in {Completed(t.layers[i])}})

-----------------------------------------------------------------------------
(* Fuel *)

\* mutant: one unit of fuel for a record.
WorkAtSlowly(t, i, fuel) ==
  LET merge == t.layers[i].merge
      rest  == merge[1].work - Min({fuel \div 8, merge[1].work})
  IN CASE merge = <<>> -> t
       [] merge # <<>> /\ rest > 0 ->
            [t EXCEPT !.layers[i].merge[1].work = rest]
       [] OTHER -> CompleteInto(t, i, i + 1)

\* One round of apply_fuel at layer i.
WorkAt(t, i, fuel) ==
  LET merge == t.layers[i].merge
      rest  == merge[1].work - Min({fuel, merge[1].work})
  IN CASE merge = <<>> -> t
       [] merge # <<>> /\ rest > 0 ->
            [t EXCEPT !.layers[i].merge[1].work = rest]
       [] OTHER -> CompleteInto(t, i, i + 1)

ApplyFuel(t, fuel) ==
  LET fueled[i \in 0..Len(t.layers)] ==
        IF i = 0 THEN t
        ELSE The({WorkAt(below, i, fuel) : below \in {fueled[i - 1]}})
  IN fueled[Len(t.layers)]

\* roll_up: merges everything below layer i into it, and makes room in it.
RollUp(t, i) ==
  LET rolled[k \in 0..(i - 1)] ==
        IF k = 0 THEN WithLayers(t, i)
        ELSE The({CompleteInto(below, k, k + 1) : below \in {rolled[k - 1]}})
  IN IF \A k \in 1..Min({i - 1, Len(t.layers)}) : IsVacant(t.layers[k])
       THEN WithLayers(t, i)
       ELSE The({IF IsFull(r.layers[i]) THEN CompleteInto(r, i, i + 1) ELSE r :
                   r \in {rolled[i - 1]}})

\* Records that the batches of layers 1..n stand for, whatever their size.
Records(layers, n) ==
  LET upto[k \in 0..n] ==
        IF k = 0 THEN 0 ELSE upto[k - 1] + Len(layers[k].batches) * Pow2[k - 1]
  IN upto[n]

\* tidy_layers: draws the single batch of the top layer down, through vacant
\* layers, to one that fits its size, and starts a merge with the batch below
\* if few enough records lie under that merge.
TidyLayers(t) ==
  LET n     == Len(t.layers)
      top   == t.layers[n]
      level == LevelOf(LayerLen(top))
      m     == Min({k \in (level + 1)..n :
                      \A j \in k..(n - 1) : IsVacant(t.layers[j])})
      below == t.layers[m - 1]
      smaller == Records(t.layers, m - 2)
  IN CASE n = 0 \/ ~IsSingle(top) \/ level >= n - 1 -> t
       [] n > 0 /\ IsSingle(top) /\ level < n - 1
            /\ level < m - 1 /\ IsSingle(below) /\ smaller <= Pow2[m] \div 8 ->
            PushAt([t EXCEPT !.layers = Append(SubSeq(t.layers, 1, m - 2), top)],
                   below.batches[1], m - 1)
       [] OTHER ->
            [t EXCEPT !.layers = Append(SubSeq(t.layers, 1, m - 1), top)]

\* introduce_batch at a level (counted from 0, as in the code).
Introduce(t, b, level) ==
  LET fueled == {ApplyFuel(t, 8 * Pow2[level])}
      rolled == {RollUp(f, level + 1) : f \in fueled}
      pushed == {PushAt(r, b, level + 1) : r \in rolled}
  IN The({TidyLayers(p) : p \in pushed})

-----------------------------------------------------------------------------
(* Operations of Trace *)

\* remove_redundant_merge_reqs
Needed(reqs) ==
  {r \in reqs : \A q \in reqs \ {r} :
                  ~(Covers(q.id, r.id) /\ q.since = r.since)}

\* push_batch: `part` carries the id (nextId, nextId + 1) and the old upper.
PushBatch(trace, part) ==
  LET t     == [trace EXCEPT !.nextId = @ + 1, !.upper = part.upper]
      batch == Merged(part)
      used  == {i \in 1..Len(t.layers) : ~IsVacant(t.layers[i])}
      first == Min(used)
      fuse  == /\ batch.len = 0
               /\ used # {}
               /\ IsSingle(t.layers[first])
               /\ LayerLen(t.layers[first]) = 0
  IN IF fuse THEN The({CompleteInto(u, first, first) :
                         u \in {PushAt(t, batch, first)}})
             ELSE Introduce(t, batch, LevelOf(batch.len))

\* Spine::reduced
Reduced(t) ==
  NumRuns(AllParts(t)) < 2

\* Spine::exert, when it does work: fuel for the merges in progress or, if
\* there are none, an empty batch at the upper that is worth `effort` records.
Exert(trace, effort) ==
  LET t == TidyLayers(trace)
      merging == \E i \in 1..Len(t.layers) : t.layers[i].merge # <<>>
      fake == Merged(EmptyPart(<<t.nextId, t.nextId + 1>>, t.upper, t.upper,
                               t.since, {}))
  IN IF merging THEN ApplyFuel(t, effort)
                ELSE Introduce([t EXCEPT !.nextId = @ + 1], fake,
                               LevelOf(effort))

\* fueled_merge_reqs_before_ms, for any state of the recorded compactions and
\* with any of the writers taken for an old one.
OldWriter(b) == \E p \in ToSet(b.parts) : p.runs # {}

ClaimableReqs(t) ==
  {MergeReq(b) : b \in {c \in ToSet(SpineBatches(t)) :
                          ~IsCompact(c) \/ OldWriter(c)}}

-----------------------------------------------------------------------------
(* Results of compaction.  A result is a record [input, output]: the output  *)
(* is a part without an id, the input is what it replaces: everything in an  *)
(* id range, some runs of one part, or (legacy) whatever has its bounds.     *)

IdRange(id)            == [kind |-> "IdRange", id |-> id]
PartialBatch(id, runs) == [kind |-> "PartialBatch", id |-> id, runs |-> runs]
Legacy                 == [kind |-> "Legacy"]

Outcome(result, batch) == [result |-> result, batch |-> batch]

Applied(o) == o.result \in {"AppliedExact", "AppliedSubset"}
Matched(o) == Applied(o) \/ o.result \in {"TooManyUpdates", "Panic"}

WithId(id, output) ==
  [id |-> id, lower |-> output.lower, upper |-> output.upper,
   since |-> output.since, len |-> RunsLen(output.runs),
   runs |-> output.runs, gone |-> output.gone]

\* mutant: the replacement may have more updates than what it replaces.
ReplacePartsAnyLen(b, output, id, lo, hi) ==
  LET parts == SubSeq(b.parts, 1, lo - 1) \o <<WithId(id, output)>>
                 \o SubSeq(b.parts, hi + 1, Len(b.parts))
      new   == [b EXCEPT !.parts = parts, !.len = SumLen(parts)]
  IN IF hi + 1 - lo = Len(b.parts) THEN Outcome("AppliedExact", new)
                                   ELSE Outcome("AppliedSubset", new)

\* perform_subset_replacement of the parts lo..hi
ReplaceParts(b, output, id, lo, hi) ==
  LET parts == SubSeq(b.parts, 1, lo - 1) \o <<WithId(id, output)>>
                 \o SubSeq(b.parts, hi + 1, Len(b.parts))
      new   == [b EXCEPT !.parts = parts, !.len = SumLen(parts)]
  IN CASE new.len > b.len -> Outcome("TooManyUpdates", b)
       [] new.len <= b.len /\ hi + 1 - lo = Len(b.parts) ->
            Outcome("AppliedExact", new)
       [] OTHER -> Outcome("AppliedSubset", new)

\* mutant: the parts in range need not make up the range.
ReplaceIdRangeAny(b, res) ==
  LET in == {i \in 1..Len(b.parts) : Covers(res.input.id, b.parts[i].id)}
  IN IF in # {}
       THEN ReplaceParts(b, res.output, res.input.id, Min(in), Max(in))
       ELSE Outcome("NoMatch", b)

\* handle_id_range_replacement
ReplaceIdRange(b, res) ==
  LET in == {i \in 1..Len(b.parts) : Covers(res.input.id, b.parts[i].id)}
  IN IF in # {} /\ res.input.id = <<b.parts[Min(in)].id[1],
                                    b.parts[Max(in)].id[2]>>
       THEN ReplaceParts(b, res.output, res.input.id, Min(in), Max(in))
       ELSE Outcome("NoMatch", b)

\* mutant: runs that are no longer there are ignored.
ReplaceRunsAny(b, res) ==
  LET at   == {i \in 1..Len(b.parts) : b.parts[i].id = res.input.id}
      i    == Min(at)
      part == b.parts[i]
      old  == {r \in part.runs : r.id \in res.input.runs}
      new  == [res.output EXCEPT !.runs = (part.runs \ old) \cup @,
                                 !.gone = part.gone \cup @]
  IN IF at = {} \/ res.input.runs = {} THEN Outcome("NoMatch", b)
     ELSE ReplaceParts(b, new, res.input.id, i, i)

\* handle_partial_batch_replacement
ReplaceRuns(b, res) ==
  LET at   == {i \in 1..Len(b.parts) : b.parts[i].id = res.input.id}
      i    == Min(at)
      part == b.parts[i]
      old  == {r \in part.runs : r.id \in res.input.runs}
      new  == [res.output EXCEPT !.runs = (part.runs \ old) \cup @,
                                 !.gone = part.gone \cup @]
  IN CASE at = {} \/ res.input.runs = {} -> Outcome("NoMatch", b)
       [] at # {} /\ \/ res.output.lower # part.lower
                     \/ res.output.upper # part.upper -> Outcome("Panic", b)
       [] at # {} /\ res.output.since < part.since -> Outcome("InvalidSince", b)
       [] at # {} /\ res.input.runs # {r.id : r \in old} ->
            Outcome("NoMatch", b)
       [] OTHER -> ReplaceParts(b, new, res.input.id, i, i)

\* find_replacement_range: the loop ends at the first part by which both
\* bounds have been seen, and each bound is the last one seen by then.
ReplacementRange(b, output) ==
  LET los(k) == {i \in 1..k : b.parts[i].lower = output.lower}
      his(k) == {i \in 1..k : b.parts[i].upper = output.upper}
      ends   == {k \in 1..Len(b.parts) : los(k) # {} /\ his(k) # {}}
  IN IF ends = {} THEN <<>> ELSE <<Max(los(Min(ends))), Max(his(Min(ends)))>>

\* maybe_replace_checked_classic
ReplaceLegacy(b, res) ==
  LET exact == res.output.lower = b.lower /\ res.output.upper = b.upper
      range == ReplacementRange(b, res.output)
  IN CASE exact /\ RunsLen(res.output.runs) > b.len ->
            Outcome("TooManyUpdates", b)
       [] exact /\ RunsLen(res.output.runs) <= b.len ->
            Outcome("AppliedExact", Merged(WithId(b.id, res.output)))
       [] ~exact /\ range = <<>> -> Outcome("NoMatch", b)
       [] OTHER -> ReplaceParts(b, res.output,
                                <<b.parts[range[1]].id[1],
                                  b.parts[range[2]].id[2]>>,
                                range[1], range[2])

\* maybe_replace_checked
MaybeReplace(b, res) ==
  CASE res.output.since > b.since -> Outcome("InvalidSince", b)
    [] res.output.since <= b.since /\ res.input.kind = "IdRange" ->
         ReplaceIdRange(b, res)
    [] res.output.since <= b.since /\ res.input.kind = "PartialBatch" ->
         ReplaceRuns(b, res)
    [] OTHER -> ReplaceLegacy(b, res)

\* apply_merge_res_checked: the newest spine batch that matches decides.
ApplyMergeRes(t, res) ==
  LET at == {p \in (1..Len(t.layers)) \X (1..BATCHES_PER_LEVEL) :
               /\ p[2] <= Len(t.layers[p[1]].batches)
               /\ Matched(MaybeReplace(t.layers[p[1]].batches[p[2]], res))}
      newest(p, q) == p[1] < q[1] \/ (p[1] = q[1] /\ p[2] >= q[2])
      p  == CHOOSE m \in at : \A q \in at : newest(m, q)
      o  == MaybeReplace(t.layers[p[1]].batches[p[2]], res)
  IN IF at = {} THEN [applied |-> FALSE, trace |-> t]
       ELSE [applied |-> Applied(o),
             trace |-> [t EXCEPT !.layers[p[1]].batches[p[2]] = o.batch,
                                 !.panicked = @ \/ o.result = "Panic"]]
=============================================================================
