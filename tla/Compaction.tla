----------------------------- MODULE Compaction -----------------------------
(***************************************************************************)
(* Compaction of a shard: batches are appended to the spine, which asks    *)
(* for merges; compactors answer these requests much later, in chunks, and *)
(* the answers are applied to whatever the spine has become.  From         *)
(* persist-client/src/internal/compact.rs, merge_res and spine_exert of    *)
(* machine.rs, the compaction part of state.rs, and the loop that forces   *)
(* compaction in cli/admin.rs.                                             *)
(*                                                                         *)
(* Commands act on the committed state in one step: module PersistShard    *)
(* shows what the command loop makes of stale caches and lost answers.     *)
(***************************************************************************)
EXTENDS Spine

CONSTANTS
  Batches,      \* batches to append, each a sequence of the lens of its runs
  Modes,        \* {"incremental", "legacy"}, or one of them
  MemRuns,      \* runs that fit in the memory bound of compaction
  Fuel,         \* fuel of one round of forced compaction
  MaxBatches,   \* bound: batches appended
  MaxJobs,      \* bound: compactions taken up
  MaxEvents     \* bound: lost answers, rounds of forced compaction and
                \* downgrades of the since, together

ASSUME CompactionAssumption ==
  /\ Batches \subseteq Seq(Nat \ {0})
  /\ Modes \subseteq {"incremental", "legacy"}
  /\ {MemRuns, MaxBatches, MaxJobs, MaxEvents} \subseteq Nat
  /\ Fuel \in Nat \ {0}

VARIABLES
  trace,    \* the trace in the committed state
  written,  \* the runs that batches have brought, by part id
  jobs,     \* compactions, in the order they were taken up: chunks left,
            \* an output to retry with, and whether it was ever applied
  force,    \* the loop that forces compaction: "off", "on", "wait"
  forced,   \* the compactions that loop waits for
  deleted,  \* runs whose blobs have been deleted
  events

vars == <<trace, written, jobs, force, forced, deleted, events>>

Event == events < MaxEvents /\ events' = events + 1

-----------------------------------------------------------------------------
(* Chunks.  Each run takes one unit of memory.  A chunk is [input, lower,    *)
(* upper, since, groups, gone]; each group of runs becomes one run.          *)

RangeChunk(parts, since) ==
  [input |-> IdRange(<<Head(parts).id[1], Last(parts).id[2]>>),
   lower |-> Head(parts).lower, upper |-> Last(parts).upper, since |-> since,
   groups |-> <<UNION {p.runs : p \in ToSet(parts)}>>,
   gone |-> UNION {p.gone : p \in ToSet(parts)}]

RunsChunk(part, runs, since) ==
  [input |-> PartialBatch(part.id, {r.id : r \in runs}),
   lower |-> part.lower, upper |-> part.upper, since |-> since,
   groups |-> <<runs>>, gone |-> {}]

\* At least two runs are compacted together, whatever the memory.
ChunkSize == Max({MemRuns, 2})

\* A part that does not fit in memory is compacted run by run.
SplitPart(part, since) ==
  LET runs == SetToSeq(part.runs)
      n    == (Len(runs) + ChunkSize - 1) \div ChunkSize
  IN [k \in 1..n |->
        RunsChunk(part, {runs[i] : i \in ((k - 1) * ChunkSize + 1)
                                           ..Min({k * ChunkSize, Len(runs)})},
                  since)]

\* chunk_runs: whole parts are put together while they fit.  `open` are the
\* parts of the chunk that is being put together; no two parts share a run.
Flush(acc, since) ==
  IF acc.open = <<>> THEN acc.chunks
  ELSE Append(acc.chunks, RangeChunk(acc.open, since))

AddPart(acc, p, since) ==
  LET size == Cardinality(p.runs)
              + Cardinality(UNION {q.runs : q \in ToSet(acc.open)})
  IN CASE size <= ChunkSize -> [acc EXCEPT !.open = Append(@, p)]
       [] size > ChunkSize /\ Cardinality(p.runs) <= MemRuns ->
            [chunks |-> Flush(acc, since), open |-> <<p>>]
       [] OTHER -> [chunks |-> Flush(acc, since) \o SplitPart(p, since),
                    open |-> <<>>]

\* Runs in another order than the preferred one count as one run here; the code
\* takes them apart, which changes neither the bounds nor the inputs of a chunk.
ChunkRuns(parts, since) ==
  LET upto[i \in 0..Len(parts)] ==
        IF i = 0 THEN [chunks |-> <<>>, open |-> <<>>]
        ELSE The({AddPart(acc, parts[i], since) : acc \in {upto[i - 1]}})
  IN Flush(upto[Len(parts)], since)

\* compact_all: the chunks of a request as one batch of several runs.
LegacyChunk(req) ==
  LET chunks == ChunkRuns(req.inputs, req.since)
  IN [input |-> Legacy, lower |-> req.lower, upper |-> req.upper,
      since |-> req.since,
      groups |-> [k \in 1..Len(chunks) |-> chunks[k].groups[1]],
      gone |-> UNION {p.gone : p \in ToSet(req.inputs)}]

\* compact_runs: consolidation leaves all updates of a group, one, or none,
\* each group for itself.
Keeps(chunk) == [1..Len(chunk.groups) -> {"all", "one", "none"}]

Output(chunk, keep, name) ==
  LET len(k) == CASE keep[k] = "all"  -> RunsLen(chunk.groups[k])
                  [] keep[k] = "one"  -> Min({1, RunsLen(chunk.groups[k])})
                  [] keep[k] = "none" -> 0
      of(k)  == UNION {r.of : r \in chunk.groups[k]}
      some   == {k \in 1..Len(chunk.groups) : len(k) > 0}
      none   == (1..Len(chunk.groups)) \ some
  IN [lower |-> chunk.lower, upper |-> chunk.upper, since |-> chunk.since,
      runs |-> {[id |-> <<name[1], name[2], k>>, len |-> len(k), of |-> of(k)] :
                  k \in some},
      gone |-> chunk.gone \cup UNION {of(k) : k \in none}]

-----------------------------------------------------------------------------
(* Jobs *)

\* validate_req
ValidReq(req) ==
  /\ \A p \in ToSet(req.inputs) : p.since <= req.since
  /\ Head(req.inputs).lower = req.lower
  /\ Last(req.inputs).upper = req.upper
  /\ \A i \in 2..Len(req.inputs) :
       req.inputs[i].lower = req.inputs[i - 1].upper

NewJob(req, mode) ==
  [chunks |-> IF mode = "legacy" THEN <<LegacyChunk(req)>>
              ELSE ChunkRuns(req.inputs, req.since),
   out |-> <<>>, ever |-> FALSE]

\* Some of the requests are taken up; the others are too small, find the queue
\* full, fail, or belong to a process that dies.
TakeUp(reqs) ==
  \E taken \in SUBSET {r \in reqs : ValidReq(r)}, mode \in Modes :
    /\ IsFiniteSet(taken)
    /\ Len(jobs) + Cardinality(taken) <= MaxJobs
    /\ jobs' = jobs \o [k \in 1..Cardinality(taken) |->
                          NewJob(SetToSeq(taken)[k], mode)]

Done(job) == job.chunks = <<>>

-----------------------------------------------------------------------------
(* Actions *)

\* compare_and_append of a batch with the given runs.
AppendBatch(lens) ==
  LET id   == <<trace.nextId, trace.nextId + 1>>
      runs == {[id |-> <<0, id[1], k>>, len |-> lens[k],
                of |-> {<<0, id[1], k>>}] : k \in 1..Len(lens)}
      part == [id |-> id, lower |-> trace.upper, upper |-> trace.upper + 1,
               since |-> 0, len |-> RunsLen(runs), runs |-> runs, gone |-> {}]
      asked(new) == IF new.reqs = {} /\ runs # {} THEN ClaimableReqs(new)
                                                  ELSE Needed(new.reqs)
  IN /\ trace.upper < MaxBatches
     /\ \E new \in {PushBatch(trace, part)} :
          /\ trace' = [new EXCEPT !.reqs = {}]
          /\ TakeUp(asked(new))
     /\ written' = written \cup {r.id : r \in runs}
     /\ UNCHANGED <<force, forced, deleted, events>>

DowngradeSince ==
  /\ Event
  /\ trace' = [trace EXCEPT !.since = @ + 1]
  /\ UNCHANGED <<written, jobs, force, forced, deleted>>

\* What merge_res is called with: an output of the next chunk, or the same
\* output again if it is retrying.
Results(j) ==
  LET job   == jobs[j]
      chunk == Head(job.chunks)
  IN IF job.out # <<>> THEN ToSet(job.out)
     ELSE {[input |-> chunk.input,
            output |-> Output(chunk, keep, <<j, Len(job.chunks)>>)] :
              keep \in Keeps(chunk)}

NextChunk(j) ==
  jobs' = [jobs EXCEPT ![j].chunks = Tail(@), ![j].out = <<>>,
                       ![j].ever = FALSE]

\* mutant: the blobs go if the last attempt did not apply.
MergeResLastAnswer(j) ==
  \E res \in Results(j) :
    LET new == ApplyMergeRes(trace, res)
    IN /\ trace' = new.trace
       /\ NextChunk(j)
       /\ deleted' = IF new.applied THEN deleted
                     ELSE deleted \cup {r.id : r \in res.output.runs}
       /\ UNCHANGED <<written, force, forced, events>>

\* merge_res, and apply, which deletes an output that was never applied.
MergeRes(j) ==
  \E res \in Results(j) :
    LET new == ApplyMergeRes(trace, res)
    IN /\ trace' = new.trace
       /\ NextChunk(j)
       /\ deleted' = IF jobs[j].ever \/ new.applied THEN deleted
                     ELSE deleted \cup {r.id : r \in res.output.runs}
       /\ UNCHANGED <<written, force, forced, events>>

\* merge_res commits, its answer is lost, and it is going to try again.
MergeResIndeterminate(j) ==
  /\ Event
  /\ \E res \in Results(j) :
       LET new == ApplyMergeRes(trace, res)
       IN /\ trace' = new.trace
          /\ jobs' = [jobs EXCEPT ![j].out = <<res>>,
                                  ![j].ever = @ \/ new.applied]
  /\ UNCHANGED <<written, force, forced, deleted>>

\* compact_and_apply times out or fails between chunks, or in a retry: what it
\* has written is left behind.  Only the loop that forces compaction notices;
\* any other compaction may just as well never take another step.  The task that
\* compacts runs on after a timeout; it does what those others do, whose results
\* also arrive with nobody waiting for them.
Abandon(j) ==
  /\ j \in forced
  /\ jobs' = [jobs EXCEPT ![j].chunks = <<>>, ![j].out = <<>>,
                          ![j].ever = FALSE]
  /\ UNCHANGED <<trace, written, force, forced, deleted, events>>

-----------------------------------------------------------------------------
(* dangerous_force_compaction_and_break_pushdown *)

StartForce ==
  /\ force = "off"
  /\ events < MaxEvents
  /\ force' = "on"
  /\ UNCHANGED <<trace, written, jobs, forced, deleted, events>>

\* spine_exert returns at once if there are fewer than two batches, and does
\* not commit anything if there is nothing to reduce.
ForceExert ==
  /\ force = "on"
  /\ force' = "wait"
  /\ IF Len(AllParts(trace)) < 2 \/ Reduced(trace)
       THEN UNCHANGED <<trace, jobs, forced, events>>
       ELSE /\ Event
            /\ \E new \in {Exert(trace, Fuel)} :
                 /\ trace' = [new EXCEPT !.reqs = {}]
                 /\ TakeUp(Needed(new.reqs))
            /\ forced' = (Len(jobs) + 1)..Len(jobs')
  /\ UNCHANGED <<written, deleted>>

\* The loop has compacted what it was asked to and looks at the result.
ForceCheck ==
  /\ force = "wait"
  /\ \A j \in forced : Done(jobs[j])
  /\ forced' = {}
  /\ force' = IF Reduced(trace) THEN "off" ELSE "on"
  /\ UNCHANGED <<trace, written, jobs, deleted, events>>

-----------------------------------------------------------------------------
Init ==
  /\ trace = NewTrace
  /\ written = {}
  /\ jobs = <<>>
  /\ force = "off"
  /\ forced = {}
  /\ deleted = {}
  /\ events = 0

Compact(j) ==
  /\ ~Done(jobs[j])
  /\ MergeRes(j) \/ MergeResIndeterminate(j) \/ Abandon(j)

\* A panic ends the run: NeverPanics says that there is none.
Next ==
  /\ ~trace.panicked
  /\ \/ \E lens \in Batches : AppendBatch(lens)
     \/ DowngradeSince
     \/ \E j \in 1..Len(jobs) : Compact(j)
     \/ StartForce
     \/ ForceExert
     \/ ForceCheck

Spec == Init /\ [][Next]_vars

-----------------------------------------------------------------------------
(* Properties *)

(* However late and out of order results of compaction arrive, the batches  *)
(* and their parts line up in ids and in time, from the beginning to the    *)
(* upper, no since is ahead of the one it is bounded by, and exactly the    *)
(* full layers are merging (trace.rs validate, SpineBatch::id, and len).    *)
SpineIsValid ==
  LET bs == SpineBatches(trace)
  IN /\ \A i \in 1..Len(trace.layers) :
          IsFull(trace.layers[i]) <=> trace.layers[i].merge # <<>>
     /\ Chained(bs)
     /\ bs # <<>> => /\ Head(bs).id[1] = 0 /\ Head(bs).lower = 0
                     /\ Last(bs).id[2] = trace.nextId
                     /\ Last(bs).upper = trace.upper
     /\ \A b \in ToSet(bs) :
          /\ b.since <= trace.since
          /\ Chained(b.parts)
          /\ b.id = <<Head(b.parts).id[1], Last(b.parts).id[2]>>
          /\ b.len = SumLen(b.parts)
          /\ \A p \in ToSet(b.parts) : p.since <= b.since

(* Compaction neither loses nor doubles updates: each part accounts for     *)
(* exactly the runs written in its range of ids, each in one of its runs or *)
(* cancelled out, although two compactions of the same batches may both be  *)
(* applied (trace.rs apply_merge_res_checked; the sums of diffs it compares *)
(* are a check of this at run time).                                        *)
NothingLostOrDoubled ==
  \A p \in ToSet(AllParts(trace)) :
    /\ Contents(p) = {w \in written : Covers(p.id, <<w[2], w[2] + 1>>)}
    /\ \A r \in p.runs : r.of \cap p.gone = {}
    /\ \A r, q \in p.runs : r # q => r.of \cap q.of = {}

(* The fuel that a batch brings completes every merge before the layer is   *)
(* needed again, and replacements fit the batch they are for: no push into  *)
(* an incomplete merge and no mismatch of bounds panics (trace.rs           *)
(* push_batch, handle_partial_batch_replacement).                           *)
NeverPanics == ~trace.panicked

(* What makes the fuel sufficient: a batch of layer i has at most 2^i       *)
(* updates, and fewer than 2^i records lie below a merge at layer i, also   *)
(* when compaction shrinks batches and results arrive late (trace.rs, the   *)
(* invariants in the doc comment of Spine, which validate leaves open).     *)
FuelDiscipline ==
  \A i \in 1..Len(trace.layers) :
    /\ \A b \in ToSet(trace.layers[i].batches) : b.len <= Pow2[i - 1]
    /\ trace.layers[i].merge # <<>> => Records(trace.layers, i - 1) < Pow2[i - 1]

(* A run that the state refers to has not been deleted, although a merge    *)
(* result may be found not to apply in the retry of a command that has      *)
(* taken effect (machine.rs merge_res, compact.rs apply).                   *)
ReferencedRunsExist ==
  \A p \in ToSet(AllParts(trace)) : \A r \in p.runs : r.id \notin deleted
=============================================================================
