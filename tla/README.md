# A TLA+ model of Materialize's storage and timestamp protocols

Materialize is a SQL database that keeps every table, source, materialized view
and its own catalog in *persist* shards: logs of timestamped batches in a blob
store, with the shard's metadata in a compare-and-set register (Consensus).
What a client may rely on (strictly serializable reads, transactions over
several tables, a crashed or superseded environmentd that does no harm) rests on
a few protocols between processes that share nothing but those shards and one row
in a Postgres table. This project models these protocols, from the shard upward:

    GroupCommit     when statements read and write; who may write     (adapter,
        |                                        timestamp-oracle, catalog)
      TxnWal        transactions over many shards                     (txn-wal)
        |
    PersistShard    one shard shared by processes   -->  ShardLog     (persist-
        |                             what a shard promises            client)
    ShardState      the state machine of a shard
    PersistGc       the versions of a shard and their collection
    Compaction      merges of a shard's batches, by compactors far away
        |
      Spine         the batches of a shard in layers

Each level takes from the one below it what has been checked there. `TxnWal`
treats `compare_and_append` as atomic because `PersistShard` implements
`ShardLog`; `GroupCommit` treats the txns shard as a log with an upper, because
`TxnWal` shows that readers of tables see exactly that.

## The system and its parts

**persist: shard state and commands** (`persist-client/src/internal/state.rs`).
State: SeqNo, since, upper, the registered writers, leased and critical readers,
the batches, the rollups. Operations: `compare_and_append`, register, downgrade
and expire of readers, `compare_and_downgrade_since`,
`become_tombstone_and_shrink`, `add_rollup`, `remove_rollups`. Correct if the
since is held back by all readers, nothing regresses and a tombstone is final.

**persist: command loop and handles** (`internal/apply.rs`, `machine.rs`,
`write.rs`, `read.rs`, `critical.rs`). State: a cached, possibly stale version
per process; the call in progress of each handle. Every command is evaluated on
the cache and proposed to Consensus. Hard: stale caches, lost answers to requests
that are executed anyway, retries, futures that are dropped, expiry of leases.
Correct if an append happens at most once and its answer is true.

**persist: garbage collection** (`internal/gc.rs`, `state_versions.rs`). State:
diffs in Consensus, rollups and parts in Blob, the gc bookkeeping in the shard
state. Blobs are deleted, diffs truncated and rollups unlinked in separate steps
by several processes, from cached lists of rollups. Hard: stale lists, racing
collectors, crashes between two steps, readers that still hold an old version.
Correct if what a live version needs stays and the rest does not leak.

**persist: trace, spine and compaction** (`internal/trace.rs`, `compact.rs`). State:
the batches of the shard in layers, a merge with its remaining work per full layer;
the compactions in progress. A pushed batch brings fuel for the merges below; a merge
that is done becomes a request; a compactor answers it, in one piece or in chunks,
with a batch that replaces parts, or runs of a part. Hard: the answer is applied to a
spine that has merged or compacted the same batches meanwhile, or is retried after it
has taken effect; a layer that is needed before its merge is done. Correct if the
spine stays contiguous, no update is lost or doubled, merges are done in time, and no
output that is in use is deleted.

**txn-wal** (`txn-wal/src`, driven by the table worker in
`storage-controller/src/persist_handles.rs`). State: the txns shard (which data
shards are registered, which batches are committed, which retracted), the data
shards, a cache of the txns shard per process. A transaction commits by one
append to the txns shard and is applied to its data shards later by whoever gets
there first. Hard: crashes between commit and apply, handles that apply, retract
and forget the same things, readers that fill a data shard up to their as_of.
Correct if every transaction is applied once, at its time, and reads see it.

**timestamp oracle, group commit, read-then-write, catalog fencing**
(`timestamp-oracle/src`, `adapter/src/coord/appends.rs`, `coord.rs`,
`frontend_read_then_write.rs`, `catalog/src/durable/persist.rs`). State: the
oracle's read and write timestamps, the upper and fence token of the catalog
shard, the upper each process has cached, the group committer, the worker that
batches oracle reads, the loop of each read-then-write statement. Hard: batched
reads, writes that are readable before they are applied to the oracle, optimistic
retries, and an older environmentd that has not noticed that it is fenced.
Correct if reads are linearizable, a write lands on what it was computed from,
and a superseded process writes nothing.

**Others**: see *Not modelled*. `PROJECT.json` lists every component, every
hazard at its line, and for every definition the lines it models.

## How the modules correspond to the code

### ShardState: `StateCollections`

A version is a record (`seqno`, `since`, `upper`, `writers`, `leased`,
`critical`, `batches`). Each command is an operator with the name of its method
that maps a version, already carrying the next SeqNo (`clone_apply`), to `Break`,
`Continue` or `Panic`, which are the `ControlFlow` of the code and its assertions.
A frontier is a number; `Top` is the empty antichain. A batch is named by the call
that wrote it, its parts are one flag (`inline`) and its contents another
(`empty`). Tombstones shrink as in the code, one batch per call.

### PersistShard: `Applier`, `Machine` and the handles

`cur` is the version in Consensus, `cache[p]` what process `p` has, `call[h]` the
call that handle `h` has in progress, `orphans` the requests in flight that nobody
waits for. `Attempt` is `compute_next_state_locked` with the work_fn of the
command; `CasCommit` and `CasMismatch` are Consensus; `DeliverCommitted`,
`DeliverMismatch`, `RecheckUpper` are the rest of `apply_unbatched_cmd` and
`compare_and_append_idempotent`; `Indeterminate` loses an answer, `Cancel` drops a
future, and both may leave a request that is executed at any later time
(`OrphanCommit`). `Refresh` is a diff from PubSub or a fetch. `BeginOpenCritical`,
`BeginFence`, `Fenced` are the unbounded loop of `open_critical_handle`. A process
that crashes is one whose handles take no further step. Expired leases are taken
off inside `Attempt`, as `expire_at` does. A command that heartbeats its own handle
(`Heartbeated`) does not expire it in the same commit, however long the call has lasted:
the work_fn samples the clock at every attempt (`machine.rs:247`, `497`, `647`), and
`expire_at` samples it next (`apply.rs:545`). In the commit of another command it may.

### ShardLog

What a shard promises: a log that grows at its upper, a since that advances, and
answers that are true for good, with no versions, caches or retries.
`ImplementsShardLog` is the refinement with the committed `since` for `since`.

### PersistGc: `GarbageCollector`, `StateVersions`, rollups

`versions` is every version ever committed, of which Consensus still has the diffs
`earliest .. head`. A part is named by the version that added it, a rollup by the
version it copies and the task that wrote it. `Commit` includes `maybe_gc`.
`WriteRollup`, `AddRollup`, `AddRollupMismatch`, `DeleteRollup` are
`add_rollup_for_current_seqno`; `GcStart` to `GcRemoveRollups` are
`gc_and_truncate` with a step for every call to Blob or Consensus, for both the
default path and the one with active gc; `ScanDiffs`, `FetchRollup` are
`fetch_current_state`. The assertions of `gc.rs` are the sites in `panics`.

### Spine and Compaction: `Trace`, `Spine`, `Compactor`

A trace is a record with the layers of the spine; `PushBatch`, `Exert`, `ApplyFuel`,
`RollUp`, `TidyLayers` are the methods of `Spine`, `ReplaceIdRange`, `ReplaceRuns`,
`ReplaceLegacy` the three ways to apply a result. A run carries the names of the
written runs whose updates it holds, which is what `NothingLostOrDoubled` counts.
Consolidation may leave all updates of its inputs, one or none, each run it writes for
itself. `ChunkRuns` is
`chunk_runs` with one unit of memory per run. `MergeRes` and `MergeResIndeterminate`
are `merge_res` with a flag for "ever applied", and `apply`, which deletes an output
that was never applied. `StartForce`, `ForceExert`, `ForceCheck` are the loop of
`dangerous_force_compaction_and_break_pushdown`. Commands act on the committed state;
what stale caches do to a command is the subject of `PersistShard`. Which requests are
taken up is left open, since requests are dropped, refused and lost in the code.

### TxnWal: `TxnsHandle`, `Txn::commit_at`, `TxnsCache`, `DataSnapshot`

`registers`, `appends` and `retractions` are the entries of the txns shard, and a
cache is a function of the time it was opened at and the time it has read to, so
each operator on a cache takes a time. `Prepare` is the loop of an operation up to
its `compare_and_append`, `CommitCaa`, `RegisterCaa`, `ForgetCaa` are that append,
`CaaMismatch` sends it round again. `BeginApply`, `ApplyCaa`, `AppliedAfter` are
`apply_le`; `AppliedBefore` is the one inside `forget`; `CompactTo` is
`compact_to`. `DataSnapshot` and `UnblockRead` are a reader. `update_ge` may stop
short of the upper, which is the same as having been called earlier. A reader's
cache may have been opened at any since so far. Crashes are not bounded.

### GroupCommit: oracle, committer, OCC loop, boot

All tables are one: a write is a time in `log`. `WriteTs`, `ApplyWrite`, `ReadTs`
are the statements of `PostgresTimestampOracle`, `TakeBatch`, `AnswerBatch` the
worker of `BatchingTimestampOracle`. `StartGroupCommit` to `FinishCommit` are
`GroupCommitter` for group commits, timestamped (OCC) writes and the reset of the
system tables. `Progress`, `NoRowsMatched`, `ChooseTarget`, `Submit`,
`TimestampPassed` are `run_occ_loop`. `AdvanceUpperCached` is the case in which
`advance_upper` is satisfied with the cached upper and so does not find out that
the process is fenced. `OpenCatalog` to `Snapshot` are the boot of an environmentd
as far as it touches the oracle, the catalog and the tables. `known` is the latest
time of which some client has seen the tables; `floor` is its value when a
statement began. `FinishCommit` applies the write to the oracle and acknowledges
it in one step, which makes `known` grow at the earliest moment it may.

## Runs

| run | instance | what it shows |
|---|---|---|
| `append` | 2 writers in 2 processes, 3 calls, 5 inputs, 1 lost answer | appends happen once, answers are true, stale readers see the one log, refinement of `ShardLog` |
| `since` | a leased and a critical reader, 4 calls, 1 lost answer | the since is held back by every reader; nothing regresses |
| `fence` | 2 epochs of one critical reader, 3 calls, 1 lost answer, fair | only the owner of the stored epoch moves the since; take-overs end; every call returns |
| `tombstone` | writer, reader, finalizer, 5 calls | a tombstone is final and complete when `finalize_shard` returns |
| `expiry` | as `append`, a lease may run out during a call | **violated**: an append that committed is answered `UpperMismatch` |
| `spine` | 4 batches (empty, 1 update, 2 runs of 8), 2 compactions, 1 lost answer, forced round or downgrade | late and retried results leave the spine valid and lose nothing; merges are done in time; no output in use is deleted |
| `gc` | 2 processes (legacy and active gc), 2 rollup tasks, 1 reader, 5 versions, 1 fault | nothing live is lost, nothing dead leaks, a refetch makes progress |
| `start` | 2 processes with legacy gc, 5 versions | **violated**: a collector fails its own assertion |
| `relink` | 1 process with active gc, 4 rollup tasks, 8 versions, 1 lost answer | **violated**: the current version names a rollup that is gone |
| `txns` | 2 handles, 1 data shard, 1 reader, times 0 to 4, any crashes | each write applied once and in time; nothing unapplied is forgotten, retracted or compacted away; a reader sees all transactions up to its as_of and never blots one out |
| `commit` | 1 process, 2 sessions, times 0 to 3 | strict serializability, serial OCC writes |
| `takeover` | 3 generations, times 0 to 8 | the reset of the system tables is based on all of them; fencing |

**Bounds and why they are enough.** Two calls and one lost answer are what it
takes for a retry to race with a request in flight and with another writer; the
third call puts a committed append before or after them. Two frontiers above 0
make appends that meet, overlap and leave a gap. Five versions and two rollup
tasks allow rollups to be linked out of order, a collector to truncate to the
later one and a second collector to work with an older list; the `start` run finds
its violation at this size. `relink` takes four tasks, eight versions and 25 steps. In
`spine` a batch of 16 updates next to empty ones and ones of 1 makes
layers that are drawn down, rolled up and skipped, and two compactions that overlap in
what they replace; a memory of one run makes chunks of parts as well as of runs. More
lost answers, rounds and downgrades are covered by the proof.
In `txns` the times allow register, commit, forget and
register again, and a tidy; it also passes with times to 5 and no reader, where two
handles tidy the same write, and with two data shards and one handle. In `takeover` a process needs four
timestamps to boot; eight let a second one overtake the third while the first still
writes. One retry of the OCC loop suffices for the payload to be extended to a
later target. The proofs do away with these bounds for the invariants they cover.
`SYMMETRY` is over sessions, handles, data shards and rollup tasks, which no definition tells
apart, in runs without liveness properties.

**Deadlock.** Runs of `PersistShard`, `PersistGc`, `Compaction` and `GroupCommit` say
`CHECK_DEADLOCK FALSE`: the bound on calls or times runs out, or all processes have
halted or panicked. `TxnWal` has no such bound on crashes and reopening and is
checked for deadlock.

**Fairness** (`FairSpec` of `PersistShard`): weak fairness of each step of a call
in progress, of `RecheckUpper`, and of the loop of `open_critical_handle`. The code
awaits these: requests are answered or time out, futures are polled by the runtime,
and the retry loops have no bound of their own. Nothing is assumed of errors, of
the start of calls, of PubSub or of requests that nobody waits for. Losing a race
needs somebody else's commit, of which the bounds allow finitely many, so strong
fairness is not needed.

**Mutants.** Every property of a passing run is shown to depend on the code by a
mutated definition (marked `mutant:` in the modules) under which TLC finds it
violated: a dropped check of the expected upper, a missing token, an assertion
of the wrong frontier, a reader that does not wait, and so on.

## What is proved

TLAPS checks the following for every value of the constants that satisfies the
named assumptions (`TopAssumption`, `InlineAssumption`, `HandlesAssumption`,
`BoundsAssumption`, `CommitAssumption`, `TxnAssumption`, `GcAssumption`,
`CompactionAssumption`): any number of handles, processes, sessions, calls, errors,
versions, batches, compactions and times. Each `...Proofs` module holds the proofs about
one model or one layer of it.

**PersistShardProofs: ShardState.** Each command, applied to a well-formed version (`VersionOK`:
typed, since held back by its readers, SeqNo holds not in the future), gives a
well-formed version that is not behind it (`Forward`) and keeps tombstones.

**PersistShardProofs: PersistShard.** `Spec => []Inv`, and from it `TypeOK`, `OneHistory`,
`SinceHeldBack`, `NothingRegresses` and `TombstoneIsFinal`. None of these is
inductive by itself: a request in flight may be executed at any time, so the
invariant must say something about every proposal. `Inv` says that a proposal
whose SeqNo is that of the current version plus one is a legal successor of it
(`ProposalOK`). This holds when the proposal is made, because it is made from a
version some process knows (`Known`), and of two known versions with the same SeqNo
there is only one (`OneHistory`); and it keeps holding, because whenever another
version is committed the SeqNo of the proposal is no longer the next.

**PersistShardLogProofs.** On top of `Inv`: `AppendExactlyOnce`, `SnapshotsAgree`,
`FinalizedForGood` and the action property `EpochsFence`. A step either commits one of
the requests in flight or leaves the committed version and the log alone (`LogSteps`),
so it is enough to know what those requests may do.

- `LogInv`: a request that Consensus would still accept extends the log at the
  current upper (`RequestsExtend`) and does not touch a finalized shard; a token
  stands for one batch (`TokensOK`); the log tiles time; and every version some
  process knows contains exactly the batches of the log below its upper, unless its
  since is empty, when finalization may have replaced them. The tokens of the writers'
  entries are not needed for exactly-once: a second copy of a batch does not fit at
  the new upper. They are needed for the answer to the caller (`AnswersAreTrue`).
- `FenceInv`: what a handle knows of its epoch (`HandleFences`), and that a request
  which would still be accepted moves the critical reader from the epoch it expected to
  that of its owner. The owner is `opening` or `open` then, because a handle only halts
  with no call in progress, and a request nobody waits for any more has lost its race
  by the time its handle has halted.

Both were checked with TLC on the instances of `append`, `since`, `tombstone` and
`fence` before they were proved.

**PersistShardHandleProofs: handles.** On top of these: `LiveHandlesReadable` and
`NoAssertFails`. A handle evaluates its commands on a cached version, which may be any
committed one, so what the code asserts of that version must hold of every known one.
Each step is a step of one handle, the commit of one request, or the refresh of a cache
(`HandleSteps`), and each command touches only its own entries (`Entries`).

- `KeepsInv`: from a version to a later one a critical reader stays, or the shard
  becomes a tombstone, and a tombstone stays one.
- `LeaseInv`: a reader's entry is not beyond what its handle has been told, or will be
  told by the answer under way; for the since in the current version and its possible
  successors, for the SeqNo in every known version, because `downgrade_since` asserts
  it of the cached one.
- `AssertInv`: what a known version says of a writer's last append is in the log
  (`WritersLogged`); no two calls have the same token; a call that knows of no
  indeterminate error has not been executed and will not be behind its back; one that
  has been was made from a version that the cache has reached, so that
  `RecheckUpper`, which forgets the error, cannot lead back to an attempt
  (`AppendOK`); a handle of a critical reader sees the reader or a tombstone
  (`SinceHandleInv`); and `become_tombstone` sees empty frontiers.

`NoAssertFails` holds without `LeaseOutlivesCall`: an entry that is gone can make an
answer false (see the findings), but it cannot make an assertion fail. These
invariants, too, were checked with TLC first.

**PersistShardHandleProofs: answers.** `AnswersAreTrue` and the refinement of `ShardLog`
(`ImplementsShardLog`), both with the hypothesis `LeaseOutlivesCall`: no writer's lease
runs out during its append. The code heartbeats no writer during a call and does not
exclude that, so the hypothesis is about the deployment (a lease of 60 minutes,
`cfg.rs:186`, against the retries of one call), and the run `expiry` shows that it is needed. `AnswersInv`
adds to the invariants above:

- `ExecutedInv`: where the execution of a call shows. The entry that a call leaves
  stays, in every version from then on, until its writer calls again. So each known
  version shows the entry (or is a tombstone), or is older than the one cached, or is
  the cached version itself, no longer current, from which the call was executed. A
  retry evaluated there proposes the same once more and loses the race; evaluated
  later it finds its token, `AlreadyCommitted`, which is a success to the caller.
- `AnswerInv`, `OutcomesInv`: a call about to be rejected has no copy of its batch in
  the log and none in flight that would be accepted; one that knows of no indeterminate
  error likewise; the answers given so far agree with the log.
- `RequestsOpen`: a request to append that would still be accepted belongs to a call
  that is pending or was abandoned without an answer, so its commit is a legal
  `TakesEffect` of `ShardLog`.

The steps map as follows: `BeginAppend` is `Invoke`; the commit of an append is
`TakesEffect`, whoever waits for it or not; the commit of another command is `Compact`
if it moves the since and a stutter if not; the answers are `Accept`, `Reject` and
`NoAnswer`. `AnswersInv` was checked with TLC on the instances of `append`, `since`,
`tombstone` and `fence`.

**GroupCommitProofs.** `TypeOK`, `ReadsAreLinearized`, `WritesAreSerial` and
`NoStaleWrites`, from the invariant `Inv` with these parts:

- `KnownInv`: no client knows of a time later than the oracle's read timestamp;
  with `BatchInv` and `SessionInv` it follows that a batched answer, read after all
  its requests were made, is not before any of their floors.
- `SessionInv`, `CommitInv`: the payload of an OCC write is everything below its
  target, and the upper has reached the target, so nothing can appear below it.
- `CatalogInv`: once a newer process has registered the tables, the txns upper is
  past every catalog upper an older one has cached; the older one cannot cache a
  later one without noticing the fence, and it writes at no time its cached upper
  does not allow.
- `TakeoverInv`: what a booting process has read stays complete until it writes, or
  the process is `Doomed`: fenced, and unable to write any more.

The proof shows something the code does not say: the registration of the tables at
boot already shuts older processes out. The empty append that follows it as a
barrier is not needed for these properties. Sessions that talk to several
processes are covered by the proof only; the runs have either several sessions or
several processes. `Inv` has been checked with TLC on the instances of both runs.

**PersistGcProofs.** `TypeOK`, `EarliestIsHeld`, `EarliestHasRollup`,
`HeldPartsExist`, `NothingLeaks` and `RefetchMakesProgress`, from the invariant `Inv`
with these parts:

- `RollupsInv`: what some version has dropped is below the earliest live diff,
  because a collector unlinks rollups only after it has truncated to a later one. So
  of a list of rollups, however stale, all that is not below the earliest diff is
  still linked and in Blob (`LinkedFromEarliest`). This is what makes `gc_and_truncate`
  safe although it works from a cached state, and what a refetch relies on.
- `PartsInv`: a part that a later version lacks was dropped by a diff in between, and
  no part comes back; so the parts that the diffs up to a target dropped are in no
  version that is held. Rollups do come back (see *Findings*), but below the earliest
  diff.
- `GcInv`: a collector's list goes no further than the readers' holds; before it
  truncates, Blob has nothing that only the diffs it is about to truncate name
  (`Emptied`), also if others append, delete or truncate meanwhile; before it unlinks,
  what it is going to unlink is below the earliest diff.
- `TaskInv`: a task that has never seen its rollup linked knows that it never was, so
  that `DeleteRollup` deletes nothing that is linked, for all lost answers.

`Inv` was checked with TLC on the instance of `gc` and on random behaviours of larger
ones before it was proved. The invariant that came first had all rollups of the
current version in Blob, as the comment in the code has it; its proof failed at the
retry of `add_rollup`, and that led to the run `relink`.

**TxnWalProofs.** `TypeOK`, `DataIsDefinite`, `LogIsWellFormed`, `ForgottenIsApplied`,
`SinceBehindUnapplied` and the action property `ReadsAreComplete`. Their conjunction is
not inductive, since handles and readers act on caches of the txns shard. What makes
it so is that a cache read up to a time knows all entries below that time for good,
as every later entry is at or above the upper (`MarkInv`, `OpInv`), that a handle
which is applying has on its list every entry it has not applied yet (`ApplyInv`), and
that a reader's latest write and the time up to which it fills in leave out nothing
committed (`ReadInv`). Crashes and reopened caches, which start at the since, are
covered by `SinceBehindUnapplied`, which is therefore part of the invariant and not
only a consequence. The proof also shows that the bounds that `compact_to` puts on
its frontier are redundant where the table worker calls it, right after `apply_le`.

**SpineProofs, CompactionProofs.** `SpineIsValid`, `NothingLostOrDoubled`, `NeverPanics`,
`FuelDiscipline` and `ReferencedRunsExist`, for batches of any number and size, any
memory bound and fuel, and any number of compactions, lost answers and forced rounds. The
properties themselves are far from inductive. `CompactionInv` says that there are times
`T` of the ids, a set `K` of runs named so far and a set `X` of names that must stay out
of the spine, such that `StateOK` holds:

- `World`: times do not run backwards, a run that was written takes time, and a name
  stands for one run.
- `Spined`: the batches of the layers are made of parts that account for exactly what was
  written between their times (`PartsFor`), none of them with a run of `X`; the layers
  tile the ids (`Tiled`); and every merge has the fuel it needs to come (`FuelAt`): the
  work left of a merge at level `i` is at most four times what is missing to `2^i` records
  in the layers below. The second half is what the doc comment of `Spine` argues with and
  does not state. A batch of level `l` brings `8 * 2^l` fuel to every merge and adds, with
  what is rolled up before it, at most `2 * 2^l` records below, so the inequality is kept;
  a merge at level `l + 1` or below has at most `8 * 2^l` work left, so it is done before
  the batch is pushed. `FuelDiscipline` alone is not enough, as it says nothing of work
  left. `tidy_layers` moves the top batch down and starts a merge there only if there
  are few records below it (`TidyOK`).
- `JobsOK`: the chunks that a compaction has left account for what was written in their
  range, or for the runs they name, and so will an output of them. This does not depend on
  the spine any more, which is why a result may come at any time: whatever parts have its
  bounds by then account for the same updates as the result does (`OutcomeOK`).
- `Known`, `Past`: a run is named after the batch, or the compaction and chunk, it was
  made for. A name is in `X` if it is deleted or belongs to an output that was not
  applied yet and will be tried again. Once applied it leaves `X`, and by the flag "ever
  applied" of `merge_res` it is not deleted later, though a retry may be told that the
  result does not apply.

The operators of `Spine` and `chunk_runs` are recursive functions over layers, parts and
chunks. The library's induction theorems take an operator and cannot be used with these
provers; `SpineProofs` has induction over sets of numbers instead (`LeastNat`,
`InductionUpTo`), from inclusion among finite sets being well-founded, and the lemmas
`RecursionUpTo` and `RecursionUnique`, by which a recursive function is what its
recursion says. Each method of the spine has a lemma (`ApplyFuelOK`, `RollUpOK`, `TidyOK`,
`IntroduceOK`, `PushBatchOK`, `ExertOK`, `ApplyMergeResOK`), and each action of
`Compaction` one (`AppendBatchInv`, `MergeResInv`, ...).

**Only model-checked.** The liveness properties `CallsReturn` and `TakeoversEnd` rest on
fairness, which TLAPS does not reason about. What happens to the answers without
`LeaseOutlivesCall` is the run `expiry`. Every other property of a passing run is proved.

## Findings

**`expiry`: an append that committed is reported as rejected.** After an
indeterminate error `compare_and_append_idempotent` decides from the writer's
entry in the state whether an earlier attempt can have committed
(`machine.rs:599`). If the writer's lease runs out during the retries, `expire_at`
has removed the entry, the check sees upper `T::minimum()`, and the answer is
`UpperMismatch` although the batch is in the shard; `WriteHandle` then deletes the
blobs of that batch. It takes retries that outlast the lease. The `append` run has
`LeaseOutlivesCall = TRUE`, under which answers are true.

**`start`: a collector panics.** `gc.rs:482` asserts that the live diffs begin at a
rollup from the list taken earlier from the cached state. A rollup linked out of
order after that, to which another collector truncates, refutes it. The active path
foresees this case and returns (`gc.rs:289`); the default path does not. Nothing is
lost: the process panics before it deletes anything.

**`relink`: the current version names a rollup that is gone.** `add_rollup` refuses a
rollup below the least one linked, because "the surviving minimum is strictly above
every seqno that has been removed" (`state.rs:1457`). Rollups are linked in any order:
one that is late lands below those on a collector's list, is not on the list itself and
so survives. The retry of an `add_rollup` that had committed then passes the guard and
links again what the collector removed, and a collection deletes its blob while the
current version has it, against "The rollups in `current` exist in Blob"
(`state_versions.rs:88`). It does no harm to recovery: such a rollup is below the
earliest live diff, as `ShardIsRecoverable` shows.

Noted while reading, without a run of their own: the loop that forces compaction,
which "exits once the shard is sufficiently compacted" (`cli/admin.rs:712`), does not
end for a shard of one batch with two runs or more, because `spine_exert` returns at
once for fewer than two batches (`machine.rs:306`) while the loop ends at one run
(`cli/admin.rs:791`), and the expression cache awaits it at boot; the comment at `state.rs:1369` that
the since is the meet of the readers is not true after an expiry, since
`update_since` is commented out there; with active gc the early return leaves
`active_gc` set, so that the next collection waits for the fallback threshold.

## Not modelled, and what comes next

Within the modelled components: in `ShardState` schemas, version upgrades and the
hollow-rollup bookkeeping that does not influence the fields kept; in `Spine` the
encoding of the spine in the state and its reconstruction (`flatten`, `unflatten`),
`apply_merge_res_unchecked`, the sums of diffs, and who may claim a compaction when (any
batch with runs may be claimed, as if its writer were old); in `Compaction` the order of
the updates in a run, which the code splits if it is not the preferred one;
in `PersistGc` the race of two processes to initialize a
shard, paging of scans, `active_rollup`, collection of a tombstone; in `TxnWal`
`forget_all`, `data_listen_next` and the progress operator, direct writers of shards
that are not registered, schemas; in `GroupCommit` `TimestampTooFarAhead` and the
throttling of group commits, statements that are sealed or write blindly, advances
by `create_table_collections`, read-only and savepoint boots, several timelines; the
folding of the diffs of a subscribe into the payload of an OCC write (`OccState`), of
which the model keeps which times the payload covers.  `TxnWal` has
`USE_CRITICAL_SINCE_TXN` on, its default: a handle opens at the critical since.

Not modelled at all: the building of batches, Blob and Consensus implementations,
network front ends (I/O); the SQL parser, planner and optimizer (pure functions on
large data types without concurrency; out of reach of explicit-state checking);
sources, sinks and upsert (dataflow operators whose state is per key and
per timestamp).

Next, in this order:

1. `ComputeHistory` and `ReadHolds`: compaction of the command history, replica
   reconciliation, and read holds that keep back the since of an input.
2. As-of selection as operators against a reference definition; the schema
   registry; the remap shard of reclocking.
