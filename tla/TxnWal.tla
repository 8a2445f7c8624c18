------------------------------- MODULE TxnWal -------------------------------
(***************************************************************************)
(* Transactions over many data shards: the crate txn-wal (txns.rs,         *)
(* txn_write.rs, txn_cache.rs, txn_read.rs), driven as the table worker of *)
(* the storage controller drives it (persist_handles.rs).                  *)
(*                                                                         *)
(* A transaction commits by one compare_and_append to the txns shard and   *)
(* is only later applied to its data shards, by whoever gets there first.  *)
(* A reader decides from its cache of the txns shard which write it has to *)
(* wait for, and fills the rest of the data shard up to its as_of with     *)
(* nothing.  Applied batches are retracted from the txns shard ("tidied")  *)
(* as part of later transactions.                                          *)
(*                                                                         *)
(* compare_and_append is the linearizable operation PersistShard shows it  *)
(* to be.  A transaction writes at most one batch to a data shard, so a    *)
(* batch is named by its data shard and its commit time.  A cache of the   *)
(* txns shard is a function of the times it was opened at and has read to. *)
(***************************************************************************)
EXTENDS Integers

CONSTANTS
    Datas,       \* data shards
    Handles,     \* TxnsHandles, each with the table worker that owns it
    Readers,     \* readers of data shards
    MaxTime      \* bound: the last time of a transaction or a read

ASSUME TxnAssumption == MaxTime \in Nat \ {0}

VARIABLES
    upper,        \* the upper of the txns shard
    since,        \* the since of its critical reader
    registers,    \* its entries Register: +1 registers, -1 forgets
    appends,      \* its entries Append with diff +1
    retractions,  \* its entries Append with diff -1, and when
    dataUpper,    \* the upper of each data shard
    dataTimes,    \* the commit times of the batches in each data shard
    marked,       \* per handle: registers before this are known applied
    writes,       \* per handle: data_write_for_commit
    tidy,         \* per handle: applied batches it has yet to retract
    op,           \* per handle: the operation in progress
    read          \* per reader: the DataSnapshot in progress

txnsVars == <<upper, since, registers, appends, retractions>>
dataVars == <<dataUpper, dataTimes>>
vars == <<txnsVars, dataVars, marked, writes, tidy, op, read>>

-----------------------------------------------------------------------------
Times == 0 .. MaxTime
Uppers == 0 .. MaxTime + 1
None == -1

Register == [data : Datas, ts : Times, diff : {1, -1}]
Append == [data : Datas, ts : Times]
Retraction == [data : Datas, ts : Times, at : Times]

(* The operation of a handle: its step, the time and shards it is for, the *)
(* progress of its cache, which is the upper it expects of the txns shard; *)
(* for apply_le the time it goes up to and the times left per data shard.  *)
Op(pc, kind, ts, datas, progress) ==
    [pc |-> pc, kind |-> kind, ts |-> ts, datas |-> datas,
     progress |-> progress, applyTo |-> 0, todo |-> [d \in Datas |-> {}]]
Idle == Op("idle", "none", 0, {}, 0)
Closed == Op("closed", "none", 0, {}, 0)

Read(data, asOf, latest, emptyTo) ==
    [data |-> data, asOf |-> asOf, latestWrite |-> latest,
     emptyTo |-> emptyTo]
NoRead == Read("none", 0, None, 0)

(* The txns shard was created readable at time 0 (TxnsHandle::open).       *)
Init ==
    /\ upper = 1 /\ since = 0
    /\ registers = {} /\ appends = {} /\ retractions = {}
    /\ dataUpper = [d \in Datas |-> 0]
    /\ dataTimes = [d \in Datas |-> {}]
    /\ marked = [h \in Handles |-> 0]
    /\ writes = [h \in Handles |-> {}]
    /\ tidy = [h \in Handles |-> {}]
    /\ op = [h \in Handles |-> Closed]
    /\ read = [r \in Readers |-> NoRead]

-----------------------------------------------------------------------------
(* TxnsCacheState, of a cache that has read the entries before n.          *)

RegisteredAtProgress(data, n) ==
    \E e \in registers :
      /\ e.data = data /\ e.ts < n /\ e.diff = 1
      /\ \A f \in registers : f.data = data /\ f.ts < n => f.ts <= e.ts

RetractedBy(b, n) ==
    \E r \in retractions : r.data = b.data /\ r.ts = b.ts /\ r.at < n

UnappliedBatches(n) == {b \in appends : b.ts < n /\ ~RetractedBy(b, n)}

(* push_register takes what was compacted to the init_ts for applied.      *)
UnappliedRegisters(h, n) == {e \in registers : marked[h] <= e.ts /\ e.ts < n}

(* The times to apply to each data shard, up to ts.                        *)
Unapplied(h, n, ts) ==
    LET unapplied == UnappliedRegisters(h, n) \cup UnappliedBatches(n)
    IN  [d \in Datas |-> {t \in 0 .. ts : \E x \in unapplied :
                                          x.data = d /\ x.ts = t}]

IsLatestWriteStrict(t, init, data, asOf) ==  \* mutant: off by one
    LET waitFor == {b \in appends :
                      /\ b.data = data /\ b.ts <= asOf
                      /\ ~RetractedBy(b, init + 1)
                      /\ \E u \in UnappliedBatches(upper) : u.ts < b.ts}
    IN  IF waitFor = {} THEN t = None
        ELSE /\ \E b \in waitFor : b.ts = t
             /\ \A b \in waitFor : b.ts <= t

(* data_snapshot, by a cache that was opened at init: the write that a     *)
(* read at as_of has to wait for is the latest one the cache knows of,     *)
(* unless everything up to it is retracted.                                *)
IsLatestWrite(t, init, data, asOf) ==
    LET waitFor == {b \in appends :
                      /\ b.data = data /\ b.ts <= asOf
                      /\ ~RetractedBy(b, init + 1)
                      /\ \E u \in UnappliedBatches(upper) : u.ts <= b.ts}
    IN  IF waitFor = {} THEN t = None
        ELSE /\ \E b \in waitFor : b.ts = t
             /\ \A b \in waitFor : b.ts <= t

Latest(a, b) == IF a <= b THEN b ELSE a

-----------------------------------------------------------------------------
(* A TxnsHandle is opened at the since of the txns shard, which is that of *)
(* its critical handle (USE_CRITICAL_SINCE_TXN is on, as by default).  A   *)
(* process may crash at any time; it loses its cache, its write handles    *)
(* and its tidy.                                                           *)

OpenHandle(h) ==
    /\ op[h].pc = "closed"
    /\ marked' = [marked EXCEPT ![h] = since]
    /\ op' = [op EXCEPT ![h] = Idle]
    /\ UNCHANGED <<txnsVars, dataVars, writes, tidy, read>>

Close(h) ==
    /\ marked' = [marked EXCEPT ![h] = 0]
    /\ writes' = [writes EXCEPT ![h] = {}]
    /\ tidy' = [tidy EXCEPT ![h] = {}]
    /\ op' = [op EXCEPT ![h] = Closed]
    /\ UNCHANGED <<txnsVars, dataVars, read>>

Crash(h) ==
    /\ op[h].pc # "closed"
    /\ Close(h)

-----------------------------------------------------------------------------
(* commit_at, register and forget share the loop up to compare_and_append. *)
(* It begins with update_ge.  That may stop short of the upper, which is   *)
(* no different from having been called earlier.                           *)

(* The worker appends to and drops the tables it has handles for; a call   *)
(* whose compare_and_append met another upper is tried again.              *)
Asked(h, kind, ts, datas) ==
    \/ /\ op[h].pc = "idle"
       /\ kind # "register" => datas \subseteq writes[h]
       /\ kind # "commit" => datas # {}
    \/ /\ op[h].pc = "retry"
       /\ kind = op[h].kind /\ ts = op[h].ts /\ datas = op[h].datas

TooLate(h) ==
    /\ op[h].pc = "retry"
    /\ op[h].ts < upper
    /\ op' = [op EXCEPT ![h] = Idle]
    /\ UNCHANGED <<txnsVars, dataVars, marked, writes, tidy, read>>

(* commit_at panics: another handle has forgotten the shard.               *)
CommitUnregistered(h, ts, datas) ==
    /\ Asked(h, "commit", ts, datas)
    /\ upper <= ts
    /\ \E d \in datas : ~RegisteredAtProgress(d, upper)
    /\ Close(h)

(* What the compare_and_append will carry is a function of the cache.      *)
Prepare(h, kind, ts, datas) ==
    /\ Asked(h, kind, ts, datas)
    /\ kind # "forget"
    /\ upper <= ts
    /\ kind = "commit" => \A d \in datas : RegisteredAtProgress(d, upper)
    /\ op' = [op EXCEPT ![h] = Op("caa", kind, ts, datas, upper)]
    /\ UNCHANGED <<txnsVars, dataVars, marked, writes, tidy, read>>

PrepareForgetAtOnce(h, ts, datas) ==  \* mutant: forgets unapplied writes
    /\ Asked(h, "forget", ts, datas)
    /\ upper <= ts
    /\ op' = [op EXCEPT ![h] = Op("caa", "forget", ts, datas, upper)]
    /\ UNCHANGED <<txnsVars, dataVars, marked, writes, tidy, read>>

(* forget first applies the writes to its shards, up to the latest one.    *)
PrepareForget(h, ts, datas) ==
    LET mine == {b \in UnappliedBatches(upper) : b.data \in datas}
        caa == Op("caa", "forget", ts, datas, upper)
    IN  /\ Asked(h, "forget", ts, datas)
        /\ upper <= ts
        /\ \/ /\ mine = {}
              /\ op' = [op EXCEPT ![h] = caa]
           \/ \E latest \in mine :
                /\ \A b \in mine : b.ts <= latest.ts
                /\ op' = [op EXCEPT ![h] =
                     [caa EXCEPT !.pc = "before", !.applyTo = latest.ts,
                                 !.todo = Unapplied(h, upper, latest.ts)]]
        /\ UNCHANGED <<txnsVars, dataVars, marked, writes, tidy, read>>

CaaMismatchUnchecked(h) ==  \* mutant: tries again without a new check
    /\ op[h].pc = "caa"
    /\ op[h].progress # upper /\ upper <= op[h].ts
    /\ op' = [op EXCEPT ![h].progress = upper]
    /\ UNCHANGED <<txnsVars, dataVars, marked, writes, tidy, read>>

CaaMismatch(h) ==
    /\ op[h].pc = "caa"
    /\ op[h].progress # upper
    /\ op' = [op EXCEPT ![h] = Op("retry", @.kind, @.ts, @.datas, 0)]
    /\ UNCHANGED <<txnsVars, dataVars, marked, writes, tidy, read>>

(* small_caa on the txns shard: everything is written at ts.               *)
Caa(h, kind) ==
    /\ op[h].pc = "caa"
    /\ op[h].kind = kind
    /\ op[h].progress = upper
    /\ upper' = op[h].ts + 1
    /\ op' = [op EXCEPT ![h] = Op("committed", @.kind, @.ts, @.datas, 0)]
    /\ UNCHANGED <<since, dataVars, marked, read>>

FilterRetractions(h) == tidy[h] \cap UnappliedBatches(op[h].progress)

CommitCaa(h) ==
    /\ Caa(h, "commit")
    /\ appends' = appends \cup
         {[data |-> d, ts |-> op[h].ts] : d \in op[h].datas}
    /\ retractions' = retractions \cup
         {[data |-> b.data, ts |-> b.ts, at |-> op[h].ts] :
            b \in FilterRetractions(h)}
    /\ tidy' = [tidy EXCEPT ![h] = {}]
    /\ UNCHANGED <<registers, writes>>

RegisterCaa(h) ==
    /\ Caa(h, "register")
    /\ registers' = registers \cup
         {[data |-> d, ts |-> op[h].ts, diff |-> 1] :
            d \in {x \in op[h].datas :
                     ~RegisteredAtProgress(x, op[h].progress)}}
    /\ writes' = [writes EXCEPT ![h] = @ \cup op[h].datas]
    /\ UNCHANGED <<appends, retractions, tidy>>

ForgetCaa(h) ==
    /\ Caa(h, "forget")
    /\ registers' = registers \cup
         {[data |-> d, ts |-> op[h].ts, diff |-> -1] :
            d \in {x \in op[h].datas :
                     RegisteredAtProgress(x, op[h].progress)}}
    /\ UNCHANGED <<appends, retractions, writes, tidy>>

-----------------------------------------------------------------------------
(* apply_le, after update_gt(ts), and compact_to.                          *)

BeginApply(h) ==
    /\ op[h].pc = "committed"
    /\ op' = [op EXCEPT ![h].pc = "after", ![h].progress = upper,
                        ![h].applyTo = op[h].ts,
                        ![h].todo = Unapplied(h, upper, op[h].ts)]
    /\ UNCHANGED <<txnsVars, dataVars, marked, writes, tidy, read>>

ApplyCaaTooFar(h, d) ==  \* mutant: steps forward twice
    /\ op[h].pc \in {"before", "after"}
    /\ \E t \in op[h].todo[d] :
         /\ \A x \in op[h].todo[d] : t <= x
         /\ dataUpper' = [dataUpper EXCEPT ![d] = Latest(@, t + 2)]
         /\ op' = [op EXCEPT ![h].todo[d] = @ \ {t}]
    /\ UNCHANGED <<txnsVars, dataTimes, marked, writes, tidy, read>>

(* apply_caa and empty_caa, which retry until the upper is past the time:  *)
(* in the order of time for one data shard, in any order across them.      *)
ApplyCaa(h, d) ==
    /\ op[h].pc \in {"before", "after"}
    /\ \E t \in op[h].todo[d] :
         LET b == [data |-> d, ts |-> t]
         IN  /\ \A x \in op[h].todo[d] : t <= x
             /\ dataUpper' = [dataUpper EXCEPT ![d] = Latest(@, t + 1)]
             /\ dataTimes' = IF dataUpper[d] <= t /\ b \in appends
                             THEN [dataTimes EXCEPT ![d] = @ \cup {t}]
                             ELSE dataTimes
             /\ tidy' = IF op[h].pc = "after" /\ b \in appends
                        THEN [tidy EXCEPT ![h] = @ \cup {b}]
                        ELSE tidy
             /\ op' = [op EXCEPT ![h].todo[d] = @ \ {t}]
    /\ UNCHANGED <<txnsVars, marked, writes, read>>

(* mark_register_applied, and on to what the operation does next.          *)
ApplyDone(h, pc) ==
    /\ op[h].pc = pc
    /\ \A d \in Datas : op[h].todo[d] = {}
    /\ marked' = [marked EXCEPT ![h] = Latest(@, op[h].applyTo + 1)]
    /\ UNCHANGED <<txnsVars, dataVars, tidy, read>>

AppliedBefore(h) ==
    /\ ApplyDone(h, "before")
    /\ op' = [op EXCEPT ![h].pc = "caa", ![h].applyTo = 0]
    /\ UNCHANGED writes

AppliedAfter(h) ==
    /\ ApplyDone(h, "after")
    /\ op' = [op EXCEPT ![h] = IF @.kind = "commit"
                               THEN [@ EXCEPT !.pc = "compact"] ELSE Idle]
    /\ writes' = IF op[h].kind = "forget"
                 THEN [writes EXCEPT ![h] = @ \ op[h].datas] ELSE writes

CompactToProgress(h) ==  \* mutant: to all that the cache has read
    /\ op[h].pc = "compact"
    /\ since' = Latest(since, op[h].progress)
    /\ op' = [op EXCEPT ![h] = Idle]
    /\ UNCHANGED <<upper, registers, appends, retractions, dataVars, marked,
                   writes, tidy, read>>

(* compact_to(write_ts): never past what the cache takes to be unapplied.  *)
CompactTo(h) ==
    LET n == op[h].progress
        limits == {op[h].ts} \cup {b.ts : b \in UnappliedBatches(n)}
                    \cup {e.ts : e \in UnappliedRegisters(h, n)}
    IN  /\ op[h].pc = "compact"
        /\ \E t \in limits :
             /\ \A x \in limits : t <= x
             /\ since' = Latest(since, t)
        /\ op' = [op EXCEPT ![h] = Idle]
        /\ UNCHANGED <<upper, registers, appends, retractions, dataVars,
                       marked, writes, tidy, read>>

-----------------------------------------------------------------------------
(* Reads of a data shard.  The cache of the process that reads was opened  *)
(* at some since and has read to the upper.                                *)

DataSnapshot(r, d, asOf) ==
    /\ read[r] = NoRead
    /\ asOf < upper
    /\ \E init \in 0 .. since, latest \in Times \cup {None} :
         /\ IsLatestWrite(latest, init, d, asOf)
         /\ read' = [read EXCEPT ![r] =
                       Read(d, asOf, latest, Latest(asOf + 1, init))]
    /\ UNCHANGED <<txnsVars, dataVars, marked, writes, tidy, op>>

UnblockReadAtOnce(r) ==  \* mutant: does not wait for the latest write
    LET d == read[r].data
    IN  /\ read[r] # NoRead
        /\ dataUpper' = [dataUpper EXCEPT ![d] = Latest(@, read[r].emptyTo)]
        /\ read' = [read EXCEPT ![r] = NoRead]
        /\ UNCHANGED <<txnsVars, dataTimes, marked, writes, tidy, op>>

(* unblock_read waits for the write and fills up to empty_to; the shard    *)
(* can then be read at as_of.                                              *)
UnblockRead(r) ==
    LET d == read[r].data
    IN  /\ read[r] # NoRead
        /\ read[r].latestWrite < dataUpper[d]
        /\ dataUpper' = [dataUpper EXCEPT ![d] = Latest(@, read[r].emptyTo)]
        /\ read' = [read EXCEPT ![r] = NoRead]
        /\ UNCHANGED <<txnsVars, dataTimes, marked, writes, tidy, op>>

-----------------------------------------------------------------------------
Next ==
    \/ \E h \in Handles :
         \/ OpenHandle(h) \/ Crash(h)
         \/ \E ts \in Times, datas \in SUBSET Datas :
              \/ CommitUnregistered(h, ts, datas)
              \/ PrepareForget(h, ts, datas)
              \/ \E kind \in {"commit", "register"} :
                   Prepare(h, kind, ts, datas)
         \/ CaaMismatch(h) \/ TooLate(h)
         \/ CommitCaa(h) \/ RegisterCaa(h) \/ ForgetCaa(h)
         \/ BeginApply(h) \/ AppliedBefore(h) \/ AppliedAfter(h)
         \/ CompactTo(h)
         \/ \E d \in Datas : ApplyCaa(h, d)
    \/ \E r \in Readers :
         \/ UnblockRead(r)
         \/ \E d \in Datas, asOf \in Times : DataSnapshot(r, d, asOf)

Spec == Init /\ [][Next]_vars

-----------------------------------------------------------------------------
(* The entries and uppers are what they should be; in particular no data   *)
(* shard is ahead of the txns shard.                                       *)
TypeOK ==
    /\ upper \in 1 .. MaxTime + 1 /\ since \in 0 .. upper - 1
    /\ registers \subseteq Register /\ appends \subseteq Append
    /\ retractions \subseteq Retraction
    /\ dataUpper \in [Datas -> 0 .. upper]
    /\ dataTimes \in [Datas -> SUBSET Times]
    /\ marked \in [Handles -> 0 .. upper]
    /\ writes \in [Handles -> SUBSET Datas]
    /\ tidy \in [Handles -> SUBSET Append]
    /\ op \in [Handles ->
         [pc : {"closed", "idle", "retry", "before", "caa", "committed",
                "after", "compact"},
          kind : {"none", "commit", "register", "forget"}, ts : Times,
          datas : SUBSET Datas, progress : 0 .. upper, applyTo : Times,
          todo : [Datas -> SUBSET Times]]]
    /\ read \in [Readers ->
         [data : Datas \cup {"none"}, asOf : Times,
          latestWrite : Times \cup {None}, emptyTo : 0 .. upper]]

(* A data shard holds at every time before its upper exactly what was      *)
(* committed to it at that time: nothing is applied twice or at another    *)
(* time, and neither a reader nor another handle fills the time of a       *)
(* committed write with nothing.                                           *)
DataIsDefinite ==
    \A d \in Datas :
      dataTimes[d] = {b.ts : b \in {x \in appends :
                                    x.data = d /\ x.ts < dataUpper[d]}}

(* A read that is unblocked sees every transaction up to its as_of, also   *)
(* those whose process crashed before it applied them.                     *)
ReadSees(r) ==
    LET d == read[r].data
        asOf == read[r].asOf
    IN  /\ asOf < dataUpper'[d]
        /\ {t \in dataTimes'[d] : t <= asOf} =
             {b.ts : b \in {x \in appends' : x.data = d /\ x.ts <= asOf}}
ReadsAreComplete ==
    [][\A r \in Readers : read[r] # NoRead /\ read'[r] = NoRead
                            => ReadSees(r)]_vars

(* What txn_cache.rs asserts when it reads the entries back: a batch is    *)
(* retracted at most once, and only once it is applied; registers and      *)
(* forgets of a data shard alternate; appends are made while it is         *)
(* registered.                                                             *)
LogIsWellFormed ==
    /\ \A r \in retractions :
         /\ [data |-> r.data, ts |-> r.ts] \in appends
         /\ r.ts < r.at
         /\ r.ts < dataUpper[r.data]
         /\ \A q \in retractions : q.data = r.data /\ q.ts = r.ts => q = r
    /\ \A e \in registers : RegisteredAtProgress(e.data, e.ts) <=> e.diff = -1
    /\ \A b \in appends : RegisteredAtProgress(b.data, b.ts)

(* forget: "Ensure the latest writes for each shard has been applied".     *)
(* A data shard that is not registered has no unapplied write, or whoever  *)
(* writes to it directly from then on would collide with it.               *)
ForgottenIsApplied ==
    \A b \in appends :
      ~RegisteredAtProgress(b.data, upper) => b.ts < dataUpper[b.data]

(* compact_to: "we never allow the since of the txns shard to pass any     *)
(* unapplied writes", nor an unapplied register or forget: caches opened   *)
(* at the since take what is before it for applied.                        *)
SinceBehindUnapplied ==
    \A x \in appends \cup registers :
      x.ts < since => x.ts < dataUpper[x.data]
=============================================================================
