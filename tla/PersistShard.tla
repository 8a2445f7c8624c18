---------------------------- MODULE PersistShard ----------------------------
(***************************************************************************)
(* One persist shard as its processes share it: the command loop of        *)
(* persist-client (internal/apply.rs, internal/machine.rs) over a          *)
(* compare-and-set register (Consensus), and the handles that issue the    *)
(* commands (write.rs, read.rs, critical.rs and the epoch fencing of       *)
(* storage-client/src/storage_collections.rs).                             *)
(*                                                                         *)
(* Every process works on a cached state that may be stale.  A command is  *)
(* evaluated on the cache; its proposal is sent to Consensus, which        *)
(* accepts it only as the direct successor of the current version.  The    *)
(* answer may be lost (an Indeterminate error) while the request itself    *)
(* is executed before, after, or never; a dropped future leaves its        *)
(* request in flight too.  A process that crashes or pauses is one whose   *)
(* handles take no further step; its restart is a new set of handles.      *)
(***************************************************************************)
EXTENDS ShardState, Sequences

CONSTANTS
    SinceHandles,   \* SinceHandles, possibly several with one CriticalReaderId
    Finalizers,     \* callers of PersistClient::finalize_shard
    Procs,          \* processes: each has one cached state of the shard
    ProcOf,         \* the process a handle lives in
    CriticalIdOf,   \* the CriticalReaderId of a SinceHandle
    EpochOf,        \* the envd epoch of the SinceHandle's owner
    AppendInputs,   \* the [lower, upper, empty] a writer may try to append
    MaxCalls,       \* bound: calls started in a behaviour
    MaxErrs,        \* bound: indeterminate errors in a behaviour
    Expirable,      \* the handles whose lease may run out
    LeaseOutlivesCall \* no writer's lease runs out during its append call

Handles == Writers \cup LeasedReaders \cup SinceHandles \cup Finalizers

ASSUME HandlesAssumption ==
    /\ ProcOf \in [Handles -> Procs]
    /\ CriticalIdOf \in [SinceHandles -> CriticalIds]
    /\ EpochOf \in [SinceHandles -> Nat \ {DefaultOpaque}]
    /\ AppendInputs \subseteq [lower : Frontier, upper : Frontier,
                               empty : BOOLEAN]
    /\ Writers \cap LeasedReaders = {}
    /\ Writers \cap (SinceHandles \cup Finalizers) = {}
    /\ LeasedReaders \cap (SinceHandles \cup Finalizers) = {}
    /\ SinceHandles \cap Finalizers = {}
ASSUME BoundsAssumption ==
    /\ MaxCalls \in Nat /\ MaxErrs \in Nat
    /\ Expirable \subseteq Writers \cup LeasedReaders
    /\ LeaseOutlivesCall \in BOOLEAN

VARIABLES
    cur,       \* the state version Consensus holds
    cache,     \* per process: the cached state (LockingTypedState)
    orphans,   \* requests in flight that nobody waits for any more
    call,      \* per handle: its call in progress
    hstat,     \* per handle: life cycle
    hsince,    \* per reader handle: its since
    hseqno,    \* per leased reader: lower bound of its outstanding SeqNos
    hopaque,   \* per SinceHandle: the opaque it last saw
    calls,     \* calls started; the number of a call is its token
    errs,      \* indeterminate errors so far
    log,       \* history: the batches in the order they were committed
    outcome    \* history: what each append call returned to its caller

handleVars == <<hstat, hsince, hseqno, hopaque>>
vars == <<cur, cache, orphans, call, handleVars, calls, errs, log, outcome>>

(* A call: where it is, its command, the state proposed (or the one that a *)
(* Break came from), what it returns once that is committed, and whether   *)
(* it has seen an Indeterminate error.                                     *)
Call(at, c, st, r, indet) ==
    [pc |-> at, cmd |-> c, st |-> st, ret |-> r, indet |-> indet]
NoCmd == [op |-> "none"]
NoRet == "none"
Idle == Call("idle", NoCmd, InitialState, NoRet, FALSE)

Init ==
    /\ cur = InitialState
    /\ cache = [p \in Procs |-> InitialState]
    /\ orphans = {}
    /\ call = [h \in Handles |-> Idle]
    /\ hstat = [h \in Handles |->
                  IF h \in Writers \cup Finalizers THEN "live" ELSE "none"]
    /\ hsince = [h \in LeasedReaders \cup SinceHandles |-> 0]
    /\ hseqno = [h \in LeasedReaders |-> 0]
    /\ hopaque = [h \in SinceHandles |-> DefaultOpaque]
    /\ calls = 0
    /\ errs = 0
    /\ log = <<>>
    /\ outcome = [t \in 1 .. MaxCalls |-> "none"]

-----------------------------------------------------------------------------
(* Starting a call.                                                        *)

Cached(h) == cache[ProcOf[h]]

Cmd(h) == call[h].cmd

Start(h, c) ==
    /\ call[h].pc = "idle"
    /\ call' = [call EXCEPT ![h] =
                  Call("ready", c, InitialState, NoRet, FALSE)]
    /\ UNCHANGED <<cur, cache, orphans, errs, log>>

StartNew(h, c) == calls < MaxCalls /\ calls' = calls + 1 /\ Start(h, c)

BatchOf(t, i, inlined) ==
    [token |-> t, lower |-> i.lower, upper |-> i.upper, empty |-> i.empty,
     inline |-> inlined]

(* Machine::compare_and_append draws a new IdempotencyToken per call.  An  *)
(* inline part is flushed to blob once an append met with backpressure.    *)
Inlines(w, i) == w \in InlineWriters /\ ~i.empty
BeginAppend(w) ==
    /\ hstat[w] = "live"
    /\ \E i \in AppendInputs, inlined \in BOOLEAN :
         /\ inlined => Inlines(w, i)
         /\ ~inlined => \/ ~Inlines(w, i)
                        \/ \E t \in 1 .. calls : outcome[t] = "InlineBackpressure"
         /\ StartNew(w, [op |-> "compare_and_append",
                         b |-> BatchOf(calls + 1, i, inlined)])
    /\ outcome' = [outcome EXCEPT ![calls + 1] = "pending"]
    /\ UNCHANGED handleVars

BeginExpireWriter(w) ==
    /\ hstat[w] = "live"
    /\ StartNew(w, [op |-> "expire_writer"])
    /\ hstat' = [hstat EXCEPT ![w] = "gone"]
    /\ UNCHANGED <<hsince, hseqno, hopaque, outcome>>

BeginRegister(r) ==
    /\ hstat[r] = "none"
    /\ \E useCriticalSince \in BOOLEAN :
         StartNew(r, [op |-> "register_leased_reader",
                      critical |-> useCriticalSince])
    /\ UNCHANGED <<handleVars, outcome>>

(* The heartbeat task: it sends the handle's current since hold and the    *)
(* oldest SeqNo it has leased out, which only moves forward.               *)
BeginDowngrade(r) ==
    /\ hstat[r] = "live"
    /\ \E s \in hsince[r] .. Top,
          out \in {hseqno[r]} \cup (hseqno[r] .. Cached(r).seqno) :
         /\ StartNew(r, [op |-> "downgrade_since", since |-> s, out |-> out])
         /\ hsince' = [hsince EXCEPT ![r] = s]
         /\ hseqno' = [hseqno EXCEPT ![r] = out]
    /\ UNCHANGED <<hstat, hopaque, outcome>>

BeginExpireReader(r) ==
    /\ hstat[r] = "live"
    /\ StartNew(r, [op |-> "expire_leased_reader"])
    /\ hstat' = [hstat EXCEPT ![r] = "gone"]
    /\ UNCHANGED <<hsince, hseqno, hopaque, outcome>>

BeginOpenCritical(h) ==
    /\ hstat[h] = "none"
    /\ StartNew(h, [op |-> "register_critical_reader"])
    /\ UNCHANGED <<handleVars, outcome>>

Downgrade(h, expected, new, since) ==
    [op |-> "compare_and_downgrade_since", expected |-> expected,
     new |-> new, since |-> since]

(* open_critical_handle: take over the critical reader, unless the epoch   *)
(* it carries is newer than ours.                                          *)
BeginFenceAnyEpoch(h) ==  \* mutant: does not compare the epochs
    /\ hstat[h] = "opening"
    /\ Start(h, Downgrade(h, hopaque[h], EpochOf[h], hsince[h]))
    /\ UNCHANGED <<handleVars, calls, outcome>>

BeginFence(h) ==
    /\ hstat[h] = "opening"
    /\ hopaque[h] <= EpochOf[h]
    /\ Start(h, Downgrade(h, hopaque[h], EpochOf[h], hsince[h]))
    /\ UNCHANGED <<handleVars, calls, outcome>>

FencedLate(h) ==  \* mutant: off by one, the next epoch does not fence
    /\ hstat[h] = "opening"
    /\ call[h].pc = "idle"
    /\ ~(hopaque[h] <= EpochOf[h] + 1)
    /\ hstat' = [hstat EXCEPT ![h] = "halted"]
    /\ UNCHANGED <<cur, cache, orphans, call, hsince, hseqno, hopaque,
                   calls, errs, log, outcome>>

Fenced(h) ==
    /\ hstat[h] = "opening"
    /\ call[h].pc = "idle"
    /\ ~(hopaque[h] <= EpochOf[h])
    /\ hstat' = [hstat EXCEPT ![h] = "halted"]
    /\ UNCHANGED <<cur, cache, orphans, call, hsince, hseqno, hopaque,
                   calls, errs, log, outcome>>

(* The controller's downgrade_sinces.                                      *)
BeginDowngradeCritical(h) ==
    /\ hstat[h] = "open"
    /\ \E s \in hsince[h] .. Top :
         StartNew(h, Downgrade(h, hopaque[h], hopaque[h], s))
    /\ UNCHANGED <<handleVars, outcome>>

(* Machine::become_tombstone, after check_since_upper_both_empty.          *)
BeginFinalize(h) ==
    /\ hstat[h] = "live"
    /\ Cached(h).since = Top /\ Cached(h).upper = Top
    /\ StartNew(h, [op |-> "become_tombstone"])
    /\ UNCHANGED <<handleVars, outcome>>

-----------------------------------------------------------------------------
(* Evaluating the command on the cached state.                             *)

WorkFn(h, c, s) ==
    CASE c.op = "compare_and_append" -> CompareAndAppend(s, h, c.b)
      [] c.op = "expire_writer" -> ExpireWriter(s, h)
      [] c.op = "register_leased_reader" ->
           RegisterLeasedReader(s, h, c.critical)
      [] c.op = "downgrade_since" -> DowngradeSince(s, h, c.out, c.since)
      [] c.op = "expire_leased_reader" -> ExpireLeasedReader(s, h)
      [] c.op = "register_critical_reader" ->
           RegisterCriticalReader(s, CriticalIdOf[h], DefaultOpaque)
      [] c.op = "compare_and_downgrade_since" ->
           CompareAndDowngradeSince(s, CriticalIdOf[h], c.expected, c.new,
                                    c.since)
      [] c.op = "become_tombstone" -> BecomeTombstoneAndShrink(s)

(* How a call proceeds: to a point of the code, once more from the cached  *)
(* state, or back to its caller.                                           *)
GoTo(h, label) == call' = [call EXCEPT ![h].pc = label]
Retry(h, indet) ==
    call' = [call EXCEPT ![h] =
               Call("ready", Cmd(h), InitialState, NoRet, indet)]
Done(h) == call' = [call EXCEPT ![h] = Idle]

WorkRes(h) == WorkFn(h, Cmd(h), NextVersion(Cached(h)))

(* The commands that heartbeat their own handle. However long the call has *)
(* lasted, its work_fn reads the clock at every attempt, and expire_at     *)
(* reads it next: the lease of the handle would have to run out between    *)
(* these two readings.                                                     *)
Heartbeats == {"compare_and_append", "register_leased_reader",
               "downgrade_since"}
Heartbeated(h) == IF Cmd(h).op \in Heartbeats THEN {h} ELSE {}

Appending == {w \in Writers : call[w].pc # "idle"
                                /\ Cmd(w).op = "compare_and_append"}
Expired(h) ==
    Expirable \ (Heartbeated(h) \cup (IF LeaseOutlivesCall THEN Appending ELSE {}))

(* compute_next_state_locked found a new state: send it to Consensus.      *)
Proposes(h) ==
    /\ WorkRes(h).flow = "Continue"
    /\ ~IsTombstone(Cached(h)) \/ Cmd(h).op = "become_tombstone"
    /\ \E readers \in SUBSET (DOMAIN WorkRes(h).st.leased \cap Expired(h)),
          writers \in SUBSET (DOMAIN WorkRes(h).st.writers \cap Expired(h)) :
         call' = [call EXCEPT ![h] =
                    Call("sent", Cmd(h),
                         ExpireAt(WorkRes(h).st, readers, writers),
                         WorkRes(h).ret, call[h].indet)]
    /\ UNCHANGED <<handleVars, outcome>>

(* An assertion of the code fails: a panic in the work_fn, or a command    *)
(* other than become_tombstone that wants to change a tombstone.           *)
Panics(h) ==
    /\ \/ WorkRes(h).flow = "Panic"
       \/ /\ WorkRes(h).flow = "Continue"
          /\ IsTombstone(Cached(h)) /\ Cmd(h).op # "become_tombstone"
    /\ GoTo(h, "assert_failed")
    /\ UNCHANGED <<handleVars, outcome>>

-----------------------------------------------------------------------------
(* Returning from a call with value r, committed (Continue) or not.        *)

AppendOutcome(h, o) ==
    outcome' = [outcome EXCEPT ![Cmd(h).b.token] = o]

(* The Continue arm of compare_and_append_idempotent.                      *)
ReturnAppended(h) ==
    /\ Done(h)
    /\ AppendOutcome(h, "Success")
    /\ UNCHANGED handleVars

(* The Break arms of compare_and_append_idempotent.                        *)
ReturnAppendBreak(h, r) ==
    /\ UNCHANGED handleVars
    /\ \/ /\ r.err = "AlreadyCommitted" /\ call[h].indet
          /\ Done(h) /\ AppendOutcome(h, "Success")
       \/ /\ r.err = "AlreadyCommitted" /\ ~call[h].indet
          /\ GoTo(h, "assert_failed") /\ UNCHANGED outcome
       \/ /\ r.err = "InvalidUsage" /\ ~call[h].indet
          /\ Done(h) /\ AppendOutcome(h, "InvalidUsage")
       \/ /\ r.err = "InvalidUsage" /\ call[h].indet
          /\ GoTo(h, "assert_failed") /\ UNCHANGED outcome
       \/ /\ r.err = "InlineBackpressure"
          /\ Done(h) /\ AppendOutcome(h, "InlineBackpressure")
       \/ /\ r.err = "Upper" /\ ~(r.writer_upper <= r.shard_upper)
          /\ GoTo(h, "assert_failed") /\ UNCHANGED outcome
       \/ /\ r.err = "Upper" /\ r.writer_upper <= r.shard_upper
          /\ r.writer_upper < Cmd(h).b.upper \/ ~call[h].indet
          /\ call' = [call EXCEPT ![h] = Call("upper_mismatch", Cmd(h),
                                     Cached(h), NoRet, call[h].indet)]
          /\ UNCHANGED outcome
       \/ /\ r.err = "Upper" /\ r.writer_upper <= r.shard_upper
          /\ ~(r.writer_upper < Cmd(h).b.upper) /\ call[h].indet
          \* "cannot distinguish compare_and_append success or failure"
          /\ GoTo(h, "panicked") /\ AppendOutcome(h, "unknown")

ReturnRegisteredNoHold(h, r) ==  \* mutant: forgets the initial SeqNo hold
    /\ Done(h)
    /\ hstat' = [hstat EXCEPT ![h] = "live"]
    /\ hsince' = [hsince EXCEPT ![h] = r.since]
    /\ UNCHANGED <<hseqno, hopaque, outcome>>

ReturnRegistered(h, r) ==
    /\ Done(h)
    /\ hstat' = [hstat EXCEPT ![h] = "live"]
    /\ hsince' = [hsince EXCEPT ![h] = r.since]
    /\ hseqno' = [hseqno EXCEPT ![h] = r.seqno]
    /\ UNCHANGED <<hopaque, outcome>>

(* A since beyond the one held means that the lease had been lost.         *)
ReturnDowngraded(h, r) ==
    /\ Done(h)
    /\ hstat' = [hstat EXCEPT ![h] = IF hsince[h] < r THEN "gone" ELSE @]
    /\ UNCHANGED <<hsince, hseqno, hopaque, outcome>>

ReturnExpired(h) == Done(h) /\ UNCHANGED <<handleVars, outcome>>

(* The caller may want a later since than the one the handle came with.    *)
ReturnOpened(h, r) ==
    /\ Done(h)
    /\ hstat' = [hstat EXCEPT ![h] = "opening"]
    /\ \E s \in r.since .. Top : hsince' = [hsince EXCEPT ![h] = s]
    /\ hopaque' = [hopaque EXCEPT ![h] = r.opaque]
    /\ UNCHANGED <<hseqno, outcome>>

(* open_critical_handle tries again with the opaque it was shown, and      *)
(* keeps the since it computed; downgrade_sinces halts the process, or     *)
(* drops the handle when it has reached the empty since.                   *)
ReturnCompareAndDowngrade(h, r) ==
    /\ Done(h)
    /\ \/ /\ r.ok
          /\ hstat' = [hstat EXCEPT ![h] =
                         IF @ = "open" /\ r.since = Top THEN "gone" ELSE "open"]
          /\ hsince' = [hsince EXCEPT ![h] = r.since]
          /\ hopaque' = [hopaque EXCEPT ![h] = Cmd(h).new]
       \/ /\ ~r.ok /\ hstat[h] = "opening"
          /\ hopaque' = [hopaque EXCEPT ![h] = r.opaque]
          /\ UNCHANGED <<hstat, hsince>>
       \/ /\ ~r.ok /\ hstat[h] = "open"
          /\ hstat' = [hstat EXCEPT ![h] = "halted"]
          /\ hsince' = [hsince EXCEPT ![h] = r.since]
          /\ hopaque' = [hopaque EXCEPT ![h] = r.opaque]
    /\ UNCHANGED <<hseqno, outcome>>

(* become_tombstone steps until a step makes no more progress.             *)
ReturnTombstoneStepOnce(h, progress) ==  \* mutant: one step and no loop
    /\ Done(h)
    /\ hstat' = [hstat EXCEPT ![h] = "gone"]
    /\ UNCHANGED <<hsince, hseqno, hopaque, outcome>>

ReturnTombstoneStep(h, progress) ==
    /\ IF progress THEN Retry(h, call[h].indet) ELSE Done(h)
    /\ hstat' = [hstat EXCEPT ![h] = IF progress THEN @ ELSE "gone"]
    /\ UNCHANGED <<hsince, hseqno, hopaque, outcome>>

Returns(h, r, committed) ==
    \/ /\ Cmd(h).op = "compare_and_append" /\ committed
       /\ ReturnAppended(h)
    \/ /\ Cmd(h).op = "compare_and_append" /\ ~committed
       /\ ReturnAppendBreak(h, r)
    \/ /\ Cmd(h).op = "register_leased_reader"
       /\ ReturnRegistered(h, r)
    \/ /\ Cmd(h).op = "downgrade_since"
       /\ ReturnDowngraded(h, r)
    \/ /\ Cmd(h).op \in {"expire_writer", "expire_leased_reader"}
       /\ ReturnExpired(h)
    \/ /\ Cmd(h).op = "register_critical_reader"
       /\ ReturnOpened(h, r)
    \/ /\ Cmd(h).op = "compare_and_downgrade_since"
       /\ ReturnCompareAndDowngrade(h, r)
    \/ /\ Cmd(h).op = "become_tombstone"
       /\ ReturnTombstoneStep(h, committed)

(* apply_unbatched_cmd_locked up to the compare_and_set.  On a Break the   *)
(* result comes from the cached state alone (SkippedStateTransition).      *)
Attempt(h) ==
    /\ call[h].pc = "ready"
    /\ \/ Proposes(h)
       \/ WorkRes(h).flow = "Break" /\ Returns(h, WorkRes(h).ret, FALSE)
       \/ Panics(h)
    /\ UNCHANGED <<cur, cache, orphans, calls, errs, log>>

-----------------------------------------------------------------------------
(* Consensus: a compare_and_set succeeds on the expected SeqNo only.       *)

AcceptedStale(s) == s.seqno >= cur.seqno  \* mutant: expectation off by one
Accepted(s) == s.seqno = cur.seqno + 1

Commit(s, c) ==
    /\ cur' = s
    /\ log' = IF c.op = "compare_and_append" THEN Append(log, c.b) ELSE log

(* Requests that expect an older version can no longer do anything.        *)
Alive(os, s) == {o \in os : o.st.seqno > s.seqno}

CasCommit(h) ==
    /\ call[h].pc = "sent"
    /\ Accepted(call[h].st)
    /\ Commit(call[h].st, Cmd(h))
    /\ orphans' = Alive(orphans, call[h].st)
    /\ GoTo(h, "committed")
    /\ UNCHANGED <<cache, handleVars, calls, errs, outcome>>

CasMismatch(h) ==
    /\ call[h].pc = "sent"
    /\ ~Accepted(call[h].st)
    /\ GoTo(h, "mismatch")
    /\ UNCHANGED <<cur, cache, orphans, handleVars, calls, errs, log, outcome>>

OrphanCommit(o) ==
    /\ Accepted(o.st)
    /\ Commit(o.st, o.cmd)
    /\ orphans' = Alive(orphans, o.st)
    /\ UNCHANGED <<cache, call, handleVars, calls, errs, outcome>>

Orphaned(h) ==
    IF call[h].pc = "sent" /\ call[h].st.seqno > cur.seqno
    THEN orphans \cup {[st |-> call[h].st, cmd |-> Cmd(h)]}
    ELSE orphans

(* An Indeterminate error: the call is retried, the request may or may not *)
(* have been executed, and may still be.                                   *)
IndeterminateForgotten(h) ==  \* mutant: does not note the error
    /\ call[h].pc \in {"sent", "committed", "mismatch"}
    /\ errs < MaxErrs
    /\ errs' = errs + 1
    /\ orphans' = Orphaned(h)
    /\ Retry(h, FALSE)
    /\ UNCHANGED <<cur, cache, handleVars, calls, log, outcome>>

Indeterminate(h) ==
    /\ call[h].pc \in {"sent", "committed", "mismatch"}
    /\ errs < MaxErrs
    /\ errs' = errs + 1
    /\ orphans' = Orphaned(h)
    /\ Retry(h, TRUE)
    /\ UNCHANGED <<cur, cache, handleVars, calls, log, outcome>>

(* The caller drops the future of an append.                               *)
Cancel(w) ==
    /\ call[w].pc \notin {"idle", "panicked", "assert_failed"}
    /\ Cmd(w).op = "compare_and_append"
    /\ orphans' = Orphaned(w)
    /\ Done(w)
    /\ AppendOutcome(w, "unknown")
    /\ UNCHANGED <<cur, cache, handleVars, calls, errs, log>>

-----------------------------------------------------------------------------
(* Answers, and the ways a cached state catches up.                        *)

(* update_state and apply_encoded_diffs never move a cache backwards.      *)
NewerUnchecked(s, t) == t  \* mutant: no SeqNo comparison
Newer(s, t) == IF s.seqno < t.seqno THEN t ELSE s

(* fetch_and_update_state with a hint.                                     *)
Fetched(s, hint) == IF hint < s.seqno THEN s ELSE Newer(s, cur)

DeliverCommitted(h) ==
    /\ call[h].pc = "committed"
    /\ cache' = [cache EXCEPT ![ProcOf[h]] = Newer(@, call[h].st)]
    /\ Returns(h, call[h].ret, TRUE)
    /\ UNCHANGED <<cur, orphans, calls, errs, log>>

DeliverMismatchNoFetch(h) ==  \* mutant: retries on the same cached state
    /\ call[h].pc = "mismatch"
    /\ Retry(h, call[h].indet)
    /\ UNCHANGED <<cur, cache, orphans, handleVars, calls, errs, log, outcome>>
DeliverMismatchAsSuccess(h) ==  \* mutant: takes a lost race for a commit
    /\ call[h].pc = "mismatch"
    /\ cache' = [cache EXCEPT ![ProcOf[h]] = Fetched(@, call[h].st.seqno)]
    /\ Returns(h, call[h].ret, TRUE)
    /\ UNCHANGED <<cur, orphans, calls, errs, log>>

DeliverMismatch(h) ==
    /\ call[h].pc = "mismatch"
    /\ cache' = [cache EXCEPT ![ProcOf[h]] = Fetched(@, call[h].st.seqno)]
    /\ Retry(h, call[h].indet)
    /\ UNCHANGED <<cur, orphans, handleVars, calls, errs, log, outcome>>

(* Machine::compare_and_append: on a mismatch look at the latest state,    *)
(* and start over if the upper we were told about was an outdated one.     *)
RecheckUpper(w) ==
    /\ call[w].pc = "upper_mismatch"
    /\ cache' = [cache EXCEPT ![ProcOf[w]] = Fetched(@, call[w].st.seqno)]
    /\ IF cache'[ProcOf[w]].upper # Cmd(w).b.lower
       THEN Done(w) /\ AppendOutcome(w, "UpperMismatch")
       ELSE Retry(w, FALSE) /\ UNCHANGED outcome
    /\ UNCHANGED <<cur, orphans, handleVars, calls, errs, log>>

(* A diff pushed over PubSub, or a poll of wait_for_upper_past.            *)
Refresh(p) ==
    /\ cache[p].seqno < cur.seqno
    /\ cache' = [cache EXCEPT ![p] = cur]
    /\ UNCHANGED <<cur, orphans, call, handleVars, calls, errs, log,
                   outcome>>

-----------------------------------------------------------------------------
Begin ==
    \/ \E w \in Writers : BeginAppend(w) \/ BeginExpireWriter(w)
    \/ \E r \in LeasedReaders :
         BeginRegister(r) \/ BeginDowngrade(r) \/ BeginExpireReader(r)
    \/ \E h \in SinceHandles :
         BeginOpenCritical(h) \/ BeginDowngradeCritical(h)
    \/ \E h \in Finalizers : BeginFinalize(h)

(* What a call in progress does by itself: the code awaits each of these.  *)
Step(h) ==
    \/ Attempt(h) \/ CasCommit(h) \/ CasMismatch(h)
    \/ DeliverCommitted(h) \/ DeliverMismatch(h)

Next ==
    \/ Begin
    \/ \E h \in Handles : Step(h) \/ Indeterminate(h)
    \/ \E w \in Writers : RecheckUpper(w) \/ Cancel(w)
    \/ \E h \in SinceHandles : BeginFence(h) \/ Fenced(h)
    \/ \E o \in orphans : OrphanCommit(o)
    \/ \E p \in Procs : Refresh(p)

Spec == Init /\ [][Next]_vars

(* Requests are answered or time out, futures are polled, retry loops have *)
(* no bound: every step of a call in progress is weakly fair, and so is    *)
(* the loop of open_critical_handle around its calls.                      *)
Fairness ==
    /\ \A h \in Handles : WF_vars(Step(h))
    /\ \A w \in Writers : WF_vars(RecheckUpper(w))
    /\ \A h \in SinceHandles : WF_vars(BeginFence(h) \/ Fenced(h))

FairSpec == Spec /\ Fairness

-----------------------------------------------------------------------------
(* Types.                                                                  *)

PCs == {"idle", "ready", "sent", "committed", "mismatch", "upper_mismatch",
        "panicked", "assert_failed"}
Outcomes == {"none", "pending", "Success", "UpperMismatch", "InvalidUsage",
             "InlineBackpressure", "unknown"}
Commands ==
    [op : {"compare_and_append"}, b : HollowBatch]
      \cup [op : {"register_leased_reader"}, critical : BOOLEAN]
      \cup [op : {"downgrade_since"}, since : Frontier, out : Nat]
      \cup [op : {"compare_and_downgrade_since"}, expected : Nat, new : Nat,
            since : Frontier]
      \cup [op : {"none", "expire_writer", "expire_leased_reader",
                  "register_critical_reader", "become_tombstone"}]

IsCall(k) ==
    /\ k = Call(k.pc, k.cmd, k.st, k.ret, k.indet)
    /\ k.pc \in PCs
    /\ k.cmd \in Commands
    /\ IsShardState(k.st)
    /\ k.indet \in BOOLEAN

(* Type correctness of the shard, its caches and the handles (state.rs     *)
(* StateCollections, apply.rs Applier, machine.rs Machine).                *)
TypeOK ==
    /\ IsShardState(cur)
    /\ DOMAIN cache = Procs /\ \A p \in Procs : IsShardState(cache[p])
    /\ \A o \in orphans : /\ o = [st |-> o.st, cmd |-> o.cmd]
                         /\ IsShardState(o.st)
                         /\ o.cmd \in Commands
    /\ DOMAIN call = Handles /\ \A h \in Handles : IsCall(call[h])
    /\ hstat \in [Handles -> {"none", "live", "opening", "open", "halted",
                              "gone"}]
    /\ hsince \in [LeasedReaders \cup SinceHandles -> Frontier]
    /\ hseqno \in [LeasedReaders -> Nat]
    /\ hopaque \in [SinceHandles -> Nat]
    /\ calls \in 0 .. MaxCalls
    /\ errs \in 0 .. MaxErrs
    /\ log \in Seq(HollowBatch)
    /\ outcome \in [1 .. MaxCalls -> Outcomes]

-----------------------------------------------------------------------------
(* Safety.                                                                 *)

(* The versions that were committed and that some process still works on.  *)
Known == {cur} \cup {cache[p] : p \in Procs}
               \cup {call[h].st : h \in {g \in Handles :
                                           call[g].pc = "committed"}}

(* All processes see one history of the shard: of two versions in use      *)
(* anywhere, the one with the later SeqNo has the later frontiers, two     *)
(* with the same SeqNo are the same state, and none is ahead of Consensus  *)
(* (apply.rs update_state, fetch_and_update_state).                        *)
OneHistory ==
    \A s, t \in Known : /\ s.seqno <= cur.seqno
                        /\ s.seqno <= t.seqno => Forward(s, t)
                        /\ s.seqno = t.seqno => s = t

Logged == {log[i].token : i \in DOMAIN log}

(* The committed batches tile [0, upper) without gap or overlap and no     *)
(* append call commits twice, whatever is retried, lost or cancelled       *)
(* (state.rs compare_and_append, machine.rs compare_and_append).           *)
AppendExactlyOnce ==
    /\ \A i \in DOMAIN log :
         /\ log[i].lower = IF i = 1 THEN 0 ELSE log[i - 1].upper
         /\ log[i].lower <= log[i].upper
    /\ cur.upper = IF log = <<>> THEN 0 ELSE log[Len(log)].upper
    /\ \A i, j \in DOMAIN log :
         log[i].token = log[j].token /\ log[i].lower # log[i].upper => i = j

(* What compare_and_append tells its caller is true for good: Success only *)
(* if the batch is in the log, and a rejected batch is not in it, nor ever *)
(* gets there by a request still in flight.  WriteHandle deletes the blobs *)
(* of a rejected batch (write.rs), so a false rejection loses data.        *)
Rejections == {"UpperMismatch", "InvalidUsage", "InlineBackpressure"}
AnswersAreTrue ==
    \A t \in 1 .. calls :
      /\ outcome[t] \in Rejections => t \notin Logged
      /\ outcome[t] = "Success" => t \in Logged

(* Readers see one history: any time a process serves from its cache,      *)
(* stale or not, shows exactly the batches of the log up to that time      *)
(* (state.rs snapshot).                                                    *)
Batches == {log[i] : i \in {j \in DOMAIN log : log[j].lower # log[j].upper}}
SnapshotsAgree ==
    \A p \in Procs, t \in 0 .. Top - 1 :
      LET snap == Snapshot(cache[p], t) IN
      "ok" \in DOMAIN snap =>
        snap.ok = {b \in Batches : b.lower <= t}

(* The committed since is held back by every registered reader             *)
(* (state.rs update_since), whatever version, current or not, the          *)
(* registrations and downgrades that race with it were evaluated on.       *)
SinceHeldBack == HoldsBack(cur)

(* A read handle whose lease is in the current state has a since that is   *)
(* readable, and a SeqNo hold not below the shard's: "This will always be  *)
(* greater or equal to the shard-global since" (read.rs ReadHandle::since).*)
LiveHandlesReadable ==
    \A r \in LeasedReaders :
      hstat[r] = "live" /\ r \in DOMAIN cur.leased =>
        /\ cur.leased[r].since <= hsince[r]
        /\ cur.since <= hsince[r]
        /\ SeqnoSince(cur) <= hseqno[r]

(* No assert! on the command path fails, and no command tries to change a  *)
(* tombstone: apply.rs compute_next_state_locked, state.rs                 *)
(* compare_and_append, downgrade_since, critical_reader, machine.rs        *)
(* compare_and_append_idempotent.                                          *)
NoAssertFails == \A h \in Handles : call[h].pc # "assert_failed"

(* Frontiers, SeqNos and the SeqNo hold never regress, neither in the      *)
(* committed versions nor in what one process sees (state.rs: "doesn't     *)
(* regress across state versions").                                        *)
NothingRegresses ==
    [][/\ Forward(cur, cur')
       /\ \A p \in Procs : Forward(cache[p], cache'[p])]_vars

(* Epoch fencing: the epoch stored with a critical reader never goes back, *)
(* and its since is moved only by the owner of the epoch then stored       *)
(* (state.rs compare_and_downgrade_since, storage_collections.rs           *)
(* open_critical_handle): no fenced process can compact what a newer one   *)
(* still holds.                                                            *)
EpochsFence ==
    [][\A c \in DOMAIN cur.critical \cap DOMAIN cur'.critical :
         /\ cur.critical[c].opaque <= cur'.critical[c].opaque
         /\ cur.critical[c].since # cur'.critical[c].since =>
              \E h \in SinceHandles :
                /\ CriticalIdOf[h] = c
                /\ EpochOf[h] = cur'.critical[c].opaque
                /\ hstat[h] \in {"opening", "open"}]_vars

(* A tombstone is final: nobody registers, appends or reads again          *)
(* (state.rs is_tombstone and the guard of every command).                 *)
TombstoneIsFinal == [][IsTombstone(cur) => IsTombstone(cur')]_vars

(* When finalize_shard has returned the shard is finalized in its current  *)
(* state, although the step that ended its loop looked at a cached one     *)
(* (machine.rs become_tombstone, apply.rs is_finalized).                   *)
FinalizedForGood ==
    \A h \in Finalizers : hstat[h] = "gone" => IsFinalized(cur)

(* Every call returns, in spite of lost answers and lost races, unless its *)
(* process panics because it cannot tell what happened (machine.rs).       *)
CallsReturn ==
    \A h \in Handles : call[h].pc # "idle" ~> call[h].pc \in {"idle", "panicked"}

-----------------------------------------------------------------------------
(* Taking over a critical reader ends, with the reader or with the halt of *)
(* a process that a newer one has fenced, however many processes fight for *)
(* it and whatever answers are lost (storage_collections.rs                *)
(* open_critical_handle loops without a bound).                            *)
TakeoversEnd ==
    \A h \in SinceHandles :
      hstat[h] = "opening" ~> hstat[h] \in {"open", "halted"}

-----------------------------------------------------------------------------
(* The inductive invariant behind the safety properties.                   *)

(* A command belongs to a handle of its kind, and what it returns has the  *)
(* shape its caller expects.                                               *)
HandleFits(h, c) ==
    /\ c.op \in {"compare_and_append", "expire_writer"} => h \in Writers
    /\ c.op \in {"register_leased_reader", "downgrade_since",
                 "expire_leased_reader"} => h \in LeasedReaders
    /\ c.op \in {"register_critical_reader", "compare_and_downgrade_since"}
         => h \in SinceHandles
    /\ c.op = "become_tombstone" => h \in Finalizers
RetFits(c, r) ==
    /\ c.op = "register_leased_reader" => r \in LeasedReaderState
    /\ c.op = "register_critical_reader" => r \in CriticalReaderState
    /\ c.op = "compare_and_downgrade_since" =>
         /\ r.ok \in BOOLEAN
         /\ r.since \in Frontier
         /\ ~r.ok => r.opaque \in Nat

(* A proposal that Consensus can still accept was made from the current    *)
(* version.                                                                *)
ProposalOK(t) ==
    /\ VersionOK(t)
    /\ t.seqno <= cur.seqno + 1
    /\ t.seqno = cur.seqno + 1 => Succeeds(cur, t)

Inv ==
    /\ TypeOK
    /\ OneHistory
    /\ \A s \in Known : VersionOK(s)
    /\ \A h \in Handles :
         /\ HandleFits(h, call[h].cmd)
         /\ call[h].pc # "idle" => call[h].cmd.op # "none"
         /\ call[h].pc \in {"sent", "committed"} =>
              RetFits(call[h].cmd, call[h].ret)
         /\ call[h].pc = "sent" => ProposalOK(call[h].st)
    /\ \A o \in orphans : ProposalOK(o.st)

-----------------------------------------------------------------------------
(* The shard implements its abstract specification: with the committed     *)
(* state as the shard's state, every step of the command loop is one step  *)
(* of ShardLog or none (machine.rs compare_and_append is linearizable).    *)
AppendBatches == {BatchOf(t, i, x) :
                    t \in 1 .. MaxCalls, i \in AppendInputs, x \in BOOLEAN}
Abstract == INSTANCE ShardLog WITH
    Calls <- 1 .. MaxCalls,
    Frontiers <- Frontier,
    Batches <- AppendBatches,
    since <- cur.since
ImplementsShardLog == Abstract!Spec
=============================================================================
