---------------------------- MODULE TxnWalProofs ----------------------------
(***************************************************************************)
(* Proofs about TxnWal, for any number of data shards, handles and readers *)
(* and any bound on time.                                                  *)
(*                                                                         *)
(* What a process knows of the txns shard is a prefix of it, and whatever  *)
(* is written to it later has a time at or past its upper.  So what holds  *)
(* of all entries before a time that a handle or a reader has read to goes *)
(* on to hold (Grow and the lemmas that use it), and each part of the      *)
(* invariant says which of these entries are applied to their data shards, *)
(* or are still in the way: left to do for a handle, waited for by a       *)
(* reader.                                                                 *)
(***************************************************************************)
EXTENDS TxnWal, TLAPS

Applied(x) == x.ts < dataUpper[x.data]

Entries == appends \cup registers

(* Every entry of the txns shard is before its upper.                      *)
LogInv ==
    /\ \A x \in Entries : x.ts < upper
    /\ \A r \in retractions : r.at < upper

(* What a handle has seen applied, and takes for applied, is applied.      *)
MarkInv(h) ==
    /\ \A b \in tidy[h] : b \in appends /\ Applied(b)
    /\ \A e \in registers : e.ts < marked[h] => Applied(e)

(* apply_le has applied the entries up to its time, or has them to do.     *)
ApplyInv(h) ==
    /\ op[h].applyTo < op[h].progress
    /\ \A x \in Entries : x.ts <= op[h].applyTo =>
                            Applied(x) \/ x.ts \in op[h].todo[x.data]
    /\ \A d \in Datas : \A t \in op[h].todo[d] : t <= op[h].applyTo

(* Writes to the shards of an operation that its cache knows of.           *)
Seen(h) == {b \in appends : b.data \in op[h].datas /\ b.ts < op[h].progress}

(* commit_at writes to registered shards, forget comes after the writes    *)
(* to its shards, and compact_to after everything up to its time.          *)
OpInv(h) ==
    /\ op[h].pc \in {"committed", "after", "compact"} => op[h].ts < upper
    /\ op[h].pc \in {"before", "after"} => ApplyInv(h)
    /\ op[h].pc = "after" => op[h].applyTo = op[h].ts
    /\ op[h].pc \in {"before", "caa"} => op[h].progress <= op[h].ts
    /\ op[h].pc = "before" =>
         /\ op[h].kind = "forget"
         /\ \A b \in Seen(h) : Applied(b) \/ b.ts <= op[h].applyTo
    /\ op[h].pc = "caa" /\ op[h].kind = "commit" =>
         \A d \in op[h].datas : RegisteredAtProgress(d, op[h].progress)
    /\ op[h].pc = "caa" /\ op[h].kind = "forget" =>
         \A b \in Seen(h) : Applied(b)
    /\ op[h].pc = "compact" =>
         \A x \in Entries : x.ts <= op[h].ts => Applied(x)

(* The latest write that a reader waits for is the last unapplied one of   *)
(* those it would fill up.                                                 *)
ReadInv(r) ==
    read[r] # NoRead =>
      /\ read[r].data \in Datas
      /\ read[r].asOf < read[r].emptyTo
      /\ \A b \in appends :
           b.data = read[r].data /\ b.ts < read[r].emptyTo =>
             Applied(b) \/ b.ts <= read[r].latestWrite

Inv ==
    /\ TypeOK
    /\ LogInv
    /\ LogIsWellFormed
    /\ DataIsDefinite
    /\ ForgottenIsApplied
    /\ SinceBehindUnapplied
    /\ \A h \in Handles : MarkInv(h) /\ OpInv(h)
    /\ \A r \in Readers : ReadInv(r)

-----------------------------------------------------------------------------
(* Types, as the provers need them.                                        *)
Numbers ==
    /\ upper \in Int /\ since \in Int /\ since < upper /\ 0 <= since
    /\ \A x \in Entries : x.data \in Datas /\ x.ts \in Int /\ 0 <= x.ts
    /\ \A r \in retractions : r.data \in Datas /\ r.ts \in Int /\ r.at \in Int
    /\ \A d \in Datas : dataUpper[d] \in Int /\ dataUpper[d] <= upper
    /\ \A h \in Handles :
         /\ marked[h] \in Int /\ marked[h] <= upper
         /\ op[h].ts \in Int /\ op[h].applyTo \in Int
         /\ op[h].progress \in Int /\ op[h].progress <= upper
         /\ op[h].datas \subseteq Datas
         /\ \A d \in Datas : \A t \in op[h].todo[d] : t \in Int /\ 0 <= t
    /\ \A r \in Readers :
         /\ read[r].asOf \in Int /\ read[r].latestWrite \in Int
         /\ read[r].emptyTo \in Int /\ read[r].emptyTo <= upper

(* The operation of a handle, when the upper is u.                         *)
OpType(u) ==
    [pc : {"closed", "idle", "retry", "before", "caa", "committed",
           "after", "compact"},
     kind : {"none", "commit", "register", "forget"}, ts : Times,
     datas : SUBSET Datas, progress : 0 .. u, applyTo : Times,
     todo : [Datas -> SUBSET Times]]

(* The type invariant gives these types.                                   *)
LEMMA Typed == TypeOK => Numbers
  BY TxnAssumption
  DEF TypeOK, Numbers, Entries, Register, Append, Retraction, Times, None

(* The same after a step.                                                  *)
LEMMA TypedNext == TypeOK' => Numbers'
  BY TxnAssumption
  DEF TypeOK, Numbers, Entries, Register, Append, Retraction, Times, None

(* A retracted write has been applied.                                     *)
LEMMA RetractedIsApplied ==
    ASSUME Inv, NEW b \in appends, NEW n, RetractedBy(b, n)
    PROVE  Applied(b)
  BY DEF Inv, LogIsWellFormed, RetractedBy, Applied

(* What apply_le has to do are all entries up to its time that are not     *)
(* applied yet, and no others.                                             *)
LEMMA UnappliedIsAll ==
    ASSUME Inv, NEW h \in Handles, NEW ts \in Times
    PROVE  /\ \A x \in Entries : x.ts <= ts =>
                Applied(x) \/ x.ts \in Unapplied(h, upper, ts)[x.data]
           /\ Unapplied(h, upper, ts) \in [Datas -> SUBSET (0 .. ts)]
<1>. DEFINE unapplied == UnappliedRegisters(h, upper) \cup
                           UnappliedBatches(upper)
<1>1. Unapplied(h, upper, ts) =
        [d \in Datas |-> {t \in 0 .. ts : \E x \in unapplied :
                                           x.data = d /\ x.ts = t}]
  BY DEF Unapplied
<1>2. Numbers
  BY Typed DEF Inv
<1>3. ASSUME NEW x \in Entries PROVE Applied(x) \/ x \in unapplied
  <2>1. x.ts < upper
    BY DEF Inv, LogInv
  <2>2. CASE x \in appends
    BY <2>1, <2>2, RetractedIsApplied DEF UnappliedBatches
  <2>3. CASE x \in registers
    BY <2>1, <2>3, <1>2
    DEF UnappliedRegisters, Inv, MarkInv, Numbers, Entries
  <2>. QED
    BY <2>2, <2>3 DEF Entries
<1>4. ASSUME NEW x \in Entries, x.ts <= ts, ~Applied(x)
      PROVE  x.ts \in Unapplied(h, upper, ts)[x.data]
  <2>1. x.data \in Datas /\ x.ts \in 0 .. ts
    BY <1>2, <1>4, TxnAssumption DEF Numbers, Times
  <2>. QED
    BY <2>1, <1>1, <1>3, <1>4
<1>. HIDE DEF unapplied
<1>. QED
  BY <1>1, <1>4

-----------------------------------------------------------------------------
(* What every step does to the shards: what it adds to the txns shard is   *)
(* at or past the upper.                                                   *)
Grow ==
    /\ upper <= upper'
    /\ \A d \in Datas : dataUpper[d] <= dataUpper'[d]
    /\ appends \subseteq appends' /\ registers \subseteq registers'
    /\ \A x \in appends' : x \in appends \/ upper <= x.ts
    /\ \A x \in registers' : x \in registers \/ upper <= x.ts

(* An applied entry stays applied.                                         *)
LEMMA AppliedStable ==
    ASSUME TypeOK, TypeOK', Grow, NEW x \in Entries, Applied(x)
    PROVE  Applied(x)'
<1>1. Numbers /\ Numbers'
  BY Typed, TypedNext
<1>. QED
  BY <1>1 DEF Grow, Applied, Numbers

(* Whether a data shard is registered at a time before the upper does not  *)
(* change any more.                                                        *)
LEMMA RegisteredStable ==
    ASSUME TypeOK, TypeOK', Grow
    PROVE  \A d \in Datas : \A n \in Int : n <= upper =>
             (RegisteredAtProgress(d, n)' <=> RegisteredAtProgress(d, n))
<1>1. Numbers /\ Numbers'
  BY Typed, TypedNext
<1>2. \A e \in registers : e \in registers' /\ e.ts \in Int
  BY <1>1 DEF Grow, Numbers, Entries
<1>3. \A e \in registers' : e.ts \in Int /\ (e \in registers \/ upper <= e.ts)
  BY <1>1 DEF Grow, Numbers, Entries
<1>. QED
  BY <1>1, <1>2, <1>3 DEF RegisteredAtProgress, Numbers

(* A handle that takes no step keeps its part of the invariant.            *)
LEMMA HandleFrame ==
    ASSUME Inv, TypeOK', Grow, NEW k \in Handles, op'[k] = op[k],
           marked'[k] = marked[k], tidy'[k] = tidy[k]
    PROVE  MarkInv(k)' /\ OpInv(k)'
<1>1. Numbers /\ Numbers'
  BY Typed, TypedNext DEF Inv
<1>2. \A x \in Entries : Applied(x) => Applied(x)'
  BY AppliedStable DEF Inv
<1>3. \A x \in Entries' : x \in Entries \/ upper <= x.ts
  BY DEF Grow, Entries
<1>4. MarkInv(k) /\ OpInv(k)
  BY DEF Inv
<1>5. MarkInv(k)'
  <2>1. \A b \in tidy'[k] : b \in appends' /\ Applied(b)'
    BY <1>2, <1>4 DEF MarkInv, Grow, Entries
  <2>2. \A e \in registers' : e.ts < marked'[k] => Applied(e)'
    BY <1>1, <1>2, <1>4 DEF MarkInv, Grow, Entries, Numbers
  <2>. QED
    BY <2>1, <2>2 DEF MarkInv
<1>6. op[k].pc \in {"before", "after"} => ApplyInv(k)'
  <2>. SUFFICES ASSUME op[k].pc \in {"before", "after"} PROVE ApplyInv(k)'
    OBVIOUS
  <2>1. ApplyInv(k)
    BY <1>4 DEF OpInv
  <2>2. \A x \in Entries' : x.ts <= op'[k].applyTo =>
                             Applied(x)' \/ x.ts \in op'[k].todo[x.data]
    BY <2>1, <1>1, <1>2, <1>3 DEF ApplyInv, Numbers
  <2>. QED
    BY <2>1, <2>2 DEF ApplyInv
<1>7. \A b \in Seen(k)' : b \in Seen(k) /\ b \in Entries
  BY <1>1 DEF Seen, Grow, Numbers, Entries
<1>8. op[k].pc = "caa" /\ op[k].kind = "commit" =>
        \A d \in op'[k].datas : RegisteredAtProgress(d, op[k].progress)'
  BY <1>1, <1>4, RegisteredStable
  DEF OpInv, Numbers, Inv, RegisteredAtProgress
<1>9. op[k].pc = "compact" =>
        \A x \in Entries' : x.ts <= op'[k].ts => Applied(x)'
  BY <1>1, <1>2, <1>3, <1>4 DEF OpInv, Numbers
<1>10. op[k].pc \in {"committed", "after", "compact"} => op[k].ts < upper'
  BY <1>1, <1>4 DEF OpInv, Grow, Numbers
<1>. QED
  BY <1>2, <1>4, <1>5, <1>6, <1>7, <1>8, <1>9, <1>10
  DEF OpInv, RegisteredAtProgress

(* A reader that takes no step keeps its part of the invariant.            *)
LEMMA ReadFrame ==
    ASSUME Inv, TypeOK', Grow, NEW r \in Readers, read'[r] = read[r]
    PROVE  ReadInv(r)'
<1>1. Numbers /\ Numbers'
  BY Typed, TypedNext DEF Inv
<1>2. \A x \in Entries : Applied(x) => Applied(x)'
  BY AppliedStable DEF Inv
<1>3. ReadInv(r)
  BY DEF Inv
<1>4. SUFFICES ASSUME read[r] # NoRead, NEW b \in appends',
                      b.data = read[r].data, b.ts < read[r].emptyTo
               PROVE  Applied(b)' \/ b.ts <= read[r].latestWrite
  BY <1>3 DEF ReadInv
<1>5. b \in appends
  BY <1>1, <1>4 DEF Grow, Numbers, Entries
<1>. QED
  BY <1>2, <1>3, <1>4, <1>5 DEF ReadInv, Entries

(* The since stays behind what is unapplied unless it is moved.            *)
LEMMA SinceFrame ==
    ASSUME Inv, TypeOK', Grow, since' = since
    PROVE  SinceBehindUnapplied'
<1>1. Numbers /\ Numbers'
  BY Typed, TypedNext DEF Inv
<1>2. \A x \in Entries : Applied(x) => Applied(x)'
  BY AppliedStable DEF Inv
<1>. QED
  BY <1>1, <1>2
  DEF Inv, SinceBehindUnapplied, Grow, Numbers, Entries, Applied

(* A step that does not write to the txns shard keeps it well formed.      *)
LEMMA LogFrame ==
    ASSUME Inv, TypeOK', Grow,
           UNCHANGED <<upper, registers, appends, retractions>>
    PROVE  LogInv' /\ LogIsWellFormed' /\ ForgottenIsApplied'
<1>1. Numbers /\ Numbers'
  BY Typed, TypedNext DEF Inv
<1>2. LogInv'
  BY DEF Inv, LogInv, Entries
<1>3. ASSUME NEW r \in retractions PROVE r.ts < dataUpper'[r.data]
  <2>1. r.ts < dataUpper[r.data]
    BY DEF Inv, LogIsWellFormed
  <2>2. /\ r.data \in Datas /\ r.ts \in Int
        /\ dataUpper[r.data] \in Int /\ dataUpper'[r.data] \in Int
    BY <1>1 DEF Numbers
  <2>3. dataUpper[r.data] <= dataUpper'[r.data]
    BY <2>2 DEF Grow
  <2>. QED
    BY <2>1, <2>2, <2>3
<1>4. LogIsWellFormed'
  <2>1. \A r \in retractions' :
         /\ [data |-> r.data, ts |-> r.ts] \in appends'
         /\ r.ts < r.at
         /\ r.ts < dataUpper'[r.data]
         /\ \A q \in retractions' : q.data = r.data /\ q.ts = r.ts => q = r
    BY <1>3 DEF Inv, LogIsWellFormed
  <2>2. \A e \in registers' :
          RegisteredAtProgress(e.data, e.ts)' <=> e.diff = -1
    BY DEF Inv, LogIsWellFormed, RegisteredAtProgress
  <2>3. \A b \in appends' : RegisteredAtProgress(b.data, b.ts)'
    BY DEF Inv, LogIsWellFormed, RegisteredAtProgress
  <2>. QED
    BY <2>1, <2>2, <2>3 DEF LogIsWellFormed
<1>5. ForgottenIsApplied'
  <2>1. \A b \in appends : Applied(b) => Applied(b)'
    BY AppliedStable DEF Inv, Entries
  <2>. QED
    BY <2>1 DEF Inv, ForgottenIsApplied, RegisteredAtProgress, Applied
<1>. QED
  BY <1>2, <1>4, <1>5

(* A step of a handle that touches no shard.                               *)
LEMMA QuietStep ==
    ASSUME Inv, NEW h \in Handles, TypeOK', UNCHANGED <<txnsVars, dataVars>>,
           \A k \in Handles \ {h} : /\ op'[k] = op[k]
                                    /\ marked'[k] = marked[k]
                                    /\ tidy'[k] = tidy[k],
           UNCHANGED read, MarkInv(h)', OpInv(h)'
    PROVE  Inv'
<1>1. Numbers
  BY Typed DEF Inv
<1>2. Grow
  BY <1>1 DEF Grow, txnsVars, dataVars, Numbers
<1>3. DataIsDefinite'
  BY DEF Inv, DataIsDefinite, txnsVars, dataVars
<1>4. \A k \in Handles : MarkInv(k)' /\ OpInv(k)'
  BY <1>2, HandleFrame
<1>5. \A r \in Readers : ReadInv(r)'
  BY <1>2, ReadFrame
<1>6. LogInv' /\ LogIsWellFormed' /\ ForgottenIsApplied' /\ SinceBehindUnapplied'
  BY <1>2, LogFrame, SinceFrame DEF txnsVars
<1>. QED
  BY <1>3, <1>4, <1>5, <1>6 DEF Inv

-----------------------------------------------------------------------------
(* The steps of a handle that touch no shard.                              *)

(* TxnsHandle::open: the cache takes what is before the since for applied. *)
LEMMA OpenHandlePreserves ==
    ASSUME Inv, NEW h \in Handles, OpenHandle(h) PROVE Inv'
<1>1. TypeOK'
  BY TxnAssumption
  DEF Inv, TypeOK, OpenHandle, Idle, Op, Times, txnsVars, dataVars
<1>2. op'[h] = Idle /\ marked'[h] = since /\ tidy'[h] = tidy[h]
  BY DEF Inv, TypeOK, OpenHandle
<1>3. MarkInv(h)'
  BY <1>2
  DEF Inv, MarkInv, SinceBehindUnapplied, OpenHandle, Applied, txnsVars,
      dataVars
<1>4. OpInv(h)'
  BY <1>2 DEF OpInv, Idle, Op
<1>. QED
  BY <1>1, <1>3, <1>4, QuietStep DEF OpenHandle, Inv, TypeOK

(* A crash, or a panic of commit_at.                                       *)
LEMMA ClosePreserves ==
    ASSUME Inv, NEW h \in Handles, Close(h) PROVE Inv'
<1>1. TypeOK'
  BY TxnAssumption
  DEF Inv, TypeOK, Close, Closed, Op, Times, txnsVars, dataVars
<1>2. op'[h] = Closed /\ marked'[h] = 0 /\ tidy'[h] = {}
  BY DEF Inv, TypeOK, Close
<1>3. MarkInv(h)'
  BY <1>1, <1>2, TypedNext DEF MarkInv, Numbers, Entries
<1>4. OpInv(h)'
  BY <1>2 DEF OpInv, Closed, Op
<1>. QED
  BY <1>1, <1>3, <1>4, QuietStep DEF Close, Inv, TypeOK

(* The operation gives up, or starts again.                                *)
LEMMA GiveUpPreserves ==
    ASSUME Inv, NEW h \in Handles, TooLate(h) \/ CaaMismatch(h) PROVE Inv'
<1>1. /\ \A k \in Handles \ {h} : op'[k] = op[k]
      /\ op'[h].pc \in {"idle", "retry"}
      /\ UNCHANGED <<txnsVars, dataVars, marked, writes, tidy, read>>
  BY DEF Inv, TypeOK, TooLate, CaaMismatch, Idle, Op
<1>2. TypeOK'
  <2>1. op'[h] \in OpType(upper)
    <3>1. CASE TooLate(h)
      <4>1. op'[h] = Idle
        BY <3>1 DEF TooLate, Inv, TypeOK
      <4>. QED
        BY <4>1, TxnAssumption DEF Idle, Op, OpType, Times, Inv, TypeOK
    <3>2. CASE CaaMismatch(h)
      <4>1. op'[h] = Op("retry", op[h].kind, op[h].ts, op[h].datas, 0)
        BY <3>2 DEF CaaMismatch, Inv, TypeOK
      <4>. QED
        BY <4>1, TxnAssumption DEF Op, OpType, Times, Inv, TypeOK
    <3>. QED
      BY <3>1, <3>2
  <2>2. op' = [op EXCEPT ![h] = op'[h]]
    BY DEF Inv, TypeOK, TooLate, CaaMismatch
  <2>3. op' \in [Handles -> OpType(upper)]
    BY <2>1, <2>2 DEF Inv, TypeOK, OpType
  <2>. QED
    BY <1>1, <2>3 DEF Inv, TypeOK, OpType, txnsVars, dataVars
<1>3. MarkInv(h)'
  BY <1>1 DEF Inv, MarkInv, Applied, txnsVars, dataVars
<1>4. OpInv(h)'
  BY <1>1 DEF OpInv
<1>. QED
  BY <1>1, <1>2, <1>3, <1>4, QuietStep DEF Inv, TypeOK

(* The cache has read to the upper, and the shards of a commit are         *)
(* registered there.                                                       *)
LEMMA PreparePreserves ==
    ASSUME Inv, NEW h \in Handles, NEW kind \in {"commit", "register"},
           NEW ts \in Times, NEW datas \in SUBSET Datas,
           Prepare(h, kind, ts, datas)
    PROVE  Inv'
<1>1. op' = [op EXCEPT ![h] = Op("caa", kind, ts, datas, upper)]
  BY DEF Prepare
<1>2. /\ op'[h].pc = "caa" /\ op'[h].kind = kind /\ op'[h].ts = ts
      /\ op'[h].datas = datas /\ op'[h].progress = upper
  BY <1>1 DEF Inv, TypeOK, Op
<1>3. TypeOK'
  BY <1>1, TxnAssumption
  DEF Inv, TypeOK, Prepare, Op, Times, txnsVars, dataVars
<1>4. MarkInv(h)'
  BY DEF Inv, MarkInv, Applied, Prepare, txnsVars, dataVars
<1>5. OpInv(h)'
  BY <1>2 DEF OpInv, Prepare, RegisteredAtProgress, txnsVars
<1>. QED
  BY <1>1, <1>3, <1>4, <1>5, QuietStep DEF Prepare, Inv, TypeOK

(* forget applies the writes to its shards, up to the latest, if there are *)
(* any; those it does not apply are retracted, and so applied.             *)
LEMMA PrepareForgetPreserves ==
    ASSUME Inv, NEW h \in Handles, NEW ts \in Times, NEW datas \in SUBSET Datas,
           PrepareForget(h, ts, datas)
    PROVE  Inv'
<1>. DEFINE mine == {b \in UnappliedBatches(upper) : b.data \in datas}
            caa == Op("caa", "forget", ts, datas, upper)
<1>1. /\ upper <= ts
      /\ UNCHANGED <<txnsVars, dataVars, marked, writes, tidy, read>>
  BY DEF PrepareForget
<1>2. Numbers
  BY Typed DEF Inv
<1>3. \A b \in appends : b.data \in datas /\ b.ts < upper =>
        Applied(b) \/ b \in mine
  BY RetractedIsApplied DEF UnappliedBatches
<1>4. MarkInv(h)'
  BY <1>1 DEF Inv, MarkInv, Applied, txnsVars, dataVars
<1>5. CASE mine = {} /\ op' = [op EXCEPT ![h] = caa]
  <2>1. /\ op'[h].pc = "caa" /\ op'[h].kind = "forget" /\ op'[h].ts = ts
        /\ op'[h].datas = datas /\ op'[h].progress = upper
    BY <1>5 DEF Inv, TypeOK, Op
  <2>2. TypeOK'
    BY <1>1, <1>5, TxnAssumption DEF Inv, TypeOK, Op, Times, txnsVars, dataVars
  <2>3. \A b \in Seen(h)' : Applied(b)'
    BY <1>1, <1>3, <1>5, <2>1 DEF Seen, Applied, txnsVars, dataVars
  <2>4. OpInv(h)'
    BY <1>1, <2>1, <2>3 DEF OpInv, txnsVars
  <2>. QED
    BY <1>1, <1>4, <1>5, <2>2, <2>4, QuietStep DEF Inv, TypeOK
<1>6. CASE \E latest \in mine :
             /\ \A b \in mine : b.ts <= latest.ts
             /\ op' = [op EXCEPT ![h] =
                  [caa EXCEPT !.pc = "before", !.applyTo = latest.ts,
                              !.todo = Unapplied(h, upper, latest.ts)]]
  <2>1. PICK latest \in mine :
             /\ \A b \in mine : b.ts <= latest.ts
             /\ op' = [op EXCEPT ![h] =
                  [caa EXCEPT !.pc = "before", !.applyTo = latest.ts,
                              !.todo = Unapplied(h, upper, latest.ts)]]
    BY <1>6
  <2>2. latest \in appends /\ latest.ts \in Times /\ latest.ts < upper
    BY DEF UnappliedBatches, Inv, TypeOK, Append
  <2>3. /\ op'[h].pc = "before" /\ op'[h].kind = "forget" /\ op'[h].ts = ts
        /\ op'[h].datas = datas /\ op'[h].progress = upper
        /\ op'[h].applyTo = latest.ts
        /\ op'[h].todo = Unapplied(h, upper, latest.ts)
    BY <2>1 DEF Inv, TypeOK, Op
  <2>4. Unapplied(h, upper, latest.ts) \in [Datas -> SUBSET (0 .. latest.ts)]
    BY <2>2, UnappliedIsAll
  <2>5. Unapplied(h, upper, latest.ts) \in [Datas -> SUBSET Times]
    BY <2>2, <2>4, TxnAssumption DEF Times
  <2>6. TypeOK'
    <3>1. op'[h] \in OpType(upper)
      <4>1. op'[h] = [pc |-> "before", kind |-> "forget", ts |-> ts,
                      datas |-> datas, progress |-> upper,
                      applyTo |-> latest.ts,
                      todo |-> Unapplied(h, upper, latest.ts)]
        BY <2>1 DEF Inv, TypeOK, Op
      <4>. QED
        BY <1>2, <2>2, <2>5, <4>1 DEF OpType, Inv, TypeOK
    <3>2. op' \in [Handles -> OpType(upper)]
      BY <2>1, <3>1 DEF Inv, TypeOK, OpType
    <3>. QED
      BY <1>1, <3>2 DEF Inv, TypeOK, OpType, txnsVars, dataVars
  <2>7. \A x \in Entries : x.ts <= latest.ts =>
          Applied(x) \/ x.ts \in Unapplied(h, upper, latest.ts)[x.data]
    BY <2>2, UnappliedIsAll
  <2>8. ApplyInv(h)'
    BY <1>1, <2>2, <2>3, <2>4, <2>7
    DEF ApplyInv, Entries, Applied, txnsVars, dataVars
  <2>9. \A b \in Seen(h)' : Applied(b)' \/ b.ts <= op'[h].applyTo
    BY <1>1, <1>3, <2>1, <2>3 DEF Seen, Applied, txnsVars, dataVars
  <2>10. OpInv(h)'
    BY <1>1, <2>3, <2>8, <2>9 DEF OpInv, txnsVars
  <2>. QED
    BY <1>1, <1>4, <2>1, <2>6, <2>10, QuietStep DEF Inv, TypeOK
<1>. QED
  BY <1>5, <1>6 DEF PrepareForget

(* update_gt and the start of apply_le.                                    *)
LEMMA BeginApplyPreserves ==
    ASSUME Inv, NEW h \in Handles, BeginApply(h) PROVE Inv'
<1>. DEFINE ts == op[h].ts
<1>1. /\ op[h].pc = "committed"
      /\ op' = [op EXCEPT ![h].pc = "after", ![h].progress = upper,
                          ![h].applyTo = ts, ![h].todo = Unapplied(h, upper, ts)]
      /\ UNCHANGED <<txnsVars, dataVars, marked, writes, tidy, read>>
  BY DEF BeginApply
<1>2. ts \in Times /\ ts < upper
  BY <1>1 DEF Inv, TypeOK, OpInv
<1>3. /\ op'[h].pc = "after" /\ op'[h].kind = op[h].kind /\ op'[h].ts = ts
      /\ op'[h].datas = op[h].datas /\ op'[h].progress = upper
      /\ op'[h].applyTo = ts /\ op'[h].todo = Unapplied(h, upper, ts)
  BY <1>1 DEF Inv, TypeOK
<1>4. /\ Unapplied(h, upper, ts) \in [Datas -> SUBSET (0 .. ts)]
      /\ \A x \in Entries : x.ts <= ts =>
           Applied(x) \/ x.ts \in Unapplied(h, upper, ts)[x.data]
  BY <1>2, UnappliedIsAll
<1>5. Unapplied(h, upper, ts) \in [Datas -> SUBSET Times]
  BY <1>2, <1>4, TxnAssumption DEF Times
<1>6. TypeOK'
  <2>1. op[h] \in OpType(upper) /\ upper \in 0 .. upper
    BY Typed DEF Inv, TypeOK, OpType, Numbers
  <2>2. op'[h] = [op[h] EXCEPT !.pc = "after", !.progress = upper,
                    !.applyTo = ts, !.todo = Unapplied(h, upper, ts)]
    BY <1>1 DEF Inv, TypeOK
  <2>3. op'[h] \in OpType(upper)
    BY <1>2, <1>5, <2>1, <2>2 DEF OpType
  <2>4. op' \in [Handles -> OpType(upper)]
    BY <1>1, <2>3 DEF Inv, TypeOK, OpType
  <2>. QED
    BY <1>1, <2>4 DEF Inv, TypeOK, OpType, txnsVars, dataVars
<1>7. MarkInv(h)'
  BY <1>1 DEF Inv, MarkInv, Applied, txnsVars, dataVars
<1>8. ApplyInv(h)'
  <2>1. \A d \in Datas : \A t \in op'[h].todo[d] : t <= op'[h].applyTo
    BY <1>2, <1>3, <1>4, TxnAssumption DEF Times
  <2>. QED
    BY <1>1, <1>2, <1>3, <1>4, <2>1
    DEF ApplyInv, Entries, Applied, txnsVars, dataVars
<1>9. OpInv(h)'
  BY <1>1, <1>2, <1>3, <1>8 DEF OpInv, txnsVars
<1>. QED
  BY <1>1, <1>6, <1>7, <1>9, QuietStep DEF Inv, TypeOK

(* When nothing is left to do, what is marked is applied.                  *)
LEMMA MarkedIsApplied ==
    ASSUME Inv, NEW h \in Handles, op[h].pc \in {"before", "after"},
           \A d \in Datas : op[h].todo[d] = {}
    PROVE  \A x \in Entries : x.ts <= op[h].applyTo => Applied(x)
<1>1. ApplyInv(h) /\ Numbers
  BY Typed DEF Inv, OpInv
<1>. QED
  BY <1>1 DEF ApplyInv, Numbers

(* mark_register_applied keeps what is marked applied.                     *)
LEMMA ApplyDoneMarks ==
    ASSUME Inv, NEW h \in Handles, NEW pc \in {"before", "after"},
           ApplyDone(h, pc)
    PROVE  /\ MarkInv(h)'
           /\ marked' \in [Handles -> 0 .. upper]
           /\ \A x \in Entries : x.ts <= op[h].applyTo => Applied(x)
           /\ \A k \in Handles \ {h} : marked'[k] = marked[k]
<1>1. /\ op[h].pc = pc
      /\ marked' = [marked EXCEPT ![h] = Latest(@, op[h].applyTo + 1)]
      /\ UNCHANGED <<txnsVars, dataVars, tidy, read>>
      /\ \A d \in Datas : op[h].todo[d] = {}
  BY DEF ApplyDone
<1>2. Numbers /\ ApplyInv(h)
  BY <1>1, Typed DEF Inv, OpInv
<1>3. \A x \in Entries : x.ts <= op[h].applyTo => Applied(x)
  BY <1>1, MarkedIsApplied
<1>4. Latest(marked[h], op[h].applyTo + 1) \in 0 .. upper
  BY <1>2, TxnAssumption DEF Latest, ApplyInv, Numbers, Inv, TypeOK, Times
<1>5. marked' \in [Handles -> 0 .. upper]
  BY <1>1, <1>4 DEF Inv, TypeOK
<1>6. marked'[h] = marked[h] \/ marked'[h] = op[h].applyTo + 1
  BY <1>1 DEF Inv, TypeOK, Latest
<1>7. MarkInv(h)'
  BY <1>1, <1>2, <1>3, <1>6
  DEF Inv, MarkInv, Applied, Entries, Numbers, txnsVars, dataVars
<1>. QED
  BY <1>1, <1>3, <1>5, <1>7 DEF Inv, TypeOK

(* forget goes on to its compare_and_append.                               *)
LEMMA AppliedBeforePreserves ==
    ASSUME Inv, NEW h \in Handles, AppliedBefore(h) PROVE Inv'
<1>1. /\ ApplyDone(h, "before") /\ op[h].pc = "before"
      /\ op' = [op EXCEPT ![h].pc = "caa", ![h].applyTo = 0]
      /\ UNCHANGED <<txnsVars, dataVars, tidy, read, writes>>
  BY DEF AppliedBefore, ApplyDone
<1>2. /\ MarkInv(h)'
      /\ marked' \in [Handles -> 0 .. upper]
      /\ \A x \in Entries : x.ts <= op[h].applyTo => Applied(x)
      /\ \A k \in Handles \ {h} : marked'[k] = marked[k]
  BY <1>1, ApplyDoneMarks
<1>3. /\ op'[h].pc = "caa" /\ op'[h].kind = op[h].kind /\ op'[h].ts = op[h].ts
      /\ op'[h].datas = op[h].datas /\ op'[h].progress = op[h].progress
  BY <1>1 DEF Inv, TypeOK
<1>4. TypeOK'
  <2>1. op[h] \in OpType(upper) /\ 0 \in Times
    BY TxnAssumption DEF Inv, TypeOK, OpType, Times
  <2>2. op'[h] = [op[h] EXCEPT !.pc = "caa", !.applyTo = 0]
    BY <1>1 DEF Inv, TypeOK
  <2>3. op'[h] \in OpType(upper)
    BY <2>1, <2>2 DEF OpType
  <2>4. op' \in [Handles -> OpType(upper)]
    BY <1>1, <2>3 DEF Inv, TypeOK, OpType
  <2>. QED
    BY <1>1, <1>2, <2>4 DEF Inv, TypeOK, OpType, txnsVars, dataVars
<1>5. OpInv(h)
  BY DEF Inv
<1>6. \A b \in Seen(h)' : Applied(b)'
  BY <1>1, <1>2, <1>3, <1>5
  DEF OpInv, Seen, Applied, Entries, txnsVars, dataVars
<1>7. OpInv(h)'
  BY <1>1, <1>3, <1>5, <1>6 DEF OpInv
<1>. QED
  BY <1>1, <1>2, <1>4, <1>7, QuietStep DEF Inv, TypeOK

(* apply_le of the operation is done.                                      *)
LEMMA AppliedAfterPreserves ==
    ASSUME Inv, NEW h \in Handles, AppliedAfter(h) PROVE Inv'
<1>1. /\ ApplyDone(h, "after") /\ op[h].pc = "after"
      /\ op' = [op EXCEPT ![h] = IF @.kind = "commit"
                                 THEN [@ EXCEPT !.pc = "compact"] ELSE Idle]
      /\ UNCHANGED <<txnsVars, dataVars, tidy, read>>
  BY DEF AppliedAfter, ApplyDone
<1>2. /\ MarkInv(h)'
      /\ marked' \in [Handles -> 0 .. upper]
      /\ \A x \in Entries : x.ts <= op[h].applyTo => Applied(x)
      /\ \A k \in Handles \ {h} : marked'[k] = marked[k]
  BY <1>1, ApplyDoneMarks
<1>3. \/ op'[h] = Idle
      \/ op'[h].pc = "compact" /\ op'[h].ts = op[h].ts
  BY <1>1 DEF Inv, TypeOK
<1>4. writes' \in [Handles -> SUBSET Datas]
  BY DEF AppliedAfter, Inv, TypeOK
<1>5. TypeOK'
  <2>1. op[h] \in OpType(upper) /\ Idle \in OpType(upper)
    BY TxnAssumption DEF Inv, TypeOK, OpType, Idle, Op, Times
  <2>2. op'[h] \in {Idle, [op[h] EXCEPT !.pc = "compact"]}
    BY <1>1 DEF Inv, TypeOK
  <2>3. op'[h] \in OpType(upper)
    BY <2>1, <2>2 DEF OpType
  <2>4. op' \in [Handles -> OpType(upper)]
    BY <1>1, <2>3 DEF Inv, TypeOK, OpType
  <2>. QED
    BY <1>1, <1>2, <1>4, <2>4 DEF Inv, TypeOK, OpType, txnsVars, dataVars
<1>6. OpInv(h)
  BY DEF Inv
<1>7. OpInv(h)'
  <2>1. CASE op'[h] = Idle
    BY <2>1 DEF OpInv, Idle, Op
  <2>2. CASE op'[h].pc = "compact" /\ op'[h].ts = op[h].ts
    BY <1>1, <1>2, <1>6, <2>2
    DEF OpInv, Entries, Applied, txnsVars, dataVars
  <2>. QED
    BY <1>3, <2>1, <2>2
<1>. QED
  BY <1>1, <1>2, <1>5, <1>7, QuietStep DEF Inv, TypeOK

-----------------------------------------------------------------------------
(* The compare_and_appends to the txns shard.                              *)

(* What CommitCaa, RegisterCaa and ForgetCaa have in common: the time they *)
(* write at is at or past the upper, and no data shard is written to.      *)
LEMMA CaaGrows ==
    ASSUME Inv, NEW h \in Handles, NEW kind, Caa(h, kind),
           appends \subseteq appends', registers \subseteq registers',
           \A x \in appends' : x \in appends \/ x.ts = op[h].ts,
           \A x \in registers' : x \in registers \/ x.ts = op[h].ts,
           appends' \subseteq Append, registers' \subseteq Register,
           retractions' \subseteq Retraction,
           writes' \in [Handles -> SUBSET Datas],
           tidy' = tidy \/ tidy' = [tidy EXCEPT ![h] = {}]
    PROVE  /\ TypeOK' /\ Grow
           /\ op[h].progress = upper /\ upper <= op[h].ts
           /\ upper' = op[h].ts + 1
           /\ SinceBehindUnapplied'
           /\ DataIsDefinite'
           /\ \A k \in Handles : MarkInv(k)' /\ OpInv(k)'
           /\ \A r \in Readers : ReadInv(r)'
<1>1. /\ op[h].pc = "caa" /\ op[h].kind = kind /\ op[h].progress = upper
      /\ upper' = op[h].ts + 1
      /\ op' = [op EXCEPT ![h] = Op("committed", @.kind, @.ts, @.datas, 0)]
      /\ UNCHANGED <<since, dataVars, marked, read>>
  BY DEF Caa
<1>2. Numbers /\ OpInv(h)
  BY Typed DEF Inv
<1>3. upper <= op[h].ts
  BY <1>1, <1>2 DEF OpInv
<1>4. /\ op'[h].pc = "committed" /\ op'[h].ts = op[h].ts
      /\ \A k \in Handles \ {h} : op'[k] = op[k]
  BY <1>1 DEF Inv, TypeOK, Op
<1>5. upper' \in 1 .. MaxTime + 1 /\ upper <= upper'
  BY <1>1, <1>2, <1>3, TxnAssumption DEF Inv, TypeOK, Numbers, Times
<1>6. tidy' \in [Handles -> SUBSET Append]
  BY DEF Inv, TypeOK
<1>7. TypeOK'
  <2>1. since' \in 0 .. upper' - 1
    BY <1>1, <1>5, TxnAssumption DEF Inv, TypeOK
  <2>2. \A n \in 0 .. upper : n \in 0 .. upper'
    BY <1>5, TxnAssumption DEF Inv, TypeOK
  <2>3. /\ dataUpper' \in [Datas -> 0 .. upper']
        /\ dataTimes' \in [Datas -> SUBSET Times]
        /\ marked' \in [Handles -> 0 .. upper']
    BY <1>1, <2>2 DEF Inv, TypeOK, dataVars
  <2>4. op' \in [Handles ->
         [pc : {"closed", "idle", "retry", "before", "caa", "committed",
                "after", "compact"},
          kind : {"none", "commit", "register", "forget"}, ts : Times,
          datas : SUBSET Datas, progress : 0 .. upper', applyTo : Times,
          todo : [Datas -> SUBSET Times]]]
    <3>1. 0 \in Times /\ 0 \in 0 .. upper'
      BY <1>5, TxnAssumption DEF Times
    <3>. QED
      BY <1>1, <2>2, <3>1 DEF Inv, TypeOK, Op
  <2>5. read' \in [Readers ->
         [data : Datas \cup {"none"}, asOf : Times,
          latestWrite : Times \cup {None}, emptyTo : 0 .. upper']]
    BY <1>1, <2>2 DEF Inv, TypeOK
  <2>. QED
    BY <1>5, <1>6, <2>1, <2>3, <2>4, <2>5 DEF TypeOK
<1>8. Grow
  BY <1>1, <1>2, <1>3, <1>5 DEF Grow, Numbers, dataVars
<1>9. SinceBehindUnapplied'
  BY <1>1, <1>7, <1>8, SinceFrame
<1>10. \A r \in Readers : ReadInv(r)'
  BY <1>1, <1>7, <1>8, ReadFrame
<1>11. \A k \in Handles \ {h} : MarkInv(k)' /\ OpInv(k)'
  BY <1>1, <1>4, <1>7, <1>8, HandleFrame DEF Inv, TypeOK
<1>12. OpInv(h)'
  BY <1>1, <1>2, <1>4 DEF OpInv, Numbers
<1>13. MarkInv(h)'
  <2>1. tidy'[h] \subseteq tidy[h]
    BY DEF Inv, TypeOK
  <2>2. \A b \in tidy'[h] : b \in appends' /\ Applied(b)'
    BY <1>1, <2>1 DEF Inv, MarkInv, Applied, dataVars
  <2>3. \A e \in registers' : e.ts < marked'[h] => e \in registers
    BY <1>1, <1>2, <1>3 DEF Numbers
  <2>. QED
    BY <1>1, <2>2, <2>3 DEF Inv, MarkInv, Applied, dataVars
<1>14. DataIsDefinite'
  <2>1. \A d \in Datas : \A x \in appends' \ appends : ~(x.ts < dataUpper[d])
    BY <1>2, <1>3 DEF Numbers
  <2>2. \A d \in Datas :
          {x \in appends' : x.data = d /\ x.ts < dataUpper'[d]} =
          {x \in appends : x.data = d /\ x.ts < dataUpper[d]}
    BY <1>1, <2>1 DEF dataVars
  <2>. QED
    BY <1>1, <2>2 DEF Inv, DataIsDefinite, dataVars
<1>. QED
  BY <1>1, <1>3, <1>7, <1>8, <1>9, <1>10, <1>11, <1>12, <1>13, <1>14

(* Nothing has been written at the time of a compare_and_append or later.  *)
LEMMA RegisteredAtUpper ==
    ASSUME Inv, NEW d \in Datas, NEW n \in Int, upper <= n
    PROVE  RegisteredAtProgress(d, n) <=> RegisteredAtProgress(d, upper)
<1>1. \A e \in registers : e.ts \in Int /\ e.ts < upper
  BY Typed DEF Inv, LogInv, Numbers, Entries
<1>2. upper \in Int
  BY Typed DEF Inv, Numbers
<1>. QED
  BY <1>1, <1>2 DEF RegisteredAtProgress

(* A transaction commits, with the retractions that no other has made.     *)
LEMMA CommitCaaPreserves ==
    ASSUME Inv, NEW h \in Handles, CommitCaa(h) PROVE Inv'
<1>. DEFINE ts == op[h].ts
            mine == {[data |-> d, ts |-> ts] : d \in op[h].datas}
            gone == {[data |-> b.data, ts |-> b.ts, at |-> ts] :
                       b \in FilterRetractions(h)}
<1>1. /\ Caa(h, "commit") /\ registers' = registers
      /\ appends' = appends \cup mine /\ retractions' = retractions \cup gone
      /\ tidy' = [tidy EXCEPT ![h] = {}] /\ writes' = writes
      /\ op[h].pc = "caa" /\ op[h].kind = "commit"
  BY DEF CommitCaa, Caa
<1>2. Numbers /\ OpInv(h) /\ MarkInv(h)
  BY Typed DEF Inv
<1>3. ts \in Times /\ op[h].datas \subseteq Datas
  BY DEF Inv, TypeOK
<1>4. mine \subseteq Append /\ \A x \in mine : x.data \in op[h].datas /\ x.ts = ts
  BY <1>3 DEF Append
<1>5. \A b \in FilterRetractions(h) : b \in appends /\ Applied(b)
  BY <1>2 DEF FilterRetractions, MarkInv
<1>6. gone \subseteq Retraction
  BY <1>3, <1>5 DEF Inv, TypeOK, Append, Retraction
<1>7. /\ TypeOK' /\ Grow
      /\ op[h].progress = upper /\ upper <= ts /\ upper' = ts + 1
      /\ SinceBehindUnapplied' /\ DataIsDefinite'
      /\ \A k \in Handles : MarkInv(k)' /\ OpInv(k)'
      /\ \A r \in Readers : ReadInv(r)'
  <2>1. /\ appends \subseteq appends' /\ registers \subseteq registers'
        /\ \A x \in appends' : x \in appends \/ x.ts = ts
        /\ \A x \in registers' : x \in registers \/ x.ts = ts
    BY <1>1, <1>4
  <2>2. /\ appends' \subseteq Append /\ registers' \subseteq Register
        /\ retractions' \subseteq Retraction
        /\ writes' \in [Handles -> SUBSET Datas]
    BY <1>1, <1>4, <1>6 DEF Inv, TypeOK
  <2>. HIDE DEF mine, gone
  <2>. QED
    BY <1>1, <2>1, <2>2, CaaGrows
<1>8. \A d \in op[h].datas : RegisteredAtProgress(d, upper)
  BY <1>1, <1>2, <1>7 DEF OpInv
<1>9. dataUpper' = dataUpper
  BY <1>1 DEF Caa, dataVars
<1>10. LogInv'
  <2>1. \A x \in Entries' : x.ts < upper'
    BY <1>1, <1>2, <1>4, <1>7 DEF Inv, LogInv, Entries, Numbers
  <2>2. \A r \in gone : r.at = ts
    OBVIOUS
  <2>3. \A r \in retractions' : r.at < upper'
    BY <1>1, <1>2, <1>7, <2>2 DEF Inv, LogInv, Numbers
  <2>. QED
    BY <2>1, <2>3 DEF LogInv
<1>11. LogIsWellFormed'
  <2>1. ASSUME NEW r \in gone
        PROVE  /\ [data |-> r.data, ts |-> r.ts] \in appends
               /\ r.ts < r.at /\ r.ts < dataUpper[r.data]
               /\ \A q \in retractions : ~(q.data = r.data /\ q.ts = r.ts)
    <3>1. PICK b \in FilterRetractions(h) :
            r = [data |-> b.data, ts |-> b.ts, at |-> ts]
      OBVIOUS
    <3>2. b \in appends /\ Applied(b) /\ b \in UnappliedBatches(upper)
      BY <1>5, <1>7 DEF FilterRetractions
    <3>3. [data |-> b.data, ts |-> b.ts] = b
      BY <3>2 DEF Inv, TypeOK, Append
    <3>4. b.ts < ts
      BY <1>2, <1>7, <3>2 DEF Inv, LogInv, Entries, Numbers
    <3>5. \A q \in retractions : ~(q.data = b.data /\ q.ts = b.ts)
      BY <3>2 DEF UnappliedBatches, RetractedBy, Inv, LogInv
    <3>. QED
      BY <3>1, <3>2, <3>3, <3>4, <3>5 DEF Applied
  <2>2. \A r, q \in gone : q.data = r.data /\ q.ts = r.ts => q = r
    OBVIOUS
  <2>3. ASSUME NEW r \in retractions'
        PROVE  /\ [data |-> r.data, ts |-> r.ts] \in appends'
               /\ r.ts < r.at /\ r.ts < dataUpper'[r.data]
               /\ \A q \in retractions' :
                    q.data = r.data /\ q.ts = r.ts => q = r
    <3>1. CASE r \in gone
      BY <1>1, <1>9, <2>1, <2>2, <3>1
    <3>2. CASE r \in retractions
      <4>1. /\ [data |-> r.data, ts |-> r.ts] \in appends
            /\ r.ts < r.at /\ r.ts < dataUpper[r.data]
            /\ \A q \in retractions : q.data = r.data /\ q.ts = r.ts => q = r
        BY <3>2 DEF Inv, LogIsWellFormed
      <4>2. \A q \in gone : ~(q.data = r.data /\ q.ts = r.ts)
        BY <2>1, <3>2
      <4>. HIDE DEF gone, mine
      <4>. QED
        BY <1>1, <1>9, <4>1, <4>2
    <3>. QED
      BY <1>1, <3>1, <3>2
  <2>4. \A e \in registers' :
          RegisteredAtProgress(e.data, e.ts)' <=> e.diff = -1
    BY <1>1 DEF Inv, LogIsWellFormed, RegisteredAtProgress
  <2>5. \A b \in mine : RegisteredAtProgress(b.data, b.ts)
    BY <1>2, <1>3, <1>4, <1>7, <1>8, RegisteredAtUpper DEF Numbers
  <2>6. \A b \in appends' : RegisteredAtProgress(b.data, b.ts)'
    BY <1>1, <2>5 DEF Inv, LogIsWellFormed, RegisteredAtProgress
  <2>. HIDE DEF mine, gone
  <2>. QED
    BY <2>3, <2>4, <2>6 DEF LogIsWellFormed
<1>12. ForgottenIsApplied'
  <2>1. ASSUME NEW b \in appends', ~RegisteredAtProgress(b.data, upper')
        PROVE  b.ts < dataUpper[b.data]
    <3>1. b.data \in Datas
      BY <1>7, TypedNext DEF Numbers, Entries
    <3>2. ~RegisteredAtProgress(b.data, upper)
      BY <1>7, <2>1, <3>1, <1>2, RegisteredAtUpper DEF Grow, Numbers
    <3>3. b \in appends
      BY <1>1, <1>4, <1>8, <3>2
    <3>. QED
      BY <3>2, <3>3 DEF Inv, ForgottenIsApplied
  <2>2. \A d : RegisteredAtProgress(d, upper)' <=> RegisteredAtProgress(d, upper')
    BY <1>1 DEF RegisteredAtProgress
  <2>. QED
    BY <1>9, <2>1, <2>2 DEF ForgottenIsApplied
<1>. HIDE DEF mine, gone, ts
<1>. QED
  BY <1>7, <1>10, <1>11, <1>12 DEF Inv

(* Entries that register or forget: they change what the last entry says,  *)
(* and forget only shards whose writes are all applied.                    *)
LEMMA RegisterEntries ==
    ASSUME Inv, NEW h \in Handles, NEW kind, Caa(h, kind),
           NEW S \in SUBSET op[h].datas, NEW i \in {1, -1},
           registers' = registers \cup
             {[data |-> d, ts |-> op[h].ts, diff |-> i] : d \in S},
           UNCHANGED <<appends, retractions, tidy>>,
           writes' \in [Handles -> SUBSET Datas],
           \A d \in S : RegisteredAtProgress(d, upper) <=> i = -1,
           i = -1 => \A b \in appends : b.data \in S => Applied(b)
    PROVE  Inv'
<1>1. PICK ts \in Times : ts = op[h].ts
  BY DEF Inv, TypeOK
<1>. DEFINE new == {[data |-> d, ts |-> ts, diff |-> i] : d \in S}
<1>2. S \subseteq Datas
  BY DEF Inv, TypeOK
<1>3. Numbers
  BY Typed DEF Inv
<1>4. /\ new \subseteq Register
      /\ \A e \in new : e.data \in S /\ e.ts = ts /\ e.diff = i
      /\ \A d \in S : \E e \in new : e.data = d
      /\ registers' = registers \cup new
  <2>1. \A d \in S : [data |-> d, ts |-> ts, diff |-> i] \in new
    OBVIOUS
  <2>2. new \subseteq Register
    BY <1>2, <1>1 DEF Register
  <2>3. \A e \in new : e.data \in S /\ e.ts = ts /\ e.diff = i
    OBVIOUS
  <2>4. \A d \in S : \E e \in new : e.data = d
    BY <2>1
  <2>. QED
    BY <1>1, <2>2, <2>3, <2>4
<1>. HIDE DEF new
<1>5. /\ TypeOK' /\ Grow
      /\ upper <= ts /\ upper' = ts + 1
      /\ SinceBehindUnapplied' /\ DataIsDefinite'
      /\ \A k \in Handles : MarkInv(k)' /\ OpInv(k)'
      /\ \A r \in Readers : ReadInv(r)'
  <2>1. /\ appends \subseteq appends' /\ registers \subseteq registers'
        /\ \A x \in appends' : x \in appends \/ x.ts = ts
        /\ \A x \in registers' : x \in registers \/ x.ts = ts
    BY <1>4
  <2>2. /\ appends' \subseteq Append /\ registers' \subseteq Register
        /\ retractions' \subseteq Retraction
    BY <1>4 DEF Inv, TypeOK
  <2>. QED
    BY <1>1, <2>1, <2>2, CaaGrows
<1>6. dataUpper' = dataUpper
  BY DEF Caa, dataVars
<1>7. /\ \A e \in registers : e.ts < upper /\ e.ts < ts /\ e.ts \in Int
      /\ ts \in Int /\ upper \in Int
  <2>1. ts \in Int /\ upper \in Int
    BY <1>1, <1>3 DEF Numbers
  <2>2. \A e \in registers : e.ts < upper /\ e.ts \in Int
    BY <1>3 DEF Inv, LogInv, Entries, Numbers
  <2>. QED
    BY <1>5, <2>1, <2>2
<1>8. LogInv'
  <2>1. \A e \in registers' : e.ts < upper'
    BY <1>4, <1>5, <1>7
  <2>2. \A b \in appends : b.ts < upper /\ b.ts \in Int
    BY <1>3 DEF Inv, LogInv, Entries, Numbers
  <2>3. \A b \in appends' : b.ts < upper'
    BY <1>5, <1>7, <2>2
  <2>4. \A r \in retractions : r.at < upper /\ r.at \in Int
    BY <1>3 DEF Inv, LogInv, Numbers
  <2>5. \A r \in retractions' : r.at < upper'
    BY <1>5, <1>7, <2>4
  <2>. QED
    BY <2>1, <2>3, <2>5 DEF LogInv, Entries
<1>9. \A d \in Datas : RegisteredAtProgress(d, ts)' <=>
                       RegisteredAtProgress(d, upper)
  BY <1>4, <1>7 DEF RegisteredAtProgress
<1>10. \A d \in Datas : ~RegisteredAtProgress(d, upper)' =>
        \/ ~RegisteredAtProgress(d, upper)
        \/ d \in S /\ i = -1
  <2>1. ASSUME NEW d \in S, i = 1 PROVE RegisteredAtProgress(d, upper)'
    BY <1>4, <1>5, <1>7, <2>1 DEF RegisteredAtProgress
  <2>2. ASSUME NEW d \in Datas \ S, RegisteredAtProgress(d, upper)
        PROVE  RegisteredAtProgress(d, upper)'
    BY <1>4, <1>5, <1>7, <2>2 DEF RegisteredAtProgress
  <2>. QED
    BY <2>1, <2>2
<1>11. LogIsWellFormed'
  <2>1. \A r \in retractions' :
         /\ [data |-> r.data, ts |-> r.ts] \in appends'
         /\ r.ts < r.at
         /\ r.ts < dataUpper'[r.data]
         /\ \A q \in retractions' : q.data = r.data /\ q.ts = r.ts => q = r
    BY <1>6 DEF Inv, LogIsWellFormed
  <2>2. \A e \in new : RegisteredAtProgress(e.data, ts)' <=> e.diff = -1
    BY <1>2, <1>4, <1>9
  <2>3. \A e \in registers : RegisteredAtProgress(e.data, e.ts)' <=> e.diff = -1
    <3>1. \A e \in registers : /\ e.data \in Datas /\ e.ts \in Int /\ e.ts <= upper
                               /\ RegisteredAtProgress(e.data, e.ts) <=> e.diff = -1
      BY <1>3, <1>7 DEF Inv, LogIsWellFormed, Numbers, Entries
    <3>2. \A e \in registers : RegisteredAtProgress(e.data, e.ts)' <=>
                               RegisteredAtProgress(e.data, e.ts)
      BY <1>5, <3>1, RegisteredStable DEF Inv, RegisteredAtProgress
    <3>. QED
      BY <3>1, <3>2 DEF RegisteredAtProgress
  <2>4. \A b \in appends : RegisteredAtProgress(b.data, b.ts)'
    <3>1. \A b \in appends : /\ b.data \in Datas /\ b.ts \in Int /\ b.ts <= upper
                             /\ RegisteredAtProgress(b.data, b.ts)
      BY <1>3 DEF Inv, LogIsWellFormed, LogInv, Numbers, Entries
    <3>. QED
      BY <1>5, <3>1, RegisteredStable DEF Inv
  <2>5. \A e \in registers' : RegisteredAtProgress(e.data, e.ts)' <=> e.diff = -1
    BY <1>4, <2>2, <2>3 DEF RegisteredAtProgress
  <2>. QED
    BY <2>1, <2>4, <2>5 DEF LogIsWellFormed, RegisteredAtProgress
<1>12. ForgottenIsApplied'
  <2>1. \A b \in appends : b.data \in Datas
    BY <1>3 DEF Numbers, Entries
  <2>. QED
    BY <1>6, <1>10, <2>1
    DEF Inv, ForgottenIsApplied, Applied, RegisteredAtProgress
<1>. QED
  BY <1>5, <1>8, <1>11, <1>12 DEF Inv

(* register is a no-op for the shards that are registered.                 *)
LEMMA RegisterCaaPreserves ==
    ASSUME Inv, NEW h \in Handles, RegisterCaa(h) PROVE Inv'
<1>. DEFINE S == {x \in op[h].datas :
                    ~RegisteredAtProgress(x, op[h].progress)}
<1>1. /\ Caa(h, "register") /\ op[h].progress = upper
      /\ registers' = registers \cup
           {[data |-> d, ts |-> op[h].ts, diff |-> 1] : d \in S}
      /\ UNCHANGED <<appends, retractions, tidy>>
  BY DEF RegisterCaa, Caa
<1>2. writes' \in [Handles -> SUBSET Datas]
  BY DEF RegisterCaa, Inv, TypeOK
<1>3. \A d \in S : ~RegisteredAtProgress(d, upper)
  BY <1>1
<1>4. S \in SUBSET op[h].datas
  OBVIOUS
<1>. HIDE DEF S
<1>. QED
  BY <1>1, <1>2, <1>3, <1>4, RegisterEntries

(* forget: the writes to its shards that its cache knows of are applied,   *)
(* and there are no others, since the upper is what it expects.            *)
LEMMA ForgetCaaPreserves ==
    ASSUME Inv, NEW h \in Handles, ForgetCaa(h) PROVE Inv'
<1>. DEFINE S == {x \in op[h].datas :
                    RegisteredAtProgress(x, op[h].progress)}
<1>1. /\ Caa(h, "forget") /\ op[h].progress = upper
      /\ op[h].pc = "caa" /\ op[h].kind = "forget"
      /\ registers' = registers \cup
           {[data |-> d, ts |-> op[h].ts, diff |-> -1] : d \in S}
      /\ UNCHANGED <<appends, retractions, writes, tidy>>
  BY DEF ForgetCaa, Caa
<1>2. writes' \in [Handles -> SUBSET Datas]
  BY <1>1 DEF Inv, TypeOK
<1>3. \A d \in S : RegisteredAtProgress(d, upper)
  BY <1>1
<1>4. \A b \in appends : b.data \in S => Applied(b)
  <2>1. \A b \in Seen(h) : Applied(b)
    BY <1>1 DEF Inv, OpInv
  <2>. QED
    BY <1>1, <2>1 DEF Seen, Inv, LogInv, Entries
<1>5. S \in SUBSET op[h].datas
  OBVIOUS
<1>. HIDE DEF S
<1>. QED
  BY <1>1, <1>2, <1>3, <1>4, <1>5, RegisterEntries

-----------------------------------------------------------------------------
(* The steps that advance a data shard, and the since.                     *)

(* A data shard advances to a time and takes in what was committed to it   *)
(* before that time.                                                       *)
LEMMA DataAdvances ==
    ASSUME Inv, NEW d \in Datas, NEW to \in 0 .. upper, UNCHANGED txnsVars,
           dataUpper' = [dataUpper EXCEPT ![d] = Latest(@, to)],
           dataTimes' \in [Datas -> SUBSET Times],
           \A c \in Datas \ {d} : dataTimes'[c] = dataTimes[c],
           \A t \in Times : t \in dataTimes'[d] <=>
             \/ t \in dataTimes[d]
             \/ \E b \in appends : b.data = d /\ b.ts = t /\ b.ts < to
    PROVE  /\ Grow
           /\ dataUpper' \in [Datas -> 0 .. upper]
           /\ dataUpper'[d] \in Int /\ to <= dataUpper'[d]
           /\ DataIsDefinite'
<1>1. Numbers
  BY Typed DEF Inv
<1>2. /\ Latest(dataUpper[d], to) \in 0 .. upper
      /\ dataUpper[d] <= Latest(dataUpper[d], to)
      /\ to <= Latest(dataUpper[d], to)
      /\ Latest(dataUpper[d], to) \in {dataUpper[d], to}
  BY <1>1 DEF Latest, Inv, TypeOK, Numbers
<1>3. /\ dataUpper' \in [Datas -> 0 .. upper]
      /\ dataUpper'[d] = Latest(dataUpper[d], to)
      /\ \A c \in Datas \ {d} : dataUpper'[c] = dataUpper[c]
  BY <1>2 DEF Inv, TypeOK
<1>4. Grow
  BY <1>1, <1>2, <1>3 DEF Grow, txnsVars, Numbers
<1>5. dataUpper'[d] \in Int /\ to <= dataUpper'[d] /\ dataUpper[d] <= dataUpper'[d]
  BY <1>1, <1>2, <1>3 DEF Numbers
<1>6. ASSUME NEW c \in Datas
      PROVE  dataTimes'[c] = {b.ts : b \in {x \in appends' :
                                x.data = c /\ x.ts < dataUpper'[c]}}
  <2>1. dataTimes[c] = {b.ts : b \in {x \in appends :
                                x.data = c /\ x.ts < dataUpper[c]}}
    BY DEF Inv, DataIsDefinite
  <2>2. CASE c # d
    BY <1>3, <2>1, <2>2 DEF txnsVars
  <2>3. CASE c = d
    <3>1. \A b \in appends : b.ts \in Times /\ b.ts \in Int
      BY <1>1 DEF Inv, TypeOK, Append, Numbers, Entries
    <3>2. \A b \in appends : b.data = d =>
            (b.ts < dataUpper'[d] <=> b.ts < dataUpper[d] \/ b.ts < to)
      BY <1>1, <1>2, <1>3, <3>1 DEF Numbers
    <3>3. \A t \in Times : t \in dataTimes'[d] <=>
            \E b \in appends : b.data = d /\ b.ts = t /\ b.ts < dataUpper'[d]
      BY <2>1, <2>3, <3>2
    <3>. QED
      BY <2>3, <3>1, <3>3 DEF txnsVars
  <2>. QED
    BY <2>2, <2>3
<1>7. DataIsDefinite'
  BY <1>6 DEF DataIsDefinite
<1>. QED
  BY <1>3, <1>4, <1>5, <1>7

(* apply_caa and empty_caa: the earliest time that is left to do, so that  *)
(* no committed write lies between the upper of the data shard and it.     *)
LEMMA ApplyCaaPreserves ==
    ASSUME Inv, NEW h \in Handles, NEW d \in Datas, ApplyCaa(h, d) PROVE Inv'
<1>1. PICK t \in op[h].todo[d] :
         LET b == [data |-> d, ts |-> t]
         IN  /\ \A x \in op[h].todo[d] : t <= x
             /\ dataUpper' = [dataUpper EXCEPT ![d] = Latest(@, t + 1)]
             /\ dataTimes' = IF dataUpper[d] <= t /\ b \in appends
                             THEN [dataTimes EXCEPT ![d] = @ \cup {t}]
                             ELSE dataTimes
             /\ tidy' = IF op[h].pc = "after" /\ b \in appends
                        THEN [tidy EXCEPT ![h] = @ \cup {b}]
                        ELSE tidy
             /\ op' = [op EXCEPT ![h].todo[d] = @ \ {t}]
  BY DEF ApplyCaa
<1>. DEFINE b == [data |-> d, ts |-> t]
<1>2. /\ op[h].pc \in {"before", "after"}
      /\ UNCHANGED <<txnsVars, marked, writes, read>>
  BY DEF ApplyCaa
<1>3. Numbers /\ MarkInv(h) /\ OpInv(h) /\ ApplyInv(h)
  BY <1>2, Typed DEF Inv, OpInv
<1>4. t \in Times /\ t \in Int /\ 0 <= t /\ t <= op[h].applyTo /\ t + 1 <= upper
  BY <1>3 DEF ApplyInv, Numbers, Inv, TypeOK
<1>5. \A x \in appends : x.data = d /\ ~Applied(x) /\ x.ts < t + 1 => x = b
  <2>. SUFFICES ASSUME NEW x \in appends, x.data = d, ~Applied(x), x.ts < t + 1
                PROVE  x = b
    OBVIOUS
  <2>1. x.ts \in Int /\ x.ts <= t
    BY <1>3, <1>4 DEF Numbers, Entries
  <2>2. x.ts \in op[h].todo[d]
    BY <1>3, <1>4, <2>1 DEF ApplyInv, Entries, Numbers
  <2>3. x.ts = t
    BY <1>1, <1>4, <2>1, <2>2
  <2>. QED
    BY <2>3 DEF Inv, TypeOK, Append
<1>6. /\ dataTimes' \in [Datas -> SUBSET Times]
      /\ \A c \in Datas \ {d} : dataTimes'[c] = dataTimes[c]
      /\ dataTimes'[d] = IF dataUpper[d] <= t /\ b \in appends
                         THEN dataTimes[d] \cup {t} ELSE dataTimes[d]
  BY <1>1, <1>4 DEF Inv, TypeOK
<1>7. \A s \in Times : s \in dataTimes'[d] <=>
        \/ s \in dataTimes[d]
        \/ \E x \in appends : x.data = d /\ x.ts = s /\ x.ts < t + 1
  <2>1. \A x \in appends : x.data = d /\ Applied(x) => x.ts \in dataTimes[d]
    BY DEF Inv, DataIsDefinite, Applied
  <2>2. b.data = d /\ b.ts = t /\ t < t + 1 /\ (dataUpper[d] <= t <=> ~Applied(b))
    BY <1>3, <1>4 DEF Applied, Numbers
  <2>3. ASSUME NEW s \in Times, s \in dataTimes'[d]
        PROVE  \/ s \in dataTimes[d]
               \/ \E x \in appends : x.data = d /\ x.ts = s /\ x.ts < t + 1
    BY <1>6, <2>2, <2>3
  <2>4. ASSUME NEW x \in appends, x.data = d, x.ts < t + 1
        PROVE  x.ts \in dataTimes'[d]
    <3>. HIDE DEF b
    <3>. QED
      BY <1>5, <1>6, <2>1, <2>2, <2>4
  <2>. QED
    BY <1>6, <2>3, <2>4
<1>8. /\ Grow /\ DataIsDefinite'
      /\ dataUpper' \in [Datas -> 0 .. upper]
      /\ dataTimes' \in [Datas -> SUBSET Times]
      /\ dataUpper'[d] \in Int /\ t + 1 <= dataUpper'[d]
  <2>1. PICK to \in 0 .. upper : to = t + 1
    BY <1>3, <1>4 DEF Numbers
  <2>2. dataUpper' = [dataUpper EXCEPT ![d] = Latest(@, to)] /\ UNCHANGED txnsVars
    BY <1>1, <1>2, <2>1
  <2>3. \A s \in Times : s \in dataTimes'[d] <=>
          \/ s \in dataTimes[d]
          \/ \E x \in appends : x.data = d /\ x.ts = s /\ x.ts < to
    BY <1>7, <2>1
  <2>. QED
    BY <1>6, <2>1, <2>2, <2>3, DataAdvances
<1>9. /\ op'[h].pc = op[h].pc /\ op'[h].kind = op[h].kind
      /\ op'[h].ts = op[h].ts /\ op'[h].datas = op[h].datas
      /\ op'[h].progress = op[h].progress /\ op'[h].applyTo = op[h].applyTo
      /\ op'[h].todo[d] = op[h].todo[d] \ {t}
      /\ \A c \in Datas \ {d} : op'[h].todo[c] = op[h].todo[c]
      /\ \A k \in Handles \ {h} : op'[k] = op[k]
  BY <1>1 DEF Inv, TypeOK
<1>10. tidy' \in [Handles -> SUBSET Append]
  BY <1>1 DEF Inv, TypeOK
<1>11. op' \in [Handles -> OpType(upper)]
  <2>1. op[h] \in OpType(upper)
    BY DEF Inv, TypeOK, OpType
  <2>2. op'[h] = [op[h] EXCEPT !.todo = [op[h].todo EXCEPT ![d] = @ \ {t}]]
    BY <1>1 DEF Inv, TypeOK
  <2>3. [op[h].todo EXCEPT ![d] = @ \ {t}] \in [Datas -> SUBSET Times]
    BY <2>1 DEF OpType
  <2>4. op'[h] \in OpType(upper)
    BY <2>1, <2>2, <2>3 DEF OpType
  <2>. QED
    BY <1>1, <2>4 DEF Inv, TypeOK, OpType
<1>12. TypeOK'
  BY <1>2, <1>8, <1>10, <1>11 DEF Inv, TypeOK, OpType, txnsVars
<1>13. \A x \in Entries : Applied(x) => Applied(x)'
  BY <1>8, <1>12, AppliedStable DEF Inv
<1>14. MarkInv(h)'
  <2>1. tidy'[h] \subseteq tidy[h] \cup {b} /\ (b \in tidy'[h] => b \in appends \/ b \in tidy[h])
    BY <1>1 DEF Inv, TypeOK
  <2>2. \A x \in tidy[h] : x \in appends /\ Applied(x)'
    BY <1>3, <1>13 DEF MarkInv, Entries
  <2>3. b \in tidy'[h] => b \in appends /\ Applied(b)'
    <3>1. Applied(b)'
      BY <1>4, <1>8 DEF Applied
    <3>. QED
      BY <2>1, <2>2, <3>1
  <2>4. \A x \in tidy'[h] : x \in appends' /\ Applied(x)'
    BY <1>2, <2>1, <2>2, <2>3 DEF txnsVars
  <2>. QED
    BY <1>2, <1>3, <1>13, <2>4 DEF MarkInv, Entries, txnsVars
<1>15. ApplyInv(h)'
  <2>1. ASSUME NEW x \in Entries, x.ts <= op[h].applyTo
        PROVE  Applied(x)' \/ x.ts \in op'[h].todo[x.data]
    <3>1. CASE Applied(x)
      BY <1>13, <3>1
    <3>2. CASE x.ts \in op[h].todo[x.data] /\ x.data = d /\ x.ts = t
      BY <1>4, <1>8, <3>2 DEF Applied
    <3>3. CASE x.ts \in op[h].todo[x.data] /\ ~(x.data = d /\ x.ts = t)
      BY <1>3, <1>9, <3>3 DEF Numbers
    <3>. QED
      BY <1>3, <2>1, <3>1, <3>2, <3>3 DEF ApplyInv
  <2>2. \A c \in Datas : op'[h].todo[c] \subseteq op[h].todo[c]
    BY <1>9
  <2>. QED
    BY <1>2, <1>3, <1>9, <2>1, <2>2 DEF ApplyInv, Entries, txnsVars
<1>16. OpInv(h)'
  <2>1. \A x \in Seen(h)' : x \in Seen(h) /\ x \in Entries
    BY <1>2, <1>9 DEF Seen, Entries, txnsVars
  <2>. QED
    BY <1>2, <1>3, <1>9, <1>13, <1>15, <2>1 DEF OpInv, txnsVars
<1>17. \A k \in Handles : MarkInv(k)' /\ OpInv(k)'
  <2>1. \A k \in Handles \ {h} : tidy'[k] = tidy[k] /\ marked'[k] = marked[k]
    BY <1>1, <1>2 DEF Inv, TypeOK
  <2>2. ASSUME NEW k \in Handles \ {h} PROVE MarkInv(k)' /\ OpInv(k)'
    BY <1>8, <1>9, <1>12, <2>1, HandleFrame
  <2>. QED
    BY <1>14, <1>16, <2>2
<1>18. \A r \in Readers : ReadInv(r)'
  BY <1>2, <1>8, <1>12, ReadFrame
<1>19. LogInv' /\ LogIsWellFormed' /\ ForgottenIsApplied' /\ SinceBehindUnapplied'
  BY <1>2, <1>8, <1>12, LogFrame, SinceFrame DEF txnsVars
<1>. QED
  BY <1>8, <1>12, <1>17, <1>18, <1>19 DEF Inv

(* compact_to(ts) comes after apply_le(ts): everything before ts is        *)
(* applied, whatever else limits the since.                                *)
LEMMA CompactToPreserves ==
    ASSUME Inv, NEW h \in Handles, CompactTo(h) PROVE Inv'
<1>. DEFINE n == op[h].progress
            limits == {op[h].ts} \cup {b.ts : b \in UnappliedBatches(n)}
                        \cup {e.ts : e \in UnappliedRegisters(h, n)}
<1>1. PICK t \in limits : /\ \A x \in limits : t <= x
                          /\ since' = Latest(since, t)
  BY DEF CompactTo
<1>2. /\ op[h].pc = "compact"
      /\ op' = [op EXCEPT ![h] = Idle]
      /\ UNCHANGED <<upper, registers, appends, retractions, dataVars, marked,
                     writes, tidy, read>>
  BY DEF CompactTo
<1>3. Numbers /\ OpInv(h) /\ op[h].ts \in Times
  BY Typed DEF Inv, TypeOK
<1>4. t <= op[h].ts
  BY <1>1
<1>5. t \in Int /\ 0 <= t
  <2>1. /\ \A b \in UnappliedBatches(n) : b \in Entries
        /\ \A e \in UnappliedRegisters(h, n) : e \in Entries
    BY DEF UnappliedBatches, UnappliedRegisters, Entries
  <2>. QED
    BY <1>3, <2>1, TxnAssumption DEF Numbers, Times
<1>. HIDE DEF limits
<1>6. since' \in 0 .. upper' - 1
  BY <1>1, <1>2, <1>3, <1>4, <1>5 DEF Latest, OpInv, Numbers
<1>7. TypeOK'
  BY <1>2, <1>6, TxnAssumption DEF Inv, TypeOK, Idle, Op, Times, dataVars
<1>8. Grow
  BY <1>2, <1>3 DEF Grow, Numbers, dataVars
<1>9. SinceBehindUnapplied'
  <2>1. \A x \in Entries : x.ts < since' => Applied(x)
    <3>1. \A x \in Entries : x.ts < since => Applied(x)
      BY DEF Inv, SinceBehindUnapplied, Entries, Applied
    <3>2. \A x \in Entries : x.ts < t => Applied(x)
      BY <1>2, <1>3, <1>4, <1>5 DEF OpInv, Numbers
    <3>. QED
      BY <1>1, <3>1, <3>2 DEF Latest
  <2>. QED
    BY <1>2, <2>1 DEF SinceBehindUnapplied, Entries, Applied, dataVars
<1>10. \A k \in Handles : MarkInv(k)' /\ OpInv(k)'
  <2>1. ASSUME NEW k \in Handles \ {h} PROVE MarkInv(k)' /\ OpInv(k)'
    <3>1. op'[k] = op[k] /\ marked'[k] = marked[k] /\ tidy'[k] = tidy[k]
      BY <1>2 DEF Inv, TypeOK
    <3>. QED
      BY <1>7, <1>8, <3>1, HandleFrame
  <2>2. op'[h] = Idle
    BY <1>2 DEF Inv, TypeOK
  <2>3. OpInv(h)'
    BY <2>2 DEF OpInv, Idle, Op
  <2>4. MarkInv(h)'
    BY <1>2 DEF Inv, MarkInv, Applied, dataVars
  <2>. QED
    BY <2>1, <2>3, <2>4
<1>11. \A r \in Readers : ReadInv(r)'
  BY <1>2, <1>7, <1>8, ReadFrame
<1>12. LogInv' /\ LogIsWellFormed' /\ ForgottenIsApplied'
  BY <1>2, <1>7, <1>8, LogFrame
<1>13. DataIsDefinite'
  BY <1>2 DEF Inv, DataIsDefinite, dataVars
<1>. QED
  BY <1>7, <1>9, <1>10, <1>11, <1>12, <1>13 DEF Inv

-----------------------------------------------------------------------------
(* Readers.                                                                *)

(* data_snapshot: a write before empty_to is before the since at which the *)
(* cache was opened, or retracted, or not later than the latest write.     *)
LEMMA DataSnapshotPreserves ==
    ASSUME Inv, NEW r \in Readers, NEW d \in Datas, NEW asOf \in Times,
           DataSnapshot(r, d, asOf)
    PROVE  Inv'
<1>1. PICK init \in 0 .. since, latest \in Times \cup {None} :
         /\ IsLatestWrite(latest, init, d, asOf)
         /\ read' = [read EXCEPT ![r] =
                       Read(d, asOf, latest, Latest(asOf + 1, init))]
  BY DEF DataSnapshot
<1>. DEFINE emptyTo == Latest(asOf + 1, init)
<1>2. /\ asOf < upper
      /\ UNCHANGED <<txnsVars, dataVars, marked, writes, tidy, op>>
  BY DEF DataSnapshot
<1>3. Numbers /\ asOf \in Int /\ 0 <= asOf
  BY Typed, TxnAssumption DEF Inv, Times
<1>4. /\ emptyTo \in 0 .. upper /\ asOf < emptyTo
      /\ emptyTo = asOf + 1 \/ emptyTo = init
  BY <1>2, <1>3 DEF Latest, Numbers
<1>5. /\ read'[r].data = d /\ read'[r].asOf = asOf
      /\ read'[r].latestWrite = latest /\ read'[r].emptyTo = emptyTo
  BY <1>1 DEF Inv, TypeOK, Read
<1>6. read' \in [Readers ->
         [data : Datas \cup {"none"}, asOf : Times,
          latestWrite : Times \cup {None}, emptyTo : 0 .. upper]]
  <2>1. Read(d, asOf, latest, emptyTo) \in
          [data : Datas \cup {"none"}, asOf : Times,
           latestWrite : Times \cup {None}, emptyTo : 0 .. upper]
    BY <1>4 DEF Read
  <2>. HIDE DEF emptyTo
  <2>. QED
    BY <1>1, <2>1 DEF Inv, TypeOK, emptyTo
<1>7. TypeOK'
  BY <1>2, <1>6 DEF Inv, TypeOK, txnsVars, dataVars
<1>8. ASSUME NEW b \in appends, b.data = d, b.ts < emptyTo
      PROVE  Applied(b) \/ b.ts <= latest
  <2>1. b.ts \in Int /\ b.ts < upper
    BY <1>3 DEF Inv, LogInv, Numbers, Entries
  <2>2. CASE asOf < b.ts
    <3>1. b.ts < since
      BY <1>3, <1>4, <1>8, <2>1, <2>2 DEF Numbers
    <3>. QED
      BY <3>1 DEF Inv, SinceBehindUnapplied, Applied
  <2>3. CASE b.ts <= asOf /\ ~Applied(b)
    <3>1. \A n : ~RetractedBy(b, n)
      BY <2>3, RetractedIsApplied
    <3>2. b \in UnappliedBatches(upper)
      BY <2>1, <3>1 DEF UnappliedBatches
    <3>. QED
      BY <1>1, <1>8, <2>1, <2>3, <3>1, <3>2 DEF IsLatestWrite
  <2>. QED
    BY <1>3, <2>1, <2>2, <2>3
<1>9. ReadInv(r)'
  <2>. HIDE DEF emptyTo
  <2>. QED
    BY <1>2, <1>4, <1>5, <1>8 DEF ReadInv, Applied, txnsVars, dataVars
<1>10. Grow
  BY <1>2, <1>3 DEF Grow, txnsVars, dataVars, Numbers
<1>11. \A q \in Readers : ReadInv(q)'
  <2>1. \A q \in Readers \ {r} : read'[q] = read[q]
    BY <1>1 DEF Inv, TypeOK
  <2>. QED
    BY <1>7, <1>9, <1>10, <2>1, ReadFrame
<1>12. \A k \in Handles : MarkInv(k)' /\ OpInv(k)'
  BY <1>2, <1>7, <1>10, HandleFrame
<1>13. /\ LogInv' /\ LogIsWellFormed' /\ ForgottenIsApplied'
       /\ SinceBehindUnapplied' /\ DataIsDefinite'
  BY <1>2, <1>7, <1>10, LogFrame, SinceFrame
  DEF txnsVars, dataVars, Inv, DataIsDefinite
<1>. QED
  BY <1>7, <1>11, <1>12, <1>13 DEF Inv

(* unblock_read fills a stretch in which everything is applied.            *)
LEMMA UnblockedIsApplied ==
    ASSUME Inv, NEW r \in Readers, UnblockRead(r)
    PROVE  /\ read[r].data \in Datas
           /\ \A b \in appends : b.data = read[r].data /\ b.ts < read[r].emptyTo
                                   => Applied(b)
<1>1. Numbers /\ ReadInv(r)
  BY Typed DEF Inv
<1>. QED
  BY <1>1 DEF UnblockRead, ReadInv, Numbers, Applied, Entries

(* unblock_read fills the data shard up with nothing: all writes up to     *)
(* there are applied, so none is skipped.                                  *)
LEMMA UnblockReadPreserves ==
    ASSUME Inv, NEW r \in Readers, UnblockRead(r)
    PROVE  /\ Inv'
           /\ read[r].emptyTo <= dataUpper'[read[r].data]
<1>. DEFINE d == read[r].data
            to == read[r].emptyTo
<1>1. /\ dataUpper' = [dataUpper EXCEPT ![d] = Latest(@, to)]
      /\ read' = [read EXCEPT ![r] = NoRead]
      /\ UNCHANGED <<txnsVars, dataTimes, marked, writes, tidy, op>>
  BY DEF UnblockRead
<1>2. /\ d \in Datas
      /\ \A b \in appends : b.data = d /\ b.ts < to => Applied(b)
  BY UnblockedIsApplied
<1>3. Numbers /\ to \in 0 .. upper
  BY Typed DEF Inv, TypeOK
<1>4. \A s \in Times : s \in dataTimes'[d] <=>
        \/ s \in dataTimes[d]
        \/ \E x \in appends : x.data = d /\ x.ts = s /\ x.ts < to
  BY <1>1, <1>2 DEF Inv, DataIsDefinite, Applied
<1>5. /\ Grow /\ DataIsDefinite'
      /\ dataUpper' \in [Datas -> 0 .. upper]
      /\ dataTimes' \in [Datas -> SUBSET Times]
      /\ dataUpper'[d] \in Int /\ to <= dataUpper'[d]
  <2>1. PICK dd \in Datas, tt \in 0 .. upper : dd = d /\ tt = to
    BY <1>2, <1>3
  <2>2. /\ dataUpper' = [dataUpper EXCEPT ![dd] = Latest(@, tt)]
        /\ dataTimes' \in [Datas -> SUBSET Times] /\ UNCHANGED txnsVars
        /\ \A c \in Datas \ {dd} : dataTimes'[c] = dataTimes[c]
    BY <1>1, <2>1 DEF Inv, TypeOK
  <2>3. \A s \in Times : s \in dataTimes'[dd] <=>
          \/ s \in dataTimes[dd]
          \/ \E x \in appends : x.data = dd /\ x.ts = s /\ x.ts < tt
    BY <1>4, <2>1
  <2>4. /\ Grow /\ DataIsDefinite'
        /\ dataUpper' \in [Datas -> 0 .. upper]
        /\ dataUpper'[dd] \in Int /\ tt <= dataUpper'[dd]
    BY <2>2, <2>3, DataAdvances
  <2>. QED
    BY <2>1, <2>2, <2>4
<1>6. TypeOK'
  <2>1. NoRead \in [data : Datas \cup {"none"}, asOf : Times,
                    latestWrite : Times \cup {None}, emptyTo : 0 .. upper]
    BY <1>3, TxnAssumption DEF NoRead, Read, Times, Numbers
  <2>2. read' \in [Readers ->
         [data : Datas \cup {"none"}, asOf : Times,
          latestWrite : Times \cup {None}, emptyTo : 0 .. upper]]
    BY <1>1, <2>1 DEF Inv, TypeOK
  <2>. QED
    BY <1>1, <1>5, <2>2 DEF Inv, TypeOK, txnsVars
<1>7. \A q \in Readers : ReadInv(q)'
  <2>1. read'[r] = NoRead /\ \A q \in Readers \ {r} : read'[q] = read[q]
    BY <1>1 DEF Inv, TypeOK
  <2>2. ReadInv(r)'
    BY <2>1 DEF ReadInv
  <2>. QED
    BY <1>5, <1>6, <2>1, <2>2, ReadFrame
<1>8. \A k \in Handles : MarkInv(k)' /\ OpInv(k)'
  BY <1>1, <1>5, <1>6, HandleFrame
<1>9. LogInv' /\ LogIsWellFormed' /\ ForgottenIsApplied' /\ SinceBehindUnapplied'
  BY <1>1, <1>5, <1>6, LogFrame, SinceFrame DEF txnsVars
<1>. QED
  BY <1>5, <1>6, <1>7, <1>8, <1>9 DEF Inv

-----------------------------------------------------------------------------
(* The invariant.                                                          *)

(* A new txns shard, no handle open and no read under way.                 *)
LEMMA InitInv == Init => Inv
<1>. SUFFICES ASSUME Init PROVE Inv
  OBVIOUS
<1>1. TypeOK
  BY TxnAssumption
  DEF Init, TypeOK, Closed, Op, NoRead, Read, Times
<1>2. \A h \in Handles : op[h].pc = "closed" /\ tidy[h] = {}
  BY DEF Init, Closed, Op
<1>3. \A r \in Readers : read[r] = NoRead
  BY DEF Init
<1>4. LogInv /\ LogIsWellFormed /\ ForgottenIsApplied /\ SinceBehindUnapplied
  BY DEF Init, LogInv, Entries, LogIsWellFormed, ForgottenIsApplied,
         SinceBehindUnapplied
<1>5. DataIsDefinite
  BY DEF Init, DataIsDefinite
<1>6. \A h \in Handles : MarkInv(h) /\ OpInv(h)
  BY <1>2 DEF Init, MarkInv, OpInv
<1>7. \A r \in Readers : ReadInv(r)
  BY <1>3 DEF ReadInv
<1>. QED
  BY <1>1, <1>4, <1>5, <1>6, <1>7 DEF Inv

(* The invariant speaks of the variables only.                             *)
LEMMA StutterInv == Inv /\ UNCHANGED vars => Inv'
<1>. SUFFICES ASSUME Inv, UNCHANGED vars PROVE Inv'
  OBVIOUS
<1>1. TypeOK' /\ Numbers
  BY Typed DEF Inv, TypeOK, vars, txnsVars, dataVars
<1>2. Grow
  BY <1>1 DEF Grow, vars, txnsVars, dataVars, Numbers
<1>3. \A k \in Handles : MarkInv(k)' /\ OpInv(k)'
  BY <1>1, <1>2, HandleFrame DEF vars
<1>4. \A r \in Readers : ReadInv(r)'
  BY <1>1, <1>2, ReadFrame DEF vars
<1>5. /\ LogInv' /\ LogIsWellFormed' /\ ForgottenIsApplied'
      /\ SinceBehindUnapplied' /\ DataIsDefinite'
  BY <1>1, <1>2, LogFrame, SinceFrame
  DEF vars, txnsVars, dataVars, Inv, DataIsDefinite
<1>. QED
  BY <1>1, <1>3, <1>4, <1>5 DEF Inv

(* Every step keeps the invariant, action by action.                       *)
LEMMA NextInv == Inv /\ [Next]_vars => Inv'
<1>. SUFFICES ASSUME Inv, [Next]_vars PROVE Inv'
  OBVIOUS
<1>1. ASSUME NEW h \in Handles, OpenHandle(h) PROVE Inv'
  BY <1>1, OpenHandlePreserves
<1>2. ASSUME NEW h \in Handles, Crash(h) PROVE Inv'
  BY <1>2, ClosePreserves DEF Crash
<1>3. ASSUME NEW h \in Handles, NEW ts \in Times, NEW datas \in SUBSET Datas,
             \/ CommitUnregistered(h, ts, datas)
             \/ PrepareForget(h, ts, datas)
             \/ \E kind \in {"commit", "register"} : Prepare(h, kind, ts, datas)
      PROVE  Inv'
  BY <1>3, ClosePreserves, PrepareForgetPreserves, PreparePreserves
  DEF CommitUnregistered
<1>4. ASSUME NEW h \in Handles, CaaMismatch(h) \/ TooLate(h) PROVE Inv'
  BY <1>4, GiveUpPreserves
<1>5. ASSUME NEW h \in Handles, CommitCaa(h) \/ RegisterCaa(h) \/ ForgetCaa(h)
      PROVE  Inv'
  BY <1>5, CommitCaaPreserves, RegisterCaaPreserves, ForgetCaaPreserves
<1>6. ASSUME NEW h \in Handles,
             BeginApply(h) \/ AppliedBefore(h) \/ AppliedAfter(h)
      PROVE  Inv'
  BY <1>6, BeginApplyPreserves, AppliedBeforePreserves, AppliedAfterPreserves
<1>7. ASSUME NEW h \in Handles, CompactTo(h) PROVE Inv'
  BY <1>7, CompactToPreserves
<1>8. ASSUME NEW h \in Handles, NEW d \in Datas, ApplyCaa(h, d) PROVE Inv'
  BY <1>8, ApplyCaaPreserves
<1>9. ASSUME NEW r \in Readers, UnblockRead(r) PROVE Inv'
  BY <1>9, UnblockReadPreserves
<1>10. ASSUME NEW r \in Readers, NEW d \in Datas, NEW asOf \in Times,
              DataSnapshot(r, d, asOf)
       PROVE  Inv'
  BY <1>10, DataSnapshotPreserves
<1>11. CASE UNCHANGED vars
  BY <1>11, StutterInv
<1>. QED
  BY <1>1, <1>2, <1>3, <1>4, <1>5, <1>6, <1>7, <1>8, <1>9, <1>10, <1>11
  DEF Next

(* The invariant holds of every behaviour.                                 *)
LEMMA Invariance == Spec => []Inv
  BY InitInv, NextInv, PTL DEF Spec

-----------------------------------------------------------------------------
(* The theorems.                                                           *)

(* The variables keep their types; no data shard is ahead of the txns      *)
(* shard.                                                                  *)
THEOREM TypeCorrect == Spec => []TypeOK
<1>1. Inv => TypeOK
  BY DEF Inv
<1>. QED
  BY <1>1, Invariance, PTL

(* Every transaction is applied to its data shards exactly once and at its *)
(* time, whoever applies it (apply_le, forget, or another process after a  *)
(* crash), and no reader fills its place with nothing (unblock_read).      *)
THEOREM Definite == Spec => []DataIsDefinite
<1>1. Inv => DataIsDefinite
  BY DEF Inv
<1>. QED
  BY <1>1, Invariance, PTL

(* The entries of the txns shard are what TxnsCache expects to read back.  *)
THEOREM WellFormedLog == Spec => []LogIsWellFormed
<1>1. Inv => LogIsWellFormed
  BY DEF Inv
<1>. QED
  BY <1>1, Invariance, PTL

(* forget leaves no unapplied write behind.                                *)
THEOREM ForgetIsSafe == Spec => []ForgottenIsApplied
<1>1. Inv => ForgottenIsApplied
  BY DEF Inv
<1>. QED
  BY <1>1, Invariance, PTL

(* compact_to never passes an unapplied write, register or forget.         *)
THEOREM CompactionIsSafe == Spec => []SinceBehindUnapplied
<1>1. Inv => SinceBehindUnapplied
  BY DEF Inv
<1>. QED
  BY <1>1, Invariance, PTL

(* A read that is unblocked has been unblocked by UnblockRead.             *)
LEMMA ReadEnds ==
    ASSUME Inv, [Next]_vars, NEW r \in Readers, read[r] # NoRead,
           read'[r] = NoRead
    PROVE  UnblockRead(r)
<1>1. \A h \in Handles :
         \/ OpenHandle(h) \/ Crash(h) \/ CaaMismatch(h) \/ TooLate(h)
         \/ CommitCaa(h) \/ RegisterCaa(h) \/ ForgetCaa(h)
         \/ BeginApply(h) \/ AppliedBefore(h) \/ AppliedAfter(h)
         \/ CompactTo(h)
         => read' = read
  BY DEF OpenHandle, Crash, Close, CaaMismatch, TooLate, CommitCaa,
         RegisterCaa, ForgetCaa, Caa, BeginApply, AppliedBefore, AppliedAfter,
         ApplyDone, CompactTo
<1>2. \A h \in Handles, ts \in Times, datas \in SUBSET Datas :
         \/ CommitUnregistered(h, ts, datas) \/ PrepareForget(h, ts, datas)
         \/ \E kind \in {"commit", "register"} : Prepare(h, kind, ts, datas)
         => read' = read
  BY DEF CommitUnregistered, Close, PrepareForget, Prepare
<1>3. \A h \in Handles, d \in Datas : ApplyCaa(h, d) => read' = read
  BY DEF ApplyCaa
<1>4. CASE \E q \in Readers : UnblockRead(q)
  BY <1>4 DEF UnblockRead, Inv, TypeOK
<1>5. CASE \E q \in Readers, d \in Datas, asOf \in Times :
             DataSnapshot(q, d, asOf)
  BY <1>5 DEF DataSnapshot, Inv, TypeOK
<1>6. UNCHANGED vars => read' = read
  BY DEF vars
<1>. QED
  BY <1>1, <1>4, <1>5, <1>2, <1>3, <1>6 DEF Next

(* data_snapshot and unblock_read: a read sees every transaction up to its *)
(* as_of, also those that no living process has applied.                   *)
THEOREM CompleteReads == Spec => ReadsAreComplete
<1>1. ASSUME Inv, [Next]_vars, NEW r \in Readers, read[r] # NoRead,
             read'[r] = NoRead
      PROVE  ReadSees(r)
  <2>. DEFINE d == read[r].data
              asOf == read[r].asOf
  <2>1. UnblockRead(r)
    BY <1>1, ReadEnds
  <2>2. Inv' /\ read[r].emptyTo <= dataUpper'[d] /\ d \in Datas
    BY <1>1, <2>1, UnblockReadPreserves, UnblockedIsApplied
  <2>3. /\ asOf < read[r].emptyTo /\ asOf \in Int /\ read[r].emptyTo \in Int
        /\ dataUpper'[d] \in Int
        /\ \A b \in appends' : b.ts \in Int
    BY <1>1, <2>2, Typed, TypedNext DEF Inv, ReadInv, Numbers, Entries
  <2>4. asOf < dataUpper'[d]
    BY <2>2, <2>3
  <2>5. dataTimes'[d] = {b.ts : b \in {x \in appends' :
                                  x.data = d /\ x.ts < dataUpper'[d]}}
    BY <2>2 DEF Inv, DataIsDefinite
  <2>6. {t \in dataTimes'[d] : t <= asOf} =
          {b.ts : b \in {x \in appends' : x.data = d /\ x.ts <= asOf}}
    BY <2>3, <2>4, <2>5
  <2>. QED
    BY <2>4, <2>6 DEF ReadSees
<1>2. Inv /\ [Next]_vars =>
        [\A r \in Readers : read[r] # NoRead /\ read'[r] = NoRead
                              => ReadSees(r)]_vars
  BY <1>1
<1>. QED
  BY <1>2, Invariance, PTL DEF Spec, ReadsAreComplete
=============================================================================
