----------------------------- MODULE GroupCommit -----------------------------
(***************************************************************************)
(* Timestamps for reads and writes of tables: the timestamp oracle and its *)
(* batching (timestamp-oracle), the group committer (adapter               *)
(* coord/appends.rs), read-then-write statements with optimistic           *)
(* concurrency control (frontend_read_then_write.rs), and the take-over by *)
(* a newer environmentd, which fences the older one through the catalog    *)
(* shard and resets the system tables (coord.rs, durable/persist.rs).      *)
(*                                                                         *)
(* The txns shard is what TxnWal shows it to be: an append at ts succeeds  *)
(* if ts is not before the upper, and moves the upper to ts + 1.  All      *)
(* tables are one: a write is a time of the log.                           *)
(***************************************************************************)
EXTENDS Integers

CONSTANTS
    Procs,         \* environmentds, by deploy generation; the first serves
    Sessions,      \* client sessions
    MaxTime,       \* bound: the last timestamp
    MaxJump,       \* bound: how far the clock moves a write timestamp
    MaxAttempts,   \* GROUP_COMMIT_MAX_ATTEMPTS
    MaxOccRetries  \* max_occ_retries

ASSUME CommitAssumption ==
    /\ Procs \subseteq Nat /\ 1 \in Procs /\ \A p \in Procs : p >= 1
    /\ MaxTime \in Nat /\ MaxJump \in Nat \ {0}
    /\ MaxAttempts \in Nat /\ MaxOccRetries \in Nat

VARIABLES
    oracle,      \* the row of the timeline in Postgres
    txnsUpper,   \* the upper of the txns shard
    log,         \* the times of the writes in it
    catalog,     \* the catalog shard: its upper and its fence token
    proc,        \* per process: its life, cached catalog upper, boot timestamp
    barrier,     \* per process: the append that advances all tables at boot
    commit,      \* per process: the group committer
    job,         \* per process: what it writes, and for whom
    ddl,         \* per process: the timestamp of a catalog transaction
    batch,       \* per process: the worker of BatchingTimestampOracle
    session,     \* per session: its statement
    occ,         \* per session: run_occ_loop
    known        \* the latest time of which a client has seen the tables

shared == <<oracle, txnsUpper, log, catalog>>
committer == <<commit, job>>
clients == <<session, occ, known>>
vars == <<shared, proc, barrier, committer, ddl, batch, clients>>

-----------------------------------------------------------------------------
Times == 0 .. MaxTime
Uppers == 0 .. MaxTime + 1
None == -1
Blind == {None}   \* a write that depends on nothing it has read

Latest(a, b) == IF a <= b THEN b ELSE a
Earliest(a, b) == IF a <= b THEN a ELSE b
Before(t) == {u \in log : u < t}

Proc(pc, seen, ts) == [pc |-> pc, seen |-> seen, ts |-> ts]
Off == Proc("off", 0, 0)
Halted == Proc("halted", 0, 0)
NoBarrier == [state |-> "none", ts |-> 0]
Committer(pc, ts, attempt) == [pc |-> pc, ts |-> ts, attempt |-> attempt]
Free == Committer("idle", 0, 0)
Job(kind, base, for) == [kind |-> kind, base |-> base, for |-> for]
NoJob == Job("none", Blind, {})
NoBatch == [pc |-> "idle", members |-> {}, ts |-> 0]
Session(pc, kind, at, floor) ==
    [pc |-> pc, kind |-> kind, at |-> at, floor |-> floor]
IdleSession == Session("idle", "none", 0, 0)
Occ(asOf, upper, target, base, retries) ==
    [asOf |-> asOf, upper |-> upper, target |-> target, base |-> base,
     retries |-> retries]
NoOcc == Occ(0, 0, None, Blind, 0)

(* The first process has just committed at time 0.                         *)
Init ==
    /\ oracle = [read |-> 0, write |-> 0]
    /\ txnsUpper = 1 /\ log = {}
    /\ catalog = [upper |-> 1, fence |-> 1]
    /\ proc = [p \in Procs |-> IF p = 1 THEN Proc("serving", 1, 0) ELSE Off]
    /\ barrier = [p \in Procs |-> NoBarrier]
    /\ commit = [p \in Procs |-> Free]
    /\ job = [p \in Procs |-> NoJob]
    /\ ddl = [p \in Procs |-> None]
    /\ batch = [p \in Procs |-> NoBatch]
    /\ session = [s \in Sessions |-> IdleSession]
    /\ occ = [s \in Sessions |-> NoOcc]
    /\ known = 0

Serving(p) == proc[p].pc = "serving"
Alive(p) == proc[p].pc \notin {"off", "halted"}

-----------------------------------------------------------------------------
(* PostgresTimestampOracle: each is one statement on the row.  A retry     *)
(* after a lost answer looks like a clock that has moved on.               *)

WriteTs(ts) ==
    /\ ts \in Times
    /\ ts \in oracle.write + 1 .. oracle.write + MaxJump
    /\ oracle' = [read |-> oracle.read, write |-> ts]

ApplyWriteReadOnly(ts) ==  \* mutant: leaves write_ts behind
    oracle' = [oracle EXCEPT !.read = Latest(@, ts)]

ApplyWrite(ts) ==
    oracle' = [read |-> Latest(oracle.read, ts),
               write |-> Latest(oracle.write, ts)]

(* A process that halts, or is killed, takes its statements with it.       *)
Halt(p) ==
    /\ proc' = [proc EXCEPT ![p] = Halted]
    /\ barrier' = [barrier EXCEPT ![p] = NoBarrier]
    /\ commit' = [commit EXCEPT ![p] = Free]
    /\ job' = [job EXCEPT ![p] = NoJob]
    /\ ddl' = [ddl EXCEPT ![p] = None]
    /\ batch' = [batch EXCEPT ![p] = NoBatch]
    /\ session' = [s \in Sessions |->
         IF session[s].at = p THEN IdleSession ELSE session[s]]
    /\ occ' = [s \in Sessions |->
         IF session[s].at = p THEN NoOcc ELSE occ[s]]
    /\ UNCHANGED <<shared, known>>

Crash(p) == Alive(p) /\ Halt(p)

-----------------------------------------------------------------------------
(* The catalog shard.  A process learns that it is fenced only when the    *)
(* upper it has cached is too low and it has to go to Persist.             *)

Fenced(p) == catalog.fence > p

Advance(p, upper) ==
    /\ catalog' = [upper |-> upper, fence |-> catalog.fence]
    /\ proc' = [proc EXCEPT ![p] = Proc(proc[p].pc, upper, proc[p].ts)]

(* The catalog transaction of a DDL statement: a timestamp from the oracle *)
(* and then a commit at it, or at the upper if that is later.              *)
BeginDdl(p) ==
    /\ Serving(p) /\ ddl[p] = None
    /\ \E ts \in Times :
         /\ WriteTs(ts)
         /\ ddl' = [ddl EXCEPT ![p] = ts]
    /\ UNCHANGED <<txnsUpper, log, catalog, proc, barrier, committer, batch,
                   clients>>

CommitTransaction(p) ==
    LET upper == Latest(ddl[p], catalog.upper) + 1
    IN  /\ ddl[p] # None /\ ~Fenced(p)
        /\ upper \in Uppers
        /\ Advance(p, upper)
        /\ ddl' = [ddl EXCEPT ![p] = None]
        /\ UNCHANGED <<oracle, txnsUpper, log, barrier, committer, batch,
                       clients>>

SetPc(s, pc) ==
    session' = [session EXCEPT ![s] =
      Session(pc, session[s].kind, session[s].at, session[s].floor)]

-----------------------------------------------------------------------------
(* GroupCommitter: one command at a time.                                  *)

GoTo(p, pc) ==
    commit' = [commit EXCEPT ![p] =
                 Committer(pc, commit[p].ts, commit[p].attempt)]

StartGroupCommit(p) ==
    /\ Serving(p) /\ commit[p].pc = "idle"
    /\ commit' = [commit EXCEPT ![p] = Committer("stamp", 0, 0)]
    /\ job' = [job EXCEPT ![p] = Job("group", Blind, {})]
    /\ UNCHANGED <<shared, proc, barrier, ddl, batch, clients>>

(* write_to_txns, from the top of its loop.                                *)
StampGroupCommit(p) ==
    /\ commit[p].pc = "stamp"
    /\ commit[p].attempt < Latest(MaxAttempts, 1)
    /\ \E ts \in Times :
         /\ WriteTs(ts)
         /\ commit' = [commit EXCEPT ![p] =
                         Committer("advance", ts, commit[p].attempt + 1)]
    /\ UNCHANGED <<txnsUpper, log, catalog, proc, barrier, job, ddl, batch,
                   clients>>

StartTimestampedWrite(p, s) ==
    /\ commit[p].pc = "idle"
    /\ session[s].pc = "submitted" /\ session[s].at = p
    /\ commit' = [commit EXCEPT ![p] = Committer("peek", occ[s].target, 0)]
    /\ job' = [job EXCEPT ![p] = Job("timed", occ[s].base, {s})]
    /\ SetPc(s, "writing")
    /\ UNCHANGED <<shared, proc, barrier, ddl, batch, occ, known>>

PeekTimestampedWrite(p) ==
    /\ commit[p].pc = "peek"
    /\ oracle.write < commit[p].ts
    /\ GoTo(p, "advance")
    /\ UNCHANGED <<shared, proc, barrier, job, ddl, batch, clients>>

(* advance_upper consults Persist only if the cached upper is too low.     *)
AdvanceUpperCached(p) ==
    /\ commit[p].pc = "advance"
    /\ commit[p].ts < proc[p].seen
    /\ GoTo(p, "txns")
    /\ UNCHANGED <<shared, proc, barrier, job, ddl, batch, clients>>

AdvanceUpper(p) ==
    /\ commit[p].pc = "advance"
    /\ proc[p].seen <= commit[p].ts /\ ~Fenced(p)
    /\ Advance(p, Latest(catalog.upper, commit[p].ts + 1))
    /\ GoTo(p, "txns")
    /\ UNCHANGED <<oracle, txnsUpper, log, barrier, job, ddl, batch, clients>>

AttemptWriteAnyway(p) ==  \* mutant: overlooks that the upper is past
    /\ commit[p].pc = "txns"
    /\ log' = log \cup {commit[p].ts}
    /\ txnsUpper' = Latest(txnsUpper, commit[p].ts + 1)
    /\ GoTo(p, "apply")
    /\ UNCHANGED <<oracle, catalog, proc, barrier, job, ddl, batch, clients>>

AttemptWrite(p) ==
    /\ commit[p].pc = "txns"
    /\ txnsUpper <= commit[p].ts
    /\ log' = log \cup {commit[p].ts}
    /\ txnsUpper' = commit[p].ts + 1
    /\ GoTo(p, "apply")
    /\ UNCHANGED <<oracle, catalog, proc, barrier, job, ddl, batch, clients>>

RetryWrite(p) ==
    /\ commit[p].pc = "txns" /\ job[p].kind # "timed"
    /\ commit[p].ts < txnsUpper
    /\ GoTo(p, "stamp")
    /\ UNCHANGED <<shared, proc, barrier, job, ddl, batch, clients>>

(* The timestamp of an OCC write has passed, in the oracle or in the txns  *)
(* shard: the loop adopts the next eligible one, until it has retried too  *)
(* often.                                                                  *)
Passed(p) == \/ commit[p].pc = "peek" /\ commit[p].ts <= oracle.write
             \/ /\ commit[p].pc = "txns" /\ job[p].kind = "timed"
                /\ commit[p].ts < txnsUpper
NextEligible(p) == IF commit[p].pc = "peek" THEN oracle.write + 1
                   ELSE commit[p].ts + 1

TimestampPassed(p) ==
    LET again == {s \in job[p].for : occ[s].retries < MaxOccRetries}
    IN  /\ Passed(p)
        /\ session' = [s \in Sessions |->
             IF s \in again THEN Session("loop", session[s].kind,
                                        session[s].at, session[s].floor)
             ELSE IF s \in job[p].for THEN IdleSession ELSE session[s]]
        /\ occ' = [s \in Sessions |->
             IF s \in again THEN Occ(occ[s].asOf, occ[s].upper, NextEligible(p),
                                    occ[s].base, occ[s].retries + 1)
             ELSE IF s \in job[p].for THEN NoOcc ELSE occ[s]]
        /\ commit' = [commit EXCEPT ![p] = Free]
        /\ job' = [job EXCEPT ![p] = NoJob]
        /\ UNCHANGED <<shared, proc, barrier, ddl, batch, known>>

(* The write is applied to the oracle and then acknowledged.  The write    *)
(* that resets the system tables ends the take-over.                       *)
FinishCommit(p) ==
    /\ commit[p].pc = "apply"
    /\ ApplyWrite(commit[p].ts)
    /\ known' = Latest(known, commit[p].ts)
    /\ commit' = [commit EXCEPT ![p] = Free]
    /\ job' = [job EXCEPT ![p] = NoJob]
    /\ session' = [s \in Sessions |->
         IF s \in job[p].for THEN IdleSession ELSE session[s]]
    /\ occ' = [s \in Sessions |-> IF s \in job[p].for THEN NoOcc ELSE occ[s]]
    /\ proc' = IF job[p].kind = "takeover"
               THEN [proc EXCEPT ![p] =
                       Proc("serving", proc[p].seen, proc[p].ts)]
               ELSE proc
    /\ UNCHANGED <<txnsUpper, log, catalog, barrier, ddl, batch>>

-----------------------------------------------------------------------------
(* A statement asks BatchingTimestampOracle for its read timestamp.  The   *)
(* worker takes all requests that wait and reads the oracle once for them. *)

Request(s, p, kind) ==
    /\ session[s].pc = "idle"
    /\ Serving(p)
    /\ session' = [session EXCEPT ![s] = Session("queued", kind, p, known)]
    /\ UNCHANGED <<shared, proc, barrier, committer, ddl, batch, occ, known>>

TakeBatch(p) ==
    LET queued == {s \in Sessions :
                     session[s].pc = "queued" /\ session[s].at = p}
    IN  /\ batch[p].pc = "idle"
        /\ queued # {}
        /\ batch' = [batch EXCEPT ![p] =
             [pc |-> "query", members |-> queued, ts |-> 0]]
        /\ session' = [s \in Sessions |->
             IF s \in queued
             THEN Session("batched", session[s].kind, p, session[s].floor)
             ELSE session[s]]
        /\ UNCHANGED <<shared, proc, barrier, committer, ddl, occ, known>>

ReadTs(p) ==
    /\ batch[p].pc = "query"
    /\ batch' = [batch EXCEPT ![p] =
         [pc |-> "answer", members |-> batch[p].members, ts |-> oracle.read]]
    /\ UNCHANGED <<shared, proc, barrier, committer, ddl, clients>>

(* A read goes on at the timestamp; a read-then-write subscribes at it.    *)
Start(answered, ts) ==
    /\ session' = [s \in Sessions |->
         IF s \in answered
         THEN Session(IF session[s].kind = "read" THEN "read" ELSE "loop",
                      session[s].kind, session[s].at, session[s].floor)
         ELSE session[s]]
    /\ occ' = [s \in Sessions |->
         IF s \in answered THEN Occ(ts, ts, None, Blind, 0) ELSE occ[s]]

AnswerBatchAndQueued(p) ==  \* mutant: also those who came meanwhile
    /\ batch[p].pc = "answer"
    /\ Start({s \in Sessions : session[s].at = p /\
                session[s].pc \in {"queued", "batched"}}, batch[p].ts)
    /\ batch' = [batch EXCEPT ![p] = NoBatch]
    /\ UNCHANGED <<shared, proc, barrier, committer, ddl, known>>

AnswerBatch(p) ==
    /\ batch[p].pc = "answer"
    /\ Start(batch[p].members, batch[p].ts)
    /\ batch' = [batch EXCEPT ![p] = NoBatch]
    /\ UNCHANGED <<shared, proc, barrier, committer, ddl, known>>

servers == <<shared, proc, barrier, committer, ddl, batch>>

Drop(s) ==
    /\ session' = [session EXCEPT ![s] = IdleSession]
    /\ occ' = [occ EXCEPT ![s] = NoOcc]
    /\ UNCHANGED servers

(* The client sees the tables as of asOf.                                  *)
Respond(s) ==
    /\ known' = Latest(known, occ[s].asOf)
    /\ Drop(s)

(* The tables can be read at a time once the upper is past it.             *)
FinishRead(s) ==
    /\ session[s].pc = "read"
    /\ occ[s].asOf < txnsUpper
    /\ Respond(s)

-----------------------------------------------------------------------------
(* run_occ_loop: the subscribe sends the diffs and its progress.           *)

SetOcc(s, asOf, upper, target, base) ==
    occ' = [occ EXCEPT ![s] = Occ(asOf, upper, target, base, occ[s].retries)]

Progress(s) ==
    /\ session[s].pc = "loop"
    /\ \E f \in Uppers :
         /\ occ[s].upper < f /\ f <= txnsUpper
         /\ SetOcc(s, occ[s].asOf, f, occ[s].target, occ[s].base)
    /\ UNCHANGED <<servers, session, known>>

FoldTarget(s) == IF occ[s].target = None THEN occ[s].asOf + 1
                 ELSE occ[s].target

(* No rows match.  The answer holds as of what is complete and folded, and *)
(* ensure_read_linearized waits for the oracle to get there.               *)
NoRowsMatched(s) ==
    /\ session[s].pc = "loop"
    /\ occ[s].asOf < occ[s].upper
    /\ SetPc(s, "linearize")
    /\ SetOcc(s, Earliest(occ[s].upper, FoldTarget(s)) - 1, occ[s].upper,
              occ[s].target, occ[s].base)
    /\ UNCHANGED <<servers, known>>

EnsureReadLinearized(s) ==
    /\ session[s].pc = "linearize"
    /\ occ[s].asOf <= oracle.read
    /\ Respond(s)

ChooseTarget(s) ==
    /\ session[s].pc = "loop"
    /\ occ[s].target = None
    /\ occ[s].asOf < occ[s].upper
    /\ oracle.write < MaxTime
    /\ SetOcc(s, occ[s].asOf, occ[s].upper,
              Latest(oracle.write + 1, occ[s].asOf + 1), occ[s].base)
    /\ UNCHANGED <<servers, session, known>>

SubmitUncertified(s) ==  \* mutant: does not wait for the frontier
    /\ session[s].pc = "loop"
    /\ occ[s].target \in Times
    /\ SetPc(s, "submitted")
    /\ SetOcc(s, occ[s].asOf, occ[s].upper, occ[s].target,
              Before(occ[s].target))
    /\ UNCHANGED <<servers, known>>

(* The payload is every diff below the target, certified by the frontier.  *)
(* How OccState folds the diffs of several messages into it is left out;   *)
(* the frontier has passed the target, so it has received all of them.     *)
Submit(s) ==
    /\ session[s].pc = "loop"
    /\ occ[s].target \in Times
    /\ occ[s].target <= occ[s].upper
    /\ SetPc(s, "submitted")
    /\ SetOcc(s, occ[s].asOf, occ[s].upper, occ[s].target,
              Before(occ[s].target))
    /\ UNCHANGED <<servers, known>>

(* A statement is cancelled, or times out, while it waits.                 *)
Cancel(s) ==
    /\ session[s].pc \in {"read", "loop", "linearize"}
    /\ Drop(s)
    /\ UNCHANGED known

-----------------------------------------------------------------------------
(* A newer environmentd takes over.                                        *)

SetBoot(p, pc, ts) ==
    proc' = [proc EXCEPT ![p] = Proc(pc, proc[p].seen, ts)]

(* open_inner fences the older process out of the catalog.                 *)
OpenCatalog(p) ==
    /\ proc[p].pc = "off" /\ ~Fenced(p)
    /\ catalog.upper < MaxTime
    /\ catalog' = [upper |-> catalog.upper + 1, fence |-> p]
    /\ proc' = [proc EXCEPT ![p] = Proc("opened", catalog.upper + 1, 0)]
    /\ UNCHANGED <<oracle, txnsUpper, log, barrier, committer, ddl, batch,
                   clients>>

(* What is committed while the catalog is opened (migrations, and in       *)
(* Catalog::open a transaction at boot_ts and others at the upper) takes   *)
(* timestamps the oracle does not know of.                                 *)
AfterCommit == [opened |-> "opened", catalogOpen |-> "catalogOpened",
                catalogOpened |-> "catalogOpened"]
BootCommit(p) ==
    LET at == IF proc[p].pc = "catalogOpen"
              THEN Latest(proc[p].ts, catalog.upper) ELSE catalog.upper
    IN  /\ proc[p].pc \in {"opened", "catalogOpen", "catalogOpened"}
        /\ ~Fenced(p) /\ at < MaxTime
        /\ catalog' = [upper |-> at + 1, fence |-> catalog.fence]
        /\ proc' = [proc EXCEPT ![p] =
             Proc(AfterCommit[proc[p].pc], at + 1, proc[p].ts)]
        /\ UNCHANGED <<oracle, txnsUpper, log, barrier, committer, ddl, batch,
                       clients>>

(* The upper is read before and after Catalog::open, each time for the     *)
(* oracle.                                                                 *)
BootReadCatalog(p) ==
    /\ \/ /\ proc[p].pc = "opened"
          /\ SetBoot(p, "bootApply", catalog.upper)
       \/ /\ proc[p].pc = "catalogOpened"
          /\ SetBoot(p, "openApply", Latest(proc[p].ts, catalog.upper))
    /\ catalog.upper <= MaxTime
    /\ UNCHANGED <<shared, barrier, committer, ddl, batch, clients>>

AfterApply == [bootApply |-> "bootStamp", openApply |-> "registerStamp",
               registerApply |-> "barrierStamp", barrierApply |-> "readTs"]

(* The four calls of apply_write before the process serves.                *)
BootApply(p) ==
    /\ proc[p].pc \in {"bootApply", "openApply", "registerApply",
                       "barrierApply"}
    /\ ApplyWrite(proc[p].ts)
    /\ SetBoot(p, AfterApply[proc[p].pc], proc[p].ts)
    /\ UNCHANGED <<txnsUpper, log, catalog, barrier, committer, ddl, batch,
                   clients>>

AfterStamp == [bootStamp |-> "catalogOpen", registerStamp |-> "register",
               barrierStamp |-> "sendBarrier"]
BootStamp(p) ==
    /\ proc[p].pc \in {"bootStamp", "registerStamp", "barrierStamp"}
    /\ \E ts \in Times :
         WriteTs(ts) /\ SetBoot(p, AfterStamp[proc[p].pc], ts)
    /\ UNCHANGED <<txnsUpper, log, catalog, barrier, committer, ddl, batch,
                   clients>>

RegisterTables(p) ==
    /\ proc[p].pc = "register"
    /\ txnsUpper <= proc[p].ts
    /\ txnsUpper' = proc[p].ts + 1
    /\ SetBoot(p, "registerApply", proc[p].ts)
    /\ UNCHANGED <<oracle, log, catalog, barrier, committer, ddl, batch,
                   clients>>

SetBarrier(p, state, ts) ==
    barrier' = [barrier EXCEPT ![p] = [state |-> state, ts |-> ts]]

(* The barrier: an empty append to all tables, sent to the table worker    *)
(* and not waited for until the snapshots are taken.                       *)
SendBarrier(p) ==
    /\ proc[p].pc = "sendBarrier"
    /\ SetBoot(p, "barrierApply", proc[p].ts)
    /\ SetBarrier(p, "sent", proc[p].ts)
    /\ UNCHANGED <<shared, committer, ddl, batch, clients>>

Barrier(p) ==
    /\ barrier[p].state = "sent"
    /\ txnsUpper <= barrier[p].ts
    /\ txnsUpper' = barrier[p].ts + 1
    /\ SetBarrier(p, "landed", barrier[p].ts)
    /\ UNCHANGED <<oracle, log, catalog, proc, committer, ddl, batch, clients>>

BootReadTs(p) ==
    /\ proc[p].pc = "readTs"
    /\ SetBoot(p, "snapshot", oracle.read)
    /\ UNCHANGED <<shared, barrier, committer, ddl, batch, clients>>

(* The contents of the system tables, read once the upper allows it, are   *)
(* retracted by a group commit, provided that the barrier has landed.      *)
Snapshot(p) ==
    /\ proc[p].pc = "snapshot"
    /\ proc[p].ts < txnsUpper
    /\ barrier[p].state = "landed"
    /\ SetBoot(p, "takeover", proc[p].ts)
    /\ commit' = [commit EXCEPT ![p] = Committer("stamp", 0, 0)]
    /\ job' = [job EXCEPT ![p] = Job("takeover", Before(proc[p].ts + 1), {})]
    /\ UNCHANGED <<shared, barrier, ddl, batch, clients>>

Boot(p) ==
    \/ OpenCatalog(p) \/ BootCommit(p) \/ BootReadCatalog(p) \/ BootApply(p)
    \/ BootStamp(p) \/ RegisterTables(p) \/ SendBarrier(p) \/ Barrier(p)
    \/ BootReadTs(p) \/ Snapshot(p)

-----------------------------------------------------------------------------
(* A process that goes to the catalog and finds that it is fenced halts.   *)
FencedOut(p) ==
    /\ Fenced(p)
    /\ \/ proc[p].pc \in {"off", "opened", "catalogOpen", "catalogOpened"}
       \/ ddl[p] # None
       \/ commit[p].pc = "advance" /\ proc[p].seen <= commit[p].ts
    /\ Halt(p)

(* So does one that cannot write to the tables while it boots, or whose    *)
(* group commit has been tried too often.                                  *)
Terminate(p) ==
    /\ \/ proc[p].pc = "register" /\ proc[p].ts < txnsUpper
       \/ /\ proc[p].pc = "snapshot" /\ proc[p].ts < txnsUpper
          /\ barrier[p].state = "sent" /\ barrier[p].ts < txnsUpper
       \/ /\ commit[p].pc = "stamp"
          /\ commit[p].attempt >= Latest(MaxAttempts, 1)
    /\ Halt(p)

Next ==
    \/ \E p \in Procs :
         \/ Boot(p) \/ Crash(p) \/ FencedOut(p) \/ Terminate(p)
         \/ BeginDdl(p) \/ CommitTransaction(p)
         \/ StartGroupCommit(p) \/ StampGroupCommit(p)
         \/ PeekTimestampedWrite(p) \/ AdvanceUpperCached(p)
         \/ AdvanceUpper(p) \/ AttemptWrite(p) \/ RetryWrite(p)
         \/ TimestampPassed(p) \/ FinishCommit(p)
         \/ TakeBatch(p) \/ ReadTs(p) \/ AnswerBatch(p)
         \/ \E s \in Sessions :
              \/ StartTimestampedWrite(p, s)
              \/ \E kind \in {"read", "write"} : Request(s, p, kind)
    \/ \E s \in Sessions :
         \/ FinishRead(s) \/ Progress(s) \/ NoRowsMatched(s)
         \/ EnsureReadLinearized(s) \/ ChooseTarget(s) \/ Submit(s)
         \/ Cancel(s)

Spec == Init /\ [][Next]_vars

-----------------------------------------------------------------------------
ProcType ==
    [pc : {"off", "halted", "serving", "opened", "bootApply", "bootStamp",
           "catalogOpen", "catalogOpened", "openApply", "registerStamp",
           "register", "registerApply", "barrierStamp", "sendBarrier",
           "barrierApply", "readTs", "snapshot", "takeover"},
     seen : Uppers, ts : Times]
BarrierType ==
    [state : {"none", "sent", "landed"}, ts : Times]
CommitType ==
    [pc : {"idle", "stamp", "peek", "advance", "txns", "apply"},
     ts : Times, attempt : Nat]
JobType ==
    [kind : {"none", "group", "timed", "takeover"},
     base : SUBSET (Times \cup {None}), for : SUBSET Sessions]
BatchType ==
    [pc : {"idle", "query", "answer"}, members : SUBSET Sessions, ts : Times]
SessionType ==
    [pc : {"idle", "queued", "batched", "read", "loop", "linearize",
           "submitted", "writing"},
     kind : {"none", "read", "write"}, at : Procs \cup {0}, floor : Times]
OccType ==
    [asOf : Times, upper : Uppers, target : Uppers \cup {None},
     base : SUBSET (Times \cup {None}), retries : Nat]

(* The variables have their types, and no read timestamp is ahead of the   *)
(* write timestamps: "strictly less than all subsequently emitted write    *)
(* timestamps" (TimestampOracle).                                          *)
TypeOK ==
    /\ oracle \in [read : Times, write : Times]
    /\ oracle.read <= oracle.write
    /\ txnsUpper \in Uppers /\ log \subseteq Times
    /\ catalog \in [upper : Uppers, fence : Procs]
    /\ known \in Times
    /\ proc \in [Procs -> ProcType]
    /\ barrier \in [Procs -> BarrierType]
    /\ commit \in [Procs -> CommitType]
    /\ job \in [Procs -> JobType]
    /\ ddl \in [Procs -> Times \cup {None}]
    /\ batch \in [Procs -> BatchType]
    /\ session \in [Sessions -> SessionType]
    /\ occ \in [Sessions -> OccType]

(* Strict serializability: a statement reads at a time that is not before  *)
(* anything a client had written, or had seen in an answer, when it began, *)
(* whichever process it is sent to.                                        *)
ReadsAreLinearized ==
    \A s \in Sessions :
      session[s].pc \in {"read", "loop", "linearize"} =>
        session[s].floor <= occ[s].asOf

(* "Semantically a SELECT at target - 1 followed by an INSERT at target":  *)
(* a write that was computed from what its process had read is written on  *)
(* top of exactly that, whoever else writes.  This is so for OCC writes,   *)
(* and for the reset of the system tables by a newer process.              *)
Lands(p) == commit[p].pc = "txns" /\ commit'[p].pc = "apply"
WritesAreSerial ==
    [][\A p \in Procs : Lands(p) /\ job[p].base # Blind =>
         job[p].base = Before(commit[p].ts)]_vars

(* Once a newer process serves, nothing of an older one is written, though *)
(* that does not know yet that it is fenced (appends.rs: "observes the     *)
(* fence before another txns write").                                      *)
NoStaleWrites ==
    [][\A p, q \in Procs : Lands(p) /\ p < q => ~Serving(q)]_vars

-----------------------------------------------------------------------------
(* The inductive invariant of GroupCommitProofs.                           *)

AfterRegister == {"registerApply", "barrierStamp", "sendBarrier",
                  "barrierApply", "readTs", "snapshot", "takeover", "serving"}
AfterBootApply == AfterRegister \cup
    {"bootStamp", "catalogOpen", "catalogOpened", "openApply",
     "registerStamp", "register"}

(* Clients know of no time that the oracle does not serve.                 *)
KnownInv == known <= oracle.read

BatchInv ==
    \A p \in Procs :
      /\ \A s \in batch[p].members :
           session[s].pc = "batched" /\ session[s].at = p
      /\ batch[p].pc = "answer" =>
           /\ batch[p].ts <= oracle.read
           /\ \A s \in batch[p].members : session[s].floor <= batch[p].ts

SessionInv ==
    \A s \in Sessions :
      /\ session[s].floor <= known
      /\ session[s].pc # "idle" =>
           session[s].at \in Procs /\ Serving(session[s].at)
      /\ session[s].pc \in {"read", "loop", "linearize", "submitted",
                            "writing"} => session[s].floor <= occ[s].asOf
      /\ session[s].pc \in {"read", "loop", "submitted", "writing"} =>
           occ[s].asOf <= oracle.read
      /\ session[s].pc \in {"loop", "submitted", "writing"} =>
           /\ occ[s].target # None => occ[s].asOf < occ[s].target
           /\ occ[s].upper <= txnsUpper \/ occ[s].upper = occ[s].asOf
      /\ session[s].pc \in {"submitted", "writing"} =>
           /\ occ[s].target \in Times /\ occ[s].target <= txnsUpper
           /\ occ[s].base = Before(occ[s].target)

CommitInv ==
    \A p \in Procs :
      /\ commit[p].pc = "idle" => job[p].for = {}
      /\ commit[p].pc \notin {"idle", "stamp"} /\ job[p].kind = "timed" =>
           /\ commit[p].ts <= txnsUpper
           /\ job[p].base = Before(commit[p].ts)
      /\ job[p].kind = "timed" => commit[p].pc # "stamp"
      /\ commit[p].pc = "peek" => job[p].kind = "timed"
      /\ job[p].kind \notin {"timed", "takeover"} => job[p].base = Blind
      /\ job[p].kind = "takeover" => proc[p].pc = "takeover"
      /\ commit[p].pc # "idle" => proc[p].pc \in {"serving", "takeover"}
      /\ commit[p].pc = "txns" => commit[p].ts < proc[p].seen
      /\ \A s \in job[p].for :
           /\ job[p].kind = "timed"
           /\ session[s].pc = "writing" /\ session[s].at = p
           /\ occ[s].target = commit[p].ts

(* The catalog: who opened it last, and how far the others have seen it.   *)
CatalogInv ==
    /\ \A u \in log : u < txnsUpper
    /\ \A p \in Procs : proc[p].seen <= catalog.upper
    /\ \A q \in Procs : Alive(q) => q <= catalog.fence
    /\ \A p, q \in Procs : p < q =>
         /\ proc[q].pc = "bootApply" => proc[p].seen <= proc[q].ts
         /\ proc[q].pc \in AfterBootApply => proc[p].seen <= oracle.write
         /\ proc[q].pc = "register" => proc[p].seen < proc[q].ts
         /\ proc[q].pc \in AfterRegister => proc[p].seen < txnsUpper

(* What a process takes over stays as it is, or it can write no more.      *)
Doomed(q) == Fenced(q) /\ proc[q].seen < txnsUpper
TakeoverInv ==
    \A q \in Procs : Doomed(q) \/
      /\ proc[q].pc \in {"registerApply", "snapshot"} =>
           \A u \in log : u <= proc[q].ts
      /\ proc[q].pc \in {"barrierStamp", "sendBarrier", "barrierApply",
                         "readTs"} => \A u \in log : u <= oracle.read
      /\ job[q].kind = "takeover" /\ commit[q].pc \in {"stamp", "advance",
                                                          "txns"} =>
           job[q].base = log

Inv == /\ TypeOK /\ KnownInv /\ BatchInv /\ SessionInv /\ CommitInv
       /\ CatalogInv /\ TakeoverInv
=============================================================================
