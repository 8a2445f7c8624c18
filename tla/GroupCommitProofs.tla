-------------------------- MODULE GroupCommitProofs --------------------------
(***************************************************************************)
(* Proofs about GroupCommit, for any number of processes and sessions and  *)
(* any bound on the timestamps.  One lemma per action shows that it keeps  *)
(* Inv; the theorems then follow from Inv.                                 *)
(*                                                                         *)
(* The heart of it is CatalogInv: by the time a process has registered the *)
(* tables, the txns upper is past every catalog upper that an older one    *)
(* has cached, and the older one cannot cache a later one, since it would  *)
(* learn that it is fenced.  A writer writes at no time that its cached    *)
(* upper does not allow, so the older ones are shut out.                   *)
(***************************************************************************)
EXTENDS GroupCommit, TLAPS

(* Processes are numbers.                                                  *)
LEMMA ProcsAreInts == \A q \in Procs : q \in Int
  BY CommitAssumption

(* A process that is not fenced is the newest that has opened the catalog. *)
LEMMA NewestUnfenced ==
    ASSUME NEW p \in Procs, Inv, ~Fenced(p)
    PROVE  \A q \in Procs : p < q => ~Alive(q)
<1>1. catalog.fence \in Int /\ catalog.fence <= p
  BY ProcsAreInts DEF Inv, TypeOK, Fenced
<1>. QED
  BY <1>1, ProcsAreInts DEF Inv, CatalogInv

(* A commit to the catalog: only the newest process sees more of it.       *)
LEMMA CatalogCommit ==
    ASSUME NEW p \in Procs, Inv, ~Fenced(p),
           NEW pc, NEW seen \in Uppers, NEW ts \in Times,
           proc' = [proc EXCEPT ![p] = Proc(pc, seen, ts)],
           catalog' \in [upper : Uppers, fence : Procs],
           catalog.upper <= catalog'.upper, seen <= catalog'.upper,
           catalog'.fence = catalog.fence \/ catalog'.fence = p,
           \/ pc = proc[p].pc /\ ts = proc[p].ts
           \/ pc = "opened" /\ catalog'.fence = p
           \/ pc = "catalogOpened" /\ proc[p].pc = "catalogOpen",
           UNCHANGED <<oracle, log, txnsUpper>>
    PROVE  CatalogInv'
<1>1. /\ proc'[p].pc = pc /\ proc'[p].seen = seen /\ proc'[p].ts = ts
      /\ \A q \in Procs : q # p => proc'[q] = proc[q]
  BY DEF Inv, TypeOK, Proc
<1>2. /\ catalog.fence \in Int /\ catalog'.fence \in Int
      /\ catalog.fence <= catalog'.fence
  BY ProcsAreInts DEF Inv, TypeOK, Fenced
<1>3. /\ catalog.upper \in Int /\ catalog'.upper \in Int
      /\ \A q \in Procs : proc[q].seen \in Int
  BY CommitAssumption DEF Inv, TypeOK, ProcType, Uppers
<1>4. \A q \in Procs : proc'[q].seen <= catalog'.upper
  BY <1>1, <1>3 DEF Inv, CatalogInv
<1>5. \A q \in Procs : Alive(q)' => q <= catalog'.fence
  BY <1>1, <1>2, ProcsAreInts DEF Inv, CatalogInv, Alive
<1>6. \A q \in Procs : p < q => proc'[q].pc \in {"off", "halted"}
  BY <1>1, NewestUnfenced, ProcsAreInts DEF Alive
<1>7. \A a, b \in Procs : a < b =>
        /\ proc'[b].pc = "bootApply" => proc'[a].seen <= proc'[b].ts
        /\ proc'[b].pc \in AfterBootApply => proc'[a].seen <= oracle.write
        /\ proc'[b].pc = "register" => proc'[a].seen < proc'[b].ts
        /\ proc'[b].pc \in AfterRegister => proc'[a].seen < txnsUpper
  <2>1. SUFFICES ASSUME NEW a \in Procs, NEW b \in Procs, a < b,
                        proc'[b].pc \notin {"off", "halted"}
                 PROVE  <1>7!(a, b)!2
    BY DEF AfterBootApply, AfterRegister
  <2>2. a # p /\ proc'[a] = proc[a]
    BY <2>1, <1>1, <1>6
  <2>3. CASE b # p
    BY <2>1, <2>2, <2>3, <1>1 DEF Inv, CatalogInv
  <2>4. CASE b = p
    BY <2>1, <2>2, <2>4, <1>1 DEF Inv, CatalogInv, AfterBootApply,
       AfterRegister
  <2>. QED
    BY <2>3, <2>4
<1>. QED
  BY <1>4, <1>5, <1>7 DEF Inv, CatalogInv

-----------------------------------------------------------------------------
(* A process halts: its statements, and what it could still write, go.     *)
LEMMA HaltPreserves ==
    ASSUME NEW p \in Procs, Inv, Halt(p)
    PROVE  Inv'
<1>1. TypeOK'
  BY CommitAssumption DEF Inv, Halt, shared, Halted, Proc, NoBarrier, Free,
     Committer, NoJob, Job, Blind, NoBatch, IdleSession, Session, NoOcc, Occ,
     TypeOK, ProcType, BarrierType, CommitType, JobType, BatchType,
     SessionType, OccType, Times, Uppers, None
<1>2. BatchInv'
  BY CommitAssumption DEF Inv, Halt, shared, Halted, Proc, NoBarrier, Free,
     Committer, NoJob, Job, Blind, NoBatch, IdleSession, Session, NoOcc, Occ,
     BatchInv, TypeOK, ProcType, CommitType, JobType, BatchType, SessionType,
     OccType, Times, Uppers
<1>3. SessionInv'
  BY CommitAssumption DEF Inv, Halt, shared, Halted, Proc, NoBarrier, Free,
     Committer, NoJob, Job, Blind, NoBatch, IdleSession, Session, NoOcc, Occ,
     SessionInv, Serving, Before, None, TypeOK, ProcType, CommitType, JobType,
     BatchType, SessionType, OccType, Times, Uppers
<1>4. CommitInv'
  BY CommitAssumption DEF Inv, Halt, shared, Halted, Proc, NoBarrier, Free,
     Committer, NoJob, Job, Blind, NoBatch, IdleSession, Session, NoOcc, Occ,
     CommitInv, Before, None, TypeOK, ProcType, CommitType, JobType,
     BatchType, SessionType, OccType, Times, Uppers
<1>5. CatalogInv'
  BY CommitAssumption DEF Inv, Halt, shared, Halted, Proc, NoBarrier, Free,
     Committer, NoJob, Job, Blind, NoBatch, IdleSession, Session, NoOcc, Occ,
     CatalogInv, Alive, AfterRegister, AfterBootApply, TypeOK, ProcType,
     CommitType, JobType, BatchType, SessionType, OccType, Times, Uppers
<1>6. TakeoverInv'
  BY CommitAssumption DEF Inv, Halt, shared, Halted, Proc, NoBarrier, Free,
     Committer, NoJob, Job, Blind, NoBatch, IdleSession, Session, NoOcc, Occ,
     TakeoverInv, Doomed, Fenced, TypeOK, ProcType, CommitType, JobType,
     BatchType, SessionType, OccType, Times, Uppers
<1>7. KnownInv'
  BY DEF Inv, Halt, shared, KnownInv
<1>. QED
  BY <1>1, <1>2, <1>3, <1>4, <1>5, <1>6, <1>7 DEF Inv

(* A newer process opens the catalog and fences the others (CatalogCommit).*)
LEMMA OpenCatalogPreserves ==
    ASSUME NEW p \in Procs, Inv, OpenCatalog(p)
    PROVE  Inv'
<1>1. TypeOK'
  BY CommitAssumption DEF Inv, OpenCatalog, shared, committer, clients, Proc,
     Fenced, TypeOK, ProcType, Times, Uppers
<1>2. SessionInv'
  BY CommitAssumption DEF Inv, OpenCatalog, shared, committer, clients, Proc,
     Fenced, SessionInv, Serving, Before, None, TypeOK, ProcType, CommitType,
     JobType, BatchType, SessionType, OccType, Times, Uppers
<1>3. CommitInv'
  BY CommitAssumption DEF Inv, OpenCatalog, shared, committer, clients, Proc,
     Fenced, CommitInv, Before, None, TypeOK, ProcType, CommitType, JobType,
     BatchType, SessionType, OccType, Times, Uppers
<1>4. CatalogInv'
  <2>1. /\ proc' = [proc EXCEPT ![p] = Proc("opened", catalog.upper + 1, 0)]
        /\ UNCHANGED <<oracle, log, txnsUpper>> /\ ~Fenced(p)
    BY DEF OpenCatalog
  <2>2. catalog.upper + 1 \in Uppers /\ 0 \in Times /\ catalog.upper <= catalog.upper + 1
    BY CommitAssumption DEF Inv, OpenCatalog, TypeOK, ProcType, Times, Uppers
  <2>4. /\ catalog' = [upper |-> catalog.upper + 1, fence |-> catalog'.fence]
        /\ catalog'.fence = catalog.fence \/ catalog'.fence = p
    BY DEF OpenCatalog
  <2>5. /\ catalog' \in [upper : Uppers, fence : Procs]
        /\ catalog.upper <= catalog'.upper /\ catalog.upper + 1 <= catalog'.upper
    BY <2>2, <2>4, CommitAssumption DEF Inv, TypeOK, Uppers
  <2>3. \/ "opened" = proc[p].pc /\ 0 = proc[p].ts
        \/ "opened" = "opened" /\ catalog'.fence = p
        \/ "opened" = "catalogOpened" /\ proc[p].pc = "catalogOpen"
    BY DEF OpenCatalog
  <2>. QED
    BY <2>1, <2>2, <2>3, <2>4, <2>5, CatalogCommit
<1>5. TakeoverInv'
  <2>1. \A q \in Procs : q # p => proc'[q] = proc[q]
    BY DEF Inv, OpenCatalog, TypeOK
  <2>2. proc'[p].pc = "opened" /\ job[p].kind # "takeover"
    BY DEF Inv, OpenCatalog, Proc, TypeOK, CommitInv, ProcType
  <2>3. catalog.fence <= catalog'.fence /\ catalog.fence \in Int
        /\ catalog'.fence \in Int
    BY ProcsAreInts DEF Inv, OpenCatalog, Fenced, TypeOK
  <2>. QED
    BY ProcsAreInts, <2>1, <2>2, <2>3 DEF Inv, OpenCatalog, committer,
       TakeoverInv, Doomed, Fenced
<1>6. KnownInv' /\ BatchInv'
  BY DEF Inv, OpenCatalog, shared, committer, clients, KnownInv, BatchInv
<1>. QED
  BY <1>1, <1>2, <1>3, <1>4, <1>5, <1>6 DEF Inv

(* Commits while the catalog is opened: only the newest process makes any. *)
LEMMA BootCommitPreserves ==
    ASSUME NEW p \in Procs, Inv, BootCommit(p)
    PROVE  Inv'
<1>1. TypeOK'
  BY CommitAssumption DEF Inv, BootCommit, shared, committer, clients,
     AfterCommit, Latest, Proc, Fenced, TypeOK, ProcType, Times, Uppers
<1>2. SessionInv'
  BY CommitAssumption DEF Inv, BootCommit, shared, committer, clients,
     AfterCommit, Latest, Proc, Fenced, SessionInv, Serving, Before, None,
     TypeOK, ProcType, CommitType, JobType, BatchType, SessionType, OccType,
     Times, Uppers
<1>3. CommitInv'
  <2>1. /\ proc[p].pc \notin {"serving", "takeover"}
        /\ \A q \in Procs : q # p => proc'[q] = proc[q]
        /\ UNCHANGED <<txnsUpper, log, commit, job, session, occ>>
    BY DEF Inv, BootCommit, Proc, AfterCommit, shared, committer, clients, TypeOK
  <2>. QED
    BY <2>1 DEF Inv, CommitInv, Before, TypeOK, CommitType
<1>4. CatalogInv'
  <2>. DEFINE at == IF proc[p].pc = "catalogOpen"
                  THEN Latest(proc[p].ts, catalog.upper) ELSE catalog.upper
  <2>1. /\ proc' = [proc EXCEPT ![p] = Proc(AfterCommit[proc[p].pc], at + 1, proc[p].ts)]
        /\ UNCHANGED <<oracle, log, txnsUpper>> /\ ~Fenced(p)
    BY DEF BootCommit
  <2>2. at + 1 \in Uppers /\ proc[p].ts \in Times /\ catalog.upper <= at + 1
    BY CommitAssumption DEF Inv, BootCommit, AfterCommit, Latest, TypeOK, ProcType, Times, Uppers
  <2>4. /\ catalog' = [upper |-> at + 1, fence |-> catalog'.fence]
        /\ catalog'.fence = catalog.fence \/ catalog'.fence = p
    BY DEF BootCommit
  <2>5. /\ catalog' \in [upper : Uppers, fence : Procs]
        /\ catalog.upper <= catalog'.upper /\ at + 1 <= catalog'.upper
    BY <2>2, <2>4, CommitAssumption DEF Inv, TypeOK, Uppers
  <2>3. \/ AfterCommit[proc[p].pc] = proc[p].pc /\ proc[p].ts = proc[p].ts
        \/ AfterCommit[proc[p].pc] = "opened" /\ catalog'.fence = p
        \/ AfterCommit[proc[p].pc] = "catalogOpened" /\ proc[p].pc = "catalogOpen"
    BY DEF BootCommit, AfterCommit
  <2>. QED
    BY <2>1, <2>2, <2>3, <2>4, <2>5, CatalogCommit
<1>5. TakeoverInv'
  BY DEF Inv, BootCommit, Proc, AfterCommit, committer, CommitInv, TakeoverInv,
     Doomed, Fenced, TypeOK, ProcType
<1>6. KnownInv' /\ BatchInv'
  BY DEF Inv, BootCommit, shared, committer, clients, KnownInv, BatchInv
<1>. QED
  BY <1>1, <1>2, <1>3, <1>4, <1>5, <1>6 DEF Inv

(* The boot timestamp is past all that older processes have seen.          *)
LEMMA BootReadCatalogPreserves ==
    ASSUME NEW p \in Procs, Inv, BootReadCatalog(p)
    PROVE  Inv'
<1>1. TypeOK'
  BY CommitAssumption DEF Inv, BootReadCatalog, shared, committer, clients,
     SetBoot, Proc, Latest, TypeOK, ProcType, Times, Uppers
<1>2. SessionInv'
  BY CommitAssumption DEF Inv, BootReadCatalog, shared, committer, clients,
     SetBoot, Proc, Latest, SessionInv, Serving, Before, None, TypeOK, Times,
     Uppers, ProcType, SessionType, OccType
<1>3. CommitInv'
  <2>1. /\ proc[p].pc \notin {"serving", "takeover"}
        /\ \A q \in Procs : q # p => proc'[q] = proc[q]
        /\ UNCHANGED <<txnsUpper, log, commit, job, session, occ>>
    BY DEF Inv, BootReadCatalog, SetBoot, Proc, shared, committer, clients, TypeOK
  <2>. QED
    BY <2>1 DEF Inv, CommitInv, Before, TypeOK, CommitType
<1>4. CatalogInv'
  BY CommitAssumption DEF Inv, BootReadCatalog, shared, committer, clients,
     SetBoot, Proc, Latest, CatalogInv, Alive, AfterRegister, AfterBootApply,
     TypeOK, Times, Uppers, ProcType
<1>5. TakeoverInv'
  BY CommitAssumption DEF Inv, BootReadCatalog, shared, committer, clients,
     SetBoot, Proc, Latest, TakeoverInv, Doomed, Fenced, TypeOK, Times,
     Uppers, ProcType, CommitType, JobType
<1>6. KnownInv' /\ BatchInv'
  BY DEF Inv, BootReadCatalog, shared, committer, clients, SetBoot, KnownInv,
     BatchInv
<1>. QED
  BY <1>1, <1>2, <1>3, <1>4, <1>5, <1>6 DEF Inv

(* apply_write at boot: the oracle is past what older processes have seen. *)
LEMMA BootApplyPreserves ==
    ASSUME NEW p \in Procs, Inv, BootApply(p)
    PROVE  Inv'
<1>1. TypeOK'
  BY CommitAssumption DEF Inv, BootApply, shared, committer, clients, SetBoot,
     Proc, ApplyWrite, Latest, AfterApply, TypeOK, ProcType, Times
<1>2. KnownInv'
  BY CommitAssumption DEF Inv, BootApply, shared, committer, clients, SetBoot,
     Proc, ApplyWrite, Latest, AfterApply, KnownInv, TypeOK, Times, Uppers,
     ProcType, OccType, CommitType
<1>3. BatchInv'
  BY CommitAssumption DEF Inv, BootApply, shared, committer, clients, SetBoot,
     Proc, ApplyWrite, Latest, AfterApply, BatchInv, TypeOK, ProcType,
     CommitType, JobType, BatchType, SessionType, OccType, Times, Uppers
<1>4. SessionInv'
  BY CommitAssumption DEF Inv, BootApply, shared, committer, clients, SetBoot,
     Proc, ApplyWrite, Latest, AfterApply, SessionInv, Serving, Before, None,
     TypeOK, ProcType, CommitType, JobType, BatchType, SessionType, OccType,
     Times, Uppers
<1>5. CommitInv'
  BY CommitAssumption DEF Inv, BootApply, shared, committer, clients, SetBoot,
     Proc, ApplyWrite, Latest, AfterApply, CommitInv, Before, None, TypeOK,
     ProcType, CommitType, JobType, BatchType, SessionType, OccType, Times,
     Uppers
<1>6. CatalogInv'
  BY CommitAssumption DEF Inv, BootApply, shared, committer, clients, SetBoot,
     Proc, ApplyWrite, Latest, AfterApply, CatalogInv, Alive, AfterRegister,
     AfterBootApply, TypeOK, ProcType, CommitType, JobType, BatchType,
     SessionType, OccType, Times, Uppers
<1>7. TakeoverInv'
  <2>1. /\ oracle.read <= oracle'.read /\ proc[p].ts <= oracle'.read
        /\ oracle.read \in Int /\ oracle'.read \in Int
        /\ proc[p].ts \in Int /\ log \subseteq Int
    BY DEF Inv, BootApply, ApplyWrite, Latest, TypeOK, ProcType, Times
  <2>2. /\ proc'[p] = Proc(AfterApply[proc[p].pc], proc[p].seen, proc[p].ts)
        /\ \A q \in Procs : q # p => proc'[q] = proc[q]
        /\ UNCHANGED <<log, txnsUpper, catalog, commit, job>>
    BY DEF Inv, BootApply, committer, SetBoot, TypeOK
  <2>3. proc[p].pc \in {"bootApply", "openApply", "registerApply",
                       "barrierApply"}
    BY DEF BootApply
  <2>. QED
    BY <2>1, <2>2, <2>3 DEF Inv, TakeoverInv, Doomed, Fenced, AfterApply, Proc
<1>. QED
  BY <1>1, <1>2, <1>3, <1>4, <1>5, <1>6, <1>7 DEF Inv

(* The register timestamp is past what older processes have seen.          *)
LEMMA BootStampPreserves ==
    ASSUME NEW p \in Procs, Inv, BootStamp(p)
    PROVE  Inv'
<1>1. TypeOK'
  BY CommitAssumption DEF Inv, BootStamp, shared, committer, clients, SetBoot,
     Proc, WriteTs, AfterStamp, TypeOK, ProcType, Times
<1>2. KnownInv'
  BY CommitAssumption DEF Inv, BootStamp, shared, committer, clients, SetBoot,
     Proc, WriteTs, AfterStamp, KnownInv, TypeOK, Times
<1>3. BatchInv'
  BY CommitAssumption DEF Inv, BootStamp, shared, committer, clients, SetBoot,
     Proc, WriteTs, AfterStamp, BatchInv, TypeOK, Times, Uppers, ProcType,
     BatchType, SessionType
<1>4. SessionInv'
  BY CommitAssumption DEF Inv, BootStamp, shared, committer, clients, SetBoot,
     Proc, WriteTs, AfterStamp, SessionInv, Serving, Before, None, TypeOK,
     ProcType, CommitType, JobType, BatchType, SessionType, OccType, Times,
     Uppers
<1>5. CommitInv'
  BY CommitAssumption DEF Inv, BootStamp, shared, committer, clients, SetBoot,
     Proc, WriteTs, AfterStamp, CommitInv, Before, None, TypeOK, Times,
     Uppers, ProcType, CommitType, JobType, SessionType, OccType
<1>6. CatalogInv'
  BY CommitAssumption DEF Inv, BootStamp, shared, committer, clients, SetBoot,
     Proc, WriteTs, AfterStamp, CatalogInv, Alive, AfterRegister,
     AfterBootApply, TypeOK, Times, Uppers, ProcType
<1>7. TakeoverInv'
  <2>1. PICK ts \in Times : SetBoot(p, AfterStamp[proc[p].pc], ts)
    BY DEF BootStamp
  <2>2. /\ proc'[p] = Proc(AfterStamp[proc[p].pc], proc[p].seen, ts)
        /\ \A q \in Procs : q # p => proc'[q] = proc[q]
        /\ UNCHANGED <<log, txnsUpper, catalog, commit, job>>
        /\ oracle'.read = oracle.read
    BY <2>1 DEF Inv, BootStamp, WriteTs, committer, SetBoot, TypeOK
  <2>3. proc[p].pc \in {"bootStamp", "registerStamp", "barrierStamp"}
    BY DEF BootStamp
  <2>. QED
    BY <2>2, <2>3 DEF Inv, TakeoverInv, Doomed, Fenced, AfterStamp, Proc
<1>. QED
  BY <1>1, <1>2, <1>3, <1>4, <1>5, <1>6, <1>7 DEF Inv

(* Registering moves the txns upper past what older processes can write at.*)
LEMMA RegisterTablesPreserves ==
    ASSUME NEW p \in Procs, Inv, RegisterTables(p)
    PROVE  Inv'
<1>1. TypeOK'
  BY CommitAssumption DEF Inv, RegisterTables, shared, committer, clients,
     SetBoot, Proc, TypeOK, ProcType, Times, Uppers
<1>2. SessionInv'
  BY CommitAssumption DEF Inv, RegisterTables, shared, committer, clients,
     SetBoot, Proc, SessionInv, Serving, Before, None, TypeOK, ProcType,
     CommitType, JobType, BatchType, SessionType, OccType, Times, Uppers
<1>3. CommitInv'
  BY CommitAssumption DEF Inv, RegisterTables, shared, committer, clients,
     SetBoot, Proc, CommitInv, Before, None, TypeOK, ProcType, CommitType,
     JobType, BatchType, SessionType, OccType, Times, Uppers
<1>4. CatalogInv'
  BY CommitAssumption DEF Inv, RegisterTables, shared, committer, clients,
     SetBoot, Proc, CatalogInv, Alive, AfterRegister, AfterBootApply, TypeOK,
     ProcType, CommitType, JobType, BatchType, SessionType, OccType, Times,
     Uppers
<1>5. TakeoverInv'
  BY CommitAssumption DEF Inv, RegisterTables, shared, committer, clients,
     SetBoot, Proc, TakeoverInv, Doomed, Fenced, TypeOK, Times, Uppers,
     ProcType, CommitType, JobType, CatalogInv, CommitInv, AfterRegister
<1>6. KnownInv' /\ BatchInv'
  BY DEF Inv, RegisterTables, shared, committer, clients, SetBoot, KnownInv,
     BatchInv
<1>. QED
  BY <1>1, <1>2, <1>3, <1>4, <1>5, <1>6 DEF Inv

(* Sending the barrier: nothing it can disturb but its own process.        *)
LEMMA SendBarrierPreserves ==
    ASSUME NEW p \in Procs, Inv, SendBarrier(p)
    PROVE  Inv'
<1>1. TypeOK'
  BY CommitAssumption DEF Inv, SendBarrier, shared, committer, clients,
     SetBoot, Proc, SetBarrier, TypeOK, ProcType, BarrierType
<1>2. SessionInv'
  BY CommitAssumption DEF Inv, SendBarrier, shared, committer, clients,
     SetBoot, Proc, SetBarrier, SessionInv, Serving, Before, None, TypeOK,
     ProcType, CommitType, JobType, BatchType, SessionType, OccType, Times,
     Uppers
<1>3. CommitInv'
  BY CommitAssumption DEF Inv, SendBarrier, shared, committer, clients,
     SetBoot, Proc, SetBarrier, CommitInv, Before, None, TypeOK, ProcType,
     CommitType, JobType, BatchType, SessionType, OccType, Times, Uppers
<1>4. CatalogInv'
  BY CommitAssumption DEF Inv, SendBarrier, shared, committer, clients,
     SetBoot, Proc, SetBarrier, CatalogInv, Alive, AfterRegister,
     AfterBootApply, TypeOK, ProcType, CommitType, JobType, BatchType,
     SessionType, OccType, Times, Uppers
<1>5. TakeoverInv'
  BY CommitAssumption DEF Inv, SendBarrier, shared, committer, clients,
     SetBoot, Proc, SetBarrier, TakeoverInv, Doomed, Fenced, TypeOK, ProcType,
     CommitType, JobType, BatchType, SessionType, OccType, Times, Uppers
<1>6. KnownInv' /\ BatchInv'
  BY DEF Inv, SendBarrier, shared, committer, clients, SetBoot, SetBarrier,
     KnownInv, BatchInv
<1>. QED
  BY <1>1, <1>2, <1>3, <1>4, <1>5, <1>6 DEF Inv

(* The barrier lands: the txns upper grows, the log does not.              *)
LEMMA BarrierPreserves ==
    ASSUME NEW p \in Procs, Inv, Barrier(p)
    PROVE  Inv'
<1>1. TypeOK'
  BY CommitAssumption DEF Inv, Barrier, shared, committer, clients,
     SetBarrier, TypeOK, BarrierType, Times, Uppers
<1>2. SessionInv'
  BY CommitAssumption DEF Inv, Barrier, shared, committer, clients,
     SetBarrier, SessionInv, Serving, Before, None, TypeOK, Times, Uppers,
     BarrierType, SessionType, OccType, ProcType
<1>3. CommitInv'
  BY CommitAssumption DEF Inv, Barrier, shared, committer, clients,
     SetBarrier, CommitInv, Before, None, TypeOK, Times, Uppers, BarrierType,
     CommitType, JobType, SessionType, OccType, ProcType
<1>4. CatalogInv'
  BY CommitAssumption DEF Inv, Barrier, shared, committer, clients,
     SetBarrier, CatalogInv, Alive, AfterRegister, AfterBootApply, TypeOK,
     Times, Uppers, BarrierType, ProcType
<1>5. TakeoverInv'
  BY CommitAssumption DEF Inv, Barrier, shared, committer, clients,
     SetBarrier, TakeoverInv, Doomed, Fenced, TypeOK, Times, Uppers,
     BarrierType, ProcType, CommitType, JobType
<1>6. KnownInv' /\ BatchInv'
  BY DEF Inv, Barrier, shared, committer, clients, SetBarrier, KnownInv,
     BatchInv
<1>. QED
  BY <1>1, <1>2, <1>3, <1>4, <1>5, <1>6 DEF Inv

(* The timestamp of the snapshots is not before anything in the log.       *)
LEMMA BootReadTsPreserves ==
    ASSUME NEW p \in Procs, Inv, BootReadTs(p)
    PROVE  Inv'
<1>1. TypeOK'
  BY CommitAssumption DEF Inv, BootReadTs, shared, committer, clients,
     SetBoot, Proc, TypeOK, ProcType
<1>2. SessionInv'
  BY CommitAssumption DEF Inv, BootReadTs, shared, committer, clients,
     SetBoot, Proc, SessionInv, Serving, Before, None, TypeOK, ProcType,
     CommitType, JobType, BatchType, SessionType, OccType, Times, Uppers
<1>3. CommitInv'
  BY CommitAssumption DEF Inv, BootReadTs, shared, committer, clients,
     SetBoot, Proc, CommitInv, Before, None, TypeOK, ProcType, CommitType,
     JobType, BatchType, SessionType, OccType, Times, Uppers
<1>4. CatalogInv'
  BY CommitAssumption DEF Inv, BootReadTs, shared, committer, clients,
     SetBoot, Proc, CatalogInv, Alive, AfterRegister, AfterBootApply, TypeOK,
     ProcType, CommitType, JobType, BatchType, SessionType, OccType, Times,
     Uppers
<1>5. TakeoverInv'
  BY CommitAssumption DEF Inv, BootReadTs, shared, committer, clients,
     SetBoot, Proc, TakeoverInv, Doomed, Fenced, TypeOK, ProcType, CommitType,
     JobType, BatchType, SessionType, OccType, Times, Uppers
<1>6. KnownInv' /\ BatchInv'
  BY DEF Inv, BootReadTs, shared, committer, clients, SetBoot, KnownInv,
     BatchInv
<1>. QED
  BY <1>1, <1>2, <1>3, <1>4, <1>5, <1>6 DEF Inv

(* The snapshot is the whole log, unless the process is doomed.            *)
LEMMA SnapshotPreserves ==
    ASSUME NEW p \in Procs, Inv, Snapshot(p)
    PROVE  Inv'
<1>1. TypeOK'
  <2>1. Before(proc[p].ts + 1) \subseteq Times
    BY DEF Inv, TypeOK, Before
  <2>. QED
    BY CommitAssumption, <2>1 DEF Inv, Snapshot, shared, clients, SetBoot, Proc,
       Committer, Job, TypeOK, ProcType, CommitType, JobType, Times
<1>2. SessionInv'
  BY CommitAssumption DEF Inv, Snapshot, shared, clients, SetBoot, Proc,
     Committer, Job, SessionInv, Serving, Before, None, TypeOK, ProcType,
     CommitType, JobType, BatchType, SessionType, OccType, Times, Uppers
<1>3. CommitInv'
  BY CommitAssumption DEF Inv, Snapshot, shared, clients, SetBoot, Proc,
     Committer, Job, CommitInv, Before, None, TypeOK, ProcType, CommitType,
     JobType, BatchType, SessionType, OccType, Times, Uppers
<1>4. CatalogInv'
  BY CommitAssumption DEF Inv, Snapshot, shared, clients, SetBoot, Proc,
     Committer, Job, CatalogInv, Alive, AfterRegister, AfterBootApply, TypeOK,
     ProcType, CommitType, JobType, BatchType, SessionType, OccType, Times,
     Uppers
<1>5. TakeoverInv'
  <2>1. \A q \in Procs : q # p => /\ proc'[q] = proc[q]
                                 /\ commit'[q] = commit[q] /\ job'[q] = job[q]
    BY DEF Inv, Snapshot, SetBoot, TypeOK
  <2>2. /\ proc'[p].pc = "takeover" /\ proc'[p].seen = proc[p].seen
        /\ job'[p].base = Before(proc[p].ts + 1)
    BY DEF Inv, Snapshot, SetBoot, Proc, Job, TypeOK
  <2>3. Doomed(p) \/ Before(proc[p].ts + 1) = log
    BY DEF Inv, Snapshot, TakeoverInv, Before, TypeOK, ProcType, Times
  <2>. QED
    BY <2>1, <2>2, <2>3 DEF Inv, Snapshot, shared, TakeoverInv, Doomed, Fenced
<1>6. KnownInv' /\ BatchInv'
  BY DEF Inv, Snapshot, shared, clients, SetBoot, KnownInv, BatchInv
<1>. QED
  BY <1>1, <1>2, <1>3, <1>4, <1>5, <1>6 DEF Inv

(* A timestamp for a catalog transaction: only the write timestamp moves.  *)
LEMMA BeginDdlPreserves ==
    ASSUME NEW p \in Procs, Inv, BeginDdl(p)
    PROVE  Inv'
<1>1. TypeOK'
  BY CommitAssumption DEF Inv, BeginDdl, shared, committer, clients, WriteTs,
     TypeOK, Times
<1>2. KnownInv'
  BY CommitAssumption DEF Inv, BeginDdl, shared, committer, clients, WriteTs,
     KnownInv, TypeOK, Times
<1>3. BatchInv'
  BY CommitAssumption DEF Inv, BeginDdl, shared, committer, clients, WriteTs,
     BatchInv, TypeOK, ProcType, CommitType, JobType, BatchType, SessionType,
     OccType, Times, Uppers
<1>4. SessionInv'
  BY CommitAssumption DEF Inv, BeginDdl, shared, committer, clients, WriteTs,
     SessionInv, Serving, Before, None, TypeOK, ProcType, CommitType, JobType,
     BatchType, SessionType, OccType, Times, Uppers
<1>5. CatalogInv'
  BY CommitAssumption DEF Inv, BeginDdl, shared, committer, clients, WriteTs,
     CatalogInv, Alive, AfterRegister, AfterBootApply, TypeOK, ProcType,
     CommitType, JobType, BatchType, SessionType, OccType, Times, Uppers
<1>6. TakeoverInv'
  BY CommitAssumption DEF Inv, BeginDdl, shared, committer, clients, WriteTs,
     TakeoverInv, Doomed, Fenced, TypeOK, ProcType, CommitType, JobType,
     BatchType, SessionType, OccType, Times, Uppers
<1>7. CommitInv'
  BY DEF Inv, BeginDdl, shared, committer, clients, CommitInv, Before
<1>. QED
  BY <1>1, <1>2, <1>3, <1>4, <1>5, <1>6, <1>7 DEF Inv

(* A catalog transaction (CatalogCommit).                                  *)
LEMMA CommitTransactionPreserves ==
    ASSUME NEW p \in Procs, Inv, CommitTransaction(p)
    PROVE  Inv'
<1>1. TypeOK'
  BY CommitAssumption DEF Inv, CommitTransaction, shared, committer, clients,
     Latest, Fenced, Advance, Proc, TypeOK, ProcType, Times, Uppers, None
<1>2. SessionInv'
  BY CommitAssumption DEF Inv, CommitTransaction, shared, committer, clients,
     Latest, Fenced, Advance, Proc, SessionInv, Serving, Before, None, TypeOK,
     ProcType, CommitType, JobType, BatchType, SessionType, OccType, Times,
     Uppers
<1>3. CommitInv'
  <2>1. \A q \in Procs : proc'[q].pc = proc[q].pc /\ proc[q].seen <= proc'[q].seen
    BY CommitAssumption DEF Inv, CommitTransaction, Advance, Proc, Latest,
       CatalogInv, TypeOK, ProcType, Times, Uppers, None
  <2>2. \A q \in Procs : commit[q].ts \in Int /\ proc[q].seen \in Int
                        /\ proc'[q].seen \in Int
    BY <1>1 DEF Inv, TypeOK, CommitType, ProcType, Times, Uppers
  <2>. QED
    BY <2>1, <2>2 DEF Inv, CommitTransaction, committer, clients, CommitInv,
       Before
<1>4. CatalogInv'
  <2>. DEFINE upper == Latest(ddl[p], catalog.upper) + 1
  <2>1. /\ proc' = [proc EXCEPT ![p] = Proc(proc[p].pc, upper, proc[p].ts)]
        /\ UNCHANGED <<oracle, log, txnsUpper>> /\ ~Fenced(p)
    BY DEF CommitTransaction, Advance
  <2>2. upper \in Uppers /\ proc[p].ts \in Times /\ catalog.upper <= upper
    BY CommitAssumption DEF Inv, CommitTransaction, Advance, Latest, None, TypeOK, ProcType, Times, Uppers
  <2>4. /\ catalog' = [upper |-> upper, fence |-> catalog'.fence]
        /\ catalog'.fence = catalog.fence \/ catalog'.fence = p
    BY DEF CommitTransaction, Advance
  <2>5. /\ catalog' \in [upper : Uppers, fence : Procs]
        /\ catalog.upper <= catalog'.upper /\ upper <= catalog'.upper
    BY <2>2, <2>4, CommitAssumption DEF Inv, TypeOK, Uppers
  <2>3. \/ proc[p].pc = proc[p].pc /\ proc[p].ts = proc[p].ts
        \/ proc[p].pc = "opened" /\ catalog'.fence = p
        \/ proc[p].pc = "catalogOpened" /\ proc[p].pc = "catalogOpen"
    BY DEF CommitTransaction
  <2>. QED
    BY <2>1, <2>2, <2>3, <2>4, <2>5, CatalogCommit
<1>5. TakeoverInv'
  BY CommitAssumption DEF Inv, CommitTransaction, shared, committer, clients,
     Latest, Fenced, Advance, Proc, TakeoverInv, Doomed, TypeOK, ProcType,
     CommitType, JobType, BatchType, SessionType, OccType, Times, Uppers
<1>6. KnownInv' /\ BatchInv'
  BY DEF Inv, CommitTransaction, shared, committer, clients, Advance,
     KnownInv, BatchInv
<1>. QED
  BY <1>1, <1>2, <1>3, <1>4, <1>5, <1>6 DEF Inv

(* A group commit begins: a write that depends on nothing.                 *)
LEMMA StartGroupCommitPreserves ==
    ASSUME NEW p \in Procs, Inv, StartGroupCommit(p)
    PROVE  Inv'
<1>1. TypeOK'
  BY CommitAssumption DEF Inv, StartGroupCommit, shared, clients, Serving,
     Committer, Job, Blind, TypeOK, CommitType, JobType, Times
<1>2. CommitInv'
  BY CommitAssumption DEF Inv, StartGroupCommit, shared, clients, Serving,
     Committer, Job, Blind, CommitInv, Before, None, TypeOK, ProcType,
     CommitType, JobType, BatchType, SessionType, OccType, Times, Uppers
<1>3. TakeoverInv'
  BY CommitAssumption DEF Inv, StartGroupCommit, shared, clients, Serving,
     Committer, Job, Blind, TakeoverInv, Doomed, Fenced, TypeOK, ProcType,
     CommitType, JobType, BatchType, SessionType, OccType, Times, Uppers
<1>4. KnownInv' /\ BatchInv' /\ SessionInv' /\ CatalogInv'
  BY DEF Inv, StartGroupCommit, shared, clients, KnownInv, BatchInv,
     SessionInv, Serving, Before, CatalogInv, Alive
<1>. QED
  BY <1>1, <1>2, <1>3, <1>4 DEF Inv

(* A group commit takes its timestamp from the oracle.                     *)
LEMMA StampGroupCommitPreserves ==
    ASSUME NEW p \in Procs, Inv, StampGroupCommit(p)
    PROVE  Inv'
<1>1. TypeOK'
  BY CommitAssumption DEF Inv, StampGroupCommit, clients, WriteTs, Latest,
     Committer, TypeOK, CommitType, Times
<1>2. KnownInv'
  BY CommitAssumption DEF Inv, StampGroupCommit, clients, WriteTs, Latest,
     Committer, KnownInv, TypeOK, Times
<1>3. BatchInv'
  BY CommitAssumption DEF Inv, StampGroupCommit, clients, WriteTs, Latest,
     Committer, BatchInv, TypeOK, ProcType, CommitType, JobType, BatchType,
     SessionType, OccType, Times, Uppers
<1>4. SessionInv'
  BY CommitAssumption DEF Inv, StampGroupCommit, clients, WriteTs, Latest,
     Committer, SessionInv, Serving, Before, None, TypeOK, ProcType,
     CommitType, JobType, BatchType, SessionType, OccType, Times, Uppers
<1>5. CommitInv'
  BY CommitAssumption DEF Inv, StampGroupCommit, clients, WriteTs, Latest,
     Committer, CommitInv, Before, None, TypeOK, ProcType, CommitType,
     JobType, BatchType, SessionType, OccType, Times, Uppers
<1>6. CatalogInv'
  BY CommitAssumption DEF Inv, StampGroupCommit, clients, WriteTs, Latest,
     Committer, CatalogInv, Alive, AfterRegister, AfterBootApply, TypeOK,
     ProcType, CommitType, JobType, BatchType, SessionType, OccType, Times,
     Uppers
<1>7. TakeoverInv'
  BY CommitAssumption DEF Inv, StampGroupCommit, clients, WriteTs, Latest,
     Committer, TakeoverInv, Doomed, Fenced, TypeOK, ProcType, CommitType,
     JobType, BatchType, SessionType, OccType, Times, Uppers
<1>. QED
  BY <1>1, <1>2, <1>3, <1>4, <1>5, <1>6, <1>7 DEF Inv

(* The oracle has not passed the timestamp of an OCC write.                *)
LEMMA PeekTimestampedWritePreserves ==
    ASSUME NEW p \in Procs, Inv, PeekTimestampedWrite(p)
    PROVE  Inv'
<1>1. TypeOK'
  BY CommitAssumption DEF Inv, PeekTimestampedWrite, shared, clients, GoTo,
     Committer, TypeOK, CommitType
<1>2. CommitInv'
  BY CommitAssumption DEF Inv, PeekTimestampedWrite, shared, clients, GoTo,
     Committer, CommitInv, Before, None, TypeOK, ProcType, CommitType,
     JobType, BatchType, SessionType, OccType, Times, Uppers
<1>3. TakeoverInv'
  BY CommitAssumption DEF Inv, PeekTimestampedWrite, shared, clients, GoTo,
     Committer, TakeoverInv, Doomed, Fenced, TypeOK, Times, Uppers,
     CommitType, ProcType, JobType, CatalogInv, CommitInv, AfterRegister
<1>4. KnownInv' /\ BatchInv' /\ SessionInv' /\ CatalogInv'
  BY DEF Inv, PeekTimestampedWrite, shared, clients, GoTo, KnownInv, BatchInv,
     SessionInv, Serving, Before, CatalogInv, Alive
<1>. QED
  BY <1>1, <1>2, <1>3, <1>4 DEF Inv

(* advance_upper finds that its process has seen enough of the catalog.    *)
LEMMA AdvanceUpperCachedPreserves ==
    ASSUME NEW p \in Procs, Inv, AdvanceUpperCached(p)
    PROVE  Inv'
<1>1. TypeOK'
  BY CommitAssumption DEF Inv, AdvanceUpperCached, shared, clients, GoTo,
     Committer, TypeOK, CommitType
<1>2. CommitInv'
  BY CommitAssumption DEF Inv, AdvanceUpperCached, shared, clients, GoTo,
     Committer, CommitInv, Before, None, TypeOK, ProcType, CommitType,
     JobType, BatchType, SessionType, OccType, Times, Uppers
<1>3. TakeoverInv'
  BY CommitAssumption DEF Inv, AdvanceUpperCached, shared, clients, GoTo,
     Committer, TakeoverInv, Doomed, Fenced, TypeOK, ProcType, CommitType,
     JobType, BatchType, SessionType, OccType, Times, Uppers
<1>4. KnownInv' /\ BatchInv' /\ SessionInv' /\ CatalogInv'
  BY DEF Inv, AdvanceUpperCached, shared, clients, GoTo, KnownInv, BatchInv,
     SessionInv, Serving, Before, CatalogInv, Alive
<1>. QED
  BY <1>1, <1>2, <1>3, <1>4 DEF Inv

(* advance_upper goes to Persist (CatalogCommit).                          *)
LEMMA AdvanceUpperPreserves ==
    ASSUME NEW p \in Procs, Inv, AdvanceUpper(p)
    PROVE  Inv'
<1>1. TypeOK'
  BY CommitAssumption DEF Inv, AdvanceUpper, clients, Latest, Fenced, Advance,
     Proc, GoTo, Committer, TypeOK, CommitType, ProcType, Times, Uppers
<1>2. SessionInv'
  BY CommitAssumption DEF Inv, AdvanceUpper, clients, Latest, Fenced, Advance,
     Proc, GoTo, Committer, SessionInv, Serving, Before, None, TypeOK,
     ProcType, CommitType, JobType, BatchType, SessionType, OccType, Times,
     Uppers
<1>3. CommitInv'
  BY CommitAssumption DEF Inv, AdvanceUpper, clients, Latest, Fenced, Advance,
     Proc, GoTo, Committer, CommitInv, Before, None, TypeOK, ProcType,
     CommitType, JobType, BatchType, SessionType, OccType, Times, Uppers
<1>4. CatalogInv'
  <2>. DEFINE upper == Latest(catalog.upper, commit[p].ts + 1)
  <2>1. /\ proc' = [proc EXCEPT ![p] = Proc(proc[p].pc, upper, proc[p].ts)]
        /\ UNCHANGED <<oracle, log, txnsUpper>> /\ ~Fenced(p)
    BY DEF AdvanceUpper, Advance
  <2>2. upper \in Uppers /\ proc[p].ts \in Times /\ catalog.upper <= upper
    BY CommitAssumption DEF Inv, AdvanceUpper, Advance, Latest, CommitType, TypeOK, ProcType, Times, Uppers
  <2>4. /\ catalog' = [upper |-> upper, fence |-> catalog'.fence]
        /\ catalog'.fence = catalog.fence \/ catalog'.fence = p
    BY DEF AdvanceUpper, Advance
  <2>5. /\ catalog' \in [upper : Uppers, fence : Procs]
        /\ catalog.upper <= catalog'.upper /\ upper <= catalog'.upper
    BY <2>2, <2>4, CommitAssumption DEF Inv, TypeOK, Uppers
  <2>3. \/ proc[p].pc = proc[p].pc /\ proc[p].ts = proc[p].ts
        \/ proc[p].pc = "opened" /\ catalog'.fence = p
        \/ proc[p].pc = "catalogOpened" /\ proc[p].pc = "catalogOpen"
    BY DEF AdvanceUpper
  <2>. QED
    BY <2>1, <2>2, <2>3, <2>4, <2>5, CatalogCommit
<1>5. TakeoverInv'
  BY CommitAssumption DEF Inv, AdvanceUpper, clients, Latest, Fenced, Advance,
     Proc, GoTo, Committer, TakeoverInv, Doomed, TypeOK, ProcType, CommitType,
     JobType, BatchType, SessionType, OccType, Times, Uppers
<1>6. KnownInv' /\ BatchInv'
  BY DEF Inv, AdvanceUpper, clients, Advance, GoTo, KnownInv, BatchInv
<1>. QED
  BY <1>1, <1>2, <1>3, <1>4, <1>5, <1>6 DEF Inv

(* A write lands.  It cannot be one of an older process than one that has  *)
(* registered, and it dooms the older ones whose take-over it disturbs.    *)
LEMMA AttemptWritePreserves ==
    ASSUME NEW p \in Procs, Inv, AttemptWrite(p)
    PROVE  Inv'
<1>1. TypeOK'
  <2>1. commit[p].ts \in Times /\ log' \subseteq Times
    BY DEF Inv, AttemptWrite, TypeOK, CommitType
  <2>. QED
    BY CommitAssumption, <2>1 DEF Inv, AttemptWrite, clients, GoTo, Committer,
       TypeOK, CommitType, Times, Uppers
<1>2. SessionInv'
  BY CommitAssumption DEF Inv, AttemptWrite, clients, GoTo, Committer,
     SessionInv, Serving, Before, None, TypeOK, ProcType, CommitType, JobType,
     BatchType, SessionType, OccType, Times, Uppers
<1>3. CommitInv'
  BY CommitAssumption DEF Inv, AttemptWrite, clients, GoTo, Committer,
     CommitInv, Before, None, TypeOK, ProcType, CommitType, JobType,
     BatchType, SessionType, OccType, Times, Uppers
<1>4. CatalogInv'
  BY CommitAssumption DEF Inv, AttemptWrite, clients, GoTo, Committer,
     CatalogInv, Alive, AfterRegister, AfterBootApply, TypeOK, ProcType,
     CommitType, JobType, BatchType, SessionType, OccType, Times, Uppers
<1>5. TakeoverInv'
  <2>1. /\ commit[p].ts < proc[p].seen /\ proc[p].pc \in AfterRegister
        /\ Alive(p) /\ txnsUpper <= commit[p].ts
        /\ txnsUpper' = commit[p].ts + 1
    BY DEF Inv, AttemptWrite, CommitInv, AfterRegister, Alive
  <2>2. /\ UNCHANGED <<proc, job, oracle, catalog>>
        /\ commit'[p].pc = "apply"
        /\ \A q \in Procs : q # p => commit'[q] = commit[q]
    BY DEF Inv, AttemptWrite, GoTo, Committer, TypeOK
  <2>3. /\ commit[p].ts \in Int /\ txnsUpper \in Int
        /\ \A q \in Procs : proc[q].seen \in Int
    BY CommitAssumption DEF Inv, TypeOK, CommitType, ProcType, Times, Uppers
  <2>8. catalog.fence \in Int
    BY ProcsAreInts DEF Inv, TypeOK
  <2>4. ASSUME NEW q \in Procs, p < q
        PROVE  proc[q].pc \notin AfterRegister /\ job[q].kind # "takeover"
    BY <2>1, <2>3, <2>4 DEF Inv, CatalogInv, CommitInv, AfterRegister
  <2>5. ASSUME NEW q \in Procs, q < p
        PROVE  Doomed(q)'
    BY <2>1, <2>2, <2>3, <2>5, <2>8, ProcsAreInts DEF Inv, CatalogInv,
       Doomed, Fenced
  <2>6. ASSUME NEW q \in Procs
        PROVE  p < q \/ q < p \/ q = p
    <3>1. p \in Int /\ q \in Int
      BY ProcsAreInts
    <3>. QED
      BY <3>1
  <2>7. proc[p].pc \in {"serving", "takeover"}
    BY DEF Inv, AttemptWrite, CommitInv
  <2>. QED
    BY <2>2, <2>4, <2>5, <2>6, <2>7 DEF TakeoverInv, AfterRegister
<1>6. KnownInv' /\ BatchInv'
  BY DEF Inv, AttemptWrite, clients, GoTo, KnownInv, BatchInv
<1>. QED
  BY <1>1, <1>2, <1>3, <1>4, <1>5, <1>6 DEF Inv

(* A group commit starts over.                                             *)
LEMMA RetryWritePreserves ==
    ASSUME NEW p \in Procs, Inv, RetryWrite(p)
    PROVE  Inv'
<1>1. TypeOK'
  BY CommitAssumption DEF Inv, RetryWrite, shared, clients, GoTo, Committer,
     TypeOK, CommitType
<1>2. CommitInv'
  BY CommitAssumption DEF Inv, RetryWrite, shared, clients, GoTo, Committer,
     CommitInv, Before, None, TypeOK, ProcType, CommitType, JobType,
     BatchType, SessionType, OccType, Times, Uppers
<1>3. TakeoverInv'
  BY CommitAssumption DEF Inv, RetryWrite, shared, clients, GoTo, Committer,
     TakeoverInv, Doomed, Fenced, TypeOK, ProcType, CommitType, JobType,
     BatchType, SessionType, OccType, Times, Uppers
<1>4. KnownInv' /\ BatchInv' /\ SessionInv' /\ CatalogInv'
  BY DEF Inv, RetryWrite, shared, clients, GoTo, KnownInv, BatchInv,
     SessionInv, Serving, Before, CatalogInv, Alive
<1>. QED
  BY <1>1, <1>2, <1>3, <1>4 DEF Inv

(* An OCC write goes back to its loop, or is given up.                     *)
LEMMA TimestampPassedPreserves ==
    ASSUME NEW p \in Procs, Inv, TimestampPassed(p)
    PROVE  Inv'
<1>1. TypeOK'
  BY CommitAssumption DEF Inv, TimestampPassed, shared, Passed, NextEligible,
     Free, Committer, NoJob, Job, Blind, IdleSession, Session, NoOcc, Occ,
     TypeOK, CommitType, JobType, SessionType, OccType, Times, Uppers, None
<1>2. BatchInv'
  BY CommitAssumption DEF Inv, TimestampPassed, shared, Passed, NextEligible,
     Free, Committer, NoJob, Job, Blind, IdleSession, Session, NoOcc, Occ,
     BatchInv, TypeOK, Times, Uppers, CommitType, JobType, SessionType,
     OccType, BatchType, CommitInv, SessionInv
<1>3. SessionInv'
  BY CommitAssumption DEF Inv, TimestampPassed, shared, Passed, NextEligible,
     Free, Committer, NoJob, Job, Blind, IdleSession, Session, NoOcc, Occ,
     SessionInv, Serving, Before, None, TypeOK, Times, Uppers, CommitType,
     JobType, SessionType, OccType, ProcType, CommitInv, BatchInv
<1>4. CommitInv'
  BY CommitAssumption DEF Inv, TimestampPassed, shared, Passed, NextEligible,
     Free, Committer, NoJob, Job, Blind, IdleSession, Session, NoOcc, Occ,
     CommitInv, Before, None, TypeOK, Times, Uppers, CommitType, JobType,
     SessionType, OccType, ProcType
<1>5. TakeoverInv'
  BY CommitAssumption DEF Inv, TimestampPassed, shared, Passed, NextEligible,
     Free, Committer, NoJob, Job, Blind, IdleSession, Session, NoOcc, Occ,
     TakeoverInv, Doomed, Fenced, TypeOK, ProcType, CommitType, JobType,
     BatchType, SessionType, OccType, Times, Uppers
<1>6. KnownInv' /\ CatalogInv'
  BY DEF Inv, TimestampPassed, shared, KnownInv, CatalogInv, Alive
<1>. QED
  BY <1>1, <1>2, <1>3, <1>4, <1>5, <1>6 DEF Inv

(* What is acknowledged has been applied to the oracle.                    *)
LEMMA FinishCommitPreserves ==
    ASSUME NEW p \in Procs, Inv, FinishCommit(p)
    PROVE  Inv'
<1>1. TypeOK'
  BY CommitAssumption DEF Inv, FinishCommit, ApplyWrite, Latest, Free,
     Committer, NoJob, Job, Blind, IdleSession, Session, NoOcc, Occ, Proc,
     TypeOK, CommitType, JobType, ProcType, SessionType, OccType, Times,
     Uppers, None
<1>2. KnownInv'
  BY CommitAssumption DEF Inv, FinishCommit, ApplyWrite, Latest, Free,
     Committer, NoJob, Job, Blind, IdleSession, Session, NoOcc, Occ, Proc,
     KnownInv, TypeOK, Times, Uppers, ProcType, CommitType, JobType,
     SessionType, OccType
<1>3. BatchInv'
  BY CommitAssumption DEF Inv, FinishCommit, ApplyWrite, Latest, Free,
     Committer, NoJob, Job, Blind, IdleSession, Session, NoOcc, Occ, Proc,
     BatchInv, TypeOK, Times, Uppers, ProcType, CommitType, JobType,
     SessionType, OccType, BatchType, CommitInv, SessionInv
<1>4. SessionInv'
  BY CommitAssumption DEF Inv, FinishCommit, ApplyWrite, Latest, Free,
     Committer, NoJob, Job, Blind, IdleSession, Session, NoOcc, Occ, Proc,
     SessionInv, Serving, Before, None, TypeOK, ProcType, CommitType, JobType,
     BatchType, SessionType, OccType, Times, Uppers
<1>5. CommitInv'
  BY CommitAssumption DEF Inv, FinishCommit, ApplyWrite, Latest, Free,
     Committer, NoJob, Job, Blind, IdleSession, Session, NoOcc, Occ, Proc,
     CommitInv, Before, None, TypeOK, ProcType, CommitType, JobType,
     BatchType, SessionType, OccType, Times, Uppers
<1>6. CatalogInv'
  BY CommitAssumption DEF Inv, FinishCommit, ApplyWrite, Latest, Free,
     Committer, NoJob, Job, Blind, IdleSession, Session, NoOcc, Occ, Proc,
     CatalogInv, Alive, AfterRegister, AfterBootApply, TypeOK, Times, Uppers,
     ProcType, CommitType, JobType, SessionType, OccType, CommitInv
<1>7. TakeoverInv'
  <2>1. /\ oracle.read <= oracle'.read
        /\ oracle.read \in Int /\ oracle'.read \in Int /\ log \subseteq Int
    BY DEF Inv, FinishCommit, ApplyWrite, Latest, TypeOK, CommitType, Times
  <2>2. /\ proc'[p].seen = proc[p].seen
        /\ proc'[p].pc \in {"serving", "takeover"} /\ commit'[p].pc = "idle"
    BY DEF Inv, FinishCommit, Free, Committer, Proc, CommitInv, TypeOK
  <2>3. /\ \A q \in Procs : q # p => /\ proc'[q] = proc[q]
                                    /\ commit'[q] = commit[q]
                                    /\ job'[q] = job[q]
        /\ UNCHANGED <<log, txnsUpper, catalog>>
    BY DEF Inv, FinishCommit, TypeOK
  <2>. QED
    BY <2>1, <2>2, <2>3 DEF Inv, TakeoverInv, Doomed, Fenced
<1>. QED
  BY <1>1, <1>2, <1>3, <1>4, <1>5, <1>6, <1>7 DEF Inv

(* The worker of the batching oracle takes the requests that wait.         *)
LEMMA TakeBatchPreserves ==
    ASSUME NEW p \in Procs, Inv, TakeBatch(p)
    PROVE  Inv'
<1>1. TypeOK'
  BY CommitAssumption DEF Inv, TakeBatch, shared, committer, Session, TypeOK,
     BatchType, SessionType, Times
<1>2. BatchInv'
  BY CommitAssumption DEF Inv, TakeBatch, shared, committer, Session,
     BatchInv, TypeOK, ProcType, CommitType, JobType, BatchType, SessionType,
     OccType, Times, Uppers
<1>3. SessionInv'
  BY CommitAssumption DEF Inv, TakeBatch, shared, committer, Session,
     SessionInv, Serving, Before, None, TypeOK, ProcType, CommitType, JobType,
     BatchType, SessionType, OccType, Times, Uppers
<1>4. CommitInv'
  BY CommitAssumption DEF Inv, TakeBatch, shared, committer, Session,
     CommitInv, Before, None, TypeOK, ProcType, CommitType, JobType,
     BatchType, SessionType, OccType, Times, Uppers
<1>5. KnownInv' /\ CatalogInv' /\ TakeoverInv'
  BY DEF Inv, TakeBatch, shared, committer, KnownInv, CatalogInv, Alive,
     TakeoverInv, Doomed, Fenced
<1>. QED
  BY <1>1, <1>2, <1>3, <1>4, <1>5 DEF Inv

(* The oracle serves all that a client knew when it asked.                 *)
LEMMA ReadTsPreserves ==
    ASSUME NEW p \in Procs, Inv, ReadTs(p)
    PROVE  Inv'
<1>1. TypeOK'
  BY CommitAssumption DEF Inv, ReadTs, shared, committer, clients, TypeOK,
     BatchType
<1>2. BatchInv'
  BY DEF Inv, ReadTs, shared, clients, BatchInv, SessionInv, KnownInv, TypeOK,
     BatchType, SessionType, Times
<1>3. KnownInv' /\ SessionInv' /\ CommitInv' /\ CatalogInv' /\ TakeoverInv'
  BY DEF Inv, ReadTs, shared, committer, clients, KnownInv, SessionInv,
     Serving, Before, CommitInv, CatalogInv, Alive, TakeoverInv, Doomed,
     Fenced
<1>. QED
  BY <1>1, <1>2, <1>3 DEF Inv

(* The members of the batch begin to read at its timestamp.                *)
LEMMA AnswerBatchPreserves ==
    ASSUME NEW p \in Procs, Inv, AnswerBatch(p)
    PROVE  Inv'
<1>1. TypeOK'
  BY CommitAssumption DEF Inv, AnswerBatch, shared, committer, Start, Session,
     Occ, Blind, NoBatch, TypeOK, BatchType, SessionType, OccType, Times,
     Uppers, None
<1>2. BatchInv'
  BY CommitAssumption DEF Inv, AnswerBatch, shared, committer, Start, Session,
     Occ, Blind, NoBatch, BatchInv, TypeOK, ProcType, CommitType, JobType,
     BatchType, SessionType, OccType, Times, Uppers
<1>3. SessionInv'
  BY CommitAssumption DEF Inv, AnswerBatch, shared, committer, Start, Session,
     Occ, Blind, NoBatch, SessionInv, Serving, Before, None, TypeOK, Times,
     Uppers, BatchType, SessionType, OccType, ProcType, CommitInv, BatchInv
<1>4. CommitInv'
  BY DEF Inv, AnswerBatch, shared, committer, Start, Session, CommitInv,
     BatchInv, Before, TypeOK, BatchType, JobType
<1>5. KnownInv' /\ CatalogInv' /\ TakeoverInv'
  BY DEF Inv, AnswerBatch, shared, committer, KnownInv, CatalogInv, Alive,
     TakeoverInv, Doomed, Fenced
<1>. QED
  BY <1>1, <1>2, <1>3, <1>4, <1>5 DEF Inv

(* An OCC write, with its payload, is handed to the committer.             *)
LEMMA StartTimestampedWritePreserves ==
    ASSUME NEW p \in Procs, NEW s \in Sessions, Inv, StartTimestampedWrite(p, s)
    PROVE  Inv'
<1>1. TypeOK'
  BY CommitAssumption DEF Inv, StartTimestampedWrite, shared, Committer, Job,
     SetPc, Session, TypeOK, CommitType, SessionType, JobType, OccType,
     SessionInv, Times
<1>2. BatchInv'
  BY CommitAssumption DEF Inv, StartTimestampedWrite, shared, Committer, Job,
     SetPc, Session, BatchInv, TypeOK, ProcType, CommitType, JobType,
     BatchType, SessionType, OccType, Times, Uppers
<1>3. SessionInv'
  BY CommitAssumption DEF Inv, StartTimestampedWrite, shared, Committer, Job,
     SetPc, Session, SessionInv, Serving, Before, None, TypeOK, ProcType,
     CommitType, JobType, BatchType, SessionType, OccType, Times, Uppers
<1>4. CommitInv'
  <2>1. /\ occ[s].target \in Times /\ occ[s].target <= txnsUpper
        /\ occ[s].base = Before(occ[s].target) /\ proc[p].pc = "serving"
    BY DEF Inv, StartTimestampedWrite, SessionInv, Serving
  <2>2. /\ commit'[p] = Committer("peek", occ[s].target, 0)
        /\ job'[p] = Job("timed", occ[s].base, {s})
        /\ session'[s].pc = "writing" /\ session'[s].at = p
        /\ \A q \in Procs : q # p => commit'[q] = commit[q] /\ job'[q] = job[q]
        /\ \A r \in Sessions : r # s => session'[r] = session[r]
        /\ UNCHANGED <<occ, proc, txnsUpper, log>>
    BY DEF Inv, StartTimestampedWrite, shared, SetPc, Session, TypeOK
  <2>3. \A q \in Procs : s \notin job[q].for /\ job[q].for \subseteq Sessions
    BY DEF Inv, StartTimestampedWrite, CommitInv, TypeOK, JobType
  <2>. QED
    BY <2>1, <2>2, <2>3 DEF Inv, CommitInv, Committer, Job, Before
<1>5. TakeoverInv'
  BY CommitAssumption DEF Inv, StartTimestampedWrite, shared, Committer, Job,
     SetPc, Session, TakeoverInv, Doomed, Fenced, TypeOK, ProcType,
     CommitType, JobType, BatchType, SessionType, OccType, Times, Uppers
<1>6. KnownInv' /\ CatalogInv'
  BY DEF Inv, StartTimestampedWrite, shared, SetPc, KnownInv, CatalogInv,
     Alive
<1>. QED
  BY <1>1, <1>2, <1>3, <1>4, <1>5, <1>6 DEF Inv

(* A statement begins; it must see what clients know by now.               *)
LEMMA RequestPreserves ==
    ASSUME NEW s \in Sessions, NEW p \in Procs,
           NEW kind \in {"read", "write"}, Inv, Request(s, p, kind)
    PROVE  Inv'
<1>1. TypeOK'
  BY CommitAssumption DEF Inv, Request, shared, committer, Session, Serving,
     TypeOK, SessionType
<1>2. BatchInv'
  BY CommitAssumption DEF Inv, Request, shared, committer, Session, Serving,
     BatchInv, TypeOK, ProcType, CommitType, JobType, BatchType, SessionType,
     OccType, Times, Uppers
<1>3. SessionInv'
  <2>1. /\ session'[s] = Session("queued", kind, p, known)
        /\ \A r \in Sessions : r # s => session'[r] = session[r]
        /\ UNCHANGED <<occ, proc, known, oracle, txnsUpper, log>>
    BY DEF Inv, Request, shared, TypeOK
  <2>2. known \in Int /\ Serving(p)
    BY DEF Inv, Request, TypeOK, Times
  <2>. QED
    BY <2>1, <2>2 DEF Inv, SessionInv, Session, Serving, Before
<1>4. CommitInv'
  BY CommitAssumption DEF Inv, Request, shared, committer, Session, Serving,
     CommitInv, Before, None, TypeOK, ProcType, CommitType, JobType,
     BatchType, SessionType, OccType, Times, Uppers
<1>5. KnownInv' /\ CatalogInv' /\ TakeoverInv'
  BY DEF Inv, Request, shared, committer, KnownInv, CatalogInv, Alive,
     TakeoverInv, Doomed, Fenced
<1>. QED
  BY <1>1, <1>2, <1>3, <1>4, <1>5 DEF Inv

(* A read is answered at a time that the oracle serves.                    *)
LEMMA FinishReadPreserves ==
    ASSUME NEW s \in Sessions, Inv, FinishRead(s)
    PROVE  Inv'
<1>1. TypeOK'
  BY CommitAssumption DEF Inv, FinishRead, servers, shared, committer,
     Respond, Drop, Latest, IdleSession, Session, NoOcc, Occ, Blind, TypeOK,
     SessionType, OccType, Times, Uppers, None
<1>2. KnownInv'
  BY CommitAssumption DEF Inv, FinishRead, servers, shared, committer,
     Respond, Drop, Latest, IdleSession, Session, NoOcc, Occ, Blind, KnownInv,
     TypeOK, Times, Uppers, SessionType, OccType, CommitType, ProcType,
     SessionInv
<1>3. BatchInv'
  BY CommitAssumption DEF Inv, FinishRead, servers, shared, committer,
     Respond, Drop, Latest, IdleSession, Session, NoOcc, Occ, Blind, BatchInv,
     TypeOK, ProcType, CommitType, JobType, BatchType, SessionType, OccType,
     Times, Uppers
<1>4. SessionInv'
  BY CommitAssumption DEF Inv, FinishRead, servers, shared, committer,
     Respond, Drop, Latest, IdleSession, Session, NoOcc, Occ, Blind,
     SessionInv, Serving, Before, None, TypeOK, ProcType, CommitType, JobType,
     BatchType, SessionType, OccType, Times, Uppers
<1>5. CommitInv'
  BY CommitAssumption DEF Inv, FinishRead, servers, shared, committer,
     Respond, Drop, Latest, IdleSession, Session, NoOcc, Occ, Blind,
     CommitInv, Before, None, TypeOK, ProcType, CommitType, JobType,
     BatchType, SessionType, OccType, Times, Uppers
<1>6. CatalogInv' /\ TakeoverInv'
  BY DEF Inv, FinishRead, servers, shared, committer, Respond, Drop,
     CatalogInv, Alive, TakeoverInv, Doomed, Fenced
<1>. QED
  BY <1>1, <1>2, <1>3, <1>4, <1>5, <1>6 DEF Inv

(* The subscribe of an OCC loop has come as far as the txns upper.         *)
LEMMA ProgressPreserves ==
    ASSUME NEW s \in Sessions, Inv, Progress(s)
    PROVE  Inv'
<1>1. TypeOK'
  BY CommitAssumption DEF Inv, Progress, servers, shared, committer, SetOcc,
     Occ, TypeOK, OccType
<1>2. SessionInv'
  BY CommitAssumption DEF Inv, Progress, servers, shared, committer, SetOcc,
     Occ, SessionInv, Serving, Before, None, TypeOK, ProcType, CommitType,
     JobType, BatchType, SessionType, OccType, Times, Uppers
<1>3. CommitInv'
  BY CommitAssumption DEF Inv, Progress, servers, shared, committer, SetOcc,
     Occ, CommitInv, Before, None, TypeOK, ProcType, CommitType, JobType,
     BatchType, SessionType, OccType, Times, Uppers
<1>4. KnownInv' /\ BatchInv' /\ CatalogInv' /\ TakeoverInv'
  BY DEF Inv, Progress, servers, shared, committer, SetOcc, KnownInv,
     BatchInv, CatalogInv, Alive, TakeoverInv, Doomed, Fenced
<1>. QED
  BY <1>1, <1>2, <1>3, <1>4 DEF Inv

(* An empty answer, as of what is complete and folded.                     *)
LEMMA NoRowsMatchedPreserves ==
    ASSUME NEW s \in Sessions, Inv, NoRowsMatched(s)
    PROVE  Inv'
<1>1. TypeOK'
  BY CommitAssumption DEF Inv, NoRowsMatched, servers, shared, committer,
     FoldTarget, Earliest, SetOcc, Occ, SetPc, Session, TypeOK, SessionType,
     OccType, SessionInv, Times, Uppers, None
<1>2. BatchInv'
  BY CommitAssumption DEF Inv, NoRowsMatched, servers, shared, committer,
     FoldTarget, Earliest, SetOcc, Occ, SetPc, Session, BatchInv, TypeOK,
     ProcType, CommitType, JobType, BatchType, SessionType, OccType, Times,
     Uppers
<1>3. SessionInv'
  BY CommitAssumption DEF Inv, NoRowsMatched, servers, shared, committer,
     FoldTarget, Earliest, SetOcc, Occ, SetPc, Session, SessionInv, Serving,
     Before, None, TypeOK, ProcType, CommitType, JobType, BatchType,
     SessionType, OccType, Times, Uppers
<1>4. CommitInv'
  BY CommitAssumption DEF Inv, NoRowsMatched, servers, shared, committer,
     FoldTarget, Earliest, SetOcc, Occ, SetPc, Session, CommitInv, Before,
     None, TypeOK, ProcType, CommitType, JobType, BatchType, SessionType,
     OccType, Times, Uppers
<1>5. KnownInv' /\ CatalogInv' /\ TakeoverInv'
  BY DEF Inv, NoRowsMatched, servers, shared, committer, SetOcc, SetPc,
     KnownInv, CatalogInv, Alive, TakeoverInv, Doomed, Fenced
<1>. QED
  BY <1>1, <1>2, <1>3, <1>4, <1>5 DEF Inv

(* An empty answer is given once the oracle serves its time.               *)
LEMMA EnsureReadLinearizedPreserves ==
    ASSUME NEW s \in Sessions, Inv, EnsureReadLinearized(s)
    PROVE  Inv'
<1>1. TypeOK'
  BY CommitAssumption DEF Inv, EnsureReadLinearized, servers, shared,
     committer, Respond, Drop, Latest, IdleSession, Session, NoOcc, Occ,
     Blind, TypeOK, SessionType, OccType, Times, Uppers, None
<1>2. KnownInv'
  BY CommitAssumption DEF Inv, EnsureReadLinearized, servers, shared,
     committer, Respond, Drop, Latest, IdleSession, Session, NoOcc, Occ,
     Blind, KnownInv, TypeOK, Times
<1>3. BatchInv'
  BY CommitAssumption DEF Inv, EnsureReadLinearized, servers, shared,
     committer, Respond, Drop, Latest, IdleSession, Session, NoOcc, Occ,
     Blind, BatchInv, TypeOK, ProcType, CommitType, JobType, BatchType,
     SessionType, OccType, Times, Uppers
<1>4. SessionInv'
  BY CommitAssumption DEF Inv, EnsureReadLinearized, servers, shared,
     committer, Respond, Drop, Latest, IdleSession, Session, NoOcc, Occ,
     Blind, SessionInv, Serving, Before, None, TypeOK, ProcType, CommitType,
     JobType, BatchType, SessionType, OccType, Times, Uppers
<1>5. CommitInv'
  BY CommitAssumption DEF Inv, EnsureReadLinearized, servers, shared,
     committer, Respond, Drop, Latest, IdleSession, Session, NoOcc, Occ,
     Blind, CommitInv, Before, None, TypeOK, ProcType, CommitType, JobType,
     BatchType, SessionType, OccType, Times, Uppers
<1>6. CatalogInv' /\ TakeoverInv'
  BY DEF Inv, EnsureReadLinearized, servers, shared, committer, Respond, Drop,
     CatalogInv, Alive, TakeoverInv, Doomed, Fenced
<1>. QED
  BY <1>1, <1>2, <1>3, <1>4, <1>5, <1>6 DEF Inv

(* The loop adopts a timestamp after its snapshot.                         *)
LEMMA ChooseTargetPreserves ==
    ASSUME NEW s \in Sessions, Inv, ChooseTarget(s)
    PROVE  Inv'
<1>1. TypeOK'
  BY CommitAssumption DEF Inv, ChooseTarget, servers, shared, committer,
     Latest, SetOcc, Occ, TypeOK, OccType, Times, Uppers
<1>2. SessionInv'
  BY CommitAssumption DEF Inv, ChooseTarget, servers, shared, committer,
     Latest, SetOcc, Occ, SessionInv, Serving, Before, None, TypeOK, ProcType,
     CommitType, JobType, BatchType, SessionType, OccType, Times, Uppers
<1>3. CommitInv'
  BY CommitAssumption DEF Inv, ChooseTarget, servers, shared, committer,
     Latest, SetOcc, Occ, CommitInv, Before, None, TypeOK, ProcType,
     CommitType, JobType, BatchType, SessionType, OccType, Times, Uppers
<1>4. KnownInv' /\ BatchInv' /\ CatalogInv' /\ TakeoverInv'
  BY DEF Inv, ChooseTarget, servers, shared, committer, SetOcc, KnownInv,
     BatchInv, CatalogInv, Alive, TakeoverInv, Doomed, Fenced
<1>. QED
  BY <1>1, <1>2, <1>3, <1>4 DEF Inv

(* The payload: all the diffs below the target, and no more can come.      *)
LEMMA SubmitPreserves ==
    ASSUME NEW s \in Sessions, Inv, Submit(s)
    PROVE  Inv'
<1>1. TypeOK'
  BY CommitAssumption DEF Inv, Submit, servers, shared, committer, SetOcc,
     Occ, SetPc, Session, TypeOK, SessionType, OccType, Before
<1>2. BatchInv'
  BY CommitAssumption DEF Inv, Submit, servers, shared, committer, SetOcc,
     Occ, SetPc, Session, BatchInv, TypeOK, ProcType, CommitType, JobType,
     BatchType, SessionType, OccType, Times, Uppers
<1>3. SessionInv'
  BY CommitAssumption DEF Inv, Submit, servers, shared, committer, SetOcc,
     Occ, SetPc, Session, SessionInv, Serving, Before, None, TypeOK, ProcType,
     CommitType, JobType, BatchType, SessionType, OccType, Times, Uppers
<1>4. CommitInv'
  BY CommitAssumption DEF Inv, Submit, servers, shared, committer, SetOcc,
     Occ, SetPc, Session, CommitInv, Before, None, TypeOK, ProcType,
     CommitType, JobType, BatchType, SessionType, OccType, Times, Uppers
<1>5. KnownInv' /\ CatalogInv' /\ TakeoverInv'
  BY DEF Inv, Submit, servers, shared, committer, SetOcc, SetPc, KnownInv,
     CatalogInv, Alive, TakeoverInv, Doomed, Fenced
<1>. QED
  BY <1>1, <1>2, <1>3, <1>4, <1>5 DEF Inv

(* A statement is dropped.                                                 *)
LEMMA CancelPreserves ==
    ASSUME NEW s \in Sessions, Inv, Cancel(s)
    PROVE  Inv'
<1>1. TypeOK'
  BY CommitAssumption DEF Inv, Cancel, servers, shared, committer, Drop,
     IdleSession, Session, NoOcc, Occ, Blind, TypeOK, SessionType, OccType,
     Times, Uppers, None
<1>2. BatchInv'
  BY CommitAssumption DEF Inv, Cancel, servers, shared, committer, Drop,
     IdleSession, Session, NoOcc, Occ, Blind, BatchInv, TypeOK, ProcType,
     CommitType, JobType, BatchType, SessionType, OccType, Times, Uppers
<1>3. SessionInv'
  BY CommitAssumption DEF Inv, Cancel, servers, shared, committer, Drop,
     IdleSession, Session, NoOcc, Occ, Blind, SessionInv, Serving, Before,
     None, TypeOK, ProcType, CommitType, JobType, BatchType, SessionType,
     OccType, Times, Uppers
<1>4. CommitInv'
  BY CommitAssumption DEF Inv, Cancel, servers, shared, committer, Drop,
     IdleSession, Session, NoOcc, Occ, Blind, CommitInv, Before, None, TypeOK,
     ProcType, CommitType, JobType, BatchType, SessionType, OccType, Times,
     Uppers
<1>5. KnownInv' /\ CatalogInv' /\ TakeoverInv'
  BY DEF Inv, Cancel, servers, shared, committer, Drop, KnownInv, CatalogInv,
     Alive, TakeoverInv, Doomed, Fenced
<1>. QED
  BY <1>1, <1>2, <1>3, <1>4, <1>5 DEF Inv

-----------------------------------------------------------------------------
(* The initial states satisfy the invariant.                               *)
LEMMA InitInv == Init => Inv
<1>. SUFFICES ASSUME Init PROVE Inv
  OBVIOUS
<1>1. TypeOK
  BY CommitAssumption DEF Init, Proc, Off, NoBarrier, Free, Committer, NoJob,
     Job, Blind, NoBatch, IdleSession, Session, NoOcc, Occ, TypeOK, ProcType,
     BarrierType, CommitType, JobType, BatchType, SessionType, OccType, Times,
     Uppers, None
<1>2. KnownInv /\ BatchInv /\ SessionInv
  BY DEF Init, NoBatch, IdleSession, Session, KnownInv, BatchInv, SessionInv
<1>3. CommitInv
  BY DEF Init, Free, Committer, NoJob, Job, CommitInv
<1>4. CatalogInv
  BY CommitAssumption DEF Init, Off, Proc, Alive, CatalogInv, AfterBootApply,
     AfterRegister
<1>5. TakeoverInv
  BY DEF Init, Off, Proc, NoJob, Job, TakeoverInv
<1>. QED
  BY <1>1, <1>2, <1>3, <1>4, <1>5 DEF Inv

(* Every step keeps the invariant.                                         *)
LEMMA NextInv == Inv /\ [Next]_vars => Inv'
<1>. SUFFICES ASSUME Inv, [Next]_vars PROVE Inv'
  OBVIOUS
<1>1. CASE UNCHANGED vars
  BY <1>1 DEF vars, shared, committer, clients, Inv, TypeOK, KnownInv,
     BatchInv, SessionInv, CommitInv, CatalogInv, TakeoverInv, Serving, Alive,
     Before, Doomed, Fenced
<1>2. CASE \E p \in Procs : Boot(p)
  BY <1>2, OpenCatalogPreserves, BootCommitPreserves, BootReadCatalogPreserves,
     BootApplyPreserves, BootStampPreserves, RegisterTablesPreserves,
     SendBarrierPreserves, BarrierPreserves, BootReadTsPreserves,
     SnapshotPreserves DEF Boot
<1>3. CASE \E p \in Procs : Crash(p) \/ FencedOut(p) \/ Terminate(p)
  BY <1>3, HaltPreserves DEF Crash, FencedOut, Terminate
<1>4. CASE \E p \in Procs :
        \/ BeginDdl(p) \/ CommitTransaction(p)
        \/ StartGroupCommit(p) \/ StampGroupCommit(p)
        \/ PeekTimestampedWrite(p) \/ AdvanceUpperCached(p)
        \/ AdvanceUpper(p) \/ AttemptWrite(p) \/ RetryWrite(p)
        \/ TimestampPassed(p) \/ FinishCommit(p)
  BY <1>4, BeginDdlPreserves, CommitTransactionPreserves,
     StartGroupCommitPreserves, StampGroupCommitPreserves,
     PeekTimestampedWritePreserves, AdvanceUpperCachedPreserves,
     AdvanceUpperPreserves, AttemptWritePreserves, RetryWritePreserves,
     TimestampPassedPreserves, FinishCommitPreserves
<1>5. CASE \E p \in Procs : TakeBatch(p) \/ ReadTs(p) \/ AnswerBatch(p)
  BY <1>5, TakeBatchPreserves, ReadTsPreserves, AnswerBatchPreserves
<1>6. CASE \E p \in Procs, s \in Sessions :
        \/ StartTimestampedWrite(p, s)
        \/ \E kind \in {"read", "write"} : Request(s, p, kind)
  BY <1>6, StartTimestampedWritePreserves, RequestPreserves
<1>7. CASE \E s \in Sessions :
        \/ FinishRead(s) \/ Progress(s) \/ NoRowsMatched(s)
        \/ EnsureReadLinearized(s) \/ ChooseTarget(s) \/ Submit(s)
        \/ Cancel(s)
  BY <1>7, FinishReadPreserves, ProgressPreserves, NoRowsMatchedPreserves,
     EnsureReadLinearizedPreserves, ChooseTargetPreserves, SubmitPreserves,
     CancelPreserves
<1>. QED
  BY <1>1, <1>2, <1>3, <1>4, <1>5, <1>6, <1>7 DEF Next

(* Only AttemptWrite makes a write land.                                   *)
LEMMA LandsByAttempt ==
    ASSUME Inv, [Next]_vars, NEW p \in Procs, Lands(p)
    PROVE  AttemptWrite(p)
<1>1. commit' # commit
  BY DEF Lands
<1>2. PICK q \in Procs :
        \/ Snapshot(q) \/ Halt(q)
        \/ StartGroupCommit(q) \/ StampGroupCommit(q)
        \/ PeekTimestampedWrite(q) \/ AdvanceUpperCached(q)
        \/ AdvanceUpper(q) \/ AttemptWrite(q) \/ RetryWrite(q)
        \/ TimestampPassed(q) \/ FinishCommit(q)
        \/ \E s \in Sessions : StartTimestampedWrite(q, s)
  <2>1. ~UNCHANGED vars
    BY <1>1 DEF vars, committer
  <2>2. \A q \in Procs :
          /\ ~OpenCatalog(q) /\ ~BootCommit(q) /\ ~BootReadCatalog(q)
          /\ ~BootApply(q) /\ ~BootStamp(q) /\ ~RegisterTables(q)
          /\ ~SendBarrier(q) /\ ~Barrier(q) /\ ~BootReadTs(q)
    BY <1>1 DEF OpenCatalog, BootCommit, BootReadCatalog, BootApply, BootStamp,
       RegisterTables, SendBarrier, Barrier, BootReadTs, committer
  <2>3. \A q \in Procs :
          /\ ~BeginDdl(q) /\ ~CommitTransaction(q) /\ ~TakeBatch(q)
          /\ ~ReadTs(q) /\ ~AnswerBatch(q)
    BY <1>1 DEF BeginDdl, CommitTransaction, TakeBatch, ReadTs, AnswerBatch,
       committer
  <2>4. \A s \in Sessions :
          /\ \A q \in Procs : \A kind \in {"read", "write"} :
               ~Request(s, q, kind)
          /\ ~FinishRead(s) /\ ~Progress(s) /\ ~NoRowsMatched(s)
          /\ ~EnsureReadLinearized(s) /\ ~ChooseTarget(s) /\ ~Submit(s)
          /\ ~Cancel(s)
    BY <1>1 DEF Request, FinishRead, Progress, NoRowsMatched,
       EnsureReadLinearized, ChooseTarget, Submit, Cancel, Respond, Drop,
       servers, committer
  <2>. QED
    BY <2>1, <2>2, <2>3, <2>4 DEF Next, Boot, Crash, FencedOut, Terminate
<1>3. q = p
  <2>1. \E c : commit' = [commit EXCEPT ![q] = c]
    BY <1>2 DEF Snapshot, Halt, StartGroupCommit, StampGroupCommit,
       PeekTimestampedWrite, AdvanceUpperCached, AdvanceUpper, AttemptWrite,
       RetryWrite, TimestampPassed, FinishCommit, StartTimestampedWrite, GoTo
  <2>. QED
    BY <2>1 DEF Lands, Inv, TypeOK
<1>4. commit'[p].pc = "apply" /\ commit[p].pc = "txns"
  BY DEF Lands
<1>. QED
  BY <1>2, <1>3, <1>4 DEF Snapshot, Halt, StartGroupCommit, StampGroupCommit,
     PeekTimestampedWrite, AdvanceUpperCached, AdvanceUpper, RetryWrite,
     TimestampPassed, FinishCommit, StartTimestampedWrite, GoTo, Free,
     Committer, Inv, TypeOK

(* A write that depends on what was read lands on top of exactly that.     *)
LEMMA SerialStep ==
    ASSUME Inv, [Next]_vars, NEW p \in Procs, Lands(p), job[p].base # Blind
    PROVE  job[p].base = Before(commit[p].ts)
<1>1. AttemptWrite(p)
  BY LandsByAttempt
<1>2. CASE job[p].kind = "timed"
  BY <1>1, <1>2 DEF Inv, AttemptWrite, CommitInv
<1>3. CASE job[p].kind = "takeover"
  <2>1. ~Doomed(p)
    BY <1>1 DEF Inv, AttemptWrite, Doomed, CommitInv, TypeOK, CommitType,
       ProcType, Times, Uppers
  <2>2. job[p].base = log
    BY <1>1, <1>3, <2>1 DEF Inv, AttemptWrite, TakeoverInv
  <2>3. log = Before(commit[p].ts)
    <3>1. /\ commit[p].ts \in Int /\ txnsUpper \in Int
          /\ \A u \in log : u \in Int
      BY CommitAssumption DEF Inv, TypeOK, CommitType, Times, Uppers
    <3>2. txnsUpper <= commit[p].ts /\ \A u \in log : u < txnsUpper
      BY <1>1 DEF Inv, AttemptWrite, CatalogInv
    <3>. QED
      BY <3>1, <3>2 DEF Before
  <2>. QED
    BY <2>2, <2>3
<1>. QED
  BY <1>2, <1>3 DEF Inv, CommitInv

(* No write of an older process lands once a newer one serves.             *)
LEMMA StaleStep ==
    ASSUME Inv, [Next]_vars, NEW p \in Procs, NEW q \in Procs, Lands(p), p < q
    PROVE  ~Serving(q)
<1>1. AttemptWrite(p)
  BY LandsByAttempt
<1>2. commit[p].ts < proc[p].seen /\ txnsUpper <= commit[p].ts
  BY <1>1 DEF Inv, AttemptWrite, CommitInv
<1>3. /\ commit[p].ts \in Int /\ txnsUpper \in Int /\ proc[p].seen \in Int
  BY CommitAssumption DEF Inv, TypeOK, CommitType, ProcType, Times, Uppers
<1>. QED
  BY <1>2, <1>3 DEF Inv, CatalogInv, Serving, AfterRegister

(* The invariant holds of every behaviour.                                 *)
LEMMA Invariance == Spec => []Inv
  BY InitInv, NextInv, PTL DEF Spec

(* The variables keep their types, and the oracle never serves a read      *)
(* timestamp that is ahead of the write timestamps.                        *)
THEOREM TypeCorrect == Spec => []TypeOK
<1>1. Inv => TypeOK
  BY DEF Inv
<1>. QED
  BY <1>1, Invariance, PTL

(* Strict serializability: no statement reads before what a client had     *)
(* written or seen when it began, whatever BatchingTimestampOracle puts    *)
(* into one batch, and across a take-over.                                 *)
THEOREM Linearized == Spec => []ReadsAreLinearized
<1>1. Inv => ReadsAreLinearized
  BY DEF Inv, SessionInv, ReadsAreLinearized
<1>. QED
  BY <1>1, Invariance, PTL

(* OCC writes and the reset of the system tables are written on top of     *)
(* exactly what they were computed from.                                   *)
THEOREM Serial == Spec => WritesAreSerial
<1>1. Inv /\ [Next]_vars =>
        [\A p \in Procs : Lands(p) /\ job[p].base # Blind =>
           job[p].base = Before(commit[p].ts)]_vars
  BY SerialStep
<1>. QED
  BY <1>1, Invariance, PTL DEF Spec, WritesAreSerial

(* A process that does not know yet that it is fenced writes nothing once  *)
(* a newer one serves.                                                     *)
THEOREM Fencing == Spec => NoStaleWrites
<1>1. Inv /\ [Next]_vars =>
        [\A p, q \in Procs : Lands(p) /\ p < q => ~Serving(q)]_vars
  BY StaleStep
<1>. QED
  BY <1>1, Invariance, PTL DEF Spec, NoStaleWrites
=============================================================================
