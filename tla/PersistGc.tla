------------------------------ MODULE PersistGc ------------------------------
(***************************************************************************)
(* The versions of a shard's state and their garbage collection:           *)
(* internal/gc.rs, internal/state_versions.rs and the rollup and gc        *)
(* bookkeeping of internal/state.rs, machine.rs and apply.rs.              *)
(*                                                                         *)
(* Every version of the state is a diff in Consensus.  Now and then the    *)
(* whole state is written to Blob as a rollup and then linked into a later *)
(* version.  A collector, one per process, deletes the blobs that old      *)
(* versions dropped, truncates the diffs below a rollup and unlinks the    *)
(* older rollups, in separate steps, with the list of rollups taken from a *)
(* cached state that may be stale, while other processes do the same.      *)
(*                                                                         *)
(* A part is named by the SeqNo of the version that added it.  A rollup is *)
(* named by the version it is a copy of and the task that wrote it.        *)
(* Thresholds that only tune how often work is assigned are at their       *)
(* smallest: every commit asks for a rollup.                               *)
(***************************************************************************)
EXTENDS Integers, FiniteSets, FiniteSetsExt

CONSTANTS
    Procs,          \* processes, each with a cached state and a collector
    ClientProcs,    \* the processes with writers and readers of the shard
    Tasks,          \* rollup tasks; each writes one rollup
    ProcOf,         \* the process of a task
    Readers,        \* leased readers: they hold SeqNos
    ActiveGcProcs,  \* the processes configured with GC_USE_ACTIVE_GC
    GcMinVersions,  \* GC_MIN_VERSIONS: only for active gc
    GcMaxVersions,  \* GC_MAX_VERSIONS
    NoWriters,      \* whether all writers have expired when a command runs
    MaxSeqNo,       \* bound: versions in a behaviour
    MaxCommands,    \* bound: commands of writers, readers and compaction
    MaxFaults       \* bound: lost answers and crashes in a behaviour

InitialTask == "initial"

ASSUME GcAssumption ==
    /\ InitialTask \notin Tasks
    /\ ClientProcs \subseteq Procs /\ ProcOf \in [Tasks -> Procs]
    /\ ActiveGcProcs \subseteq Procs /\ NoWriters \in BOOLEAN
    /\ GcMinVersions \in Nat \ {0} /\ GcMaxVersions \in Nat \ {0}
    /\ MaxSeqNo \in Nat /\ MaxCommands \in Nat
    /\ MaxFaults \in Nat

VARIABLES
    head,         \* the SeqNo of the current version
    earliest,     \* the smallest SeqNo with a diff in Consensus
    versions,     \* every version committed; Consensus has earliest .. head
    partBlobs,    \* the batch parts in Blob
    rollupBlobs,  \* the rollups in Blob
    cache,        \* per process: the SeqNo of its cached state
    fetching,     \* per process: the diffs scanned by fetch_current_state
    task,         \* per rollup task: its step, rollup, applied_ever_true
    gcReq,        \* per process: the requests queued for its collector
    gc,           \* per process: the gc_and_truncate in progress
    commands,     \* commands of writers, readers and compaction so far
    faults,       \* lost answers and crashes so far
    panics        \* history: the assertions of gc.rs that failed

consensusVars == <<head, earliest, versions>>
blobVars == <<partBlobs, rollupBlobs>>
boundVars == <<commands, faults>>
vars == <<consensusVars, blobVars, cache, fetching, task, gcReq, gc,
          boundVars, panics>>

-----------------------------------------------------------------------------
SeqNos == 0 .. MaxSeqNo
None == -1
Keys == [at : SeqNos, by : Tasks \cup {InitialTask}]

Holds == UNION {[S -> SeqNos] : S \in SUBSET Readers}

Version ==
    [rollups : SUBSET Keys, parts : SUBSET SeqNos, holds : Holds,
     lastGc : SeqNos, activeGc : BOOLEAN]

AtOf(rollups) == {k.at : k \in rollups}

LatestRollup(v) == CHOOSE k \in v.rollups : k.at = Max(AtOf(v.rollups))

SeqNoSince(v, n) == Min({n} \cup {v.holds[r] : r \in DOMAIN v.holds})

Current == versions[head]
CurrentSince == SeqNoSince(Current, head)

Task(pc, key, ever) == [pc |-> pc, key |-> key, ever |-> ever]
InitialKey == [at |-> 0, by |-> InitialTask]
NoTask == Task("idle", InitialKey, FALSE)
TaskDone == Task("done", InitialKey, FALSE)

(* A gc_and_truncate: its request, the rollups it found in the cached      *)
(* state, the diffs it fetched (first .. last; first is where its iterator *)
(* stands).                                                                *)
Gc(pc, req, rollups, first, last) ==
    [pc |-> pc, req |-> req, rollups |-> rollups, first |-> first,
     last |-> last]
NoGc == Gc("idle", 0, {}, 0, 0)

NoFetch == [first |-> None, last |-> None]

(* The shard after write_initial_rollup and its compare_and_set.           *)
Init ==
    /\ head = 0
    /\ earliest = 0
    /\ versions = [n \in {0} |->
                     [rollups |-> {InitialKey}, parts |-> {},
                      holds |-> [r \in {} |-> 0], lastGc |-> 0,
                      activeGc |-> FALSE]]
    /\ partBlobs = {}
    /\ rollupBlobs = {InitialKey}
    /\ cache = [p \in Procs |-> 0]
    /\ fetching = [p \in Procs |-> NoFetch]
    /\ task = [t \in Tasks |-> NoTask]
    /\ gcReq = [p \in Procs |-> None]
    /\ gc = [p \in Procs |-> NoGc]
    /\ commands = 0
    /\ faults = 0
    /\ panics = {}

-----------------------------------------------------------------------------
(* Committing a version.                                                   *)

(* State::maybe_gc.  The clock enters only as whether the active gc is     *)
(* older than the fallback threshold.  Without active gc the versions that *)
(* must be collectable grow with the logarithm of the SeqNo.               *)
GcThreshold(n, active) ==
    IF active THEN GcMinVersions
    ELSE Max({1, Min({k \in 0 .. n : 2 ^ k >= n})})

MaybeGcNoHolds(v, n, isWrite, active, late) ==  \* mutant: readers ignored
    IF n - v.lastGc >= GcThreshold(n, active) /\ (isWrite \/ NoWriters)
    THEN [v |-> [v EXCEPT !.lastGc = n], req |-> n]
    ELSE [v |-> v, req |-> None]

MaybeGcUncapped(v, n, isWrite, active, late) ==  \* mutant: missing min
    IF SeqNoSince(v, n) - v.lastGc >= GcThreshold(n, active)
    THEN [v |-> [v EXCEPT !.lastGc = @ + GcMaxVersions],
          req |-> SeqNoSince(v, n)]
    ELSE [v |-> v, req |-> None]

MaybeGc(v, n, isWrite, active, late) ==
    LET since == SeqNoSince(v, n)
        due == since - v.lastGc >= GcThreshold(n, active)
        held == active /\ v.activeGc
        should == /\ due \/ held
                  /\ isWrite \/ NoWriters
                  /\ held => late
    IN  IF should
        THEN [v |-> [v EXCEPT !.lastGc = Min({since, @ + GcMaxVersions}),
                              !.activeGc = @ \/ active],
              req |-> Min({since, v.lastGc + GcMaxVersions})]
        ELSE [v |-> v, req |-> None]

(* compute_next_state_locked and the compare_and_set: the successor of a   *)
(* version is computed from the cached one, so it is accepted only if the  *)
(* cache is current.  When the answer is lost the caller knows nothing and *)
(* the maintenance it was assigned is never run.                           *)
Commit(p, v, isWrite, lost) ==
    /\ cache[p] = head
    /\ head < MaxSeqNo
    /\ \E late \in BOOLEAN :
         LET next == MaybeGc(v, head + 1, isWrite, p \in ActiveGcProcs, late)
         IN  /\ versions' = [n \in 0 .. head + 1 |->
                               IF n <= head THEN versions[n] ELSE next.v]
             /\ gcReq' = IF lost THEN gcReq
                         ELSE [gcReq EXCEPT ![p] = Max({@, next.req})]
    /\ head' = head + 1
    /\ cache' = IF lost THEN cache ELSE [cache EXCEPT ![p] = head + 1]
    /\ faults' = IF lost THEN faults + 1 ELSE faults
    /\ UNCHANGED <<earliest, fetching, panics>>

(* A command of a client: its answer may be lost too, but nothing here     *)
(* depends on what a client knows.                                         *)
ClientCommit(p, v, isWrite) ==
    /\ commands < MaxCommands
    /\ commands' = commands + 1
    /\ Commit(p, v, isWrite, FALSE)
    /\ UNCHANGED <<rollupBlobs, task, gc>>

(* compare_and_append: the part is in Blob before it is linked.            *)
CompareAndAppend(p) ==
    /\ ClientCommit(p, [Current EXCEPT !.parts = @ \cup {head + 1}], TRUE)
    /\ partBlobs' = partBlobs \cup {head + 1}

(* merge_res: a compaction replaced the parts by a new one.                *)
MergeRes(p) ==
    /\ Current.parts # {}
    /\ ClientCommit(p, [Current EXCEPT !.parts = {head + 1}], FALSE)
    /\ partBlobs' = partBlobs \cup {head + 1}

(* The commands of a leased reader, as far as its hold on a SeqNo goes.    *)
SetHolds(p, holds) ==
    /\ ClientCommit(p, [Current EXCEPT !.holds = holds], FALSE)
    /\ UNCHANGED partBlobs

RegisterReader(p, r) ==
    /\ r \notin DOMAIN Current.holds
    /\ SetHolds(p, [s \in DOMAIN Current.holds \cup {r} |->
                      IF s = r THEN head + 1 ELSE Current.holds[s]])

DowngradeReader(p, r) ==
    /\ r \in DOMAIN Current.holds
    /\ \E n \in Current.holds[r] + 1 .. head + 1 :
         SetHolds(p, [Current.holds EXCEPT ![r] = n])

ExpireReader(p, r) ==
    /\ r \in DOMAIN Current.holds
    /\ SetHolds(p, [s \in DOMAIN Current.holds \ {r} |-> Current.holds[s]])

-----------------------------------------------------------------------------
(* Catching up.                                                            *)

(* PubSub and fetch_and_update_state: diffs that follow the cached state.  *)
ApplyDiffs(p) ==
    /\ cache[p] # None
    /\ earliest <= cache[p] + 1
    /\ cache[p] < head
    /\ cache' = [cache EXCEPT ![p] = head]
    /\ UNCHANGED <<consensusVars, blobVars, fetching, task, gcReq, gc,
                   boundVars, panics>>

(* The slow path: a new process, or one whose next diff was truncated,     *)
(* scans the live diffs to look for a rollup.                              *)
ScanDiffs(p) ==
    /\ fetching[p] = NoFetch
    /\ cache[p] = None \/ cache[p] + 1 < earliest
    /\ fetching' = [fetching EXCEPT ![p] = [first |-> earliest,
                                           last |-> head]]
    /\ UNCHANGED <<consensusVars, blobVars, cache, task, gcReq, gc,
                   boundVars, panics>>

(* fetch_current_state: the rollup named by the latest diff, or all over.  *)
FetchRollup(p) ==
    /\ fetching[p] # NoFetch
    /\ LET f == fetching[p]
           found == LatestRollup(versions[f.last]) \in rollupBlobs
       IN  /\ fetching' = [fetching EXCEPT ![p] =
                             IF found THEN NoFetch
                             ELSE [first |-> earliest, last |-> head]]
           /\ cache' = IF found
                       THEN [cache EXCEPT ![p] = Max({@, f.last})]
                       ELSE cache
    /\ UNCHANGED <<consensusVars, blobVars, task, gcReq, gc, boundVars,
                   panics>>

-----------------------------------------------------------------------------
(* Writing rollups: add_rollup_for_current_seqno.                          *)

(* write_rollup_for_state: the cached state, unless diffs it would inline  *)
(* are truncated.  The version whose commit asked for the rollup is in the *)
(* cache, so the cached state is never the initial one.                    *)
WriteRollup(t) ==
    LET p == ProcOf[t]
        latest == LatestRollup(versions[cache[p]])
        key == [at |-> cache[p], by |-> t]
    IN  /\ task[t].pc = "idle"
        /\ cache[p] > 0
        /\ earliest <= latest.at + 1
        /\ rollupBlobs' = rollupBlobs \cup {key}
        /\ task' = [task EXCEPT ![t] = Task("written", key, FALSE)]
        /\ UNCHANGED <<consensusVars, partBlobs, cache, fetching, gcReq, gc,
                       boundVars, panics>>

(* StateCollections::add_rollup: the rollups after it, and the answer.     *)
AddRollupTo(rollups, key) ==
    LET same == {k \in rollups : k.at = key.at}
    IN  IF same # {}
        THEN [rollups |-> rollups, applied |-> same = {key}]
        ELSE IF key.at < Min(AtOf(rollups))
        THEN [rollups |-> rollups, applied |-> FALSE]
        ELSE [rollups |-> rollups \cup {key}, applied |-> TRUE]

(* An attempt of Machine::add_rollup on a stale cache: only                *)
(* applied_ever_true remembers it.                                         *)
AddRollupMismatch(t) ==
    LET p == ProcOf[t]
        res == AddRollupTo(versions[cache[p]].rollups, task[t].key)
    IN  /\ task[t].pc = "written"
        /\ cache[p] < head
        /\ res.applied
        /\ task' = [task EXCEPT ![t].ever = TRUE]
        /\ UNCHANGED <<consensusVars, blobVars, cache, fetching, gcReq, gc,
                       boundVars, panics>>

AddRollup(t) ==
    LET res == AddRollupTo(Current.rollups, task[t].key)
        ever == task[t].ever \/ res.applied
    IN  /\ task[t].pc = "written"
        /\ \E lost \in BOOLEAN :
             /\ lost => faults < MaxFaults
             /\ Commit(ProcOf[t], [Current EXCEPT !.rollups = res.rollups],
                       FALSE, lost)
             /\ task' = [task EXCEPT ![t] =
                  CASE lost -> Task("written", @.key, ever)
                    [] ~lost /\ ever -> TaskDone
                    [] OTHER -> Task("unlinked", @.key, FALSE)]
        /\ UNCHANGED <<blobVars, gc, commands>>

(* A rollup that was never linked is deleted.                              *)
DeleteRollup(t) ==
    /\ task[t].pc = "unlinked"
    /\ rollupBlobs' = rollupBlobs \ {task[t].key}
    /\ task' = [task EXCEPT ![t] = TaskDone]
    /\ UNCHANGED <<consensusVars, partBlobs, cache, fetching, gcReq, gc,
                   boundVars, panics>>

-----------------------------------------------------------------------------
(* Garbage collection: gc_and_truncate.                                    *)

(* What a crash of the process loses.                                      *)
Restart(p) ==
    /\ cache' = [cache EXCEPT ![p] = None]
    /\ fetching' = [fetching EXCEPT ![p] = NoFetch]
    /\ task' = [t \in Tasks |->
                  IF ProcOf[t] = p /\ task[t].pc # "idle"
                  THEN TaskDone ELSE task[t]]
    /\ gcReq' = [gcReq EXCEPT ![p] = None]
    /\ gc' = [gc EXCEPT ![p] = NoGc]

Crash(p) ==
    /\ faults < MaxFaults
    /\ cache[p] # None
    /\ faults' = faults + 1
    /\ Restart(p)
    /\ UNCHANGED <<consensusVars, blobVars, commands, panics>>

Panic(p, site) ==
    /\ panics' = panics \cup {site}
    /\ Restart(p)

GoOn(p, g) ==
    /\ gc' = [gc EXCEPT ![p] = g]
    /\ UNCHANGED <<cache, fetching, task, gcReq, panics>>

(* GcRollups::rollups_to_remove_from_state: all but the latest.            *)

ToRemoveAll(rollups) == rollups  \* mutant: the last one is not split off

ToRemove(rollups) == {k \in rollups : \E l \in rollups : k.at < l.at}

(* The worker takes all requests queued for it at once.  The version that  *)
(* asked for the gc is in the cache, so its seqno_since covers the request.*)

GcStartAll(p) ==  \* mutant: takes rollups above the request too
    /\ gc[p].pc = "idle"
    /\ gcReq[p] # None
    /\ gc' = [gc EXCEPT ![p] = Gc("fetch", gcReq[p],
                                 versions[cache[p]].rollups, 0, 0)]
    /\ gcReq' = [gcReq EXCEPT ![p] = None]
    /\ UNCHANGED <<consensusVars, blobVars, cache, fetching, task,
                   boundVars, panics>>

GcStart(p) ==
    LET rollups == {k \in versions[cache[p]].rollups : k.at <= gcReq[p]}
    IN  /\ gc[p].pc = "idle"
        /\ gcReq[p] # None
        /\ gc' = [gc EXCEPT ![p] =
                    Gc(IF ToRemove(rollups) = {} THEN "remove" ELSE "fetch",
                       gcReq[p], rollups, 0, 0)]
        /\ gcReq' = [gcReq EXCEPT ![p] = None]
        /\ UNCHANGED <<consensusVars, blobVars, cache, fetching, task,
                       boundVars, panics>>

(* fetch_live_diffs_through or fetch_all_live_diffs.  With active gc the   *)
(* diffs end at the request, and must start at a rollup already found.     *)
GcFetchDiffs(p) ==
    LET g == gc[p]
        active == p \in ActiveGcProcs
        last == IF active THEN Min({g.req, head}) ELSE head
    IN  /\ g.pc = "fetch"
        /\ IF active /\ earliest > g.req
           THEN Panic(p, "state is initialized")
           ELSE IF active /\ earliest \notin AtOf(g.rollups)
           THEN GoOn(p, NoGc)
           ELSE GoOn(p, Gc("initial", g.req, g.rollups, earliest, last))
        /\ UNCHANGED <<consensusVars, blobVars, boundVars>>

(* The parts and rollups that the diffs first + 1 .. last dropped.         *)

DroppedPartsButLast(first, last) ==  \* mutant: stops one diff early
    UNION {versions[n - 1].parts \ versions[n].parts :
             n \in first + 1 .. last - 1}

DroppedParts(first, last) ==
    UNION {versions[n - 1].parts \ versions[n].parts : n \in first + 1 .. last}
DroppedRollups(first, last) ==
    UNION {versions[n - 1].rollups \ versions[n].rollups :
             n \in first + 1 .. last}

DroppedTwice(first, last) ==
    \E m, n \in first + 1 .. last :
      /\ m # n
      /\ (versions[m - 1].rollups \ versions[m].rollups)
           \cap (versions[n - 1].rollups \ versions[n].rollups) # {}

(* incrementally_delete_and_truncate: the next rollup to truncate to, if   *)
(* any, and the assertions on the way to it.                               *)
Targets(g) == {n \in AtOf(g.rollups) : n > g.first}

NextTarget(p, g) ==
    LET to == Min(Targets(g))
    IN  IF Targets(g) = {}
        THEN GoOn(p, Gc("remove", 0, g.rollups, 0, 0))
        ELSE IF g.first \notin AtOf(g.rollups)
        THEN Panic(p, "must start with a present rollup")
        ELSE IF DroppedTwice(g.first, to)
        THEN Panic(p, "rollup deleted twice")
        ELSE IF to > g.last
        THEN Panic(p, "diffs do not reach the rollup")
        ELSE IF \/ DroppedRollups(g.first, to) \cap versions[to].rollups # {}
                \/ DroppedParts(g.first, to) \cap versions[to].parts # {}
                \/ \E k \in versions[to].rollups : k.at >= to
        THEN Panic(p, "live blob deleted")
        ELSE GoOn(p, Gc("delete", 0, g.rollups, g.first, g.last))

(* The rollup of the first diff; if it is gone, so is the first diff.      *)
GcFetchRollup(p) ==
    LET g == gc[p]
        active == p \in ActiveGcProcs
        from == IF active THEN g.rollups ELSE versions[g.last].rollups
    IN  /\ g.pc = "initial"
        /\ IF \E k \in from : k.at = g.first /\ k \in rollupBlobs
           THEN NextTarget(p, g)
           ELSE GoOn(p, IF active THEN NoGc ELSE [g EXCEPT !.pc = "fetch"])
        /\ UNCHANGED <<consensusVars, blobVars, boundVars>>

(* delete_and_truncate, in two steps: first Blob, then Consensus.          *)

GcDeleteListed(p) ==  \* mutant: deletes rollups that are still linked
    LET g == gc[p]
    IN  /\ g.pc = "delete"
        /\ rollupBlobs' = rollupBlobs \ ToRemove(g.rollups)
        /\ GoOn(p, [g EXCEPT !.pc = "truncate"])
        /\ UNCHANGED <<consensusVars, partBlobs, boundVars>>

GcDeleteBlobs(p) ==
    LET g == gc[p]
        to == Min(Targets(g))
    IN  /\ g.pc = "delete"
        /\ partBlobs' = partBlobs \ DroppedParts(g.first, to)
        /\ rollupBlobs' = rollupBlobs \ DroppedRollups(g.first, to)
        /\ GoOn(p, [g EXCEPT !.pc = "truncate"])
        /\ UNCHANGED <<consensusVars, boundVars>>

GcTruncate(p) ==
    LET g == gc[p]
        to == Min(Targets(g))
    IN  /\ g.pc = "truncate"
        /\ earliest' = Max({earliest, to})
        /\ NextTarget(p, [g EXCEPT !.first = to])
        /\ UNCHANGED <<head, versions, blobVars, boundVars>>

(* Machine::remove_rollups: by SeqNo, and the active gc is over.  Nothing  *)
(* is committed when there is nothing to do.                               *)
GcRemoveRollups(p) ==
    LET g == gc[p]
        remove == AtOf(ToRemove(g.rollups))
        kept == {k \in Current.rollups : k.at \notin remove}
    IN  /\ g.pc = "remove"
        /\ remove # {} \/ Current.activeGc
        /\ \E lost \in BOOLEAN :
             /\ lost => faults < MaxFaults
             /\ Commit(p, [Current EXCEPT !.rollups = kept,
                                          !.activeGc = FALSE], FALSE, lost)
             /\ gc' = IF lost THEN gc ELSE [gc EXCEPT ![p] = NoGc]
        /\ UNCHANGED <<blobVars, task, commands>>

GcNoop(p) ==
    /\ gc[p].pc = "remove"
    /\ ToRemove(gc[p].rollups) = {}
    /\ ~versions[cache[p]].activeGc
    /\ GoOn(p, NoGc)
    /\ UNCHANGED <<consensusVars, blobVars, boundVars>>

-----------------------------------------------------------------------------
Next ==
    \/ \E p \in ClientProcs :
         \/ CompareAndAppend(p) \/ MergeRes(p)
         \/ \E r \in Readers : \/ RegisterReader(p, r)
                               \/ DowngradeReader(p, r)
                               \/ ExpireReader(p, r)
    \/ \E p \in Procs :
         \/ ApplyDiffs(p) \/ ScanDiffs(p) \/ FetchRollup(p)
         \/ GcStart(p) \/ GcFetchDiffs(p) \/ GcFetchRollup(p)
         \/ GcDeleteBlobs(p) \/ GcTruncate(p)
         \/ GcRemoveRollups(p) \/ GcNoop(p) \/ Crash(p)
    \/ \E t \in Tasks : \/ WriteRollup(t) \/ AddRollupMismatch(t)
                        \/ AddRollup(t) \/ DeleteRollup(t)

Spec == Init /\ [][Next]_vars

-----------------------------------------------------------------------------
(* The SeqNos, keys and phases are what they should be.                    *)
TypeOK ==
    /\ head \in SeqNos /\ earliest \in 0 .. head
    /\ versions \in [0 .. head -> Version]
    /\ partBlobs \subseteq SeqNos /\ rollupBlobs \subseteq Keys
    /\ cache \in [Procs -> None .. head]
    /\ fetching \in [Procs -> [first : None .. head, last : None .. head]]
    /\ task \in [Tasks -> [pc : {"idle", "written", "unlinked", "done"},
                           key : Keys, ever : BOOLEAN]]
    /\ gcReq \in [Procs -> None .. head]
    /\ gc \in [Procs -> [pc : {"idle", "fetch", "initial", "delete",
                               "truncate", "remove"},
                         req : SeqNos, rollups : SUBSET Keys,
                         first : SeqNos, last : SeqNos]]
    /\ commands \in 0 .. MaxCommands /\ faults \in 0 .. MaxFaults

(* Invariant of StateVersions: `earliest <= current.seqno_since()`.  No    *)
(* version that a reader holds is truncated.                               *)
EarliestIsHeld == earliest <= CurrentSince

(* Invariants of StateVersions: the current state has a rollup for the     *)
(* earliest live diff, and the rollups from there on are in Blob.  Without *)
(* that no version could be reconstructed.                                 *)
EarliestHasRollup ==
    /\ earliest \in AtOf(Current.rollups)
    /\ {k \in Current.rollups : k.at >= earliest} \subseteq rollupBlobs

(* StateVersions: "The rollups in `current` exist in Blob", all of them.   *)
RollupsExist == Current.rollups \subseteq rollupBlobs

(* fetch_current_state works from diffs it has read: they follow on the    *)
(* rollup that the last one names, and if that rollup is gone, the live    *)
(* diffs must have moved on, so that the refetch does not loop for ever.   *)
RefetchMakesProgress ==
    \A p \in Procs :
      fetching[p] # NoFetch =>
        LET latest == LatestRollup(versions[fetching[p].last])
        IN  /\ fetching[p].first <= latest.at + 1
            /\ latest \in rollupBlobs \/ earliest > fetching[p].first

(* A version at or above seqno_since may be read by someone: all its parts *)
(* are in Blob, whatever the collectors do.                                *)
HeldPartsExist ==
    \A n \in CurrentSince .. head : versions[n].parts \subseteq partBlobs

(* Blobs are deleted before the diffs that name them are truncated: what   *)
(* no live version names any more is not left in Blob for ever, even if a  *)
(* collector crashes or two collectors race.                               *)
NothingLeaks ==
    /\ partBlobs \subseteq UNION {versions[n].parts : n \in earliest .. head}
    /\ \A k \in rollupBlobs :
         (\E n \in 0 .. head : k \in versions[n].rollups)
           => \E n \in earliest .. head : k \in versions[n].rollups

(* None of the assertions of gc.rs fails.                                  *)
GcNeverPanics == panics = {}
=============================================================================
