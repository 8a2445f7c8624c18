------------------------- MODULE PersistShardProofs -------------------------
(***************************************************************************)
(* Proofs about PersistShard, for any number of handles and processes, any *)
(* bound on calls and errors, and any frontiers.                           *)
(*                                                                         *)
(* First, what the transition functions of ShardState preserve: every      *)
(* command that asks for a new version yields one that VersionOK accepts   *)
(* and that moves no frontier and no SeqNo hold backwards.  Then Inv is    *)
(* inductive: a proposal that Consensus can still accept was computed from *)
(* the current version, hence it is a successor of it.                     *)
(***************************************************************************)
EXTENDS PersistShard, TLAPS, WellFoundedInduction

-----------------------------------------------------------------------------
(* ShardState                                                              *)

(* The meet of a non-empty set of frontiers or SeqNos is its least member. *)
LEMMA MeetIsLeast ==
    ASSUME NEW S \in SUBSET Nat, S # {}
    PROVE  Meet(S) \in S /\ \A y \in S : Meet(S) <= y
<1> DEFINE R == OpToRel(<, Nat)
<1>1. PICK x \in S : \A y \in S : ~(<<y, x>> \in R)
    <2>1. IsWellFoundedOn(R, Nat)
        BY NatLessThanWellFounded
    <2> HIDE DEF R
    <2> QED BY <2>1, WFMin
<1>2. \A y \in S : <<y, x>> \in R <=> y < x
    BY DEF OpToRel
<1> HIDE DEF R
<1>3. \A y \in S : x <= y
    <2>1. \A y \in S : y \in Nat /\ ~(y < x)
        BY <1>1, <1>2
    <2> QED BY <2>1
<1> QED BY <1>3 DEF Meet

(* The maps, entry by entry.                                               *)
LEMMA MapInsert ==
    ASSUME NEW K, NEW V, NEW f, IsMap(f, K, V), NEW k \in K, NEW v \in V
    PROVE  /\ IsMap(Insert(f, k, v), K, V)
           /\ DOMAIN Insert(f, k, v) = DOMAIN f \cup {k}
           /\ Insert(f, k, v)[k] = v
           /\ \A x \in DOMAIN f \ {k} : Insert(f, k, v)[x] = f[x]
BY DEF IsMap, Insert

LEMMA MapWithout ==
    ASSUME NEW K, NEW V, NEW f, IsMap(f, K, V), NEW S
    PROVE  /\ IsMap(Without(f, S), K, V)
           /\ DOMAIN Without(f, S) = DOMAIN f \ S
           /\ \A x \in DOMAIN f \ S : Without(f, S)[x] = f[x]
BY DEF IsMap, Without

LEMMA MapEmpty ==
    ASSUME NEW K, NEW V
    PROVE  IsMap(NoEntries, K, V) /\ DOMAIN NoEntries = {}
BY DEF IsMap, NoEntries

(* The SeqNo hold of a version is a lower bound of its readers' holds, and *)
(* it moves forward when they do.                                          *)
LEMMA SeqnoSinceBound ==
    ASSUME NEW s, VersionOK(s)
    PROVE  /\ SeqnoSince(s) \in Nat
           /\ SeqnoSince(s) <= s.seqno
           /\ \A r \in DOMAIN s.leased : SeqnoSince(s) <= s.leased[r].seqno
           /\ \/ SeqnoSince(s) = s.seqno
              \/ \E r \in DOMAIN s.leased : SeqnoSince(s) = s.leased[r].seqno
<1> DEFINE S == {s.seqno} \cup {s.leased[r].seqno : r \in DOMAIN s.leased}
<1>1. S \in SUBSET Nat /\ S # {}
    BY DEF VersionOK, IsShardState, IsMap, LeasedReaderState
<1>2. Meet(S) \in S /\ \A y \in S : Meet(S) <= y
    BY <1>1, MeetIsLeast
<1> QED BY <1>1, <1>2 DEF SeqnoSince

LEMMA SeqnoSinceForward ==
    ASSUME NEW s, VersionOK(s), NEW t, VersionOK(t), s.seqno <= t.seqno,
           \A r \in DOMAIN t.leased :
             \/ t.leased[r].seqno >= s.seqno
             \/ /\ r \in DOMAIN s.leased
                /\ s.leased[r].seqno <= t.leased[r].seqno
    PROVE  SeqnoSince(s) <= SeqnoSince(t)
<1>1. /\ SeqnoSince(s) \in Nat
      /\ SeqnoSince(s) <= s.seqno
      /\ \A r \in DOMAIN s.leased : SeqnoSince(s) <= s.leased[r].seqno
    BY SeqnoSinceBound
<1>2. \/ SeqnoSince(t) = t.seqno
      \/ \E r \in DOMAIN t.leased : SeqnoSince(t) = t.leased[r].seqno
    BY SeqnoSinceBound
<1>3. /\ s.seqno \in Nat /\ t.seqno \in Nat
      /\ \A r \in DOMAIN s.leased : s.leased[r].seqno \in Nat
      /\ \A r \in DOMAIN t.leased : t.leased[r].seqno \in Nat
    BY DEF VersionOK, IsShardState, IsMap, LeasedReaderState
<1>4. CASE SeqnoSince(t) = t.seqno
    BY <1>1, <1>3, <1>4
<1>5. CASE \E r \in DOMAIN t.leased : SeqnoSince(t) = t.leased[r].seqno
    BY <1>1, <1>3, <1>5
<1> QED BY <1>2, <1>4, <1>5

(* Recomputing the since keeps every reader covered and never moves it     *)
(* back, because the readers hold it back already.                         *)
LEMMA UpdateSinceForward ==
    ASSUME NEW s, VersionOK(s)
    PROVE  /\ VersionOK(UpdateSince(s))
           /\ s.since <= UpdateSince(s).since
           /\ UpdateSince(s) = [s EXCEPT !.since = UpdateSince(s).since]
<1> DEFINE S == ReaderSinces(s)
<1>1. S \in SUBSET Frontier /\ S \in SUBSET Nat
    BY TopAssumption DEF VersionOK, IsShardState, IsMap, LeasedReaderState,
       CriticalReaderState, ReaderSinces, Frontier
<1>2. CASE S = {}
    BY <1>2, TopAssumption DEF UpdateSince, VersionOK, IsShardState, Frontier
<1>3. CASE S # {}
    <2> DEFINE m == Meet(S)
    <2>1. m \in S /\ \A y \in S : m <= y
        BY <1>1, <1>3, MeetIsLeast
    <2>2. m \in Frontier /\ s.since <= m
        BY <1>1, <2>1 DEF VersionOK, HoldsBack, ReaderSinces
    <2>3. /\ \A r \in DOMAIN s.leased : m <= s.leased[r].since
          /\ \A c \in DOMAIN s.critical : m <= s.critical[c].since
        BY <2>1 DEF ReaderSinces
    <2>4. UpdateSince(s) = [s EXCEPT !.since = m]
        BY <1>3 DEF UpdateSince
    <2> HIDE DEF m
    <2> DEFINE t == [s EXCEPT !.since = m]
    <2>5. /\ t.since = m /\ t.seqno = s.seqno /\ t.upper = s.upper
          /\ t.writers = s.writers /\ t.leased = s.leased
          /\ t.critical = s.critical /\ t.batches = s.batches
          /\ t = [seqno |-> t.seqno, since |-> t.since, upper |-> t.upper,
                  writers |-> t.writers, leased |-> t.leased,
                  critical |-> t.critical, batches |-> t.batches]
        BY DEF VersionOK, IsShardState
    <2> HIDE DEF t
    <2>6. VersionOK(t)
        BY <2>2, <2>3, <2>5 DEF VersionOK, IsShardState, HoldsBack
    <2> QED BY <2>2, <2>4, <2>5, <2>6 DEF t
<1> QED BY <1>2, <1>3

(* Field-wise reading of the updates that the commands make.               *)
Fields(t, seqno, since, upper, writers, leased, critical, batches) ==
    /\ t = [seqno |-> seqno, since |-> since, upper |-> upper,
            writers |-> writers, leased |-> leased, critical |-> critical,
            batches |-> batches]
    /\ t.seqno = seqno /\ t.since = since /\ t.upper = upper
    /\ t.writers = writers /\ t.leased = leased /\ t.critical = critical
    /\ t.batches = batches
Shape(s) == Fields(s, s.seqno, s.since, s.upper, s.writers, s.leased,
                   s.critical, s.batches)

LEMMA ShapeOf ==
    ASSUME NEW t, NEW a, NEW b, NEW c, NEW d, NEW e, NEW f, NEW g,
           Fields(t, a, b, c, d, e, f, g)
    PROVE  Shape(t)
BY DEF Fields, Shape

LEMMA SetSeqno ==
    ASSUME NEW s, Shape(s), NEW v
    PROVE  Fields([s EXCEPT !.seqno = v], v, s.since, s.upper, s.writers, s.leased, s.critical, s.batches)
BY DEF Fields, Shape

LEMMA SetSince ==
    ASSUME NEW s, Shape(s), NEW v
    PROVE  Fields([s EXCEPT !.since = v], s.seqno, v, s.upper, s.writers, s.leased, s.critical, s.batches)
BY DEF Fields, Shape

LEMMA SetUpper ==
    ASSUME NEW s, Shape(s), NEW v
    PROVE  Fields([s EXCEPT !.upper = v], s.seqno, s.since, v, s.writers, s.leased, s.critical, s.batches)
BY DEF Fields, Shape

LEMMA SetWriters ==
    ASSUME NEW s, Shape(s), NEW v
    PROVE  Fields([s EXCEPT !.writers = v], s.seqno, s.since, s.upper, v, s.leased, s.critical, s.batches)
BY DEF Fields, Shape

LEMMA SetLeased ==
    ASSUME NEW s, Shape(s), NEW v
    PROVE  Fields([s EXCEPT !.leased = v], s.seqno, s.since, s.upper, s.writers, v, s.critical, s.batches)
BY DEF Fields, Shape

LEMMA SetCritical ==
    ASSUME NEW s, Shape(s), NEW v
    PROVE  Fields([s EXCEPT !.critical = v], s.seqno, s.since, s.upper, s.writers, s.leased, v, s.batches)
BY DEF Fields, Shape

LEMMA SetBatches ==
    ASSUME NEW s, Shape(s), NEW v
    PROVE  Fields([s EXCEPT !.batches = v], s.seqno, s.since, s.upper, s.writers, s.leased, s.critical, v)
BY DEF Fields, Shape

-----------------------------------------------------------------------------
(* What a command may make of the clone it works on.                       *)
Advances(s, t) ==
    /\ VersionOK(t)
    /\ t.seqno = s.seqno
    /\ s.since <= t.since
    /\ s.upper <= t.upper
    /\ \A r \in DOMAIN t.leased :
         \/ t.leased[r].seqno = s.seqno
         \/ /\ r \in DOMAIN s.leased
            /\ s.leased[r].seqno <= t.leased[r].seqno
    /\ IsTombstone(s) => IsTombstone(t)

LEMMA VersionShape ==
    ASSUME NEW s, IsShardState(s)
    PROVE  Shape(s)
BY DEF IsShardState, Shape, Fields

LEMMA AdvancesRefl ==
    ASSUME NEW s, VersionOK(s)
    PROVE  Advances(s, s)
BY TopAssumption DEF Advances, VersionOK, IsShardState, IsMap, LeasedReaderState,
   Frontier

(* A change of the writers, the upper and the batches alone.               *)
LEMMA AppendAdvances ==
    ASSUME NEW s, VersionOK(s), ~IsTombstone(s),
           NEW u \in Frontier, s.upper <= u,
           NEW ws, IsMap(ws, Writers, WriterState),
           NEW bs \in SUBSET HollowBatch,
           NEW t,
           Fields(t, s.seqno, s.since, u, ws, s.leased, s.critical, bs)
    PROVE  Advances(s, t)
BY TopAssumption DEF Advances, VersionOK, HoldsBack, IsShardState, Fields, IsMap,
   LeasedReaderState, Frontier

LEMMA CompareAndAppendAdvances ==
    ASSUME NEW s, VersionOK(s), NEW w \in Writers, NEW b \in HollowBatch,
           CompareAndAppend(s, w, b).flow = "Continue"
    PROVE  Advances(s, CompareAndAppend(s, w, b).st)
<1> DEFINE p == PushBatch(s, b)
           ws == Insert(s.writers, w, [token |-> b.token, upper |-> b.upper])
           t == [p EXCEPT !.writers = ws]
<1>1. /\ ~IsTombstone(s) /\ b.lower <= b.upper /\ s.upper = b.lower
      /\ CompareAndAppend(s, w, b) = Continue(t, "Ok")
    BY TopAssumption
    DEF CompareAndAppend, Break, Continue, Panic, HollowBatch, Frontier
<1>2. CompareAndAppend(s, w, b).st = t
    BY <1>1 DEF Continue
<1>3. IsMap(ws, Writers, WriterState)
    <2>1. [token |-> b.token, upper |-> b.upper] \in WriterState
        BY DEF HollowBatch, WriterState
    <2> QED BY <2>1, MapInsert DEF VersionOK, IsShardState
<1>4. Shape(s)
    BY VersionShape DEF VersionOK
<1>5. \E bs \in SUBSET HollowBatch :
        Fields(p, s.seqno, s.since, b.upper, s.writers, s.leased, s.critical, bs)
    <2>1. CASE b.upper = b.lower
        BY <1>1, <1>4, <2>1 DEF PushBatch, Shape, VersionOK, IsShardState
    <2>2. CASE b.upper # b.lower
        <3> DEFINE bs == s.batches \cup {b}
                   q == [s EXCEPT !.batches = bs]
        <3>1. bs \in SUBSET HollowBatch
            BY DEF VersionOK, IsShardState
        <3>2. p = [q EXCEPT !.upper = b.upper]
            BY <2>2 DEF PushBatch
        <3> HIDE DEF bs
        <3>3. Fields(q, s.seqno, s.since, s.upper, s.writers, s.leased, s.critical,
                     bs)
            BY <1>4, SetBatches
        <3> HIDE DEF q, p
        <3>4. Shape(q)
            BY <3>3, ShapeOf
        <3>5. Fields(p, q.seqno, q.since, b.upper, q.writers, q.leased, q.critical,
                     q.batches)
            BY <3>2, <3>4, SetUpper
        <3> QED BY <3>1, <3>3, <3>5 DEF Fields
    <2> QED BY <2>1, <2>2
<1> HIDE DEF p, ws, t
<1>6. PICK bs \in SUBSET HollowBatch :
        Fields(p, s.seqno, s.since, b.upper, s.writers, s.leased, s.critical, bs)
    BY <1>5
<1>7. Fields(t, p.seqno, p.since, p.upper, ws, p.leased, p.critical, p.batches)
    BY <1>6, ShapeOf, SetWriters DEF t
<1>8. Fields(t, s.seqno, s.since, b.upper, ws, s.leased, s.critical, bs)
    BY <1>6, <1>7 DEF Fields
<1>9. b.upper \in Frontier /\ s.upper <= b.upper
    BY <1>1 DEF HollowBatch
<1> QED BY <1>1, <1>2, <1>3, <1>8, <1>9, AppendAdvances

LEMMA ExpireWriterAdvances ==
    ASSUME NEW s, VersionOK(s), NEW w, ExpireWriter(s, w).flow = "Continue"
    PROVE  Advances(s, ExpireWriter(s, w).st)
<1> DEFINE ws == Without(s.writers, {w})
           t == [s EXCEPT !.writers = ws]
<1>1. ~IsTombstone(s) /\ ExpireWriter(s, w) = Continue(t, "Ok")
    BY DEF ExpireWriter, Break, Continue
<1>2. ExpireWriter(s, w).st = t
    BY <1>1 DEF Continue
<1>3. IsMap(ws, Writers, WriterState)
    BY MapWithout DEF VersionOK, IsShardState
<1> HIDE DEF ws
<1>4. Fields(t, s.seqno, s.since, s.upper, ws, s.leased, s.critical, s.batches)
    BY VersionShape, SetWriters DEF VersionOK
<1> HIDE DEF t
<1>5. s.upper \in Frontier /\ s.upper <= s.upper /\ s.batches \in SUBSET HollowBatch
    BY TopAssumption DEF VersionOK, IsShardState, Frontier
<1> QED BY <1>1, <1>2, <1>3, <1>4, <1>5, AppendAdvances

(* A change of the readers alone, and one followed by update_since.        *)
LEMMA ReadersAdvance ==
    ASSUME NEW s, VersionOK(s), ~IsTombstone(s),
           NEW ls, IsMap(ls, LeasedReaders, LeasedReaderState),
           \A r \in DOMAIN ls :
             /\ ls[r].seqno <= s.seqno
             /\ s.since <= ls[r].since
             /\ \/ ls[r].seqno = s.seqno
                \/ r \in DOMAIN s.leased /\ s.leased[r].seqno <= ls[r].seqno,
           NEW cs, IsMap(cs, CriticalIds, CriticalReaderState),
           \A c \in DOMAIN cs : s.since <= cs[c].since,
           NEW t,
           Fields(t, s.seqno, s.since, s.upper, s.writers, ls, cs, s.batches)
    PROVE  Advances(s, t)
BY TopAssumption DEF Advances, VersionOK, HoldsBack, IsShardState, Fields, Frontier

LEMMA UpdateSinceAdvances ==
    ASSUME NEW s, VersionOK(s), ~IsTombstone(s), NEW t, Advances(s, t)
    PROVE  Advances(s, UpdateSince(t))
<1> DEFINE u == UpdateSince(t)
<1>1. VersionOK(t)
    BY DEF Advances
<1>2. VersionOK(u) /\ t.since <= u.since /\ u = [t EXCEPT !.since = u.since]
    BY <1>1, UpdateSinceForward
<1> HIDE DEF u
<1>3. Fields(u, t.seqno, u.since, t.upper, t.writers, t.leased, t.critical, t.batches)
    <2>1. Shape(t)
        BY <1>1, VersionShape DEF VersionOK
    <2>2. \A v : Fields([t EXCEPT !.since = v], t.seqno, v, t.upper, t.writers,
                        t.leased, t.critical, t.batches)
        BY <2>1, SetSince
    <2> QED BY <1>2, <2>2
<1>4. s.since \in Nat /\ t.since \in Nat /\ u.since \in Nat
    BY <1>1, <1>2, TopAssumption DEF VersionOK, IsShardState, Frontier
<1> QED BY <1>2, <1>3, <1>4 DEF Advances, Fields, u

(* Registering never asks for a time before the shard's since.             *)
LEMMA CriticalSinceBound ==
    ASSUME NEW s, VersionOK(s)
    PROVE  CriticalSince(s) \in Frontier /\ s.since <= CriticalSince(s)
<1> DEFINE S == {s.critical[c].since : c \in DOMAIN s.critical}
<1>1. CASE DOMAIN s.critical = {}
    BY <1>1, TopAssumption DEF CriticalSince, VersionOK, IsShardState, Frontier
<1>2. CASE DOMAIN s.critical # {}
    <2>1. S \in SUBSET Nat /\ S \in SUBSET Frontier /\ S # {}
        BY <1>2, TopAssumption
        DEF VersionOK, IsShardState, IsMap, CriticalReaderState, Frontier
    <2>2. Meet(S) \in S
        BY <2>1, MeetIsLeast
    <2> QED BY <1>2, <2>1, <2>2 DEF CriticalSince, VersionOK, HoldsBack
<1> QED BY <1>1, <1>2

LEMMA RegisterLeasedReaderAdvances ==
    ASSUME NEW s, VersionOK(s), NEW r \in LeasedReaders, NEW x \in BOOLEAN
    PROVE  /\ RegisterLeasedReader(s, r, x).ret \in LeasedReaderState
           /\ RegisterLeasedReader(s, r, x).flow = "Continue" =>
                Advances(s, RegisterLeasedReader(s, r, x).st)
<1> DEFINE e == [seqno |-> s.seqno,
                 since |-> IF x THEN CriticalSince(s) ELSE s.since]
           ls == Insert(s.leased, r, e)
           t == [s EXCEPT !.leased = ls]
<1>1. RegisterLeasedReader(s, r, x) = IF IsTombstone(s) THEN Break(e)
                                      ELSE Continue(t, e)
    BY DEF RegisterLeasedReader
<1>2. e \in LeasedReaderState /\ e.seqno = s.seqno /\ s.since <= e.since
    <2>1. CriticalSince(s) \in Frontier /\ s.since <= CriticalSince(s)
        BY CriticalSinceBound
    <2>2. s.seqno \in Nat /\ s.since \in Frontier /\ s.since <= s.since
        BY TopAssumption DEF VersionOK, IsShardState, Frontier
    <2> QED BY <2>1, <2>2 DEF LeasedReaderState
<1> HIDE DEF e
<1>3. RegisterLeasedReader(s, r, x).ret = e
    BY <1>1 DEF Break, Continue
<1>4. SUFFICES ASSUME RegisterLeasedReader(s, r, x).flow = "Continue"
               PROVE  Advances(s, RegisterLeasedReader(s, r, x).st)
    BY <1>2, <1>3
<1>5. ~IsTombstone(s) /\ RegisterLeasedReader(s, r, x).st = t
    BY <1>1, <1>4 DEF Break, Continue
<1>6. /\ IsMap(ls, LeasedReaders, LeasedReaderState)
      /\ DOMAIN ls = DOMAIN s.leased \cup {r}
      /\ ls[r] = e
      /\ \A q \in DOMAIN s.leased \ {r} : ls[q] = s.leased[q]
    <2>1. IsMap(s.leased, LeasedReaders, LeasedReaderState)
        BY DEF VersionOK, IsShardState
    <2> QED BY <1>2, <2>1 DEF IsMap, Insert
<1> HIDE DEF ls
<1>7. Fields(t, s.seqno, s.since, s.upper, s.writers, ls, s.critical, s.batches)
    BY VersionShape, SetLeased DEF VersionOK
<1> HIDE DEF t
<1>8. \A q \in DOMAIN ls :
        /\ ls[q].seqno <= s.seqno
        /\ s.since <= ls[q].since
        /\ \/ ls[q].seqno = s.seqno
           \/ q \in DOMAIN s.leased /\ s.leased[q].seqno <= ls[q].seqno
    BY <1>2, <1>6 DEF VersionOK, HoldsBack, IsShardState, IsMap, LeasedReaderState
<1> QED BY <1>5, <1>6, <1>7, <1>8, ReadersAdvance
        DEF VersionOK, HoldsBack, IsShardState

LEMMA ExpireLeasedReaderAdvances ==
    ASSUME NEW s, VersionOK(s), NEW r, ExpireLeasedReader(s, r).flow = "Continue"
    PROVE  Advances(s, ExpireLeasedReader(s, r).st)
<1> DEFINE ls == Without(s.leased, {r})
           t == [s EXCEPT !.leased = ls]
<1>1. ~IsTombstone(s) /\ ExpireLeasedReader(s, r) = Continue(t, "Ok")
    BY DEF ExpireLeasedReader, Break, Continue
<1>2. ExpireLeasedReader(s, r).st = t
    BY <1>1 DEF Continue
<1>3. /\ IsMap(ls, LeasedReaders, LeasedReaderState)
      /\ DOMAIN ls = DOMAIN s.leased \ {r}
      /\ \A q \in DOMAIN s.leased \ {r} : ls[q] = s.leased[q]
    <2>1. IsMap(s.leased, LeasedReaders, LeasedReaderState)
        BY DEF VersionOK, IsShardState
    <2> QED BY <2>1 DEF IsMap, Without
<1> HIDE DEF ls
<1>4. Fields(t, s.seqno, s.since, s.upper, s.writers, ls, s.critical, s.batches)
    BY VersionShape, SetLeased DEF VersionOK
<1> HIDE DEF t
<1>5. \A q \in DOMAIN ls :
        /\ ls[q].seqno <= s.seqno
        /\ s.since <= ls[q].since
        /\ q \in DOMAIN s.leased /\ s.leased[q].seqno <= ls[q].seqno
    BY <1>3 DEF VersionOK, HoldsBack, IsShardState, IsMap, LeasedReaderState
<1> QED BY <1>1, <1>2, <1>3, <1>4, <1>5, ReadersAdvance
        DEF VersionOK, HoldsBack, IsShardState

LEMMA DowngradeSinceAdvances ==
    ASSUME NEW s, VersionOK(s), NEW r \in LeasedReaders, NEW out \in Nat,
           NEW f \in Frontier, DowngradeSince(s, r, out, f).flow = "Continue"
    PROVE  Advances(s, DowngradeSince(s, r, out, f).st)
<1> DEFINE old == s.leased[r]
           fwd == old.since < f
           new == [seqno |-> IF out < s.seqno THEN out ELSE s.seqno,
                   since |-> IF fwd THEN f ELSE old.since]
           ls == Insert(s.leased, r, new)
           t == [s EXCEPT !.leased = ls]
<1>1. /\ ~IsTombstone(s) /\ r \in DOMAIN s.leased /\ ~(out < old.seqno)
      /\ DowngradeSince(s, r, out, f)
           = Continue(IF fwd THEN UpdateSince(t) ELSE t, new.since)
    BY DEF DowngradeSince, Break, Continue, Panic
<1>2. DowngradeSince(s, r, out, f).st = IF fwd THEN UpdateSince(t) ELSE t
    BY <1>1 DEF Continue
<1>3. old \in LeasedReaderState /\ old.seqno <= s.seqno /\ s.since <= old.since
    BY <1>1 DEF VersionOK, HoldsBack, IsShardState, IsMap
<1>4. /\ new \in LeasedReaderState
      /\ new.seqno <= s.seqno /\ old.seqno <= new.seqno /\ s.since <= new.since
    BY <1>1, <1>3, TopAssumption
    DEF LeasedReaderState, VersionOK, IsShardState, Frontier
<1> HIDE DEF new
<1>5. /\ IsMap(ls, LeasedReaders, LeasedReaderState)
      /\ DOMAIN ls = DOMAIN s.leased \cup {r}
      /\ ls[r] = new
      /\ \A q \in DOMAIN s.leased \ {r} : ls[q] = s.leased[q]
    <2>1. IsMap(s.leased, LeasedReaders, LeasedReaderState)
        BY DEF VersionOK, IsShardState
    <2> QED BY <1>4, <2>1 DEF IsMap, Insert
<1> HIDE DEF ls
<1>6. Fields(t, s.seqno, s.since, s.upper, s.writers, ls, s.critical, s.batches)
    BY VersionShape, SetLeased DEF VersionOK
<1> HIDE DEF t
<1>7. \A q \in DOMAIN ls :
        /\ ls[q].seqno <= s.seqno
        /\ s.since <= ls[q].since
        /\ q \in DOMAIN s.leased /\ s.leased[q].seqno <= ls[q].seqno
    BY <1>1, <1>4, <1>5 DEF VersionOK, HoldsBack, IsShardState, IsMap,
       LeasedReaderState
<1>8. Advances(s, t)
    BY <1>1, <1>5, <1>6, <1>7, ReadersAdvance DEF VersionOK, HoldsBack, IsShardState
<1> QED BY <1>1, <1>2, <1>8, UpdateSinceAdvances

LEMMA RegisterCriticalReaderAdvances ==
    ASSUME NEW s, VersionOK(s), NEW c \in CriticalIds, NEW o \in Nat
    PROVE  /\ RegisterCriticalReader(s, c, o).ret \in CriticalReaderState
           /\ RegisterCriticalReader(s, c, o).flow = "Continue" =>
                Advances(s, RegisterCriticalReader(s, c, o).st)
<1> DEFINE e == [opaque |-> o, since |-> s.since]
           cs == Insert(s.critical, c, e)
           t == [s EXCEPT !.critical = cs]
<1>1. RegisterCriticalReader(s, c, o) =
        IF IsTombstone(s) THEN Break(e)
        ELSE IF c \in DOMAIN s.critical THEN Continue(s, s.critical[c])
        ELSE Continue(t, e)
    BY DEF RegisterCriticalReader
<1>2. e \in CriticalReaderState /\ s.since <= e.since
    BY TopAssumption DEF CriticalReaderState, VersionOK, IsShardState, Frontier
<1> HIDE DEF e
<1>3. CASE IsTombstone(s)
    BY <1>1, <1>2, <1>3 DEF Break
<1>4. CASE ~IsTombstone(s) /\ c \in DOMAIN s.critical
    BY <1>1, <1>4, AdvancesRefl DEF Continue, VersionOK, IsShardState, IsMap
<1>5. CASE ~IsTombstone(s) /\ c \notin DOMAIN s.critical
    <2>1. RegisterCriticalReader(s, c, o) = Continue(t, e)
        BY <1>1, <1>5
    <2>2. /\ IsMap(cs, CriticalIds, CriticalReaderState)
          /\ DOMAIN cs = DOMAIN s.critical \cup {c}
          /\ cs[c] = e
          /\ \A q \in DOMAIN s.critical \ {c} : cs[q] = s.critical[q]
        <3>1. IsMap(s.critical, CriticalIds, CriticalReaderState)
            BY DEF VersionOK, IsShardState
        <3> QED BY <1>2, <3>1 DEF IsMap, Insert
    <2> HIDE DEF cs
    <2>3. Fields(t, s.seqno, s.since, s.upper, s.writers, s.leased, cs, s.batches)
        BY VersionShape, SetCritical DEF VersionOK
    <2> HIDE DEF t
    <2>4. \A q \in DOMAIN cs : s.since <= cs[q].since
        BY <1>2, <2>2 DEF VersionOK, HoldsBack
    <2>5. \A q \in DOMAIN s.leased :
            /\ s.leased[q].seqno <= s.seqno
            /\ s.since <= s.leased[q].since
            /\ s.leased[q].seqno <= s.leased[q].seqno
        BY DEF VersionOK, HoldsBack, IsShardState, IsMap, LeasedReaderState
    <2>6. Advances(s, t)
        BY <1>5, <2>2, <2>3, <2>4, <2>5, ReadersAdvance DEF VersionOK, IsShardState
    <2> QED BY <1>2, <2>1, <2>6 DEF Continue
<1> QED BY <1>3, <1>4, <1>5

(* What the caller of compare_and_downgrade_since gets to see.             *)
DowngradeRet(r) == /\ r.ok \in BOOLEAN
                   /\ r.since \in Frontier
                   /\ ~r.ok => r.opaque \in Nat

LEMMA CompareAndDowngradeSinceAdvances ==
    ASSUME NEW s, VersionOK(s), NEW c \in CriticalIds, NEW x \in Nat, NEW n \in Nat,
           NEW f \in Frontier
    PROVE  LET res == CompareAndDowngradeSince(s, c, x, n, f) IN
           /\ res.flow \in {"Break", "Continue"} => DowngradeRet(res.ret)
           /\ res.flow = "Continue" => Advances(s, res.st)
<1> DEFINE res == CompareAndDowngradeSince(s, c, x, n, f)
           old == s.critical[c]
           fwd == old.since <= f
           new == [opaque |-> n, since |-> IF fwd THEN f ELSE old.since]
           cs == Insert(s.critical, c, new)
           t == [s EXCEPT !.critical = cs]
<1>1. res = IF IsTombstone(s) THEN Break([ok |-> TRUE, since |-> Top])
            ELSE IF c \notin DOMAIN s.critical THEN Panic
            ELSE IF old.opaque # x
                 THEN Continue(s, [ok |-> FALSE, opaque |-> old.opaque,
                                   since |-> old.since])
                 ELSE Continue(IF fwd THEN UpdateSince(t) ELSE t,
                               [ok |-> TRUE, since |-> new.since])
    BY DEF CompareAndDowngradeSince
<1> HIDE DEF res
<1> SUFFICES /\ res.flow \in {"Break", "Continue"} => DowngradeRet(res.ret)
             /\ res.flow = "Continue" => Advances(s, res.st)
    BY DEF res
<1>2. CASE IsTombstone(s)
    <2>1. res = Break([ok |-> TRUE, since |-> Top])
        BY <1>1, <1>2
    <2>2. res.flow = "Break" /\ res.ret = [ok |-> TRUE, since |-> Top]
        BY <2>1 DEF Break
    <2>3. Top \in Frontier
        BY TopAssumption DEF Frontier
    <2> QED BY <2>2, <2>3 DEF DowngradeRet
<1>3. CASE ~IsTombstone(s) /\ c \notin DOMAIN s.critical
    BY <1>1, <1>3 DEF Panic
<1>4. CASE ~IsTombstone(s) /\ c \in DOMAIN s.critical /\ old.opaque # x
    BY <1>1, <1>4, AdvancesRefl
    DEF Continue, DowngradeRet, VersionOK, IsShardState, IsMap, CriticalReaderState
<1>5. CASE ~IsTombstone(s) /\ c \in DOMAIN s.critical /\ old.opaque = x
    <2>1. res = Continue(IF fwd THEN UpdateSince(t) ELSE t,
                         [ok |-> TRUE, since |-> new.since])
        BY <1>1, <1>5
    <2>2. old \in CriticalReaderState /\ s.since <= old.since
        BY <1>5 DEF VersionOK, HoldsBack, IsShardState, IsMap
    <2>3. new \in CriticalReaderState /\ s.since <= new.since
        BY <2>2, TopAssumption DEF CriticalReaderState, VersionOK, IsShardState,
           Frontier
    <2> HIDE DEF new
    <2>4. /\ IsMap(cs, CriticalIds, CriticalReaderState)
          /\ DOMAIN cs = DOMAIN s.critical \cup {c}
          /\ cs[c] = new
          /\ \A q \in DOMAIN s.critical \ {c} : cs[q] = s.critical[q]
        <3>1. IsMap(s.critical, CriticalIds, CriticalReaderState)
            BY DEF VersionOK, IsShardState
        <3> QED BY <2>3, <3>1 DEF IsMap, Insert
    <2> HIDE DEF cs
    <2>5. Fields(t, s.seqno, s.since, s.upper, s.writers, s.leased, cs, s.batches)
        BY VersionShape, SetCritical DEF VersionOK
    <2> HIDE DEF t
    <2>6. \A q \in DOMAIN cs : s.since <= cs[q].since
        BY <2>3, <2>4 DEF VersionOK, HoldsBack
    <2>7. \A q \in DOMAIN s.leased :
            /\ s.leased[q].seqno <= s.seqno
            /\ s.since <= s.leased[q].since
            /\ s.leased[q].seqno <= s.leased[q].seqno
        BY DEF VersionOK, HoldsBack, IsShardState, IsMap, LeasedReaderState
    <2>8. Advances(s, t)
        BY <1>5, <2>4, <2>5, <2>6, <2>7, ReadersAdvance DEF VersionOK, IsShardState
    <2>9. Advances(s, IF fwd THEN UpdateSince(t) ELSE t)
        BY <1>5, <2>8, UpdateSinceAdvances
    <2>10. res.st = (IF fwd THEN UpdateSince(t) ELSE t)
           /\ res.ret = [ok |-> TRUE, since |-> new.since]
        BY <2>1 DEF Continue
    <2> QED BY <2>3, <2>9, <2>10 DEF DowngradeRet, CriticalReaderState
<1> QED BY <1>2, <1>3, <1>4, <1>5

(* Finalisation keeps no handle, so nothing is left to hold back.          *)
LEMMA TombstoneAdvances ==
    ASSUME NEW s, VersionOK(s), s.upper = Top, s.since = Top,
           NEW bs \in SUBSET HollowBatch, NEW t,
           Fields(t, s.seqno, s.since, s.upper, NoEntries, NoEntries, NoEntries, bs)
    PROVE  Advances(s, t)
<1>1. DOMAIN NoEntries = {}
    BY MapEmpty
<1>2. /\ IsMap(NoEntries, Writers, WriterState)
      /\ IsMap(NoEntries, LeasedReaders, LeasedReaderState)
      /\ IsMap(NoEntries, CriticalIds, CriticalReaderState)
    BY MapEmpty
<1>3. IsShardState(t)
    BY <1>2 DEF VersionOK, IsShardState, Fields
<1> QED BY <1>1, <1>3, TopAssumption
        DEF Advances, VersionOK, HoldsBack, Fields, IsTombstone

LEMMA BecomeTombstoneAdvances ==
    ASSUME NEW s, VersionOK(s), BecomeTombstoneAndShrink(s).flow = "Continue"
    PROVE  Advances(s, BecomeTombstoneAndShrink(s).st)
<1> DEFINE a == [s EXCEPT !.writers = NoEntries]
           b == [a EXCEPT !.leased = NoEntries]
           s1 == [b EXCEPT !.critical = NoEntries]
           full == {k \in s.batches : ~k.empty}
           first == CHOOSE k \in full : \A o \in full : k.lower <= o.lower
           rest == (s.batches \ {first})
                     \cup {[first EXCEPT !.empty = TRUE, !.inline = FALSE]}
<1>1. [s EXCEPT !.writers = NoEntries, !.leased = NoEntries,
                !.critical = NoEntries] = s1
    OBVIOUS
<1>2. Fields(s1, s.seqno, s.since, s.upper, NoEntries, NoEntries, NoEntries,
             s.batches)
    <2>1. Fields(a, s.seqno, s.since, s.upper, NoEntries, s.leased, s.critical,
                 s.batches)
        BY VersionShape, SetWriters DEF VersionOK
    <2> HIDE DEF a
    <2>2. Fields(b, a.seqno, a.since, a.upper, a.writers, NoEntries, a.critical,
                 a.batches)
        BY <2>1, ShapeOf, SetLeased
    <2> HIDE DEF b
    <2>3. Fields(s1, b.seqno, b.since, b.upper, b.writers, b.leased, NoEntries,
                 b.batches)
        BY <2>2, ShapeOf, SetCritical
    <2> QED BY <2>1, <2>2, <2>3 DEF Fields
<1> HIDE DEF s1
<1>3. s1.batches = s.batches
    BY <1>2 DEF Fields
<1>4. ~(s.upper # Top \/ s.since # Top)
    BY DEF BecomeTombstoneAndShrink, Panic
<1>5. \A v \in SUBSET HollowBatch : Advances(s, [s1 EXCEPT !.batches = v])
    <2>1. SUFFICES ASSUME NEW v \in SUBSET HollowBatch
                   PROVE  Advances(s, [s1 EXCEPT !.batches = v])
        OBVIOUS
    <2> DEFINE t == [s1 EXCEPT !.batches = v]
    <2>2. Fields(t, s1.seqno, s1.since, s1.upper, s1.writers, s1.leased,
                 s1.critical, v)
        BY <1>2, ShapeOf, SetBatches
    <2> HIDE DEF t
    <2>3. Fields(t, s.seqno, s.since, s.upper, NoEntries, NoEntries, NoEntries, v)
        BY <1>2, <2>2 DEF Fields
    <2>4. Advances(s, t)
        BY <1>4, <2>3, TombstoneAdvances
    <2> QED BY <2>4 DEF t
<1>6. Advances(s, s1)
    BY <1>2, <1>4, TombstoneAdvances DEF VersionOK, IsShardState
<1>7. full # {} => rest \in SUBSET HollowBatch
    <2>1. SUFFICES ASSUME full # {} PROVE rest \in SUBSET HollowBatch
        OBVIOUS
    <2> DEFINE L == {k.lower : k \in full}
    <2>2. full \in SUBSET HollowBatch
        BY DEF VersionOK, IsShardState
    <2>3. L \in SUBSET Nat /\ L # {}
        BY <2>1, <2>2, TopAssumption DEF HollowBatch, Frontier
    <2>4. \E k \in full : \A o \in full : k.lower <= o.lower
        <3>1. Meet(L) \in L /\ \A y \in L : Meet(L) <= y
            BY <2>3, MeetIsLeast
        <3>2. PICK k \in full : k.lower = Meet(L)
            BY <3>1
        <3>3. \A o \in full : o.lower \in L
            OBVIOUS
        <3> QED BY <3>1, <3>2, <3>3
    <2>5. first \in full
        BY <2>4
    <2>6. first \in HollowBatch
        BY <2>2, <2>5
    <2> HIDE DEF first
    <2>7. [first EXCEPT !.empty = TRUE, !.inline = FALSE] \in HollowBatch
        BY <2>6 DEF HollowBatch
    <2> QED BY <2>7 DEF VersionOK, IsShardState
<1>8. {TombstoneBatch} \in SUBSET HollowBatch
    BY TopAssumption DEF TombstoneBatch, HollowBatch, Sentinel, Frontier
<1>9. BecomeTombstoneAndShrink(s) =
        IF full # {} THEN Continue([s1 EXCEPT !.batches = rest], "Ok")
        ELSE IF Cardinality(s.batches) > 1
        THEN Continue([s1 EXCEPT !.batches = {TombstoneBatch}], "Ok")
        ELSE IF ~IsTombstone(s) THEN Continue(s1, "Ok")
        ELSE Break("Ok")
    BY <1>1, <1>3, <1>4 DEF BecomeTombstoneAndShrink
<1> HIDE DEF full, rest
<1>10. CASE full # {}
    BY <1>5, <1>7, <1>9, <1>10 DEF Continue
<1>11. CASE full = {} /\ Cardinality(s.batches) > 1
    BY <1>5, <1>8, <1>9, <1>11 DEF Continue
<1>12. CASE full = {} /\ ~(Cardinality(s.batches) > 1)
    BY <1>6, <1>9, <1>12 DEF Continue, Break
<1> QED BY <1>10, <1>11, <1>12

(* Dropping the handles whose leases have run out keeps all of this.       *)
LEMMA ExpireAtAdvances ==
    ASSUME NEW s, NEW t, Advances(s, t), NEW R, NEW W
    PROVE  Advances(s, ExpireAt(t, R, W))
<1> DEFINE ls == Without(t.leased, R)
           ws == Without(t.writers, W)
           t1 == [t EXCEPT !.leased = ls]
           u == [t1 EXCEPT !.writers = ws]
<1>1. VersionOK(t)
    BY DEF Advances
<1>2. ExpireAt(t, R, W) = u
    BY DEF ExpireAt
<1>3. /\ IsMap(ls, LeasedReaders, LeasedReaderState)
      /\ DOMAIN ls = DOMAIN t.leased \ R
      /\ \A q \in DOMAIN t.leased \ R : ls[q] = t.leased[q]
    <2>1. IsMap(t.leased, LeasedReaders, LeasedReaderState)
        BY <1>1 DEF VersionOK, IsShardState
    <2> QED BY <2>1 DEF IsMap, Without
<1>4. IsMap(ws, Writers, WriterState) /\ DOMAIN ws = DOMAIN t.writers \ W
    <2>1. IsMap(t.writers, Writers, WriterState)
        BY <1>1 DEF VersionOK, IsShardState
    <2> QED BY <2>1 DEF IsMap, Without
<1> HIDE DEF ls, ws
<1>5. Fields(t1, t.seqno, t.since, t.upper, t.writers, ls, t.critical, t.batches)
    BY <1>1, VersionShape, SetLeased DEF VersionOK
<1> HIDE DEF t1
<1>6. Fields(u, t1.seqno, t1.since, t1.upper, ws, t1.leased, t1.critical,
             t1.batches)
    BY <1>5, ShapeOf, SetWriters
<1> HIDE DEF u
<1>7. Fields(u, t.seqno, t.since, t.upper, ws, ls, t.critical, t.batches)
    BY <1>5, <1>6 DEF Fields
<1>8. IsShardState(u)
    BY <1>1, <1>3, <1>4, <1>7 DEF VersionOK, IsShardState, Fields
<1>9. VersionOK(u)
    BY <1>1, <1>3, <1>7, <1>8 DEF VersionOK, HoldsBack, Fields
<1>10. IsTombstone(t) => IsTombstone(u)
    BY <1>3, <1>4, <1>7 DEF IsTombstone, Fields
<1> QED BY <1>2, <1>3, <1>7, <1>9, <1>10 DEF Advances, Fields

LEMMA NextVersionOK ==
    ASSUME NEW s, VersionOK(s)
    PROVE  /\ VersionOK(NextVersion(s))
           /\ Fields(NextVersion(s), s.seqno + 1, s.since, s.upper, s.writers,
                     s.leased, s.critical, s.batches)
           /\ IsTombstone(NextVersion(s)) <=> IsTombstone(s)
<1> DEFINE t == NextVersion(s)
<1>1. Fields(t, s.seqno + 1, s.since, s.upper, s.writers, s.leased, s.critical,
             s.batches)
    BY VersionShape, SetSeqno DEF VersionOK, NextVersion
<1> HIDE DEF t
<1>2. VersionOK(t)
    BY <1>1 DEF VersionOK, HoldsBack, IsShardState, Fields, IsMap, LeasedReaderState
<1>3. IsTombstone(t) <=> IsTombstone(s)
    BY <1>1 DEF IsTombstone, Fields
<1> QED BY <1>1, <1>2, <1>3 DEF t

(* The version proposed on top of s is a successor of s.                   *)
LEMMA AdvancesSucceeds ==
    ASSUME NEW s, VersionOK(s), NEW t, Advances(NextVersion(s), t)
    PROVE  VersionOK(t) /\ t.seqno = s.seqno + 1 /\ Succeeds(s, t)
<1> DEFINE n == NextVersion(s)
<1>1. /\ VersionOK(n)
      /\ Fields(n, s.seqno + 1, s.since, s.upper, s.writers, s.leased, s.critical,
                s.batches)
      /\ IsTombstone(n) <=> IsTombstone(s)
    BY NextVersionOK
<1> HIDE DEF n
<1>2. Advances(n, t)
    BY DEF n
<1>3. VersionOK(t) /\ t.seqno = s.seqno + 1 /\ s.since <= t.since
      /\ s.upper <= t.upper
    BY <1>1, <1>2 DEF Advances, Fields
<1>4. s.seqno \in Nat /\ s.seqno <= t.seqno
    BY <1>3 DEF VersionOK, IsShardState
<1>5. \A r \in DOMAIN t.leased :
        \/ t.leased[r].seqno >= s.seqno
        \/ r \in DOMAIN s.leased /\ s.leased[r].seqno <= t.leased[r].seqno
    BY <1>1, <1>2, <1>4 DEF Advances, Fields
<1>6. SeqnoSince(s) <= SeqnoSince(t)
    BY <1>3, <1>4, <1>5, SeqnoSinceForward
<1> QED BY <1>1, <1>2, <1>3, <1>4, <1>6 DEF Advances, Succeeds, Forward

LEMMA ForwardRefl ==
    ASSUME NEW s, VersionOK(s)
    PROVE  Forward(s, s)
BY SeqnoSinceBound, TopAssumption DEF Forward, VersionOK, IsShardState, Frontier

LEMMA ForwardTrans ==
    ASSUME NEW s, NEW t, NEW u, VersionOK(s), VersionOK(t), VersionOK(u),
           Forward(s, t), Forward(t, u)
    PROVE  Forward(s, u)
<1>1. SeqnoSince(s) \in Nat /\ SeqnoSince(t) \in Nat /\ SeqnoSince(u) \in Nat
    BY SeqnoSinceBound
<1> QED BY <1>1, TopAssumption DEF Forward, VersionOK, IsShardState, Frontier

LEMMA InitialStateOK == VersionOK(InitialState)
<1>1. /\ IsMap(NoEntries, Writers, WriterState)
      /\ IsMap(NoEntries, LeasedReaders, LeasedReaderState)
      /\ IsMap(NoEntries, CriticalIds, CriticalReaderState)
      /\ DOMAIN NoEntries = {}
    BY MapEmpty
<1> QED BY <1>1, TopAssumption
        DEF VersionOK, HoldsBack, IsShardState, InitialState, Frontier

-----------------------------------------------------------------------------
(* PersistShard                                                            *)

(* The parts of Inv that concern one call, and the handles.                *)
CallOK(h, k) ==
    /\ IsCall(k)
    /\ HandleFits(h, k.cmd)
    /\ k.pc # "idle" => k.cmd.op # "none"
    /\ k.pc \in {"sent", "committed"} => RetFits(k.cmd, k.ret)
    /\ k.pc = "sent" => ProposalOK(k.st)
OrphanOK(o) ==
    /\ o = [st |-> o.st, cmd |-> o.cmd]
    /\ IsShardState(o.st)
    /\ o.cmd \in Commands
    /\ ProposalOK(o.st)
HandleVarsOK ==
    /\ hstat \in [Handles -> {"none", "live", "opening", "open", "halted",
                              "gone"}]
    /\ hsince \in [LeasedReaders \cup SinceHandles -> Frontier]
    /\ hseqno \in [LeasedReaders -> Nat]
    /\ hopaque \in [SinceHandles -> Nat]
    /\ outcome \in [1 .. MaxCalls -> Outcomes]
BookkeepingOK ==
    /\ calls \in 0 .. MaxCalls
    /\ errs \in 0 .. MaxErrs
    /\ log \in Seq(HollowBatch)

Parts ==
    /\ IsShardState(cur)
    /\ DOMAIN cache = Procs /\ \A p \in Procs : IsShardState(cache[p])
    /\ \A o \in orphans : OrphanOK(o)
    /\ DOMAIN call = Handles /\ \A h \in Handles : CallOK(h, call[h])
    /\ HandleVarsOK
    /\ BookkeepingOK
    /\ OneHistory
    /\ \A s \in Known : VersionOK(s)

LEMMA InvParts == Inv <=> Parts
BY DEF Inv, Parts, TypeOK, CallOK, OrphanOK, HandleVarsOK, BookkeepingOK

LEMMA InvPartsNext == Inv' <=> Parts'
BY DEF Inv, Parts, TypeOK, CallOK, OrphanOK, HandleVarsOK, BookkeepingOK

(* A step that leaves the committed version alone and changes one call.    *)
LEMMA CallStep ==
    ASSUME Inv, NEW h \in Handles, NEW k, CallOK(h, k), k.pc # "committed",
           call' = [call EXCEPT ![h] = k], cur' = cur,
           DOMAIN cache' = Procs, \A p \in Procs : cache'[p] \in Known,
           \A o \in orphans' : OrphanOK(o),
           HandleVarsOK', BookkeepingOK'
    PROVE  Inv'
<1>1. /\ DOMAIN call = Handles /\ \A g \in Handles : CallOK(g, call[g])
      /\ OneHistory /\ \A s \in Known : VersionOK(s)
    BY InvParts DEF Parts
<1>2. /\ DOMAIN call' = Handles /\ call'[h] = k
      /\ \A g \in Handles : g # h => call'[g] = call[g]
    BY <1>1
<1>3. \A s \in Known' : s \in Known
    BY <1>2 DEF Known
<1>4. OneHistory' /\ \A s \in Known' : VersionOK(s)
    BY <1>1, <1>3 DEF OneHistory
<1>5. \A t : ProposalOK(t) => /\ VersionOK(t)
                              /\ t.seqno <= cur'.seqno + 1
                              /\ t.seqno = cur'.seqno + 1 => Succeeds(cur', t)
    BY DEF ProposalOK
<1>6. \A g \in Handles : CallOK(g, call[g])'
    BY <1>1, <1>2, <1>5 DEF CallOK, ProposalOK
<1>7. \A o \in orphans' : OrphanOK(o)'
    BY <1>5 DEF OrphanOK, ProposalOK
<1>8. IsShardState(cur') /\ \A p \in Procs : IsShardState(cache'[p])
    BY <1>1 DEF Known, VersionOK
<1> QED BY <1>2, <1>4, <1>6, <1>7, <1>8, InvPartsNext DEF Parts

(* A step that commits a proposal.                                         *)
LEMMA CommitStep ==
    ASSUME Inv, NEW s, ProposalOK(s), Accepted(s), cur' = s,
           cache' = cache, orphans' \subseteq orphans,
           DOMAIN call' = Handles,
           \A h \in Handles :
             /\ IsCall(call'[h])
             /\ call'[h].cmd = call[h].cmd /\ call'[h].st = call[h].st
             /\ call'[h].ret = call[h].ret
             /\ \/ call'[h].pc = call[h].pc
                \/ /\ call[h].pc = "sent" /\ call[h].st = s
                   /\ call'[h].pc = "committed",
           HandleVarsOK', BookkeepingOK'
    PROVE  Inv'
<1>1. /\ DOMAIN cache = Procs /\ \A p \in Procs : IsShardState(cache[p])
      /\ \A o \in orphans : OrphanOK(o)
      /\ \A g \in Handles : CallOK(g, call[g])
      /\ OneHistory /\ (\A u \in Known : VersionOK(u))
    BY InvParts DEF Parts
<1>2. VersionOK(s) /\ s.seqno = cur.seqno + 1 /\ Forward(cur, s)
    BY DEF ProposalOK, Accepted, Succeeds
<1>3. cur \in Known /\ VersionOK(cur) /\ cur.seqno \in Nat
    BY <1>1 DEF Known, VersionOK, IsShardState
<1>4. \A u \in Known' : u = s \/ u \in Known
    <2>1. SUFFICES ASSUME NEW u \in Known' PROVE u = s \/ u \in Known
        OBVIOUS
    <2>2. CASE u = cur'
        BY <2>2
    <2>3. CASE u \in {cache'[p] : p \in Procs}
        BY <2>3 DEF Known
    <2>4. CASE u \in {call'[h].st : h \in {g \in Handles :
                                              call'[g].pc = "committed"}}
        BY <2>4 DEF Known
    <2> QED BY <2>1, <2>2, <2>3, <2>4 DEF Known
<1>5. \A u \in Known : /\ u.seqno \in Nat /\ u.seqno <= cur.seqno
                       /\ Forward(u, s)
    <2>1. SUFFICES ASSUME NEW u \in Known
                   PROVE  u.seqno \in Nat /\ u.seqno <= cur.seqno /\ Forward(u, s)
        OBVIOUS
    <2>2. u.seqno <= cur.seqno /\ Forward(u, cur)
        BY <1>1, <1>3 DEF OneHistory
    <2> QED BY <1>1, <1>2, <1>3, <2>2, ForwardTrans DEF VersionOK, IsShardState
<1>6. \A u \in Known' : VersionOK(u)
    BY <1>1, <1>2, <1>4
<1>7. OneHistory'
    <2>1. SUFFICES ASSUME NEW u \in Known', NEW v \in Known'
                   PROVE  /\ u.seqno <= s.seqno
                          /\ u.seqno <= v.seqno => Forward(u, v)
                          /\ u.seqno = v.seqno => u = v
        BY DEF OneHistory
    <2>2. CASE u = s /\ v = s
        BY <1>2, <2>2, ForwardRefl DEF VersionOK, IsShardState
    <2>3. CASE u = s /\ v \in Known
        BY <1>2, <1>3, <1>5, <2>3 DEF VersionOK, IsShardState
    <2>4. CASE u \in Known /\ v = s
        BY <1>2, <1>3, <1>5, <2>4
    <2>5. CASE u \in Known /\ v \in Known
        BY <1>1, <1>2, <1>3, <1>5, <2>5 DEF OneHistory
    <2> QED BY <1>4, <2>2, <2>3, <2>4, <2>5
<1>8. \A t : ProposalOK(t) => /\ VersionOK(t)
                              /\ t.seqno <= cur'.seqno + 1
                              /\ t.seqno = cur'.seqno + 1 => Succeeds(cur', t)
    BY <1>2, <1>3 DEF ProposalOK, VersionOK, IsShardState
<1>9. \A g \in Handles : CallOK(g, call[g])'
    BY <1>1, <1>8 DEF CallOK, ProposalOK
<1>10. \A o \in orphans' : OrphanOK(o)'
    BY <1>1, <1>8 DEF OrphanOK, ProposalOK
<1>11. IsShardState(cur') /\ \A p \in Procs : IsShardState(cache'[p])
    BY <1>1, <1>2 DEF VersionOK
<1> QED BY <1>1, <1>6, <1>7, <1>9, <1>10, <1>11, InvPartsNext DEF Parts

(* The fields of a command, by its kind.                                   *)
LEMMA CommandFields ==
    ASSUME NEW c \in Commands
    PROVE  /\ c.op = "compare_and_append" => c.b \in HollowBatch
           /\ c.op = "register_leased_reader" => c.critical \in BOOLEAN
           /\ c.op = "downgrade_since" => c.since \in Frontier /\ c.out \in Nat
           /\ c.op = "compare_and_downgrade_since" =>
                c.expected \in Nat /\ c.new \in Nat /\ c.since \in Frontier
           /\ c.op \in {"none", "compare_and_append", "register_leased_reader",
                        "downgrade_since", "compare_and_downgrade_since",
                        "expire_writer", "expire_leased_reader",
                        "register_critical_reader", "become_tombstone"}
BY DEF Commands

(* Every command, evaluated on any acceptable version.                     *)
LEMMA WorkFnAdvances ==
    ASSUME NEW h \in Handles, NEW c \in Commands, c.op # "none",
           HandleFits(h, c), NEW s, VersionOK(s)
    PROVE  /\ WorkFn(h, c, s).flow = "Continue" =>
                Advances(s, WorkFn(h, c, s).st)
           /\ WorkFn(h, c, s).flow \in {"Break", "Continue"} =>
                RetFits(c, WorkFn(h, c, s).ret)
<1>1. CASE c.op = "compare_and_append"
    <2>1. WorkFn(h, c, s) = CompareAndAppend(s, h, c.b)
        BY <1>1 DEF WorkFn
    <2>2. h \in Writers /\ c.b \in HollowBatch
        BY <1>1, CommandFields DEF HandleFits
    <2> QED BY <1>1, <2>1, <2>2, CompareAndAppendAdvances DEF RetFits
<1>2. CASE c.op = "expire_writer"
    <2>1. WorkFn(h, c, s) = ExpireWriter(s, h)
        BY <1>2 DEF WorkFn
    <2> QED BY <1>2, <2>1, ExpireWriterAdvances DEF RetFits
<1>3. CASE c.op = "register_leased_reader"
    <2>1. WorkFn(h, c, s) = RegisterLeasedReader(s, h, c.critical)
        BY <1>3 DEF WorkFn
    <2>2. h \in LeasedReaders /\ c.critical \in BOOLEAN
        BY <1>3, CommandFields DEF HandleFits
    <2> QED BY <1>3, <2>1, <2>2, RegisterLeasedReaderAdvances DEF RetFits
<1>4. CASE c.op = "downgrade_since"
    <2>1. WorkFn(h, c, s) = DowngradeSince(s, h, c.out, c.since)
        BY <1>4 DEF WorkFn
    <2>2. h \in LeasedReaders /\ c.out \in Nat /\ c.since \in Frontier
        BY <1>4, CommandFields DEF HandleFits
    <2> QED BY <1>4, <2>1, <2>2, DowngradeSinceAdvances DEF RetFits
<1>5. CASE c.op = "expire_leased_reader"
    <2>1. WorkFn(h, c, s) = ExpireLeasedReader(s, h)
        BY <1>5 DEF WorkFn
    <2> QED BY <1>5, <2>1, ExpireLeasedReaderAdvances DEF RetFits
<1>6. CASE c.op = "register_critical_reader"
    <2>1. WorkFn(h, c, s) =
            RegisterCriticalReader(s, CriticalIdOf[h], DefaultOpaque)
        BY <1>6 DEF WorkFn
    <2>2. CriticalIdOf[h] \in CriticalIds /\ DefaultOpaque \in Nat
        BY <1>6, HandlesAssumption DEF HandleFits, DefaultOpaque
    <2> QED BY <1>6, <2>1, <2>2, RegisterCriticalReaderAdvances DEF RetFits
<1>7. CASE c.op = "compare_and_downgrade_since"
    <2>1. WorkFn(h, c, s) =
            CompareAndDowngradeSince(s, CriticalIdOf[h], c.expected, c.new, c.since)
        BY <1>7 DEF WorkFn
    <2>2. CriticalIdOf[h] \in CriticalIds
        BY <1>7, HandlesAssumption DEF HandleFits
    <2>3. c.expected \in Nat /\ c.new \in Nat /\ c.since \in Frontier
        BY <1>7, CommandFields
    <2> QED BY <1>7, <2>1, <2>2, <2>3, CompareAndDowngradeSinceAdvances
            DEF RetFits, DowngradeRet
<1>8. CASE c.op = "become_tombstone"
    <2>1. WorkFn(h, c, s) = BecomeTombstoneAndShrink(s)
        BY <1>8 DEF WorkFn
    <2> QED BY <1>8, <2>1, BecomeTombstoneAdvances DEF RetFits
<1> QED BY <1>1, <1>2, <1>3, <1>4, <1>5, <1>6, <1>7, <1>8, CommandFields

(* The next state of a call, written as a whole.                           *)
LEMMA GoToCall ==
    ASSUME NEW k, IsCall(k), NEW l
    PROVE  [k EXCEPT !.pc = l] = Call(l, k.cmd, k.st, k.ret, k.indet)
BY DEF IsCall, Call

LEMMA CallFields ==
    ASSUME NEW a, NEW b, NEW c, NEW d, NEW e
    PROVE  /\ Call(a, b, c, d, e).pc = a /\ Call(a, b, c, d, e).cmd = b
           /\ Call(a, b, c, d, e).st = c /\ Call(a, b, c, d, e).ret = d
           /\ Call(a, b, c, d, e).indet = e
BY DEF Call

Resting == PCs \ {"sent", "committed"}

LEMMA RestingCallOK ==
    ASSUME NEW h \in Handles, NEW l \in Resting, NEW c \in Commands,
           HandleFits(h, c), l # "idle" => c.op # "none", NEW s, IsShardState(s),
           NEW r, NEW i \in BOOLEAN
    PROVE  /\ CallOK(h, Call(l, c, s, r, i))
           /\ Call(l, c, s, r, i).pc # "committed"
<1>1. IsCall(Call(l, c, s, r, i))
    BY CallFields DEF IsCall, Resting
<1> QED BY <1>1, CallFields DEF CallOK, Resting

LEMMA IdleOK ==
    ASSUME NEW h \in Handles
    PROVE  CallOK(h, Idle) /\ Idle.pc # "committed"
<1>1. NoCmd \in Commands /\ HandleFits(h, NoCmd) /\ "idle" \in Resting
    BY DEF NoCmd, Commands, HandleFits, Resting, PCs
<1>2. IsShardState(InitialState)
    BY InitialStateOK DEF VersionOK
<1> QED BY <1>1, <1>2, RestingCallOK DEF Idle

(* What is needed of the call of a handle, from Inv.                       *)
LEMMA CallOf ==
    ASSUME Inv, NEW h \in Handles
    PROVE  /\ DOMAIN call = Handles
           /\ IsCall(call[h]) /\ HandleFits(h, Cmd(h)) /\ Cmd(h) \in Commands
           /\ call[h].pc # "idle" => Cmd(h).op # "none"
           /\ IsShardState(call[h].st)
           /\ call[h].indet \in BOOLEAN
           /\ Cached(h) \in Known /\ VersionOK(Cached(h))
           /\ ProcOf[h] \in Procs
<1>1. Parts
    BY InvParts
<1>2. ProcOf[h] \in Procs
    BY HandlesAssumption
<1>3. Cached(h) \in Known
    BY <1>2 DEF Cached, Known
<1> QED BY <1>1, <1>2, <1>3 DEF Parts, CallOK, IsCall, Cmd

(* The ways a call moves on, each with the call that results.              *)
LEMMA GoToStep ==
    ASSUME Inv, NEW h \in Handles, NEW l \in Resting \ {"idle"},
           call[h].pc # "idle", GoTo(h, l)
    PROVE  \E k : /\ CallOK(h, k) /\ k.pc # "committed"
                  /\ call' = [call EXCEPT ![h] = k]
<1> DEFINE k == Call(l, Cmd(h), call[h].st, call[h].ret, call[h].indet)
<1>1. call' = [call EXCEPT ![h] = k]
    BY CallOf, GoToCall DEF GoTo, Cmd
<1>2. CallOK(h, k) /\ k.pc # "committed"
    BY CallOf, RestingCallOK
<1> QED BY <1>1, <1>2

LEMMA RetryStep ==
    ASSUME Inv, NEW h \in Handles, NEW i \in BOOLEAN, call[h].pc # "idle",
           Retry(h, i)
    PROVE  \E k : /\ CallOK(h, k) /\ k.pc # "committed"
                  /\ call' = [call EXCEPT ![h] = k]
<1> DEFINE k == Call("ready", Cmd(h), InitialState, NoRet, i)
<1>1. CallOK(h, k) /\ k.pc # "committed"
    <2>1. IsShardState(InitialState) /\ "ready" \in Resting
        BY InitialStateOK DEF VersionOK, Resting, PCs
    <2> QED BY <2>1, CallOf, RestingCallOK
<1> QED BY <1>1 DEF Retry

LEMMA DoneStep ==
    ASSUME Inv, NEW h \in Handles, Done(h)
    PROVE  \E k : /\ CallOK(h, k) /\ k.pc # "committed"
                  /\ call' = [call EXCEPT ![h] = k]
BY IdleOK DEF Done

LEMMA StartStep ==
    ASSUME Inv, NEW h \in Handles, NEW c \in Commands, c.op # "none",
           HandleFits(h, c), Start(h, c)
    PROVE  \E k : /\ CallOK(h, k) /\ k.pc # "committed"
                  /\ call' = [call EXCEPT ![h] = k]
<1> DEFINE k == Call("ready", c, InitialState, NoRet, FALSE)
<1>1. CallOK(h, k) /\ k.pc # "committed"
    <2>1. IsShardState(InitialState) /\ "ready" \in Resting
        BY InitialStateOK DEF VersionOK, Resting, PCs
    <2> QED BY <2>1, RestingCallOK
<1> QED BY <1>1 DEF Start

LEMMA OutcomeStep ==
    ASSUME Inv, UNCHANGED handleVars,
           \/ UNCHANGED outcome
           \/ \E h, o : o \in Outcomes /\ AppendOutcome(h, o)
    PROVE  HandleVarsOK'
BY InvParts DEF Parts, HandleVarsOK, handleVars, AppendOutcome

(* Every way to return leaves the handle and its call in order.            *)
LEMMA ReturnsStep ==
    ASSUME Inv, NEW h \in Handles, call[h].pc # "idle", NEW r,
           RetFits(Cmd(h), r), NEW c \in BOOLEAN, Returns(h, r, c)
    PROVE  /\ \E k : /\ CallOK(h, k) /\ k.pc # "committed"
                     /\ call' = [call EXCEPT ![h] = k]
           /\ HandleVarsOK'
<1>1. HandleVarsOK /\ HandleFits(h, Cmd(h)) /\ Cmd(h) \in Commands
    BY InvParts, CallOf DEF Parts
<1>2. CASE Cmd(h).op = "compare_and_append" /\ ReturnAppended(h)
    BY <1>2, DoneStep, OutcomeStep DEF ReturnAppended, Outcomes
<1>3. CASE Cmd(h).op = "compare_and_append" /\ ReturnAppendBreak(h, r)
    <2>1. HandleVarsOK'
        BY <1>3, OutcomeStep DEF ReturnAppendBreak, Outcomes
    <2>2. {"assert_failed", "panicked", "upper_mismatch"} \subseteq Resting \ {"idle"}
        BY DEF Resting, PCs
    <2>3. CASE Done(h)
        BY <2>1, <2>3, DoneStep
    <2>4. CASE GoTo(h, "assert_failed")
        BY <2>1, <2>2, <2>4, GoToStep
    <2>5. CASE GoTo(h, "panicked")
        BY <2>1, <2>2, <2>5, GoToStep
    <2>6. CASE call' = [call EXCEPT ![h] = Call("upper_mismatch", Cmd(h), Cached(h),
                                                NoRet, call[h].indet)]
        <3>1. IsShardState(Cached(h)) /\ Cmd(h).op # "none" /\ call[h].indet \in BOOLEAN
            BY CallOf DEF VersionOK
        <3> QED BY <1>1, <2>1, <2>2, <2>6, <3>1, RestingCallOK
    <2> QED BY <1>3, <2>3, <2>4, <2>5, <2>6 DEF ReturnAppendBreak
<1>4. CASE Cmd(h).op = "register_leased_reader" /\ ReturnRegistered(h, r)
    <2>1. h \in LeasedReaders /\ r.since \in Frontier /\ r.seqno \in Nat
        BY <1>1, <1>4 DEF HandleFits, RetFits, LeasedReaderState
    <2>2. HandleVarsOK'
        BY <1>1, <1>4, <2>1 DEF HandleVarsOK, ReturnRegistered
    <2> QED BY <1>4, <2>2, DoneStep DEF ReturnRegistered
<1>5. CASE Cmd(h).op = "downgrade_since" /\ ReturnDowngraded(h, r)
    <2>1. HandleVarsOK'
        BY <1>1, <1>5 DEF HandleVarsOK, ReturnDowngraded
    <2> QED BY <1>5, <2>1, DoneStep DEF ReturnDowngraded
<1>6. CASE ReturnExpired(h)
    BY <1>6, DoneStep, OutcomeStep DEF ReturnExpired
<1>7. CASE Cmd(h).op = "register_critical_reader" /\ ReturnOpened(h, r)
    <2>1. h \in SinceHandles /\ r.since \in Frontier /\ r.opaque \in Nat
        BY <1>1, <1>7 DEF HandleFits, RetFits, CriticalReaderState
    <2>2. r.since .. Top \subseteq Frontier
        BY <2>1, TopAssumption DEF Frontier
    <2>3. HandleVarsOK'
        BY <1>1, <1>7, <2>1, <2>2 DEF HandleVarsOK, ReturnOpened
    <2> QED BY <1>7, <2>3, DoneStep DEF ReturnOpened
<1>8. CASE Cmd(h).op = "compare_and_downgrade_since"
           /\ ReturnCompareAndDowngrade(h, r)
    <2>1. /\ h \in SinceHandles /\ r.since \in Frontier /\ r.ok \in BOOLEAN
          /\ ~r.ok => r.opaque \in Nat
        BY <1>1, <1>8 DEF HandleFits, RetFits
    <2>2. Cmd(h).new \in Nat
        BY <1>1, <1>8, CommandFields
    <2>3. HandleVarsOK'
        BY <1>1, <1>8, <2>1, <2>2 DEF HandleVarsOK, ReturnCompareAndDowngrade
    <2> QED BY <1>8, <2>3, DoneStep DEF ReturnCompareAndDowngrade
<1>9. CASE ReturnTombstoneStep(h, c)
    <2>1. HandleVarsOK'
        BY <1>1, <1>9 DEF HandleVarsOK, ReturnTombstoneStep
    <2>2. call[h].indet \in BOOLEAN
        BY CallOf
    <2> QED BY <1>9, <2>1, <2>2, DoneStep, RetryStep DEF ReturnTombstoneStep
<1> QED BY <1>2, <1>3, <1>4, <1>5, <1>6, <1>7, <1>8, <1>9 DEF Returns

-----------------------------------------------------------------------------
(* The actions.                                                            *)

(* A new call, from one of the Begin actions.                              *)
LEMMA StartKeepsInv ==
    ASSUME Inv, NEW h \in Handles, NEW c \in Commands, c.op # "none",
           HandleFits(h, c), Start(h, c), calls' \in 0 .. MaxCalls, HandleVarsOK'
    PROVE  Inv'
<1>1. PICK k : /\ CallOK(h, k) /\ k.pc # "committed"
               /\ call' = [call EXCEPT ![h] = k]
    BY StartStep
<1>2. /\ UNCHANGED <<cur, cache, orphans, errs, log>> /\ Parts
    BY InvParts DEF Start
<1>3. /\ DOMAIN cache' = Procs /\ \A p \in Procs : cache'[p] \in Known
      /\ \A o \in orphans' : OrphanOK(o)
      /\ BookkeepingOK'
    BY <1>2 DEF Parts, BookkeepingOK, Known
<1> QED BY <1>1, <1>2, <1>3, CallStep

LEMMA StartNewKeepsInv ==
    ASSUME Inv, NEW h \in Handles, NEW c \in Commands, c.op # "none",
           HandleFits(h, c), StartNew(h, c), HandleVarsOK'
    PROVE  Inv'
<1>1. calls \in 0 .. MaxCalls
    BY InvParts DEF Parts, BookkeepingOK
<1>2. Start(h, c) /\ calls' \in 0 .. MaxCalls
    BY <1>1, BoundsAssumption DEF StartNew
<1> QED BY <1>2, StartKeepsInv

LEMMA BeginKeepsInv ==
    ASSUME Inv, Begin
    PROVE  Inv'
<1>1. HandleVarsOK /\ calls \in 0 .. MaxCalls
    BY InvParts DEF Parts, BookkeepingOK
<1>2. /\ Writers \subseteq Handles /\ LeasedReaders \subseteq Handles
      /\ SinceHandles \subseteq Handles /\ Finalizers \subseteq Handles
    BY DEF Handles
<1>3. ASSUME NEW w \in Writers, BeginAppend(w) PROVE Inv'
    <2>1. PICK i \in AppendInputs, x \in BOOLEAN :
            StartNew(w, [op |-> "compare_and_append",
                         b |-> BatchOf(calls + 1, i, x)])
        BY <1>3 DEF BeginAppend
    <2> DEFINE b == BatchOf(calls + 1, i, x)
               c == [op |-> "compare_and_append", b |-> b]
    <2>2. i.lower \in Frontier /\ i.upper \in Frontier /\ i.empty \in BOOLEAN
        BY HandlesAssumption
    <2>3. b \in HollowBatch
        BY <1>1, <2>2 DEF BatchOf, HollowBatch
    <2> HIDE DEF b
    <2>4. c \in Commands /\ c.op # "none" /\ HandleFits(w, c)
        BY <2>3 DEF Commands, HandleFits
    <2>5. HandleVarsOK'
        BY <1>1, <1>3 DEF HandleVarsOK, handleVars, BeginAppend, Outcomes
    <2>6. StartNew(w, c)
        BY <2>1 DEF b
    <2> HIDE DEF c
    <2> QED BY <1>2, <2>4, <2>5, <2>6, StartNewKeepsInv
<1>4. ASSUME NEW w \in Writers, BeginExpireWriter(w) PROVE Inv'
    <2> DEFINE c == [op |-> "expire_writer"]
    <2>1. c \in Commands /\ c.op # "none" /\ HandleFits(w, c)
        BY DEF Commands, HandleFits
    <2>2. HandleVarsOK' /\ StartNew(w, c)
        BY <1>1, <1>4 DEF HandleVarsOK, BeginExpireWriter
    <2> HIDE DEF c
    <2> QED BY <1>2, <2>1, <2>2, StartNewKeepsInv
<1>5. ASSUME NEW r \in LeasedReaders, BeginRegister(r) PROVE Inv'
    <2>1. PICK x \in BOOLEAN :
            StartNew(r, [op |-> "register_leased_reader", critical |-> x])
        BY <1>5 DEF BeginRegister
    <2> DEFINE c == [op |-> "register_leased_reader", critical |-> x]
    <2>2. c \in Commands /\ c.op # "none" /\ HandleFits(r, c)
        BY DEF Commands, HandleFits
    <2>3. HandleVarsOK' /\ StartNew(r, c)
        BY <1>1, <1>5, <2>1 DEF HandleVarsOK, handleVars, BeginRegister
    <2> HIDE DEF c
    <2> QED BY <1>2, <2>2, <2>3, StartNewKeepsInv
<1>6. ASSUME NEW r \in LeasedReaders, BeginDowngrade(r) PROVE Inv'
    <2>1. PICK s \in hsince[r] .. Top,
               out \in {hseqno[r]} \cup (hseqno[r] .. Cached(r).seqno) :
            /\ StartNew(r, [op |-> "downgrade_since", since |-> s, out |-> out])
            /\ hsince' = [hsince EXCEPT ![r] = s]
            /\ hseqno' = [hseqno EXCEPT ![r] = out]
        BY <1>6 DEF BeginDowngrade
    <2> DEFINE c == [op |-> "downgrade_since", since |-> s, out |-> out]
    <2>2. s \in Frontier
        BY <1>1, TopAssumption DEF HandleVarsOK, Frontier
    <2>3. out \in Nat
        <3>1. Cached(r).seqno \in Nat
            BY <1>2, CallOf DEF VersionOK, IsShardState
        <3> QED BY <1>1, <3>1 DEF HandleVarsOK
    <2>4. c \in Commands /\ c.op # "none" /\ HandleFits(r, c)
        BY <2>2, <2>3 DEF Commands, HandleFits
    <2>5. HandleVarsOK' /\ StartNew(r, c)
        BY <1>1, <1>6, <2>1, <2>2, <2>3 DEF HandleVarsOK, BeginDowngrade
    <2> HIDE DEF c
    <2> QED BY <1>2, <2>4, <2>5, StartNewKeepsInv
<1>7. ASSUME NEW r \in LeasedReaders, BeginExpireReader(r) PROVE Inv'
    <2> DEFINE c == [op |-> "expire_leased_reader"]
    <2>1. c \in Commands /\ c.op # "none" /\ HandleFits(r, c)
        BY DEF Commands, HandleFits
    <2>2. HandleVarsOK' /\ StartNew(r, c)
        BY <1>1, <1>7 DEF HandleVarsOK, BeginExpireReader
    <2> HIDE DEF c
    <2> QED BY <1>2, <2>1, <2>2, StartNewKeepsInv
<1>8. ASSUME NEW h \in SinceHandles, BeginOpenCritical(h) PROVE Inv'
    <2> DEFINE c == [op |-> "register_critical_reader"]
    <2>1. c \in Commands /\ c.op # "none" /\ HandleFits(h, c)
        BY DEF Commands, HandleFits
    <2>2. HandleVarsOK' /\ StartNew(h, c)
        BY <1>1, <1>8 DEF HandleVarsOK, handleVars, BeginOpenCritical
    <2> HIDE DEF c
    <2> QED BY <1>2, <2>1, <2>2, StartNewKeepsInv
<1>9. ASSUME NEW h \in SinceHandles, BeginDowngradeCritical(h) PROVE Inv'
    <2>1. PICK s \in hsince[h] .. Top :
            StartNew(h, Downgrade(h, hopaque[h], hopaque[h], s))
        BY <1>9 DEF BeginDowngradeCritical
    <2> DEFINE c == Downgrade(h, hopaque[h], hopaque[h], s)
    <2>2. s \in Frontier /\ hopaque[h] \in Nat
        BY <1>1, TopAssumption DEF HandleVarsOK, Frontier
    <2>3. c \in Commands /\ c.op # "none" /\ HandleFits(h, c)
        BY <2>2 DEF Commands, HandleFits, Downgrade
    <2>4. HandleVarsOK' /\ StartNew(h, c)
        BY <1>1, <1>9, <2>1 DEF HandleVarsOK, handleVars, BeginDowngradeCritical
    <2> HIDE DEF c
    <2> QED BY <1>2, <2>3, <2>4, StartNewKeepsInv
<1>10. ASSUME NEW h \in Finalizers, BeginFinalize(h) PROVE Inv'
    <2> DEFINE c == [op |-> "become_tombstone"]
    <2>1. c \in Commands /\ c.op # "none" /\ HandleFits(h, c)
        BY DEF Commands, HandleFits
    <2>2. HandleVarsOK' /\ StartNew(h, c)
        BY <1>1, <1>10 DEF HandleVarsOK, handleVars, BeginFinalize
    <2> HIDE DEF c
    <2> QED BY <1>2, <2>1, <2>2, StartNewKeepsInv
<1> QED BY <1>3, <1>4, <1>5, <1>6, <1>7, <1>8, <1>9, <1>10 DEF Begin

LEMMA BeginFenceKeepsInv ==
    ASSUME Inv, NEW h \in SinceHandles, BeginFence(h)
    PROVE  Inv'
<1> DEFINE c == Downgrade(h, hopaque[h], EpochOf[h], hsince[h])
<1>1. HandleVarsOK /\ calls \in 0 .. MaxCalls
    BY InvParts DEF Parts, BookkeepingOK
<1>2. hsince[h] \in Frontier /\ hopaque[h] \in Nat /\ EpochOf[h] \in Nat
    BY <1>1, HandlesAssumption DEF HandleVarsOK
<1>3. c \in Commands /\ c.op # "none" /\ HandleFits(h, c)
    BY <1>2 DEF Commands, HandleFits, Downgrade
<1>4. HandleVarsOK' /\ Start(h, c) /\ calls' \in 0 .. MaxCalls
    BY <1>1 DEF HandleVarsOK, handleVars, BeginFence
<1>5. h \in Handles
    BY DEF Handles
<1> HIDE DEF c
<1> QED BY <1>3, <1>4, <1>5, StartKeepsInv

(* A version whose SeqNo is the current one is the current version; so a   *)
(* proposal made from any cached state is acceptable or too late.          *)
LEMMA ProposalFromKnown ==
    ASSUME Inv, NEW s \in Known, NEW t, VersionOK(t), t.seqno = s.seqno + 1,
           Succeeds(s, t)
    PROVE  ProposalOK(t)
<1>1. OneHistory /\ cur \in Known /\ VersionOK(s) /\ VersionOK(cur)
    BY InvParts DEF Parts, Known
<1>2. s.seqno <= cur.seqno /\ (s.seqno = cur.seqno => s = cur)
    BY <1>1 DEF OneHistory
<1>3. s.seqno \in Nat /\ cur.seqno \in Nat
    BY <1>1 DEF VersionOK, IsShardState
<1> QED BY <1>2, <1>3 DEF ProposalOK

LEMMA AttemptKeepsInv ==
    ASSUME Inv, NEW h \in Handles, Attempt(h)
    PROVE  Inv'
<1> DEFINE s == Cached(h)
           c == Cmd(h)
           res == WorkRes(h)
<1>1. Parts
    BY InvParts
<1>2. /\ s \in Known /\ VersionOK(s) /\ c \in Commands /\ c.op # "none"
      /\ HandleFits(h, c) /\ call[h].indet \in BOOLEAN /\ call[h].pc = "ready"
    BY CallOf DEF Attempt
<1>3. /\ res.flow = "Continue" => Advances(NextVersion(s), res.st)
      /\ res.flow \in {"Break", "Continue"} => RetFits(c, res.ret)
    BY <1>2, NextVersionOK, WorkFnAdvances DEF WorkRes
<1>4. /\ cur' = cur
      /\ DOMAIN cache' = Procs /\ \A p \in Procs : cache'[p] \in Known
      /\ \A o \in orphans' : OrphanOK(o)
      /\ BookkeepingOK'
    BY <1>1 DEF Attempt, Parts, BookkeepingOK, Known
<1> HIDE DEF s, c, res
<1>5. CASE Proposes(h)
    <2>1. PICK R, W :
            call' = [call EXCEPT ![h] = Call("sent", c, ExpireAt(res.st, R, W),
                                             res.ret, call[h].indet)]
        BY <1>5 DEF Proposes, c, res
    <2> DEFINE t == ExpireAt(res.st, R, W)
               k == Call("sent", c, t, res.ret, call[h].indet)
    <2>2. res.flow = "Continue"
        BY <1>5 DEF Proposes, res
    <2>3. Advances(NextVersion(s), t)
        BY <1>3, <2>2, ExpireAtAdvances
    <2> HIDE DEF t
    <2>4. VersionOK(t) /\ t.seqno = s.seqno + 1 /\ Succeeds(s, t)
        BY <1>2, <2>3, AdvancesSucceeds
    <2>5. ProposalOK(t) /\ IsShardState(t)
        BY <1>2, <2>4, ProposalFromKnown DEF VersionOK
    <2>6. IsCall(k)
        BY <1>2, <2>5, CallFields DEF IsCall, PCs
    <2>7. CallOK(h, k) /\ k.pc # "committed"
        BY <1>2, <1>3, <2>2, <2>5, <2>6, CallFields DEF CallOK
    <2>8. HandleVarsOK'
        BY <1>5, OutcomeStep DEF Proposes
    <2>9. call' = [call EXCEPT ![h] = k]
        BY <2>1 DEF t
    <2> HIDE DEF k
    <2> QED BY <1>4, <2>7, <2>8, <2>9, CallStep
<1>6. CASE res.flow = "Break" /\ Returns(h, res.ret, FALSE)
    <2>1. RetFits(Cmd(h), res.ret)
        BY <1>3, <1>6 DEF c
    <2>2. /\ \E k : /\ CallOK(h, k) /\ k.pc # "committed"
                    /\ call' = [call EXCEPT ![h] = k]
          /\ HandleVarsOK'
        BY <1>2, <1>6, <2>1, ReturnsStep
    <2> QED BY <1>4, <2>2, CallStep
<1>7. CASE Panics(h)
    <2>1. HandleVarsOK' /\ GoTo(h, "assert_failed")
        BY <1>7, OutcomeStep DEF Panics
    <2>2. "assert_failed" \in Resting \ {"idle"} /\ call[h].pc # "idle"
        BY <1>2 DEF Resting, PCs
    <2>3. \E k : /\ CallOK(h, k) /\ k.pc # "committed"
                 /\ call' = [call EXCEPT ![h] = k]
        BY <2>1, <2>2, GoToStep
    <2> QED BY <1>4, <2>1, <2>3, CallStep
<1> QED BY <1>5, <1>6, <1>7 DEF Attempt, res

LEMMA CommitBookkeeping ==
    ASSUME Inv, NEW s, NEW c \in Commands, Commit(s, c), UNCHANGED <<calls, errs>>
    PROVE  BookkeepingOK'
<1>1. BookkeepingOK
    BY InvParts DEF Parts
<1>2. log' \in Seq(HollowBatch)
    BY <1>1, CommandFields DEF BookkeepingOK, Commit
<1> QED BY <1>1, <1>2 DEF BookkeepingOK

LEMMA CasCommitKeepsInv ==
    ASSUME Inv, NEW h \in Handles, CasCommit(h)
    PROVE  Inv'
<1> DEFINE s == call[h].st
<1>1. Parts
    BY InvParts
<1>2. IsCall(call[h]) /\ Cmd(h) \in Commands /\ call[h].pc = "sent"
    BY CallOf DEF CasCommit
<1>3. ProposalOK(s) /\ Accepted(s) /\ cur' = s
    BY <1>1, <1>2 DEF Parts, CallOK, CasCommit, Commit
<1>4. call' = [call EXCEPT ![h] = Call("committed", call[h].cmd, call[h].st,
                                       call[h].ret, call[h].indet)]
    BY <1>2, GoToCall DEF CasCommit, GoTo
<1>5. \A g \in Handles :
        /\ IsCall(call'[g])
        /\ call'[g].cmd = call[g].cmd /\ call'[g].st = call[g].st
        /\ call'[g].ret = call[g].ret
        /\ \/ call'[g].pc = call[g].pc
           \/ /\ call[g].pc = "sent" /\ call[g].st = s
              /\ call'[g].pc = "committed"
    <2>1. SUFFICES ASSUME NEW g \in Handles
                   PROVE  /\ IsCall(call'[g])
                          /\ call'[g].cmd = call[g].cmd /\ call'[g].st = call[g].st
                          /\ call'[g].ret = call[g].ret
                          /\ \/ call'[g].pc = call[g].pc
                             \/ /\ call[g].pc = "sent" /\ call[g].st = s
                                /\ call'[g].pc = "committed"
        OBVIOUS
    <2>2. CASE g # h
        BY <1>1, <1>4, <2>2 DEF Parts, CallOK
    <2>3. CASE g = h
        <3>1. call'[h] = Call("committed", call[h].cmd, call[h].st, call[h].ret,
                              call[h].indet)
            BY <1>1, <1>4 DEF Parts
        <3>2. "committed" \in PCs
            BY DEF PCs
        <3> QED BY <1>2, <2>3, <3>1, <3>2, CallFields DEF IsCall
    <2> QED BY <2>2, <2>3
<1>6. cache' = cache /\ orphans' \subseteq orphans /\ DOMAIN call' = Handles
    BY <1>1, <1>4 DEF CasCommit, Alive, Parts
<1>7. BookkeepingOK'
    BY <1>2, CommitBookkeeping DEF CasCommit
<1>8. HandleVarsOK'
    BY OutcomeStep DEF CasCommit
<1> QED BY <1>3, <1>5, <1>6, <1>7, <1>8, CommitStep

LEMMA OrphanCommitKeepsInv ==
    ASSUME Inv, NEW o \in orphans, OrphanCommit(o)
    PROVE  Inv'
<1>1. Parts
    BY InvParts
<1>2. ProposalOK(o.st) /\ o.cmd \in Commands
    BY <1>1 DEF Parts, OrphanOK
<1>3. /\ Accepted(o.st) /\ cur' = o.st /\ cache' = cache
      /\ orphans' \subseteq orphans /\ call' = call
    BY DEF OrphanCommit, Commit, Alive
<1>4. BookkeepingOK' /\ HandleVarsOK'
    BY <1>2, CommitBookkeeping, OutcomeStep DEF OrphanCommit
<1>5. DOMAIN call' = Handles /\ \A h \in Handles : IsCall(call'[h])
    BY <1>1, <1>3 DEF Parts, CallOK
<1> QED BY <1>2, <1>3, <1>4, <1>5, CommitStep

LEMMA CasMismatchKeepsInv ==
    ASSUME Inv, NEW h \in Handles, CasMismatch(h)
    PROVE  Inv'
<1>1. Parts
    BY InvParts
<1>2. "mismatch" \in Resting \ {"idle"} /\ call[h].pc # "idle"
    BY DEF Resting, PCs, CasMismatch
<1>3. \E k : /\ CallOK(h, k) /\ k.pc # "committed"
             /\ call' = [call EXCEPT ![h] = k]
    BY <1>2, GoToStep DEF CasMismatch
<1>4. /\ cur' = cur
      /\ DOMAIN cache' = Procs /\ \A p \in Procs : cache'[p] \in Known
      /\ \A o \in orphans' : OrphanOK(o)
      /\ BookkeepingOK' /\ HandleVarsOK'
    BY <1>1, OutcomeStep DEF CasMismatch, Parts, BookkeepingOK, Known
<1> QED BY <1>3, <1>4, CallStep

(* A request left behind was a proposal, and still is one.                 *)
LEMMA OrphanedOK ==
    ASSUME Inv, NEW h \in Handles
    PROVE  \A o \in Orphaned(h) : OrphanOK(o)
<1>1. Parts
    BY InvParts
<1>2. CASE call[h].pc = "sent"
    <2>1. ProposalOK(call[h].st) /\ IsShardState(call[h].st) /\ Cmd(h) \in Commands
        BY <1>1, <1>2, CallOf DEF Parts, CallOK
    <2>2. OrphanOK([st |-> call[h].st, cmd |-> Cmd(h)])
        BY <2>1 DEF OrphanOK
    <2> QED BY <1>1, <2>2 DEF Orphaned, Parts
<1>3. CASE call[h].pc # "sent"
    BY <1>1, <1>3 DEF Orphaned, Parts
<1> QED BY <1>2, <1>3

LEMMA IndeterminateKeepsInv ==
    ASSUME Inv, NEW h \in Handles, Indeterminate(h)
    PROVE  Inv'
<1>1. Parts
    BY InvParts
<1>2. \E k : /\ CallOK(h, k) /\ k.pc # "committed"
             /\ call' = [call EXCEPT ![h] = k]
    BY RetryStep DEF Indeterminate
<1>3. \A o \in orphans' : OrphanOK(o)
    BY OrphanedOK DEF Indeterminate
<1>4. /\ cur' = cur
      /\ DOMAIN cache' = Procs /\ \A p \in Procs : cache'[p] \in Known
      /\ HandleVarsOK'
    BY <1>1, OutcomeStep DEF Indeterminate, Parts, Known
<1>5. BookkeepingOK'
    BY <1>1, BoundsAssumption DEF Parts, BookkeepingOK, Indeterminate
<1> QED BY <1>2, <1>3, <1>4, <1>5, CallStep

LEMMA CancelKeepsInv ==
    ASSUME Inv, NEW w \in Writers, Cancel(w)
    PROVE  Inv'
<1>1. Parts /\ w \in Handles
    BY InvParts DEF Handles
<1>2. \E k : /\ CallOK(w, k) /\ k.pc # "committed"
             /\ call' = [call EXCEPT ![w] = k]
    BY <1>1, DoneStep DEF Cancel
<1>3. \A o \in orphans' : OrphanOK(o)
    BY <1>1, OrphanedOK DEF Cancel
<1>4. /\ cur' = cur
      /\ DOMAIN cache' = Procs /\ \A p \in Procs : cache'[p] \in Known
      /\ BookkeepingOK'
    BY <1>1 DEF Cancel, Parts, Known, BookkeepingOK
<1>5. HandleVarsOK'
    BY OutcomeStep DEF Cancel, Outcomes
<1> QED BY <1>1, <1>2, <1>3, <1>4, <1>5, CallStep

(* Catching up only ever brings a version already known.                   *)
LEMMA FetchedKnown ==
    ASSUME Inv, NEW p \in Procs, NEW n
    PROVE  Fetched(cache[p], n) \in Known
BY DEF Fetched, Newer, Known

LEMMA CacheStep ==
    ASSUME Inv, NEW p \in Procs, NEW s \in Known, cache' = [cache EXCEPT ![p] = s]
    PROVE  DOMAIN cache' = Procs /\ \A q \in Procs : cache'[q] \in Known
BY InvParts DEF Parts, Known

LEMMA DeliverCommittedKeepsInv ==
    ASSUME Inv, NEW h \in Handles, DeliverCommitted(h)
    PROVE  Inv'
<1>1. Parts
    BY InvParts
<1>2. call[h].pc = "committed" /\ RetFits(Cmd(h), call[h].ret)
    BY <1>1 DEF DeliverCommitted, Parts, CallOK, Cmd
<1>3. /\ \E k : /\ CallOK(h, k) /\ k.pc # "committed"
                /\ call' = [call EXCEPT ![h] = k]
      /\ HandleVarsOK'
    BY <1>2, ReturnsStep DEF DeliverCommitted
<1>4. ProcOf[h] \in Procs
    BY CallOf
<1>5. DOMAIN cache' = Procs /\ \A p \in Procs : cache'[p] \in Known
    <2> DEFINE s == Newer(cache[ProcOf[h]], call[h].st)
    <2>1. s \in Known
        BY <1>2, <1>4 DEF Newer, Known
    <2>2. cache' = [cache EXCEPT ![ProcOf[h]] = s]
        BY DEF DeliverCommitted
    <2> HIDE DEF s
    <2> QED BY <1>4, <2>1, <2>2, CacheStep
<1>6. cur' = cur /\ (\A o \in orphans' : OrphanOK(o)) /\ BookkeepingOK'
    BY <1>1 DEF DeliverCommitted, Parts, BookkeepingOK
<1> QED BY <1>3, <1>5, <1>6, CallStep

LEMMA DeliverMismatchKeepsInv ==
    ASSUME Inv, NEW h \in Handles, DeliverMismatch(h)
    PROVE  Inv'
<1>1. Parts
    BY InvParts
<1>2. ProcOf[h] \in Procs /\ call[h].indet \in BOOLEAN
    BY CallOf
<1>3. \E k : /\ CallOK(h, k) /\ k.pc # "committed"
             /\ call' = [call EXCEPT ![h] = k]
    BY <1>2, RetryStep DEF DeliverMismatch
<1>4. DOMAIN cache' = Procs /\ \A p \in Procs : cache'[p] \in Known
    <2> DEFINE s == Fetched(cache[ProcOf[h]], call[h].st.seqno)
    <2>1. s \in Known
        BY <1>2, FetchedKnown
    <2>2. cache' = [cache EXCEPT ![ProcOf[h]] = s]
        BY DEF DeliverMismatch
    <2> HIDE DEF s
    <2> QED BY <1>2, <2>1, <2>2, CacheStep
<1>5. /\ cur' = cur /\ (\A o \in orphans' : OrphanOK(o))
      /\ BookkeepingOK' /\ HandleVarsOK'
    BY <1>1, OutcomeStep DEF DeliverMismatch, Parts, BookkeepingOK
<1> QED BY <1>3, <1>4, <1>5, CallStep

LEMMA RecheckUpperKeepsInv ==
    ASSUME Inv, NEW w \in Writers, RecheckUpper(w)
    PROVE  Inv'
<1>1. Parts /\ w \in Handles
    BY InvParts DEF Handles
<1>2. ProcOf[w] \in Procs
    BY <1>1, CallOf
<1>3. \E k : /\ CallOK(w, k) /\ k.pc # "committed"
             /\ call' = [call EXCEPT ![w] = k]
    BY <1>1, DoneStep, RetryStep DEF RecheckUpper
<1>4. DOMAIN cache' = Procs /\ \A p \in Procs : cache'[p] \in Known
    <2> DEFINE s == Fetched(cache[ProcOf[w]], call[w].st.seqno)
    <2>1. s \in Known
        BY <1>2, FetchedKnown
    <2>2. cache' = [cache EXCEPT ![ProcOf[w]] = s]
        BY DEF RecheckUpper
    <2> HIDE DEF s
    <2> QED BY <1>2, <2>1, <2>2, CacheStep
<1>5. HandleVarsOK'
    BY OutcomeStep DEF RecheckUpper, Outcomes
<1>6. cur' = cur /\ (\A o \in orphans' : OrphanOK(o)) /\ BookkeepingOK'
    BY <1>1 DEF RecheckUpper, Parts, BookkeepingOK
<1> QED BY <1>1, <1>3, <1>4, <1>5, <1>6, CallStep

(* A step that leaves the calls and the committed version alone.           *)
LEMMA QuietStep ==
    ASSUME Inv, cur' = cur, call' = call, orphans' = orphans,
           DOMAIN cache' = Procs, \A p \in Procs : cache'[p] \in Known,
           HandleVarsOK', UNCHANGED <<calls, errs, log>>
    PROVE  Inv'
<1>1. Parts
    BY InvParts
<1>2. \A s \in Known' : s \in Known
    BY DEF Known
<1>3. OneHistory' /\ \A s \in Known' : VersionOK(s)
    BY <1>1, <1>2 DEF Parts, OneHistory
<1>4. IsShardState(cur') /\ \A p \in Procs : IsShardState(cache'[p])
    BY <1>1 DEF Parts, VersionOK
<1>5. /\ \A h \in Handles : CallOK(h, call[h])'
      /\ \A o \in orphans' : OrphanOK(o)'
      /\ DOMAIN call' = Handles /\ BookkeepingOK'
    BY <1>1 DEF Parts, CallOK, OrphanOK, ProposalOK, BookkeepingOK
<1> QED BY <1>3, <1>4, <1>5, InvPartsNext DEF Parts

LEMMA RefreshKeepsInv ==
    ASSUME Inv, NEW p \in Procs, Refresh(p)
    PROVE  Inv'
<1>1. cur \in Known /\ cache' = [cache EXCEPT ![p] = cur]
    BY DEF Known, Refresh
<1>2. DOMAIN cache' = Procs /\ \A q \in Procs : cache'[q] \in Known
    BY <1>1, CacheStep
<1>3. HandleVarsOK'
    BY OutcomeStep DEF Refresh
<1> QED BY <1>2, <1>3, QuietStep DEF Refresh

LEMMA FencedKeepsInv ==
    ASSUME Inv, NEW h \in SinceHandles, Fenced(h)
    PROVE  Inv'
<1>1. Parts
    BY InvParts
<1>2. HandleVarsOK'
    BY <1>1 DEF Parts, HandleVarsOK, Fenced, Handles
<1>3. DOMAIN cache' = Procs /\ \A q \in Procs : cache'[q] \in Known
    BY <1>1 DEF Parts, Known, Fenced
<1> QED BY <1>2, <1>3, QuietStep DEF Fenced

LEMMA StutterKeepsInv ==
    ASSUME Inv, UNCHANGED vars
    PROVE  Inv'
<1>1. Parts
    BY InvParts
<1>2. HandleVarsOK'
    BY OutcomeStep DEF vars
<1>3. DOMAIN cache' = Procs /\ \A q \in Procs : cache'[q] \in Known
    BY <1>1 DEF Parts, Known, vars
<1> QED BY <1>2, <1>3, QuietStep DEF vars

LEMMA InitInv == Init => Inv
<1> SUFFICES ASSUME Init PROVE Parts
    BY InvParts
<1>1. VersionOK(InitialState) /\ IsShardState(InitialState)
    BY InitialStateOK DEF VersionOK
<1>2. \A h \in Handles : CallOK(h, call[h]) /\ call[h].pc # "committed"
    BY IdleOK DEF Init
<1>3. \A s \in Known : s = InitialState
    BY <1>2 DEF Init, Known
<1>4. OneHistory /\ \A s \in Known : VersionOK(s)
    <2>1. /\ cur = InitialState
          /\ InitialState.seqno \in Nat
          /\ Forward(InitialState, InitialState)
        BY <1>1, ForwardRefl DEF Init, IsShardState
    <2> QED BY <1>1, <1>3, <2>1 DEF OneHistory
<1>5. HandleVarsOK
    BY TopAssumption DEF Init, HandleVarsOK, Outcomes, Frontier, DefaultOpaque
<1>6. BookkeepingOK
    BY BoundsAssumption DEF Init, BookkeepingOK
<1> QED BY <1>1, <1>2, <1>4, <1>5, <1>6 DEF Init, Parts

LEMMA NextInv == Inv /\ [Next]_vars => Inv'
<1> SUFFICES ASSUME Inv, [Next]_vars PROVE Inv'
    OBVIOUS
<1>1. CASE Begin
    BY <1>1, BeginKeepsInv
<1>2. CASE \E h \in Handles : Step(h) \/ Indeterminate(h)
    BY <1>2, AttemptKeepsInv, CasCommitKeepsInv, CasMismatchKeepsInv,
       DeliverCommittedKeepsInv, DeliverMismatchKeepsInv, IndeterminateKeepsInv
    DEF Step
<1>3. CASE \E w \in Writers : RecheckUpper(w) \/ Cancel(w)
    BY <1>3, RecheckUpperKeepsInv, CancelKeepsInv
<1>4. CASE \E h \in SinceHandles : BeginFence(h) \/ Fenced(h)
    BY <1>4, BeginFenceKeepsInv, FencedKeepsInv
<1>5. CASE \E o \in orphans : OrphanCommit(o)
    BY <1>5, OrphanCommitKeepsInv
<1>6. CASE \E p \in Procs : Refresh(p)
    BY <1>6, RefreshKeepsInv
<1>7. CASE UNCHANGED vars
    BY <1>7, StutterKeepsInv
<1> QED BY <1>1, <1>2, <1>3, <1>4, <1>5, <1>6, <1>7 DEF Next

-----------------------------------------------------------------------------
(* What one step does to the committed version and to a cached one.        *)

LEMMA BeginLeavesVersions ==
    ASSUME Begin
    PROVE  cur' = cur /\ cache' = cache
BY DEF Begin, BeginAppend, BeginExpireWriter, BeginRegister, BeginDowngrade,
       BeginExpireReader, BeginOpenCritical, BeginDowngradeCritical,
       BeginFinalize, StartNew, Start

LEMMA CurMoves ==
    ASSUME Inv, [Next]_vars
    PROVE  cur' = cur \/ Succeeds(cur, cur')
<1>1. Parts
    BY InvParts
<1>2. ASSUME NEW h \in Handles, CasCommit(h)
      PROVE  Succeeds(cur, cur')
    <2>1. call[h].pc = "sent" /\ CallOK(h, call[h])
        BY <1>1, <1>2 DEF Parts, CasCommit
    <2> QED BY <1>2, <2>1 DEF CallOK, ProposalOK, Accepted, CasCommit, Commit
<1>3. ASSUME NEW o \in orphans, OrphanCommit(o)
      PROVE  Succeeds(cur, cur')
    <2>1. ProposalOK(o.st)
        BY <1>1, <1>3 DEF Parts, OrphanOK
    <2> QED BY <1>3, <2>1 DEF ProposalOK, Accepted, OrphanCommit, Commit
<1>4. CASE Begin
    BY <1>4, BeginLeavesVersions
<1>5. CASE \E h \in Handles : Step(h) \/ Indeterminate(h)
    BY <1>2, <1>5 DEF Step, Attempt, CasMismatch, DeliverCommitted,
                      DeliverMismatch, Indeterminate
<1>6. CASE \E w \in Writers : RecheckUpper(w) \/ Cancel(w)
    BY <1>6 DEF RecheckUpper, Cancel
<1>7. CASE \E h \in SinceHandles : BeginFence(h) \/ Fenced(h)
    BY <1>7 DEF BeginFence, Fenced, Start
<1>8. CASE \E p \in Procs : Refresh(p)
    BY <1>8 DEF Refresh
<1>9. CASE UNCHANGED vars
    BY <1>9 DEF vars
<1> QED BY <1>3, <1>4, <1>5, <1>6, <1>7, <1>8, <1>9 DEF Next

(* A cache is left alone, or moves to a known version that is not older.   *)
CacheMove(p, s) == s \in Known /\ cache[p].seqno <= s.seqno

LEMMA NewerMoves ==
    ASSUME Inv, NEW p \in Procs, NEW s \in Known, NEW n
    PROVE  CacheMove(p, Newer(cache[p], s)) /\ CacheMove(p, Fetched(cache[p], n))
<1>1. cache[p] \in Known /\ cur \in Known
    BY DEF Known
<1>2. \A u \in Known : u.seqno \in Nat
    BY DEF Inv, VersionOK, IsShardState
<1> QED BY <1>1, <1>2 DEF CacheMove, Newer, Fetched

LEMMA CacheMoves ==
    ASSUME Inv, [Next]_vars, NEW p \in Procs
    PROVE  cache'[p] = cache[p] \/ CacheMove(p, cache'[p])
<1>1. Parts
    BY InvParts
<1>2. ASSUME NEW q \in Procs, NEW s, cache' = [cache EXCEPT ![q] = s],
             CacheMove(q, s)
      PROVE  cache'[p] = cache[p] \/ CacheMove(p, cache'[p])
    BY <1>1, <1>2 DEF Parts
<1>3. ASSUME NEW h \in Handles, DeliverCommitted(h)
      PROVE  cache'[p] = cache[p] \/ CacheMove(p, cache'[p])
    <2>1. ProcOf[h] \in Procs /\ call[h].st \in Known
        BY <1>3, CallOf DEF Known, DeliverCommitted
    <2>2. CacheMove(ProcOf[h], Newer(cache[ProcOf[h]], call[h].st))
        BY <2>1, NewerMoves
    <2> QED BY <1>2, <1>3, <2>1, <2>2 DEF DeliverCommitted
<1>4. ASSUME NEW h \in Handles, NEW n,
             cache' = [cache EXCEPT ![ProcOf[h]] = Fetched(cache[ProcOf[h]], n)]
      PROVE  cache'[p] = cache[p] \/ CacheMove(p, cache'[p])
    <2>1. ProcOf[h] \in Procs /\ cur \in Known
        BY CallOf DEF Known
    <2>2. CacheMove(ProcOf[h], Fetched(cache[ProcOf[h]], n))
        BY <2>1, NewerMoves
    <2> QED BY <1>2, <1>4, <2>1, <2>2
<1>5. ASSUME NEW q \in Procs, Refresh(q)
      PROVE  cache'[p] = cache[p] \/ CacheMove(p, cache'[p])
    <2>1. CacheMove(q, cur)
        BY <1>1, <1>5 DEF Parts, CacheMove, Known, Refresh, IsShardState
    <2> QED BY <1>2, <1>5, <2>1 DEF Refresh
<1>6. CASE Begin
    BY <1>6, BeginLeavesVersions
<1>7. CASE \E h \in Handles : Step(h) \/ Indeterminate(h)
    <2>1. ASSUME NEW h \in Handles, DeliverMismatch(h)
          PROVE  cache'[p] = cache[p] \/ CacheMove(p, cache'[p])
        BY <1>4, <2>1 DEF DeliverMismatch
    <2> QED BY <1>3, <1>7, <2>1
            DEF Step, Attempt, CasCommit, CasMismatch, Indeterminate
<1>8. CASE \E w \in Writers : RecheckUpper(w) \/ Cancel(w)
    <2>1. ASSUME NEW w \in Writers, RecheckUpper(w)
          PROVE  cache'[p] = cache[p] \/ CacheMove(p, cache'[p])
        BY <1>4, <2>1 DEF RecheckUpper, Handles
    <2> QED BY <1>8, <2>1 DEF Cancel
<1>9. CASE \E h \in SinceHandles : BeginFence(h) \/ Fenced(h)
    BY <1>9 DEF BeginFence, Fenced, Start
<1>10. CASE \E o \in orphans : OrphanCommit(o)
    BY <1>10 DEF OrphanCommit
<1>11. CASE UNCHANGED vars
    BY <1>11 DEF vars
<1> QED BY <1>5, <1>6, <1>7, <1>8, <1>9, <1>10, <1>11 DEF Next

-----------------------------------------------------------------------------
(* The theorems.                                                           *)

(* Inv is an invariant of the command loop: every version in use is well   *)
(* formed and part of one history, and every proposal that may still be    *)
(* accepted is a successor of the current version (apply.rs                *)
(* apply_unbatched_cmd, compute_next_state_locked).                        *)
THEOREM Invariance == Spec => []Inv
BY InitInv, NextInv, PTL DEF Spec

(* Type correctness (state.rs StateCollections, apply.rs Applier).         *)
THEOREM TypeCorrect == Spec => []TypeOK
<1>1. Inv => TypeOK
    BY DEF Inv
<1> QED BY <1>1, Invariance, PTL

(* All processes see one history of the shard (apply.rs update_state,      *)
(* fetch_and_update_state).                                                *)
THEOREM OneHistoryHolds == Spec => []OneHistory
<1>1. Inv => OneHistory
    BY DEF Inv
<1> QED BY <1>1, Invariance, PTL

(* No command and no race of commands moves the shard's since past a       *)
(* registered reader (state.rs update_since).                              *)
THEOREM SinceIsHeldBack == Spec => []SinceHeldBack
<1>1. Inv => SinceHeldBack
    BY DEF Inv, Known, VersionOK, SinceHeldBack
<1> QED BY <1>1, Invariance, PTL

(* Frontiers, SeqNos and SeqNo holds never regress, neither in the         *)
(* committed versions nor in what one process sees (state.rs, watch.rs).   *)
THEOREM NothingEverRegresses == Spec => NothingRegresses
<1>1. ASSUME Inv, [Next]_vars
      PROVE  /\ Forward(cur, cur')
             /\ \A p \in Procs : Forward(cache[p], cache'[p])
    <2>1. OneHistory /\ (\A s \in Known : VersionOK(s)) /\ cur \in Known
        BY <1>1 DEF Inv, Known
    <2>2. Forward(cur, cur')
        BY <1>1, <2>1, CurMoves, ForwardRefl DEF Succeeds
    <2>3. ASSUME NEW p \in Procs
          PROVE  Forward(cache[p], cache'[p])
        <3>1. cache[p] \in Known
            BY DEF Known
        <3>2. CASE cache'[p] = cache[p]
            BY <2>1, <3>1, <3>2, ForwardRefl
        <3>3. CASE CacheMove(p, cache'[p])
            BY <2>1, <3>1, <3>3 DEF OneHistory, CacheMove
        <3> QED BY <1>1, <3>2, <3>3, CacheMoves
    <2> QED BY <2>2, <2>3
<1> QED BY <1>1, Invariance, PTL DEF Spec, NothingRegresses

(* Nothing brings a tombstone back to life, not even a request that was in *)
(* flight when the shard was finalized (state.rs is_tombstone).            *)
THEOREM TombstonesAreFinal == Spec => TombstoneIsFinal
<1>1. ASSUME Inv, [Next]_vars
      PROVE  IsTombstone(cur) => IsTombstone(cur')
    BY <1>1, CurMoves DEF Succeeds
<1> QED BY <1>1, Invariance, PTL DEF Spec, TombstoneIsFinal
=============================================================================
