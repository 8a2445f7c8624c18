------------------------- MODULE PersistShardLogProofs -------------------------
(***************************************************************************)
(* Proofs about what the users of a shard see, on top of the invariant Inv *)
(* of PersistShardProofs: the log of batches, the snapshots, the epochs of *)
(* the critical readers and finalization.                                  *)
(*                                                                         *)
(* All of it rests on what the requests in flight may do if Consensus      *)
(* still accepts them: such a request was computed from the current        *)
(* version, so it extends the log at its end, moves a critical reader only *)
(* from the epoch it expected, and does nothing to a finalized shard.      *)
(***************************************************************************)
EXTENDS PersistShardProofs, FiniteSetTheorems

(* The requests in flight, awaited by their caller or not.                 *)
Requests == {[st |-> call[h].st, cmd |-> call[h].cmd] :
               h \in {g \in Handles : call[g].pc = "sent"}} \cup orphans

(* The batches of the calls in progress, of the requests and of the log.   *)
IsAppend(c) == c.op = "compare_and_append"
Played == {call[h].cmd.b : h \in {g \in Handles : IsAppend(call[g].cmd)}}
            \cup {o.cmd.b : o \in {q \in orphans : IsAppend(q.cmd)}}
            \cup {log[i] : i \in DOMAIN log}

(* What command c makes of the log when version t follows version s.       *)
Extends(c, s, t) ==
    IF IsAppend(c)
    THEN /\ c.b.lower = s.upper /\ c.b.lower <= c.b.upper
         /\ t.upper = c.b.upper
         /\ t.batches = IF c.b.lower = c.b.upper THEN s.batches
                        ELSE s.batches \cup {c.b}
    ELSE /\ t.upper = s.upper
         /\ t.batches = s.batches \/ t.since = Top
         /\ IsFiniteSet(s.batches) => IsFiniteSet(t.batches)

(* What it makes of the critical readers, if handle h sent it.             *)
IsFence(c) == c.op = "compare_and_downgrade_since"
Fences(h, c, s, t) ==
    /\ IsFence(c) => ~IsTombstone(s)
    /\ \A k \in DOMAIN s.critical \cap DOMAIN t.critical :
         \/ t.critical[k] = s.critical[k]
         \/ /\ IsFence(c) /\ k = CriticalIdOf[h]
            /\ s.critical[k].opaque = c.expected
            /\ t.critical[k].opaque = c.new

-----------------------------------------------------------------------------
(* The invariant of the log.                                               *)

TokensOK ==
    /\ \A b \in Played : b.token <= calls
    /\ \A a, b \in Played : a.token = b.token => a = b

RequestsExtend ==
    \A q \in Requests :
      Accepted(q.st) => Extends(q.cmd, cur, q.st) /\ ~IsFinalized(cur)

Tiles ==
    /\ \A i \in DOMAIN log :
         /\ log[i].lower = IF i = 1 THEN 0 ELSE log[i - 1].upper
         /\ log[i].lower <= log[i].upper
         /\ log[i].upper <= cur.upper
    /\ cur.upper = IF log = <<>> THEN 0 ELSE log[Len(log)].upper
    /\ \A i, j \in DOMAIN log : i < j => log[i].upper <= log[j].lower

(* A version has the batches below its upper, and none crosses it.         *)
Covers(s) ==
    /\ IsFiniteSet(s.batches)
    /\ \A b \in Batches : b.upper <= s.upper \/ s.upper <= b.lower
    /\ s.since # Top => s.batches = {b \in Batches : b.upper <= s.upper}

LogInv ==
    /\ TokensOK
    /\ RequestsExtend
    /\ Tiles
    /\ \A s \in Known : Covers(s) /\ (IsFinalized(s) => s = cur)
    /\ FinalizedForGood

(* The invariant of the epochs.                                            *)

OwnsFence(h, c) == c.expected <= c.new /\ c.new = EpochOf[h]

(* A handle whose request may still be accepted has not been answered, or  *)
(* holds the reader.                                                       *)
MayFence(h) ==
    /\ h \in SinceHandles
    /\ call[h].pc # "committed"
    /\ \/ hstat[h] = "open"
       \/ /\ hstat[h] = "opening"
          /\ call[h].pc # "idle" /\ IsFence(call[h].cmd)

OrphanFences(o) ==
    \E h \in Handles : /\ IsFence(o.cmd) => MayFence(h) /\ OwnsFence(h, o.cmd)
                       /\ Fences(h, o.cmd, cur, o.st)

HandleFences(h) ==
    /\ hstat[h] = "open" => hopaque[h] = EpochOf[h]
    /\ call[h].pc # "idle" =>
         /\ IsFence(call[h].cmd) =>
              hstat[h] \in {"opening", "open"} /\ OwnsFence(h, call[h].cmd)
         /\ call[h].cmd.op = "register_critical_reader" => hstat[h] = "none"

FenceInv ==
    /\ \A h \in SinceHandles : HandleFences(h)
    /\ \A h \in Handles :
         call[h].pc = "sent" /\ Accepted(call[h].st) =>
           Fences(h, call[h].cmd, cur, call[h].st)
    /\ \A o \in orphans : Accepted(o.st) => OrphanFences(o)
    /\ \A s \in Known : IsTombstone(s) => IsTombstone(cur)

-----------------------------------------------------------------------------
(* What each command does to the log and to the critical readers.          *)

KeepsLog(s, t) == t.upper = s.upper /\ t.batches = s.batches
KeepsAll(s, t) == KeepsLog(s, t) /\ t.critical = s.critical

LEMMA ExpireWriterEffect ==
    ASSUME NEW s, Shape(s), NEW w, ExpireWriter(s, w).flow = "Continue"
    PROVE  KeepsAll(s, ExpireWriter(s, w).st)
<1>1. ExpireWriter(s, w).st = [s EXCEPT !.writers = Without(s.writers, {w})]
    BY DEF ExpireWriter, Break, Continue
<1> QED BY <1>1, SetWriters DEF KeepsAll, KeepsLog, Fields

LEMMA ExpireLeasedReaderEffect ==
    ASSUME NEW s, Shape(s), NEW r, ExpireLeasedReader(s, r).flow = "Continue"
    PROVE  KeepsAll(s, ExpireLeasedReader(s, r).st)
<1>1. ExpireLeasedReader(s, r).st = [s EXCEPT !.leased = Without(s.leased, {r})]
    BY DEF ExpireLeasedReader, Break, Continue
<1> QED BY <1>1, SetLeased DEF KeepsAll, KeepsLog, Fields

LEMMA RegisterLeasedReaderEffect ==
    ASSUME NEW s, Shape(s), NEW r, NEW x,
           RegisterLeasedReader(s, r, x).flow = "Continue"
    PROVE  KeepsAll(s, RegisterLeasedReader(s, r, x).st)
<1>1. PICK e : RegisterLeasedReader(s, r, x).st =
                 [s EXCEPT !.leased = Insert(s.leased, r, e)]
    BY DEF RegisterLeasedReader, Break, Continue
<1> QED BY <1>1, SetLeased DEF KeepsAll, KeepsLog, Fields

LEMMA UpdateSinceEffect ==
    ASSUME NEW s, Shape(s)
    PROVE  KeepsAll(s, UpdateSince(s))
<1>1. CASE ReaderSinces(s) = {}
    BY <1>1 DEF UpdateSince, KeepsAll, KeepsLog
<1>2. CASE ReaderSinces(s) # {}
    <2>1. UpdateSince(s) = [s EXCEPT !.since = Meet(ReaderSinces(s))]
        BY <1>2 DEF UpdateSince
    <2> QED BY <2>1, SetSince DEF KeepsAll, KeepsLog, Fields
<1> QED BY <1>1, <1>2

LEMMA DowngradeSinceEffect ==
    ASSUME NEW s, Shape(s), NEW r, NEW out, NEW f,
           DowngradeSince(s, r, out, f).flow = "Continue"
    PROVE  KeepsAll(s, DowngradeSince(s, r, out, f).st)
<1>1. \E e : LET t == [s EXCEPT !.leased = Insert(s.leased, r, e)] IN
             DowngradeSince(s, r, out, f).st \in {t, UpdateSince(t)}
    <2> DEFINE e == [seqno |-> IF out < s.seqno THEN out ELSE s.seqno,
                     since |-> IF s.leased[r].since < f THEN f
                               ELSE s.leased[r].since]
               t == [s EXCEPT !.leased = Insert(s.leased, r, e)]
    <2>1. DowngradeSince(s, r, out, f).st =
            IF s.leased[r].since < f THEN UpdateSince(t) ELSE t
        BY DEF DowngradeSince, Break, Continue, Panic
    <2> QED BY <2>1
<1>2. PICK e : LET t == [s EXCEPT !.leased = Insert(s.leased, r, e)] IN
               DowngradeSince(s, r, out, f).st \in {t, UpdateSince(t)}
    BY <1>1
<1> DEFINE t == [s EXCEPT !.leased = Insert(s.leased, r, e)]
<1>3. Fields(t, s.seqno, s.since, s.upper, s.writers, Insert(s.leased, r, e),
             s.critical, s.batches)
    BY SetLeased
<1>4. DowngradeSince(s, r, out, f).st \in {t, UpdateSince(t)}
    BY <1>2
<1> HIDE DEF t
<1>5. KeepsAll(t, UpdateSince(t))
    BY <1>3, ShapeOf, UpdateSinceEffect
<1> QED BY <1>3, <1>4, <1>5 DEF KeepsAll, KeepsLog, Fields

LEMMA RegisterCriticalReaderEffect ==
    ASSUME NEW s, Shape(s), NEW c, NEW o,
           RegisterCriticalReader(s, c, o).flow = "Continue"
    PROVE  LET t == RegisterCriticalReader(s, c, o).st IN
           /\ KeepsLog(s, t)
           /\ \A k \in DOMAIN s.critical : t.critical[k] = s.critical[k]
<1> DEFINE t == RegisterCriticalReader(s, c, o).st
           cs == Insert(s.critical, c, [opaque |-> o, since |-> s.since])
<1>1. \/ t = s
      \/ c \notin DOMAIN s.critical /\ t = [s EXCEPT !.critical = cs]
    BY DEF RegisterCriticalReader, Break, Continue
<1>2. CASE t = s
    BY <1>2 DEF KeepsLog
<1>3. CASE c \notin DOMAIN s.critical /\ t = [s EXCEPT !.critical = cs]
    <2>1. \A k \in DOMAIN s.critical : cs[k] = s.critical[k]
        BY <1>3 DEF Insert
    <2> HIDE DEF cs, t
    <2>2. Fields(t, s.seqno, s.since, s.upper, s.writers, s.leased, cs, s.batches)
        BY <1>3, SetCritical
    <2>3. KeepsLog(s, t) /\ \A k \in DOMAIN s.critical : t.critical[k] = s.critical[k]
        BY <2>1, <2>2 DEF KeepsLog, Fields
    <2> QED BY <2>3 DEF t
<1> QED BY <1>1, <1>2, <1>3

LEMMA CompareAndDowngradeSinceEffect ==
    ASSUME NEW s, Shape(s), NEW c, NEW x, NEW n, NEW f,
           CompareAndDowngradeSince(s, c, x, n, f).flow = "Continue"
    PROVE  LET t == CompareAndDowngradeSince(s, c, x, n, f).st IN
           /\ KeepsLog(s, t) /\ ~IsTombstone(s)
           /\ \A k \in DOMAIN s.critical :
                \/ t.critical[k] = s.critical[k]
                \/ /\ k = c /\ s.critical[k].opaque = x
                   /\ t.critical[k].opaque = n
<1> DEFINE t == CompareAndDowngradeSince(s, c, x, n, f).st
           old == s.critical[c]
           e == [opaque |-> n, since |-> IF old.since <= f THEN f ELSE old.since]
           cs == Insert(s.critical, c, e)
           u == [s EXCEPT !.critical = cs]
<1>1. /\ ~IsTombstone(s) /\ c \in DOMAIN s.critical
      /\ \/ t = s
         \/ old.opaque = x /\ t \in {u, UpdateSince(u)}
    BY DEF CompareAndDowngradeSince, Break, Continue, Panic
<1>2. CASE t = s
    BY <1>1, <1>2 DEF KeepsLog
<1>3. CASE old.opaque = x /\ t \in {u, UpdateSince(u)}
    <2>1. \A k \in DOMAIN s.critical : cs[k] = IF k = c THEN e ELSE s.critical[k]
        BY DEF Insert
    <2>2. e.opaque = n
        OBVIOUS
    <2> HIDE DEF cs, t, e
    <2>3. Fields(u, s.seqno, s.since, s.upper, s.writers, s.leased, cs, s.batches)
        BY SetCritical
    <2> HIDE DEF u
    <2>4. KeepsAll(u, UpdateSince(u))
        BY <2>3, ShapeOf, UpdateSinceEffect
    <2>5. KeepsLog(s, t) /\ t.critical = cs
        BY <1>3, <2>3, <2>4 DEF KeepsAll, KeepsLog, Fields
    <2>6. /\ KeepsLog(s, t) /\ ~IsTombstone(s)
          /\ \A k \in DOMAIN s.critical :
                \/ t.critical[k] = s.critical[k]
                \/ /\ k = c /\ s.critical[k].opaque = x
                   /\ t.critical[k].opaque = n
        BY <1>1, <1>3, <2>1, <2>2, <2>5
    <2> QED BY <2>6 DEF t
<1> QED BY <1>1, <1>2, <1>3

LEMMA CompareAndAppendEffect ==
    ASSUME NEW s, Shape(s), NEW w, NEW b \in HollowBatch,
           CompareAndAppend(s, w, b).flow = "Continue"
    PROVE  LET t == CompareAndAppend(s, w, b).st IN
           /\ b.lower = s.upper /\ b.lower <= b.upper
           /\ t.upper = b.upper
           /\ t.batches = IF b.lower = b.upper THEN s.batches
                          ELSE s.batches \cup {b}
           /\ t.critical = s.critical
<1> DEFINE p == PushBatch(s, b)
           ws == Insert(s.writers, w, [token |-> b.token, upper |-> b.upper])
           t == [p EXCEPT !.writers = ws]
           bs == IF b.lower = b.upper THEN s.batches ELSE s.batches \cup {b}
<1>1. /\ b.lower <= b.upper /\ s.upper = b.lower
      /\ CompareAndAppend(s, w, b).st = t
    BY TopAssumption
    DEF CompareAndAppend, Break, Continue, Panic, HollowBatch, Frontier
<1>2. Fields(p, s.seqno, s.since, b.upper, s.writers, s.leased, s.critical, bs)
    <2>1. CASE b.upper = b.lower
        BY <1>1, <2>1 DEF PushBatch, Shape
    <2>2. CASE b.upper # b.lower
        <3> DEFINE q == [s EXCEPT !.batches = bs]
        <3>1. p = [q EXCEPT !.upper = b.upper]
            BY <2>2 DEF PushBatch
        <3> HIDE DEF bs
        <3>2. Fields(q, s.seqno, s.since, s.upper, s.writers, s.leased,
                     s.critical, bs)
            BY SetBatches
        <3> HIDE DEF q, p
        <3>3. Fields(p, q.seqno, q.since, b.upper, q.writers, q.leased,
                     q.critical, q.batches)
            BY <3>1, <3>2, ShapeOf, SetUpper
        <3> QED BY <3>2, <3>3 DEF Fields
    <2> QED BY <2>1, <2>2
<1> HIDE DEF p, ws, bs
<1>3. Fields(t, p.seqno, p.since, p.upper, ws, p.leased, p.critical, p.batches)
    BY <1>2, ShapeOf, SetWriters
<1> HIDE DEF t
<1>4. t.upper = b.upper /\ t.batches = bs /\ t.critical = s.critical
    BY <1>2, <1>3 DEF Fields
<1> QED BY <1>1, <1>4 DEF bs

LEMMA BecomeTombstoneEffect ==
    ASSUME NEW s, Shape(s), IsFiniteSet(s.batches),
           BecomeTombstoneAndShrink(s).flow = "Continue"
    PROVE  LET t == BecomeTombstoneAndShrink(s).st IN
           /\ t.upper = s.upper /\ t.since = Top /\ IsFiniteSet(t.batches)
           /\ DOMAIN t.critical = {} /\ ~IsFinalized(s)
<1> DEFINE a == [s EXCEPT !.writers = NoEntries]
           b == [a EXCEPT !.leased = NoEntries]
           s1 == [b EXCEPT !.critical = NoEntries]
           t == BecomeTombstoneAndShrink(s).st
<1> DEFINE full == {k \in s.batches : ~k.empty}
<1>1. /\ s.since = Top
      /\ \/ t = s1
         \/ \E bs : IsFiniteSet(bs) /\ t = [s1 EXCEPT !.batches = bs]
    <2>1. s.since = Top /\ s.upper = Top
        BY DEF BecomeTombstoneAndShrink, Panic
    <2>2. CASE full # {}
        <3> DEFINE first == CHOOSE k \in full : \A o \in full : k.lower <= o.lower
                   e == [first EXCEPT !.empty = TRUE, !.inline = FALSE]
                   bs == (s.batches \ {first}) \cup {e}
        <3>1. t = [s1 EXCEPT !.batches = bs]
            BY <2>1, <2>2 DEF BecomeTombstoneAndShrink, Continue
        <3>2. IsFiniteSet(bs)
            BY FS_RemoveElement, FS_AddElement
        <3> HIDE DEF bs
        <3> QED BY <2>1, <3>1, <3>2
    <2>3. CASE full = {}
        <3>1. t = s1 \/ t = [s1 EXCEPT !.batches = {TombstoneBatch}]
            BY <2>1, <2>3 DEF BecomeTombstoneAndShrink, Continue, Break
        <3>2. IsFiniteSet({TombstoneBatch})
            BY FS_Singleton
        <3> QED BY <2>1, <3>1, <3>2
    <2> QED BY <2>2, <2>3
<1>2. Fields(a, s.seqno, s.since, s.upper, NoEntries, s.leased, s.critical,
             s.batches)
    BY SetWriters
<1>3. ~IsFinalized(s)
    <2>1. SUFFICES ASSUME IsFinalized(s) PROVE FALSE
        OBVIOUS
    <2>2. IsTombstone(s) /\ full = {} /\ Cardinality(s.batches) <= 1
        BY <2>1 DEF IsFinalized, IsSingleEmptyBatch
    <2>3. ~(Cardinality(s.batches) > 1)
        BY <2>2, FS_CardinalityType
    <2>4. s.upper = Top /\ s.since = Top
        BY <2>2 DEF IsTombstone
    <2> QED BY <2>2, <2>3, <2>4 DEF BecomeTombstoneAndShrink, Break
<1> HIDE DEF t, a
<1>4. Fields(b, a.seqno, a.since, a.upper, a.writers, NoEntries, a.critical,
             a.batches)
    BY <1>2, ShapeOf, SetLeased
<1> HIDE DEF b
<1>5. Fields(s1, b.seqno, b.since, b.upper, b.writers, b.leased, NoEntries,
             b.batches)
    BY <1>4, ShapeOf, SetCritical
<1> HIDE DEF s1
<1>6. \A bs : Fields([s1 EXCEPT !.batches = bs], s1.seqno, s1.since, s1.upper,
                     s1.writers, s1.leased, s1.critical, bs)
    BY <1>5, ShapeOf, SetBatches
<1>7. /\ s1.upper = s.upper /\ s1.since = s.since /\ s1.critical = NoEntries
      /\ s1.batches = s.batches
    BY <1>2, <1>4, <1>5 DEF Fields
<1>8. /\ t.upper = s.upper /\ t.since = Top /\ DOMAIN t.critical = {}
      /\ IsFiniteSet(t.batches)
    BY <1>1, <1>6, <1>7, MapEmpty DEF Fields
<1> QED BY <1>3, <1>8 DEF t

LEMMA OnlyFinalizersTouchTombstones ==
    ASSUME NEW h, NEW c \in Commands, c.op \notin {"none", "become_tombstone"},
           NEW s, WorkFn(h, c, s).flow = "Continue"
    PROVE  ~IsTombstone(s)
<1>1. SUFFICES ASSUME IsTombstone(s) PROVE WorkFn(h, c, s).flow = "Break"
    BY <1>1
<1>2. \A r : Break(r).flow = "Break"
    BY DEF Break
<1>3. CASE c.op = "compare_and_append"
    BY <1>1, <1>2, <1>3 DEF WorkFn, CompareAndAppend
<1>4. CASE c.op = "expire_writer"
    BY <1>1, <1>2, <1>4 DEF WorkFn, ExpireWriter
<1>5. CASE c.op = "register_leased_reader"
    BY <1>1, <1>2, <1>5 DEF WorkFn, RegisterLeasedReader
<1>6. CASE c.op = "downgrade_since"
    BY <1>1, <1>2, <1>6 DEF WorkFn, DowngradeSince
<1>7. CASE c.op = "expire_leased_reader"
    BY <1>1, <1>2, <1>7 DEF WorkFn, ExpireLeasedReader
<1>8. CASE c.op = "register_critical_reader"
    BY <1>1, <1>2, <1>8 DEF WorkFn, RegisterCriticalReader
<1>9. CASE c.op = "compare_and_downgrade_since"
    BY <1>1, <1>2, <1>9 DEF WorkFn, CompareAndDowngradeSince
<1> QED BY <1>3, <1>4, <1>5, <1>6, <1>7, <1>8, <1>9, CommandFields

LEMMA KeepsAllEffect ==
    ASSUME NEW h, NEW c, NEW s, NEW t, KeepsAll(s, t), ~IsAppend(c), ~IsFence(c)
    PROVE  Extends(c, s, t) /\ Fences(h, c, s, t)
BY DEF KeepsAll, KeepsLog, Extends, Fences

(* Every command, evaluated on any version of the right shape.             *)
LEMMA WorkFnEffect ==
    ASSUME NEW h, NEW c \in Commands, c.op # "none",
           NEW s, Shape(s), IsFiniteSet(s.batches),
           WorkFn(h, c, s).flow = "Continue"
    PROVE  /\ Extends(c, s, WorkFn(h, c, s).st)
           /\ Fences(h, c, s, WorkFn(h, c, s).st)
           /\ ~IsFinalized(s)
<1> DEFINE t == WorkFn(h, c, s).st
<1>1. c.op # "become_tombstone" => ~IsTombstone(s) /\ ~IsFinalized(s)
    BY OnlyFinalizersTouchTombstones DEF IsFinalized
<1>2. CASE c.op = "compare_and_append"
    <2>1. WorkFn(h, c, s) = CompareAndAppend(s, h, c.b) /\ c.b \in HollowBatch
        BY <1>2, CommandFields DEF WorkFn
    <2>2. /\ c.b.lower = s.upper /\ c.b.lower <= c.b.upper
          /\ t.upper = c.b.upper
          /\ t.batches = IF c.b.lower = c.b.upper THEN s.batches
                         ELSE s.batches \cup {c.b}
          /\ t.critical = s.critical
        BY <2>1, CompareAndAppendEffect
    <2> HIDE DEF t
    <2>3. Extends(c, s, t) /\ Fences(h, c, s, t)
        BY <1>2, <2>2 DEF Extends, Fences, IsAppend, IsFence
    <2> QED BY <1>1, <1>2, <2>3 DEF t
<1>3. CASE c.op = "compare_and_downgrade_since"
    <2>1. WorkFn(h, c, s) =
            CompareAndDowngradeSince(s, CriticalIdOf[h], c.expected, c.new, c.since)
        BY <1>3 DEF WorkFn
    <2>2. /\ KeepsLog(s, t) /\ ~IsTombstone(s)
          /\ \A k \in DOMAIN s.critical :
                \/ t.critical[k] = s.critical[k]
                \/ /\ k = CriticalIdOf[h] /\ s.critical[k].opaque = c.expected
                   /\ t.critical[k].opaque = c.new
        BY <2>1, CompareAndDowngradeSinceEffect
    <2> HIDE DEF t
    <2>3. Extends(c, s, t) /\ Fences(h, c, s, t)
        BY <1>3, <2>2 DEF Extends, Fences, IsAppend, IsFence, KeepsLog
    <2> QED BY <1>1, <1>3, <2>3 DEF t
<1>4. CASE c.op = "register_critical_reader"
    <2>1. WorkFn(h, c, s) =
            RegisterCriticalReader(s, CriticalIdOf[h], DefaultOpaque)
        BY <1>4 DEF WorkFn
    <2>2. /\ KeepsLog(s, t)
          /\ \A k \in DOMAIN s.critical : t.critical[k] = s.critical[k]
        BY <2>1, RegisterCriticalReaderEffect
    <2> HIDE DEF t
    <2>3. Extends(c, s, t) /\ Fences(h, c, s, t)
        BY <1>4, <2>2 DEF Extends, Fences, IsAppend, IsFence, KeepsLog
    <2> QED BY <1>1, <1>4, <2>3 DEF t
<1>5. CASE c.op = "become_tombstone"
    <2>1. WorkFn(h, c, s) = BecomeTombstoneAndShrink(s)
        BY <1>5 DEF WorkFn
    <2>2. /\ t.upper = s.upper /\ t.since = Top /\ IsFiniteSet(t.batches)
          /\ DOMAIN t.critical = {} /\ ~IsFinalized(s)
        BY <2>1, BecomeTombstoneEffect
    <2> HIDE DEF t
    <2>3. Extends(c, s, t) /\ Fences(h, c, s, t)
        BY <1>5, <2>2 DEF Extends, Fences, IsAppend, IsFence
    <2> QED BY <2>2, <2>3 DEF t
<1>6. CASE c.op \in {"expire_writer", "register_leased_reader",
                     "downgrade_since", "expire_leased_reader"}
    <2>1. KeepsAll(s, t)
        <3>1. CASE c.op = "expire_writer"
            BY <3>1, ExpireWriterEffect DEF WorkFn
        <3>2. CASE c.op = "register_leased_reader"
            BY <3>2, RegisterLeasedReaderEffect DEF WorkFn
        <3>3. CASE c.op = "downgrade_since"
            BY <3>3, DowngradeSinceEffect DEF WorkFn
        <3>4. CASE c.op = "expire_leased_reader"
            BY <3>4, ExpireLeasedReaderEffect DEF WorkFn
        <3> QED BY <1>6, <3>1, <3>2, <3>3, <3>4
    <2> HIDE DEF t
    <2>2. ~IsAppend(c) /\ ~IsFence(c)
        BY <1>6 DEF IsAppend, IsFence
    <2>3. Extends(c, s, t) /\ Fences(h, c, s, t)
        BY <2>1, <2>2, KeepsAllEffect
    <2> QED BY <1>1, <1>6, <2>3 DEF t
<1> QED BY <1>2, <1>3, <1>4, <1>5, <1>6, CommandFields

(* The same from the cached version to the proposal made from it.          *)
LEMMA ProposalEffect ==
    ASSUME NEW h, NEW c \in Commands, c.op # "none",
           NEW s, VersionOK(s), IsFiniteSet(s.batches), NEW R, NEW W,
           WorkFn(h, c, NextVersion(s)).flow = "Continue",
           VersionOK(WorkFn(h, c, NextVersion(s)).st)
    PROVE  LET t == ExpireAt(WorkFn(h, c, NextVersion(s)).st, R, W) IN
           Extends(c, s, t) /\ Fences(h, c, s, t) /\ ~IsFinalized(s)
<1> DEFINE n == NextVersion(s)
           u == WorkFn(h, c, n).st
           v == [u EXCEPT !.leased = Without(u.leased, R)]
           t == [v EXCEPT !.writers = Without(u.writers, W)]
<1>1. /\ Fields(n, s.seqno + 1, s.since, s.upper, s.writers, s.leased,
                s.critical, s.batches)
      /\ IsTombstone(n) <=> IsTombstone(s)
    BY NextVersionOK
<1>2. Shape(u)
    BY VersionShape DEF VersionOK
<1>3. ExpireAt(u, R, W) = t
    BY DEF ExpireAt
<1>4. Shape(n) /\ n.batches = s.batches
    BY <1>1, ShapeOf DEF Fields
<1>5. Extends(c, n, u) /\ Fences(h, c, n, u) /\ ~IsFinalized(n)
    BY <1>4, WorkFnEffect
<1> HIDE DEF n, u
<1>6. Fields(v, u.seqno, u.since, u.upper, u.writers, Without(u.leased, R),
             u.critical, u.batches)
    BY <1>2, SetLeased
<1> HIDE DEF v
<1>7. Fields(t, v.seqno, v.since, v.upper, Without(u.writers, W), v.leased,
             v.critical, v.batches)
    BY <1>6, ShapeOf, SetWriters
<1> HIDE DEF t
<1>8. /\ t.since = u.since /\ t.upper = u.upper /\ t.critical = u.critical
      /\ t.batches = u.batches
    BY <1>6, <1>7 DEF Fields
<1>9. n.upper = s.upper /\ n.critical = s.critical /\ n.batches = s.batches
    BY <1>1 DEF Fields
<1>10. Extends(c, s, t)
    BY <1>5, <1>8, <1>9 DEF Extends
<1>11. Fences(h, c, s, t)
    BY <1>1, <1>5, <1>8, <1>9 DEF Fences
<1>12. ~IsFinalized(s)
    BY <1>1, <1>5, <1>9 DEF IsFinalized, IsSingleEmptyBatch
<1> QED BY <1>3, <1>10, <1>11, <1>12 DEF t, u, n

-----------------------------------------------------------------------------
(* What a step does to the versions, the requests and the batches.         *)

(* Nothing is committed; the requests Q and the batches B are new.         *)
Turns(Q, B) ==
    /\ cur' = cur /\ log' = log
    /\ Requests' \subseteq Requests \cup Q
    /\ Played' \subseteq Played \cup B
    /\ Known' \subseteq Known

(* A request computed from a version in use.                               *)
Fresh(q) ==
    \E s \in Known : /\ q.st.seqno = s.seqno + 1
                     /\ Extends(q.cmd, s, q.st)
                     /\ ~IsFinalized(s)

Turn ==
    /\ calls <= calls'
    /\ \E Q, B : /\ Turns(Q, B)
                 /\ \A q \in Q : Fresh(q)
                 /\ \A b \in B : b.token = calls + 1 /\ calls' = calls + 1
                 /\ \A a, b \in B : a = b

(* A request is accepted.                                                  *)
Commits(q) ==
    /\ Accepted(q.st) /\ Commit(q.st, q.cmd)
    /\ Requests' \subseteq Requests
    /\ Played' \subseteq Played
    /\ Known' \subseteq Known \cup {q.st}
    /\ calls' = calls

LEMMA CallTurns ==
    ASSUME Inv, NEW h \in Handles, NEW k, NEW Q, NEW B,
           call' = [call EXCEPT ![h] = k],
           k.pc # "committed",
           k.pc = "sent" => [st |-> k.st, cmd |-> k.cmd] \in Q,
           IsAppend(k.cmd) => k.cmd.b \in Played \cup B,
           orphans' \subseteq Orphaned(h),
           UNCHANGED <<cur, log>>,
           \A p \in Procs : cache'[p] \in Known
    PROVE  Turns(Q, B)
<1>1. /\ DOMAIN call = Handles /\ IsCall(call[h])
    BY CallOf
<1>2. /\ call'[h] = k
      /\ \A g \in Handles : g # h => call'[g] = call[g]
    BY <1>1
<1>3. \A s \in Known' : s \in Known
    BY <1>2 DEF Known
<1>4. \A o \in orphans' : o \in orphans \/ /\ o = [st |-> call[h].st, cmd |-> call[h].cmd]
                                           /\ call[h].pc = "sent"
    BY DEF Orphaned, Cmd
<1>5. Requests' \subseteq Requests \cup Q
    <2>1. SUFFICES ASSUME NEW q \in Requests' PROVE q \in Requests \cup Q
        OBVIOUS
    <2>2. CASE q \in orphans'
        BY <1>4, <2>2 DEF Requests
    <2>3. CASE q \notin orphans'
        <3>1. PICK g \in Handles : /\ call'[g].pc = "sent"
                                   /\ q = [st |-> call'[g].st, cmd |-> call'[g].cmd]
            BY <2>3 DEF Requests
        <3> QED BY <1>2, <3>1 DEF Requests
    <2> QED BY <2>2, <2>3
<1>6. Played' \subseteq Played \cup B
    <2>1. SUFFICES ASSUME NEW b \in Played' PROVE b \in Played \cup B
        OBVIOUS
    <2>2. CASE \E g \in Handles : IsAppend(call'[g].cmd) /\ b = call'[g].cmd.b
        BY <1>2, <2>2 DEF Played
    <2>3. CASE \E o \in orphans' : IsAppend(o.cmd) /\ b = o.cmd.b
        BY <1>4, <2>3 DEF Played
    <2>4. CASE b \in {log'[i] : i \in DOMAIN log'}
        BY <2>4 DEF Played
    <2> QED BY <2>1, <2>2, <2>3, <2>4 DEF Played
<1> QED BY <1>3, <1>5, <1>6 DEF Turns

(* A call that goes on without a request, or ends.                         *)
Rests(h) ==
    \E k : /\ call' = [call EXCEPT ![h] = k]
           /\ k.pc \notin {"sent", "committed"}
           /\ k.cmd \in {call[h].cmd, NoCmd}

LEMMA CallRests ==
    ASSUME NEW h, NEW l, l \notin {"sent", "committed"},
           NEW c \in {call[h].cmd, NoCmd}, NEW s, NEW r, NEW i,
           call' = [call EXCEPT ![h] = Call(l, c, s, r, i)]
    PROVE  Rests(h)
<1>1. PICK k : k = Call(l, c, s, r, i)
    OBVIOUS
<1>2. k.pc = l /\ k.cmd = c
    BY <1>1, CallFields
<1> QED BY <1>1, <1>2 DEF Rests

LEMMA GoToRests ==
    ASSUME Inv, NEW h \in Handles, NEW l, l \notin {"sent", "committed"}, GoTo(h, l)
    PROVE  Rests(h)
<1>1. IsCall(call[h])
    BY CallOf
<1>2. call' = [call EXCEPT ![h] = Call(l, call[h].cmd, call[h].st, call[h].ret,
                                       call[h].indet)]
    BY <1>1, GoToCall DEF GoTo
<1> QED BY <1>2, CallRests

LEMMA RetryRests ==
    ASSUME NEW h \in Handles, NEW i, Retry(h, i)
    PROVE  Rests(h)
BY CallRests DEF Retry, Cmd

LEMMA DoneRests ==
    ASSUME NEW h \in Handles, Done(h)
    PROVE  Rests(h)
BY CallRests DEF Done, Idle

LEMMA ReturnsRests ==
    ASSUME Inv, NEW h \in Handles, NEW r, NEW c, Returns(h, r, c)
    PROVE  Rests(h)
<1>1. CASE ReturnAppendBreak(h, r)
    <2>1. CASE call' = [call EXCEPT ![h] = Call("upper_mismatch", Cmd(h),
                                     Cached(h), NoRet, call[h].indet)]
        BY <2>1, CallRests DEF Cmd
    <2> QED BY <1>1, <2>1, DoneRests, GoToRests DEF ReturnAppendBreak
<1> QED BY <1>1, DoneRests, RetryRests
        DEF Returns, ReturnAppended, ReturnRegistered, ReturnDowngraded,
            ReturnExpired, ReturnOpened, ReturnCompareAndDowngrade,
            ReturnTombstoneStep

LEMMA RestsTurns ==
    ASSUME Inv, NEW h \in Handles, Rests(h), orphans' \subseteq Orphaned(h),
           UNCHANGED <<cur, log, calls>>, \A p \in Procs : cache'[p] \in Known
    PROVE  Turn
<1>1. PICK k : /\ call' = [call EXCEPT ![h] = k]
               /\ k.pc \notin {"sent", "committed"}
               /\ k.cmd \in {call[h].cmd, NoCmd}
    BY DEF Rests
<1>2. IsAppend(k.cmd) => k.cmd.b \in Played
    BY <1>1 DEF Played, IsAppend, NoCmd
<1>3. Turns({}, {})
    BY <1>1, <1>2, CallTurns
<1>4. calls \in Nat
    BY DEF Inv, TypeOK
<1> QED BY <1>3, <1>4 DEF Turn

LEMMA StillTurns ==
    ASSUME Inv, UNCHANGED <<cur, log, calls, call, orphans>>,
           \A p \in Procs : cache'[p] \in Known
    PROVE  Turn
<1>1. Turns({}, {})
    BY DEF Turns, Requests, Played, Known
<1>2. calls \in Nat
    BY DEF Inv, TypeOK
<1> QED BY <1>1, <1>2 DEF Turn

LEMMA StartTurns ==
    ASSUME Inv, NEW h \in Handles, NEW c, Start(h, c),
           \/ ~IsAppend(c) /\ calls' \in {calls, calls + 1}
           \/ c.b.token = calls + 1 /\ calls' = calls + 1
    PROVE  Turn
<1> DEFINE k == Call("ready", c, InitialState, NoRet, FALSE)
           B == IF IsAppend(c) THEN {c.b} ELSE {}
<1>1. k.pc = "ready" /\ k.cmd = c
    BY DEF Call
<1>2. call' = [call EXCEPT ![h] = k]
    BY DEF Start
<1>3. /\ UNCHANGED <<cur, log>> /\ orphans' \subseteq Orphaned(h)
      /\ \A p \in Procs : cache'[p] \in Known
    BY DEF Start, Orphaned, Known
<1> HIDE DEF k
<1>4. Turns({}, B)
    BY <1>1, <1>2, <1>3, CallTurns
<1>5. calls \in Nat
    BY DEF Inv, TypeOK
<1> QED BY <1>4, <1>5 DEF Turn

LEMMA BeginTurns ==
    ASSUME Inv, Begin
    PROVE  Turn
<1>1. /\ Writers \subseteq Handles /\ LeasedReaders \subseteq Handles
      /\ SinceHandles \subseteq Handles /\ Finalizers \subseteq Handles
    BY DEF Handles
<1>2. ASSUME NEW h \in Handles, NEW c, StartNew(h, c),
             ~IsAppend(c) \/ c.b.token = calls + 1
      PROVE  Turn
    BY <1>2, StartTurns DEF StartNew
<1>3. ASSUME NEW w \in Writers, BeginAppend(w) PROVE Turn
    <2>1. PICK i \in AppendInputs, x \in BOOLEAN :
            StartNew(w, [op |-> "compare_and_append",
                         b |-> BatchOf(calls + 1, i, x)])
        BY <1>3 DEF BeginAppend
    <2> DEFINE c == [op |-> "compare_and_append", b |-> BatchOf(calls + 1, i, x)]
    <2>2. c.b.token = calls + 1
        BY DEF BatchOf
    <2> QED BY <1>1, <1>2, <2>1, <2>2
<1> QED BY <1>1, <1>2, <1>3
        DEF Begin, BeginExpireWriter, BeginRegister, BeginDowngrade,
            BeginExpireReader, BeginOpenCritical, BeginDowngradeCritical,
            BeginFinalize, IsAppend, Downgrade

(* The finite histories that the invariant of the log promises.            *)
LEMMA AttemptTurns ==
    ASSUME Inv, \A s \in Known : IsFiniteSet(s.batches),
           NEW h \in Handles, Attempt(h)
    PROVE  Turn
<1> DEFINE s == Cached(h)
           c == call[h].cmd
           res == WorkRes(h)
<1>1. /\ s \in Known /\ VersionOK(s) /\ c \in Commands /\ c.op # "none"
      /\ HandleFits(h, c) /\ call[h].pc = "ready"
    BY CallOf DEF Attempt, Cmd
<1>2. /\ UNCHANGED <<cur, log, calls>> /\ orphans' = orphans
      /\ \A p \in Procs : cache'[p] \in Known
    BY DEF Attempt, Known
<1>3. orphans' \subseteq Orphaned(h)
    BY <1>2 DEF Orphaned
<1>4. CASE Proposes(h)
    <2>1. PICK R, W :
            call' = [call EXCEPT ![h] = Call("sent", Cmd(h), ExpireAt(res.st, R, W),
                                             res.ret, call[h].indet)]
        BY <1>4 DEF Proposes
    <2> DEFINE t == ExpireAt(res.st, R, W)
               k == Call("sent", c, t, res.ret, call[h].indet)
               q == [st |-> t, cmd |-> c]
    <2>2. res.flow = "Continue" /\ res = WorkFn(h, c, NextVersion(s))
        BY <1>4 DEF Proposes, WorkRes, Cmd
    <2>3. Advances(NextVersion(s), res.st)
        BY <1>1, <2>2, NextVersionOK, WorkFnAdvances
    <2>4. VersionOK(res.st)
        BY <2>3 DEF Advances
    <2>5. Extends(c, s, t) /\ ~IsFinalized(s)
        BY <1>1, <2>2, <2>4, ProposalEffect
    <2>6. t.seqno = s.seqno + 1
        BY <1>1, <2>3, ExpireAtAdvances, AdvancesSucceeds
    <2>7. call' = [call EXCEPT ![h] = k]
        BY <2>1 DEF Cmd
    <2> HIDE DEF t, res, s
    <2>8. k.pc = "sent" /\ k.cmd = c /\ k.st = t
        BY CallFields
    <2>9. IsAppend(c) => c.b \in Played
        BY DEF Played
    <2> HIDE DEF c, k
    <2>10. Turns({q}, {})
        BY <1>2, <1>3, <2>7, <2>8, <2>9, CallTurns
    <2>11. Fresh(q)
        BY <1>1, <2>5, <2>6 DEF Fresh
    <2>12. calls \in Nat
        BY DEF Inv, TypeOK
    <2> QED BY <1>2, <2>10, <2>11, <2>12 DEF Turn
<1>5. CASE Returns(h, res.ret, FALSE)
    BY <1>2, <1>3, <1>5, ReturnsRests, RestsTurns
<1>6. CASE Panics(h)
    BY <1>2, <1>3, <1>6, GoToRests, RestsTurns DEF Panics
<1> QED BY <1>4, <1>5, <1>6 DEF Attempt

LEMMA CommitTurns ==
    ASSUME Inv, NEW q \in Requests, Accepted(q.st), Commit(q.st, q.cmd),
           UNCHANGED <<cache, calls>>, orphans' \subseteq orphans,
           \A g \in Handles :
             /\ call'[g].cmd = call[g].cmd /\ call'[g].st = call[g].st
             /\ \/ call'[g].pc = call[g].pc
                \/ call'[g].pc = "committed" /\ call'[g].st = q.st
    PROVE  Commits(q)
<1>1. Requests' \subseteq Requests
    <2>1. SUFFICES ASSUME NEW p \in Requests' PROVE p \in Requests
        OBVIOUS
    <2>2. CASE p \in orphans'
        BY <2>2 DEF Requests
    <2>3. CASE p \notin orphans'
        <3>1. PICK g \in Handles : /\ call'[g].pc = "sent"
                                   /\ p = [st |-> call'[g].st, cmd |-> call'[g].cmd]
            BY <2>3 DEF Requests
        <3> QED BY <3>1 DEF Requests
    <2> QED BY <2>2, <2>3
<1>2. IsAppend(q.cmd) => q.cmd.b \in Played
    BY DEF Requests, Played
<1>3. \A b : (\E i \in DOMAIN log' : b = log'[i])
              => b \in Played
    <2>1. log \in Seq(HollowBatch)
        BY DEF Inv, TypeOK
    <2>2. CASE IsAppend(q.cmd)
        <3>1. log' = Append(log, q.cmd.b)
            BY <2>2 DEF Commit, IsAppend
        <3>2. \A i \in DOMAIN log' : log'[i] = q.cmd.b \/ /\ i \in DOMAIN log
                                                          /\ log'[i] = log[i]
            BY <2>1, <3>1
        <3> QED BY <1>2, <2>2, <3>2 DEF Played
    <2>3. CASE ~IsAppend(q.cmd)
        BY <2>3 DEF Commit, IsAppend, Played
    <2> QED BY <2>2, <2>3
<1>4. Played' \subseteq Played
    <2>1. SUFFICES ASSUME NEW b \in Played' PROVE b \in Played
        OBVIOUS
    <2>2. CASE \E g \in Handles : IsAppend(call'[g].cmd) /\ b = call'[g].cmd.b
        BY <2>2 DEF Played
    <2>3. CASE \E o \in orphans' : IsAppend(o.cmd) /\ b = o.cmd.b
        BY <2>3 DEF Played
    <2>4. CASE \E i \in DOMAIN log' : b = log'[i]
        BY <1>3, <2>4
    <2> QED BY <2>1, <2>2, <2>3, <2>4 DEF Played
<1>5. Known' \subseteq Known \cup {q.st}
    <2>1. cur' = q.st
        BY DEF Commit
    <2>2. \A g \in Handles : call'[g].pc = "committed" =>
                               call'[g].st \in Known \cup {q.st}
        BY DEF Known
    <2> QED BY <2>1, <2>2 DEF Known
<1> QED BY <1>1, <1>4, <1>5 DEF Commits

(* Every step is a turn or the commit of a request in flight.              *)
LEMMA LogSteps ==
    ASSUME Inv, \A s \in Known : IsFiniteSet(s.batches), [Next]_vars
    PROVE  Turn \/ \E q \in Requests : Commits(q)
<1>1. Parts /\ \A h : orphans \subseteq Orphaned(h)
    BY InvParts DEF Orphaned
<1>2. \A p \in Procs : cache[p] \in Known
    BY DEF Known
<1>3. ASSUME NEW h \in Handles, NEW s \in Known,
             cache' = [cache EXCEPT ![ProcOf[h]] = s]
      PROVE  \A p \in Procs : cache'[p] \in Known
    BY <1>3, CallOf, CacheStep
<1>4. ASSUME NEW h \in Handles, CasCommit(h)
      PROVE  \E q \in Requests : Commits(q)
    <2> DEFINE q == [st |-> call[h].st, cmd |-> call[h].cmd]
    <2>1. q \in Requests /\ q.st = call[h].st /\ q.cmd = call[h].cmd
        BY <1>4 DEF CasCommit, Requests
    <2>2. call' = [call EXCEPT ![h] = Call("committed", call[h].cmd, call[h].st,
                                           call[h].ret, call[h].indet)]
        BY <1>4, CallOf, GoToCall DEF CasCommit, GoTo
    <2>3. \A g \in Handles :
             /\ call'[g].cmd = call[g].cmd /\ call'[g].st = call[g].st
             /\ \/ call'[g].pc = call[g].pc
                \/ call'[g].pc = "committed" /\ call'[g].st = call[h].st
        BY <1>1, <2>2, CallFields DEF Parts
    <2>4. /\ Accepted(q.st) /\ Commit(q.st, q.cmd)
          /\ UNCHANGED <<cache, calls>> /\ orphans' \subseteq orphans
        BY <1>4, <2>1 DEF CasCommit, Cmd, Alive
    <2> HIDE DEF q
    <2> QED BY <2>1, <2>3, <2>4, CommitTurns
<1>5. ASSUME NEW o \in orphans, OrphanCommit(o)
      PROVE  \E q \in Requests : Commits(q)
    <2>1. /\ o \in Requests /\ Accepted(o.st) /\ Commit(o.st, o.cmd)
          /\ UNCHANGED <<cache, calls>> /\ orphans' \subseteq orphans
          /\ call' = call
        BY <1>5 DEF OrphanCommit, Requests, Alive
    <2> QED BY <2>1, CommitTurns
<1>6. CASE Begin
    BY <1>6, BeginTurns
<1>7. ASSUME NEW h \in Handles, Step(h) \/ Indeterminate(h)
      PROVE  Turn \/ \E q \in Requests : Commits(q)
    <2>1. CASE CasMismatch(h)
        <3>1. /\ GoTo(h, "mismatch") /\ UNCHANGED <<cur, log, calls>>
              /\ orphans' = orphans /\ cache' = cache
            BY <2>1 DEF CasMismatch
        <3> QED BY <1>1, <1>2, <3>1, GoToRests, RestsTurns
    <2>2. CASE DeliverCommitted(h)
        <3>1. /\ Returns(h, call[h].ret, TRUE) /\ UNCHANGED <<cur, log, calls>>
              /\ orphans' = orphans
              /\ cache' = [cache EXCEPT ![ProcOf[h]] = Newer(@, call[h].st)]
            BY <2>2 DEF DeliverCommitted
        <3>2. Newer(cache[ProcOf[h]], call[h].st) \in Known
            BY <2>2, CallOf DEF Newer, Known, DeliverCommitted
        <3> QED BY <1>1, <1>3, <3>1, <3>2, ReturnsRests, RestsTurns
    <2>3. CASE DeliverMismatch(h)
        <3>1. /\ Retry(h, call[h].indet) /\ UNCHANGED <<cur, log, calls>>
              /\ orphans' = orphans
              /\ cache' = [cache EXCEPT ![ProcOf[h]] =
                             Fetched(@, call[h].st.seqno)]
            BY <2>3 DEF DeliverMismatch
        <3>2. Fetched(cache[ProcOf[h]], call[h].st.seqno) \in Known
            BY CallOf, FetchedKnown
        <3> QED BY <1>1, <1>3, <3>1, <3>2, RetryRests, RestsTurns
    <2>4. CASE Indeterminate(h)
        <3>1. /\ Retry(h, TRUE) /\ UNCHANGED <<cur, log, calls>>
              /\ orphans' = Orphaned(h) /\ cache' = cache
            BY <2>4 DEF Indeterminate
        <3> QED BY <1>2, <3>1, RetryRests, RestsTurns
    <2> QED BY <1>4, <1>7, <2>1, <2>2, <2>3, <2>4, AttemptTurns DEF Step
<1>8. ASSUME NEW w \in Writers, RecheckUpper(w) \/ Cancel(w)
      PROVE  Turn
    <2>1. w \in Handles
        BY DEF Handles
    <2>2. CASE RecheckUpper(w)
        <3>1. /\ Done(w) \/ Retry(w, FALSE)
              /\ UNCHANGED <<cur, log, calls>> /\ orphans' = orphans
              /\ cache' = [cache EXCEPT ![ProcOf[w]] =
                             Fetched(@, call[w].st.seqno)]
            BY <2>2 DEF RecheckUpper
        <3>2. Fetched(cache[ProcOf[w]], call[w].st.seqno) \in Known
            BY <2>1, CallOf, FetchedKnown
        <3>3. Rests(w)
            BY <2>1, <3>1, DoneRests, RetryRests
        <3> QED BY <1>1, <1>3, <2>1, <3>1, <3>2, <3>3, RestsTurns
    <2>3. CASE Cancel(w)
        <3>1. /\ Done(w) /\ UNCHANGED <<cur, log, calls>>
              /\ orphans' = Orphaned(w) /\ cache' = cache
            BY <2>3 DEF Cancel
        <3> QED BY <1>2, <2>1, <3>1, DoneRests, RestsTurns
    <2> QED BY <1>8, <2>2, <2>3
<1>9. ASSUME NEW h \in SinceHandles, BeginFence(h) \/ Fenced(h)
      PROVE  Turn
    <2>1. h \in Handles
        BY DEF Handles
    <2>2. CASE BeginFence(h)
        <3> DEFINE c == Downgrade(h, hopaque[h], EpochOf[h], hsince[h])
        <3>1. ~IsAppend(c) /\ Start(h, c) /\ calls' = calls
            BY <2>2 DEF BeginFence, IsAppend, Downgrade
        <3> HIDE DEF c
        <3> QED BY <2>1, <3>1, StartTurns
    <2>3. CASE Fenced(h)
        BY <1>2, <2>3, StillTurns DEF Fenced
    <2> QED BY <1>9, <2>2, <2>3
<1>10. ASSUME NEW p \in Procs, Refresh(p)
       PROVE  Turn
    <2>1. /\ UNCHANGED <<cur, log, calls, call, orphans>>
          /\ cache' = [cache EXCEPT ![p] = cur] /\ cur \in Known
        BY <1>10 DEF Refresh, Known
    <2> QED BY <2>1, CacheStep, StillTurns
<1>11. CASE UNCHANGED vars
    BY <1>2, <1>11, StillTurns DEF vars
<1> QED BY <1>5, <1>6, <1>7, <1>8, <1>9, <1>10, <1>11 DEF Next

-----------------------------------------------------------------------------
(* The invariant of the log is kept.                                       *)

LEMMA LogTypes ==
    ASSUME Inv
    PROVE  /\ log \in Seq(HollowBatch) /\ calls \in Nat
           /\ Played \subseteq HollowBatch /\ Batches \subseteq HollowBatch
           /\ cur.upper \in Frontier /\ cur.seqno \in Nat
           /\ \A q \in Requests : ProposalOK(q.st) /\ q.cmd \in Commands
           /\ \A s \in Known : VersionOK(s) /\ s.upper \in Frontier
           /\ \A b \in HollowBatch : /\ b.token \in Nat /\ b.lower \in Frontier
                                     /\ b.upper \in Frontier
           /\ \A x \in Frontier : x \in Nat /\ x <= Top
<1>1. Parts
    BY InvParts
<1>2. log \in Seq(HollowBatch) /\ calls \in Nat
    BY <1>1 DEF Parts, BookkeepingOK
<1>3. \A c \in Commands : IsAppend(c) => c.b \in HollowBatch
    BY CommandFields DEF IsAppend
<1>4. Played \subseteq HollowBatch /\ Batches \subseteq HollowBatch
    BY <1>1, <1>2, <1>3 DEF Parts, Played, Batches, CallOK, IsCall, OrphanOK
<1>5. \A q \in Requests : ProposalOK(q.st) /\ q.cmd \in Commands
    BY <1>1 DEF Parts, Requests, CallOK, IsCall, OrphanOK
<1>6. \A s \in Known : VersionOK(s) /\ s.upper \in Frontier
    BY <1>1 DEF Parts, VersionOK, IsShardState
<1>7. cur.upper \in Frontier /\ cur.seqno \in Nat
    BY <1>1 DEF Parts, IsShardState
<1>8. \A b \in HollowBatch : /\ b.token \in Nat /\ b.lower \in Frontier
                             /\ b.upper \in Frontier
    BY DEF HollowBatch
<1>9. \A x \in Frontier : x \in Nat /\ x <= Top
    BY TopAssumption DEF Frontier
<1> QED BY <1>2, <1>4, <1>5, <1>6, <1>7, <1>8, <1>9

LEMMA TurnKeepsLog ==
    ASSUME Inv, LogInv, Turn, calls' \in Nat
    PROVE  /\ TokensOK' /\ RequestsExtend' /\ Tiles'
           /\ \A s \in Known' : Covers(s)' /\ (IsFinalized(s) => s = cur')
<1>1. PICK Q, B : /\ Turns(Q, B)
                  /\ \A q \in Q : Fresh(q)
                  /\ \A b \in B : b.token = calls + 1 /\ calls' = calls + 1
                  /\ \A a, b \in B : a = b
    BY DEF Turn
<1>2. /\ cur' = cur /\ log' = log /\ Requests' \subseteq Requests \cup Q
      /\ Played' \subseteq Played \cup B /\ Known' \subseteq Known
      /\ calls <= calls'
    BY <1>1 DEF Turns, Turn
<1>3. /\ calls \in Nat /\ \A b \in Played : b.token \in Nat /\ b.token <= calls
    BY LogTypes DEF LogInv, TokensOK
<1>4. TokensOK'
    <2>1. \A b \in Played' : b.token <= calls'
        BY <1>1, <1>2, <1>3
    <2>2. \A a, b \in Played' : a.token = b.token => a = b
        BY <1>1, <1>2, <1>3 DEF LogInv, TokensOK
    <2> QED BY <2>1, <2>2 DEF TokensOK
<1>5. RequestsExtend'
    <2>1. SUFFICES ASSUME NEW q \in Requests', Accepted(q.st)
                   PROVE  Extends(q.cmd, cur, q.st) /\ ~IsFinalized(cur)
        BY <1>2 DEF RequestsExtend, Accepted
    <2>2. CASE q \in Requests
        BY <2>1, <2>2 DEF LogInv, RequestsExtend
    <2>3. CASE q \in Q
        <3>1. PICK s \in Known : /\ q.st.seqno = s.seqno + 1
                                 /\ Extends(q.cmd, s, q.st)
                                 /\ ~IsFinalized(s)
            BY <1>1, <2>3 DEF Fresh
        <3>2. s.seqno \in Nat /\ cur.seqno \in Nat
            BY <3>1, LogTypes DEF VersionOK, IsShardState
        <3>3. s.seqno = cur.seqno
            BY <2>1, <3>1, <3>2 DEF Accepted
        <3>4. s = cur
            BY <3>3 DEF Inv, OneHistory, Known
        <3> QED BY <3>1, <3>4
    <2> QED BY <1>2, <2>1, <2>2, <2>3
<1>6. Tiles'
    BY <1>2 DEF LogInv, Tiles
<1>7. \A s \in Known' : Covers(s)' /\ (IsFinalized(s) => s = cur')
    <2>1. Batches' = Batches
        BY <1>2 DEF Batches
    <2> QED BY <1>2, <2>1 DEF LogInv, Covers
<1> QED BY <1>4, <1>5, <1>6, <1>7

(* What the accepted request is.                                           *)
LEMMA AcceptedRequest ==
    ASSUME Inv, LogInv, NEW q \in Requests, Accepted(q.st)
    PROVE  /\ Extends(q.cmd, cur, q.st) /\ ~IsFinalized(cur)
           /\ q.st.seqno = cur.seqno + 1 /\ VersionOK(q.st)
           /\ Succeeds(cur, q.st)
           /\ IsAppend(q.cmd) => q.cmd.b \in HollowBatch
BY LogTypes, CommandFields
DEF LogInv, RequestsExtend, Accepted, ProposalOK, IsAppend

LEMMA CommitKeepsTiles ==
    ASSUME Inv, LogInv, NEW q \in Requests, Commits(q)
    PROVE  Tiles'
<1>1. /\ Extends(q.cmd, cur, q.st) /\ cur' = q.st
      /\ IsAppend(q.cmd) => q.cmd.b \in HollowBatch
    BY AcceptedRequest DEF Commits, Commit
<1>2. CASE ~IsAppend(q.cmd)
    <2>1. log' = log /\ cur'.upper = cur.upper
        BY <1>1, <1>2 DEF Commits, Commit, Extends, IsAppend
    <2> QED BY <2>1 DEF LogInv, Tiles
<1>3. CASE IsAppend(q.cmd)
    <2> DEFINE b == q.cmd.b
               n == Len(log)
    <2>1. /\ log' = Append(log, b) /\ b.lower = cur.upper /\ b.lower <= b.upper
          /\ cur'.upper = b.upper /\ b \in HollowBatch
        BY <1>1, <1>3 DEF Commits, Commit, Extends, IsAppend
    <2> HIDE DEF b
    <2>2. /\ log \in Seq(HollowBatch)
          /\ b.lower \in Nat /\ b.upper \in Nat /\ cur.upper \in Nat
        BY <2>1, LogTypes
    <2>3. /\ n \in Nat /\ DOMAIN log = 1 .. n /\ DOMAIN log' = 1 .. n + 1
          /\ Len(log') = n + 1 /\ log' # <<>>
          /\ \A i \in 1 .. n : log'[i] = log[i]
          /\ log'[n + 1] = b
          /\ log = <<>> <=> n = 0
        BY <2>1, <2>2
    <2>4. \A i \in 1 .. n : log[i].lower \in Nat /\ log[i].upper \in Nat
        BY <2>2, <2>3, LogTypes
    <2>5. /\ \A i \in 1 .. n :
               /\ log[i].lower = IF i = 1 THEN 0 ELSE log[i - 1].upper
               /\ log[i].lower <= log[i].upper
               /\ log[i].upper <= cur.upper
          /\ cur.upper = IF n = 0 THEN 0 ELSE log[n].upper
          /\ \A i, j \in 1 .. n : i < j => log[i].upper <= log[j].lower
        BY <2>3 DEF LogInv, Tiles
    <2> HIDE DEF n
    <2>6. ASSUME NEW i \in 1 .. n + 1
          PROVE  /\ log'[i].lower = IF i = 1 THEN 0 ELSE log'[i - 1].upper
                 /\ log'[i].lower <= log'[i].upper
                 /\ log'[i].upper <= cur'.upper
        <3>1. CASE i = n + 1
            BY <2>1, <2>2, <2>3, <2>5, <3>1
        <3>2. CASE i \in 1 .. n
            <4>1. i # 1 => i - 1 \in 1 .. n
                BY <2>3, <3>2
            <4> QED BY <2>1, <2>2, <2>3, <2>4, <2>5, <3>2, <4>1
        <3> QED BY <2>3, <3>1, <3>2
    <2>7. ASSUME NEW i \in 1 .. n + 1, NEW j \in 1 .. n + 1, i < j
          PROVE  log'[i].upper <= log'[j].lower
        <3>1. i \in 1 .. n
            BY <2>3, <2>7
        <3>2. CASE j = n + 1
            BY <2>1, <2>3, <2>5, <3>1, <3>2
        <3>3. CASE j \in 1 .. n
            BY <2>3, <2>5, <2>7, <3>1, <3>3
        <3> QED BY <2>3, <3>2, <3>3
    <2> QED BY <2>1, <2>3, <2>6, <2>7 DEF Tiles
<1> QED BY <1>2, <1>3

LEMMA CommitKeepsCovers ==
    ASSUME Inv, LogInv, NEW q \in Requests, Commits(q)
    PROVE  \A s \in Known' : Covers(s)' /\ (IsFinalized(s) => s = cur')
<1>1. /\ Extends(q.cmd, cur, q.st) /\ cur' = q.st /\ ~IsFinalized(cur)
      /\ VersionOK(q.st) /\ Forward(cur, q.st)
      /\ IsAppend(q.cmd) => q.cmd.b \in HollowBatch
      /\ Known' \subseteq Known \cup {q.st}
    BY AcceptedRequest DEF Commits, Commit, Succeeds
<1>2. cur \in Known /\ VersionOK(cur) /\ Covers(cur) /\ IsFiniteSet(cur.batches)
    BY LogTypes DEF Known, LogInv, Covers
<1>3. \A b \in Batches : /\ b.lower \in Nat /\ b.upper \in Nat
                         /\ b.upper <= cur.upper
    <2>1. SUFFICES ASSUME NEW b \in Batches
                   PROVE  b.lower \in Nat /\ b.upper \in Nat /\ b.upper <= cur.upper
        OBVIOUS
    <2>2. PICK i \in DOMAIN log : b = log[i]
        BY DEF Batches
    <2> QED BY <2>2, LogTypes DEF LogInv, Tiles
<1>4. \A s \in Known : s.upper \in Nat /\ s.upper <= cur.upper
    <2>1. \A s \in Known : s.seqno <= cur.seqno /\ Forward(s, cur)
        BY <1>2 DEF Inv, OneHistory
    <2> QED BY <2>1, LogTypes DEF Forward
<1>5. q.st.since # Top => /\ cur.since # Top
                          /\ cur.batches = Batches
    <2>1. q.st.since # Top => cur.since # Top
        BY <1>1, <1>2, TopAssumption DEF Forward, VersionOK, IsShardState, Frontier
    <2>2. cur.since # Top => cur.batches = {b \in Batches : b.upper <= cur.upper}
        BY <1>2 DEF Covers
    <2> QED BY <1>3, <2>1, <2>2
<1>6. ASSUME NEW s \in Known', IsFinalized(s)
      PROVE  s = cur'
    <2>1. CASE s \in Known
        BY <1>1, <1>6, <2>1 DEF LogInv
    <2> QED BY <1>1, <2>1
<1>7. CASE ~IsAppend(q.cmd)
    <2>1. /\ Batches' = Batches /\ q.st.upper = cur.upper
          /\ q.st.batches = cur.batches \/ q.st.since = Top
          /\ IsFiniteSet(q.st.batches)
        BY <1>1, <1>2, <1>7 DEF Commits, Commit, Extends, IsAppend, Batches
    <2>2. \A s \in Known : Covers(s)'
        BY <2>1 DEF LogInv, Covers
    <2>3. Covers(q.st)'
        BY <1>3, <1>5, <2>1 DEF Covers
    <2> QED BY <1>1, <1>6, <2>2, <2>3
<1>8. CASE IsAppend(q.cmd)
    <2> DEFINE b == q.cmd.b
    <2>1. /\ log' = Append(log, b) /\ b.lower = cur.upper /\ b.lower <= b.upper
          /\ q.st.upper = b.upper /\ b \in HollowBatch
          /\ q.st.batches = IF b.lower = b.upper THEN cur.batches
                            ELSE cur.batches \cup {b}
        BY <1>1, <1>8 DEF Commits, Commit, Extends, IsAppend
    <2> HIDE DEF b
    <2>2. /\ log \in Seq(HollowBatch) /\ b.lower \in Nat /\ b.upper \in Nat
        BY <2>1, LogTypes
    <2>3. Batches' = IF b.lower = b.upper THEN Batches ELSE Batches \cup {b}
        <3>1. /\ DOMAIN log' = DOMAIN log \cup {Len(log) + 1}
              /\ \A i \in DOMAIN log : log'[i] = log[i]
              /\ log'[Len(log) + 1] = b
            BY <2>1, <2>2
        <3>2. \A x : x \in Batches' <=> \E i \in DOMAIN log' :
                                          log'[i].lower # log'[i].upper /\ x = log'[i]
            BY DEF Batches
        <3>3. \A x : x \in Batches <=> \E i \in DOMAIN log :
                                          log[i].lower # log[i].upper /\ x = log[i]
            BY DEF Batches
        <3>4. \A x : x \in Batches' <=> \/ x \in Batches
                                        \/ b.lower # b.upper /\ x = b
            BY <3>1, <3>2, <3>3
        <3> HIDE DEF Batches
        <3> QED BY <3>4
    <2>4. IsFiniteSet(q.st.batches)
        BY <1>2, <2>1, FS_AddElement
    <2>5. ASSUME NEW s \in Known
          PROVE  Covers(s)'
        <3>1. Covers(s) /\ s.upper \in Nat /\ s.upper <= b.lower
            BY <1>4, <2>1 DEF LogInv
        <3>2. \A x \in Batches' : x.upper <= s.upper \/ s.upper <= x.lower
            BY <2>3, <3>1 DEF Covers
        <3>3. b.lower # b.upper => ~(b.upper <= s.upper)
            BY <2>1, <2>2, <3>1
        <3>4. {x \in Batches' : x.upper <= s.upper} =
                {x \in Batches : x.upper <= s.upper}
            BY <2>3, <3>3
        <3> QED BY <3>1, <3>2, <3>4 DEF Covers
    <2>6. Covers(q.st)'
        <3>1. \A x \in Batches' : x.upper <= q.st.upper
            <4>1. cur.upper \in Nat
                BY <1>2, <1>4
            <4> QED BY <1>3, <2>1, <2>2, <2>3, <4>1
        <3>2. q.st.since # Top => q.st.batches = Batches'
            BY <1>5, <2>1, <2>3
        <3> QED BY <2>4, <3>1, <3>2 DEF Covers
    <2> QED BY <1>1, <1>6, <2>5, <2>6
<1> QED BY <1>7, <1>8

LEMMA CommitKeepsLog ==
    ASSUME Inv, LogInv, NEW q \in Requests, Commits(q)
    PROVE  /\ TokensOK' /\ RequestsExtend' /\ Tiles'
           /\ \A s \in Known' : Covers(s)' /\ (IsFinalized(s) => s = cur')
<1>1. TokensOK'
    BY DEF LogInv, TokensOK, Commits
<1>2. RequestsExtend'
    <2>1. cur'.seqno = cur.seqno + 1 /\ cur.seqno \in Nat
        BY AcceptedRequest, LogTypes DEF Commits, Commit
    <2>2. \A p \in Requests' : ~Accepted(p.st)'
        <3>1. SUFFICES ASSUME NEW p \in Requests' PROVE p.st.seqno # cur'.seqno + 1
            BY DEF Accepted
        <3>2. ProposalOK(p.st)
            BY <3>1, LogTypes DEF Commits
        <3>3. p.st.seqno \in Nat /\ p.st.seqno <= cur.seqno + 1
            BY <3>2 DEF ProposalOK, VersionOK, IsShardState
        <3> QED BY <2>1, <3>3
    <2> QED BY <2>2 DEF RequestsExtend
<1> QED BY <1>1, <1>2, CommitKeepsTiles, CommitKeepsCovers

-----------------------------------------------------------------------------
(* Finalization ends at a version that is the current one.                 *)

LEMMA NoProgressIsFinalized ==
    ASSUME NEW s, IsFiniteSet(s.batches), BecomeTombstoneAndShrink(s).flow = "Break"
    PROVE  IsFinalized(s)
<1> DEFINE full == {b \in s.batches : ~b.empty}
<1>1. /\ full = {} /\ ~(Cardinality(s.batches) > 1) /\ IsTombstone(s)
    BY DEF BecomeTombstoneAndShrink, Continue, Panic
<1>2. Cardinality(s.batches) <= 1
    BY <1>1, FS_CardinalityType
<1> QED BY <1>1, <1>2 DEF IsFinalized, IsSingleEmptyBatch

LEMMA ReturnsHstat ==
    ASSUME Inv, NEW g \in Handles, NEW r, NEW c \in BOOLEAN, Returns(g, r, c),
           NEW h \in Finalizers, hstat'[h] # hstat[h]
    PROVE  g = h /\ Cmd(h).op = "become_tombstone" /\ ~c
<1>1. /\ HandleFits(g, Cmd(g)) /\ h \in Handles
      /\ hstat \in [Handles -> {"none", "live", "opening", "open", "halted", "gone"}]
    BY CallOf DEF Inv, TypeOK, Handles
<1>2. h \notin Writers /\ h \notin LeasedReaders /\ h \notin SinceHandles
    BY HandlesAssumption
<1>3. CASE Cmd(g).op = "become_tombstone" /\ ReturnTombstoneStep(g, c)
    BY <1>1, <1>3 DEF ReturnTombstoneStep
<1>4. CASE Cmd(g).op = "compare_and_append"
    BY <1>4 DEF Returns, ReturnAppended, ReturnAppendBreak, handleVars
<1>5. CASE Cmd(g).op \in {"register_leased_reader", "downgrade_since",
                          "register_critical_reader",
                          "compare_and_downgrade_since"}
    <2>1. g # h
        BY <1>1, <1>2, <1>5 DEF HandleFits
    <2> QED BY <1>1, <1>5, <2>1
            DEF Returns, ReturnRegistered, ReturnDowngraded, ReturnOpened,
                ReturnCompareAndDowngrade
<1>6. CASE Cmd(g).op \in {"expire_writer", "expire_leased_reader"}
    BY <1>6 DEF Returns, ReturnExpired, handleVars
<1> QED BY <1>3, <1>4, <1>5, <1>6 DEF Returns

LEMMA FinalizerEnds ==
    ASSUME Inv, LogInv, [Next]_vars, NEW h \in Finalizers, hstat'[h] # hstat[h]
    PROVE  cur' = cur /\ IsFinalized(cur)
<1>1. /\ hstat \in [Handles -> {"none", "live", "opening", "open", "halted", "gone"}]
      /\ h \in Handles
      /\ h \notin Writers /\ h \notin LeasedReaders /\ h \notin SinceHandles
    BY HandlesAssumption DEF Inv, TypeOK, Handles
<1>2. ASSUME NEW g \in Handles, Attempt(g)
      PROVE  cur' = cur /\ IsFinalized(cur)
    <2>1. WorkRes(g).flow = "Break" /\ Returns(g, WorkRes(g).ret, FALSE)
        BY <1>2 DEF Attempt, Proposes, Panics, handleVars
    <2>2. g = h /\ Cmd(g).op = "become_tombstone"
        BY <2>1, ReturnsHstat
    <2> DEFINE s == Cached(g)
               n == NextVersion(s)
    <2>3. BecomeTombstoneAndShrink(n).flow = "Break"
        BY <2>1, <2>2 DEF WorkRes, WorkFn
    <2>4. s \in Known /\ VersionOK(s)
        BY CallOf
    <2> HIDE DEF s
    <2>5. /\ IsTombstone(n) <=> IsTombstone(s)
          /\ n.batches = s.batches
        BY <2>4, NextVersionOK DEF Fields
    <2>6. IsFiniteSet(s.batches) /\ (IsFinalized(s) => s = cur)
        BY <2>4 DEF LogInv, Covers
    <2> HIDE DEF n
    <2>7. IsFinalized(n)
        BY <2>3, <2>5, <2>6, NoProgressIsFinalized
    <2>8. IsFinalized(s)
        BY <2>5, <2>7 DEF IsFinalized, IsSingleEmptyBatch
    <2> QED BY <1>2, <2>6, <2>8 DEF Attempt
<1>3. ASSUME NEW g \in Handles, DeliverCommitted(g)
      PROVE  FALSE
    BY <1>3, ReturnsHstat DEF DeliverCommitted
<1>4. CASE Begin
    BY <1>1, <1>4
    DEF Begin, BeginAppend, BeginExpireWriter, BeginRegister, BeginDowngrade,
        BeginExpireReader, BeginOpenCritical, BeginDowngradeCritical,
        BeginFinalize, handleVars
<1>5. CASE \E g \in Handles : Step(g) \/ Indeterminate(g)
    BY <1>2, <1>3, <1>5
    DEF Step, CasCommit, CasMismatch, DeliverMismatch, Indeterminate, handleVars
<1>6. CASE \E w \in Writers : RecheckUpper(w) \/ Cancel(w)
    BY <1>6 DEF RecheckUpper, Cancel, handleVars
<1>7. CASE \E g \in SinceHandles : BeginFence(g) \/ Fenced(g)
    BY <1>1, <1>7 DEF BeginFence, Fenced, handleVars
<1>8. CASE \E o \in orphans : OrphanCommit(o)
    BY <1>8 DEF OrphanCommit, handleVars
<1>9. CASE \E p \in Procs : Refresh(p)
    BY <1>9 DEF Refresh, handleVars
<1>10. CASE UNCHANGED vars
    BY <1>10 DEF vars, handleVars
<1> QED BY <1>4, <1>5, <1>6, <1>7, <1>8, <1>9, <1>10 DEF Next

LEMMA NextLogInv ==
    ASSUME Inv, Inv', LogInv, [Next]_vars
    PROVE  LogInv'
<1>1. \A s \in Known : IsFiniteSet(s.batches)
    BY DEF LogInv, Covers
<1>2. calls' \in Nat
    BY DEF Inv, TypeOK
<1>3. CASE Turn
    <2>1. cur' = cur
        BY <1>3 DEF Turn, Turns
    <2>2. FinalizedForGood'
        BY <2>1, FinalizerEnds DEF LogInv, FinalizedForGood
    <2> QED BY <1>2, <1>3, <2>2, TurnKeepsLog DEF LogInv
<1>4. CASE \E q \in Requests : Commits(q)
    <2>1. ~IsFinalized(cur)
        BY <1>4, AcceptedRequest DEF Commits
    <2>2. FinalizedForGood'
        BY <2>1, FinalizerEnds DEF LogInv, FinalizedForGood
    <2> QED BY <1>4, <2>2, CommitKeepsLog DEF LogInv
<1> QED BY <1>1, <1>3, <1>4, LogSteps

LEMMA InitLogInv == Init => LogInv
<1> SUFFICES ASSUME Init PROVE LogInv
    OBVIOUS
<1>1. /\ \A h \in Handles : call[h] = Idle
      /\ Idle.pc = "idle" /\ ~IsAppend(Idle.cmd)
      /\ orphans = {} /\ log = <<>> /\ cur = InitialState
    BY DEF Init, Idle, Call, NoCmd, IsAppend
<1>2. Played = {} /\ Requests = {} /\ Batches = {}
    BY <1>1 DEF Played, Requests, Batches
<1>3. \A s \in Known : s = InitialState
    BY <1>1 DEF Init, Known
<1>4. InitialState.batches = {} /\ InitialState.upper = 0
    BY DEF InitialState
<1>5. \A s \in Known : Covers(s) /\ s = cur
    BY <1>1, <1>2, <1>3, <1>4, FS_EmptySet DEF Covers
<1>6. FinalizedForGood
    BY DEF Init, FinalizedForGood, Handles
<1>7. Tiles
    BY <1>1, <1>4 DEF Tiles
<1> QED BY <1>2, <1>5, <1>6, <1>7 DEF LogInv, TokensOK, RequestsExtend

LEMMA LogInvariance == Spec => [](Inv /\ LogInv)
BY InitInv, NextInv, InitLogInv, NextLogInv, PTL DEF Spec

-----------------------------------------------------------------------------
(* The theorems about the log.                                             *)

(* The committed batches tile [0, upper) without gap or overlap and no     *)
(* append call commits twice, whatever is retried, lost, cancelled or      *)
(* still in flight (state.rs compare_and_append, machine.rs                *)
(* compare_and_append).                                                    *)
THEOREM AppendsExactlyOnce == Spec => []AppendExactlyOnce
<1>1. Inv /\ LogInv => AppendExactlyOnce
    <2> SUFFICES ASSUME Inv, LogInv PROVE AppendExactlyOnce
        OBVIOUS
    <2>1. ASSUME NEW i \in DOMAIN log, NEW j \in DOMAIN log,
                 log[i].token = log[j].token, log[i].lower # log[i].upper
          PROVE  i = j
        <3>1. log[i] = log[j]
            BY <2>1 DEF LogInv, TokensOK, Played
        <3>2. /\ i \in Nat /\ j \in Nat
              /\ log[i].lower \in Nat /\ log[i].upper \in Nat
            BY LogTypes
        <3>3. /\ log[i].lower <= log[i].upper
              /\ i < j => log[i].upper <= log[j].lower
              /\ j < i => log[j].upper <= log[i].lower
            BY DEF LogInv, Tiles
        <3> QED BY <2>1, <3>1, <3>2, <3>3
    <2> QED BY <2>1 DEF AppendExactlyOnce, LogInv, Tiles
<1> QED BY <1>1, LogInvariance, PTL

(* Readers see one history: whatever a process serves from its cache,      *)
(* stale or not, is exactly the log up to the time asked for (state.rs     *)
(* snapshot).                                                              *)
THEOREM SnapshotsAgreeForAll == Spec => []SnapshotsAgree
<1>1. Inv /\ LogInv => SnapshotsAgree
    <2> SUFFICES ASSUME Inv, LogInv, NEW p \in Procs, NEW t \in 0 .. Top - 1,
                        "ok" \in DOMAIN Snapshot(cache[p], t)
                 PROVE  Snapshot(cache[p], t).ok = {b \in Batches : b.lower <= t}
        BY DEF SnapshotsAgree
    <2> DEFINE s == cache[p]
    <2>1. s \in Known /\ Covers(s) /\ VersionOK(s)
        BY LogTypes DEF LogInv, Known
    <2> HIDE DEF s
    <2>2. s.since \in Nat /\ s.upper \in Nat /\ t \in Nat /\ t < Top /\ Top \in Nat
        BY <2>1, TopAssumption DEF VersionOK, IsShardState, Frontier
    <2>3. /\ ~(t < s.since) /\ ~(s.upper <= t)
          /\ Snapshot(s, t).ok = {b \in s.batches : ~(t < b.lower)}
        BY DEF Snapshot, s
    <2>4. s.batches = {b \in Batches : b.upper <= s.upper}
        BY <2>1, <2>2, <2>3 DEF Covers
    <2>5. \A b \in Batches : /\ b.lower \in Nat /\ b.upper \in Nat
                             /\ b.lower <= b.upper
                             /\ b.upper <= s.upper \/ s.upper <= b.lower
        <3>1. \A b \in Batches : b \in HollowBatch /\ \E i \in DOMAIN log : b = log[i]
            BY LogTypes DEF Batches
        <3> QED BY <2>1, <3>1, LogTypes DEF LogInv, Tiles, Covers
    <2>6. {b \in s.batches : ~(t < b.lower)} = {b \in Batches : b.lower <= t}
        BY <2>2, <2>3, <2>4, <2>5
    <2> QED BY <2>3, <2>6 DEF s
<1> QED BY <1>1, LogInvariance, PTL

(* When finalize_shard has returned the shard is finalized in its current  *)
(* version and stays so, although the step that ended its loop looked at a *)
(* cached one (machine.rs become_tombstone, apply.rs is_finalized).        *)
THEOREM FinalizedStaysFinalized == Spec => []FinalizedForGood
<1>1. LogInv => FinalizedForGood
    BY DEF LogInv
<1> QED BY <1>1, LogInvariance, PTL

-----------------------------------------------------------------------------
(* The invariant of the epochs is kept.                                    *)

(* A step that commits nothing and changes the call of one handle g.       *)
LEMMA FenceStepAt ==
    ASSUME Inv, FenceInv, NEW g \in Handles, NEW k,
           call'[g] = k, \A h \in Handles \ {g} : call'[h] = call[h],
           k.pc # "committed",
           cur' = cur, \A s \in Known' : s \in Known,
           k.pc = "sent" /\ Accepted(k.st) => Fences(g, k.cmd, cur, k.st),
           orphans' \subseteq Orphaned(g),
           \A h \in SinceHandles \ {g} : hstat'[h] = hstat[h] /\ hopaque'[h] = hopaque[h],
           g \in SinceHandles => HandleFences(g)',
           g \in SinceHandles /\ (\E o \in orphans' : Accepted(o.st) /\ IsFence(o.cmd))
             /\ (MayFence(g) \/ (call[g].pc = "sent" /\ IsFence(call[g].cmd)))
             => MayFence(g)'
    PROVE  FenceInv'
<1>1. DOMAIN call = Handles /\ HandleFits(g, call[g].cmd)
    BY CallOf DEF Cmd
<1>2. call'[g] = k /\ \A h \in Handles : h # g => call'[h] = call[h]
    OBVIOUS
<1>3. SinceHandles \subseteq Handles
    BY DEF Handles
<1>4. ASSUME NEW h \in SinceHandles PROVE HandleFences(h)'
    <2>1. CASE h = g
        BY <2>1
    <2>2. CASE h # g
        BY <1>2, <1>3, <2>2 DEF HandleFences, FenceInv
    <2> QED BY <2>1, <2>2
<1>5. \A h \in Handles :
        call'[h].pc = "sent" /\ call'[h].st.seqno = cur'.seqno + 1 =>
           Fences(h, call'[h].cmd, cur', call'[h].st)
    BY <1>2 DEF FenceInv, Accepted
<1>6. ASSUME NEW h, MayFence(h), h # g PROVE MayFence(h)'
    BY <1>2, <1>3, <1>6 DEF MayFence
<1>7. ASSUME NEW o \in orphans', Accepted(o.st) PROVE OrphanFences(o)'
    <2>1. CASE o \in orphans
        <3>1. PICK h \in Handles :
                /\ IsFence(o.cmd) => MayFence(h) /\ OwnsFence(h, o.cmd)
                /\ Fences(h, o.cmd, cur, o.st)
            BY <1>7, <2>1 DEF FenceInv, OrphanFences
        <3>2. IsFence(o.cmd) => MayFence(h)'
            BY <1>6, <1>7, <3>1 DEF MayFence
        <3> QED BY <3>1, <3>2 DEF OrphanFences
    <2>2. CASE o \notin orphans
        <3>1. call[g].pc = "sent" /\ o = [st |-> call[g].st, cmd |-> call[g].cmd]
            BY <2>2 DEF Orphaned, Cmd
        <3>2. Fences(g, o.cmd, cur, o.st)
            BY <1>7, <3>1 DEF FenceInv
        <3>3. IsFence(o.cmd) => g \in SinceHandles /\ IsFence(call[g].cmd)
            BY <1>1, <3>1 DEF IsFence, HandleFits
        <3>4. IsFence(o.cmd) => MayFence(g)' /\ OwnsFence(g, o.cmd)
            BY <1>7, <3>1, <3>3 DEF FenceInv, HandleFences
        <3> QED BY <3>2, <3>4 DEF OrphanFences
    <2> QED BY <2>1, <2>2
<1>8. \A o \in orphans' : Accepted(o.st)' => OrphanFences(o)'
    BY <1>7 DEF Accepted
<1>9. \A s \in Known' : IsTombstone(s) => IsTombstone(cur')
    BY DEF FenceInv
<1> QED BY <1>4, <1>5, <1>8, <1>9 DEF FenceInv, Accepted

LEMMA FenceStep ==
    ASSUME Inv, FenceInv, NEW g \in Handles, NEW k,
           call' = [call EXCEPT ![g] = k], k.pc # "committed",
           cur' = cur, \A s \in Known' : s \in Known,
           k.pc = "sent" /\ Accepted(k.st) => Fences(g, k.cmd, cur, k.st),
           orphans' \subseteq Orphaned(g),
           \A h \in SinceHandles \ {g} : hstat'[h] = hstat[h] /\ hopaque'[h] = hopaque[h],
           g \in SinceHandles => HandleFences(g)',
           g \in SinceHandles /\ (\E o \in orphans' : Accepted(o.st) /\ IsFence(o.cmd))
             /\ (MayFence(g) \/ (call[g].pc = "sent" /\ IsFence(call[g].cmd)))
             => MayFence(g)'
    PROVE  FenceInv'
<1>1. DOMAIN call = Handles
    BY CallOf
<1>2. call'[g] = k /\ \A h \in Handles \ {g} : call'[h] = call[h]
    BY <1>1
<1> QED BY <1>2, FenceStepAt

(* A handle that is not a SinceHandle has no part in this.                 *)
LEMMA OtherFenceStep ==
    ASSUME Inv, FenceInv, NEW g \in Handles \ SinceHandles, NEW k,
           call' = [call EXCEPT ![g] = k], k.pc # "committed",
           cur' = cur, \A s \in Known' : s \in Known,
           k.pc = "sent" /\ Accepted(k.st) => Fences(g, k.cmd, cur, k.st),
           orphans' \subseteq Orphaned(g),
           \A h \in SinceHandles : hstat'[h] = hstat[h] /\ hopaque'[h] = hopaque[h]
    PROVE  FenceInv'
BY FenceStep

(* A step that leaves every call and every SinceHandle alone.              *)
LEMMA FenceStill ==
    ASSUME FenceInv, UNCHANGED <<cur, call, orphans, hstat, hopaque>>,
           \A s \in Known' : s \in Known
    PROVE  FenceInv'
<1>1. \A h : (HandleFences(h) => HandleFences(h)') /\ (MayFence(h) => MayFence(h)')
    BY DEF HandleFences, MayFence
<1>2. \A o : OrphanFences(o) => OrphanFences(o)'
    BY <1>1 DEF OrphanFences
<1> QED BY <1>1, <1>2 DEF FenceInv, Accepted

(* A commit: every request that was in flight is now too late.             *)
LEMMA FenceCommit ==
    ASSUME Inv, Inv', FenceInv, NEW s, ProposalOK(s), Accepted(s), cur' = s,
           \A u \in Known' : u \in Known \cup {s},
           orphans' \subseteq orphans, UNCHANGED <<hstat, hopaque>>,
           \A h \in Handles : /\ call'[h].cmd = call[h].cmd
                              /\ call'[h].st = call[h].st
                              /\ \/ call'[h].pc = call[h].pc
                                 \/ /\ call[h].pc = "sent"
                                    /\ call'[h].pc = "committed"
    PROVE  FenceInv'
<1>1. /\ s.seqno = cur.seqno + 1 /\ cur.seqno \in Nat
      /\ IsTombstone(cur) => IsTombstone(s)
    BY DEF Accepted, ProposalOK, Succeeds, Inv, TypeOK, IsShardState
<1>2. \A t : ProposalOK(t) => ~Accepted(t)'
    BY <1>1 DEF ProposalOK, Accepted, VersionOK, IsShardState
<1>3. \A h \in Handles : call'[h].pc = "sent" =>
                           ~(call'[h].st.seqno = cur'.seqno + 1)
    BY <1>2 DEF Inv, Accepted
<1>4. \A o \in orphans' : ~Accepted(o.st)'
    BY <1>2 DEF Inv
<1>5. \A h \in SinceHandles : HandleFences(h)'
    BY DEF FenceInv, HandleFences, Handles
<1>6. \A u \in Known' : IsTombstone(u) => IsTombstone(cur')
    BY <1>1 DEF FenceInv
<1> QED BY <1>3, <1>4, <1>5, <1>6 DEF FenceInv, Accepted

(* The current version is no tombstone while a fence may be accepted.      *)
LEMMA NoFenceOnTombstone ==
    ASSUME FenceInv, NEW o \in orphans, Accepted(o.st), IsFence(o.cmd)
    PROVE  ~IsTombstone(cur)
BY DEF FenceInv, OrphanFences, Fences

LEMMA FenceStarts ==
    ASSUME Inv, FenceInv, NEW g \in Handles, NEW c, Start(g, c),
           \A h \in SinceHandles : hstat'[h] = hstat[h] /\ hopaque'[h] = hopaque[h],
           g \in SinceHandles =>
             /\ IsFence(c) => hstat[g] \in {"opening", "open"} /\ OwnsFence(g, c)
             /\ c.op = "register_critical_reader" => hstat[g] = "none"
    PROVE  FenceInv'
<1> DEFINE k == Call("ready", c, InitialState, NoRet, FALSE)
<1>1. k.pc = "ready" /\ k.cmd = c
    BY DEF Call
<1>2. /\ call' = [call EXCEPT ![g] = k] /\ cur' = cur /\ cache' = cache
      /\ orphans' = orphans /\ call[g].pc = "idle"
    BY DEF Start
<1> HIDE DEF k
<1>3. DOMAIN call = Handles
    BY CallOf
<1>4. \A s \in Known' : s \in Known
    BY <1>1, <1>2, <1>3 DEF Known
<1>5. call'[g] = k
    BY <1>2, <1>3
<1>6. g \in SinceHandles => HandleFences(g)'
    BY <1>1, <1>5 DEF FenceInv, HandleFences
<1>7. g \in SinceHandles /\ MayFence(g) => MayFence(g)'
    BY <1>1, <1>2, <1>5 DEF MayFence
<1>8. orphans' \subseteq Orphaned(g)
    BY <1>2 DEF Orphaned
<1> QED BY <1>1, <1>2, <1>4, <1>6, <1>7, <1>8, FenceStep

LEMMA FenceBegins ==
    ASSUME Inv, FenceInv, Begin
    PROVE  FenceInv'
<1>1. /\ Writers \cap SinceHandles = {} /\ LeasedReaders \cap SinceHandles = {}
      /\ Finalizers \cap SinceHandles = {}
      /\ Writers \subseteq Handles /\ LeasedReaders \subseteq Handles
      /\ SinceHandles \subseteq Handles /\ Finalizers \subseteq Handles
    BY HandlesAssumption DEF Handles
<1>2. /\ DOMAIN hstat = Handles /\ hopaque \in [SinceHandles -> Nat]
    BY DEF Inv, TypeOK
<1>3. ASSUME NEW w \in Writers, BeginAppend(w) \/ BeginExpireWriter(w)
      PROVE  FenceInv'
    <2>1. \E c : Start(w, c)
        BY <1>3 DEF BeginAppend, BeginExpireWriter, StartNew
    <2>2. \A h \in SinceHandles : hstat'[h] = hstat[h] /\ hopaque'[h] = hopaque[h]
        BY <1>1, <1>2, <1>3 DEF BeginAppend, BeginExpireWriter, handleVars
    <2> QED BY <1>1, <2>1, <2>2, FenceStarts
<1>4. ASSUME NEW r \in LeasedReaders,
             BeginRegister(r) \/ BeginDowngrade(r) \/ BeginExpireReader(r)
      PROVE  FenceInv'
    <2>1. \E c : Start(r, c)
        BY <1>4 DEF BeginRegister, BeginDowngrade, BeginExpireReader, StartNew
    <2>2. \A h \in SinceHandles : hstat'[h] = hstat[h] /\ hopaque'[h] = hopaque[h]
        BY <1>1, <1>2, <1>4
        DEF BeginRegister, BeginDowngrade, BeginExpireReader, handleVars
    <2> QED BY <1>1, <2>1, <2>2, FenceStarts
<1>5. ASSUME NEW h \in SinceHandles, BeginOpenCritical(h) PROVE FenceInv'
    <2> DEFINE c == [op |-> "register_critical_reader"]
    <2>1. /\ Start(h, c) /\ hstat[h] = "none" /\ UNCHANGED <<hstat, hopaque>>
          /\ ~IsFence(c)
        BY <1>5 DEF BeginOpenCritical, StartNew, handleVars, IsFence
    <2> HIDE DEF c
    <2> QED BY <1>1, <2>1, FenceStarts
<1>6. ASSUME NEW h \in SinceHandles, BeginDowngradeCritical(h) PROVE FenceInv'
    <2>1. PICK s : StartNew(h, Downgrade(h, hopaque[h], hopaque[h], s))
        BY <1>6 DEF BeginDowngradeCritical
    <2> DEFINE c == Downgrade(h, hopaque[h], hopaque[h], s)
    <2>2. /\ c.op = "compare_and_downgrade_since"
          /\ c.expected = hopaque[h] /\ c.new = hopaque[h]
        BY DEF Downgrade
    <2>3. Start(h, c) /\ hstat[h] = "open" /\ UNCHANGED <<hstat, hopaque>>
        BY <1>6, <2>1 DEF BeginDowngradeCritical, StartNew, handleVars
    <2> HIDE DEF c
    <2>4. OwnsFence(h, c)
        BY <1>2, <2>2, <2>3 DEF FenceInv, HandleFences, OwnsFence
    <2> QED BY <1>1, <2>2, <2>3, <2>4, FenceStarts
<1>7. ASSUME NEW h \in Finalizers, BeginFinalize(h) PROVE FenceInv'
    <2>1. (\E c : Start(h, c)) /\ UNCHANGED <<hstat, hopaque>>
        BY <1>7 DEF BeginFinalize, StartNew, handleVars
    <2> QED BY <1>1, <2>1, FenceStarts
<1> QED BY <1>3, <1>4, <1>5, <1>6, <1>7 DEF Begin

(* A call that goes on: its handle keeps its place.                        *)
LEMMA FenceGoesOn ==
    ASSUME Inv, FenceInv, NEW g \in Handles, NEW k,
           call' = [call EXCEPT ![g] = k],
           k.pc \notin {"committed", "idle"}, k.cmd = call[g].cmd,
           call[g].pc # "idle", cur' = cur, \A s \in Known' : s \in Known,
           k.pc = "sent" /\ Accepted(k.st) => Fences(g, k.cmd, cur, k.st),
           orphans' \subseteq Orphaned(g), UNCHANGED <<hstat, hopaque>>
    PROVE  FenceInv'
<1>1. DOMAIN call = Handles
    BY CallOf
<1>2. call'[g] = k
    BY <1>1
<1>3. g \in SinceHandles => HandleFences(g)'
    BY <1>2 DEF FenceInv, HandleFences
<1>4. /\ g \in SinceHandles
      /\ MayFence(g) \/ (call[g].pc = "sent" /\ IsFence(call[g].cmd))
      => MayFence(g)'
    BY <1>2 DEF FenceInv, HandleFences, MayFence
<1> QED BY <1>3, <1>4, FenceStep

(* The ways to go on.                                                      *)
GoesOn(h) ==
    \E k : /\ call' = [call EXCEPT ![h] = k]
           /\ k.pc \notin {"sent", "committed", "idle"}
           /\ k.cmd = call[h].cmd

LEMMA GoToGoesOn ==
    ASSUME Inv, NEW h \in Handles, NEW l, l \notin {"sent", "committed", "idle"},
           GoTo(h, l)
    PROVE  GoesOn(h)
<1>1. PICK k : k = Call(l, call[h].cmd, call[h].st, call[h].ret, call[h].indet)
    OBVIOUS
<1>2. k.pc = l /\ k.cmd = call[h].cmd
    BY <1>1, CallFields
<1>3. call' = [call EXCEPT ![h] = k]
    BY <1>1, CallOf, GoToCall DEF GoTo
<1> QED BY <1>2, <1>3 DEF GoesOn

LEMMA RetryGoesOn ==
    ASSUME NEW h \in Handles, NEW i, Retry(h, i)
    PROVE  GoesOn(h)
<1>1. PICK k : k = Call("ready", Cmd(h), InitialState, NoRet, i)
    OBVIOUS
<1>2. k.pc = "ready" /\ k.cmd = call[h].cmd
    BY <1>1, CallFields DEF Cmd
<1> QED BY <1>1, <1>2 DEF GoesOn, Retry

LEMMA GoesOnFences ==
    ASSUME Inv, FenceInv, NEW h \in Handles, GoesOn(h), call[h].pc # "idle",
           cur' = cur, \A s \in Known' : s \in Known,
           orphans' \subseteq Orphaned(h), UNCHANGED <<hstat, hopaque>>
    PROVE  FenceInv'
BY FenceGoesOn DEF GoesOn

(* A call that returns.  A fence that did not commit found a tombstone;    *)
(* one that did has made every other request too late.                     *)
LEMMA ReturnsFences ==
    ASSUME Inv, FenceInv, NEW h \in Handles, NEW r, NEW c \in BOOLEAN,
           RetFits(call[h].cmd, r), Returns(h, r, c), call[h].pc # "idle",
           call[h].pc # "sent",
           cur' = cur, \A s \in Known' : s \in Known, orphans' = orphans,
           \/ call[h].pc = "committed"
           \/ IsFence(call[h].cmd) => r.ok /\ IsTombstone(cur)
    PROVE  FenceInv'
<1>1. /\ HandleFits(h, call[h].cmd) /\ DOMAIN call = Handles
      /\ orphans' \subseteq Orphaned(h)
    BY CallOf DEF Cmd, Orphaned
<1>2. PICK k : /\ call' = [call EXCEPT ![h] = k]
               /\ k.pc \notin {"sent", "committed"}
               /\ k.cmd \in {call[h].cmd, NoCmd}
    BY ReturnsRests DEF Rests
<1>3. DOMAIN hstat = Handles /\ hopaque \in [SinceHandles -> Nat]
    BY DEF Inv, TypeOK
<1>4. CASE h \notin SinceHandles
    <2>1. \A g \in SinceHandles : hstat'[g] = hstat[g] /\ hopaque'[g] = hopaque[g]
        <3>1. Cmd(h).op \notin {"register_critical_reader",
                                "compare_and_downgrade_since"}
            BY <1>1, <1>4 DEF HandleFits, Cmd
        <3>2. SinceHandles \subseteq Handles
            BY DEF Handles
        <3> QED BY <1>3, <1>4, <3>1, <3>2
                DEF Returns, ReturnAppended, ReturnAppendBreak, ReturnRegistered,
                    ReturnDowngraded, ReturnExpired, ReturnTombstoneStep,
                    handleVars
    <2> QED BY <1>1, <1>2, <1>4, <2>1, OtherFenceStep
<1>5. CASE h \in SinceHandles
    <2>1. h \notin Writers /\ h \notin LeasedReaders /\ h \notin Finalizers
        BY <1>5, HandlesAssumption
    <2>2. Cmd(h).op \in {"none", "register_critical_reader",
                         "compare_and_downgrade_since"}
        <3>1. Cmd(h) \in Commands
            BY CallOf
        <3> QED BY <1>1, <2>1, <3>1, CommandFields DEF HandleFits, Cmd
    <2>3. HandleFences(h)
        BY <1>5 DEF FenceInv
    <2>4. CASE Cmd(h).op = "register_critical_reader"
        <3>1. ReturnOpened(h, r)
            BY <2>4 DEF Returns
        <3>2. /\ Done(h) /\ hstat'[h] = "opening"
              /\ \A g \in SinceHandles \ {h} : /\ hstat'[g] = hstat[g]
                                               /\ hopaque'[g] = hopaque[g]
            BY <1>3, <1>5, <3>1 DEF ReturnOpened, Handles
        <3>3. call' = [call EXCEPT ![h] = Idle] /\ call'[h].pc = "idle" /\ Idle.pc = "idle"
            BY <1>1, <3>2 DEF Done, Idle, Call
        <3>4. HandleFences(h)'
            BY <3>2, <3>3 DEF HandleFences
        <3>5. ~MayFence(h)
            BY <2>3, <2>4 DEF HandleFences, MayFence, IsFence, Cmd
        <3> QED BY <1>1, <3>2, <3>3, <3>4, <3>5, FenceStep
    <2>5. CASE Cmd(h).op = "compare_and_downgrade_since"
        <3>1. ReturnCompareAndDowngrade(h, r) /\ IsFence(call[h].cmd)
            BY <2>5 DEF Returns, IsFence, Cmd
        <3>2. /\ Done(h)
              /\ \A g \in SinceHandles \ {h} : /\ hstat'[g] = hstat[g]
                                               /\ hopaque'[g] = hopaque[g]
              /\ hstat'[h] = "open" => hopaque'[h] = call[h].cmd.new
            BY <1>3, <1>5, <3>1 DEF ReturnCompareAndDowngrade, Handles, Cmd
        <3>3. call' = [call EXCEPT ![h] = Idle] /\ call'[h].pc = "idle" /\ Idle.pc = "idle"
            BY <1>1, <3>2 DEF Done, Idle, Call
        <3>4. HandleFences(h)'
            BY <2>3, <3>1, <3>2, <3>3 DEF HandleFences, OwnsFence
        <3>5. MayFence(h) => ~\E o \in orphans' : Accepted(o.st) /\ IsFence(o.cmd)
            BY <3>1, NoFenceOnTombstone DEF MayFence
        <3> QED BY <1>1, <3>2, <3>3, <3>4, <3>5, FenceStep
    <2>6. CASE Cmd(h).op = "none"
        BY <2>6 DEF Returns
    <2> QED BY <2>2, <2>4, <2>5, <2>6
<1> QED BY <1>4, <1>5

LEMMA AttemptFences ==
    ASSUME Inv, FenceInv, \A s \in Known : IsFiniteSet(s.batches),
           NEW h \in Handles, Attempt(h)
    PROVE  FenceInv'
<1> DEFINE s == Cached(h)
           c == call[h].cmd
           res == WorkRes(h)
<1>1. /\ s \in Known /\ VersionOK(s) /\ c \in Commands /\ c.op # "none"
      /\ HandleFits(h, c) /\ call[h].pc = "ready"
      /\ res = WorkFn(h, c, NextVersion(s))
    BY CallOf DEF Attempt, Cmd, WorkRes
<1>2. /\ cur' = cur /\ orphans' = orphans /\ cache' = cache
      /\ orphans' \subseteq Orphaned(h) /\ DOMAIN call = Handles
    BY CallOf DEF Attempt, Orphaned
<1>3. ASSUME NEW k, call' = [call EXCEPT ![h] = k], k.pc # "committed"
      PROVE  \A u \in Known' : u \in Known
    BY <1>2, <1>3 DEF Known
<1>4. CASE Proposes(h)
    <2>1. PICK R, W :
            call' = [call EXCEPT ![h] = Call("sent", Cmd(h), ExpireAt(res.st, R, W),
                                             res.ret, call[h].indet)]
        BY <1>4 DEF Proposes
    <2> DEFINE t == ExpireAt(res.st, R, W)
               k == Call("sent", c, t, res.ret, call[h].indet)
    <2>2. res.flow = "Continue" /\ UNCHANGED <<hstat, hopaque>>
        BY <1>4 DEF Proposes, handleVars
    <2>3. Advances(NextVersion(s), res.st)
        BY <1>1, <2>2, NextVersionOK, WorkFnAdvances
    <2>4. VersionOK(res.st)
        BY <2>3 DEF Advances
    <2>5. Fences(h, c, s, t)
        BY <1>1, <2>2, <2>4, ProposalEffect
    <2>6. t.seqno = s.seqno + 1
        BY <1>1, <2>3, ExpireAtAdvances, AdvancesSucceeds
    <2>7. call' = [call EXCEPT ![h] = k]
        BY <2>1 DEF Cmd
    <2> HIDE DEF t, res, s
    <2>8. k.pc = "sent" /\ k.cmd = c /\ k.st = t
        BY CallFields
    <2>9. Accepted(t) => s = cur
        <3>1. s.seqno \in Nat /\ cur.seqno \in Nat
            BY <1>1 DEF VersionOK, IsShardState, Inv, TypeOK
        <3>2. Accepted(t) => s.seqno = cur.seqno
            BY <2>6, <3>1 DEF Accepted
        <3> QED BY <1>1, <3>2 DEF Inv, OneHistory, Known
    <2> HIDE DEF k
    <2>10. k.pc = "sent" /\ Accepted(k.st) => Fences(h, k.cmd, cur, k.st)
        BY <2>5, <2>8, <2>9
    <2>11. \A u \in Known' : u \in Known
        BY <1>3, <2>7, <2>8
    <2> QED BY <1>1, <1>2, <2>2, <2>7, <2>8, <2>10, <2>11, FenceGoesOn
<1>5. CASE res.flow = "Break" /\ Returns(h, res.ret, FALSE)
    <2>1. RetFits(c, res.ret)
        BY <1>1, <1>5, NextVersionOK, WorkFnAdvances
    <2>2. IsFence(c) => res.ret.ok /\ IsTombstone(cur)
        <3>1. SUFFICES ASSUME IsFence(c) PROVE res.ret.ok /\ IsTombstone(cur)
            OBVIOUS
        <3> DEFINE n == NextVersion(s)
        <3>2. res = CompareAndDowngradeSince(n, CriticalIdOf[h], c.expected,
                                             c.new, c.since)
            BY <1>1, <3>1 DEF WorkFn, IsFence
        <3> HIDE DEF n
        <3>3. IsTombstone(n) /\ res = Break([ok |-> TRUE, since |-> Top])
            BY <1>5, <3>2 DEF CompareAndDowngradeSince, Break, Continue, Panic
        <3>4. res.ret.ok
            BY <3>3 DEF Break
        <3>5. IsTombstone(s)
            BY <1>1, <3>3, NextVersionOK DEF n
        <3> QED BY <1>1, <3>4, <3>5 DEF FenceInv
    <2>3. \A u \in Known' : u \in Known
        BY <1>3, <1>5, ReturnsRests DEF Rests
    <2> HIDE DEF res
    <2> QED BY <1>1, <1>2, <1>5, <2>1, <2>2, <2>3, ReturnsFences
<1>6. CASE Panics(h)
    <2>1. GoTo(h, "assert_failed") /\ UNCHANGED <<hstat, hopaque>>
        BY <1>6 DEF Panics, handleVars
    <2>2. GoesOn(h)
        BY <2>1, GoToGoesOn
    <2>3. \A u \in Known' : u \in Known
        BY <1>3, <2>2 DEF GoesOn
    <2> QED BY <1>1, <1>2, <2>1, <2>2, <2>3, GoesOnFences
<1> QED BY <1>4, <1>5, <1>6 DEF Attempt

LEMMA KnownSteps ==
    ASSUME Inv, \A s \in Known : IsFiniteSet(s.batches), [Next]_vars
    PROVE  /\ \A s \in Known' : s \in Known \cup {cur'}
           /\ cur' = cur => \A s \in Known' : s \in Known
<1>1. CASE Turn
    BY <1>1 DEF Turn, Turns
<1>2. CASE \E q \in Requests : Commits(q)
    <2>1. cur \in Known
        BY DEF Known
    <2> QED BY <1>2, <2>1 DEF Commits, Commit
<1> QED BY <1>1, <1>2, LogSteps

LEMMA NextFenceInv ==
    ASSUME Inv, Inv', LogInv, FenceInv, [Next]_vars
    PROVE  FenceInv'
<1>1. /\ Parts /\ \A s \in Known : IsFiniteSet(s.batches)
      /\ \A h : orphans \subseteq Orphaned(h)
    BY InvParts DEF LogInv, Covers, Orphaned
<1>2. /\ \A s \in Known' : s \in Known \cup {cur'}
      /\ cur' = cur => \A s \in Known' : s \in Known
    BY <1>1, KnownSteps
<1>3. ASSUME NEW h \in Handles, CasCommit(h)
      PROVE  FenceInv'
    <2>1. /\ ProposalOK(call[h].st) /\ Accepted(call[h].st)
          /\ cur' = call[h].st /\ orphans' \subseteq orphans
          /\ UNCHANGED <<hstat, hopaque>>
        BY <1>3 DEF Inv, CasCommit, Commit, Alive, handleVars
    <2>2. call' = [call EXCEPT ![h] = Call("committed", call[h].cmd, call[h].st,
                                           call[h].ret, call[h].indet)]
        BY <1>3, CallOf, GoToCall DEF CasCommit, GoTo
    <2>3. \A g \in Handles : /\ call'[g].cmd = call[g].cmd
                             /\ call'[g].st = call[g].st
                             /\ \/ call'[g].pc = call[g].pc
                                \/ /\ call[g].pc = "sent"
                                   /\ call'[g].pc = "committed"
        BY <1>1, <1>3, <2>2, CallFields DEF Parts, CasCommit
    <2> QED BY <1>2, <2>1, <2>3, FenceCommit
<1>4. ASSUME NEW o \in orphans, OrphanCommit(o)
      PROVE  FenceInv'
    <2>1. /\ ProposalOK(o.st) /\ Accepted(o.st)
          /\ cur' = o.st /\ orphans' \subseteq orphans /\ call' = call
          /\ UNCHANGED <<hstat, hopaque>>
        BY <1>4 DEF Inv, OrphanCommit, Commit, Alive, handleVars
    <2> QED BY <1>2, <2>1, FenceCommit
<1>5. ASSUME NEW h \in Handles, Step(h) \/ Indeterminate(h)
      PROVE  FenceInv'
    <2>1. CASE CasMismatch(h)
        <3>1. /\ GoTo(h, "mismatch") /\ cur' = cur /\ orphans' = orphans
              /\ UNCHANGED <<hstat, hopaque>> /\ call[h].pc = "sent"
            BY <2>1 DEF CasMismatch, handleVars
        <3> QED BY <1>1, <1>2, <3>1, GoToGoesOn, GoesOnFences
    <2>2. CASE DeliverCommitted(h)
        <3>1. /\ Returns(h, call[h].ret, TRUE) /\ cur' = cur /\ orphans' = orphans
              /\ call[h].pc = "committed"
            BY <2>2 DEF DeliverCommitted
        <3>2. RetFits(call[h].cmd, call[h].ret)
            BY <3>1 DEF Inv
        <3> QED BY <1>2, <3>1, <3>2, ReturnsFences
    <2>3. CASE DeliverMismatch(h)
        <3>1. /\ Retry(h, call[h].indet) /\ cur' = cur /\ orphans' = orphans
              /\ UNCHANGED <<hstat, hopaque>> /\ call[h].pc = "mismatch"
            BY <2>3 DEF DeliverMismatch, handleVars
        <3> QED BY <1>1, <1>2, <3>1, RetryGoesOn, GoesOnFences
    <2>4. CASE Indeterminate(h)
        <3>1. /\ Retry(h, TRUE) /\ cur' = cur /\ orphans' = Orphaned(h)
              /\ UNCHANGED <<hstat, hopaque>> /\ call[h].pc # "idle"
            BY <2>4 DEF Indeterminate, handleVars
        <3> QED BY <1>2, <3>1, RetryGoesOn, GoesOnFences
    <2> QED BY <1>1, <1>3, <1>5, <2>1, <2>2, <2>3, <2>4, AttemptFences DEF Step
<1>6. ASSUME NEW w \in Writers, RecheckUpper(w) \/ Cancel(w)
      PROVE  FenceInv'
    <2>1. w \in Handles \ SinceHandles
        BY HandlesAssumption DEF Handles
    <2>2. /\ cur' = cur /\ orphans' \subseteq Orphaned(w)
          /\ UNCHANGED <<hstat, hopaque>>
          /\ Done(w) \/ Retry(w, FALSE)
        BY <1>1, <1>6 DEF RecheckUpper, Cancel, handleVars
    <2>3. PICK k : /\ call' = [call EXCEPT ![w] = k]
                   /\ k.pc \notin {"sent", "committed"}
        BY <2>1, <2>2, DoneRests, RetryRests DEF Rests
    <2> QED BY <1>2, <2>1, <2>2, <2>3, OtherFenceStep
<1>7. ASSUME NEW h \in SinceHandles, BeginFence(h)
      PROVE  FenceInv'
    <2> DEFINE c == Downgrade(h, hopaque[h], EpochOf[h], hsince[h])
    <2>1. /\ c.op = "compare_and_downgrade_since"
          /\ c.expected = hopaque[h] /\ c.new = EpochOf[h]
        BY DEF Downgrade
    <2>2. /\ Start(h, c) /\ hstat[h] = "opening" /\ UNCHANGED <<hstat, hopaque>>
          /\ hopaque[h] <= EpochOf[h]
        BY <1>7 DEF BeginFence, handleVars
    <2> HIDE DEF c
    <2>3. OwnsFence(h, c) /\ h \in Handles
        BY <2>1, <2>2 DEF OwnsFence, Handles
    <2> QED BY <2>1, <2>2, <2>3, FenceStarts
<1>8. ASSUME NEW h \in SinceHandles, Fenced(h)
      PROVE  FenceInv'
    <2>1. h \in Handles /\ DOMAIN call = Handles /\ DOMAIN hstat = Handles
        BY <1>1 DEF Handles, Parts, HandleVarsOK
    <2>2. /\ hstat[h] = "opening" /\ call[h].pc = "idle" /\ call' = call
          /\ cur' = cur /\ orphans' = orphans /\ hopaque' = hopaque
          /\ hstat' = [hstat EXCEPT ![h] = "halted"]
        BY <1>8 DEF Fenced
    <2>3. call'[h] = call[h] /\ \A g \in Handles \ {h} : call'[g] = call[g]
        BY <2>2
    <2>4. \A g \in SinceHandles \ {h} : hstat'[g] = hstat[g] /\ hopaque'[g] = hopaque[g]
        BY <2>1, <2>2
    <2>5. HandleFences(h)' /\ ~MayFence(h)
        BY <2>1, <2>2 DEF HandleFences, MayFence
    <2> QED BY <1>1, <1>2, <2>1, <2>2, <2>3, <2>4, <2>5, FenceStepAt
<1>9. ASSUME UNCHANGED <<cur, call, orphans, hstat, hopaque>>
      PROVE  FenceInv'
    BY <1>2, <1>9, FenceStill
<1>10. CASE \E p \in Procs : Refresh(p)
    BY <1>9, <1>10 DEF Refresh, handleVars
<1>11. CASE UNCHANGED vars
    BY <1>9, <1>11 DEF vars, handleVars
<1> QED BY <1>4, <1>5, <1>6, <1>7, <1>8, <1>10, <1>11, FenceBegins DEF Next

LEMMA InitFenceInv == Init => FenceInv
<1> SUFFICES ASSUME Init PROVE FenceInv
    OBVIOUS
<1>1. /\ \A h \in Handles : call[h].pc = "idle"
      /\ orphans = {} /\ \A h \in SinceHandles : hstat[h] = "none"
    BY HandlesAssumption DEF Init, Idle, Call, Handles
<1>2. \A s \in Known : s = cur
    BY <1>1 DEF Init, Known
<1>3. \A h \in SinceHandles : HandleFences(h)
    BY <1>1 DEF HandleFences, Handles
<1> QED BY <1>1, <1>2, <1>3 DEF FenceInv

LEMMA FenceInvariance == Spec => [](Inv /\ LogInv /\ FenceInv)
BY InitInv, NextInv, InitLogInv, NextLogInv, InitFenceInv, NextFenceInv, PTL
DEF Spec

(* A commit moves a critical reader from the epoch that was expected, for  *)
(* the owner of the epoch it stores.                                       *)
LEMMA CommitRespectsEpochs ==
    ASSUME Inv, FenceInv, NEW h \in Handles, NEW c, cur' \in Known',
           Fences(h, c, cur, cur'), VersionOK(cur),
           IsFence(c) => /\ h \in SinceHandles /\ OwnsFence(h, c)
                         /\ hstat[h] \in {"opening", "open"},
           NEW k \in DOMAIN cur.critical \cap DOMAIN cur'.critical
    PROVE  /\ cur.critical[k].opaque <= cur'.critical[k].opaque
           /\ cur.critical[k].since # cur'.critical[k].since =>
                \E g \in SinceHandles :
                  /\ CriticalIdOf[g] = k
                  /\ EpochOf[g] = cur'.critical[k].opaque
                  /\ hstat[g] \in {"opening", "open"}
<1>1. cur.critical[k].opaque \in Nat
    BY DEF VersionOK, IsShardState, IsMap, CriticalReaderState
<1>2. CASE cur'.critical[k] = cur.critical[k]
    BY <1>1, <1>2
<1>3. CASE /\ IsFence(c) /\ k = CriticalIdOf[h]
           /\ cur.critical[k].opaque = c.expected
           /\ cur'.critical[k].opaque = c.new
    BY <1>3 DEF OwnsFence
<1> QED BY <1>2, <1>3 DEF Fences

(* Epoch fencing: the epoch stored with a critical reader never goes back, *)
(* and its since is moved only by a handle of the epoch then stored that   *)
(* has not been fenced, not even by a request whose answer was lost        *)
(* (state.rs compare_and_downgrade_since, storage_collections.rs           *)
(* open_critical_handle).                                                  *)
THEOREM EpochsAreFenced == Spec => EpochsFence
<1> DEFINE A == \A c \in DOMAIN cur.critical \cap DOMAIN cur'.critical :
                  /\ cur.critical[c].opaque <= cur'.critical[c].opaque
                  /\ cur.critical[c].since # cur'.critical[c].since =>
                       \E h \in SinceHandles :
                         /\ CriticalIdOf[h] = c
                         /\ EpochOf[h] = cur'.critical[c].opaque
                         /\ hstat[h] \in {"opening", "open"}
<1>1. ASSUME Inv, LogInv, FenceInv, [Next]_vars
      PROVE  A
    <2>1. VersionOK(cur) /\ cur' \in Known'
        BY <1>1, LogTypes DEF Known
    <2>2. CASE cur' = cur
        <3>1. \A k \in DOMAIN cur.critical : cur.critical[k].opaque \in Nat
            BY <2>1 DEF VersionOK, IsShardState, IsMap, CriticalReaderState
        <3> QED BY <2>2, <3>1
    <2>3. ASSUME NEW h \in Handles, CasCommit(h) PROVE A
        <3>1. /\ Fences(h, call[h].cmd, cur, cur') /\ call[h].pc = "sent"
            BY <1>1, <2>3 DEF FenceInv, CasCommit, Commit
        <3>2. IsFence(call[h].cmd) => /\ h \in SinceHandles
                                      /\ OwnsFence(h, call[h].cmd)
                                      /\ hstat[h] \in {"opening", "open"}
            <4>1. IsFence(call[h].cmd) => h \in SinceHandles
                BY <1>1 DEF Inv, HandleFits, IsFence
            <4> QED BY <1>1, <3>1, <4>1 DEF FenceInv, HandleFences
        <3> QED BY <1>1, <2>1, <3>1, <3>2, CommitRespectsEpochs
    <2>4. ASSUME NEW o \in orphans, OrphanCommit(o) PROVE A
        <3>1. PICK h \in Handles :
                /\ IsFence(o.cmd) => MayFence(h) /\ OwnsFence(h, o.cmd)
                /\ Fences(h, o.cmd, cur, cur')
            BY <1>1, <2>4 DEF FenceInv, OrphanFences, OrphanCommit, Commit
        <3>2. IsFence(o.cmd) => /\ h \in SinceHandles /\ OwnsFence(h, o.cmd)
                                /\ hstat[h] \in {"opening", "open"}
            BY <3>1 DEF MayFence
        <3> QED BY <1>1, <2>1, <3>1, <3>2, CommitRespectsEpochs
    <2>5. \/ cur' = cur
          \/ \E h \in Handles : CasCommit(h)
          \/ \E o \in orphans : OrphanCommit(o)
        BY <1>1, BeginLeavesVersions
        DEF Next, Step, Attempt, CasMismatch, DeliverCommitted, DeliverMismatch,
            Indeterminate, RecheckUpper, Cancel, BeginFence, Fenced, Start,
            Refresh, vars
    <2> QED BY <2>2, <2>3, <2>4, <2>5
<1> QED BY <1>1, FenceInvariance, PTL DEF Spec, EpochsFence
=============================================================================
