---------------------- MODULE PersistShardHandleProofs ----------------------
(***************************************************************************)
(* Proofs about what the handles of a shard rely on, on top of LogInv and  *)
(* FenceInv: that a live reader's lease covers what its handle promises,   *)
(* and that no assertion of the command path fails.                        *)
(*                                                                         *)
(* A handle evaluates its commands on a cached version, which may be any   *)
(* committed one.  So the invariant relates the entries that the versions  *)
(* have for a writer or a reader to what that handle knows: in all known   *)
(* versions where the code asserts something on the cached one, in the     *)
(* current one and its possible successors otherwise.                      *)
(*                                                                         *)
(* On top of that come the answers to compare_and_append, and that the     *)
(* shard implements the specification its users rely on (ShardLog).  These *)
(* hold if no writer's lease runs out during its append: the entry         *)
(* that a call leaves in the state is then there as long as the call       *)
(* lasts, in every version from its execution on.  A retry is therefore    *)
(* evaluated on a version that shows the execution, or on the very one     *)
(* that the call was executed from, where it proposes the same once more   *)
(* and loses the race.                                                     *)
(***************************************************************************)
EXTENDS PersistShardLogProofs

(* The versions that Consensus would accept.                               *)
Successors == {q.st : q \in {p \in Requests : Accepted(p.st)}}

-----------------------------------------------------------------------------
(* The invariant of the versions: what is kept from one to the next.       *)

Keeps(s, t) ==
    /\ IsTombstone(s) => IsTombstone(t)
    /\ DOMAIN s.critical \subseteq DOMAIN t.critical \/ IsTombstone(t)

KeepsInv ==
    /\ \A s, t \in Known : s.seqno <= t.seqno => Keeps(s, t)
    /\ \A t \in Successors : Keeps(cur, t)

(* The invariant of the leases.                                            *)

IsRegister(c) == c.op = "register_leased_reader"
IsDowngrade(c) == c.op = "downgrade_since"

(* A reader has a lease from the commit of its registration on; what it    *)
(* holds is what it has been told, or will be.                             *)
Registered(r) == call[r].pc = "committed" /\ IsRegister(call[r].cmd)
Leasing(r) == hstat[r] = "live" \/ Registered(r)
Told(r) == IF Registered(r) THEN call[r].ret
           ELSE [since |-> hsince[r], seqno |-> hseqno[r]]

SinceLeased(v) ==
    \A r \in DOMAIN v.leased :
      Leasing(r) => v.leased[r].since <= Told(r).since
SeqnoLeased(v) ==
    \A r \in DOMAIN v.leased :
      Leasing(r) => v.leased[r].seqno <= Told(r).seqno

ReaderInv(r) ==
    call[r].pc # "idle" =>
      /\ IsRegister(call[r].cmd) =>
           /\ hstat[r] = "none"
           /\ call[r].pc = "sent" =>
                /\ call[r].ret.seqno = call[r].st.seqno
                /\ r \in DOMAIN call[r].st.leased =>
                     call[r].st.leased[r] = call[r].ret
      /\ IsDowngrade(call[r].cmd) =>
           /\ hstat[r] = "live"
           /\ call[r].cmd.since <= hsince[r]
           /\ call[r].cmd.out = hseqno[r]

LeaseInv ==
    /\ \A r \in LeasedReaders : ReaderInv(r)
    /\ \A v \in {cur} \cup Successors : SinceLeased(v)
    /\ \A v \in Known \cup Successors : SeqnoLeased(v)

(* The invariant of the assertions.                                        *)

(* What a version says of a writer's last append is in the log.            *)
OwnEntry(c) == [token |-> c.b.token, upper |-> c.b.upper]
WritersLogged(v) ==
    \A w \in DOMAIN v.writers :
      /\ v.writers[w].upper <= v.upper
      /\ \E i \in DOMAIN log : /\ log[i].token = v.writers[w].token
                               /\ log[i].upper = v.writers[w].upper
RequestEntries(q) ==
    \A w \in DOMAIN q.st.writers :
      \/ w \in DOMAIN cur.writers /\ q.st.writers[w] = cur.writers[w]
      \/ IsAppend(q.cmd) /\ q.st.writers[w] = OwnEntry(q.cmd)

(* The appends that are in the log, or may get there without their caller. *)
Landed ==
    Logged \cup {o.cmd.b.token :
                    o \in {p \in orphans : IsAppend(p.cmd) /\ Accepted(p.st)}}

Appends(w) == call[w].pc # "idle" /\ IsAppend(call[w].cmd)
IsValid(b) == b.lower < b.upper \/ (b.lower = b.upper /\ b.empty)

(* A call that knows of no indeterminate error has not been executed, and  *)
(* one that was is found out on a version at or beyond its lower.          *)
AppendOK(k, v, landed) ==
    LET b == k.cmd.b IN
    /\ b.token # Sentinel
    /\ k.pc \in {"sent", "committed", "mismatch"} \/ k.indet => IsValid(b)
    /\ k.pc = "sent" \/ b.token \in landed => b.lower <= v.upper
    /\ \/ IsTombstone(v)
       \/ /\ k.pc = "upper_mismatch" /\ b.token \in landed => b.lower < v.upper
          /\ k.pc \in {"ready", "sent", "mismatch"} /\ ~k.indet =>
               b.token \notin landed
AppendInv(w) == Appends(w) => AppendOK(call[w], Cached(w), Landed)

(* A handle of a critical reader works on versions that have the reader,   *)
(* and become_tombstone on versions whose since and upper are empty.       *)
HasReader(h, v) == CriticalIdOf[h] \in DOMAIN v.critical \/ IsTombstone(v)
SinceHandleInv(h) ==
    /\ hstat[h] \in {"opening", "open"} => HasReader(h, Cached(h))
    /\ /\ call[h].pc \in {"sent", "committed"}
       /\ call[h].cmd.op = "register_critical_reader"
       => HasReader(h, call[h].st)
FinalizerInv(h) ==
    call[h].pc # "idle" => Cached(h).since = Top /\ Cached(h).upper = Top

AssertInv ==
    /\ NoAssertFails
    /\ \A v \in Known : WritersLogged(v)
    /\ \A q \in Requests : Accepted(q.st) => RequestEntries(q)
    /\ \A w \in Writers : AppendInv(w)
    /\ \A v, w \in Writers :
         /\ Appends(v) /\ Appends(w)
         /\ call[v].cmd.b.token = call[w].cmd.b.token
         => v = w
    /\ \A h \in SinceHandles : SinceHandleInv(h)
    /\ \A h \in Finalizers : FinalizerInv(h)

-----------------------------------------------------------------------------
(* What each command does to the entries of the handles.                   *)


LeasedEntries(h, c, s, t, ret) ==
    \A r \in DOMAIN t.leased :
      \/ /\ r \in DOMAIN s.leased /\ t.leased[r] = s.leased[r]
         /\ r # h \/ ~IsRegister(c)
      \/ r = h /\ IsRegister(c) /\ t.leased[r] = ret
      \/ /\ r = h /\ IsDowngrade(c) /\ r \in DOMAIN s.leased
         /\ t.leased[r].seqno <= c.out
         /\ \/ t.leased[r].since <= c.since
            \/ t.leased[r].since = s.leased[r].since
WriterEntries(h, c, s, t) ==
    \A w \in DOMAIN t.writers :
      \/ /\ w \in DOMAIN s.writers /\ t.writers[w] = s.writers[w]
         /\ w # h \/ ~IsAppend(c)
      \/ w = h /\ IsAppend(c) /\ t.writers[w] = OwnEntry(c)
Entries(h, c, s, t, ret) ==
    /\ LeasedEntries(h, c, s, t, ret)
    /\ WriterEntries(h, c, s, t)
    /\ IsRegister(c) => ret.seqno = t.seqno
    /\ Keeps(s, t)
    /\ c.op = "register_critical_reader" =>
         CriticalIdOf[h] \in DOMAIN t.critical

LEMMA UpdateSinceFields ==
    ASSUME NEW s, Shape(s)
    PROVE  \E f : Fields(UpdateSince(s), s.seqno, f, s.upper, s.writers, s.leased,
                         s.critical, s.batches)
<1>1. CASE ReaderSinces(s) = {}
    BY <1>1 DEF UpdateSince, Shape
<1>2. CASE ReaderSinces(s) # {}
    <2>1. UpdateSince(s) = [s EXCEPT !.since = Meet(ReaderSinces(s))]
        BY <1>2 DEF UpdateSince
    <2> QED BY <2>1, SetSince
<1> QED BY <1>1, <1>2

LEMMA CompareAndAppendEntries ==
    ASSUME NEW s, Shape(s), NEW w, NEW b,
           CompareAndAppend(s, w, b).flow = "Continue"
    PROVE  LET t == CompareAndAppend(s, w, b).st IN
           /\ t.writers = Insert(s.writers, w, [token |-> b.token, upper |-> b.upper])
           /\ t.leased = s.leased /\ t.critical = s.critical /\ t.since = s.since
<1> DEFINE p == PushBatch(s, b)
           ws == Insert(s.writers, w, [token |-> b.token, upper |-> b.upper])
           t == [p EXCEPT !.writers = ws]
<1>1. CompareAndAppend(s, w, b).st = t
    BY DEF CompareAndAppend, Break, Continue, Panic
<1>2. Shape(p) /\ p.leased = s.leased /\ p.critical = s.critical /\ p.since = s.since
    <2>1. CASE b.upper = b.lower
        BY <2>1 DEF PushBatch
    <2>2. CASE b.upper # b.lower
        <3> DEFINE q == [s EXCEPT !.batches = s.batches \cup {b}]
        <3>1. p = [q EXCEPT !.upper = b.upper]
            BY <2>2 DEF PushBatch
        <3>2. Fields(q, s.seqno, s.since, s.upper, s.writers, s.leased, s.critical,
                     s.batches \cup {b})
            BY SetBatches
        <3> HIDE DEF q
        <3>3. Fields(p, q.seqno, q.since, b.upper, q.writers, q.leased, q.critical,
                     q.batches)
            BY <3>1, <3>2, ShapeOf, SetUpper
        <3> QED BY <3>2, <3>3, ShapeOf DEF Fields
    <2> QED BY <2>1, <2>2
<1> HIDE DEF p, ws
<1>3. Fields(t, p.seqno, p.since, p.upper, ws, p.leased, p.critical, p.batches)
    BY <1>2, SetWriters
<1> QED BY <1>1, <1>2, <1>3 DEF Fields, ws

LEMMA DowngradeSinceEntries ==
    ASSUME NEW s, VersionOK(s), NEW r, NEW out \in Nat, NEW f \in Frontier,
           DowngradeSince(s, r, out, f).flow = "Continue"
    PROVE  LET t == DowngradeSince(s, r, out, f).st IN
           /\ r \in DOMAIN s.leased
           /\ t.writers = s.writers /\ t.critical = s.critical
           /\ t.leased = Insert(s.leased, r, t.leased[r])
           /\ t.leased[r].seqno <= out
           /\ t.leased[r].since \in {f, s.leased[r].since}
<1> DEFINE e == [seqno |-> IF out < s.seqno THEN out ELSE s.seqno,
                 since |-> IF s.leased[r].since < f THEN f ELSE s.leased[r].since]
           u == [s EXCEPT !.leased = Insert(s.leased, r, e)]
           t == DowngradeSince(s, r, out, f).st
<1>1. t \in {u, UpdateSince(u)} /\ r \in DOMAIN s.leased
    BY DEF DowngradeSince, Break, Continue, Panic
<1>2. Fields(u, s.seqno, s.since, s.upper, s.writers, Insert(s.leased, r, e),
             s.critical, s.batches)
    BY SetLeased, VersionShape DEF VersionOK
<1>3. s.seqno \in Nat
    BY DEF VersionOK, IsShardState
<1>4. e.seqno <= out /\ e.since \in {f, s.leased[r].since}
    BY <1>3
<1> HIDE DEF e, u, t
<1>5. \E g : Fields(UpdateSince(u), u.seqno, g, u.upper, u.writers, u.leased,
                    u.critical, u.batches)
    BY <1>2, ShapeOf, UpdateSinceFields
<1>6. /\ t.writers = s.writers /\ t.critical = s.critical
      /\ t.leased = Insert(s.leased, r, e)
    BY <1>1, <1>2, <1>5 DEF Fields
<1>7. t.leased[r] = e
    BY <1>6 DEF Insert
<1> QED BY <1>1, <1>4, <1>6, <1>7 DEF t

LEMMA RegisterCriticalReaderEntries ==
    ASSUME NEW s, Shape(s), NEW c, NEW o,
           RegisterCriticalReader(s, c, o).flow = "Continue"
    PROVE  LET t == RegisterCriticalReader(s, c, o).st IN
           /\ t.writers = s.writers /\ t.leased = s.leased
           /\ DOMAIN t.critical = DOMAIN s.critical \cup {c}
<1> DEFINE t == RegisterCriticalReader(s, c, o).st
           cs == Insert(s.critical, c, [opaque |-> o, since |-> s.since])
<1>1. \/ c \in DOMAIN s.critical /\ t = s
      \/ t = [s EXCEPT !.critical = cs]
    BY DEF RegisterCriticalReader, Break, Continue
<1>2. Fields([s EXCEPT !.critical = cs], s.seqno, s.since, s.upper, s.writers,
             s.leased, cs, s.batches)
    BY SetCritical
<1>3. DOMAIN cs = DOMAIN s.critical \cup {c}
    BY DEF Insert
<1> HIDE DEF t, cs
<1>4. /\ t.writers = s.writers /\ t.leased = s.leased
      /\ DOMAIN t.critical = DOMAIN s.critical \cup {c}
    BY <1>1, <1>2, <1>3 DEF Fields
<1> QED BY <1>4 DEF t

LEMMA CompareAndDowngradeSinceEntries ==
    ASSUME NEW s, Shape(s), NEW c, NEW x, NEW n, NEW f,
           CompareAndDowngradeSince(s, c, x, n, f).flow = "Continue"
    PROVE  LET t == CompareAndDowngradeSince(s, c, x, n, f).st IN
           /\ t.writers = s.writers /\ t.leased = s.leased
           /\ DOMAIN s.critical \subseteq DOMAIN t.critical
<1> DEFINE old == s.critical[c]
           e == [opaque |-> n, since |-> IF old.since <= f THEN f ELSE old.since]
           cs == Insert(s.critical, c, e)
           u == [s EXCEPT !.critical = cs]
           t == CompareAndDowngradeSince(s, c, x, n, f).st
<1>1. t \in {s, u, UpdateSince(u)}
    BY DEF CompareAndDowngradeSince, Break, Continue, Panic
<1>2. Fields(u, s.seqno, s.since, s.upper, s.writers, s.leased, cs, s.batches)
    BY SetCritical
<1> HIDE DEF e
<1>3. DOMAIN s.critical \subseteq DOMAIN cs
    BY DEF Insert
<1> HIDE DEF cs, u, t
<1>4. \E g : Fields(UpdateSince(u), u.seqno, g, u.upper, u.writers, u.leased,
                    u.critical, u.batches)
    BY <1>2, ShapeOf, UpdateSinceFields
<1>5. /\ t.writers = s.writers /\ t.leased = s.leased
      /\ DOMAIN s.critical \subseteq DOMAIN t.critical
    BY <1>1, <1>2, <1>3, <1>4 DEF Fields
<1> QED BY <1>5 DEF t

LEMMA BecomeTombstoneEntries ==
    ASSUME NEW s, Shape(s), BecomeTombstoneAndShrink(s).flow = "Continue"
    PROVE  IsTombstone(BecomeTombstoneAndShrink(s).st)
<1> DEFINE a == [s EXCEPT !.writers = NoEntries]
           b == [a EXCEPT !.leased = NoEntries]
           s1 == [b EXCEPT !.critical = NoEntries]
           t == BecomeTombstoneAndShrink(s).st
<1>1. /\ s.upper = Top /\ s.since = Top
      /\ t = s1 \/ \E bs : t = [s1 EXCEPT !.batches = bs]
    BY DEF BecomeTombstoneAndShrink, Break, Continue, Panic
<1>2. Fields(a, s.seqno, s.since, s.upper, NoEntries, s.leased, s.critical, s.batches)
    BY SetWriters
<1> HIDE DEF a
<1>3. Fields(b, a.seqno, a.since, a.upper, a.writers, NoEntries, a.critical, a.batches)
    BY <1>2, ShapeOf, SetLeased
<1> HIDE DEF b
<1>4. Fields(s1, b.seqno, b.since, b.upper, b.writers, b.leased, NoEntries, b.batches)
    BY <1>3, ShapeOf, SetCritical
<1> HIDE DEF s1
<1>5. ASSUME NEW bs
      PROVE  Fields([s1 EXCEPT !.batches = bs], s1.seqno, s1.since, s1.upper,
                    s1.writers, s1.leased, s1.critical, bs)
    BY <1>4, ShapeOf, SetBatches
<1> HIDE DEF t
<1>6. /\ t.since = s1.since /\ t.upper = s1.upper /\ t.writers = s1.writers
      /\ t.leased = s1.leased /\ t.critical = s1.critical
    BY <1>1, <1>5 DEF Fields
<1>7. DOMAIN NoEntries = {}
    BY DEF NoEntries
<1>8. IsTombstone(t)
    BY <1>1, <1>2, <1>3, <1>4, <1>6, <1>7 DEF Fields, IsTombstone
<1> QED BY <1>8 DEF t

(* Every command, evaluated on a version in order.                         *)
LEMMA WorkFnEntries ==
    ASSUME NEW h \in Handles, NEW c \in Commands, c.op # "none", HandleFits(h, c),
           NEW s, VersionOK(s), WorkFn(h, c, s).flow = "Continue"
    PROVE  Entries(h, c, s, WorkFn(h, c, s).st, WorkFn(h, c, s).ret)
<1> DEFINE res == WorkFn(h, c, s)
           t == res.st
<1>1. Shape(s) /\ Advances(s, t)
    BY VersionShape, WorkFnAdvances DEF VersionOK
<1>2. IsTombstone(s) => IsTombstone(t)
    BY <1>1 DEF Advances
<1>3. CASE c.op = "compare_and_append"
    <2>1. /\ t.writers = Insert(s.writers, h, OwnEntry(c))
          /\ t.leased = s.leased /\ t.critical = s.critical
        BY <1>1, <1>3, CompareAndAppendEntries DEF WorkFn, OwnEntry
    <2> HIDE DEF res
    <2>2. WriterEntries(h, c, s, t)
        BY <1>3, <2>1 DEF Insert, WriterEntries, IsAppend
    <2>3. Entries(h, c, s, t, res.ret)
        BY <1>2, <1>3, <2>1, <2>2 DEF Entries, LeasedEntries, Keeps, IsRegister
    <2> QED BY <2>3 DEF res
<1>4. CASE c.op = "expire_writer"
    <2> DEFINE ws == Without(s.writers, {h})
    <2>1. t = [s EXCEPT !.writers = ws]
        BY <1>4 DEF WorkFn, ExpireWriter, Break, Continue
    <2> HIDE DEF res, ws
    <2>2. Fields(t, s.seqno, s.since, s.upper, ws, s.leased, s.critical, s.batches)
        BY <1>1, <2>1, SetWriters
    <2>3. WriterEntries(h, c, s, t)
        BY <1>4, <2>2 DEF Without, WriterEntries, Fields, ws, IsAppend
    <2>4. Entries(h, c, s, t, res.ret)
        BY <1>2, <1>4, <2>2, <2>3
        DEF Entries, LeasedEntries, Keeps, IsRegister, Fields
    <2> QED BY <2>4 DEF res
<1>5. CASE c.op = "register_leased_reader"
    <2> DEFINE e == [seqno |-> s.seqno,
                     since |-> IF c.critical THEN CriticalSince(s) ELSE s.since]
               ls == Insert(s.leased, h, e)
    <2>1. t = [s EXCEPT !.leased = ls] /\ res.ret = e
        BY <1>5 DEF WorkFn, RegisterLeasedReader, Break, Continue
    <2>2. e.seqno = s.seqno
        OBVIOUS
    <2> HIDE DEF res, ls, e
    <2>3. Fields(t, s.seqno, s.since, s.upper, s.writers, ls, s.critical, s.batches)
        BY <1>1, <2>1, SetLeased
    <2>4. LeasedEntries(h, c, s, t, res.ret)
        BY <1>5, <2>1, <2>3 DEF Insert, LeasedEntries, Fields, ls, IsRegister
    <2>5. Entries(h, c, s, t, res.ret)
        BY <1>2, <1>5, <2>1, <2>2, <2>3, <2>4
        DEF Entries, WriterEntries, Keeps, Fields, IsAppend
    <2> QED BY <2>5 DEF res
<1>6. CASE c.op = "downgrade_since"
    <2>1. c.out \in Nat /\ c.since \in Frontier
        BY <1>6, CommandFields
    <2>2. res = DowngradeSince(s, h, c.out, c.since)
        BY <1>6 DEF WorkFn
    <2>3. /\ h \in DOMAIN s.leased
          /\ t.writers = s.writers /\ t.critical = s.critical
          /\ t.leased = Insert(s.leased, h, t.leased[h])
          /\ t.leased[h].seqno <= c.out
          /\ t.leased[h].since \in {c.since, s.leased[h].since}
        <3> DEFINE out == c.out
                   f == c.since
        <3>1. out \in Nat /\ f \in Frontier
            BY <2>1
        <3> HIDE DEF out, f
        <3>2. DowngradeSince(s, h, out, f).flow = "Continue"
            BY <2>2 DEF out, f
        <3>3. LET u == DowngradeSince(s, h, out, f).st IN
              /\ h \in DOMAIN s.leased
              /\ u.writers = s.writers /\ u.critical = s.critical
              /\ u.leased = Insert(s.leased, h, u.leased[h])
              /\ u.leased[h].seqno <= out
              /\ u.leased[h].since \in {f, s.leased[h].since}
            BY <3>1, <3>2, DowngradeSinceEntries
        <3> QED BY <2>2, <3>3 DEF out, f
    <2>4. \A x \in Frontier : x <= x
        BY TopAssumption DEF Frontier
    <2> HIDE DEF res
    <2>5. LeasedEntries(h, c, s, t, res.ret)
        <3>1. /\ \A r \in DOMAIN t.leased : r \in DOMAIN s.leased
              /\ \A r \in DOMAIN t.leased \ {h} : t.leased[r] = s.leased[r]
            BY <2>3 DEF Insert
        <3>2. \/ t.leased[h].since <= c.since
              \/ t.leased[h].since = s.leased[h].since
            BY <2>1, <2>3, <2>4
        <3> QED BY <1>6, <2>3, <3>1, <3>2 DEF LeasedEntries, IsDowngrade, IsRegister
    <2>6. Entries(h, c, s, t, res.ret)
        BY <1>2, <1>6, <2>3, <2>5 DEF Entries, WriterEntries, Keeps, IsRegister, IsAppend
    <2> QED BY <2>6 DEF res
<1>7. CASE c.op = "expire_leased_reader"
    <2> DEFINE ls == Without(s.leased, {h})
    <2>1. t = [s EXCEPT !.leased = ls]
        BY <1>7 DEF WorkFn, ExpireLeasedReader, Break, Continue
    <2> HIDE DEF res, ls
    <2>2. Fields(t, s.seqno, s.since, s.upper, s.writers, ls, s.critical, s.batches)
        BY <1>1, <2>1, SetLeased
    <2>3. LeasedEntries(h, c, s, t, res.ret)
        BY <1>7, <2>2 DEF Without, LeasedEntries, Fields, ls, IsRegister
    <2>4. Entries(h, c, s, t, res.ret)
        BY <1>2, <1>7, <2>2, <2>3
        DEF Entries, WriterEntries, Keeps, IsRegister, IsAppend, Fields
    <2> QED BY <2>4 DEF res
<1>8. CASE c.op = "register_critical_reader"
    <2>1. /\ t.writers = s.writers /\ t.leased = s.leased
          /\ DOMAIN t.critical = DOMAIN s.critical \cup {CriticalIdOf[h]}
        BY <1>1, <1>8, RegisterCriticalReaderEntries DEF WorkFn
    <2> HIDE DEF res
    <2>2. Entries(h, c, s, t, res.ret)
        BY <1>2, <1>8, <2>1
        DEF Entries, LeasedEntries, WriterEntries, Keeps, IsRegister, IsAppend
    <2> QED BY <2>2 DEF res
<1>9. CASE c.op = "compare_and_downgrade_since"
    <2>1. /\ t.writers = s.writers /\ t.leased = s.leased
          /\ DOMAIN s.critical \subseteq DOMAIN t.critical
        BY <1>1, <1>9, CompareAndDowngradeSinceEntries DEF WorkFn
    <2> HIDE DEF res
    <2>2. Entries(h, c, s, t, res.ret)
        BY <1>2, <1>9, <2>1
        DEF Entries, LeasedEntries, WriterEntries, Keeps, IsRegister, IsAppend
    <2> QED BY <2>2 DEF res
<1>10. CASE c.op = "become_tombstone"
    <2>1. IsTombstone(t)
        BY <1>1, <1>10, BecomeTombstoneEntries DEF WorkFn
    <2> HIDE DEF res
    <2>2. Entries(h, c, s, t, res.ret)
        BY <1>10, <2>1
        DEF Entries, LeasedEntries, WriterEntries, Keeps, IsRegister, IsAppend, IsTombstone
    <2> QED BY <2>2 DEF res
<1> QED BY <1>3, <1>4, <1>5, <1>6, <1>7, <1>8, <1>9, <1>10, CommandFields

(* The same from the cached version to the proposal made from it.          *)
LEMMA ProposalEntries ==
    ASSUME NEW h \in Handles, NEW c \in Commands, c.op # "none", HandleFits(h, c),
           NEW s, VersionOK(s), NEW R, NEW W,
           WorkFn(h, c, NextVersion(s)).flow = "Continue"
    PROVE  LET t == ExpireAt(WorkFn(h, c, NextVersion(s)).st, R, W) IN
           /\ Entries(h, c, s, t, WorkFn(h, c, NextVersion(s)).ret)
           /\ t.seqno = s.seqno + 1 /\ VersionOK(t)
<1> DEFINE n == NextVersion(s)
           res == WorkFn(h, c, n)
           u == res.st
           v == [u EXCEPT !.leased = Without(u.leased, R)]
           t == [v EXCEPT !.writers = Without(u.writers, W)]
<1>1. /\ VersionOK(n)
      /\ IsTombstone(n) <=> IsTombstone(s)
      /\ Fields(n, s.seqno + 1, s.since, s.upper, s.writers, s.leased, s.critical,
                s.batches)
    BY NextVersionOK
<1> HIDE DEF n
<1>2. Advances(n, u) /\ Entries(h, c, n, u, res.ret)
    <2>1. res.flow = "Continue"
        BY DEF n
    <2>2. Advances(n, u)
        BY <1>1, <2>1, WorkFnAdvances
    <2>3. Entries(h, c, n, u, res.ret)
        BY <1>1, <2>1, WorkFnEntries
    <2> QED BY <2>2, <2>3
<1>3. t = ExpireAt(u, R, W)
    BY DEF ExpireAt
<1>4. VersionOK(t) /\ t.seqno = s.seqno + 1
    BY <1>2, <1>3, ExpireAtAdvances, AdvancesSucceeds DEF n
<1>5. Shape(u)
    BY <1>2, VersionShape DEF Advances, VersionOK
<1> HIDE DEF res
<1>6. Fields(v, u.seqno, u.since, u.upper, u.writers, Without(u.leased, R),
             u.critical, u.batches)
    BY <1>5, SetLeased
<1> HIDE DEF v
<1>7. Fields(t, v.seqno, v.since, v.upper, Without(u.writers, W), v.leased,
             v.critical, v.batches)
    BY <1>6, ShapeOf, SetWriters
<1> HIDE DEF t
<1>8. /\ t.since = u.since /\ t.upper = u.upper /\ t.critical = u.critical
      /\ t.leased = Without(u.leased, R) /\ t.writers = Without(u.writers, W)
      /\ t.seqno = u.seqno
    BY <1>6, <1>7 DEF Fields
<1>9. n.leased = s.leased /\ n.writers = s.writers /\ n.critical = s.critical
    BY <1>1 DEF Fields
<1>10. LeasedEntries(h, c, s, t, res.ret)
    <2>1. LeasedEntries(h, c, n, u, res.ret)
        BY <1>2 DEF Entries
    <2>2. \A r \in DOMAIN t.leased : r \in DOMAIN u.leased /\ t.leased[r] = u.leased[r]
        BY <1>8 DEF Without
    <2> QED BY <1>9, <2>1, <2>2 DEF LeasedEntries
<1>11. WriterEntries(h, c, s, t)
    <2>1. WriterEntries(h, c, n, u)
        BY <1>2 DEF Entries
    <2>2. \A w \in DOMAIN t.writers : w \in DOMAIN u.writers /\ t.writers[w] = u.writers[w]
        BY <1>8 DEF Without
    <2> QED BY <1>9, <2>1, <2>2 DEF WriterEntries
<1>12. IsTombstone(u) => IsTombstone(t)
    BY <1>8 DEF Without, IsTombstone
<1>13. Keeps(s, t)
    BY <1>1, <1>2, <1>8, <1>9, <1>12 DEF Entries, Keeps
<1>14. Entries(h, c, s, t, res.ret)
    BY <1>2, <1>8, <1>10, <1>11, <1>13 DEF Entries
<1> QED BY <1>3, <1>4, <1>14 DEF t, v, res, n

-----------------------------------------------------------------------------
(* A step is taken by one handle, commits a request, or moves a cache.     *)

ActsAsWriter(w) ==
    BeginAppend(w) \/ BeginExpireWriter(w) \/ RecheckUpper(w) \/ Cancel(w)
ActsAsReader(r) == BeginRegister(r) \/ BeginDowngrade(r) \/ BeginExpireReader(r)
ActsAsSinceHandle(h) ==
    \/ BeginOpenCritical(h) \/ BeginDowngradeCritical(h)
    \/ BeginFence(h) \/ Fenced(h)
ActsInCall(h) ==
    \/ Attempt(h) \/ CasMismatch(h) \/ DeliverCommitted(h)
    \/ DeliverMismatch(h) \/ Indeterminate(h)
Acts(h) ==
    \/ h \in Writers /\ ActsAsWriter(h)
    \/ h \in LeasedReaders /\ ActsAsReader(h)
    \/ h \in SinceHandles /\ ActsAsSinceHandle(h)
    \/ h \in Finalizers /\ BeginFinalize(h)
    \/ ActsInCall(h)

CommitsTo(q) ==
    /\ Accepted(q.st) /\ Commit(q.st, q.cmd)
    /\ cache' = cache /\ UNCHANGED <<handleVars, outcome, calls>>
    /\ orphans' \subseteq orphans
    /\ \A g \in Handles :
         /\ call'[g].cmd = call[g].cmd /\ call'[g].st = call[g].st
         /\ call'[g].ret = call[g].ret /\ call'[g].indet = call[g].indet
         /\ \/ call'[g].pc = call[g].pc
            \/ /\ call[g].pc = "sent" /\ call'[g].pc = "committed"
               /\ q = [st |-> call[g].st, cmd |-> call[g].cmd]
    /\ \/ q \in orphans
       \/ \E g \in Handles : /\ call[g].pc = "sent" /\ call'[g].pc = "committed"
                            /\ q = [st |-> call[g].st, cmd |-> call[g].cmd]

Quiet == UNCHANGED <<cur, orphans, call, handleVars, calls, log, outcome>>

LEMMA CommitSteps ==
    ASSUME Inv
    PROVE  /\ \A h \in Handles : CasCommit(h) => \E q \in Requests : CommitsTo(q)
           /\ \A o \in orphans : OrphanCommit(o) => \E q \in Requests : CommitsTo(q)
<1>1. ASSUME NEW h \in Handles, CasCommit(h)
      PROVE  \E q \in Requests : CommitsTo(q)
    <2> DEFINE q == [st |-> call[h].st, cmd |-> call[h].cmd]
    <2>1. q \in Requests
        BY <1>1 DEF Requests, CasCommit
    <2>2. q.st = call[h].st /\ q.cmd = call[h].cmd
        OBVIOUS
    <2>3. call' = [call EXCEPT ![h] = Call("committed", call[h].cmd, call[h].st,
                                           call[h].ret, call[h].indet)]
        BY <1>1, CallOf, GoToCall DEF CasCommit, GoTo
    <2>4. /\ DOMAIN call = Handles /\ call[h].pc = "sent" /\ Accepted(q.st)
          /\ Commit(q.st, q.cmd) /\ orphans' \subseteq orphans
          /\ cache' = cache /\ UNCHANGED <<handleVars, outcome, calls>>
        BY <1>1, CallOf DEF CasCommit, Cmd, Alive
    <2>5. /\ \A g \in Handles :
               /\ call'[g].cmd = call[g].cmd /\ call'[g].st = call[g].st
               /\ call'[g].ret = call[g].ret /\ call'[g].indet = call[g].indet
               /\ \/ call'[g].pc = call[g].pc
                  \/ g = h /\ call'[g].pc = "committed"
          /\ call'[h].pc = "committed"
        BY <2>3, <2>4, CallFields
    <2> HIDE DEF q
    <2>6. CommitsTo(q)
        BY <2>4, <2>5 DEF CommitsTo, q
    <2> QED BY <2>1, <2>6
<1>2. ASSUME NEW o \in orphans, OrphanCommit(o)
      PROVE  CommitsTo(o) /\ o \in Requests
    BY <1>2 DEF OrphanCommit, CommitsTo, Alive, Requests
<1> QED BY <1>1, <1>2

LEMMA HandleSteps ==
    ASSUME Inv, [Next]_vars
    PROVE  \/ \E h \in Handles : Acts(h)
           \/ \E q \in Requests : CommitsTo(q)
           \/ Quiet
<1>1. /\ Writers \subseteq Handles /\ LeasedReaders \subseteq Handles
      /\ SinceHandles \subseteq Handles /\ Finalizers \subseteq Handles
    BY DEF Handles
<1>2. CASE Begin
    <2>1. CASE \E w \in Writers : BeginAppend(w) \/ BeginExpireWriter(w)
        BY <1>1, <2>1 DEF Acts, ActsAsWriter
    <2>2. CASE \E r \in LeasedReaders :
                 BeginRegister(r) \/ BeginDowngrade(r) \/ BeginExpireReader(r)
        BY <1>1, <2>2 DEF Acts, ActsAsReader
    <2>3. CASE \E h \in SinceHandles :
                 BeginOpenCritical(h) \/ BeginDowngradeCritical(h)
        BY <1>1, <2>3 DEF Acts, ActsAsSinceHandle
    <2>4. CASE \E h \in Finalizers : BeginFinalize(h)
        BY <1>1, <2>4 DEF Acts
    <2> QED BY <1>2, <2>1, <2>2, <2>3, <2>4 DEF Begin
<1>3. CASE \E h \in Handles : Step(h) \/ Indeterminate(h)
    BY <1>3, CommitSteps DEF Step, Acts, ActsInCall
<1>4. CASE \E w \in Writers : RecheckUpper(w) \/ Cancel(w)
    BY <1>1, <1>4 DEF Acts, ActsAsWriter
<1>5. CASE \E h \in SinceHandles : BeginFence(h) \/ Fenced(h)
    BY <1>1, <1>5 DEF Acts, ActsAsSinceHandle
<1>6. CASE \E o \in orphans : OrphanCommit(o)
    BY <1>6, CommitSteps
<1>7. CASE \E p \in Procs : Refresh(p)
    BY <1>7 DEF Refresh, Quiet
<1>8. CASE UNCHANGED vars
    BY <1>8 DEF vars, Quiet
<1> QED BY <1>2, <1>3, <1>4, <1>5, <1>6, <1>7, <1>8 DEF Next

(* What a handle proposes, from a version its process knows.               *)
Proposed(h, k) ==
    /\ call[h].pc = "ready" /\ k.cmd = call[h].cmd /\ k.cmd \in Commands
    /\ k.indet = call[h].indet
    /\ WorkRes(h).flow = "Continue"
    /\ VersionOK(k.st) /\ k.st.seqno = Cached(h).seqno + 1
    /\ Entries(h, k.cmd, Cached(h), k.st, k.ret)
    /\ UNCHANGED <<cache, orphans, handleVars, calls, outcome>>

LEMMA Proposals ==
    ASSUME Inv, NEW h \in Handles, Attempt(h), Proposes(h)
    PROVE  \E k : k.pc = "sent" /\ call' = [call EXCEPT ![h] = k] /\ Proposed(h, k)
<1> DEFINE s == Cached(h)
           c == call[h].cmd
           res == WorkFn(h, c, NextVersion(s))
<1>1. /\ VersionOK(s) /\ c \in Commands /\ c.op # "none"
      /\ HandleFits(h, c) /\ call[h].pc = "ready" /\ WorkRes(h) = res
    BY CallOf DEF Attempt, Cmd, WorkRes
<1>2. res.flow = "Continue" /\ UNCHANGED <<handleVars, outcome>>
    BY <1>1 DEF Proposes
<1>3. PICK R, W :
        call' = [call EXCEPT ![h] = Call("sent", Cmd(h), ExpireAt(res.st, R, W),
                                         res.ret, call[h].indet)]
    BY <1>1 DEF Proposes
<1> DEFINE t == ExpireAt(res.st, R, W)
           k == Call("sent", c, t, res.ret, call[h].indet)
<1>4. Entries(h, c, s, t, res.ret) /\ t.seqno = s.seqno + 1 /\ VersionOK(t)
    BY <1>1, <1>2, ProposalEntries
<1>5. call' = [call EXCEPT ![h] = k]
    BY <1>3 DEF Cmd
<1>6. k.pc = "sent" /\ k.cmd = c /\ k.st = t /\ k.ret = res.ret /\ k.indet = call[h].indet
    BY CallFields
<1> HIDE DEF k, t, res, s
<1>7. Proposed(h, k)
    BY <1>1, <1>2, <1>4, <1>6 DEF Proposed, Attempt, s
<1> QED BY <1>5, <1>6, <1>7

(* The call of a handle that acts: started, proposed, or at rest.          *)
LEMMA ActsCall ==
    ASSUME Inv, NEW h \in Handles, Acts(h)
    PROVE  \/ \E c : Start(h, c)
           \/ \E k : k.pc = "sent" /\ call' = [call EXCEPT ![h] = k] /\ Proposed(h, k)
           \/ Rests(h)
           \/ call' = call /\ call[h].pc = "idle"
<1>1. CASE ActsAsWriter(h)
    BY <1>1, DoneRests, RetryRests
    DEF ActsAsWriter, BeginAppend, BeginExpireWriter, StartNew, RecheckUpper, Cancel
<1>2. CASE ActsAsReader(h)
    BY <1>2
    DEF ActsAsReader, BeginRegister, BeginDowngrade, BeginExpireReader, StartNew
<1>3. CASE ActsAsSinceHandle(h)
    BY <1>3
    DEF ActsAsSinceHandle, BeginOpenCritical, BeginDowngradeCritical, BeginFence,
        Fenced, StartNew
<1>4. CASE BeginFinalize(h)
    BY <1>4 DEF BeginFinalize, StartNew
<1>5. CASE ActsInCall(h)
    <2>1. CASE Attempt(h)
        BY <2>1, Proposals, ReturnsRests, GoToRests DEF Attempt, Panics
    <2>2. CASE CasMismatch(h)
        BY <2>2, GoToRests DEF CasMismatch
    <2>3. CASE DeliverCommitted(h)
        BY <2>3, ReturnsRests DEF DeliverCommitted
    <2>4. CASE DeliverMismatch(h) \/ Indeterminate(h)
        BY <2>4, RetryRests DEF DeliverMismatch, Indeterminate
    <2> QED BY <1>5, <2>1, <2>2, <2>3, <2>4 DEF ActsInCall
<1> QED BY <1>1, <1>2, <1>3, <1>4, <1>5 DEF Acts

(* A handle that acts leaves the shard and the other handles alone.        *)
OthersKeep(h) ==
    /\ \A g \in Handles \ {h} : hstat'[g] = hstat[g]
    /\ \A g \in (LeasedReaders \cup SinceHandles) \ {h} : hsince'[g] = hsince[g]
    /\ \A g \in LeasedReaders \ {h} : hseqno'[g] = hseqno[g]
Alone(h) ==
    /\ cur' = cur /\ log' = log
    /\ orphans' \subseteq Orphaned(h)
    /\ OthersKeep(h)
    /\ \A g \in Handles \ {h} : call'[g] = call[g]
    /\ call'[h].pc # "committed"
    /\ call'[h].pc = "sent" => Proposed(h, call'[h])

LEMMA ReturnsOthers ==
    ASSUME Inv, NEW h \in Handles, NEW r, NEW c, Returns(h, r, c)
    PROVE  OthersKeep(h)
<1>1. /\ DOMAIN hstat = Handles /\ DOMAIN hsince = LeasedReaders \cup SinceHandles
      /\ DOMAIN hseqno = LeasedReaders
    BY DEF Inv, TypeOK
<1>2. CASE UNCHANGED handleVars
    BY <1>2 DEF OthersKeep, handleVars
<1>3. CASE ReturnRegistered(h, r)
    BY <1>1, <1>3 DEF ReturnRegistered, OthersKeep, Handles
<1>4. CASE ReturnDowngraded(h, r)
    BY <1>1, <1>4 DEF ReturnDowngraded, OthersKeep
<1>5. CASE ReturnOpened(h, r)
    BY <1>1, <1>5 DEF ReturnOpened, OthersKeep
<1>6. CASE ReturnCompareAndDowngrade(h, r)
    BY <1>1, <1>6 DEF ReturnCompareAndDowngrade, OthersKeep
<1>7. CASE ReturnTombstoneStep(h, c)
    BY <1>1, <1>7 DEF ReturnTombstoneStep, OthersKeep
<1> QED BY <1>2, <1>3, <1>4, <1>5, <1>6, <1>7
        DEF Returns, ReturnAppended, ReturnAppendBreak, ReturnExpired

LEMMA ActsOthers ==
    ASSUME Inv, NEW h \in Handles, Acts(h)
    PROVE  OthersKeep(h)
<1>1. /\ DOMAIN hstat = Handles /\ DOMAIN hsince = LeasedReaders \cup SinceHandles
      /\ DOMAIN hseqno = LeasedReaders
    BY DEF Inv, TypeOK
<1>2. CASE UNCHANGED handleVars
    BY <1>2 DEF OthersKeep, handleVars
<1>3. CASE ActsAsWriter(h)
    <2>1. CASE BeginExpireWriter(h)
        BY <1>1, <2>1 DEF BeginExpireWriter, OthersKeep
    <2> QED BY <1>2, <1>3, <2>1 DEF ActsAsWriter, BeginAppend, RecheckUpper, Cancel
<1>4. CASE ActsAsReader(h)
    <2>1. CASE BeginDowngrade(h)
        BY <1>1, <2>1 DEF BeginDowngrade, OthersKeep
    <2>2. CASE BeginExpireReader(h)
        BY <1>1, <2>2 DEF BeginExpireReader, OthersKeep
    <2> QED BY <1>2, <1>4, <2>1, <2>2 DEF ActsAsReader, BeginRegister
<1>5. CASE ActsAsSinceHandle(h)
    <2>1. CASE Fenced(h)
        BY <1>1, <2>1 DEF Fenced, OthersKeep
    <2> QED BY <1>2, <1>5, <2>1
            DEF ActsAsSinceHandle, BeginOpenCritical, BeginDowngradeCritical, BeginFence
<1>6. CASE BeginFinalize(h)
    BY <1>2, <1>6 DEF BeginFinalize
<1>7. CASE ActsInCall(h)
    <2>1. CASE Attempt(h)
        BY <1>2, <2>1, ReturnsOthers DEF Attempt, Proposes, Panics
    <2>2. CASE DeliverCommitted(h)
        BY <2>2, ReturnsOthers DEF DeliverCommitted
    <2>3. CASE CasMismatch(h) \/ DeliverMismatch(h) \/ Indeterminate(h)
        BY <1>2, <2>3 DEF CasMismatch, DeliverMismatch, Indeterminate
    <2> QED BY <1>7, <2>1, <2>2, <2>3 DEF ActsInCall
<1> QED BY <1>3, <1>4, <1>5, <1>6, <1>7 DEF Acts

LEMMA ActsLeaves ==
    ASSUME Inv, NEW h \in Handles, Acts(h)
    PROVE  cur' = cur /\ log' = log /\ orphans' \subseteq Orphaned(h)
<1>1. orphans \subseteq Orphaned(h)
    BY DEF Orphaned
<1>2. CASE ActsAsWriter(h)
    BY <1>1, <1>2
    DEF ActsAsWriter, BeginAppend, BeginExpireWriter, RecheckUpper, Cancel, StartNew,
        Start
<1>3. CASE ActsAsReader(h)
    BY <1>1, <1>3
    DEF ActsAsReader, BeginRegister, BeginDowngrade, BeginExpireReader, StartNew, Start
<1>4. CASE ActsAsSinceHandle(h)
    BY <1>1, <1>4
    DEF ActsAsSinceHandle, BeginOpenCritical, BeginDowngradeCritical, BeginFence,
        Fenced, StartNew, Start
<1>5. CASE BeginFinalize(h)
    BY <1>1, <1>5 DEF BeginFinalize, StartNew, Start
<1>6. CASE ActsInCall(h)
    BY <1>1, <1>6
    DEF ActsInCall, Attempt, CasMismatch, DeliverCommitted, DeliverMismatch,
        Indeterminate
<1> QED BY <1>2, <1>3, <1>4, <1>5, <1>6 DEF Acts

LEMMA ActsAlone ==
    ASSUME Inv, NEW h \in Handles, Acts(h)
    PROVE  Alone(h)
<1>1. DOMAIN call = Handles
    BY CallOf
<1>2. CASE \E c : Start(h, c)
    <2>1. PICK c : call' = [call EXCEPT ![h] = Call("ready", c, InitialState, NoRet, FALSE)]
        BY <1>2 DEF Start
    <2>2. call'[h].pc = "ready" /\ \A g \in Handles \ {h} : call'[g] = call[g]
        BY <1>1, <2>1 DEF Call
    <2> QED BY <2>2, ActsOthers, ActsLeaves DEF Alone
<1>3. CASE \E k : k.pc = "sent" /\ call' = [call EXCEPT ![h] = k] /\ Proposed(h, k)
    <2>1. PICK k : k.pc = "sent" /\ call' = [call EXCEPT ![h] = k] /\ Proposed(h, k)
        BY <1>3
    <2>2. call'[h] = k /\ \A g \in Handles \ {h} : call'[g] = call[g]
        BY <1>1, <2>1
    <2> QED BY <2>1, <2>2, ActsOthers, ActsLeaves DEF Alone
<1>4. CASE Rests(h)
    <2>1. PICK k : /\ call' = [call EXCEPT ![h] = k]
                   /\ k.pc \notin {"sent", "committed"}
        BY <1>4 DEF Rests
    <2>2. call'[h] = k /\ \A g \in Handles \ {h} : call'[g] = call[g]
        BY <1>1, <2>1
    <2> QED BY <2>1, <2>2, ActsOthers, ActsLeaves DEF Alone
<1>5. CASE call' = call /\ call[h].pc = "idle"
    BY <1>5, ActsOthers, ActsLeaves DEF Alone
<1> QED BY <1>2, <1>3, <1>4, <1>5, ActsCall

(* The requests that may be accepted after such a step, and after a commit.*)
LEMMA AloneRequests ==
    ASSUME Inv, NEW h \in Handles, Alone(h), NEW q \in Requests', Accepted(q.st)'
    PROVE  /\ Accepted(q.st)
           /\ \/ q \in Requests
              \/ /\ Proposed(h, call'[h]) /\ call'[h].pc = "sent"
                 /\ q.st = call'[h].st /\ q.cmd = call[h].cmd /\ Cached(h) = cur
                 /\ Entries(h, call[h].cmd, cur, q.st, call'[h].ret)
                 /\ VersionOK(q.st)
<1>1. Accepted(q.st) /\ cur' = cur
    BY DEF Accepted, Alone
<1>2. CASE q \in Requests
    BY <1>1, <1>2
<1>3. CASE q \notin Requests
    <2>1. q \notin orphans'
        BY <1>3 DEF Requests, Alone, Orphaned, Cmd
    <2>2. PICK g \in Handles : /\ call'[g].pc = "sent"
                               /\ q = [st |-> call'[g].st, cmd |-> call'[g].cmd]
        BY <2>1 DEF Requests
    <2>3. g = h
        BY <1>3, <2>2 DEF Requests, Alone
    <2>4. Proposed(h, call'[h]) /\ q.st = call'[h].st
        BY <2>2, <2>3 DEF Alone
    <2>5. Cached(h) = cur
        <3>1. /\ Cached(h) \in Known /\ VersionOK(Cached(h)) /\ cur \in Known
              /\ cur.seqno \in Nat
            BY CallOf DEF Known, Inv, TypeOK, IsShardState
        <3>2. Cached(h).seqno \in Nat
            BY <3>1 DEF VersionOK, IsShardState
        <3>3. Cached(h).seqno = cur.seqno
            BY <1>1, <2>4, <3>1, <3>2 DEF Proposed, Accepted
        <3> QED BY <3>1, <3>3 DEF Inv, OneHistory
    <2> QED BY <1>1, <2>2, <2>3, <2>4, <2>5 DEF Proposed
<1> QED BY <1>2, <1>3

LEMMA AloneSuccessors ==
    ASSUME Inv, NEW h \in Handles, Alone(h)
    PROVE  \A t \in Successors' :
             \/ t \in Successors
             \/ /\ Proposed(h, call'[h]) /\ call'[h].pc = "sent" /\ t = call'[h].st
                /\ Cached(h) = cur
                /\ Entries(h, call[h].cmd, cur, t, call'[h].ret) /\ VersionOK(t)
BY AloneRequests DEF Successors

LEMMA QuietSuccessors ==
    ASSUME Quiet
    PROVE  Successors' = Successors
BY DEF Quiet, Successors, Requests, Accepted

LEMMA CommitFacts ==
    ASSUME Inv, NEW q \in Requests, CommitsTo(q)
    PROVE  /\ Successors' = {} /\ q.st \in Successors /\ cur' = q.st
           /\ VersionOK(q.st) /\ q.st.seqno = cur.seqno + 1 /\ cur.seqno \in Nat
           /\ Succeeds(cur, q.st)
           /\ Known' \subseteq Known \cup {q.st}
<1>1. /\ cur' = q.st /\ q.st \in Successors /\ q.st.seqno = cur.seqno + 1
      /\ ProposalOK(q.st) /\ cur.seqno \in Nat
    BY LogTypes DEF CommitsTo, Commit, Accepted, Successors
<1>2. Requests' \subseteq Requests
    <2> SUFFICES ASSUME NEW p \in Requests' PROVE p \in Requests
        OBVIOUS
    <2>1. CASE p \in orphans'
        BY <2>1 DEF CommitsTo, Requests
    <2>2. CASE p \notin orphans'
        <3>1. PICK g \in Handles : /\ call'[g].pc = "sent"
                                   /\ p = [st |-> call'[g].st, cmd |-> call'[g].cmd]
            BY <2>2 DEF Requests
        <3>2. /\ call[g].pc = "sent"
              /\ p = [st |-> call[g].st, cmd |-> call[g].cmd]
            BY <3>1 DEF CommitsTo
        <3> QED BY <3>2 DEF Requests
    <2> QED BY <2>1, <2>2
<1>3. Successors' = {}
    <2> SUFFICES ASSUME NEW p \in Requests', Accepted(p.st)' PROVE FALSE
        BY DEF Successors
    <2>1. ProposalOK(p.st)
        BY <1>2, LogTypes
    <2>2. p.st.seqno \in Nat /\ p.st.seqno <= cur.seqno + 1
        BY <2>1 DEF ProposalOK, VersionOK, IsShardState
    <2>3. p.st.seqno = cur'.seqno + 1
        BY DEF Accepted
    <2> QED BY <1>1, <2>2, <2>3
<1>4. Known' \subseteq Known \cup {q.st}
    <2> SUFFICES ASSUME NEW s \in Known' PROVE s \in Known \cup {q.st}
        OBVIOUS
    <2>1. CASE s = cur' \/ \E p \in Procs : s = cache'[p]
        BY <1>1, <2>1 DEF Known, CommitsTo
    <2>2. CASE \E g \in Handles : call'[g].pc = "committed" /\ s = call'[g].st
        <3>1. PICK g \in Handles : call'[g].pc = "committed" /\ s = call'[g].st
            BY <2>2
        <3>2. \/ call[g].pc = "committed" /\ s = call[g].st
              \/ q = [st |-> call[g].st, cmd |-> call[g].cmd] /\ s = call[g].st
            BY <3>1 DEF CommitsTo
        <3> QED BY <3>2 DEF Known
    <2> QED BY <2>1, <2>2 DEF Known
<1> QED BY <1>1, <1>3, <1>4 DEF ProposalOK

-----------------------------------------------------------------------------
(* The invariant of the versions is kept.                                  *)

LEMMA NextKeepsInv ==
    ASSUME Inv, \A s \in Known : IsFiniteSet(s.batches), KeepsInv, [Next]_vars
    PROVE  KeepsInv'
<1>1. cur' = cur => Known' \subseteq Known
    BY KnownSteps
<1>2. ASSUME cur' = cur, \A t \in Successors' : Keeps(cur, t)
      PROVE  KeepsInv'
    BY <1>1, <1>2 DEF KeepsInv
<1>3. CASE \E h \in Handles : Acts(h)
    <2>1. PICK h \in Handles : Acts(h)
        BY <1>3
    <2>2. Alone(h)
        BY <2>1, ActsAlone
    <2>3. \A t \in Successors' : Keeps(cur, t)
        BY <2>2, AloneSuccessors DEF KeepsInv, Entries
    <2> QED BY <1>2, <2>2, <2>3 DEF Alone
<1>4. CASE \E q \in Requests : CommitsTo(q)
    <2>1. PICK q \in Requests : CommitsTo(q)
        BY <1>4
    <2>2. /\ Successors' = {} /\ q.st \in Successors /\ cur' = q.st
          /\ q.st.seqno = cur.seqno + 1 /\ cur.seqno \in Nat
          /\ Known' \subseteq Known \cup {q.st}
        BY <2>1, CommitFacts
    <2>3. Keeps(cur, q.st)
        BY <2>2 DEF KeepsInv
    <2>4. \A s \in Known : s.seqno \in Nat /\ s.seqno <= cur.seqno /\ Keeps(s, cur)
        BY LogTypes DEF KeepsInv, Inv, OneHistory, Known, VersionOK, IsShardState
    <2>5. \A s \in Known : Keeps(s, q.st) /\ ~(q.st.seqno <= s.seqno)
        <3>1. \A s \in Known : Keeps(s, q.st)
            BY <2>3, <2>4 DEF Keeps
        <3> QED BY <2>2, <2>4, <3>1
    <2>6. Keeps(q.st, q.st)
        BY DEF Keeps
    <2>7. \A s, t \in Known' : s.seqno <= t.seqno => Keeps(s, t)
        BY <2>2, <2>5, <2>6 DEF KeepsInv
    <2> QED BY <2>2, <2>7 DEF KeepsInv
<1>5. CASE Quiet
    BY <1>2, <1>5, QuietSuccessors DEF Quiet, KeepsInv
<1> QED BY <1>3, <1>4, <1>5, HandleSteps

LEMMA InitKeepsInv == Init => KeepsInv
<1> SUFFICES ASSUME Init PROVE KeepsInv
    OBVIOUS
<1>1. \A h \in Handles : call[h].pc = "idle"
    BY DEF Init, Idle, Call
<1>2. \A s \in Known : s = cur
    BY <1>1 DEF Init, Known
<1>3. Successors = {}
    BY <1>1 DEF Init, Successors, Requests
<1>4. Keeps(cur, cur)
    BY DEF Keeps
<1> QED BY <1>2, <1>3, <1>4 DEF KeepsInv

-----------------------------------------------------------------------------
(* The invariant of the leases is kept.                                    *)

(* A reader's entry in a version, and what its handle was told.            *)
LEMMA LeaseTypes ==
    ASSUME Inv
    PROVE  /\ \A r \in LeasedReaders :
                /\ hsince[r] \in Nat /\ hseqno[r] \in Nat
                /\ Told(r).since \in Nat /\ Told(r).seqno \in Nat
           /\ \A v, r : VersionOK(v) /\ r \in DOMAIN v.leased =>
                /\ r \in LeasedReaders
                /\ v.leased[r].since \in Nat /\ v.leased[r].seqno \in Nat
                /\ v.leased[r].seqno <= v.seqno /\ v.seqno \in Nat
<1>1. ASSUME NEW r \in LeasedReaders
      PROVE  /\ hsince[r] \in Nat /\ hseqno[r] \in Nat
             /\ Told(r).since \in Nat /\ Told(r).seqno \in Nat
    <2>1. hsince[r] \in Nat /\ hseqno[r] \in Nat
        BY TopAssumption DEF Inv, TypeOK, Frontier
    <2>2. CASE Registered(r)
        <3>1. RetFits(call[r].cmd, call[r].ret)
            BY <2>2 DEF Registered, Inv, Handles
        <3>2. call[r].ret \in LeasedReaderState
            BY <2>2, <3>1 DEF RetFits, Registered, IsRegister
        <3> QED BY <2>1, <2>2, <3>2, TopAssumption
                DEF Told, LeasedReaderState, Frontier
    <2>3. CASE ~Registered(r)
        BY <2>1, <2>3 DEF Told
    <2> QED BY <2>1, <2>2, <2>3
<1>2. ASSUME NEW v, NEW r, VersionOK(v), r \in DOMAIN v.leased
      PROVE  /\ r \in LeasedReaders
             /\ v.leased[r].since \in Nat /\ v.leased[r].seqno \in Nat
             /\ v.leased[r].seqno <= v.seqno /\ v.seqno \in Nat
    BY <1>2, TopAssumption
    DEF VersionOK, IsShardState, IsMap, LeasedReaderState, Frontier
<1> QED BY <1>1, <1>2

(* What a reader that acts does to its own lease: it learns of what it     *)
(* holds already, moves it forward, gives it up, or finds a tombstone.     *)
HoldsOn(r) ==
    Leasing(r)' =>
      \/ /\ Leasing(r)
         /\ Told(r).since <= Told(r)'.since
         /\ Told(r).seqno <= Told(r)'.seqno
      \/ /\ IsTombstone(Cached(r))
         /\ Told(r)'.seqno = Cached(r).seqno + 1

(* A step that leaves hsince and hseqno alone, and makes nobody live.      *)
LEMMA HoldsSame ==
    ASSUME Inv, NEW r \in LeasedReaders,
           hstat'[r] = "live" => hstat[r] = "live",
           hsince'[r] = hsince[r], hseqno'[r] = hseqno[r],
           call'[r].pc # "committed", ~Registered(r)
    PROVE  HoldsOn(r)
<1>1. /\ Leasing(r)' => Leasing(r)
      /\ Told(r)' = Told(r)
    BY DEF Leasing, Told, Registered
<1> QED BY <1>1, LeaseTypes DEF HoldsOn

LEMMA ReaderIdle ==
    ASSUME NEW r, call'[r].pc = "idle"
    PROVE  ReaderInv(r)'
BY DEF ReaderInv

LEMMA ReaderSameCall ==
    ASSUME NEW r, ReaderInv(r), call[r].pc # "idle",
           call'[r].cmd = call[r].cmd, call'[r].pc # "sent",
           hstat'[r] = hstat[r], hsince'[r] = hsince[r], hseqno'[r] = hseqno[r]
    PROVE  ReaderInv(r)'
BY DEF ReaderInv

LEMMA ReaderStarts ==
    ASSUME Inv, NEW r \in LeasedReaders, NEW c, Start(r, c),
           hstat'[r] = "live" => hstat[r] = "live",
           hsince[r] <= hsince'[r], hseqno[r] <= hseqno'[r],
           IsRegister(c) => hstat'[r] = "none",
           IsDowngrade(c) => /\ hstat'[r] = "live"
                             /\ c.since <= hsince'[r] /\ c.out = hseqno'[r]
    PROVE  ReaderInv(r)' /\ HoldsOn(r)
<1>1. DOMAIN call = Handles /\ r \in Handles
    BY DEF Inv, TypeOK, Handles
<1>2. call'[r].pc = "ready" /\ call'[r].cmd = c /\ call[r].pc = "idle"
    BY <1>1 DEF Start, Call
<1>3. ReaderInv(r)'
    BY <1>2 DEF ReaderInv
<1>4. /\ Leasing(r)' => Leasing(r)
      /\ Told(r)' = [since |-> hsince'[r], seqno |-> hseqno'[r]]
      /\ Told(r) = [since |-> hsince[r], seqno |-> hseqno[r]]
    BY <1>2 DEF Leasing, Told, Registered
<1> QED BY <1>3, <1>4 DEF HoldsOn

LEMMA ReaderReturns ==
    ASSUME Inv, NEW r \in LeasedReaders, ReaderInv(r), call[r].pc # "idle",
           NEW x, NEW c \in BOOLEAN, Returns(r, x, c), RetFits(call[r].cmd, x),
           \/ call[r].pc = "committed" /\ x = call[r].ret
           \/ /\ call[r].pc = "ready"
              /\ IsRegister(call[r].cmd) => /\ IsTombstone(Cached(r))
                                            /\ x.seqno = Cached(r).seqno + 1
    PROVE  ReaderInv(r)' /\ HoldsOn(r)
<1>1. /\ r \in Handles /\ DOMAIN call = Handles /\ DOMAIN hstat = Handles
      /\ DOMAIN hsince = LeasedReaders \cup SinceHandles
      /\ DOMAIN hseqno = LeasedReaders
      /\ HandleFits(r, Cmd(r)) /\ Cmd(r) \in Commands /\ Cmd(r).op # "none"
    BY CallOf DEF Inv, TypeOK, Handles
<1>2. Cmd(r).op \in {"register_leased_reader", "downgrade_since",
                     "expire_leased_reader"}
    BY <1>1, CommandFields, HandlesAssumption DEF HandleFits
<1>3. /\ Done(r) => call'[r] = Idle
      /\ Idle.pc = "idle"
    BY <1>1 DEF Done, Idle, Call
<1>4. CASE Cmd(r).op = "register_leased_reader"
    <2>1. ReturnRegistered(r, x) /\ x \in LeasedReaderState
        BY <1>4 DEF Returns, RetFits, Cmd
    <2>2. /\ hsince'[r] = x.since /\ hseqno'[r] = x.seqno /\ call'[r].pc = "idle"
        BY <1>1, <1>3, <2>1 DEF ReturnRegistered
    <2>3. Told(r)' = [since |-> x.since, seqno |-> x.seqno]
        BY <2>2 DEF Told, Registered
    <2>4. Told(r)'.since = x.since /\ Told(r)'.seqno = x.seqno
        BY <2>3
    <2>5. CASE call[r].pc = "committed" /\ x = call[r].ret
        <3>1. Registered(r) /\ Told(r) = x
            BY <1>4, <2>5 DEF Registered, Told, IsRegister, Cmd
        <3> QED BY <2>2, <2>4, <3>1, LeaseTypes, ReaderIdle DEF HoldsOn, Leasing
    <2>6. CASE IsTombstone(Cached(r)) /\ x.seqno = Cached(r).seqno + 1
        BY <2>2, <2>4, <2>6, ReaderIdle DEF HoldsOn
    <2> QED BY <1>4, <2>5, <2>6 DEF IsRegister, Cmd
<1>5. CASE Cmd(r).op # "register_leased_reader"
    <2>1. ReturnDowngraded(r, x) \/ ReturnExpired(r)
        BY <1>2, <1>5 DEF Returns
    <2>2. /\ hstat'[r] = "live" => hstat[r] = "live"
          /\ hsince'[r] = hsince[r] /\ hseqno'[r] = hseqno[r]
          /\ call'[r].pc = "idle"
        BY <1>1, <1>3, <2>1 DEF ReturnDowngraded, ReturnExpired, handleVars
    <2>3. ~Registered(r)
        BY <1>5 DEF Registered, IsRegister, Cmd
    <2> QED BY <2>2, <2>3, HoldsSame, ReaderIdle
<1> QED BY <1>4, <1>5

LEMMA ReaderActs ==
    ASSUME Inv, NEW r \in LeasedReaders, ReaderInv(r), Acts(r)
    PROVE  ReaderInv(r)' /\ HoldsOn(r)
<1>1. /\ r \in Handles /\ r \notin Writers /\ r \notin SinceHandles
      /\ r \notin Finalizers /\ DOMAIN call = Handles /\ DOMAIN hstat = Handles
      /\ DOMAIN hsince = LeasedReaders \cup SinceHandles
      /\ DOMAIN hseqno = LeasedReaders
    BY HandlesAssumption DEF Inv, TypeOK, Handles
<1>2. hsince[r] \in Nat /\ hseqno[r] \in Nat
    BY LeaseTypes
<1>3. ASSUME call'[r].cmd = call[r].cmd,
             call'[r].pc \notin {"sent", "committed"},
             call[r].pc # "idle", UNCHANGED handleVars
      PROVE  ReaderInv(r)' /\ HoldsOn(r)
    <2>1. /\ hstat'[r] = hstat[r] /\ hsince'[r] = hsince[r]
          /\ hseqno'[r] = hseqno[r]
        BY <1>3 DEF handleVars
    <2>2. CASE Registered(r)
        <3>1. hstat[r] = "none"
            BY <1>3, <2>2 DEF Registered, ReaderInv
        <3> QED BY <1>3, <2>1, <3>1, ReaderSameCall
                DEF HoldsOn, Leasing, Registered
    <2>3. CASE ~Registered(r)
        BY <1>3, <2>1, <2>3, ReaderSameCall, HoldsSame
    <2> QED BY <2>2, <2>3
<1>4. ASSUME GoesOn(r), call[r].pc # "idle", UNCHANGED handleVars
      PROVE  ReaderInv(r)' /\ HoldsOn(r)
    BY <1>1, <1>3, <1>4 DEF GoesOn
<1>5. CASE BeginRegister(r)
    <2>1. PICK x \in BOOLEAN :
            Start(r, [op |-> "register_leased_reader", critical |-> x])
        BY <1>5 DEF BeginRegister, StartNew
    <2> DEFINE c == [op |-> "register_leased_reader", critical |-> x]
    <2>2. IsRegister(c) /\ ~IsDowngrade(c)
        BY DEF IsRegister, IsDowngrade
    <2> HIDE DEF c
    <2>3. /\ hstat'[r] = "none" /\ hstat[r] = "none" /\ hsince'[r] = hsince[r]
          /\ hseqno'[r] = hseqno[r] /\ Start(r, c)
        BY <1>5, <2>1 DEF BeginRegister, handleVars, c
    <2> QED BY <1>2, <2>2, <2>3, ReaderStarts
<1>6. CASE BeginDowngrade(r)
    <2>1. PICK s \in hsince[r] .. Top,
               out \in {hseqno[r]} \cup (hseqno[r] .. Cached(r).seqno) :
            /\ Start(r, [op |-> "downgrade_since", since |-> s, out |-> out])
            /\ hsince' = [hsince EXCEPT ![r] = s]
            /\ hseqno' = [hseqno EXCEPT ![r] = out]
        BY <1>6 DEF BeginDowngrade, StartNew
    <2> DEFINE c == [op |-> "downgrade_since", since |-> s, out |-> out]
    <2>2. ~IsRegister(c) /\ IsDowngrade(c) /\ c.since = s /\ c.out = out
        BY DEF IsRegister, IsDowngrade
    <2> HIDE DEF c
    <2>3. Cached(r).seqno \in Nat /\ Top \in Nat
        BY <1>1, CallOf, TopAssumption DEF VersionOK, IsShardState
    <2>4. s <= s /\ hsince[r] <= s /\ out <= out /\ hseqno[r] <= out
        BY <1>2, <2>1, <2>3
    <2>5. /\ hstat'[r] = "live" /\ hstat[r] = "live" /\ hsince'[r] = s
          /\ hseqno'[r] = out /\ Start(r, c)
        BY <1>1, <1>6, <2>1 DEF BeginDowngrade, c
    <2> QED BY <2>2, <2>4, <2>5, ReaderStarts
<1>7. CASE BeginExpireReader(r)
    <2> DEFINE c == [op |-> "expire_leased_reader"]
    <2>1. ~IsRegister(c) /\ ~IsDowngrade(c)
        BY DEF IsRegister, IsDowngrade
    <2> HIDE DEF c
    <2>2. /\ hstat'[r] = "gone" /\ hsince'[r] = hsince[r]
          /\ hseqno'[r] = hseqno[r] /\ Start(r, c)
        BY <1>1, <1>7 DEF BeginExpireReader, StartNew, c
    <2> QED BY <1>2, <2>1, <2>2, ReaderStarts
<1>8. CASE Attempt(r)
    <2> DEFINE res == WorkRes(r)
               n == NextVersion(Cached(r))
    <2>1. /\ res = WorkFn(r, call[r].cmd, n) /\ call[r].pc = "ready"
          /\ VersionOK(n) /\ HandleFits(r, call[r].cmd) /\ call[r].cmd \in Commands
          /\ call[r].cmd.op # "none" /\ n.seqno = Cached(r).seqno + 1
          /\ IsTombstone(n) => IsTombstone(Cached(r))
        BY <1>1, <1>8, CallOf, NextVersionOK DEF Attempt, WorkRes, Cmd, Fields
    <2> HIDE DEF n
    <2>2. CASE Proposes(r)
        <3>1. PICK k : /\ k.pc = "sent" /\ call' = [call EXCEPT ![r] = k]
                       /\ Proposed(r, k)
            BY <1>1, <1>8, <2>2, Proposals
        <3>2. /\ call'[r] = k /\ hstat'[r] = hstat[r]
              /\ hsince'[r] = hsince[r] /\ hseqno'[r] = hseqno[r]
              /\ Entries(r, k.cmd, Cached(r), k.st, k.ret) /\ k.cmd = call[r].cmd
            BY <1>1, <3>1 DEF Proposed, handleVars
        <3>3. ReaderInv(r)'
            BY <2>1, <3>1, <3>2 DEF ReaderInv, Entries, LeasedEntries, IsRegister,
                                    IsDowngrade
        <3> QED BY <2>1, <3>1, <3>2, <3>3, HoldsSame DEF Registered
    <2>3. CASE res.flow = "Break" /\ Returns(r, res.ret, FALSE)
        <3>1. RetFits(call[r].cmd, res.ret)
            BY <1>1, <2>1, <2>3, WorkFnAdvances
        <3>2. ASSUME IsRegister(call[r].cmd)
              PROVE  IsTombstone(Cached(r)) /\ res.ret.seqno = Cached(r).seqno + 1
            <4>1. res = RegisterLeasedReader(n, r, call[r].cmd.critical)
                BY <2>1, <3>2 DEF WorkFn, IsRegister
            <4>2. IsTombstone(n) /\ res.ret.seqno = n.seqno
                BY <2>3, <4>1 DEF RegisterLeasedReader, Break, Continue
            <4> QED BY <2>1, <4>2
        <3> HIDE DEF res
        <3> QED BY <2>1, <2>3, <3>1, <3>2, ReaderReturns
    <2>4. CASE Panics(r)
        BY <1>1, <1>4, <2>1, <2>4, GoToGoesOn DEF Panics
    <2> QED BY <1>8, <2>2, <2>3, <2>4 DEF Attempt
<1>9. CASE DeliverCommitted(r)
    <2>1. Returns(r, call[r].ret, TRUE) /\ call[r].pc = "committed"
        BY <1>9 DEF DeliverCommitted
    <2>2. RetFits(call[r].cmd, call[r].ret)
        BY <1>1, <2>1 DEF Inv
    <2> QED BY <2>1, <2>2, ReaderReturns
<1>10. CASE CasMismatch(r)
    BY <1>1, <1>4, <1>10, GoToGoesOn DEF CasMismatch
<1>11. CASE DeliverMismatch(r) \/ Indeterminate(r)
    BY <1>1, <1>4, <1>11, RetryGoesOn DEF DeliverMismatch, Indeterminate
<1> QED BY <1>1, <1>5, <1>6, <1>7, <1>8, <1>9, <1>10, <1>11
        DEF Acts, ActsAsReader, ActsInCall

LEMMA LeaseTypesNext ==
    ASSUME Inv', NEW r \in LeasedReaders
    PROVE  Told(r)'.since \in Nat /\ Told(r)'.seqno \in Nat
<1>1. hsince'[r] \in Nat /\ hseqno'[r] \in Nat
    BY TopAssumption DEF Inv, TypeOK, Frontier
<1>2. CASE Registered(r)'
    <2>1. RetFits(call[r].cmd, call[r].ret)'
        BY <1>2 DEF Registered, Inv, Handles
    <2>2. call'[r].ret \in LeasedReaderState
        BY <1>2, <2>1 DEF RetFits, Registered, IsRegister
    <2> QED BY <1>2, <2>2, TopAssumption DEF Told, LeasedReaderState, Frontier
<1>3. CASE ~Registered(r)'
    BY <1>1, <1>3 DEF Told
<1> QED BY <1>2, <1>3

(* A step that commits nothing: the holds that the versions had before.    *)
LEMMA AloneHolds ==
    ASSUME Inv, Inv', KeepsInv, LeaseInv, \A r \in LeasedReaders : HoldsOn(r)
    PROVE  /\ \A v \in {cur} \cup Successors : SinceLeased(v)'
           /\ \A v \in Known \cup Successors : SeqnoLeased(v)'
<1>1. /\ cur \in Known /\ \A v \in Known \cup Successors : VersionOK(v)
    BY LogTypes DEF Known, Successors, ProposalOK
<1>2. ASSUME NEW r \in LeasedReaders, NEW v \in Known \cup Successors,
             IsTombstone(Cached(r)), r \in DOMAIN v.leased
      PROVE  /\ v \notin Successors /\ v # cur
             /\ v.leased[r].seqno <= Cached(r).seqno + 1
    <2>1. r \in Handles
        BY DEF Handles
    <2>2. /\ Cached(r) \in Known /\ VersionOK(Cached(r))
          /\ Cached(r).seqno <= cur.seqno
        BY <2>1, CallOf DEF Inv, OneHistory
    <2>3. IsTombstone(cur)
        BY <1>1, <1>2, <2>2 DEF KeepsInv, Keeps
    <2>4. ~IsTombstone(v)
        BY <1>2 DEF IsTombstone
    <2>5. v \notin Successors
        BY <2>3, <2>4 DEF KeepsInv, Keeps
    <2>6. ~(Cached(r).seqno <= v.seqno)
        BY <1>2, <2>2, <2>4, <2>5 DEF KeepsInv, Keeps
    <2>7. v.leased[r].seqno \in Nat /\ v.seqno \in Nat /\ v.leased[r].seqno <= v.seqno
        BY <1>1, <1>2, LeaseTypes
    <2>8. Cached(r).seqno \in Nat
        BY <2>2 DEF VersionOK, IsShardState
    <2> QED BY <2>3, <2>4, <2>5, <2>6, <2>7, <2>8
<1>3. \A r \in LeasedReaders : Leasing(r)' /\ ~IsTombstone(Cached(r)) =>
        /\ Leasing(r)
        /\ Told(r).since <= Told(r)'.since /\ Told(r).seqno <= Told(r)'.seqno
    BY DEF HoldsOn
<1>4. \A r \in LeasedReaders : Leasing(r)' =>
        \/ /\ Leasing(r)
           /\ Told(r).since <= Told(r)'.since /\ Told(r).seqno <= Told(r)'.seqno
        \/ IsTombstone(Cached(r)) /\ Told(r)'.seqno = Cached(r).seqno + 1
    BY DEF HoldsOn
<1>5. ASSUME NEW v \in {cur} \cup Successors, NEW r \in DOMAIN v.leased, Leasing(r)'
      PROVE  v.leased[r].since <= Told(r)'.since
    <2>1. /\ r \in LeasedReaders /\ v.leased[r].since \in Nat /\ Told(r).since \in Nat
        BY <1>1, LeaseTypes
    <2>2. ~IsTombstone(Cached(r))
        BY <1>1, <1>2, <2>1
    <2>3. v.leased[r].since <= Told(r).since /\ Told(r).since <= Told(r)'.since
        BY <1>3, <1>5, <2>1, <2>2 DEF LeaseInv, SinceLeased
    <2> QED BY <2>1, <2>3, LeaseTypesNext
<1>6. ASSUME NEW v \in Known \cup Successors, NEW r \in DOMAIN v.leased, Leasing(r)'
      PROVE  v.leased[r].seqno <= Told(r)'.seqno
    <2>1. /\ r \in LeasedReaders /\ v.leased[r].seqno \in Nat /\ Told(r).seqno \in Nat
        BY <1>1, LeaseTypes
    <2>2. CASE Leasing(r) /\ Told(r).seqno <= Told(r)'.seqno
        BY <2>1, <2>2, LeaseTypesNext DEF LeaseInv, SeqnoLeased
    <2>3. CASE IsTombstone(Cached(r)) /\ Told(r)'.seqno = Cached(r).seqno + 1
        BY <1>2, <2>1, <2>3
    <2> QED BY <1>4, <1>6, <2>1, <2>2, <2>3
<1> QED BY <1>5, <1>6 DEF SinceLeased, SeqnoLeased

LEMMA OthersHold ==
    ASSUME Inv, NEW r \in LeasedReaders, call'[r] = call[r], hstat'[r] = hstat[r],
           hsince'[r] = hsince[r], hseqno'[r] = hseqno[r]
    PROVE  /\ HoldsOn(r)
           /\ ReaderInv(r) => ReaderInv(r)'
<1>1. Told(r)' = Told(r) /\ Leasing(r)' = Leasing(r)
    BY DEF Told, Leasing, Registered
<1> QED BY <1>1, LeaseTypes DEF HoldsOn, ReaderInv

(* A new proposal from the current version respects the leases as well.    *)
LEMMA ProposalHolds ==
    ASSUME Inv, Inv', LeaseInv, NEW h \in Handles, Alone(h), Proposed(h, call'[h]),
           call'[h].pc = "sent", NEW t, VersionOK(t),
           Entries(h, call[h].cmd, cur, t, call'[h].ret),
           SinceLeased(cur)', SeqnoLeased(cur)'
    PROVE  SinceLeased(t)' /\ SeqnoLeased(t)'
<1> DEFINE c == call[h].cmd
<1>1. ASSUME NEW r \in DOMAIN t.leased, Leasing(r)'
      PROVE  /\ t.leased[r].since <= Told(r)'.since
             /\ t.leased[r].seqno <= Told(r)'.seqno
    <2>1. /\ r \in LeasedReaders /\ t.leased[r].since \in Nat
          /\ t.leased[r].seqno \in Nat
          /\ Told(r)'.since \in Nat /\ Told(r)'.seqno \in Nat
        BY LeaseTypes, LeaseTypesNext
    <2>2. ASSUME r \in DOMAIN cur.leased
          PROVE  /\ cur.leased[r].since <= Told(r)'.since
                 /\ cur.leased[r].seqno <= Told(r)'.seqno
        <3>1. cur' = cur
            BY DEF Alone
        <3> QED BY <1>1, <2>2, <3>1 DEF SinceLeased, SeqnoLeased
    <2>3. LeasedEntries(h, c, cur, t, call'[h].ret)
        BY DEF Entries
    <2>4. CASE r \in DOMAIN cur.leased /\ t.leased[r] = cur.leased[r]
        BY <2>2, <2>4
    <2>5. CASE r = h
        <3>1. ReaderInv(h) /\ call[h].pc = "ready"
            BY <2>1, <2>5 DEF LeaseInv, Proposed
        <3>2. /\ hstat'[h] = hstat[h] /\ hsince'[h] = hsince[h]
              /\ hseqno'[h] = hseqno[h]
            BY DEF Proposed, handleVars
        <3>3. Told(h)'.since = hsince[h] /\ Told(h)'.seqno = hseqno[h]
            BY <3>2 DEF Told, Registered
        <3>4. ~IsRegister(c)
            BY <1>1, <2>5, <3>1, <3>2 DEF ReaderInv, Leasing, Registered
        <3>5. CASE IsDowngrade(c)
            <4>1. /\ c.since <= hsince[h] /\ c.out <= hseqno[h]
                  /\ c.since \in Nat /\ c.out \in Nat
                <5>1. c \in Commands
                    BY CallOf DEF Cmd
                <5> QED BY <3>1, <3>5, <5>1, CommandFields, TopAssumption
                        DEF ReaderInv, IsDowngrade, Frontier
            <4>2. \/ /\ r \in DOMAIN cur.leased
                     /\ t.leased[r].seqno <= c.out
                     /\ \/ t.leased[r].since <= c.since
                        \/ t.leased[r].since = cur.leased[r].since
                  \/ r \in DOMAIN cur.leased /\ t.leased[r] = cur.leased[r]
                BY <2>3, <2>5, <3>4, <3>5 DEF LeasedEntries
            <4> QED BY <2>1, <2>2, <2>4, <2>5, <3>3, <4>1, <4>2
        <3>6. CASE ~IsDowngrade(c)
            BY <2>3, <2>4, <3>4, <3>6 DEF LeasedEntries
        <3> QED BY <3>5, <3>6
    <2> QED BY <2>3, <2>4, <2>5 DEF LeasedEntries
<1> QED BY <1>1 DEF SinceLeased, SeqnoLeased

LEMMA CommitHolds ==
    ASSUME Inv, LeaseInv, NEW q \in Requests, CommitsTo(q)
    PROVE  LeaseInv'
<1>1. /\ Successors' = {} /\ q.st \in Successors /\ cur' = q.st
      /\ VersionOK(q.st) /\ q.st.seqno = cur.seqno + 1 /\ cur.seqno \in Nat
      /\ Known' \subseteq Known \cup {q.st}
    BY CommitFacts
<1>2. UNCHANGED <<hstat, hsince, hseqno>> /\ LeasedReaders \subseteq Handles
    BY DEF CommitsTo, handleVars, Handles
<1>3. \A r \in LeasedReaders : ReaderInv(r)'
    BY <1>2 DEF CommitsTo, LeaseInv, ReaderInv
<1>4. ASSUME NEW r \in LeasedReaders, Leasing(r)'
      PROVE  \/ Leasing(r) /\ Told(r)' = Told(r)
             \/ /\ Told(r)' = call[r].ret /\ call[r].ret.seqno = q.st.seqno
                /\ r \in DOMAIN q.st.leased => q.st.leased[r] = call[r].ret
    <2>1. CASE call'[r].pc = call[r].pc
        BY <1>2, <1>4, <2>1 DEF CommitsTo, Leasing, Told, Registered
    <2>2. CASE call'[r].pc # call[r].pc
        <3>1. /\ call[r].pc = "sent" /\ call'[r].pc = "committed"
              /\ q = [st |-> call[r].st, cmd |-> call[r].cmd]
              /\ call'[r].cmd = call[r].cmd /\ call'[r].ret = call[r].ret
            BY <1>2, <2>2 DEF CommitsTo
        <3>2. q.st = call[r].st
            BY <3>1
        <3>3. CASE IsRegister(call[r].cmd)
            <4>1. Told(r)' = call[r].ret
                BY <3>1, <3>3 DEF Told, Registered
            <4> QED BY <3>1, <3>2, <3>3, <4>1 DEF LeaseInv, ReaderInv
        <3>4. CASE ~IsRegister(call[r].cmd)
            BY <1>2, <1>4, <3>1, <3>4 DEF Leasing, Told, Registered
        <3> QED BY <3>3, <3>4
    <2> QED BY <2>1, <2>2
<1>5. SinceLeased(q.st)'
    <2> SUFFICES ASSUME NEW r \in DOMAIN q.st.leased, Leasing(r)'
                 PROVE  q.st.leased[r].since <= Told(r)'.since
        BY DEF SinceLeased
    <2>1. r \in LeasedReaders /\ q.st.leased[r].since \in Nat
        BY <1>1, LeaseTypes
    <2> QED BY <1>1, <1>4, <2>1 DEF LeaseInv, SinceLeased
<1>6. ASSUME NEW v \in Known' PROVE SeqnoLeased(v)'
    <2> SUFFICES ASSUME NEW r \in DOMAIN v.leased, Leasing(r)'
                 PROVE  v.leased[r].seqno <= Told(r)'.seqno
        BY DEF SeqnoLeased
    <2>1. VersionOK(v) /\ (v \in Known \/ v = q.st)
        BY <1>1, LogTypes
    <2>2. /\ r \in LeasedReaders /\ v.leased[r].seqno \in Nat /\ v.seqno \in Nat
          /\ v.leased[r].seqno <= v.seqno
        BY <2>1, LeaseTypes
    <2>3. v \in Known => v.seqno <= cur.seqno
        BY DEF Inv, OneHistory
    <2> QED BY <1>1, <1>4, <2>1, <2>2, <2>3 DEF LeaseInv, SeqnoLeased
<1> QED BY <1>1, <1>3, <1>5, <1>6 DEF LeaseInv

LEMMA NextLeaseInv ==
    ASSUME Inv, Inv', \A s \in Known : IsFiniteSet(s.batches), KeepsInv, LeaseInv,
           [Next]_vars
    PROVE  LeaseInv'
<1>1. cur' = cur => Known' \subseteq Known
    BY KnownSteps
<1>2. CASE \E h \in Handles : Acts(h)
    <2>1. PICK h \in Handles : Acts(h)
        BY <1>2
    <2>2. Alone(h)
        BY <2>1, ActsAlone
    <2>3. \A r \in LeasedReaders : ReaderInv(r)' /\ HoldsOn(r)
        <3> SUFFICES ASSUME NEW r \in LeasedReaders PROVE ReaderInv(r)' /\ HoldsOn(r)
            OBVIOUS
        <3>1. ReaderInv(r) /\ r \in Handles
            BY DEF LeaseInv, Handles
        <3>2. CASE r = h
            BY <2>1, <3>1, <3>2, ReaderActs
        <3>3. CASE r # h
            BY <2>2, <3>1, <3>3, OthersHold DEF Alone, OthersKeep
        <3> QED BY <3>2, <3>3
    <2>4. /\ \A v \in {cur} \cup Successors : SinceLeased(v)'
          /\ \A v \in Known \cup Successors : SeqnoLeased(v)'
        BY <2>3, AloneHolds
    <2>5. \A t \in Successors' : SinceLeased(t)' /\ SeqnoLeased(t)'
        <3> SUFFICES ASSUME NEW t \in Successors'
                     PROVE  SinceLeased(t)' /\ SeqnoLeased(t)'
            OBVIOUS
        <3>1. CASE t \in Successors
            BY <2>4, <3>1
        <3>2. CASE t \notin Successors
            <4>1. /\ Proposed(h, call'[h]) /\ call'[h].pc = "sent" /\ VersionOK(t)
                  /\ Entries(h, call[h].cmd, cur, t, call'[h].ret)
                BY <2>2, <3>2, AloneSuccessors
            <4>2. SinceLeased(cur)' /\ SeqnoLeased(cur)'
                <5>1. cur' = cur /\ cur \in Known
                    BY <2>2 DEF Alone, Known
                <5> QED BY <2>4, <5>1 DEF SinceLeased, SeqnoLeased
            <4> QED BY <2>2, <4>1, <4>2, ProposalHolds
        <3> QED BY <3>1, <3>2
    <2> QED BY <1>1, <2>2, <2>3, <2>4, <2>5 DEF LeaseInv, Alone
<1>3. CASE Quiet
    <2>1. \A r \in LeasedReaders : ReaderInv(r)' /\ HoldsOn(r)
        BY <1>3, OthersHold DEF Quiet, handleVars, LeaseInv
    <2>2. /\ \A v \in {cur} \cup Successors : SinceLeased(v)'
          /\ \A v \in Known \cup Successors : SeqnoLeased(v)'
        BY <2>1, AloneHolds
    <2> QED BY <1>1, <1>3, <2>1, <2>2, QuietSuccessors DEF LeaseInv, Quiet
<1> QED BY <1>2, <1>3, CommitHolds, HandleSteps

LEMMA InitLeaseInv == Init => LeaseInv
<1> SUFFICES ASSUME Init PROVE LeaseInv
    OBVIOUS
<1>1. \A h \in Handles : call[h].pc = "idle"
    BY DEF Init, Idle, Call
<1>2. Known = {InitialState} /\ Successors = {} /\ cur = InitialState
    BY <1>1 DEF Init, Known, Successors, Requests
<1>3. DOMAIN InitialState.leased = {}
    BY DEF InitialState, NoEntries
<1> QED BY <1>1, <1>2, <1>3 DEF LeaseInv, ReaderInv, SinceLeased, SeqnoLeased, Handles

LEMMA LeaseInvariance == Spec => [](Inv /\ LogInv /\ KeepsInv /\ LeaseInv)
<1>1. LogInv => \A s \in Known : IsFiniteSet(s.batches)
    BY DEF LogInv, Covers
<1>2. ASSUME Inv, Inv', LogInv, KeepsInv, LeaseInv, [Next]_vars
      PROVE  KeepsInv' /\ LeaseInv'
    BY <1>1, <1>2, NextKeepsInv, NextLeaseInv
<1> QED BY <1>2, InitInv, NextInv, InitLogInv, NextLogInv, InitKeepsInv, InitLeaseInv,
           PTL DEF Spec

(* A read handle whose lease is in the current state has a since that is   *)
(* readable, and a SeqNo hold not below the shard's, however many          *)
(* registrations and downgrades were retried or are in flight (read.rs     *)
(* ReadHandle::since, state.rs register_leased_reader, downgrade_since).   *)
THEOREM LiveHandlesAreReadable == Spec => []LiveHandlesReadable
<1>1. Inv /\ LeaseInv => LiveHandlesReadable
    <2> SUFFICES ASSUME Inv, LeaseInv, NEW r \in LeasedReaders,
                        hstat[r] = "live", r \in DOMAIN cur.leased
                 PROVE  /\ cur.leased[r].since <= hsince[r]
                        /\ cur.since <= hsince[r]
                        /\ SeqnoSince(cur) <= hseqno[r]
        BY DEF LiveHandlesReadable
    <2>1. ~Registered(r)
        BY DEF LeaseInv, ReaderInv, Registered
    <2>2. Told(r) = [since |-> hsince[r], seqno |-> hseqno[r]]
        BY <2>1 DEF Told
    <2>3. cur \in Known /\ VersionOK(cur)
        BY DEF Known, Inv
    <2>4. /\ cur.leased[r].since <= hsince[r]
          /\ cur.leased[r].seqno <= hseqno[r]
        BY <2>2, <2>3 DEF LeaseInv, SinceLeased, SeqnoLeased, Leasing
    <2>5. /\ cur.since <= cur.leased[r].since /\ cur.since \in Nat
          /\ SeqnoSince(cur) \in Nat /\ SeqnoSince(cur) <= cur.leased[r].seqno
        BY <2>3, SeqnoSinceBound, TopAssumption
        DEF VersionOK, HoldsBack, IsShardState, Frontier
    <2>6. /\ cur.leased[r].since \in Nat /\ cur.leased[r].seqno \in Nat
          /\ hsince[r] \in Nat /\ hseqno[r] \in Nat
        BY <2>3, LeaseTypes
    <2> QED BY <2>4, <2>5, <2>6
<1> QED BY <1>1, LeaseInvariance, PTL

-----------------------------------------------------------------------------
(* The invariant of the assertions is kept: the versions.                  *)

(* What a process sees moves forward.                                      *)
SeesForward ==
    \A p \in Procs :
      /\ cache[p] \in Known /\ cache'[p] \in Known
      /\ cache[p].upper \in Nat /\ cache'[p].upper \in Nat
      /\ cache[p].upper <= cache'[p].upper /\ cache'[p].upper <= Top
      /\ cache[p].since <= cache'[p].since /\ cache'[p].since <= Top
      /\ cache[p].since \in Nat /\ cache'[p].since \in Nat
      /\ Keeps(cache[p], cache'[p])

LEMMA CachesSeeForward ==
    ASSUME Inv, KeepsInv, [Next]_vars
    PROVE  SeesForward
<1> SUFFICES ASSUME NEW p \in Procs
             PROVE  /\ cache[p] \in Known /\ cache'[p] \in Known
                    /\ cache[p].upper \in Nat /\ cache'[p].upper \in Nat
                    /\ cache[p].upper <= cache'[p].upper /\ cache'[p].upper <= Top
                    /\ cache[p].since <= cache'[p].since /\ cache'[p].since <= Top
                    /\ cache[p].since \in Nat /\ cache'[p].since \in Nat
                    /\ Keeps(cache[p], cache'[p])
    BY DEF SeesForward
<1>1. cache[p] \in Known
    BY DEF Known
<1>2. \A s \in Known : /\ s.upper \in Nat /\ s.upper <= Top /\ s.seqno \in Nat
                       /\ s.since \in Nat /\ s.since <= Top
    BY TopAssumption DEF Inv, VersionOK, IsShardState, Frontier
<1>3. cache'[p] \in Known /\ cache[p].seqno <= cache'[p].seqno
    BY <1>1, <1>2, CacheMoves DEF CacheMove
<1>4. Forward(cache[p], cache'[p])
    BY <1>1, <1>3 DEF Inv, OneHistory
<1> QED BY <1>1, <1>2, <1>3, <1>4 DEF KeepsInv, Forward

(* A version's writers stay in the log as long as nothing is committed.    *)
LEMMA AloneWriters ==
    ASSUME Inv, NEW h \in Handles, Alone(h), Known' \subseteq Known,
           \A v \in Known : WritersLogged(v),
           \A q \in Requests : Accepted(q.st) => RequestEntries(q)
    PROVE  /\ \A v \in Known' : WritersLogged(v)'
           /\ \A q \in Requests' : Accepted(q.st)' => RequestEntries(q)'
<1>1. cur' = cur /\ log' = log
    BY DEF Alone
<1>2. \A v \in Known' : WritersLogged(v)'
    BY <1>1 DEF WritersLogged
<1>3. ASSUME NEW q \in Requests', Accepted(q.st)' PROVE RequestEntries(q)'
    <2>1. CASE q \in Requests
        BY <1>1, <1>3, <2>1, AloneRequests DEF RequestEntries
    <2>2. CASE q \notin Requests
        <3>1. WriterEntries(h, q.cmd, cur, q.st)
            BY <1>3, <2>2, AloneRequests DEF Entries
        <3> QED BY <1>1, <3>1 DEF RequestEntries, WriterEntries
    <2> QED BY <2>1, <2>2
<1> QED BY <1>2, <1>3

LEMMA CommitWriters ==
    ASSUME Inv, LogInv, NEW q \in Requests, CommitsTo(q),
           \A v \in Known : WritersLogged(v),
           \A p \in Requests : Accepted(p.st) => RequestEntries(p)
    PROVE  /\ \A v \in Known' : WritersLogged(v)'
           /\ \A p \in Requests' : Accepted(p.st)' => RequestEntries(p)'
<1>1. /\ Successors' = {} /\ cur' = q.st /\ Known' \subseteq Known \cup {q.st}
      /\ Accepted(q.st) /\ Succeeds(cur, q.st) /\ VersionOK(q.st)
    BY CommitFacts DEF CommitsTo
<1>2. log \in Seq(HollowBatch) /\ q.cmd \in Commands /\ cur \in Known /\ VersionOK(cur)
    BY LogTypes DEF Known
<1>3. log' = IF IsAppend(q.cmd) THEN Append(log, q.cmd.b) ELSE log
    BY DEF CommitsTo, Commit, IsAppend
<1>4. /\ DOMAIN log \subseteq DOMAIN log'
      /\ \A i \in DOMAIN log : log'[i] = log[i]
      /\ IsAppend(q.cmd) => \E i \in DOMAIN log' : log'[i] = q.cmd.b
    <2>1. CASE IsAppend(q.cmd)
        <3>1. q.cmd.b \in HollowBatch
            BY <1>2, <2>1, CommandFields DEF IsAppend
        <3>2. log' = Append(log, q.cmd.b)
            BY <1>3, <2>1
        <3> QED BY <1>2, <3>1, <3>2
    <2>2. CASE ~IsAppend(q.cmd)
        BY <1>3, <2>2
    <2> QED BY <2>1, <2>2
<1>5. \A v \in Known : WritersLogged(v)'
    BY <1>4 DEF WritersLogged
<1>6. WritersLogged(q.st)'
    <2> SUFFICES ASSUME NEW w \in DOMAIN q.st.writers
                 PROVE  /\ q.st.writers[w].upper <= q.st.upper
                        /\ \E i \in DOMAIN log' :
                             /\ log'[i].token = q.st.writers[w].token
                             /\ log'[i].upper = q.st.writers[w].upper
        BY DEF WritersLogged
    <2>1. CASE w \in DOMAIN cur.writers /\ q.st.writers[w] = cur.writers[w]
        <3>1. cur.writers[w].upper \in Nat /\ cur.upper \in Nat /\ q.st.upper \in Nat
            BY <1>1, <1>2, <2>1, TopAssumption
            DEF VersionOK, IsShardState, IsMap, WriterState, Frontier
        <3>2. cur.writers[w].upper <= cur.upper /\ cur.upper <= q.st.upper
            BY <1>1, <1>2, <2>1 DEF WritersLogged, Succeeds, Forward
        <3> QED BY <1>2, <1>4, <2>1, <3>1, <3>2 DEF WritersLogged
    <2>2. CASE IsAppend(q.cmd) /\ q.st.writers[w] = OwnEntry(q.cmd)
        <3>1. q.st.upper = q.cmd.b.upper /\ q.st.upper \in Nat
            <4>1. Extends(q.cmd, cur, q.st)
                BY <1>1 DEF LogInv, RequestsExtend
            <4>2. q.st.upper \in Nat
                BY <1>1, TopAssumption DEF VersionOK, IsShardState, Frontier
            <4> QED BY <2>2, <4>1, <4>2 DEF Extends
        <3>2. /\ OwnEntry(q.cmd).token = q.cmd.b.token
              /\ OwnEntry(q.cmd).upper = q.cmd.b.upper
            BY DEF OwnEntry
        <3> QED BY <1>4, <2>2, <3>1, <3>2
    <2> QED BY <1>1, <2>1, <2>2 DEF RequestEntries
<1>7. \A p \in Requests' : ~Accepted(p.st)'
    BY <1>1 DEF Successors
<1> QED BY <1>1, <1>5, <1>6, <1>7

-----------------------------------------------------------------------------
(* The invariant of the assertions is kept: the appends.                   *)

LEMMA AppendResult ==
    ASSUME NEW s, NEW w, NEW b \in HollowBatch
    PROVE  LET res == CompareAndAppend(s, w, b)
               e == WriterEntry(s, w)
           IN  /\ res.flow = "Continue" =>
                    ~IsTombstone(s) /\ IsValid(b) /\ s.upper = b.lower
               /\ res.flow = "Panic" =>
                    /\ ~IsTombstone(s)
                    /\ \/ b.token = e.token /\ ~(b.upper = e.upper /\ b.upper <= s.upper)
                       \/ IsValid(b) /\ s.upper = b.lower /\ ~(e.upper <= b.upper)
               /\ res.flow = "Break" =>
                    /\ res.ret.err = "AlreadyCommitted" =>
                         ~IsTombstone(s) /\ b.token = e.token
                    /\ res.ret.err = "InvalidUsage" => ~IsValid(b)
                    /\ res.ret.err = "Upper" =>
                         \/ /\ IsTombstone(s)
                            /\ res.ret.shard_upper = Top /\ res.ret.writer_upper = Top
                         \/ /\ s.upper # b.lower /\ res.ret.shard_upper = s.upper
                            /\ res.ret.writer_upper = e.upper
<1> DEFINE res == CompareAndAppend(s, w, b)
           e == WriterEntry(s, w)
           up == [err |-> "Upper", shard_upper |-> s.upper, writer_upper |-> e.upper]
           top == [err |-> "Upper", shard_upper |-> Top, writer_upper |-> Top]
<1>1. b.lower \in Nat /\ b.upper \in Nat
    BY TopAssumption DEF HollowBatch, Frontier
<1>2. IsValid(b) <=> ~(b.upper < b.lower \/ (b.upper = b.lower /\ ~b.empty))
    BY <1>1 DEF IsValid
<1>3. \/ IsTombstone(s) /\ res = Break(top)
      \/ ~IsTombstone(s) /\ ~IsValid(b) /\ res = Break([err |-> "InvalidUsage"])
      \/ /\ ~IsTombstone(s) /\ b.token = e.token
         /\ \/ res = Break([err |-> "AlreadyCommitted"])
            \/ ~(b.upper = e.upper /\ b.upper <= s.upper) /\ res = Panic
      \/ ~IsTombstone(s) /\ s.upper # b.lower /\ res = Break(up)
      \/ ~IsTombstone(s) /\ res = Break([err |-> "InlineBackpressure"])
      \/ /\ ~IsTombstone(s) /\ IsValid(b) /\ s.upper = b.lower
         /\ ~(e.upper <= b.upper) /\ res = Panic
      \/ /\ ~IsTombstone(s) /\ IsValid(b) /\ s.upper = b.lower
         /\ \E t : res = Continue(t, "Ok")
    BY <1>2 DEF CompareAndAppend
<1> HIDE DEF res, e
<1>4. /\ \A r : Break(r).flow = "Break" /\ Break(r).ret = r
      /\ \A t, r : Continue(t, r).flow = "Continue"
      /\ Panic.flow = "Panic"
    BY DEF Break, Continue, Panic
<1> QED BY <1>3, <1>4 DEF res, e

LEMMA LandedAlone ==
    ASSUME NEW h \in Handles, Alone(h), NEW t \in Landed'
    PROVE  \/ t \in Landed
           \/ /\ call[h].pc = "sent" /\ IsAppend(call[h].cmd)
              /\ t = call[h].cmd.b.token
<1>1. cur' = cur /\ log' = log /\ orphans' \subseteq Orphaned(h)
    BY DEF Alone
<1>2. CASE t \in Logged'
    BY <1>1, <1>2 DEF Landed, Logged
<1>3. CASE t \notin Logged'
    <2>1. PICK o \in orphans' : /\ IsAppend(o.cmd) /\ Accepted(o.st)'
                                /\ t = o.cmd.b.token
        BY <1>3 DEF Landed
    <2>2. Accepted(o.st)
        BY <1>1, <2>1 DEF Accepted
    <2>3. \/ o \in orphans
          \/ call[h].pc = "sent" /\ o = [st |-> call[h].st, cmd |-> call[h].cmd]
        BY <1>1 DEF Orphaned, Cmd
    <2> QED BY <2>1, <2>2, <2>3 DEF Landed
<1> QED BY <1>2, <1>3

LEMMA LandedCommit ==
    ASSUME Inv, NEW q \in Requests, CommitsTo(q), NEW t \in Landed'
    PROVE  \/ t \in Landed
           \/ \E g \in Handles : /\ call[g].pc = "sent" /\ call'[g].pc = "committed"
                                 /\ IsAppend(call[g].cmd) /\ t = call[g].cmd.b.token
<1>1. t \in Logged'
    <2>1. Successors' = {}
        BY CommitFacts
    <2> QED BY <2>1 DEF Landed, Successors, Requests
<1>2. t \in Logged \/ (IsAppend(q.cmd) /\ t = q.cmd.b.token)
    <2>1. CASE IsAppend(q.cmd)
        <3>1. log \in Seq(HollowBatch) /\ q.cmd.b \in HollowBatch
            BY <2>1, LogTypes, CommandFields DEF IsAppend
        <3>2. log' = Append(log, q.cmd.b)
            BY <2>1 DEF CommitsTo, Commit, IsAppend
        <3> QED BY <1>1, <2>1, <3>1, <3>2 DEF Logged
    <2>2. CASE ~IsAppend(q.cmd)
        BY <1>1, <2>2 DEF Logged, CommitsTo, Commit, IsAppend
    <2> QED BY <2>1, <2>2
<1>3. CASE q \in orphans
    BY <1>2, <1>3 DEF Landed, CommitsTo
<1>4. CASE \E g \in Handles : /\ call[g].pc = "sent" /\ call'[g].pc = "committed"
                              /\ q = [st |-> call[g].st, cmd |-> call[g].cmd]
    BY <1>2, <1>4 DEF Landed
<1> QED BY <1>3, <1>4 DEF CommitsTo

(* What is known of an append stays true on later versions.                *)
LEMMA AppendKeeps ==
    ASSUME NEW k, NEW v, NEW u, NEW L, NEW M, AppendOK(k, v, L),
           k.cmd.b \in HollowBatch, v.upper \in Nat, u.upper \in Nat,
           v.upper <= u.upper, IsTombstone(v) => IsTombstone(u),
           k.cmd.b.token \in M => k.cmd.b.token \in L
    PROVE  AppendOK(k, u, M)
<1>1. k.cmd.b.lower \in Nat
    BY TopAssumption DEF HollowBatch, Frontier
<1> QED BY <1>1 DEF AppendOK

(* Where a step of the loop leaves the call.                               *)
LEMMA CallGoes ==
    ASSUME Inv, NEW h \in Handles
    PROVE  /\ Done(h) => call'[h].pc = "idle"
           /\ \A i : Retry(h, i) => /\ call'[h].pc = "ready" /\ call'[h].indet = i
                                    /\ call'[h].cmd = call[h].cmd
           /\ \A l : GoTo(h, l) => /\ call'[h].pc = l /\ call'[h].cmd = call[h].cmd
                                   /\ call'[h].indet = call[h].indet
           /\ \A c : Start(h, c) => /\ call'[h].pc = "ready" /\ call'[h].cmd = c
                                    /\ call'[h].indet = FALSE /\ call[h].pc = "idle"
<1>1. DOMAIN call = Handles /\ IsCall(call[h])
    BY CallOf
<1>2. Done(h) => call'[h].pc = "idle"
    BY <1>1 DEF Done, Idle, Call
<1>3. ASSUME NEW i, Retry(h, i)
      PROVE  /\ call'[h].pc = "ready" /\ call'[h].indet = i
             /\ call'[h].cmd = call[h].cmd
    BY <1>1, <1>3, CallFields DEF Retry, Cmd
<1>4. ASSUME NEW l, GoTo(h, l)
      PROVE  /\ call'[h].pc = l /\ call'[h].cmd = call[h].cmd
             /\ call'[h].indet = call[h].indet
    BY <1>1, <1>4, GoToCall, CallFields DEF GoTo
<1>5. ASSUME NEW c, Start(h, c)
      PROVE  /\ call'[h].pc = "ready" /\ call'[h].cmd = c
             /\ call'[h].indet = FALSE /\ call[h].pc = "idle"
    <2>1. /\ call'[h].pc = "ready" /\ call'[h].cmd = c /\ call[h].pc = "idle"
        BY <1>1, <1>5 DEF Start, Call
    <2>2. call'[h].indet = FALSE
        BY <1>1, <1>5 DEF Start, Call
    <2> QED BY <2>1, <2>2
<1> QED BY <1>2, <1>3, <1>4, <1>5

(* What the cached version says of the writer and its append.              *)
LEMMA AppendSees ==
    ASSUME Inv, LogInv, \A v \in Known : WritersLogged(v), NEW w \in Writers,
           Appends(w), call[w].cmd.b.token # Sentinel
    PROVE  LET b == call[w].cmd.b
               n == NextVersion(Cached(w))
               e == WriterEntry(n, w)
           IN  /\ b \in HollowBatch /\ b.lower \in Nat /\ b.upper \in Nat
               /\ n.upper = Cached(w).upper /\ n.upper \in Nat
               /\ IsTombstone(n) <=> IsTombstone(Cached(w))
               /\ e.upper \in Nat /\ e.upper <= n.upper
               /\ e.token = b.token => e.upper = b.upper /\ b.token \in Landed
<1> DEFINE b == call[w].cmd.b
           s == Cached(w)
           n == NextVersion(s)
           e == WriterEntry(n, w)
<1>1. /\ w \in Handles /\ s \in Known /\ VersionOK(s) /\ call[w].cmd \in Commands
    BY CallOf DEF Handles, Cmd
<1>2. b \in HollowBatch /\ b.lower \in Nat /\ b.upper \in Nat
    BY <1>1, CommandFields, TopAssumption DEF Appends, IsAppend, HollowBatch, Frontier
<1>3. /\ n.upper = s.upper /\ n.writers = s.writers /\ s.upper \in Nat
      /\ IsTombstone(n) <=> IsTombstone(s)
    BY <1>1, NextVersionOK, TopAssumption DEF Fields, VersionOK, IsShardState, Frontier
<1> HIDE DEF n
<1>4. CASE w \in DOMAIN s.writers
    <2>1. e = s.writers[w]
        BY <1>3, <1>4 DEF WriterEntry
    <2> HIDE DEF e
    <2>2. s.writers[w].upper \in Nat /\ s.writers[w].upper <= s.upper
        BY <1>1, <1>4, TopAssumption
        DEF WritersLogged, VersionOK, IsShardState, IsMap, WriterState, Frontier
    <2>3. PICK i \in DOMAIN log : /\ log[i].token = s.writers[w].token
                                  /\ log[i].upper = s.writers[w].upper
        BY <1>1, <1>4 DEF WritersLogged
    <2>4. log[i] \in Played /\ b \in Played /\ log[i].token \in Landed
        BY <1>1 DEF Played, Landed, Logged, Appends
    <2>5. log[i].token = b.token => log[i] = b
        BY <2>4 DEF LogInv, TokensOK
    <2> HIDE DEF b, s
    <2>6. e.token = b.token => e.upper = b.upper /\ b.token \in Landed
        BY <2>1, <2>3, <2>4, <2>5
    <2> QED BY <1>2, <1>3, <2>1, <2>2, <2>6 DEF b, s, n, e
<1>5. CASE w \notin DOMAIN s.writers
    <2>1. e.token = Sentinel /\ e.upper = 0
        BY <1>3, <1>5 DEF WriterEntry
    <2> QED BY <1>2, <1>3, <2>1 DEF n, Sentinel
<1> QED BY <1>4, <1>5

AppendStep(w) ==
    /\ call'[w].pc # "assert_failed"
    /\ AppendInv(w)'
    /\ Appends(w)' => \/ call'[w].cmd.b.token = calls + 1
                      \/ Appends(w) /\ call'[w].cmd = call[w].cmd

LEMMA AppendAttempts ==
    ASSUME Inv, LogInv, \A v \in Known : WritersLogged(v), NEW w \in Writers,
           AppendInv(w), Appends(w), Attempt(w)
    PROVE  AppendStep(w)
<1> DEFINE b == call[w].cmd.b
           n == NextVersion(Cached(w))
           e == WriterEntry(n, w)
           res == CompareAndAppend(n, w, b)
<1>1. /\ w \in Handles /\ call[w].pc = "ready" /\ AppendOK(call[w], Cached(w), Landed)
      /\ DOMAIN call = Handles /\ b.token # Sentinel /\ call[w].indet \in BOOLEAN
      /\ HandleFits(w, call[w].cmd)
    BY CallOf DEF Handles, Attempt, AppendInv, AppendOK, Cmd
<1>2. /\ b \in HollowBatch /\ b.lower \in Nat /\ b.upper \in Nat
      /\ n.upper = Cached(w).upper /\ n.upper \in Nat
      /\ IsTombstone(n) <=> IsTombstone(Cached(w))
      /\ e.upper \in Nat /\ e.upper <= n.upper
      /\ e.token = b.token => e.upper = b.upper /\ b.token \in Landed
    BY <1>1, AppendSees
<1>3. WorkRes(w) = res /\ Cmd(w) = call[w].cmd /\ IsAppend(Cmd(w))
    BY DEF WorkRes, WorkFn, Cmd, Appends, IsAppend
<1>4. /\ res.flow = "Continue" => ~IsTombstone(n) /\ IsValid(b) /\ n.upper = b.lower
      /\ res.flow # "Panic"
      /\ res.flow = "Break" =>
           /\ res.ret.err = "AlreadyCommitted" => ~IsTombstone(n) /\ b.token = e.token
           /\ res.ret.err = "InvalidUsage" => ~IsValid(b)
           /\ res.ret.err = "Upper" =>
                \/ /\ IsTombstone(n)
                   /\ res.ret.shard_upper = Top /\ res.ret.writer_upper = Top
                \/ /\ n.upper # b.lower /\ res.ret.shard_upper = n.upper
                   /\ res.ret.writer_upper = e.upper
    <2>1. b.token = e.token => b.upper = e.upper /\ b.upper <= n.upper
        BY <1>2
    <2>2. IsValid(b) /\ n.upper = b.lower => e.upper <= b.upper
        BY <1>2 DEF IsValid
    <2> HIDE DEF n, b
    <2> QED BY <1>2, <2>1, <2>2, AppendResult
<1>5. cur' = cur /\ log' = log /\ orphans' = orphans /\ cache' = cache
    BY DEF Attempt
<1>6. Landed' = Landed /\ Cached(w)' = Cached(w)
    BY <1>5 DEF Landed, Logged, Accepted, Cached
<1>7. \A k : AppendOK(k, Cached(w), Landed) /\ call'[w] = k => AppendInv(w)'
    BY <1>6 DEF AppendInv
<1> HIDE DEF n, e, res
<1>8. CASE Proposes(w)
    <2>1. PICK k : k.pc = "sent" /\ call' = [call EXCEPT ![w] = k] /\ Proposed(w, k)
        BY <1>1, <1>8, Proposals
    <2>2. /\ call'[w] = k /\ k.cmd = call[w].cmd /\ k.indet = call[w].indet
          /\ res.flow = "Continue"
        BY <1>1, <1>3, <2>1 DEF Proposed
    <2>3. AppendOK(k, Cached(w), Landed)
        BY <1>1, <1>2, <1>4, <2>1, <2>2 DEF AppendOK
    <2> QED BY <1>7, <2>1, <2>2, <2>3 DEF AppendStep
<1>9. CASE res.flow = "Break" /\ Returns(w, res.ret, FALSE)
    <2>1. ReturnAppendBreak(w, res.ret)
        BY <1>3, <1>9 DEF Returns, IsAppend
    <2>2. CASE Done(w)
        BY <1>1, <2>2, CallGoes DEF AppendStep, AppendInv, Appends
    <2>3. CASE GoTo(w, "assert_failed")
        <3>1. \/ res.ret.err = "AlreadyCommitted" /\ ~call[w].indet
              \/ res.ret.err = "InvalidUsage" /\ call[w].indet
              \/ res.ret.err = "Upper" /\ ~(res.ret.writer_upper <= res.ret.shard_upper)
            <4>1. call'[w].pc = "assert_failed"
                BY <1>1, <2>3, CallGoes
            <4>2. ~Done(w)
                BY <1>1, <4>1, CallGoes
            <4>3. ~GoTo(w, "panicked")
                <5>1. GoTo(w, "panicked") => call'[w].pc = "panicked"
                    BY <1>1, CallGoes
                <5> QED BY <4>1, <5>1
            <4>4. call' # [call EXCEPT ![w] = Call("upper_mismatch", Cmd(w),
                                     Cached(w), NoRet, call[w].indet)]
                BY <1>1, <4>1, CallFields
            <4> QED BY <2>1, <4>2, <4>3, <4>4 DEF ReturnAppendBreak
        <3>2. CASE res.ret.err = "AlreadyCommitted" /\ ~call[w].indet
            BY <1>1, <1>2, <1>4, <1>9, <3>2 DEF AppendOK
        <3>3. CASE res.ret.err = "InvalidUsage" /\ call[w].indet
            BY <1>1, <1>4, <1>9, <3>3 DEF AppendOK
        <3>4. CASE /\ res.ret.err = "Upper"
                   /\ ~(res.ret.writer_upper <= res.ret.shard_upper)
            BY <1>2, <1>4, <1>9, <3>4, TopAssumption
        <3> QED BY <3>1, <3>2, <3>3, <3>4
    <2>4. CASE GoTo(w, "panicked")
        <3>1. /\ call'[w].pc = "panicked" /\ call'[w].cmd = call[w].cmd
              /\ call'[w].indet = call[w].indet
            BY <1>1, <2>4, CallGoes
        <3>2. AppendOK(call'[w], Cached(w), Landed)
            BY <1>1, <3>1 DEF AppendOK
        <3> QED BY <1>7, <3>1, <3>2 DEF AppendStep
    <2>5. CASE /\ res.ret.err = "Upper"
               /\ call' = [call EXCEPT ![w] = Call("upper_mismatch", Cmd(w),
                                     Cached(w), NoRet, call[w].indet)]
        <3>1. /\ call'[w].pc = "upper_mismatch" /\ call'[w].cmd = call[w].cmd
              /\ call'[w].indet = call[w].indet
            BY <1>1, <2>5, CallFields DEF Cmd
        <3>2. IsTombstone(Cached(w)) \/ Cached(w).upper # b.lower
            BY <1>2, <1>4, <1>9, <2>5
        <3>3. AppendOK(call'[w], Cached(w), Landed)
            BY <1>1, <1>2, <3>1, <3>2 DEF AppendOK
        <3> QED BY <1>7, <3>1, <3>3 DEF AppendStep
    <2> QED BY <2>1, <2>2, <2>3, <2>4, <2>5 DEF ReturnAppendBreak
<1>10. CASE Panics(w)
    <2>1. ~(res.flow = "Continue" /\ IsTombstone(Cached(w)))
        BY <1>2, <1>4
    <2> QED BY <1>3, <1>4, <1>10, <2>1 DEF Panics
<1> QED BY <1>3, <1>8, <1>9, <1>10 DEF Attempt

LEMMA AppendBegins ==
    ASSUME Inv, LogInv, NEW w \in Writers, BeginAppend(w)
    PROVE  AppendStep(w)
<1>1. PICK i \in AppendInputs, x \in BOOLEAN :
        Start(w, [op |-> "compare_and_append", b |-> BatchOf(calls + 1, i, x)])
    BY DEF BeginAppend, StartNew
<1> DEFINE c == [op |-> "compare_and_append", b |-> BatchOf(calls + 1, i, x)]
<1>2. c.b.token = calls + 1
    BY DEF BatchOf
<1> HIDE DEF c
<1>3. /\ call'[w].pc = "ready" /\ call'[w].cmd = c /\ call'[w].indet = FALSE
    BY <1>1, CallGoes DEF c, Handles
<1>4. Landed' = Landed
    BY <1>1 DEF Start, Landed, Logged, Accepted
<1>5. calls \in Nat /\ \A t \in Landed : t \in Nat /\ t <= calls
    <2>1. \A t \in Landed : \E b \in Played : t = b.token
        BY DEF Landed, Logged, Played
    <2> QED BY <2>1, LogTypes DEF LogInv, TokensOK
<1>6. calls + 1 \notin Landed /\ calls + 1 # Sentinel
    BY <1>5 DEF Sentinel
<1>7. AppendInv(w)'
    BY <1>2, <1>3, <1>4, <1>6 DEF AppendInv, AppendOK
<1> QED BY <1>2, <1>3, <1>7 DEF AppendStep

(* A call that goes on from version v of the cache to version u.           *)
LEMMA AppendGoesOn ==
    ASSUME Inv, NEW w \in Writers, Appends(w), AppendInv(w), SeesForward, NEW M,
           Landed' \subseteq M,
           AppendOK(call[w], Cached(w)', Landed) =>
             AppendOK(call'[w], Cached(w)', M),
           call'[w].cmd = call[w].cmd, call'[w].pc # "assert_failed"
    PROVE  AppendStep(w)
<1> DEFINE u == Cached(w)'
           b == call[w].cmd.b
<1>1. w \in Handles /\ ProcOf[w] \in Procs /\ call[w].cmd \in Commands
    BY CallOf DEF Handles, Cmd
<1>2. /\ Cached(w).upper \in Nat /\ u.upper \in Nat /\ Cached(w).upper <= u.upper
      /\ IsTombstone(Cached(w)) => IsTombstone(u)
    BY <1>1 DEF SeesForward, Cached, Keeps
<1>3. b \in HollowBatch
    BY <1>1, CommandFields DEF Appends, IsAppend
<1>4. AppendOK(call[w], u, Landed)
    BY <1>2, <1>3, AppendKeeps DEF AppendInv
<1>5. AppendOK(call'[w], u, M)
    BY <1>4
<1>6. AppendOK(call'[w], u, Landed')
    BY <1>2, <1>3, <1>5, AppendKeeps
<1> QED BY <1>6 DEF AppendStep, AppendInv

LEMMA AppendActs ==
    ASSUME Inv, LogInv, SeesForward, \A v \in Known : WritersLogged(v),
           NEW w \in Writers, AppendInv(w), call[w].pc # "assert_failed", Acts(w)
    PROVE  AppendStep(w)
<1>1. /\ w \in Handles /\ w \notin LeasedReaders /\ w \notin SinceHandles
      /\ w \notin Finalizers /\ HandleFits(w, call[w].cmd)
      /\ call[w].cmd \in Commands /\ call[w].indet \in BOOLEAN
      /\ call[w].pc # "idle" => call[w].cmd.op # "none"
    BY CallOf, HandlesAssumption DEF Handles, Cmd
<1>2. ASSUME call'[w].pc = "idle" PROVE AppendStep(w)
    BY <1>2 DEF AppendStep, AppendInv, Appends
<1>3. ASSUME ~IsAppend(call'[w].cmd), call'[w].pc # "assert_failed"
      PROVE  AppendStep(w)
    BY <1>3 DEF AppendStep, AppendInv, Appends
<1>4. CASE BeginExpireWriter(w)
    <2> DEFINE c == [op |-> "expire_writer"]
    <2>1. call'[w].pc = "ready" /\ call'[w].cmd = c
        BY <1>1, <1>4, CallGoes DEF BeginExpireWriter, StartNew
    <2> QED BY <1>3, <2>1 DEF IsAppend
<1>5. CASE Cancel(w)
    BY <1>1, <1>2, <1>5, CallGoes DEF Cancel
<1>6. CASE RecheckUpper(w)
    <2> DEFINE b == call[w].cmd.b
    <2>1. Done(w) \/ (Cached(w)'.upper = b.lower /\ Retry(w, FALSE))
        BY <1>6 DEF RecheckUpper, Cached, Cmd
    <2>2. call[w].pc = "upper_mismatch" /\ Landed' = Landed
        BY <1>6 DEF RecheckUpper, Landed, Logged, Accepted
    <2>3. CASE Cached(w)'.upper = b.lower /\ Retry(w, FALSE) /\ IsAppend(call[w].cmd)
        <3>1. /\ call'[w].pc = "ready" /\ call'[w].cmd = call[w].cmd
              /\ call'[w].indet = FALSE
            BY <1>1, <2>3, CallGoes
        <3>2. b.lower \in Nat
            BY <1>1, <2>3, CommandFields, TopAssumption
            DEF IsAppend, HollowBatch, Frontier
        <3>3. ASSUME AppendOK(call[w], Cached(w)', Landed)
              PROVE  AppendOK(call'[w], Cached(w)', Landed)
            BY <2>2, <2>3, <3>1, <3>2, <3>3 DEF AppendOK
        <3>4. Appends(w)
            BY <2>2, <2>3 DEF Appends
        <3> QED BY <2>2, <3>1, <3>3, <3>4, AppendGoesOn
    <2>4. CASE Retry(w, FALSE) /\ ~IsAppend(call[w].cmd)
        BY <1>1, <1>3, <2>4, CallGoes
    <2> QED BY <1>1, <1>2, <2>1, <2>3, <2>4, CallGoes
<1>7. CASE ActsInCall(w) /\ ~IsAppend(call[w].cmd)
    <2>1. call[w].pc # "idle" /\ call[w].cmd.op = "expire_writer"
        BY <1>1, <1>7, CommandFields
        DEF ActsInCall, Attempt, CasMismatch, DeliverCommitted, DeliverMismatch,
            Indeterminate, HandleFits, IsAppend
    <2>2. ASSUME NEW r, NEW x, Returns(w, r, x) PROVE Done(w)
        BY <2>1, <2>2 DEF Returns, ReturnExpired, Cmd
    <2>3. CASE Attempt(w)
        <3>1. CASE Proposes(w)
            <4>1. PICK k : /\ k.pc = "sent" /\ call' = [call EXCEPT ![w] = k]
                           /\ Proposed(w, k)
                BY <1>1, <2>3, <3>1, Proposals
            <4>2. call'[w] = k /\ k.cmd = call[w].cmd
                BY <1>1, <4>1, CallOf DEF Proposed
            <4> QED BY <1>3, <1>7, <4>1, <4>2
        <3>2. CASE Panics(w)
            <4>1. WorkRes(w) = ExpireWriter(NextVersion(Cached(w)), w)
                BY <2>1 DEF WorkRes, WorkFn, Cmd
            <4>2. IsTombstone(NextVersion(Cached(w))) <=> IsTombstone(Cached(w))
                BY <1>1, CallOf, NextVersionOK
            <4> QED BY <3>2, <4>1, <4>2 DEF Panics, ExpireWriter, Break, Continue
        <3> QED BY <1>1, <1>2, <2>2, <2>3, <3>1, <3>2, CallGoes DEF Attempt
    <2>4. CASE DeliverCommitted(w)
        BY <1>1, <1>2, <2>2, <2>4, CallGoes DEF DeliverCommitted
    <2>5. CASE CasMismatch(w) \/ DeliverMismatch(w) \/ Indeterminate(w)
        <3>1. call'[w].cmd = call[w].cmd /\ call'[w].pc \in {"mismatch", "ready"}
            <4>1. CASE CasMismatch(w)
                BY <1>1, <4>1, CallGoes DEF CasMismatch
            <4>2. CASE DeliverMismatch(w)
                BY <1>1, <4>2, CallGoes DEF DeliverMismatch
            <4>3. CASE Indeterminate(w)
                BY <1>1, <4>3, CallGoes DEF Indeterminate
            <4> QED BY <2>5, <4>1, <4>2, <4>3
        <3> QED BY <1>3, <1>7, <3>1
    <2> QED BY <1>7, <2>3, <2>4, <2>5 DEF ActsInCall
<1>8. CASE ActsInCall(w) /\ IsAppend(call[w].cmd)
    <2>1. Appends(w)
        BY <1>8 DEF Appends, ActsInCall, Attempt, CasMismatch, DeliverCommitted,
                    DeliverMismatch, Indeterminate
    <2>2. CASE Attempt(w)
        BY <2>1, <2>2, AppendAttempts
    <2>3. CASE DeliverCommitted(w)
        <3>1. ReturnAppended(w)
            BY <1>8, <2>3 DEF DeliverCommitted, Returns, IsAppend, Cmd
        <3> QED BY <1>1, <1>2, <3>1, CallGoes DEF ReturnAppended
    <2>4. CASE CasMismatch(w)
        <3>1. /\ call'[w].pc = "mismatch" /\ call'[w].cmd = call[w].cmd
              /\ call'[w].indet = call[w].indet /\ call[w].pc = "sent"
            BY <1>1, <2>4, CallGoes DEF CasMismatch
        <3>2. Landed' = Landed
            BY <2>4 DEF CasMismatch, Landed, Logged, Accepted
        <3>3. ASSUME AppendOK(call[w], Cached(w)', Landed)
              PROVE  AppendOK(call'[w], Cached(w)', Landed)
            BY <3>1, <3>3 DEF AppendOK
        <3> QED BY <2>1, <3>1, <3>2, <3>3, AppendGoesOn
    <2>5. CASE DeliverMismatch(w)
        <3>1. /\ call'[w].pc = "ready" /\ call'[w].cmd = call[w].cmd
              /\ call'[w].indet = call[w].indet /\ call[w].pc = "mismatch"
            BY <1>1, <2>5, CallGoes DEF DeliverMismatch
        <3>2. Landed' = Landed
            BY <2>5 DEF DeliverMismatch, Landed, Logged, Accepted
        <3>3. ASSUME AppendOK(call[w], Cached(w)', Landed)
              PROVE  AppendOK(call'[w], Cached(w)', Landed)
            BY <3>1, <3>3 DEF AppendOK
        <3> QED BY <2>1, <3>1, <3>2, <3>3, AppendGoesOn
    <2>6. CASE Indeterminate(w)
        <3> DEFINE b == call[w].cmd.b
                   M == IF call[w].pc = "sent" THEN Landed \cup {b.token} ELSE Landed
        <3>1. /\ call'[w].pc = "ready" /\ call'[w].cmd = call[w].cmd
              /\ call'[w].indet = TRUE
              /\ call[w].pc \in {"sent", "committed", "mismatch"}
            BY <1>1, <2>6, CallGoes DEF Indeterminate
        <3>2. \A t \in Landed' : t \in M
            BY <1>1, ActsAlone, LandedAlone
        <3>3. ASSUME AppendOK(call[w], Cached(w)', Landed)
              PROVE  AppendOK(call'[w], Cached(w)', M)
            BY <3>1, <3>3 DEF AppendOK
        <3> HIDE DEF M
        <3> QED BY <2>1, <3>1, <3>2, <3>3, AppendGoesOn
    <2> QED BY <1>8, <2>2, <2>3, <2>4, <2>5, <2>6 DEF ActsInCall
<1> QED BY <1>1, <1>4, <1>5, <1>6, <1>7, <1>8, AppendBegins DEF Acts, ActsAsWriter

-----------------------------------------------------------------------------
(* The invariant of the assertions is kept: the other handles.             *)

(* Only the evaluation of a command fails an assertion.                    *)
LEMMA OnlyAttemptsPanic ==
    ASSUME Inv, NEW h \in Handles \ Writers, Acts(h), call[h].pc # "assert_failed",
           ~(Attempt(h) /\ Panics(h))
    PROVE  call'[h].pc # "assert_failed"
<1>1. h \in Handles /\ HandleFits(h, Cmd(h)) /\ DOMAIN call = Handles
    BY CallOf
<1>2. Cmd(h).op # "compare_and_append"
    BY <1>1 DEF HandleFits
<1>3. \A c : Start(h, c) => call'[h].pc = "ready"
    BY <1>1, CallGoes
<1>4. Done(h) => call'[h].pc = "idle"
    BY <1>1, CallGoes
<1>5. \A i : Retry(h, i) => call'[h].pc = "ready"
    BY <1>1, CallGoes
<1>6. ASSUME NEW r, NEW x, Returns(h, r, x) PROVE call'[h].pc # "assert_failed"
    BY <1>2, <1>4, <1>5, <1>6
    DEF Returns, ReturnRegistered, ReturnDowngraded, ReturnExpired, ReturnOpened,
        ReturnCompareAndDowngrade, ReturnTombstoneStep
<1>7. CASE h \in LeasedReaders /\ ActsAsReader(h)
    BY <1>3, <1>7 DEF ActsAsReader, BeginRegister, BeginDowngrade, BeginExpireReader,
                      StartNew
<1>8. CASE h \in SinceHandles /\ ActsAsSinceHandle(h)
    BY <1>3, <1>8 DEF ActsAsSinceHandle, BeginOpenCritical, BeginDowngradeCritical,
                      BeginFence, Fenced, StartNew
<1>9. CASE h \in Finalizers /\ BeginFinalize(h)
    BY <1>3, <1>9 DEF BeginFinalize, StartNew
<1>10. CASE Attempt(h)
    <2>1. CASE Proposes(h)
        <3>1. PICK k : k.pc = "sent" /\ call' = [call EXCEPT ![h] = k]
            BY <1>1, <1>10, <2>1, Proposals
        <3> QED BY <1>1, <3>1
    <2> QED BY <1>6, <1>10, <2>1 DEF Attempt
<1>11. CASE DeliverCommitted(h)
    BY <1>6, <1>11 DEF DeliverCommitted
<1>12. CASE CasMismatch(h)
    <2>1. GoTo(h, "mismatch") => call'[h].pc = "mismatch"
        BY <1>1, CallGoes
    <2> QED BY <1>12, <2>1 DEF CasMismatch
<1>13. CASE DeliverMismatch(h) \/ Indeterminate(h)
    BY <1>5, <1>13 DEF DeliverMismatch, Indeterminate
<1> QED BY <1>7, <1>8, <1>9, <1>10, <1>11, <1>12, <1>13 DEF Acts, ActsInCall

(* No command but become_tombstone wants to change a tombstone.            *)
LEMMA PanicsInCommand ==
    ASSUME Inv, NEW h \in Handles, Attempt(h), Panics(h)
    PROVE  WorkRes(h).flow = "Panic"
<1>1. /\ Cmd(h) \in Commands /\ Cmd(h).op # "none"
      /\ IsTombstone(NextVersion(Cached(h))) <=> IsTombstone(Cached(h))
    BY CallOf, NextVersionOK DEF Attempt
<1>2. SUFFICES ASSUME WorkRes(h).flow = "Continue", IsTombstone(Cached(h)),
                      Cmd(h).op # "become_tombstone"
               PROVE  FALSE
    BY DEF Panics
<1> QED BY <1>1, <1>2, OnlyFinalizersTouchTombstones DEF WorkRes

LEMMA ReadersDoNotPanic ==
    ASSUME Inv, LeaseInv, NEW r \in LeasedReaders, Attempt(r)
    PROVE  WorkRes(r).flow # "Panic"
<1> DEFINE n == NextVersion(Cached(r))
           c == call[r].cmd
<1>1. /\ r \in Handles /\ HandleFits(r, c) /\ c \in Commands /\ c.op # "none"
      /\ r \notin Writers /\ r \notin SinceHandles /\ r \notin Finalizers
      /\ call[r].pc = "ready" /\ VersionOK(Cached(r)) /\ Cached(r) \in Known
      /\ n.leased = Cached(r).leased
    BY CallOf, NextVersionOK, HandlesAssumption DEF Handles, Cmd, Attempt, Fields
<1>2. WorkRes(r) = WorkFn(r, c, n)
    BY DEF WorkRes, Cmd
<1> HIDE DEF n
<1>3. c.op \in {"register_leased_reader", "downgrade_since", "expire_leased_reader"}
    BY <1>1, CommandFields DEF HandleFits
<1>4. CASE c.op = "register_leased_reader"
    BY <1>2, <1>4 DEF WorkFn, RegisterLeasedReader, Break, Continue
<1>5. CASE c.op = "expire_leased_reader"
    BY <1>2, <1>5 DEF WorkFn, ExpireLeasedReader, Break, Continue
<1>6. CASE c.op = "downgrade_since"
    <2>1. ReaderInv(r) /\ ~Registered(r) /\ IsDowngrade(c)
        BY <1>1, <1>6 DEF LeaseInv, Registered, IsDowngrade
    <2>2. hstat[r] = "live" /\ c.out = hseqno[r] /\ Told(r).seqno = hseqno[r]
        BY <1>1, <2>1 DEF ReaderInv, Told
    <2>3. r \in DOMAIN n.leased => n.leased[r].seqno <= c.out
        BY <1>1, <2>2 DEF LeaseInv, SeqnoLeased, Leasing
    <2>4. r \in DOMAIN n.leased => n.leased[r].seqno \in Nat /\ c.out \in Nat
        BY <1>1, <1>6, CommandFields, LeaseTypes
    <2>5. WorkFn(r, c, n) = DowngradeSince(n, r, c.out, c.since)
        BY <1>6 DEF WorkFn
    <2> QED BY <1>2, <2>3, <2>4, <2>5 DEF DowngradeSince, Break, Continue
<1> QED BY <1>3, <1>4, <1>5, <1>6

LEMMA SinceHandlesDoNotPanic ==
    ASSUME Inv, FenceInv, NEW h \in SinceHandles, SinceHandleInv(h), Attempt(h)
    PROVE  WorkRes(h).flow # "Panic"
<1> DEFINE n == NextVersion(Cached(h))
           c == call[h].cmd
<1>1. /\ h \in Handles /\ HandleFits(h, c) /\ c \in Commands /\ c.op # "none"
      /\ h \notin Writers /\ h \notin LeasedReaders /\ h \notin Finalizers
      /\ call[h].pc = "ready" /\ n.critical = Cached(h).critical
      /\ IsTombstone(n) <=> IsTombstone(Cached(h))
    BY CallOf, NextVersionOK, HandlesAssumption DEF Handles, Cmd, Attempt, Fields
<1>2. WorkRes(h) = WorkFn(h, c, n)
    BY DEF WorkRes, Cmd
<1> HIDE DEF n
<1>3. c.op \in {"register_critical_reader", "compare_and_downgrade_since"}
    BY <1>1, CommandFields DEF HandleFits
<1>4. CASE c.op = "register_critical_reader"
    BY <1>2, <1>4 DEF WorkFn, RegisterCriticalReader, Break, Continue
<1>5. CASE c.op = "compare_and_downgrade_since"
    <2>1. hstat[h] \in {"opening", "open"}
        BY <1>1, <1>5 DEF FenceInv, HandleFences, IsFence
    <2>2. CriticalIdOf[h] \in DOMAIN n.critical \/ IsTombstone(n)
        BY <1>1, <2>1 DEF SinceHandleInv, HasReader
    <2>3. WorkFn(h, c, n) = CompareAndDowngradeSince(n, CriticalIdOf[h], c.expected,
                                                     c.new, c.since)
        BY <1>5 DEF WorkFn
    <2> QED BY <1>2, <2>2, <2>3 DEF CompareAndDowngradeSince, Break, Continue
<1> QED BY <1>3, <1>4, <1>5

LEMMA FinalizersDoNotPanic ==
    ASSUME Inv, NEW h \in Finalizers, FinalizerInv(h), Attempt(h)
    PROVE  WorkRes(h).flow # "Panic"
<1> DEFINE n == NextVersion(Cached(h))
           c == call[h].cmd
<1>1. /\ h \in Handles /\ HandleFits(h, c) /\ c \in Commands /\ c.op # "none"
      /\ h \notin Writers /\ h \notin LeasedReaders /\ h \notin SinceHandles
      /\ call[h].pc = "ready" /\ n.since = Cached(h).since /\ n.upper = Cached(h).upper
    BY CallOf, NextVersionOK, HandlesAssumption DEF Handles, Cmd, Attempt, Fields
<1>2. WorkRes(h) = WorkFn(h, c, n)
    BY DEF WorkRes, Cmd
<1> HIDE DEF n
<1>3. c.op = "become_tombstone"
    BY <1>1, CommandFields DEF HandleFits
<1>4. WorkFn(h, c, n) = BecomeTombstoneAndShrink(n)
    BY <1>3 DEF WorkFn
<1>5. n.upper = Top /\ n.since = Top
    BY <1>1 DEF FinalizerInv
<1> QED BY <1>2, <1>4, <1>5 DEF BecomeTombstoneAndShrink, Break, Continue

LEMMA HasReaderForward ==
    ASSUME NEW h, NEW v, NEW u, HasReader(h, v), Keeps(v, u)
    PROVE  HasReader(h, u)
BY DEF HasReader, Keeps

(* A step that opens nothing and proposes nothing.                         *)
LEMMA SinceHandleKeeps ==
    ASSUME Inv, SeesForward, NEW h \in SinceHandles, SinceHandleInv(h),
           hstat'[h] \in {"opening", "open"} => hstat[h] \in {"opening", "open"},
           call'[h].pc \in {"sent", "committed"} =>
             /\ call[h].pc \in {"sent", "committed"}
             /\ call'[h].cmd = call[h].cmd /\ call'[h].st = call[h].st
    PROVE  SinceHandleInv(h)'
<1>1. h \in Handles /\ ProcOf[h] \in Procs
    BY CallOf DEF Handles
<1>2. Keeps(Cached(h), Cached(h)')
    BY <1>1 DEF SeesForward, Cached
<1>3. HasReader(h, Cached(h)) => HasReader(h, Cached(h)')
    BY <1>2, HasReaderForward
<1> QED BY <1>3 DEF SinceHandleInv, HasReader

LEMMA SinceHandleReturns ==
    ASSUME Inv, KeepsInv, FenceInv, SeesForward, NEW h \in SinceHandles,
           SinceHandleInv(h), call[h].pc # "idle", NEW r, NEW x, Returns(h, r, x),
           call[h].cmd.op = "register_critical_reader" => HasReader(h, Cached(h)')
    PROVE  SinceHandleInv(h)'
<1>1. /\ h \in Handles /\ HandleFits(h, Cmd(h)) /\ Cmd(h) \in Commands
      /\ Cmd(h).op # "none" /\ h \notin Writers /\ h \notin LeasedReaders
      /\ h \notin Finalizers /\ DOMAIN hstat = Handles
    BY CallOf, HandlesAssumption DEF Handles, Inv, TypeOK
<1>2. Cmd(h).op \in {"register_critical_reader", "compare_and_downgrade_since"}
    BY <1>1, CommandFields DEF HandleFits
<1>3. CASE Cmd(h).op = "register_critical_reader"
    <2>1. ReturnOpened(h, r)
        BY <1>3 DEF Returns
    <2>2. call'[h].pc = "idle"
        BY <1>1, <2>1, CallGoes DEF ReturnOpened
    <2> QED BY <1>3, <2>2 DEF SinceHandleInv, HasReader, Cmd
<1>4. CASE Cmd(h).op = "compare_and_downgrade_since"
    <2>1. ReturnCompareAndDowngrade(h, r)
        BY <1>4 DEF Returns
    <2>2. call'[h].pc = "idle"
        BY <1>1, <2>1, CallGoes DEF ReturnCompareAndDowngrade
    <2>3. hstat[h] \in {"opening", "open"}
        BY <1>4 DEF FenceInv, HandleFences, IsFence, Cmd
    <2> QED BY <2>2, <2>3, SinceHandleKeeps
<1> QED BY <1>2, <1>3, <1>4

LEMMA SinceHandleActs ==
    ASSUME Inv, KeepsInv, FenceInv, SeesForward, NEW h \in SinceHandles,
           SinceHandleInv(h), Acts(h)
    PROVE  SinceHandleInv(h)'
<1>1. /\ h \in Handles /\ h \notin Writers /\ h \notin LeasedReaders
      /\ h \notin Finalizers /\ DOMAIN hstat = Handles /\ DOMAIN call = Handles
      /\ ProcOf[h] \in Procs
    BY CallOf, HandlesAssumption DEF Handles, Inv, TypeOK
<1>2. ASSUME call'[h].pc \notin {"sent", "committed"}, hstat'[h] = hstat[h]
      PROVE  SinceHandleInv(h)'
    BY <1>2, SinceHandleKeeps
<1>3. CASE BeginOpenCritical(h) \/ BeginDowngradeCritical(h) \/ BeginFence(h)
    <2>1. hstat' = hstat /\ \E c : Start(h, c)
        BY <1>3 DEF BeginOpenCritical, BeginDowngradeCritical, BeginFence, StartNew,
                    handleVars
    <2>2. call'[h].pc = "ready"
        BY <1>1, <2>1, CallGoes
    <2> QED BY <1>2, <2>1, <2>2
<1>4. CASE Fenced(h)
    <2>1. hstat'[h] = "halted" /\ call' = call
        BY <1>1, <1>4 DEF Fenced
    <2> QED BY <2>1, SinceHandleKeeps
<1>5. CASE Attempt(h)
    <2>1. CASE Proposes(h)
        <3>1. PICK k : /\ k.pc = "sent" /\ call' = [call EXCEPT ![h] = k]
                       /\ Proposed(h, k)
            BY <1>1, <1>5, <2>1, Proposals
        <3>2. /\ call'[h] = k /\ hstat'[h] = hstat[h] /\ cache' = cache
              /\ k.cmd.op = "register_critical_reader" =>
                   CriticalIdOf[h] \in DOMAIN k.st.critical
            BY <1>1, <3>1 DEF Proposed, handleVars, Entries
        <3> QED BY <3>1, <3>2 DEF SinceHandleInv, HasReader, Cached
    <2>2. CASE WorkRes(h).flow = "Break" /\ Returns(h, WorkRes(h).ret, FALSE)
        <3>1. ASSUME call[h].cmd.op = "register_critical_reader"
              PROVE  HasReader(h, Cached(h)')
            <4>1. WorkRes(h) = RegisterCriticalReader(NextVersion(Cached(h)),
                                                      CriticalIdOf[h], DefaultOpaque)
                BY <3>1 DEF WorkRes, WorkFn, Cmd
            <4>2. IsTombstone(NextVersion(Cached(h)))
                BY <2>2, <4>1 DEF RegisterCriticalReader, Break, Continue
            <4>3. IsTombstone(Cached(h)) /\ Cached(h)' = Cached(h)
                BY <1>1, <1>5, <4>2, CallOf, NextVersionOK DEF Attempt, Cached
            <4> QED BY <4>3 DEF HasReader
        <3>2. call[h].pc # "idle"
            BY <1>5 DEF Attempt
        <3> QED BY <2>2, <3>1, <3>2, SinceHandleReturns
    <2>3. CASE Panics(h)
        <3>1. call'[h].pc = "assert_failed"
            BY <1>1, <2>3, CallGoes DEF Panics
        <3> QED BY <1>2, <2>3, <3>1 DEF Panics, handleVars
    <2> QED BY <1>5, <2>1, <2>2, <2>3 DEF Attempt
<1>6. CASE DeliverCommitted(h)
    <2>1. /\ call[h].pc = "committed" /\ Returns(h, call[h].ret, TRUE)
          /\ cache' = [cache EXCEPT ![ProcOf[h]] = Newer(Cached(h), call[h].st)]
        BY <1>6 DEF DeliverCommitted, Cached
    <2>2. ASSUME call[h].cmd.op = "register_critical_reader"
          PROVE  HasReader(h, Cached(h)')
        <3>1. HasReader(h, call[h].st) /\ call[h].st \in Known /\ Cached(h) \in Known
            BY <1>1, <2>1, <2>2, CallOf DEF SinceHandleInv, Known
        <3>2. call[h].st.seqno \in Nat /\ Cached(h).seqno \in Nat
            BY <3>1 DEF Inv, VersionOK, IsShardState
        <3>3. Cached(h)' = Newer(Cached(h), call[h].st)
            BY <1>1, <2>1 DEF Inv, TypeOK, Cached
        <3>4. CASE Cached(h).seqno < call[h].st.seqno
            BY <3>1, <3>3, <3>4 DEF Newer
        <3>5. CASE ~(Cached(h).seqno < call[h].st.seqno)
            <4>1. Keeps(call[h].st, Cached(h))
                BY <3>1, <3>2, <3>5 DEF KeepsInv
            <4>2. HasReader(h, Cached(h))
                BY <3>1, <4>1, HasReaderForward
            <4> QED BY <3>3, <3>5, <4>2 DEF Newer
        <3> QED BY <3>4, <3>5
    <2> QED BY <2>1, <2>2, SinceHandleReturns
<1>7. CASE CasMismatch(h)
    <2>1. call'[h].pc = "mismatch"
        BY <1>1, <1>7, CallGoes DEF CasMismatch
    <2> QED BY <1>2, <1>7, <2>1 DEF CasMismatch, handleVars
<1>8. CASE DeliverMismatch(h) \/ Indeterminate(h)
    <2>1. hstat' = hstat /\ \E i : Retry(h, i)
        BY <1>8 DEF DeliverMismatch, Indeterminate, handleVars
    <2>2. call'[h].pc = "ready"
        BY <1>1, <2>1, CallGoes
    <2> QED BY <1>2, <2>1, <2>2
<1> QED BY <1>1, <1>3, <1>4, <1>5, <1>6, <1>7, <1>8
        DEF Acts, ActsAsSinceHandle, ActsInCall

LEMMA FinalizerKeeps ==
    ASSUME Inv, SeesForward, NEW h \in Finalizers,
           call'[h].pc # "idle" => Cached(h).since = Top /\ Cached(h).upper = Top
    PROVE  FinalizerInv(h)'
<1>1. ProcOf[h] \in Procs
    BY CallOf DEF Handles
<1>2. /\ Cached(h).since <= Cached(h)'.since /\ Cached(h)'.since <= Top
      /\ Cached(h).upper <= Cached(h)'.upper /\ Cached(h)'.upper <= Top
      /\ Cached(h)'.since \in Nat /\ Cached(h)'.upper \in Nat
    BY <1>1 DEF SeesForward, Cached
<1> QED BY <1>2, TopAssumption DEF FinalizerInv, Cached

LEMMA FinalizerActs ==
    ASSUME Inv, SeesForward, NEW h \in Finalizers, FinalizerInv(h), Acts(h)
    PROVE  FinalizerInv(h)'
<1>1. h \notin Writers /\ h \notin LeasedReaders /\ h \notin SinceHandles
    BY HandlesAssumption DEF Handles
<1>2. Cached(h).since = Top /\ Cached(h).upper = Top
    <2>1. CASE BeginFinalize(h)
        BY <2>1 DEF BeginFinalize
    <2>2. CASE ActsInCall(h)
        BY <2>2 DEF FinalizerInv, ActsInCall, Attempt, CasMismatch, DeliverCommitted,
                    DeliverMismatch, Indeterminate
    <2> QED BY <1>1, <2>1, <2>2 DEF Acts
<1> QED BY <1>2, FinalizerKeeps

(* Another writer's append: it keeps its call, and its token is not the    *)
(* one that a step of somebody else may put into the log.                  *)
LEMMA OtherAppend ==
    ASSUME Inv, SeesForward, NEW w \in Writers, AppendInv(w),
           Appends(w)' => /\ Appends(w) /\ call'[w].cmd = call[w].cmd
                          /\ call'[w].indet = call[w].indet
                          /\ \/ call'[w].pc = call[w].pc
                             \/ call[w].pc = "sent" /\ call'[w].pc = "committed",
           Appends(w) /\ call[w].cmd.b.token \in Landed' =>
             \/ call[w].cmd.b.token \in Landed
             \/ call[w].pc = "sent" /\ call'[w].pc = "committed"
    PROVE  AppendInv(w)'
<1> SUFFICES ASSUME Appends(w)' PROVE AppendOK(call'[w], Cached(w)', Landed')
    BY DEF AppendInv
<1> DEFINE b == call[w].cmd.b
           u == Cached(w)'
<1>1. w \in Handles /\ ProcOf[w] \in Procs /\ call[w].cmd \in Commands
    BY CallOf DEF Handles, Cmd
<1>2. /\ Cached(w).upper \in Nat /\ u.upper \in Nat /\ Cached(w).upper <= u.upper
      /\ IsTombstone(Cached(w)) => IsTombstone(u)
    BY <1>1 DEF SeesForward, Cached, Keeps
<1>3. b \in HollowBatch /\ Appends(w) /\ AppendOK(call[w], Cached(w), Landed)
    BY <1>1, CommandFields DEF Appends, IsAppend, AppendInv
<1>4. AppendOK(call[w], u, Landed)
    BY <1>2, <1>3, AppendKeeps
<1> HIDE DEF u
<1>5. CASE call'[w].pc = call[w].pc
    <2>1. b.token \in Landed' => b.token \in Landed
        BY <1>3, <1>5
    <2> QED BY <1>4, <1>5, <2>1 DEF AppendOK, u
<1>6. CASE call[w].pc = "sent" /\ call'[w].pc = "committed"
    BY <1>4, <1>6 DEF AppendOK, u
<1> QED BY <1>5, <1>6

LEMMA ActsAssertInv ==
    ASSUME Inv, LogInv, KeepsInv, FenceInv, LeaseInv, AssertInv, SeesForward,
           Known' \subseteq Known, NEW h \in Handles, Acts(h)
    PROVE  AssertInv'
<1>1. Alone(h)
    BY ActsAlone
<1>2. /\ \A v \in Known' : WritersLogged(v)'
      /\ \A q \in Requests' : Accepted(q.st)' => RequestEntries(q)'
    BY <1>1, AloneWriters DEF AssertInv
<1>3. h \in Writers => AppendStep(h)
    BY AppendActs DEF AssertInv, NoAssertFails
<1>4. call'[h].pc # "assert_failed"
    <2>1. CASE h \in Writers
        BY <1>3, <2>1 DEF AppendStep
    <2>2. CASE h \notin Writers
        <3>1. Attempt(h) => WorkRes(h).flow # "Panic"
            BY <2>2, ReadersDoNotPanic, SinceHandlesDoNotPanic, FinalizersDoNotPanic
            DEF AssertInv, Handles
        <3>2. ~(Attempt(h) /\ Panics(h))
            BY <3>1, PanicsInCommand
        <3> QED BY <2>2, <3>2, OnlyAttemptsPanic DEF AssertInv, NoAssertFails
    <2> QED BY <2>1, <2>2
<1>5. NoAssertFails'
    BY <1>1, <1>4 DEF NoAssertFails, Alone, AssertInv
<1>6. ASSUME NEW w \in Writers PROVE AppendInv(w)'
    <2>1. CASE w = h
        BY <1>3, <2>1 DEF AppendStep
    <2>2. CASE w # h
        <3>1. call'[w] = call[w]
            BY <1>1, <2>2 DEF Alone, Handles
        <3>2. ASSUME Appends(w), call[w].cmd.b.token \in Landed',
                     call[w].cmd.b.token \notin Landed
              PROVE  FALSE
            <4>1. /\ call[h].pc = "sent" /\ IsAppend(call[h].cmd)
                  /\ call[w].cmd.b.token = call[h].cmd.b.token
                BY <1>1, <3>2, LandedAlone
            <4>2. h \in Writers /\ Appends(h)
                BY <4>1 DEF Appends, Inv, HandleFits, IsAppend
            <4> QED BY <2>2, <3>2, <4>1, <4>2 DEF AssertInv
        <3> QED BY <3>1, <3>2, OtherAppend DEF AssertInv, Appends
    <2> QED BY <2>1, <2>2
<1>7. ASSUME NEW v \in Writers, NEW w \in Writers, Appends(v)', Appends(w)',
             call'[v].cmd.b.token = call'[w].cmd.b.token
      PROVE  v = w
    <2>1. ASSUME NEW x \in Writers, Appends(x)'
          PROVE  \/ Appends(x) /\ call'[x].cmd = call[x].cmd
                 \/ x = h /\ call'[x].cmd.b.token = calls + 1
        <3>1. CASE x = h
            BY <1>3, <2>1, <3>1 DEF AppendStep
        <3>2. CASE x # h
            BY <1>1, <2>1, <3>2 DEF Alone, Handles, Appends
        <3> QED BY <3>1, <3>2
    <2>2. ASSUME NEW x \in Writers, Appends(x), call[x].cmd.b.token = calls + 1
          PROVE  FALSE
        <3>1. call[x].cmd.b \in Played
            BY <2>2 DEF Played, Appends, Handles
        <3> QED BY <2>2, <3>1, LogTypes DEF LogInv, TokensOK
    <2> QED BY <1>7, <2>1, <2>2 DEF AssertInv
<1>8. ASSUME NEW g \in SinceHandles PROVE SinceHandleInv(g)'
    <2>1. CASE g = h
        BY <2>1, SinceHandleActs DEF AssertInv
    <2>2. CASE g # h
        <3>1. call'[g] = call[g] /\ hstat'[g] = hstat[g]
            BY <1>1, <2>2 DEF Alone, OthersKeep, Handles
        <3> QED BY <3>1, SinceHandleKeeps DEF AssertInv
    <2> QED BY <2>1, <2>2
<1>9. ASSUME NEW g \in Finalizers PROVE FinalizerInv(g)'
    <2>1. CASE g = h
        BY <2>1, FinalizerActs DEF AssertInv
    <2>2. CASE g # h
        <3>1. call'[g] = call[g]
            BY <1>1, <2>2 DEF Alone, Handles
        <3> QED BY <3>1, FinalizerKeeps DEF AssertInv, FinalizerInv
    <2> QED BY <2>1, <2>2
<1> QED BY <1>2, <1>5, <1>6, <1>7, <1>8, <1>9 DEF AssertInv

LEMMA CommitAssertInv ==
    ASSUME Inv, LogInv, AssertInv, SeesForward, NEW q \in Requests, CommitsTo(q)
    PROVE  AssertInv'
<1>1. \A g \in Handles :
        /\ call'[g].cmd = call[g].cmd /\ call'[g].st = call[g].st
        /\ call'[g].indet = call[g].indet /\ hstat'[g] = hstat[g]
        /\ \/ call'[g].pc = call[g].pc
           \/ call[g].pc = "sent" /\ call'[g].pc = "committed"
    BY DEF CommitsTo, handleVars
<1>2. /\ \A v \in Known' : WritersLogged(v)'
      /\ \A p \in Requests' : Accepted(p.st)' => RequestEntries(p)'
    BY CommitWriters DEF AssertInv
<1>3. NoAssertFails'
    BY <1>1 DEF NoAssertFails, AssertInv
<1>4. \A w \in Writers : w \in Handles /\ (Appends(w)' <=> Appends(w))
    BY <1>1 DEF Appends, Handles
<1>5. ASSUME NEW w \in Writers PROVE AppendInv(w)'
    <2>1. ASSUME Appends(w), call[w].cmd.b.token \in Landed',
                 call[w].cmd.b.token \notin Landed
          PROVE  call[w].pc = "sent" /\ call'[w].pc = "committed"
        <3>1. PICK g \in Handles : /\ call[g].pc = "sent" /\ call'[g].pc = "committed"
                                   /\ IsAppend(call[g].cmd)
                                   /\ call[w].cmd.b.token = call[g].cmd.b.token
            BY <2>1, LandedCommit
        <3>2. g \in Writers /\ Appends(g)
            BY <3>1 DEF Appends, Inv, HandleFits, IsAppend
        <3> QED BY <2>1, <3>1, <3>2 DEF AssertInv
    <2> QED BY <1>1, <1>4, <2>1, OtherAppend DEF AssertInv
<1>6. \A v, w \in Writers :
        /\ Appends(v)' /\ Appends(w)'
        /\ call'[v].cmd.b.token = call'[w].cmd.b.token
        => v = w
    BY <1>1, <1>4 DEF AssertInv
<1>7. \A g \in SinceHandles : SinceHandleInv(g)'
    BY <1>1, SinceHandleKeeps DEF AssertInv, Handles
<1>8. \A g \in Finalizers : FinalizerInv(g)'
    BY <1>1, FinalizerKeeps DEF AssertInv, FinalizerInv, Handles
<1> QED BY <1>2, <1>3, <1>5, <1>6, <1>7, <1>8 DEF AssertInv

LEMMA QuietAssertInv ==
    ASSUME Inv, AssertInv, SeesForward, Known' \subseteq Known, Quiet
    PROVE  AssertInv'
<1>1. /\ call' = call /\ hstat' = hstat /\ cur' = cur /\ log' = log
      /\ orphans' = orphans
    BY DEF Quiet, handleVars
<1>2. /\ \A v \in Known' : WritersLogged(v)'
      /\ \A p \in Requests' : Accepted(p.st)' => RequestEntries(p)'
    BY <1>1 DEF AssertInv, WritersLogged, RequestEntries, Requests, Accepted
<1>3. Landed' = Landed
    BY <1>1 DEF Landed, Logged, Accepted
<1>4. \A w \in Writers : AppendInv(w)'
    BY <1>1, <1>3, OtherAppend DEF AssertInv, Appends
<1>5. \A g \in SinceHandles : SinceHandleInv(g)'
    BY <1>1, SinceHandleKeeps DEF AssertInv
<1>6. \A g \in Finalizers : FinalizerInv(g)'
    BY <1>1, FinalizerKeeps DEF AssertInv, FinalizerInv
<1> QED BY <1>1, <1>2, <1>4, <1>5, <1>6 DEF AssertInv, NoAssertFails, Appends

LEMMA NextAssertInv ==
    ASSUME Inv, LogInv, KeepsInv, FenceInv, LeaseInv, AssertInv, [Next]_vars
    PROVE  AssertInv'
<1>1. SeesForward
    BY CachesSeeForward
<1>2. cur' = cur => Known' \subseteq Known
    BY KnownSteps DEF LogInv, Covers
<1>3. CASE \E h \in Handles : Acts(h)
    <2>1. PICK h \in Handles : Acts(h)
        BY <1>3
    <2>2. cur' = cur
        BY <2>1, ActsAlone DEF Alone
    <2> QED BY <1>1, <1>2, <2>1, <2>2, ActsAssertInv
<1>4. CASE \E q \in Requests : CommitsTo(q)
    BY <1>1, <1>4, CommitAssertInv
<1>5. CASE Quiet
    BY <1>1, <1>2, <1>5, QuietAssertInv DEF Quiet
<1> QED BY <1>3, <1>4, <1>5, HandleSteps

LEMMA InitAssertInv == Init => AssertInv
<1> SUFFICES ASSUME Init PROVE AssertInv
    OBVIOUS
<1>1. \A h \in Handles : call[h].pc = "idle"
    BY DEF Init, Idle, Call
<1>2. Known = {InitialState} /\ Requests = {}
    BY <1>1 DEF Init, Known, Requests
<1>3. WritersLogged(InitialState)
    BY DEF WritersLogged, InitialState, NoEntries
<1>4. \A w \in Writers : ~Appends(w)
    BY <1>1 DEF Appends, Handles
<1>5. \A h \in SinceHandles : SinceHandleInv(h)
    BY <1>1, HandlesAssumption DEF Init, SinceHandleInv, Handles
<1>6. \A h \in Finalizers : FinalizerInv(h)
    BY <1>1 DEF FinalizerInv, Handles
<1> QED BY <1>1, <1>2, <1>3, <1>4, <1>5, <1>6 DEF AssertInv, NoAssertFails, AppendInv

LEMMA AssertInvariance ==
    Spec => [](Inv /\ LogInv /\ FenceInv /\ KeepsInv /\ LeaseInv /\ AssertInv)
<1>1. ASSUME Inv, LogInv, FenceInv, KeepsInv, LeaseInv, AssertInv, [Next]_vars
      PROVE  AssertInv'
    BY <1>1, NextAssertInv
<1> QED BY <1>1, LeaseInvariance, FenceInvariance, InitAssertInv, PTL DEF Spec

(* No assertion on the command path fails and no command tries to change a *)
(* tombstone, whatever is retried, lost or cancelled and however stale the *)
(* version a command is evaluated on, even if a lease runs out during a    *)
(* call (apply.rs compute_next_state_locked, state.rs compare_and_append,  *)
(* downgrade_since, critical_reader, machine.rs                            *)
(* compare_and_append_idempotent).                                         *)
THEOREM AssertionsHold == Spec => []NoAssertFails
<1>1. AssertInv => NoAssertFails
    BY DEF AssertInv
<1> QED BY <1>1, AssertInvariance, PTL

-----------------------------------------------------------------------------
(* The answers to compare_and_append, and ShardLog.                        *)

Token(w) == call[w].cmd.b.token

(* A version that shows that the call of writer w has been executed.       *)
Sees(v, w) ==
    \/ IsTombstone(v)
    \/ w \in DOMAIN v.writers /\ v.writers[w].token = Token(w)

(* The call, evaluated on the cached version, proposes (once more).        *)
Repeats(w) == WorkRes(w).flow = "Continue"

(* The requests that Consensus would accept and that append.               *)
Appendable == {q \in Requests : Accepted(q.st) /\ IsAppend(q.cmd)}

-----------------------------------------------------------------------------
(* The invariant of the answers.                                           *)

(* Where the execution of a call shows.                                    *)
ExecutedInv(w) ==
    /\ \A q \in Appendable :
         q.cmd.b.token = Token(w) => Cached(w) = cur /\ Repeats(w) /\ Sees(q.st, w)
    /\ Token(w) \in Logged =>
         \A v \in Known \cup Successors :
           \/ Sees(v, w)
           \/ v.seqno < Cached(w).seqno
           \/ v = Cached(w) /\ v # cur /\ Repeats(w)

(* What a call that has not been answered yet knows.                       *)
AnswerInv(w) ==
    /\ call[w].pc = "committed" => Token(w) \in Logged
    /\ \/ call[w].pc = "upper_mismatch"
       \/ call[w].pc \in {"ready", "sent", "mismatch"} /\ ~call[w].indet
       => Token(w) \notin Landed
    /\ call[w].pc # "panicked" => outcome[Token(w)] = "pending"

(* What the answers given so far say, and the calls that are still open.   *)
OutcomesInv ==
    /\ \A t \in 1 .. calls :
         /\ outcome[t] \in Rejections => t \notin Landed
         /\ outcome[t] = "Success" => t \in Logged
    /\ \A t \in 1 .. MaxCalls : calls < t => outcome[t] = "none"

RequestsOpen ==
    \A q \in Appendable : /\ q.cmd.b.token \notin Logged
                          /\ outcome[q.cmd.b.token] \in {"pending", "unknown"}
                          /\ q.st.since = cur.since

AnswersInv ==
    /\ \A w \in Writers :
         /\ Appends(w) => ExecutedInv(w) /\ AnswerInv(w)
         /\ call[w].pc = "upper_mismatch" => IsAppend(call[w].cmd)
    /\ OutcomesInv
    /\ RequestsOpen
    /\ Played \subseteq AppendBatches

-----------------------------------------------------------------------------
(* Whose entry a command removes: its own writer's, and all in a tombstone.*)

Stays(h, c, s, t) ==
    /\ IsTombstone(t) \/ DOMAIN s.writers \ {h} \subseteq DOMAIN t.writers
    /\ IsAppend(c) => /\ h \in DOMAIN t.writers /\ t.writers[h] = OwnEntry(c)
                      /\ t.since = s.since

LEMMA WorkFnStays ==
    ASSUME NEW h \in Handles, NEW c \in Commands, c.op # "none",
           NEW s, VersionOK(s), WorkFn(h, c, s).flow = "Continue"
    PROVE  Stays(h, c, s, WorkFn(h, c, s).st)
<1> DEFINE res == WorkFn(h, c, s)
           t == res.st
<1>1. Shape(s)
    BY VersionShape DEF VersionOK
<1>2. CASE c.op = "compare_and_append"
    <2>1. t.writers = Insert(s.writers, h, OwnEntry(c)) /\ t.since = s.since
        BY <1>1, <1>2, CompareAndAppendEntries DEF WorkFn, OwnEntry
    <2> HIDE DEF res
    <2>2. Stays(h, c, s, t)
        BY <2>1 DEF Insert, Stays
    <2> QED BY <2>2 DEF res
<1>3. ASSUME DOMAIN t.writers = DOMAIN s.writers \/ IsTombstone(t), ~IsAppend(c)
      PROVE  Stays(h, c, s, t)
    BY <1>3 DEF Stays
<1>4. CASE c.op = "expire_writer"
    <2> DEFINE ws == Without(s.writers, {h})
    <2>1. t = [s EXCEPT !.writers = ws]
        BY <1>4 DEF WorkFn, ExpireWriter, Break, Continue
    <2> HIDE DEF res, ws
    <2>2. t.writers = ws
        BY <1>1, <2>1, SetWriters DEF Fields
    <2>3. Stays(h, c, s, t)
        BY <1>4, <2>2 DEF Without, Stays, ws, IsAppend
    <2> QED BY <2>3 DEF res
<1>5. CASE c.op = "register_leased_reader"
    <2>1. \E ls : t = [s EXCEPT !.leased = ls]
        BY <1>5 DEF WorkFn, RegisterLeasedReader, Break, Continue
    <2> HIDE DEF res
    <2>2. t.writers = s.writers
        BY <1>1, <2>1, SetLeased DEF Fields
    <2> QED BY <1>3, <1>5, <2>2 DEF IsAppend, res
<1>6. CASE c.op = "downgrade_since"
    <2> DEFINE out == c.out
               f == c.since
    <2>1. out \in Nat /\ f \in Frontier
        BY <1>6, CommandFields
    <2>2. res = DowngradeSince(s, h, out, f)
        BY <1>6 DEF WorkFn
    <2> HIDE DEF out, f
    <2>3. DowngradeSince(s, h, out, f).flow = "Continue"
        BY <2>2
    <2>4. DowngradeSince(s, h, out, f).st.writers = s.writers
        BY <2>1, <2>3, DowngradeSinceEntries
    <2>5. t.writers = s.writers
        BY <2>2, <2>4
    <2> QED BY <1>3, <1>6, <2>5 DEF IsAppend
<1>7. CASE c.op = "expire_leased_reader"
    <2>1. \E ls : t = [s EXCEPT !.leased = ls]
        BY <1>7 DEF WorkFn, ExpireLeasedReader, Break, Continue
    <2> HIDE DEF res
    <2>2. t.writers = s.writers
        BY <1>1, <2>1, SetLeased DEF Fields
    <2> QED BY <1>3, <1>7, <2>2 DEF IsAppend, res
<1>8. CASE c.op = "register_critical_reader"
    <2>1. t.writers = s.writers
        BY <1>1, <1>8, RegisterCriticalReaderEntries DEF WorkFn
    <2> QED BY <1>3, <1>8, <2>1 DEF IsAppend
<1>9. CASE c.op = "compare_and_downgrade_since"
    <2>1. t.writers = s.writers
        BY <1>1, <1>9, CompareAndDowngradeSinceEntries DEF WorkFn
    <2> QED BY <1>3, <1>9, <2>1 DEF IsAppend
<1>10. CASE c.op = "become_tombstone"
    <2>1. IsTombstone(t)
        BY <1>1, <1>10, BecomeTombstoneEntries DEF WorkFn
    <2> QED BY <1>3, <1>10, <2>1 DEF IsAppend
<1> QED BY <1>2, <1>4, <1>5, <1>6, <1>7, <1>8, <1>9, <1>10, CommandFields

(* The same from the cached version to the proposal: the leases that run   *)
(* out with it are of writers that are not in an append.                   *)
LEMMA ProposalStays ==
    ASSUME Inv, LeaseOutlivesCall, NEW h \in Handles, Acts(h), call'[h].pc = "sent"
    PROVE  LET t == call'[h].st IN
           /\ \A w \in Writers \ {h} :
                Appends(w) /\ w \in DOMAIN Cached(h).writers =>
                  w \in DOMAIN t.writers \/ IsTombstone(t)
           /\ IsAppend(call[h].cmd) =>
                /\ h \in DOMAIN t.writers /\ t.writers[h] = OwnEntry(call[h].cmd)
                /\ t.since = Cached(h).since
<1> DEFINE s == Cached(h)
           c == call[h].cmd
           n == NextVersion(s)
           res == WorkFn(h, c, n)
           u == res.st
<1>1. /\ VersionOK(s) /\ c \in Commands /\ DOMAIN call = Handles /\ IsCall(call[h])
      /\ call[h].pc # "idle" => c.op # "none"
      /\ HandleFits(h, c)
    BY CallOf DEF Cmd
<1>2. call[h].pc = "ready"
    BY ActsAlone DEF Alone, Proposed
<1>3. Attempt(h) /\ Proposes(h)
    <2>1. Attempt(h) \/ Cancel(h)
        BY <1>2
        DEF Acts, ActsAsWriter, ActsAsReader, ActsAsSinceHandle, ActsInCall,
            BeginAppend, BeginExpireWriter, RecheckUpper, BeginRegister,
            BeginDowngrade, BeginExpireReader, BeginOpenCritical,
            BeginDowngradeCritical, BeginFence, Fenced, BeginFinalize, StartNew,
            Start, CasMismatch, DeliverCommitted, DeliverMismatch, Indeterminate
    <2>2. ~Rests(h)
        BY <1>1 DEF Rests
    <2>3. ~Cancel(h)
        BY <2>2, DoneRests DEF Cancel
    <2>4. ~Panics(h) /\ ~Returns(h, WorkRes(h).ret, FALSE)
        BY <2>2, GoToRests, ReturnsRests DEF Panics
    <2> QED BY <2>1, <2>3, <2>4 DEF Attempt
<1>4. WorkRes(h) = res /\ res.flow = "Continue"
    BY <1>3 DEF WorkRes, Proposes, Cmd
<1>5. PICK R, W : /\ W \subseteq Expired(h)
                  /\ call' = [call EXCEPT ![h] = Call("sent", Cmd(h),
                                ExpireAt(res.st, R, W), res.ret, call[h].indet)]
    BY <1>3, <1>4 DEF Proposes
<1>6. VersionOK(n) /\ n.writers = s.writers /\ n.since = s.since
    BY <1>1, NextVersionOK DEF Fields
<1> DEFINE v == [u EXCEPT !.leased = Without(u.leased, R)]
           t == [v EXCEPT !.writers = Without(u.writers, W)]
<1>7. call'[h].st = t
    <2>1. call'[h].st = ExpireAt(u, R, W)
        BY <1>1, <1>5, CallFields
    <2> QED BY <2>1 DEF ExpireAt
<1> HIDE DEF n
<1>8. Stays(h, c, n, u) /\ Shape(u)
    <2>1. Stays(h, c, n, u)
        BY <1>1, <1>2, <1>4, <1>6, WorkFnStays
    <2>2. Advances(n, u)
        BY <1>1, <1>2, <1>4, <1>6, WorkFnAdvances
    <2> QED BY <2>1, <2>2, VersionShape DEF Advances, VersionOK
<1> HIDE DEF res
<1>9. Fields(v, u.seqno, u.since, u.upper, u.writers, Without(u.leased, R),
             u.critical, u.batches)
    BY <1>8, SetLeased
<1> HIDE DEF v
<1>10. Fields(t, v.seqno, v.since, v.upper, Without(u.writers, W), v.leased,
             v.critical, v.batches)
    BY <1>9, ShapeOf, SetWriters
<1> HIDE DEF t
<1>11. /\ t.since = u.since /\ t.upper = u.upper /\ t.critical = u.critical
       /\ t.leased = Without(u.leased, R) /\ t.writers = Without(u.writers, W)
    BY <1>9, <1>10 DEF Fields
<1>12. IsTombstone(u) => IsTombstone(t)
    BY <1>11 DEF Without, IsTombstone
<1>13. ASSUME NEW w \in Writers, Appends(w) \/ (w = h /\ IsAppend(c)) PROVE w \notin W
    BY <1>2, <1>5, <1>13
    DEF Expired, Appending, Appends, IsAppend, Heartbeated, Heartbeats, Cmd
<1>14. ASSUME NEW w \in DOMAIN u.writers, w \notin W
       PROVE  w \in DOMAIN t.writers /\ t.writers[w] = u.writers[w]
    BY <1>11, <1>14 DEF Without
<1>15. ASSUME NEW w \in Writers \ {h}, Appends(w), w \in DOMAIN s.writers
       PROVE  w \in DOMAIN t.writers \/ IsTombstone(t)
    BY <1>6, <1>8, <1>12, <1>13, <1>14, <1>15 DEF Stays
<1>16. ASSUME IsAppend(c)
       PROVE  /\ h \in DOMAIN t.writers /\ t.writers[h] = OwnEntry(c)
              /\ t.since = s.since
    <2>1. h \in Writers
        BY <1>1, <1>16 DEF HandleFits, IsAppend
    <2> QED BY <1>6, <1>8, <1>11, <1>13, <1>14, <1>16, <2>1 DEF Stays
<1> QED BY <1>7, <1>15, <1>16

-----------------------------------------------------------------------------
(* Where the execution of a call shows.                                    *)

(* An append evaluated on a version that shows it is not proposed again.   *)
LEMMA SeenResult ==
    ASSUME Inv, NEW w \in Writers, Appends(w), Sees(Cached(w), w)
    PROVE  LET res == WorkRes(w) IN
           /\ ~Repeats(w)
           /\ res.flow = "Break" =>
                \/ /\ IsTombstone(Cached(w))
                   /\ res.ret.err = "Upper" /\ res.ret.writer_upper = Top
                \/ res.ret.err = "InvalidUsage" /\ ~IsValid(call[w].cmd.b)
                \/ res.ret.err = "AlreadyCommitted"
<1> DEFINE b == call[w].cmd.b
           s == Cached(w)
           n == NextVersion(s)
           res == CompareAndAppend(n, w, b)
           top == [err |-> "Upper", shard_upper |-> Top, writer_upper |-> Top]
<1>1. /\ w \in Handles /\ VersionOK(s) /\ call[w].cmd \in Commands
    BY CallOf DEF Handles, Cmd
<1>2. b \in HollowBatch /\ b.lower \in Nat /\ b.upper \in Nat
    BY <1>1, CommandFields, TopAssumption DEF Appends, IsAppend, HollowBatch, Frontier
<1>3. n.writers = s.writers /\ (IsTombstone(n) <=> IsTombstone(s))
    BY <1>1, NextVersionOK DEF Fields
<1>4. WorkRes(w) = res
    BY DEF WorkRes, WorkFn, Cmd, Appends, IsAppend
<1>5. IsValid(b) <=> ~(b.upper < b.lower \/ (b.upper = b.lower /\ ~b.empty))
    BY <1>2 DEF IsValid
<1> HIDE DEF n
<1>6. IsTombstone(n) \/ b.token = WriterEntry(n, w).token
    BY <1>3 DEF Sees, Token, WriterEntry
<1>7. \/ IsTombstone(n) /\ res = Break(top)
      \/ ~IsValid(b) /\ res = Break([err |-> "InvalidUsage"])
      \/ res = Break([err |-> "AlreadyCommitted"])
      \/ res = Panic
    BY <1>5, <1>6 DEF CompareAndAppend
<1> HIDE DEF res
<1>8. /\ \A r : Break(r).flow = "Break" /\ Break(r).ret = r
      /\ Panic.flow = "Panic"
    BY DEF Break, Panic
<1> QED BY <1>3, <1>4, <1>7, <1>8 DEF Repeats

(* A process sees a later version, or the same.                            *)
CachedForward(w) ==
    /\ Cached(w) \in Known /\ Cached(w)' \in Known
    /\ Cached(w).seqno <= Cached(w)'.seqno

LEMMA CachesForward ==
    ASSUME Inv, [Next]_vars
    PROVE  \A w \in Writers : CachedForward(w)
<1> SUFFICES ASSUME NEW w \in Writers PROVE CachedForward(w)
    OBVIOUS
<1>1. w \in Handles /\ ProcOf[w] \in Procs /\ Cached(w) \in Known
    BY CallOf DEF Handles
<1>2. Cached(w)' \in Known /\ Cached(w).seqno <= Cached(w)'.seqno
    <2>1. Cached(w).seqno \in Nat
        BY <1>1, CallOf DEF VersionOK, IsShardState
    <2> QED BY <1>1, <2>1, CacheMoves DEF CacheMove, Cached
<1> QED BY <1>1, <1>2 DEF CachedForward

LEMMA SeqnosKnown ==
    ASSUME Inv
    PROVE  /\ cur \in Known
           /\ \A v \in Known : v.seqno \in Nat /\ v.seqno <= cur.seqno
           /\ \A v, u \in Known : v.seqno = u.seqno => v = u
           /\ \A v \in Successors : v.seqno = cur.seqno + 1
BY DEF Inv, OneHistory, Known, VersionOK, IsShardState, Successors, Accepted

(* The current version shows a call that was executed.                     *)
LEMMA CurSees ==
    ASSUME Inv, NEW w \in Writers, ExecutedInv(w), Token(w) \in Logged
    PROVE  Sees(cur, w)
<1>1. w \in Handles /\ Cached(w) \in Known
    BY CallOf DEF Handles
<1>2. /\ cur \in Known /\ cur.seqno \in Nat /\ Cached(w).seqno \in Nat
      /\ Cached(w).seqno <= cur.seqno
    BY <1>1, SeqnosKnown
<1> QED BY <1>2 DEF ExecutedInv

(* A step that commits nothing.                                            *)
LEMMA ExecutedSame ==
    ASSUME Inv, NEW w \in Writers, ExecutedInv(w), call'[w].cmd = call[w].cmd,
           cur' = cur, log' = log, Known' \subseteq Known, CachedForward(w),
           \A q \in Appendable' \ Appendable : q.cmd.b.token = Token(w) =>
             Cached(w) = cur /\ Repeats(w) /\ Sees(q.st, w),
           Token(w) \in Logged =>
             \A v \in Successors' \ Successors : Sees(v, w)
    PROVE  ExecutedInv(w)'
<1>1. /\ Token(w)' = Token(w) /\ Logged' = Logged
      /\ \A v : Sees(v, w)' <=> Sees(v, w)
    BY DEF Token, Sees, Logged
<1>2. Cached(w)' = Cached(w) => (Repeats(w)' <=> Repeats(w))
    BY DEF Repeats, WorkRes, Cmd
<1>3. /\ Cached(w).seqno \in Nat /\ Cached(w)'.seqno \in Nat /\ cur.seqno \in Nat
      /\ Cached(w)'.seqno <= cur.seqno
      /\ Cached(w)'.seqno = cur.seqno => Cached(w)' = cur
      /\ Cached(w)' # Cached(w) => Cached(w).seqno < Cached(w)'.seqno
    <2>1. cur \in Known /\ Cached(w) \in Known /\ Cached(w)' \in Known
        BY SeqnosKnown DEF CachedForward
    <2>2. /\ Cached(w).seqno \in Nat /\ Cached(w)'.seqno \in Nat /\ cur.seqno \in Nat
          /\ Cached(w)'.seqno <= cur.seqno
          /\ Cached(w)'.seqno = cur.seqno => Cached(w)' = cur
          /\ Cached(w)'.seqno = Cached(w).seqno => Cached(w)' = Cached(w)
        BY <2>1, SeqnosKnown
    <2>3. Cached(w).seqno <= Cached(w)'.seqno
        BY DEF CachedForward
    <2> QED BY <2>2, <2>3
<1>4. Cached(w) = cur => Cached(w)' = Cached(w)
    BY <1>3
<1>5. ASSUME NEW q \in Appendable', q.cmd.b.token = Token(w)
      PROVE  Cached(w)' = cur /\ Repeats(w)' /\ Sees(q.st, w)
    <2>1. Cached(w) = cur /\ Repeats(w) /\ Sees(q.st, w)
        BY <1>5 DEF ExecutedInv
    <2> QED BY <1>2, <1>4, <2>1
<1>6. ASSUME Token(w) \in Logged, NEW v \in (Known \cup Successors)'
      PROVE  \/ Sees(v, w)
             \/ v.seqno < Cached(w)'.seqno
             \/ v = Cached(w)' /\ v # cur /\ Repeats(w)'
    <2>1. CASE v \in Known \cup Successors
        <3>1. v.seqno \in Nat
            BY <1>3, <2>1, SeqnosKnown
        <3>2. \/ Sees(v, w)
              \/ v.seqno < Cached(w).seqno
              \/ v = Cached(w) /\ v # cur /\ Repeats(w)
            BY <1>6, <2>1 DEF ExecutedInv
        <3> QED BY <1>2, <1>3, <3>1, <3>2 DEF CachedForward
    <2>2. CASE v \notin Known \cup Successors
        BY <1>6, <2>2
    <2> QED BY <2>1, <2>2
<1> QED BY <1>1, <1>5, <1>6 DEF ExecutedInv

LEMMA ExecutedActs ==
    ASSUME Inv, LogInv, KeepsInv, AssertInv, LeaseOutlivesCall, NEW h \in Handles, Acts(h),
           Known' \subseteq Known, NEW w \in Writers, Appends(w), CachedForward(w),
           ExecutedInv(w), call'[w].cmd = call[w].cmd
    PROVE  ExecutedInv(w)'
<1>1. Alone(h) /\ cur' = cur /\ log' = log /\ w \in Handles
    BY ActsAlone DEF Alone, Handles
<1>2. ASSUME NEW q \in Appendable' \ Appendable, q.cmd.b.token = Token(w)
      PROVE  Cached(w) = cur /\ Repeats(w) /\ Sees(q.st, w)
    <2>1. q \in Requests' /\ Accepted(q.st)' /\ IsAppend(q.cmd)
        BY DEF Appendable
    <2>2. Accepted(q.st) /\ q \notin Requests
        BY <1>1, <2>1, AloneRequests DEF Appendable
    <2>3. /\ Proposed(h, call'[h]) /\ call'[h].pc = "sent"
          /\ q.st = call'[h].st /\ q.cmd = call[h].cmd /\ Cached(h) = cur
        BY <1>1, <2>1, <2>2, AloneRequests
    <2>4. h \in Writers /\ Appends(h)
        BY <2>1, <2>3 DEF Appends, Inv, HandleFits, IsAppend, Proposed
    <2>5. h = w
        BY <1>2, <2>3, <2>4 DEF AssertInv, Token
    <2>6. w \in DOMAIN q.st.writers /\ q.st.writers[w] = OwnEntry(call[w].cmd)
        BY <2>1, <2>3, <2>5, ProposalStays
    <2>7. Sees(q.st, w)
        BY <2>6 DEF Sees, OwnEntry, Token
    <2> QED BY <2>3, <2>5, <2>7 DEF Proposed, Repeats
<1>3. ASSUME Token(w) \in Logged, NEW v \in Successors' \ Successors
      PROVE  Sees(v, w)
    <2>1. /\ Proposed(h, call'[h]) /\ call'[h].pc = "sent" /\ v = call'[h].st
          /\ Cached(h) = cur /\ Entries(h, call[h].cmd, cur, v, call'[h].ret)
        BY <1>1, AloneSuccessors
    <2>2. Sees(cur, w)
        BY <1>3, CurSees
    <2>3. CASE IsTombstone(cur)
        BY <2>1, <2>3 DEF Entries, Keeps, Sees
    <2>4. CASE h = w
        <3>1. ~Repeats(w)
            BY <2>1, <2>2, <2>4, SeenResult
        <3> QED BY <2>1, <2>4, <3>1 DEF Proposed, Repeats
    <2>5. CASE ~IsTombstone(cur) /\ h # w
        <3>1. w \in DOMAIN cur.writers /\ cur.writers[w].token = Token(w)
            BY <2>2, <2>5 DEF Sees
        <3>2. w \in DOMAIN v.writers \/ IsTombstone(v)
            BY <2>1, <2>5, <3>1, ProposalStays
        <3>3. w \in DOMAIN v.writers => v.writers[w] = cur.writers[w]
            BY <2>1, <2>5 DEF Entries, WriterEntries
        <3> QED BY <3>1, <3>2, <3>3 DEF Sees
    <2> QED BY <2>3, <2>4, <2>5
<1> QED BY <1>1, <1>2, <1>3, ExecutedSame

LEMMA ExecutedQuiet ==
    ASSUME Inv, Quiet, Known' \subseteq Known, NEW w \in Writers, CachedForward(w),
           ExecutedInv(w)
    PROVE  ExecutedInv(w)'
<1>1. cur' = cur /\ log' = log /\ call' = call /\ orphans' = orphans
    BY DEF Quiet
<1>2. Appendable' = Appendable /\ Successors' = Successors
    BY <1>1 DEF Appendable, Successors, Requests, Accepted
<1> QED BY <1>1, <1>2, ExecutedSame

LEMMA ExecutedCommit ==
    ASSUME Inv, LogInv, NEW q \in Requests, CommitsTo(q), NEW w \in Writers, Appends(w),
           ExecutedInv(w)
    PROVE  ExecutedInv(w)'
<1>1. /\ Successors' = {} /\ q.st \in Successors /\ cur' = q.st
      /\ q.st.seqno = cur.seqno + 1 /\ cur.seqno \in Nat
      /\ Known' \subseteq Known \cup {q.st}
    BY CommitFacts
<1>2. w \in Handles /\ Cached(w)' = Cached(w) /\ call'[w].cmd = call[w].cmd
    BY DEF CommitsTo, Cached, Handles
<1>3. /\ Token(w)' = Token(w) /\ Repeats(w)' = Repeats(w)
      /\ \A v : Sees(v, w)' <=> Sees(v, w)
    BY <1>2 DEF Token, Sees, Repeats, WorkRes, Cmd
<1>4. Appendable' = {}
    BY <1>1 DEF Appendable, Successors
<1>5. Cached(w) \in Known
    BY <1>2, CallOf
<1>6. /\ \A v \in Known : v.seqno \in Nat /\ v.seqno <= cur.seqno
      /\ \A v \in Known : v.seqno = Cached(w).seqno => v = Cached(w)
    BY <1>5, SeqnosKnown
<1>7. ASSUME Token(w) \in Logged', NEW v \in Known'
      PROVE  \/ Sees(v, w)
             \/ v.seqno < Cached(w).seqno
             \/ v = Cached(w) /\ v # q.st /\ Repeats(w)
    <2>1. CASE Token(w) \in Logged
        <3>1. v \in Known \cup Successors
            BY <1>1
        <3>2. \/ Sees(v, w)
              \/ v.seqno < Cached(w).seqno
              \/ v = Cached(w) /\ v # cur /\ Repeats(w)
            BY <2>1, <3>1 DEF ExecutedInv
        <3>3. Cached(w) # q.st
            BY <1>1, <1>5, <1>6
        <3> QED BY <3>2, <3>3
    <2>2. CASE Token(w) \notin Logged
        <3>1. IsAppend(q.cmd) /\ q.cmd.b.token = Token(w)
            <4>1. CASE IsAppend(q.cmd)
                <5>1. log \in Seq(HollowBatch) /\ q.cmd.b \in HollowBatch
                    BY <4>1, LogTypes, CommandFields DEF IsAppend
                <5>2. log' = Append(log, q.cmd.b)
                    BY <4>1 DEF CommitsTo, Commit, IsAppend
                <5> QED BY <1>7, <2>2, <4>1, <5>1, <5>2 DEF Logged
            <4>2. CASE ~IsAppend(q.cmd)
                BY <1>7, <2>2, <4>2 DEF Logged, CommitsTo, Commit, IsAppend
            <4> QED BY <4>1, <4>2
        <3>2. q \in Appendable
            BY <3>1 DEF Appendable, CommitsTo
        <3>3. Cached(w) = cur /\ Repeats(w) /\ Sees(q.st, w)
            BY <3>1, <3>2 DEF ExecutedInv
        <3>4. CASE v = q.st
            BY <3>3, <3>4
        <3>5. CASE v # q.st
            BY <1>1, <1>6, <3>3, <3>5
        <3> QED BY <3>4, <3>5
    <2> QED BY <2>1, <2>2
<1>8. ASSUME Token(w)' \in Logged', NEW v \in (Known \cup Successors)'
      PROVE  \/ Sees(v, w)'
             \/ v.seqno < Cached(w)'.seqno
             \/ v = Cached(w)' /\ v # cur' /\ Repeats(w)'
    BY <1>1, <1>2, <1>3, <1>7, <1>8
<1> QED BY <1>4, <1>8 DEF ExecutedInv

LEMMA ExecutedBegins ==
    ASSUME Inv, LogInv, NEW w \in Writers, BeginAppend(w)
    PROVE  ExecutedInv(w)' /\ Token(w)' = calls + 1 /\ calls + 1 \notin Landed
<1>1. PICK i \in AppendInputs, x \in BOOLEAN :
        Start(w, [op |-> "compare_and_append", b |-> BatchOf(calls + 1, i, x)])
    BY DEF BeginAppend, StartNew
<1>2. w \in Handles /\ call'[w].cmd.b.token = calls + 1 /\ call'[w].pc = "ready"
    <2> DEFINE c == [op |-> "compare_and_append", b |-> BatchOf(calls + 1, i, x)]
    <2>1. c.b.token = calls + 1
        BY DEF BatchOf
    <2> HIDE DEF c
    <2> QED BY <1>1, <2>1, CallGoes DEF c, Handles
<1>3. calls \in Nat /\ \A b \in Played : b.token \in Nat /\ b.token <= calls
    BY LogTypes DEF LogInv, TokensOK
<1>4. /\ \A t \in Landed : \E b \in Played : t = b.token
      /\ \A q \in Appendable : q.cmd.b \in Played
    BY DEF Landed, Logged, Played, Appendable, Requests
<1>5. calls + 1 \notin Landed
    BY <1>3, <1>4
<1>6. Alone(w)
    BY <1>2, ActsAlone DEF Acts, ActsAsWriter
<1>7. \A q \in Appendable' : q \in Appendable
    BY <1>2, <1>6, AloneRequests DEF Appendable, Proposed
<1>8. \A q \in Appendable' : q.cmd.b.token # calls + 1
    BY <1>3, <1>4, <1>7
<1>9. calls + 1 \notin Logged'
    BY <1>5, <1>6 DEF Alone, Logged, Landed
<1> QED BY <1>2, <1>5, <1>8, <1>9 DEF ExecutedInv, Token

-----------------------------------------------------------------------------
(* The answers.                                                            *)

(* A call that was executed, or may be yet, is found out.                  *)
LEMMA LandedIsSeen ==
    ASSUME Inv, NEW w \in Writers, ExecutedInv(w), Token(w) \in Landed
    PROVE  Repeats(w) \/ Sees(Cached(w), w)
<1>1. w \in Handles /\ Cached(w) \in Known
    BY CallOf DEF Handles
<1>2. Cached(w).seqno \in Nat
    BY <1>1, SeqnosKnown
<1>3. CASE Token(w) \in Logged
    BY <1>1, <1>2, <1>3 DEF ExecutedInv
<1>4. CASE Token(w) \notin Logged
    BY <1>4 DEF Landed, Appendable, Requests, ExecutedInv
<1> QED BY <1>3, <1>4

(* What a caller may be told.                                              *)
TrueAnswer(w, o) ==
    \/ o = "unknown"
    \/ o = "Success" /\ Token(w) \in Logged
    \/ o \in Rejections /\ Token(w) \notin Landed /\ orphans' = orphans
Answers(w) ==
    /\ Appends(w) /\ call[w].pc # "panicked"
    /\ \E o : TrueAnswer(w, o) /\ outcome' = [outcome EXCEPT ![Token(w)] = o]

AnswerStep(w) ==
    /\ outcome' = outcome \/ Answers(w)
    /\ Appends(w)' => Appends(w) /\ call'[w].cmd = call[w].cmd /\ AnswerInv(w)'
    /\ call'[w].pc = "upper_mismatch" => IsAppend(call'[w].cmd)

LEMMA AnswerAttempts ==
    ASSUME Inv, \A v \in Known : WritersLogged(v), NEW w \in Writers,
           AppendInv(w), Appends(w), Attempt(w), ExecutedInv(w), AnswerInv(w),
           call'[w].pc # "assert_failed"
    PROVE  AnswerStep(w)
<1> DEFINE b == call[w].cmd.b
           n == NextVersion(Cached(w))
           e == WriterEntry(n, w)
           res == WorkRes(w)
<1>1. /\ w \in Handles /\ call[w].pc = "ready" /\ DOMAIN call = Handles
      /\ b.token # Sentinel /\ call[w].indet \in BOOLEAN /\ Token(w) = b.token
      /\ call[w].cmd \in Commands /\ Cached(w) \in Known /\ VersionOK(Cached(w))
      /\ call[w].indet => IsValid(b)
    BY CallOf DEF Handles, Attempt, AppendInv, AppendOK, Cmd, Token
<1>2. b \in HollowBatch /\ b.upper \in Nat /\ b.upper <= Top
    BY <1>1, CommandFields, LogTypes DEF Appends, IsAppend
<1>3. /\ cur' = cur /\ log' = log /\ orphans' = orphans
    BY DEF Attempt
<1>4. Landed' = Landed /\ Logged' = Logged
    BY <1>3 DEF Landed, Logged, Accepted
<1>5. Token(w) \in Landed /\ res.flow = "Break" =>
        \/ res.ret.err = "Upper" /\ res.ret.writer_upper = Top
        \/ res.ret.err = "InvalidUsage" /\ ~IsValid(b)
        \/ res.ret.err = "AlreadyCommitted"
    BY LandedIsSeen, SeenResult DEF Repeats
<1>6. ~call[w].indet => Token(w) \notin Landed
    BY <1>1 DEF AnswerInv
<1>7. outcome[Token(w)] = "pending"
    BY <1>1 DEF AnswerInv
<1>8. ASSUME call'[w].cmd = call[w].cmd, outcome' = outcome,
             \/ call'[w].pc = "upper_mismatch" /\ Token(w) \notin Landed
             \/ call'[w].pc = "sent" /\ call'[w].indet = call[w].indet
      PROVE  AnswerStep(w)
    <2>1. Token(w)' = Token(w)
        BY <1>8 DEF Token
    <2>2. AnswerInv(w)'
        BY <1>4, <1>6, <1>7, <1>8, <2>1 DEF AnswerInv
    <2> QED BY <1>8, <2>2 DEF AnswerStep, Appends
<1>9. ASSUME call'[w].pc = "idle",
             NEW o, TrueAnswer(w, o), outcome' = [outcome EXCEPT ![Token(w)] = o]
      PROVE  AnswerStep(w)
    BY <1>1, <1>9 DEF AnswerStep, Answers, Appends
<1>10. CASE Proposes(w)
    <2>1. PICK k : k.pc = "sent" /\ call' = [call EXCEPT ![w] = k] /\ Proposed(w, k)
        BY <1>1, <1>10, Proposals
    <2>2. /\ call'[w] = k /\ k.cmd = call[w].cmd /\ k.indet = call[w].indet
          /\ outcome' = outcome
        BY <1>1, <2>1 DEF Proposed
    <2> QED BY <1>8, <2>1, <2>2
<1>11. CASE res.flow = "Break" /\ Returns(w, res.ret, FALSE)
    <2>1. ReturnAppendBreak(w, res.ret)
        BY <1>11 DEF Returns, Cmd, Appends, IsAppend
    <2>2. \A o : AppendOutcome(w, o) => outcome' = [outcome EXCEPT ![Token(w)] = o]
        BY DEF AppendOutcome, Token, Cmd
    <2>3. ~GoTo(w, "assert_failed")
        BY <1>1, CallGoes
    <2>4. CASE /\ res.ret.err = "AlreadyCommitted"
               /\ Done(w) /\ AppendOutcome(w, "Success")
        <3>1. WorkRes(w) = CompareAndAppend(n, w, b)
            BY DEF WorkRes, WorkFn, Cmd, Appends, IsAppend
        <3>2. b.token = e.token
            <4> HIDE DEF n, e, b
            <4> QED BY <1>2, <1>11, <2>4, <3>1, AppendResult DEF e
        <3>3. n.writers = Cached(w).writers
            BY <1>1, NextVersionOK DEF Fields
        <3>4. w \in DOMAIN Cached(w).writers /\ Cached(w).writers[w].token = b.token
            <4> HIDE DEF n
            <4> QED BY <1>1, <3>2, <3>3 DEF WriterEntry
        <3>5. Token(w) \in Logged
            BY <1>1, <3>4 DEF WritersLogged, Logged
        <3>6. TrueAnswer(w, "Success")
            BY <3>5 DEF TrueAnswer
        <3>7. call'[w].pc = "idle"
            BY <1>1, <2>4, CallGoes
        <3> QED BY <1>9, <2>2, <2>4, <3>6, <3>7
    <2>5. ASSUME NEW o \in Rejections, Done(w), AppendOutcome(w, o),
                 Token(w) \notin Landed
          PROVE  AnswerStep(w)
        <3>1. TrueAnswer(w, o)
            BY <1>3, <2>5 DEF TrueAnswer
        <3>2. call'[w].pc = "idle"
            BY <1>1, <2>5, CallGoes
        <3> QED BY <1>9, <2>2, <2>5, <3>1, <3>2
    <2>6. CASE /\ res.ret.err = "InvalidUsage" /\ ~call[w].indet
               /\ Done(w) /\ AppendOutcome(w, "InvalidUsage")
        BY <1>6, <2>5, <2>6 DEF Rejections
    <2>7. CASE /\ res.ret.err = "InlineBackpressure"
               /\ Done(w) /\ AppendOutcome(w, "InlineBackpressure")
        BY <1>5, <1>11, <2>5, <2>7 DEF Rejections
    <2>8. CASE /\ res.ret.err = "Upper"
               /\ res.ret.writer_upper < b.upper \/ ~call[w].indet
               /\ call' = [call EXCEPT ![w] = Call("upper_mismatch", Cmd(w),
                                     Cached(w), NoRet, call[w].indet)]
               /\ UNCHANGED outcome
        <3>1. /\ call'[w].pc = "upper_mismatch" /\ call'[w].cmd = call[w].cmd
            BY <1>1, <2>8, CallFields DEF Cmd
        <3>2. Token(w) \notin Landed
            BY <1>2, <1>5, <1>6, <1>11, <2>8, TopAssumption
        <3> QED BY <1>8, <2>8, <3>1, <3>2
    <2>9. CASE GoTo(w, "panicked") /\ AppendOutcome(w, "unknown")
        <3>1. call'[w].pc = "panicked" /\ call'[w].cmd = call[w].cmd
            BY <1>1, <2>9, CallGoes
        <3>2. TrueAnswer(w, "unknown")
            BY DEF TrueAnswer
        <3>3. Answers(w)
            BY <1>1, <2>2, <2>9, <3>2 DEF Answers
        <3> QED BY <3>1, <3>3 DEF AnswerStep, AnswerInv, Appends
    <2> QED BY <2>1, <2>3, <2>4, <2>6, <2>7, <2>8, <2>9 DEF ReturnAppendBreak, Cmd
<1>12. CASE Panics(w)
    BY <1>1, <1>12, CallGoes DEF Panics
<1> QED BY <1>10, <1>11, <1>12 DEF Attempt

LEMMA AnswerActs ==
    ASSUME Inv, \A v \in Known : WritersLogged(v), NEW w \in Writers, AppendInv(w),
           Appends(w) => ExecutedInv(w) /\ AnswerInv(w),
           call[w].pc = "upper_mismatch" => IsAppend(call[w].cmd),
           call'[w].pc # "assert_failed", Acts(w), ~BeginAppend(w)
    PROVE  AnswerStep(w)
<1>1. /\ w \in Handles /\ w \notin LeasedReaders /\ w \notin SinceHandles
      /\ w \notin Finalizers /\ HandleFits(w, call[w].cmd)
      /\ call[w].cmd \in Commands
      /\ call[w].pc # "idle" => call[w].cmd.op # "none"
    BY CallOf, HandlesAssumption DEF Handles, Cmd
<1>2. ASSUME ~Appends(w)', call'[w].pc # "upper_mismatch",
             outcome' = outcome \/ Answers(w)
      PROVE  AnswerStep(w)
    BY <1>2 DEF AnswerStep
<1>3. \A o : AppendOutcome(w, o) => outcome' = [outcome EXCEPT ![Token(w)] = o]
    BY DEF AppendOutcome, Token, Cmd
<1>4. ASSUME Done(w), Appends(w), call[w].pc # "panicked",
             NEW o, TrueAnswer(w, o), AppendOutcome(w, o)
      PROVE  AnswerStep(w)
    <2>1. call'[w].pc = "idle"
        BY <1>1, <1>4, CallGoes
    <2>2. Answers(w)
        BY <1>3, <1>4 DEF Answers
    <2> QED BY <1>2, <2>1, <2>2 DEF Appends
<1>5. ASSUME Appends(w), outcome' = outcome, call'[w].cmd = call[w].cmd,
             call'[w].pc \in {"ready", "mismatch"}, call[w].pc # "panicked",
             call'[w].indet \/ (Token(w) \notin Landed /\ Landed' = Landed)
      PROVE  AnswerStep(w)
    <2>1. Token(w)' = Token(w)
        BY <1>5 DEF Token
    <2>2. outcome[Token(w)] = "pending"
        BY <1>5 DEF AnswerInv
    <2>3. AnswerInv(w)'
        BY <1>5, <2>1, <2>2 DEF AnswerInv
    <2> QED BY <1>5, <2>3 DEF AnswerStep
<1>6. CASE BeginExpireWriter(w)
    <2> DEFINE c == [op |-> "expire_writer"]
    <2>1. call'[w].pc = "ready" /\ call'[w].cmd = c /\ outcome' = outcome
        BY <1>1, <1>6, CallGoes DEF BeginExpireWriter, StartNew
    <2> QED BY <1>2, <2>1 DEF IsAppend, Appends
<1>7. CASE Cancel(w)
    <2>1. /\ Done(w) /\ Appends(w) /\ call[w].pc # "panicked"
          /\ AppendOutcome(w, "unknown")
        BY <1>7 DEF Cancel, Appends, IsAppend, Cmd
    <2>2. TrueAnswer(w, "unknown")
        BY DEF TrueAnswer
    <2> QED BY <1>4, <2>1, <2>2
<1>8. CASE RecheckUpper(w)
    <2>1. /\ Appends(w) /\ call[w].pc = "upper_mismatch" /\ Landed' = Landed
          /\ orphans' = orphans
        BY <1>8 DEF RecheckUpper, Appends, Landed, Logged, Accepted
    <2>2. Token(w) \notin Landed
        BY <2>1 DEF AnswerInv
    <2>3. CASE Done(w) /\ AppendOutcome(w, "UpperMismatch")
        <3>1. TrueAnswer(w, "UpperMismatch")
            BY <2>1, <2>2 DEF TrueAnswer, Rejections
        <3> QED BY <1>4, <2>1, <2>3, <3>1
    <2>4. CASE Retry(w, FALSE) /\ UNCHANGED outcome
        <3>1. call'[w].pc = "ready" /\ call'[w].cmd = call[w].cmd
            BY <1>1, <2>4, CallGoes
        <3> QED BY <1>5, <2>1, <2>2, <2>4, <3>1
    <2> QED BY <1>8, <2>3, <2>4 DEF RecheckUpper
<1>9. CASE ActsInCall(w) /\ ~IsAppend(call[w].cmd)
    <2>1. call[w].pc # "idle" /\ call[w].cmd.op = "expire_writer"
        BY <1>1, <1>9, CommandFields
        DEF ActsInCall, Attempt, CasMismatch, DeliverCommitted, DeliverMismatch,
            Indeterminate, HandleFits, IsAppend
    <2>2. ASSUME NEW r, NEW x, Returns(w, r, x)
          PROVE  call'[w].pc = "idle" /\ outcome' = outcome
        <3>1. ReturnExpired(w)
            BY <2>1, <2>2 DEF Returns, Cmd
        <3> QED BY <1>1, <3>1, CallGoes DEF ReturnExpired
    <2>3. CASE Attempt(w)
        <3>1. CASE Proposes(w)
            <4>1. PICK k : /\ k.pc = "sent" /\ call' = [call EXCEPT ![w] = k]
                           /\ Proposed(w, k)
                BY <1>1, <2>3, <3>1, Proposals
            <4>2. call'[w] = k /\ k.cmd = call[w].cmd /\ outcome' = outcome
                BY <1>1, <4>1, CallOf DEF Proposed
            <4> QED BY <1>2, <1>9, <4>1, <4>2 DEF Appends
        <3>2. ~Panics(w)
            BY <1>1, CallGoes DEF Panics
        <3>3. CASE Returns(w, WorkRes(w).ret, FALSE)
            BY <1>2, <2>2, <3>3 DEF Appends
        <3> QED BY <2>3, <3>1, <3>2, <3>3 DEF Attempt
    <2>4. CASE DeliverCommitted(w)
        BY <1>2, <2>2, <2>4 DEF DeliverCommitted, Appends
    <2>5. CASE CasMismatch(w) \/ DeliverMismatch(w) \/ Indeterminate(w)
        <3>1. /\ call'[w].cmd = call[w].cmd /\ call'[w].pc \in {"mismatch", "ready"}
              /\ outcome' = outcome
            <4>1. CASE CasMismatch(w)
                BY <1>1, <4>1, CallGoes DEF CasMismatch
            <4>2. CASE DeliverMismatch(w)
                BY <1>1, <4>2, CallGoes DEF DeliverMismatch
            <4>3. CASE Indeterminate(w)
                BY <1>1, <4>3, CallGoes DEF Indeterminate
            <4> QED BY <2>5, <4>1, <4>2, <4>3
        <3> QED BY <1>2, <1>9, <3>1 DEF Appends
    <2> QED BY <1>9, <2>3, <2>4, <2>5 DEF ActsInCall
<1>10. CASE ActsInCall(w) /\ IsAppend(call[w].cmd)
    <2>1. Appends(w)
        BY <1>10 DEF Appends, ActsInCall, Attempt, CasMismatch, DeliverCommitted,
                     DeliverMismatch, Indeterminate
    <2>2. CASE Attempt(w)
        BY <2>1, <2>2, AnswerAttempts
    <2>3. CASE DeliverCommitted(w)
        <3>1. ReturnAppended(w) /\ call[w].pc = "committed"
            BY <1>10, <2>3 DEF DeliverCommitted, Returns, IsAppend, Cmd
        <3>2. TrueAnswer(w, "Success")
            BY <2>1, <3>1 DEF TrueAnswer, AnswerInv
        <3> QED BY <1>4, <2>1, <3>1, <3>2 DEF ReturnAppended
    <2>4. CASE CasMismatch(w)
        <3>1. /\ call'[w].pc = "mismatch" /\ call'[w].cmd = call[w].cmd
              /\ call'[w].indet = call[w].indet /\ call[w].pc = "sent"
            BY <1>1, <2>4, CallGoes DEF CasMismatch
        <3>2. Landed' = Landed /\ outcome' = outcome
            BY <2>4 DEF CasMismatch, Landed, Logged, Accepted
        <3>3. call'[w].indet \/ Token(w) \notin Landed
            BY <2>1, <3>1 DEF AnswerInv
        <3> QED BY <1>5, <2>1, <3>1, <3>2, <3>3
    <2>5. CASE DeliverMismatch(w)
        <3>1. /\ call'[w].pc = "ready" /\ call'[w].cmd = call[w].cmd
              /\ call'[w].indet = call[w].indet /\ call[w].pc = "mismatch"
            BY <1>1, <2>5, CallGoes DEF DeliverMismatch
        <3>2. Landed' = Landed /\ outcome' = outcome
            BY <2>5 DEF DeliverMismatch, Landed, Logged, Accepted
        <3>3. call'[w].indet \/ Token(w) \notin Landed
            BY <2>1, <3>1 DEF AnswerInv
        <3> QED BY <1>5, <2>1, <3>1, <3>2, <3>3
    <2>6. CASE Indeterminate(w)
        <3>1. /\ call'[w].pc = "ready" /\ call'[w].cmd = call[w].cmd
              /\ call'[w].indet = TRUE /\ outcome' = outcome
              /\ call[w].pc \in {"sent", "committed", "mismatch"}
            BY <1>1, <2>6, CallGoes DEF Indeterminate
        <3> QED BY <1>5, <2>1, <3>1
    <2> QED BY <1>10, <2>2, <2>3, <2>4, <2>5, <2>6 DEF ActsInCall
<1> QED BY <1>1, <1>6, <1>7, <1>8, <1>9, <1>10 DEF Acts, ActsAsWriter

LEMMA OnlyAppendsAnswer ==
    ASSUME Inv, NEW h \in Handles \ Writers, Acts(h)
    PROVE  outcome' = outcome /\ ~IsAppend(call'[h].cmd)
<1>1. HandleFits(h, call[h].cmd) /\ DOMAIN call = Handles
    BY CallOf DEF Cmd
<1>2. ~IsAppend(call[h].cmd)
    BY <1>1 DEF HandleFits, IsAppend
<1>3. ASSUME Rests(h) PROVE ~IsAppend(call'[h].cmd)
    BY <1>1, <1>2, <1>3 DEF Rests, IsAppend, NoCmd
<1>4. ASSUME NEW r, NEW x, Returns(h, r, x) PROVE outcome' = outcome
    BY <1>2, <1>4
    DEF Returns, IsAppend, Cmd, ReturnRegistered, ReturnDowngraded, ReturnExpired,
        ReturnOpened, ReturnCompareAndDowngrade, ReturnTombstoneStep
<1>5. ASSUME NEW c, Start(h, c), ~IsAppend(c) PROVE ~IsAppend(call'[h].cmd)
    BY <1>5, CallGoes
<1>6. CASE ActsAsReader(h)
    <2>1. CASE BeginRegister(h)
        <3>1. PICK x \in BOOLEAN :
                Start(h, [op |-> "register_leased_reader", critical |-> x])
            BY <2>1 DEF BeginRegister, StartNew
        <3> QED BY <1>5, <2>1, <3>1 DEF IsAppend, BeginRegister
    <2>2. CASE BeginDowngrade(h)
        <3>1. PICK s, out :
                Start(h, [op |-> "downgrade_since", since |-> s, out |-> out])
            BY <2>2 DEF BeginDowngrade, StartNew
        <3> QED BY <1>5, <2>2, <3>1 DEF IsAppend, BeginDowngrade
    <2>3. CASE BeginExpireReader(h)
        BY <1>5, <2>3 DEF IsAppend, BeginExpireReader, StartNew
    <2> QED BY <1>6, <2>1, <2>2, <2>3 DEF ActsAsReader
<1>7. CASE ActsAsSinceHandle(h)
    <2>1. \A x, n, s : ~IsAppend(Downgrade(h, x, n, s))
        BY DEF IsAppend, Downgrade
    <2>2. CASE BeginOpenCritical(h)
        BY <1>5, <2>2 DEF IsAppend, BeginOpenCritical, StartNew
    <2>3. CASE BeginDowngradeCritical(h)
        BY <1>5, <2>1, <2>3 DEF BeginDowngradeCritical, StartNew
    <2>4. CASE BeginFence(h)
        BY <1>5, <2>1, <2>4 DEF BeginFence
    <2>5. CASE Fenced(h)
        BY <1>2, <2>5 DEF Fenced
    <2> QED BY <1>7, <2>2, <2>3, <2>4, <2>5 DEF ActsAsSinceHandle
<1>8. CASE BeginFinalize(h)
    BY <1>5, <1>8 DEF IsAppend, BeginFinalize, StartNew
<1>9. CASE ActsInCall(h)
    <2>1. CASE Attempt(h)
        <3>1. CASE Proposes(h)
            <4>1. PICK k : /\ k.pc = "sent" /\ call' = [call EXCEPT ![h] = k]
                           /\ Proposed(h, k)
                BY <2>1, <3>1, Proposals
            <4>2. call'[h] = k /\ k.cmd = call[h].cmd /\ outcome' = outcome
                BY <1>1, <4>1 DEF Proposed
            <4> QED BY <1>2, <4>2
        <3> QED BY <1>3, <1>4, <2>1, <3>1, ReturnsRests, GoToRests DEF Attempt, Panics
    <2>2. CASE DeliverCommitted(h)
        BY <1>3, <1>4, <2>2, ReturnsRests DEF DeliverCommitted
    <2>3. CASE CasMismatch(h) \/ DeliverMismatch(h) \/ Indeterminate(h)
        BY <1>3, <2>3, GoToRests, RetryRests
        DEF CasMismatch, DeliverMismatch, Indeterminate
    <2> QED BY <1>9, <2>1, <2>2, <2>3 DEF ActsInCall
<1> QED BY <1>6, <1>7, <1>8, <1>9 DEF Acts

-----------------------------------------------------------------------------
(* The invariant of the answers is kept.                                   *)

LEMMA AppendTokens ==
    ASSUME Inv, LogInv, AssertInv, NEW w \in Writers, Appends(w)
    PROVE  /\ Token(w) \in 1 .. calls /\ calls \in Nat /\ calls <= MaxCalls
           /\ DOMAIN outcome = 1 .. MaxCalls
<1>1. call[w].cmd.b \in Played
    BY DEF Played, Appends, Handles
<1>2. Token(w) \in Nat /\ Token(w) <= calls /\ calls \in Nat
    BY <1>1, LogTypes DEF LogInv, TokensOK, Token
<1>3. Token(w) # 0
    BY DEF AssertInv, AppendInv, AppendOK, Token, Sentinel
<1>4. calls \in 0 .. MaxCalls /\ DOMAIN outcome = 1 .. MaxCalls
    BY DEF Inv, TypeOK
<1> QED BY <1>2, <1>3, <1>4, BoundsAssumption

LEMMA PlayedTokens ==
    ASSUME Played \subseteq AppendBatches, NEW b \in Played
    PROVE  b.token \in 1 .. MaxCalls
BY DEF AppendBatches, BatchOf

LEMMA CallsGrow ==
    ASSUME Inv, LogInv, [Next]_vars
    PROVE  calls <= calls' /\ calls \in Nat
<1>1. calls \in Nat /\ \A s \in Known : IsFiniteSet(s.batches)
    BY LogTypes DEF LogInv, Covers
<1> QED BY <1>1, LogSteps DEF Turn, Commits

LEMMA AppendBeginsCall ==
    ASSUME Inv, LogInv, NEW w \in Writers, BeginAppend(w)
    PROVE  /\ Appends(w)' /\ call'[w].pc = "ready"
           /\ call'[w].cmd.b \in AppendBatches
           /\ outcome' = [outcome EXCEPT ![calls + 1] = "pending"]
           /\ calls' = calls + 1 /\ calls + 1 \in 1 .. MaxCalls
           /\ DOMAIN outcome = 1 .. MaxCalls /\ calls \in Nat
           /\ log' = log /\ orphans' = orphans /\ cur' = cur
<1>1. PICK i \in AppendInputs, x \in BOOLEAN :
        /\ Start(w, [op |-> "compare_and_append", b |-> BatchOf(calls + 1, i, x)])
        /\ calls < MaxCalls /\ calls' = calls + 1
    BY DEF BeginAppend, StartNew
<1>2. calls \in Nat /\ DOMAIN outcome = 1 .. MaxCalls
    BY LogTypes DEF Inv, TypeOK
<1>3. calls + 1 \in 1 .. MaxCalls
    BY <1>1, <1>2, BoundsAssumption
<1> DEFINE c == [op |-> "compare_and_append", b |-> BatchOf(calls + 1, i, x)]
<1>4. IsAppend(c) /\ c.b \in AppendBatches
    BY <1>3 DEF IsAppend, AppendBatches
<1> HIDE DEF c
<1>5. call'[w].pc = "ready" /\ call'[w].cmd = c
    BY <1>1, CallGoes DEF c, Handles
<1> QED BY <1>1, <1>2, <1>3, <1>4, <1>5 DEF BeginAppend, Start, Appends

(* How an answer may change in a step of handle h.                         *)
OutcomeChange(h, t) ==
    \/ outcome'[t] = outcome[t]
    \/ outcome'[t] = "pending" /\ t = calls + 1 /\ calls' = calls + 1
    \/ /\ h \in Writers /\ Appends(h) /\ call[h].pc # "panicked"
       /\ t = Token(h) /\ TrueAnswer(h, outcome'[t])

LEMMA ActsAnswer ==
    ASSUME Inv, LogInv, AssertInv, AssertInv', AnswersInv, NEW h \in Handles, Acts(h)
    PROVE  /\ \A t \in 1 .. MaxCalls : OutcomeChange(h, t)
           /\ h \in Writers /\ ~BeginAppend(h) => AnswerStep(h)
           /\ IsAppend(call'[h].cmd) =>
                /\ h \in Writers
                /\ BeginAppend(h) \/ call'[h].cmd = call[h].cmd
<1>1. CASE h \notin Writers
    BY <1>1, OnlyAppendsAnswer DEF OutcomeChange
<1>2. CASE h \in Writers /\ BeginAppend(h)
    <2>1. /\ outcome' = [outcome EXCEPT ![calls + 1] = "pending"]
          /\ calls' = calls + 1 /\ DOMAIN outcome = 1 .. MaxCalls
        BY <1>2, AppendBeginsCall
    <2> QED BY <1>2, <2>1 DEF OutcomeChange
<1>3. CASE h \in Writers /\ ~BeginAppend(h)
    <2>1. AnswerStep(h)
        <3>1. /\ \A v \in Known : WritersLogged(v)
              /\ AppendInv(h) /\ call'[h].pc # "assert_failed"
            BY <1>3 DEF AssertInv, NoAssertFails
        <3> QED BY <1>3, <3>1, AnswerActs DEF AnswersInv
    <2>2. \A t \in 1 .. MaxCalls : OutcomeChange(h, t)
        <3>1. CASE outcome' = outcome
            BY <3>1 DEF OutcomeChange
        <3>2. CASE Answers(h)
            <4>1. DOMAIN outcome = 1 .. MaxCalls
                BY DEF Inv, TypeOK
            <4> QED BY <1>3, <3>2, <4>1 DEF OutcomeChange, Answers
        <3> QED BY <2>1, <3>1, <3>2 DEF AnswerStep
    <2>3. IsAppend(call'[h].cmd) => call'[h].cmd = call[h].cmd
        <3>1. CASE call'[h].pc = "idle"
            <4>1. DOMAIN call = Handles
                BY CallOf
            <4>2. ~\E c : Start(h, c)
                BY <3>1, CallGoes
            <4>3. CASE \E k : /\ k.pc = "sent" /\ call' = [call EXCEPT ![h] = k]
                              /\ Proposed(h, k)
                BY <3>1, <4>1, <4>3
            <4>4. CASE Rests(h)
                BY <4>1, <4>4 DEF Rests, NoCmd, IsAppend
            <4> QED BY <4>2, <4>3, <4>4, ActsCall
        <3>2. CASE call'[h].pc # "idle"
            BY <2>1, <3>2 DEF AnswerStep, Appends
        <3> QED BY <3>1, <3>2
    <2> QED BY <1>3, <2>1, <2>2, <2>3
<1> QED BY <1>1, <1>2, <1>3

(* The writers.                                                            *)
LEMMA ActsWriters ==
    ASSUME Inv, LogInv, KeepsInv, AssertInv, AssertInv', AnswersInv, LeaseOutlivesCall,
           Known' \subseteq Known, NEW h \in Handles, Acts(h),
           NEW w \in Writers, CachedForward(w)
    PROVE  /\ Appends(w)' => ExecutedInv(w)' /\ AnswerInv(w)'
           /\ call'[w].pc = "upper_mismatch" => IsAppend(call'[w].cmd)
<1>1. Alone(h) /\ w \in Handles
    BY ActsAlone DEF Handles
<1>2. CASE w = h /\ BeginAppend(h)
    <2>1. /\ ExecutedInv(w)' /\ Token(w)' = calls + 1 /\ calls + 1 \notin Landed
        BY <1>2, ExecutedBegins
    <2>2. /\ call'[w].pc = "ready"
          /\ outcome' = [outcome EXCEPT ![calls + 1] = "pending"]
          /\ calls + 1 \in 1 .. MaxCalls /\ DOMAIN outcome = 1 .. MaxCalls
          /\ log' = log /\ orphans' = orphans /\ cur' = cur
        BY <1>2, AppendBeginsCall
    <2>3. Landed' = Landed
        BY <2>2 DEF Landed, Logged, Accepted
    <2>4. AnswerInv(w)'
        BY <2>1, <2>2, <2>3 DEF AnswerInv
    <2> QED BY <2>1, <2>2, <2>4
<1>3. CASE w = h /\ ~BeginAppend(h)
    <2>1. AnswerStep(w)
        BY <1>3, ActsAnswer
    <2>2. ASSUME Appends(w)' PROVE ExecutedInv(w)'
        <3>1. Appends(w) /\ call'[w].cmd = call[w].cmd
            BY <2>1, <2>2 DEF AnswerStep
        <3> QED BY <3>1, ExecutedActs DEF AnswersInv
    <2> QED BY <2>1, <2>2 DEF AnswerStep
<1>4. CASE w # h
    <2>1. call'[w] = call[w]
        BY <1>1, <1>4 DEF Alone
    <2>2. ASSUME Appends(w)' PROVE ExecutedInv(w)' /\ AnswerInv(w)'
        <3>1. Appends(w) /\ ExecutedInv(w) /\ AnswerInv(w)
            BY <2>1, <2>2 DEF Appends, AnswersInv
        <3>2. ExecutedInv(w)'
            BY <2>1, <3>1, ExecutedActs
        <3>3. Token(w)' = Token(w)
            BY <2>1 DEF Token
        <3>4. Logged' = Logged
            BY <1>1 DEF Alone, Logged
        <3>5. ASSUME h \in Writers, Appends(h), Token(h) = Token(w) PROVE FALSE
            BY <1>4, <3>1, <3>5 DEF AssertInv, Token
        <3>6. ASSUME Token(w) \in Landed', Token(w) \notin Landed PROVE FALSE
            <4>1. /\ call[h].pc = "sent" /\ IsAppend(call[h].cmd)
                  /\ Token(w) = call[h].cmd.b.token
                BY <1>1, <3>6, LandedAlone
            <4>2. h \in Writers /\ Appends(h) /\ Token(h) = Token(w)
                BY <4>1 DEF Appends, Inv, HandleFits, IsAppend, Token
            <4> QED BY <3>5, <4>2
        <3>7. outcome'[Token(w)] = outcome[Token(w)]
            <4>1. Token(w) \in 1 .. calls /\ calls \in Nat /\ calls <= MaxCalls
                BY <3>1, AppendTokens
            <4>2. OutcomeChange(h, Token(w)) /\ Token(w) # calls + 1
                BY <4>1, ActsAnswer, BoundsAssumption
            <4> QED BY <3>5, <4>2 DEF OutcomeChange
        <3>8. AnswerInv(w)'
            BY <2>1, <3>1, <3>3, <3>4, <3>6, <3>7 DEF AnswerInv
        <3> QED BY <3>2, <3>8
    <2> QED BY <2>1, <2>2 DEF AnswersInv
<1> QED BY <1>2, <1>3, <1>4

LEMMA ActsOutcomes ==
    ASSUME Inv, LogInv, AssertInv, AssertInv', AnswersInv, calls <= calls',
           NEW h \in Handles, Acts(h), calls' \in 0 .. MaxCalls
    PROVE  OutcomesInv'
<1>1. Alone(h) /\ Logged' = Logged /\ calls \in Nat /\ calls' \in Nat
    BY ActsAlone, LogTypes DEF Alone, Logged
<1>2. ASSUME NEW t \in Landed', t \notin Landed
      PROVE  h \in Writers /\ Appends(h) /\ t = Token(h) /\ outcome[t] = "pending"
    <2>1. call[h].pc = "sent" /\ IsAppend(call[h].cmd) /\ t = call[h].cmd.b.token
        BY <1>1, <1>2, LandedAlone
    <2>2. h \in Writers /\ Appends(h) /\ t = Token(h)
        BY <2>1 DEF Appends, Inv, HandleFits, IsAppend, Token
    <2> QED BY <2>1, <2>2 DEF AnswersInv, AnswerInv
<1>3. ASSUME NEW t \in 1 .. calls'
      PROVE  /\ outcome'[t] \in Rejections => t \notin Landed'
             /\ outcome'[t] = "Success" => t \in Logged'
    <2>1. t \in 1 .. MaxCalls /\ t \in Nat /\ 1 <= t
        BY <1>1, BoundsAssumption
    <2>2. CASE outcome'[t] = outcome[t]
        <3>1. ~(t <= calls) => outcome[t] = "none"
            BY <1>1, <2>1 DEF AnswersInv, OutcomesInv
        <3>2. t <= calls => /\ outcome[t] \in Rejections => t \notin Landed
                            /\ outcome[t] = "Success" => t \in Logged
            BY <1>1, <2>1 DEF AnswersInv, OutcomesInv
        <3> QED BY <1>1, <1>2, <2>2, <3>1, <3>2 DEF Rejections
    <2>3. CASE outcome'[t] = "pending"
        BY <2>3 DEF Rejections
    <2>4. CASE /\ h \in Writers /\ Appends(h)
               /\ t = Token(h) /\ TrueAnswer(h, outcome'[t])
        <3>1. orphans' = orphans => Landed' = Landed
            BY <1>1 DEF Landed, Logged, Alone, Accepted
        <3> QED BY <1>1, <2>4, <3>1 DEF TrueAnswer, Rejections
    <2>5. OutcomeChange(h, t)
        BY <2>1, ActsAnswer
    <2> QED BY <2>2, <2>3, <2>4, <2>5 DEF OutcomeChange
<1>4. ASSUME NEW t \in 1 .. MaxCalls, calls' < t PROVE outcome'[t] = "none"
    <2>1. calls < t /\ t \in Nat
        BY <1>1, <1>4, BoundsAssumption
    <2>2. outcome[t] = "none"
        BY <2>1 DEF AnswersInv, OutcomesInv
    <2>3. ASSUME h \in Writers, Appends(h) PROVE t # Token(h)
        BY <2>1, <2>3, AppendTokens
    <2>4. ~(t = calls + 1 /\ calls' = calls + 1)
        BY <1>1, <1>4, <2>1
    <2> QED BY <2>2, <2>3, <2>4, ActsAnswer DEF OutcomeChange
<1> QED BY <1>3, <1>4 DEF OutcomesInv

LEMMA ActsRequests ==
    ASSUME Inv, Inv', LogInv, AssertInv, AssertInv', AnswersInv, LeaseOutlivesCall,
           NEW h \in Handles, Acts(h),
           \A w \in Writers : Appends(w)' => AnswerInv(w)'
    PROVE  RequestsOpen'
<1>1. Alone(h) /\ Logged' = Logged /\ cur' = cur
    BY ActsAlone DEF Alone, Logged
<1> SUFFICES ASSUME NEW q \in Appendable'
             PROVE  /\ q.cmd.b.token \notin Logged
                    /\ outcome'[q.cmd.b.token] \in {"pending", "unknown"}
                    /\ q.st.since = cur.since
    BY <1>1 DEF RequestsOpen
<1> DEFINE t == q.cmd.b.token
<1>2. q \in Requests' /\ Accepted(q.st)' /\ Accepted(q.st) /\ IsAppend(q.cmd)
    BY <1>1 DEF Appendable, Accepted
<1>3. CASE q \in Requests
    <2>1. /\ q \in Appendable /\ t \notin Logged /\ q.st.since = cur.since
          /\ outcome[t] \in {"pending", "unknown"}
        BY <1>2, <1>3 DEF Appendable, AnswersInv, RequestsOpen
    <2>2. outcome'[t] \in {"pending", "unknown"}
        <3>1. CASE \E g \in Handles : /\ call'[g].pc = "sent"
                                      /\ q = [st |-> call'[g].st, cmd |-> call'[g].cmd]
            <4>1. PICK g \in Handles : /\ call'[g].pc = "sent"
                                       /\ q = [st |-> call'[g].st, cmd |-> call'[g].cmd]
                BY <3>1
            <4>2. g \in Writers /\ Appends(g)' /\ Token(g)' = t
                BY <1>2, <4>1 DEF Appends, Inv, HandleFits, IsAppend, Token
            <4> QED BY <4>1, <4>2 DEF AnswerInv
        <3>2. CASE q \in orphans'
            <4>1. t \in 1 .. MaxCalls
                BY <1>2, <1>3, PlayedTokens DEF AnswersInv, Played, Requests
            <4>2. ASSUME h \in Writers, t = Token(h), TrueAnswer(h, outcome'[t])
                  PROVE  outcome'[t] = "unknown"
                <5>1. ~(orphans' = orphans /\ t \notin Landed)
                    BY <1>2, <3>2 DEF Landed
                <5> QED BY <2>1, <4>2, <5>1 DEF TrueAnswer
            <4> QED BY <2>1, <4>1, <4>2, ActsAnswer DEF OutcomeChange
        <3> QED BY <1>2, <3>1, <3>2 DEF Requests
    <2> QED BY <2>1, <2>2
<1>4. CASE q \notin Requests
    <2>1. /\ Proposed(h, call'[h]) /\ call'[h].pc = "sent"
          /\ q.st = call'[h].st /\ q.cmd = call[h].cmd /\ Cached(h) = cur
        BY <1>1, <1>2, <1>4, AloneRequests
    <2>2. h \in Writers /\ Appends(h) /\ Token(h) = t
        BY <1>2, <2>1 DEF Appends, Inv, HandleFits, IsAppend, Token, Proposed
    <2>3. t \notin Logged
        <3>1. ASSUME t \in Logged PROVE FALSE
            <4>1. ExecutedInv(h)
                BY <2>2 DEF AnswersInv
            <4>2. Sees(cur, h)
                BY <2>2, <3>1, <4>1, CurSees
            <4>3. ~Repeats(h)
                BY <2>1, <2>2, <4>2, SeenResult
            <4> QED BY <2>1, <4>3 DEF Proposed, Repeats
        <3> QED BY <3>1
    <2>4. q.st.since = cur.since
        BY <1>2, <2>1, ProposalStays
    <2>5. outcome'[t] = "pending"
        <3>1. call'[h].cmd = call[h].cmd
            BY <2>1 DEF Proposed
        <3>2. Appends(h)' /\ Token(h)' = t
            BY <1>2, <2>1, <2>2, <3>1 DEF Appends, Token
        <3> QED BY <2>1, <2>2, <3>2 DEF AnswerInv
    <2> QED BY <2>3, <2>4, <2>5
<1> QED BY <1>3, <1>4

LEMMA ActsPlays ==
    ASSUME Inv, LogInv, AssertInv, AssertInv', AnswersInv, NEW h \in Handles, Acts(h)
    PROVE  (Played \subseteq AppendBatches)'
<1>1. Alone(h) /\ log' = log /\ Played \subseteq AppendBatches
    BY ActsAlone DEF Alone, AnswersInv
<1>2. AppendBatches' = AppendBatches
    OBVIOUS
<1>3. ASSUME NEW g \in Handles, IsAppend(call'[g].cmd)
      PROVE  call'[g].cmd.b \in AppendBatches
    <2>1. CASE g # h
        BY <1>1, <1>3, <2>1 DEF Alone, Played
    <2>2. CASE g = h /\ BeginAppend(h)
        BY <1>3, <2>2, ActsAnswer, AppendBeginsCall
    <2>3. CASE g = h /\ ~BeginAppend(h)
        BY <1>1, <1>3, <2>3, ActsAnswer DEF Played
    <2> QED BY <2>1, <2>2, <2>3
<1>4. ASSUME NEW o \in orphans', IsAppend(o.cmd)
      PROVE  o.cmd.b \in AppendBatches
    <2>1. \/ o \in orphans
          \/ o = [st |-> call[h].st, cmd |-> call[h].cmd]
        BY <1>1 DEF Alone, Orphaned, Cmd
    <2> QED BY <1>1, <1>4, <2>1 DEF Played
<1>5. \A i \in DOMAIN log' : log'[i] \in AppendBatches
    BY <1>1 DEF Played
<1> QED BY <1>2, <1>3, <1>4, <1>5 DEF Played

LEMMA ActsAnswersInv ==
    ASSUME Inv, Inv', LogInv, KeepsInv, AssertInv, AssertInv', AnswersInv,
           LeaseOutlivesCall, Known' \subseteq Known, calls <= calls',
           \A w \in Writers : CachedForward(w), NEW h \in Handles, Acts(h)
    PROVE  AnswersInv'
<1>1. \A w \in Writers :
        /\ Appends(w)' => ExecutedInv(w)' /\ AnswerInv(w)'
        /\ call'[w].pc = "upper_mismatch" => IsAppend(call'[w].cmd)
    BY ActsWriters
<1>2. OutcomesInv'
    BY ActsOutcomes DEF Inv, TypeOK
<1>3. RequestsOpen'
    BY <1>1, ActsRequests
<1>4. (Played \subseteq AppendBatches)'
    BY ActsPlays
<1> QED BY <1>1, <1>2, <1>3, <1>4 DEF AnswersInv

LEMMA LoggedCommit ==
    ASSUME Inv, NEW q \in Requests, CommitsTo(q)
    PROVE  /\ \A t \in Logged : t \in Logged'
           /\ IsAppend(q.cmd) => q.cmd.b.token \in Logged'
           /\ \A i \in DOMAIN log' :
                \/ i \in DOMAIN log /\ log'[i] = log[i]
                \/ IsAppend(q.cmd) /\ log'[i] = q.cmd.b
<1>1. CASE IsAppend(q.cmd)
    <2> DEFINE n == Len(log) + 1
    <2>1. log \in Seq(HollowBatch) /\ q.cmd.b \in HollowBatch
        BY <1>1, LogTypes, CommandFields DEF IsAppend
    <2>2. log' = Append(log, q.cmd.b)
        BY <1>1 DEF CommitsTo, Commit, IsAppend
    <2>3. /\ DOMAIN log' = DOMAIN log \cup {n} /\ log'[n] = q.cmd.b
          /\ \A i \in DOMAIN log : log'[i] = log[i]
        BY <2>1, <2>2
    <2> QED BY <1>1, <2>3 DEF Logged
<1>2. CASE ~IsAppend(q.cmd)
    BY <1>2 DEF Logged, CommitsTo, Commit, IsAppend
<1> QED BY <1>1, <1>2

LEMMA CommitAnswersInv ==
    ASSUME Inv, LogInv, AssertInv, AnswersInv, NEW q \in Requests, CommitsTo(q)
    PROVE  AnswersInv'
<1>1. /\ outcome' = outcome /\ calls' = calls /\ orphans' \subseteq orphans
      /\ \A g \in Handles :
           /\ call'[g].cmd = call[g].cmd /\ call'[g].indet = call[g].indet
           /\ \/ call'[g].pc = call[g].pc
              \/ /\ call[g].pc = "sent" /\ call'[g].pc = "committed"
                 /\ q = [st |-> call[g].st, cmd |-> call[g].cmd]
    BY DEF CommitsTo
<1>2. ASSUME NEW t \in Landed', t \notin Landed
      PROVE  \E g \in Writers : /\ call[g].pc = "sent" /\ call'[g].pc = "committed"
                                /\ Appends(g) /\ Token(g) = t
    <2>1. PICK g \in Handles : /\ call[g].pc = "sent" /\ call'[g].pc = "committed"
                               /\ IsAppend(call[g].cmd) /\ t = call[g].cmd.b.token
        BY <1>2, LandedCommit
    <2>2. g \in Writers /\ Appends(g) /\ Token(g) = t
        BY <2>1 DEF Appends, Inv, HandleFits, IsAppend, Token
    <2> QED BY <2>1, <2>2
<1>3. ASSUME NEW w \in Writers, Appends(w)' PROVE ExecutedInv(w)' /\ AnswerInv(w)'
    <2>1. w \in Handles /\ Appends(w) /\ ExecutedInv(w) /\ AnswerInv(w)
        BY <1>1, <1>3 DEF Appends, AnswersInv, Handles
    <2>2. ExecutedInv(w)'
        BY <2>1, ExecutedCommit
    <2>3. Token(w)' = Token(w)
        BY <1>1, <2>1 DEF Token
    <2>4. Token(w) \in Landed' /\ Token(w) \notin Landed =>
            call[w].pc = "sent" /\ call'[w].pc = "committed"
        BY <1>2, <2>1 DEF AssertInv, Token
    <2>5. CASE call'[w].pc = call[w].pc
        BY <1>1, <2>1, <2>2, <2>3, <2>4, <2>5, LoggedCommit DEF AnswerInv
    <2>6. CASE /\ call[w].pc = "sent" /\ call'[w].pc = "committed"
               /\ q = [st |-> call[w].st, cmd |-> call[w].cmd]
        <3>1. Token(w) \in Logged'
            BY <2>1, <2>6, LoggedCommit DEF Token, Appends
        <3> QED BY <1>1, <2>1, <2>2, <2>3, <2>6, <3>1 DEF AnswerInv
    <2> QED BY <1>1, <2>1, <2>2, <2>5, <2>6
<1>4. \A w \in Writers : call'[w].pc = "upper_mismatch" => IsAppend(call'[w].cmd)
    BY <1>1 DEF AnswersInv, Handles
<1>5. OutcomesInv'
    <2>1. \A t \in Landed' \ Landed : outcome[t] = "pending"
        BY <1>2 DEF AnswersInv, AnswerInv
    <2> QED BY <1>1, <2>1, LoggedCommit DEF AnswersInv, OutcomesInv, Rejections
<1>6. RequestsOpen'
    BY CommitFacts DEF RequestsOpen, Appendable, Successors
<1>7. (Played \subseteq AppendBatches)'
    <2>1. Played \subseteq AppendBatches /\ (IsAppend(q.cmd) => q.cmd.b \in Played)
        BY DEF AnswersInv, Played, Requests
    <2>2. Played' \subseteq Played
        BY <1>1, <2>1, LoggedCommit DEF Played
    <2> QED BY <2>1, <2>2
<1> QED BY <1>3, <1>4, <1>5, <1>6, <1>7 DEF AnswersInv

LEMMA QuietAnswersInv ==
    ASSUME Inv, AnswersInv, Known' \subseteq Known, \A w \in Writers : CachedForward(w),
           Quiet
    PROVE  AnswersInv'
<1>1. /\ cur' = cur /\ log' = log /\ call' = call /\ orphans' = orphans
      /\ outcome' = outcome /\ calls' = calls
    BY DEF Quiet
<1>2. Landed' = Landed /\ Logged' = Logged /\ Appendable' = Appendable
    BY <1>1 DEF Landed, Logged, Appendable, Requests, Accepted
<1>3. ASSUME NEW w \in Writers, Appends(w)' PROVE ExecutedInv(w)' /\ AnswerInv(w)'
    <2>1. Appends(w) /\ ExecutedInv(w) /\ AnswerInv(w)
        BY <1>1, <1>3 DEF Appends, AnswersInv
    <2> QED BY <1>1, <1>2, <2>1, ExecutedQuiet DEF AnswerInv, Token
<1>4. OutcomesInv' /\ RequestsOpen' /\ (Played \subseteq AppendBatches)'
    BY <1>1, <1>2 DEF AnswersInv, OutcomesInv, RequestsOpen, Played
<1> QED BY <1>1, <1>3, <1>4 DEF AnswersInv

LEMMA NextAnswersInv ==
    ASSUME Inv, LogInv, FenceInv, KeepsInv, LeaseInv, AssertInv, AnswersInv,
           LeaseOutlivesCall, [Next]_vars
    PROVE  AnswersInv'
<1>1. Inv' /\ AssertInv' /\ calls <= calls' /\ \A w \in Writers : CachedForward(w)
    BY NextInv, NextAssertInv, CallsGrow, CachesForward
<1>2. cur' = cur => Known' \subseteq Known
    BY KnownSteps DEF LogInv, Covers
<1>3. CASE \E h \in Handles : Acts(h)
    <2>1. PICK h \in Handles : Acts(h)
        BY <1>3
    <2>2. cur' = cur
        BY <2>1, ActsAlone DEF Alone
    <2> QED BY <1>1, <1>2, <2>1, <2>2, ActsAnswersInv
<1>4. CASE \E q \in Requests : CommitsTo(q)
    BY <1>4, CommitAnswersInv
<1>5. CASE Quiet
    BY <1>1, <1>2, <1>5, QuietAnswersInv DEF Quiet
<1> QED BY <1>3, <1>4, <1>5, HandleSteps

LEMMA InitAnswersInv == Init => AnswersInv
<1> SUFFICES ASSUME Init PROVE AnswersInv
    OBVIOUS
<1>1. \A h \in Handles : call[h].pc = "idle" /\ call[h].cmd = NoCmd
    BY DEF Init, Idle, Call
<1>2. Requests = {} /\ Played = {}
    BY <1>1 DEF Init, Requests, Played, IsAppend, NoCmd
<1>3. \A t \in 1 .. MaxCalls : outcome[t] = "none"
    BY DEF Init
<1>4. 1 .. calls = {}
    BY DEF Init
<1>5. OutcomesInv
    BY <1>3, <1>4 DEF OutcomesInv
<1> QED BY <1>1, <1>2, <1>5 DEF AnswersInv, RequestsOpen, Appendable, Appends, Handles

-----------------------------------------------------------------------------
(* The theorems.                                                           *)

LEMMA AnswersInvariance ==
    ASSUME LeaseOutlivesCall
    PROVE  Spec => [](Inv /\ LogInv /\ AssertInv /\ AnswersInv)
<1>1. ASSUME Inv, LogInv, FenceInv, KeepsInv, LeaseInv, AssertInv, AnswersInv,
             [Next]_vars
      PROVE  AnswersInv'
    BY <1>1, NextAnswersInv
<1> QED BY <1>1, AssertInvariance, InitAnswersInv, PTL DEF Spec

(* If no writer's lease runs out during its append, what                   *)
(* compare_and_append tells its caller is true for good: Success only if   *)
(* the batch is in the log, and a rejected batch is not in it nor gets     *)
(* there by a request still in flight (machine.rs compare_and_append,      *)
(* compare_and_append_idempotent).                                         *)
THEOREM AnswersHold ==
    ASSUME LeaseOutlivesCall
    PROVE  Spec => []AnswersAreTrue
<1>1. AnswersInv => AnswersAreTrue
    BY DEF AnswersInv, OutcomesInv, AnswersAreTrue, Landed
<1> QED BY <1>1, AnswersInvariance, PTL

LEMMA ActsImplement ==
    ASSUME Inv, LogInv, AssertInv, AssertInv', AnswersInv, NEW h \in Handles, Acts(h)
    PROVE  [Abstract!Next]_(Abstract!vars)
<1>1. log' = log /\ cur' = cur
    BY ActsAlone DEF Alone
<1>2. CASE outcome' = outcome
    BY <1>1, <1>2 DEF Abstract!vars
<1>3. CASE h \in Writers /\ BeginAppend(h)
    <2>1. /\ outcome' = [outcome EXCEPT ![calls + 1] = "pending"]
          /\ calls + 1 \in 1 .. MaxCalls /\ calls \in Nat
        BY <1>3, AppendBeginsCall
    <2>2. outcome[calls + 1] = "none"
        BY <2>1 DEF AnswersInv, OutcomesInv
    <2>3. Abstract!Invoke(calls + 1)
        BY <1>1, <2>1, <2>2 DEF Abstract!Invoke
    <2> QED BY <2>1, <2>3 DEF Abstract!Next
<1>4. CASE h \in Writers /\ Answers(h)
    <2>1. /\ Token(h) \in 1 .. MaxCalls /\ outcome[Token(h)] = "pending"
        <3>1. Token(h) \in 1 .. calls /\ calls \in Nat /\ calls <= MaxCalls
            BY <1>4, AppendTokens DEF Answers
        <3>2. outcome[Token(h)] = "pending"
            BY <1>4 DEF Answers, AnswersInv, AnswerInv
        <3> QED BY <3>1, <3>2, BoundsAssumption
    <2>2. /\ Token(h) \in Logged <=> Abstract!InLog(Token(h))
          /\ Token(h) \notin Landed => Token(h) \notin Logged
        BY DEF Abstract!InLog, Logged, Landed
    <2>3. PICK o : TrueAnswer(h, o) /\ outcome' = [outcome EXCEPT ![Token(h)] = o]
        BY <1>4 DEF Answers
    <2>4. CASE o = "unknown"
        <3>1. Abstract!NoAnswer(Token(h))
            BY <1>1, <2>1, <2>3, <2>4 DEF Abstract!NoAnswer
        <3> QED BY <2>1, <3>1 DEF Abstract!Next
    <2>5. CASE o = "Success" /\ Token(h) \in Logged
        <3>1. Abstract!Accept(Token(h))
            BY <1>1, <2>1, <2>2, <2>3, <2>5 DEF Abstract!Accept
        <3> QED BY <2>1, <3>1 DEF Abstract!Next
    <2>6. CASE o \in Rejections /\ Token(h) \notin Landed
        <3>1. Abstract!Reject(Token(h))
            BY <1>1, <2>1, <2>2, <2>3, <2>6 DEF Abstract!Reject, Rejections
        <3> QED BY <2>1, <3>1 DEF Abstract!Next
    <2> QED BY <2>3, <2>4, <2>5, <2>6 DEF TrueAnswer
<1> QED BY <1>2, <1>3, <1>4, ActsAnswer, OnlyAppendsAnswer DEF AnswerStep

LEMMA CommitImplements ==
    ASSUME Inv, LogInv, AnswersInv, NEW q \in Requests, CommitsTo(q)
    PROVE  [Abstract!Next]_(Abstract!vars)
<1>1. /\ outcome' = outcome /\ cur' = q.st /\ Accepted(q.st) /\ Succeeds(cur, q.st)
      /\ VersionOK(q.st)
    BY CommitFacts DEF CommitsTo
<1>2. Extends(q.cmd, cur, q.st)
    BY <1>1 DEF LogInv, RequestsExtend
<1>3. CASE IsAppend(q.cmd)
    <2> DEFINE b == q.cmd.b
    <2>1. /\ b \in Played /\ b \in AppendBatches /\ q \in Appendable
        BY <1>1, <1>3 DEF AnswersInv, Played, Requests, Appendable
    <2>2. /\ b.token \notin Logged /\ outcome[b.token] \in {"pending", "unknown"}
          /\ q.st.since = cur.since
        BY <2>1 DEF AnswersInv, RequestsOpen
    <2>3. b.lower = Abstract!Upper /\ b.lower <= b.upper
        BY <1>2, <1>3 DEF Extends, LogInv, Tiles, Abstract!Upper
    <2>4. log' = Append(log, b)
        BY <1>3 DEF CommitsTo, Commit, IsAppend
    <2>5. Abstract!TakesEffect(b)
        BY <1>1, <2>2, <2>3, <2>4 DEF Abstract!TakesEffect, Abstract!InLog, Logged
    <2> QED BY <2>1, <2>5 DEF Abstract!Next
<1>4. CASE ~IsAppend(q.cmd)
    <2>1. log' = log
        BY <1>4 DEF CommitsTo, Commit, IsAppend
    <2>2. cur.since \in Nat /\ q.st.since \in Frontier /\ q.st.since \in Nat
        BY <1>1, TopAssumption DEF Inv, TypeOK, VersionOK, IsShardState, Frontier
    <2>3. cur.since <= q.st.since
        BY <1>1 DEF Succeeds, Forward
    <2>4. CASE cur.since = q.st.since
        BY <1>1, <2>1, <2>4 DEF Abstract!vars
    <2>5. CASE cur.since < q.st.since
        <3>1. Abstract!Compact
            BY <1>1, <2>1, <2>2, <2>5 DEF Abstract!Compact
        <3> QED BY <3>1 DEF Abstract!Next
    <2> QED BY <2>2, <2>3, <2>4, <2>5
<1> QED BY <1>3, <1>4

(* If no writer's lease runs out during its append, the command loop over  *)
(* Consensus implements ShardLog: an append takes effect at one instant    *)
(* between its call and its answer, at the upper of the log, at most once, *)
(* and never after a rejection; only the since moves otherwise, forward    *)
(* (machine.rs compare_and_append, apply.rs apply_unbatched_cmd).          *)
THEOREM ShardImplementsShardLog ==
    ASSUME LeaseOutlivesCall
    PROVE  Spec => ImplementsShardLog
<1>1. Init => Abstract!Init
    BY DEF Init, Abstract!Init, InitialState
<1>2. ASSUME Inv, LogInv, AssertInv, AssertInv', AnswersInv, [Next]_vars
      PROVE  [Abstract!Next]_(Abstract!vars)
    <2>1. CASE \E h \in Handles : Acts(h)
        BY <1>2, <2>1, ActsImplement
    <2>2. CASE \E q \in Requests : CommitsTo(q)
        BY <1>2, <2>2, CommitImplements
    <2>3. CASE Quiet
        BY <2>3 DEF Quiet, Abstract!vars
    <2> QED BY <1>2, <2>1, <2>2, <2>3, HandleSteps
<1> QED BY <1>1, <1>2, AnswersInvariance, PTL DEF Spec, Abstract!Spec, ImplementsShardLog
=============================================================================
