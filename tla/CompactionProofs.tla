-------------------------- MODULE CompactionProofs --------------------------
(***************************************************************************)
(* Proofs about Compaction, for any batches, any memory bound and fuel,    *)
(* and any number of batches, compactions, lost answers and rounds of      *)
(* forced compaction.                                                      *)
(*                                                                         *)
(* The inductive invariant CompactionInv says of every part that may be in *)
(* the state what it accounts for: exactly the runs written between its    *)
(* times, each once, in a run or cancelled out (PartsFor). A result under  *)
(* way keeps accounting for what its input stands for while the shard      *)
(* grows (OutGrows), whatever the spine has done to that input meanwhile:  *)
(* so it may take the place of any parts with the same bounds, or of the   *)
(* same runs. That is why late, doubled and overlapping results do no harm *)
(* (OutcomeOK).                                                            *)
(*                                                                         *)
(* Deletion needs names. A run is named after the job and the chunk it was *)
(* made for, and X has the names that must stay out of the state: those    *)
(* that are deleted, and those of an output that has not been applied yet  *)
(* but will be tried again. An output that was applied once leaves X for   *)
(* good, so that it is not deleted when a retry is told that it does not   *)
(* apply.                                                                  *)
(***************************************************************************)
EXTENDS Compaction, SpineProofs

-----------------------------------------------------------------------------
(* Sets and sequences of runs.                                             *)

(* SetToSeq lists every element of a finite set once.                      *)
LEMMA Listed ==
    ASSUME NEW S, IsFiniteSet(S), NEW s, s = SetToSeq(S)
    PROVE  /\ Cardinality(S) \in Nat
           /\ s \in [1 .. Cardinality(S) -> S] /\ s \in Seq(S) /\ Len(s) = Cardinality(S)
           /\ \A i, j \in 1 .. Cardinality(S) : s[i] = s[j] => i = j
           /\ \A x \in S : \E i \in 1 .. Cardinality(S) : s[i] = x
<1> DEFINE n == Cardinality(S)
<1>1. n \in Nat /\ ExistsBijection(1 .. n, S)
    BY FS_CardinalityType
<1> HIDE DEF n
<1>2. PICK f : f \in Bijection(1 .. n, S)
    BY <1>1 DEF ExistsBijection
<1>3. f \in [1 .. n -> S] /\ IsInjective(f)
    BY <1>2 DEF Bijection, Injection, IsInjective
<1>4. s \in [1 .. n -> S] /\ IsInjective(s)
    <2>1. s = CHOOSE g \in [1 .. n -> S] : IsInjective(g)
        BY DEF SetToSeq, n
    <2> QED BY <1>3, <2>1
<1>5. s \in Injection(1 .. n, S)
    BY <1>4 DEF Injection, IsInjective
<1>6. Cardinality(1 .. n) = n
    BY <1>1, FS_Interval
<1>7. s \in Surjection(1 .. n, S)
    BY <1>5, <1>6, FS_Injection DEF n
<1>8. s \in Seq(S) /\ Len(s) = n
    BY <1>1, <1>4
<1>9. \A i, j \in 1 .. n : s[i] = s[j] => i = j
    BY <1>4 DEF IsInjective
<1>10. \A x \in S : \E i \in 1 .. n : s[i] = x
    BY <1>7 DEF Surjection
<1> QED BY <1>1, <1>4, <1>8, <1>9, <1>10 DEF n

(* The size of a finite set of runs that all hold updates.                 *)
LEMMA RunsLenIs ==
    ASSUME NEW S, IsFiniteSet(S), \A r \in S : r.len \in Nat /\ r.len > 0
    PROVE  RunsLen(S) \in Nat /\ (RunsLen(S) = 0 <=> S = {})
<1> DEFINE s == SetToSeq(S)
<1>1. /\ Cardinality(S) \in Nat /\ s \in [1 .. Cardinality(S) -> S]
      /\ s \in Seq(S) /\ Len(s) = Cardinality(S)
      /\ \A x \in S : \E i \in 1 .. Cardinality(S) : s[i] = x
    BY Listed
<1> HIDE DEF s
<1>2. HasLens(s) /\ \A i \in 1 .. Len(s) : s[i] \in S
    BY <1>1 DEF HasLens
<1>3. SumLen(s) \in Nat
    BY <1>1, <1>2, SumLenNat
<1>4. ASSUME NEW r \in S PROVE SumLen(s) # 0
    <2>1. PICK i \in 1 .. Len(s) : s[i] = r
        BY <1>1
    <2>2. s[i].len <= SumLen(s)
        BY <1>1, <1>2, SumLenBounds
    <2> QED BY <1>3, <2>1, <2>2
<1>5. ASSUME S = {} PROVE SumLen(s) = 0
    <2>1. Cardinality(S) = 0
        BY <1>5, FS_EmptySet
    <2>2. s = <<>>
        BY <1>1, <2>1
    <2> QED BY <2>2, SumLenSmall
<1> QED BY <1>3, <1>4, <1>5 DEF RunsLen, s

(* The elements of a sequence.                                             *)
LEMMA Elements ==
    ASSUME NEW X, NEW s \in Seq(X)
    PROVE  /\ ToSet(s) = {s[i] : i \in 1 .. Len(s)}
           /\ \A x : x \in ToSet(s) <=> \E i \in 1 .. Len(s) : s[i] = x
           /\ ToSet(s) \subseteq X
           /\ IsFiniteSet(ToSet(s))
<1> DEFINE n == Len(s)
<1>1. n \in Nat /\ DOMAIN s = 1 .. n /\ s \in [1 .. n -> X]
    OBVIOUS
<1> HIDE DEF n
<1>2. ToSet(s) = {s[i] : i \in 1 .. n}
    BY <1>1 DEF ToSet
<1>3. IsFiniteSet(1 .. n)
    BY <1>1, FS_Interval
<1>4. s \in Surjection(1 .. n, ToSet(s))
    BY <1>1, <1>2 DEF Surjection
<1>5. IsFiniteSet(ToSet(s))
    BY <1>3, <1>4, FS_Surjection
<1> QED BY <1>1, <1>2, <1>5 DEF n

-----------------------------------------------------------------------------
(* What the parts of a shard account for.                                  *)

(* The written runs between two times, where T gives the time of an id.    *)
In(W, T, lo, hi) == {w \in W : lo <= T[w[2]] /\ T[w[2] + 1] <= hi}

(* What there is: the runs written, W, the times of ids, T, the next id, N, *)
(* and all runs made so far, K.                                            *)
World(W, T, N, K) ==
    /\ Times(T) /\ T[0] = 0 /\ N \in Nat /\ \A n \in Nat : N <= n => T[n] = T[N]
    /\ W \subseteq RunId /\ \A w \in W : T[w[2]] < T[w[2] + 1]
    /\ K \subseteq Run /\ \A r \in K : r.len > 0 /\ r.of # {}
    /\ \A r, q \in K : r.id = q.id => r = q

(* What runs and cancelled updates account for, each written run once.     *)
Held(runs, gone) == gone \cup UNION {r.of : r \in runs}

Apart(runs, gone) ==
    /\ \A r \in runs : r.of \cap gone = {}
    /\ \A r, q \in runs : r # q => r.of \cap q.of = {}

(* Runs that are known and account for different things.                   *)
Body(runs, gone, K) ==
    /\ runs \subseteq K /\ IsFiniteSet(runs) /\ gone \subseteq RunId
    /\ Apart(runs, gone)

(* Runs that are not deleted, nor going to be.                             *)
Avoids(runs, X) == \A r \in runs : r.id \notin X

(* The parts that the state may hold: what was written in their range, and *)
(* no run of X.                                                            *)
PartFor(p, W, T, N, K, X) ==
    /\ p.id[1] <= p.id[2] /\ p.id[2] <= N /\ Timed(p, T)
    /\ p.len = RunsLen(p.runs)
    /\ Body(p.runs, p.gone, K) /\ Avoids(p.runs, X)
    /\ Held(p.runs, p.gone) = In(W, T, p.lower, p.upper)

PartsFor(W, T, N, K, X) == {p \in Part : PartFor(p, W, T, N, K, X)}

(* What a part that the state may hold is.                                 *)
LEMMA InPart ==
    ASSUME NEW W, NEW T, NEW N, NEW K, NEW X, NEW p
    PROVE  p \in PartsFor(W, T, N, K, X) <=> p \in Part /\ PartFor(p, W, T, N, K, X)
BY DEF PartsFor

(* Its fields.                                                             *)
LEMMA PartForFields ==
    ASSUME NEW W, NEW T, NEW N, NEW K, NEW X, World(W, T, N, K),
           NEW p \in PartsFor(W, T, N, K, X)
    PROVE  /\ p \in Part /\ p.id[1] \in Nat /\ p.id[2] \in Nat /\ p.id[1] <= p.id[2] /\ p.id[2] <= N
           /\ p.lower = T[p.id[1]] /\ p.upper = T[p.id[2]] /\ p.lower \in Nat /\ p.upper \in Nat
           /\ p.lower <= p.upper
           /\ p.len = RunsLen(p.runs) /\ p.runs \subseteq K /\ IsFiniteSet(p.runs)
           /\ p.gone \subseteq RunId /\ Apart(p.runs, p.gone) /\ Avoids(p.runs, X)
           /\ Held(p.runs, p.gone) = In(W, T, p.lower, p.upper)
<1>1. p \in Part /\ PartFor(p, W, T, N, K, X)
    BY InPart
<1>2. p.id[1] \in Nat /\ p.id[2] \in Nat
    BY <1>1, PartFields
<1>3. Times(T)
    BY DEF World
<1> QED BY <1>1, <1>2, <1>3 DEF PartFor, Body, Timed, Times

(* Runs have updates, so only no runs have len 0.                          *)
LEMMA KnownRuns ==
    ASSUME NEW W, NEW T, NEW N, NEW K, World(W, T, N, K), NEW S \in SUBSET K, IsFiniteSet(S)
    PROVE  RunsLen(S) \in Nat /\ (RunsLen(S) = 0 <=> S = {})
<1>1. \A r \in S : r.len \in Nat /\ r.len > 0
    BY DEF World, Run
<1> QED BY <1>1, RunsLenIs

(* Of a run with updates there is something in the part's range.           *)
LEMMA RunsTakeTime ==
    ASSUME NEW W, NEW T, NEW N, NEW K, NEW X, World(W, T, N, K),
           NEW p \in PartsFor(W, T, N, K, X), p.runs # {}
    PROVE  p.lower < p.upper
<1>1. PICK r \in p.runs : TRUE
    OBVIOUS
<1>2. r \in K
    BY PartForFields
<1>3. PICK w \in r.of : TRUE
    BY <1>2 DEF World
<1>4. w \in Held(p.runs, p.gone)
    BY <1>1, <1>3 DEF Held
<1>5. w \in W /\ p.lower <= T[w[2]] /\ T[w[2] + 1] <= p.upper
    BY <1>4, PartForFields DEF In
<1>6. T[w[2]] < T[w[2] + 1] /\ w \in RunId
    BY <1>5 DEF World
<1>7. T[w[2]] \in Nat /\ T[w[2] + 1] \in Nat
    BY <1>6 DEF World, Times, RunId
<1>8. p.lower \in Nat /\ p.upper \in Nat
    BY PartForFields
<1> QED BY <1>5, <1>6, <1>7, <1>8

(* A written run in the times of a span lies in its ids.                   *)
LEMMA TimeToIds ==
    ASSUME NEW W, NEW T, NEW N, NEW K, World(W, T, N, K), NEW w \in W, NEW a \in Nat, NEW b \in Nat
    PROVE  /\ w[2] \in Nat
           /\ T[a] <= T[w[2]] /\ T[w[2] + 1] <= T[b] <=> a <= w[2] /\ w[2] < b
<1> DEFINE k == w[2]
<1>1. k \in Nat /\ T[k] < T[k + 1]
    BY DEF World, RunId
<1>2. T \in [Nat -> Nat] /\ \A m, n \in Nat : m <= n => T[m] <= T[n]
    BY DEF World, Times
<1> HIDE DEF k
<1>3. T[k] \in Nat /\ T[k + 1] \in Nat /\ T[a] \in Nat /\ T[b] \in Nat /\ k + 1 \in Nat
    BY <1>1, <1>2
<1>4. ASSUME a <= k, k < b PROVE T[a] <= T[k] /\ T[k + 1] <= T[b]
    <2>1. k + 1 <= b
        BY <1>1, <1>4
    <2> QED BY <1>1, <1>2, <1>3, <1>4, <2>1
<1>5. ASSUME T[a] <= T[k], T[k + 1] <= T[b] PROVE a <= k /\ k < b
    <2>1. CASE ~(a <= k)
        <3>1. k + 1 <= a
            BY <1>1, <2>1
        <3>2. T[k + 1] <= T[a]
            BY <1>2, <1>3, <3>1
        <3> QED BY <1>1, <1>3, <1>5, <3>2
    <2>2. CASE ~(k < b)
        <3>1. b <= k
            BY <1>1, <2>2
        <3>2. T[b] <= T[k]
            BY <1>1, <1>2, <3>1
        <3> QED BY <1>1, <1>3, <1>5, <3>2
    <2> QED BY <2>1, <2>2
<1> QED BY <1>1, <1>4, <1>5 DEF k

(* The runs of a sequence of parts, and what they have cancelled out.      *)
AllRuns(s) == UNION {p.runs : p \in ToSet(s)}
AllGone(s) == UNION {p.gone : p \in ToSet(s)}

(* The runs of a sequence of parts, one by one.                            *)
LEMMA AllRunsIs ==
    ASSUME NEW X, NEW s \in Seq(X)
    PROVE  /\ \A r : r \in AllRuns(s) <=> \E i \in 1 .. Len(s) : r \in s[i].runs
           /\ \A w : w \in AllGone(s) <=> \E i \in 1 .. Len(s) : w \in s[i].gone
<1>1. ToSet(s) = {s[i] : i \in 1 .. Len(s)}
    BY Elements
<1>2. AllRuns(s) = UNION {p.runs : p \in {s[i] : i \in 1 .. Len(s)}}
    BY <1>1 DEF AllRuns
<1>3. AllGone(s) = UNION {p.gone : p \in {s[i] : i \in 1 .. Len(s)}}
    BY <1>1 DEF AllGone
<1> QED BY <1>2, <1>3

(* There are finitely many of them.                                        *)
LEMMA AllRunsFinite ==
    ASSUME NEW X, NEW s \in Seq(X), \A i \in 1 .. Len(s) : IsFiniteSet(s[i].runs)
    PROVE  IsFiniteSet(AllRuns(s))
<1> DEFINE n == Len(s)
           S == {s[i].runs : i \in 1 .. n}
           f == [i \in 1 .. n |-> s[i].runs]
<1>1. n \in Nat /\ IsFiniteSet(1 .. n)
    BY FS_Interval
<1> HIDE DEF n
<1>2. f \in Surjection(1 .. n, S)
    BY DEF Surjection
<1>3. IsFiniteSet(S)
    <2> HIDE DEF f, S
    <2> QED BY <1>1, <1>2, FS_Surjection
<1>4. IsFiniteSet(UNION S)
    <2>1. \A Q \in S : IsFiniteSet(Q)
        BY DEF n
    <2> HIDE DEF S
    <2> QED BY <1>3, <2>1, FS_UNION
<1>5. UNION S = AllRuns(s)
    BY AllRunsIs DEF n
<1> QED BY <1>4, <1>5

(* What a part accounts for, by ids.                                       *)
LEMMA HeldIds ==
    ASSUME NEW W, NEW T, NEW N, NEW K, NEW X, World(W, T, N, K),
           NEW p \in PartsFor(W, T, N, K, X)
    PROVE  \A w : w \in Held(p.runs, p.gone) <=> w \in W /\ p.id[1] <= w[2] /\ w[2] < p.id[2]
<1>1. /\ p.id[1] \in Nat /\ p.id[2] \in Nat /\ p.lower = T[p.id[1]] /\ p.upper = T[p.id[2]]
      /\ Held(p.runs, p.gone) = In(W, T, p.lower, p.upper)
    BY PartForFields
<1>2. ASSUME NEW w \in W PROVE w \in In(W, T, p.lower, p.upper) <=> p.id[1] <= w[2] /\ w[2] < p.id[2]
    BY <1>1, TimeToIds DEF In
<1>3. In(W, T, p.lower, p.upper) \subseteq W
    BY DEF In
<1> QED BY <1>1, <1>2, <1>3

(* The ids of parts are spans.                                             *)
LEMMA PartsSpan ==
    ASSUME NEW W, NEW T, NEW N, NEW K, NEW X
    PROVE  Spans(PartsFor(W, T, N, K, X))
BY DEF Spans, PartsFor, PartFor

(* The parts of a chain account for what was written in its range.         *)
LEMMA ChainHeld ==
    ASSUME NEW W, NEW T, NEW N, NEW K, NEW X, World(W, T, N, K),
           NEW s \in Seq(PartsFor(W, T, N, K, X)), s # <<>>, Chained(s)
    PROVE  /\ Body(AllRuns(s), AllGone(s), K) /\ Avoids(AllRuns(s), X)
           /\ Held(AllRuns(s), AllGone(s)) = In(W, T, s[1].lower, s[Len(s)].upper)
           /\ s[1].id[1] <= s[Len(s)].id[2]
<1> DEFINE PS == PartsFor(W, T, N, K, X)
           n == Len(s)
           R == AllRuns(s)
           G == AllGone(s)
           H(i) == Held(s[i].runs, s[i].gone)
<1>1. n \in Nat /\ n >= 1 /\ n \in 1 .. n /\ 1 \in 1 .. n
    OBVIOUS
<1>2. \A i \in 1 .. n : s[i] \in PS
    OBVIOUS
<1>3. Spans(PS)
    BY PartsSpan
<1>4. /\ \A r : r \in R <=> \E i \in 1 .. n : r \in s[i].runs
      /\ \A w : w \in G <=> \E i \in 1 .. n : w \in s[i].gone
    BY AllRunsIs
<1>5. \A i \in 1 .. n : s[i].id[1] \in Nat /\ s[i].id[2] \in Nat /\ s[i].id[1] <= s[i].id[2]
    BY <1>2, PartForFields
<1>6. \A i, j \in 1 .. n : i < j => s[i].id[2] <= s[j].id[1]
    BY <1>3, SpansGrow
<1>7. \A i \in 1 .. n : \A w : w \in H(i) <=> w \in W /\ s[i].id[1] <= w[2] /\ w[2] < s[i].id[2]
    BY <1>2, HeldIds
<1>8. \A w : w \in Held(R, G) <=> \E i \in 1 .. n : w \in H(i)
    <2> HIDE DEF R, G, n
    <2> QED BY <1>4 DEF Held
<1>9. \A w \in W : w[2] \in Nat
    BY DEF World, RunId
<1>10. \A i \in 1 .. n : s[1].id[1] <= s[i].id[1] /\ s[i].id[2] <= s[n].id[2]
    <2> HIDE DEF n
    <2>1. SUFFICES ASSUME NEW i \in 1 .. n PROVE s[1].id[1] <= s[i].id[1] /\ s[i].id[2] <= s[n].id[2]
        OBVIOUS
    <2>2. s[1].id[1] <= s[i].id[1]
        <3>1. CASE i = 1
            BY <1>1, <1>5, <3>1
        <3>2. CASE i # 1
            <4>1. 1 < i
                BY <3>2
            <4>2. s[1].id[2] <= s[i].id[1]
                BY <1>1, <1>6, <4>1
            <4> QED BY <1>1, <1>5, <4>2
        <3> QED BY <3>1, <3>2
    <2>3. s[i].id[2] <= s[n].id[2]
        <3>1. CASE i = n
            BY <1>1, <1>5, <3>1
        <3>2. CASE i # n
            <4>1. i < n
                BY <1>1, <3>2
            <4>2. s[i].id[2] <= s[n].id[1]
                BY <1>1, <1>6, <4>1
            <4> QED BY <1>1, <1>5, <4>2
        <3> QED BY <3>1, <3>2
    <2> QED BY <2>2, <2>3
<1>11. s[1].id[1] <= s[n].id[2]
    BY <1>1, <1>5, <1>10
<1>12. Held(R, G) = In(W, T, s[1].lower, s[n].upper)
    <2> DEFINE a == s[1].id[1]
               b == s[n].id[2]
    <2>1. s[1].lower = T[a] /\ s[n].upper = T[b] /\ a \in Nat /\ b \in Nat
        BY <1>1, <1>2, PartForFields
    <2>2. \A w : w \in In(W, T, s[1].lower, s[n].upper) <=> w \in W /\ a <= w[2] /\ w[2] < b
        <3> HIDE DEF a, b
        <3>1. \A w \in W : T[a] <= T[w[2]] /\ T[w[2] + 1] <= T[b] <=> a <= w[2] /\ w[2] < b
            BY <2>1, TimeToIds
        <3> QED BY <2>1, <3>1 DEF In
    <2>3. ASSUME NEW w \in W, a <= w[2], w[2] < b PROVE \E i \in 1 .. n : w \in H(i)
        <3>1. \E i \in 1 .. n : s[i].id[1] <= w[2] /\ w[2] < s[i].id[2]
            BY <1>3, <1>9, <2>3, ChainCovers
        <3> QED BY <1>7, <3>1
    <2>4. ASSUME NEW w, NEW i \in 1 .. n, w \in H(i) PROVE w \in W /\ a <= w[2] /\ w[2] < b
        <3>1. w \in W /\ s[i].id[1] <= w[2] /\ w[2] < s[i].id[2]
            BY <1>7, <2>4
        <3>2. w[2] \in Nat /\ s[i].id[1] \in Nat /\ s[i].id[2] \in Nat
            BY <1>5, <1>9, <3>1
        <3>3. a <= s[i].id[1] /\ s[i].id[2] <= b
            BY <1>10
        <3> HIDE DEF a, b
        <3> QED BY <2>1, <3>1, <3>2, <3>3
    <2> HIDE DEF a, b, H, R, G, n
    <2> QED BY <1>8, <2>2, <2>3, <2>4
<1>13. \A i, j \in 1 .. n : i # j => H(i) \cap H(j) = {}
    <2>1. ASSUME NEW i \in 1 .. n, NEW j \in 1 .. n, i < j, NEW w, w \in H(i), w \in H(j) PROVE FALSE
        <3>1. w \in W /\ w[2] < s[i].id[2] /\ s[j].id[1] <= w[2]
            BY <1>7, <2>1
        <3>2. w[2] \in Nat /\ s[i].id[2] \in Nat /\ s[j].id[1] \in Nat /\ s[i].id[2] <= s[j].id[1]
            BY <1>5, <1>6, <1>9, <2>1, <3>1
        <3> QED BY <3>1, <3>2
    <2>2. ASSUME NEW i \in 1 .. n, NEW j \in 1 .. n, i # j PROVE i < j \/ j < i
        BY <1>1, <2>2
    <2> HIDE DEF H, n
    <2> QED BY <2>1, <2>2
<1>14. \A i \in 1 .. n : /\ s[i].runs \subseteq K /\ IsFiniteSet(s[i].runs) /\ s[i].gone \subseteq RunId
                         /\ Apart(s[i].runs, s[i].gone) /\ Avoids(s[i].runs, X)
    BY <1>2, PartForFields
<1>15. \A i \in 1 .. n : s[i].gone \subseteq H(i) /\ \A r \in s[i].runs : r.of \subseteq H(i)
    BY DEF Held
<1>16. Apart(R, G)
    <2> HIDE DEF H, R, G, n
    <2>1. ASSUME NEW r \in R PROVE r.of \cap G = {}
        <3>1. PICK i \in 1 .. n : r \in s[i].runs
            BY <1>4
        <3>2. ASSUME NEW w, w \in r.of, w \in G PROVE FALSE
            <4>1. PICK j \in 1 .. n : w \in s[j].gone
                BY <1>4, <3>2
            <4>2. CASE i = j
                BY <1>14, <3>1, <3>2, <4>1, <4>2 DEF Apart
            <4>3. CASE i # j
                <5>1. w \in H(i) /\ w \in H(j)
                    BY <1>15, <3>1, <3>2, <4>1
                <5> QED BY <1>13, <4>3, <5>1
            <4> QED BY <4>2, <4>3
        <3> QED BY <3>2
    <2>2. ASSUME NEW r \in R, NEW q \in R, r # q PROVE r.of \cap q.of = {}
        <3>1. PICK i \in 1 .. n : r \in s[i].runs
            BY <1>4
        <3>2. PICK j \in 1 .. n : q \in s[j].runs
            BY <1>4
        <3>3. CASE i = j
            BY <1>14, <2>2, <3>1, <3>2, <3>3 DEF Apart
        <3>4. CASE i # j
            <4>1. r.of \subseteq H(i) /\ q.of \subseteq H(j)
                BY <1>15, <3>1, <3>2
            <4> QED BY <1>13, <3>4, <4>1
        <3> QED BY <3>3, <3>4
    <2> QED BY <2>1, <2>2 DEF Apart
<1>17. R \subseteq K /\ G \subseteq RunId /\ Avoids(R, X)
    <2> HIDE DEF R, G, n
    <2> QED BY <1>4, <1>14 DEF Avoids
<1>18. IsFiniteSet(R)
    BY <1>14, AllRunsFinite
<1> QED BY <1>11, <1>12, <1>16, <1>17, <1>18 DEF Body

(* No two parts of a chain share a run.                                    *)
LEMMA ChainApart ==
    ASSUME NEW W, NEW T, NEW N, NEW K, NEW X, World(W, T, N, K),
           NEW s \in Seq(PartsFor(W, T, N, K, X)), Chained(s),
           NEW i \in 1 .. Len(s), NEW j \in 1 .. Len(s), i # j
    PROVE  s[i].runs \cap s[j].runs = {}
<1> DEFINE PS == PartsFor(W, T, N, K, X)
<1>1. SUFFICES ASSUME NEW a \in 1 .. Len(s), NEW b \in 1 .. Len(s), a < b, NEW r, r \in s[a].runs, r \in s[b].runs
      PROVE FALSE
    <2>1. i < j \/ j < i
        OBVIOUS
    <2> QED BY <1>1, <2>1
<1>2. s[a] \in PS /\ s[b] \in PS
    OBVIOUS
<1>3. r \in K
    BY <1>1, <1>2, PartForFields
<1>4. PICK w \in r.of : TRUE
    BY <1>3 DEF World
<1>5. w \in Held(s[a].runs, s[a].gone) /\ w \in Held(s[b].runs, s[b].gone)
    BY <1>1, <1>4 DEF Held
<1>6. w \in W /\ w[2] < s[a].id[2] /\ s[b].id[1] <= w[2]
    BY <1>2, <1>5, HeldIds
<1>7. s[a].id[2] <= s[b].id[1]
    BY <1>1, PartsSpan, SpansGrow
<1>8. w[2] \in Nat /\ s[a].id[2] \in Nat /\ s[b].id[1] \in Nat
    BY <1>2, <1>6, PartForFields DEF World, RunId
<1> QED BY <1>6, <1>7, <1>8

-----------------------------------------------------------------------------
(* Parts of a growing shard.                                               *)

(* In no time nothing is written.                                          *)
LEMMA NoTime ==
    ASSUME NEW W, NEW T, NEW N, NEW K, World(W, T, N, K), NEW lo
    PROVE  In(W, T, lo, lo) = {} \/ lo \notin Nat
<1>1. SUFFICES ASSUME lo \in Nat, NEW w \in W, lo <= T[w[2]], T[w[2] + 1] <= lo PROVE FALSE
    BY DEF In
<1>2. T[w[2]] < T[w[2] + 1] /\ w \in RunId
    BY DEF World
<1>3. T[w[2]] \in Nat /\ T[w[2] + 1] \in Nat
    BY <1>2 DEF World, Times, RunId
<1> QED BY <1>1, <1>2, <1>3

(* An empty part over ids whose updates have all cancelled out.            *)
LEMMA EmptyPartFor ==
    ASSUME NEW W, NEW T, NEW N, NEW K, NEW X, World(W, T, N, K),
           NEW a \in Nat, NEW b \in Nat, a <= b, b <= N, NEW since \in Nat, NEW G \in SUBSET RunId,
           G = In(W, T, T[a], T[b])
    PROVE  EmptyPart(<<a, b>>, T[a], T[b], since, G) \in PartsFor(W, T, N, K, X)
<1> DEFINE p == EmptyPart(<<a, b>>, T[a], T[b], since, G)
<1>1. /\ p.id = <<a, b>> /\ p.id[1] = a /\ p.id[2] = b /\ p.lower = T[a] /\ p.upper = T[b]
      /\ p.len = 0 /\ p.runs = {} /\ p.gone = G
    BY DEF EmptyPart
<1>2. T[a] \in Nat /\ T[b] \in Nat
    BY DEF World, Times
<1>3. p \in Part
    BY <1>2 DEF EmptyPart, Part, Span
<1>4. IsFiniteSet({}) /\ RunsLen({}) = 0
    BY FS_EmptySet, KnownRuns
<1>5. Body({}, G, K) /\ Avoids({}, X) /\ Held({}, G) = G
    BY <1>4 DEF Body, Apart, Avoids, Held
<1> HIDE DEF p
<1>6. PartFor(p, W, T, N, K, X)
    BY <1>1, <1>4, <1>5 DEF PartFor, Timed
<1> QED BY <1>3, <1>6, InPart DEF p

(* Parts without runs may be replaced by an empty part, as                 *)
(* FuelingMerge::done does.                                                *)
LEMMA ChainEmpty ==
    ASSUME NEW W, NEW T, NEW N, NEW K, NEW X, World(W, T, N, K),
           NEW s \in Seq(PartsFor(W, T, N, K, X)), s # <<>>, Chained(s), SumLen(s) = 0,
           NEW since \in Nat
    PROVE  EmptyPart(<<s[1].id[1], s[Len(s)].id[2]>>, s[1].lower, s[Len(s)].upper, since,
                     UNION {p.gone : p \in ToSet(s)}) \in PartsFor(W, T, N, K, X)
<1> DEFINE PS == PartsFor(W, T, N, K, X)
           n == Len(s)
           a == s[1].id[1]
           b == s[n].id[2]
<1>1. n \in Nat /\ n >= 1 /\ n \in 1 .. n /\ 1 \in 1 .. n
    OBVIOUS
<1>2. PS \in SUBSET Part
    BY DEF PartsFor
<1>3. HasLens(s) /\ \A i \in 1 .. n : s[i] \in PS
    BY <1>2, SeqOfParts
<1>4. ASSUME NEW i \in 1 .. n PROVE s[i].runs = {}
    <2>1. s[i].len <= SumLen(s)
        BY <1>3, SumLenBounds
    <2>2. s[i] \in PS
        BY <1>3
    <2>3. s[i].len = RunsLen(s[i].runs) /\ s[i].runs \subseteq K /\ IsFiniteSet(s[i].runs)
        BY <2>2, PartForFields
    <2>4. RunsLen(s[i].runs) \in Nat /\ (RunsLen(s[i].runs) = 0 <=> s[i].runs = {})
        BY <2>3, KnownRuns
    <2> QED BY <2>1, <2>3, <2>4
<1>5. AllRuns(s) = {}
    BY <1>4, AllRunsIs
<1>6. /\ Body(AllRuns(s), AllGone(s), K)
      /\ Held(AllRuns(s), AllGone(s)) = In(W, T, s[1].lower, s[n].upper) /\ a <= b
    BY ChainHeld
<1>7. AllGone(s) \in SUBSET RunId /\ AllGone(s) = In(W, T, s[1].lower, s[n].upper)
    BY <1>5, <1>6 DEF Body, Held
<1>8. s[1].lower = T[a] /\ s[n].upper = T[b] /\ a \in Nat /\ b \in Nat /\ b <= N
    BY <1>1, <1>3, PartForFields
<1> HIDE DEF a, b, n
<1>9. EmptyPart(<<a, b>>, T[a], T[b], since, AllGone(s)) \in PS
    BY <1>6, <1>7, <1>8, EmptyPartFor
<1> QED BY <1>8, <1>9 DEF a, b, n, AllGone

(* The parts that the state may hold are good parts of a spine.            *)
LEMMA PartsAreGood ==
    ASSUME NEW W, NEW T, NEW N, NEW K, NEW X, World(W, T, N, K)
    PROVE  GoodParts(PartsFor(W, T, N, K, X), T)
<1> DEFINE PS == PartsFor(W, T, N, K, X)
<1>1. PS \subseteq Part
    BY DEF PartsFor
<1>2. ASSUME NEW p \in PS PROVE Timed(p, T) /\ p.id[1] <= p.id[2] /\ (p.len > 0 => p.lower < p.upper)
    <2>1. /\ p.id[1] <= p.id[2] /\ p.lower = T[p.id[1]] /\ p.upper = T[p.id[2]]
          /\ p.len = RunsLen(p.runs) /\ p.runs \subseteq K /\ IsFiniteSet(p.runs)
        BY PartForFields
    <2>2. p.len > 0 => p.runs # {}
        BY <2>1, KnownRuns
    <2>3. p.runs # {} => p.lower < p.upper
        BY RunsTakeTime
    <2> QED BY <2>1, <2>2, <2>3 DEF Timed
<1>3. \A s \in Seq(PS) : \A since \in Nat :
         s # <<>> /\ Chained(s) /\ SumLen(s) = 0
           => EmptyPart(<<s[1].id[1], s[Len(s)].id[2]>>, s[1].lower, s[Len(s)].upper,
                        since, UNION {p.gone : p \in ToSet(s)}) \in PS
    BY ChainEmpty
<1> HIDE DEF PS
<1> QED BY <1>1, <1>2, <1>3 DEF GoodParts, PS

-----------------------------------------------------------------------------
(* What there is grows; only runs that are not known may be new in X.      *)
Grows(W, T, N, K, X, W2, T2, N2, K2, X2) ==
    /\ N <= N2 /\ \A n \in 0 .. N : T2[n] = T[n]
    /\ W \subseteq W2 /\ \A w \in W2 \ W : N <= w[2]
    /\ K \subseteq K2 /\ \A r \in K : r.id \in X2 => r.id \in X

(* What was written in a range that has passed does not change.            *)
LEMMA InGrows ==
    ASSUME NEW W, NEW T, NEW N, NEW K, NEW X, World(W, T, N, K),
           NEW W2, NEW T2, NEW N2, NEW K2, NEW X2, World(W2, T2, N2, K2),
           Grows(W, T, N, K, X, W2, T2, N2, K2, X2),
           NEW lo \in Nat, NEW hi \in Nat, hi <= T[N]
    PROVE  In(W2, T2, lo, hi) = In(W, T, lo, hi)
<1>0. N \in Nat /\ N2 \in Nat /\ N <= N2 /\ T2[N] = T[N]
    BY DEF World, Grows
<1>1. T \in [Nat -> Nat] /\ T2 \in [Nat -> Nat] /\ (\A m, n \in Nat : m <= n => T2[m] <= T2[n])
      /\ W \subseteq RunId /\ W2 \subseteq RunId
    BY DEF World, Times
<1>2. ASSUME NEW w \in W PROVE T2[w[2]] = T[w[2]] /\ T2[w[2] + 1] = T[w[2] + 1]
    <2>1. w[2] \in Nat /\ T[w[2]] < T[w[2] + 1]
        BY DEF World, RunId
    <2>2. ~(N <= w[2])
        <3>1. ASSUME N <= w[2] PROVE FALSE
            <4>1. T[w[2]] = T[N] /\ T[w[2] + 1] = T[N]
                BY <1>0, <2>1, <3>1 DEF World
            <4> QED BY <1>0, <1>1, <2>1, <4>1
        <3> QED BY <3>1
    <2>3. w[2] \in 0 .. N /\ w[2] + 1 \in 0 .. N
        BY <1>0, <2>1, <2>2
    <2> QED BY <2>3 DEF Grows
<1>3. ASSUME NEW w \in W2, w \notin W PROVE ~(T2[w[2] + 1] <= hi)
    <2>1. w[2] \in Nat /\ T2[w[2]] < T2[w[2] + 1] /\ N <= w[2]
        BY <1>3 DEF World, RunId, Grows
    <2>2. T2[N] <= T2[w[2]]
        BY <1>0, <1>1, <2>1
    <2>3. T2[w[2]] \in Nat /\ T2[w[2] + 1] \in Nat /\ T2[N] \in Nat
        BY <1>0, <1>1, <2>1
    <2> QED BY <1>0, <2>1, <2>2, <2>3
<1>4. W \subseteq W2
    BY DEF Grows
<1> QED BY <1>2, <1>3, <1>4 DEF In

(* Parts and batches remain what they are when the world grows.            *)
LEMMA PartsGrow ==
    ASSUME NEW W, NEW T, NEW N, NEW K, NEW X, World(W, T, N, K),
           NEW W2, NEW T2, NEW N2, NEW K2, NEW X2, World(W2, T2, N2, K2),
           Grows(W, T, N, K, X, W2, T2, N2, K2, X2)
    PROVE  /\ PartsFor(W, T, N, K, X) \subseteq PartsFor(W2, T2, N2, K2, X2)
           /\ BatchesOf(PartsFor(W, T, N, K, X), T) \subseteq BatchesOf(PartsFor(W2, T2, N2, K2, X2), T2)
<1> DEFINE PS == PartsFor(W, T, N, K, X)
           PS2 == PartsFor(W2, T2, N2, K2, X2)
<1>0. N \in Nat /\ N2 \in Nat /\ N <= N2
    BY DEF World, Grows
<1>1. ASSUME NEW p \in PS PROVE p \in PS2
    <2>1. /\ p \in Part /\ p.id[1] \in Nat /\ p.id[2] \in Nat /\ p.id[1] <= p.id[2] /\ p.id[2] <= N
          /\ p.lower = T[p.id[1]] /\ p.upper = T[p.id[2]] /\ p.lower \in Nat /\ p.upper \in Nat
          /\ p.len = RunsLen(p.runs) /\ p.runs \subseteq K /\ IsFiniteSet(p.runs)
          /\ p.gone \subseteq RunId /\ Apart(p.runs, p.gone) /\ Avoids(p.runs, X)
          /\ Held(p.runs, p.gone) = In(W, T, p.lower, p.upper)
        BY PartForFields
    <2>2. p.id[1] \in 0 .. N /\ p.id[2] \in 0 .. N
        BY <1>0, <2>1
    <2>3. Timed(p, T2)
        BY <2>1, <2>2 DEF Grows, Timed
    <2>4. p.upper <= T[N]
        BY <1>0, <2>1 DEF World, Times
    <2>5. In(W2, T2, p.lower, p.upper) = In(W, T, p.lower, p.upper)
        BY <2>1, <2>4, InGrows
    <2>6. Body(p.runs, p.gone, K2) /\ Avoids(p.runs, X2)
        BY <2>1 DEF Body, Avoids, Grows
    <2>7. p.id[2] <= N2
        BY <1>0, <2>1
    <2>8. PartFor(p, W2, T2, N2, K2, X2)
        BY <2>1, <2>3, <2>5, <2>6, <2>7 DEF PartFor
    <2> QED BY <2>1, <2>8, InPart
<1>2. GoodParts(PS, T) /\ GoodParts(PS2, T2)
    BY PartsAreGood
<1>3. ASSUME NEW b \in BatchesOf(PS, T) PROVE b \in BatchesOf(PS2, T2)
    <2> HIDE DEF PS, PS2
    <2> DEFINE n == Len(b.parts)
    <2>1. /\ b \in Batch /\ b.parts \in Seq(PS) /\ b.parts # <<>> /\ n \in Nat /\ n >= 1
          /\ \A i \in 1 .. n : b.parts[i] \in PS
          /\ b.id[1] = b.parts[1].id[1] /\ b.id[2] = b.parts[n].id[2]
          /\ b.lower = b.parts[1].lower /\ b.upper = b.parts[n].upper
        BY <1>2, BatchOKFields
    <2>2. b.parts \in Seq(PS2)
        BY <1>1, <2>1
    <2>3. b.parts[1] \in PS2 /\ b.parts[n] \in PS2
        BY <1>1, <2>1
    <2>4. Timed(b.parts[1], T2) /\ Timed(b.parts[n], T2)
        BY <1>2, <2>3 DEF GoodParts
    <2>5. Timed(b, T2)
        BY <2>1, <2>4 DEF Timed
    <2> QED BY <2>1, <2>2, <2>5 DEF BatchesOf, BatchOK
<1> QED BY <1>1, <1>3

-----------------------------------------------------------------------------
(* Results of compaction.                                                  *)

(* What an output of compaction has to account for, H, by what it is meant *)
(* to replace.                                                             *)
Ids(runs) == {r.id : r \in runs}
Of(runs)  == UNION {r.of : r \in runs}

(* Ids, with their times.                                                  *)
SpanTimes(id, lower, upper, T, N) ==
    /\ id \in Span /\ id[1] <= id[2] /\ id[2] <= N
    /\ lower = T[id[1]] /\ upper = T[id[2]]

Fulfils(input, lower, upper, H, W, T, N, K) ==
    \/ /\ input.kind = "IdRange"
       /\ SpanTimes(input.id, lower, upper, T, N)
       /\ H = In(W, T, lower, upper)
    \/ /\ input.kind = "PartialBatch"
       /\ SpanTimes(input.id, lower, upper, T, N)
       /\ \E G \in SUBSET K : input.runs = Ids(G) /\ H = Of(G)
    \/ /\ input.kind = "Legacy"
       /\ lower \in Nat /\ upper \in Nat /\ lower < upper /\ upper <= T[N]
       /\ H = In(W, T, lower, upper)

OutType == [lower : Nat, upper : Nat, since : Nat, runs : SUBSET Run, gone : SUBSET RunId]

(* A result whose output accounts for what its input stands for.           *)
OutOK(res, W, T, N, K) ==
    /\ res.output \in OutType
    /\ Body(res.output.runs, res.output.gone, K)
    /\ Fulfils(res.input, res.output.lower, res.output.upper,
               Held(res.output.runs, res.output.gone), W, T, N, K)

(* An output that accounts for what was written in its range is a part,    *)
(* under the ids of that range.                                            *)
LEMMA WithIdFor ==
    ASSUME NEW W, NEW T, NEW N, NEW K, NEW X, World(W, T, N, K), NEW o \in OutType,
           NEW id, SpanTimes(id, o.lower, o.upper, T, N),
           Body(o.runs, o.gone, K), Avoids(o.runs, X),
           Held(o.runs, o.gone) = In(W, T, o.lower, o.upper)
    PROVE  WithId(id, o) \in PartsFor(W, T, N, K, X)
<1> DEFINE p == WithId(id, o)
<1>1. /\ p.id = id /\ p.lower = o.lower /\ p.upper = o.upper
      /\ p.len = RunsLen(o.runs) /\ p.runs = o.runs /\ p.gone = o.gone
    BY DEF WithId
<1>2. RunsLen(o.runs) \in Nat
    BY KnownRuns DEF Body
<1>3. p \in Part
    BY <1>2 DEF WithId, Part, OutType, SpanTimes
<1> HIDE DEF p
<1>4. PartFor(p, W, T, N, K, X)
    BY <1>1 DEF PartFor, Timed, SpanTimes
<1> QED BY <1>3, <1>4, InPart DEF p

(* Runs are known by their ids.                                            *)
LEMMA SameIds ==
    ASSUME NEW W, NEW T, NEW N, NEW K, World(W, T, N, K), NEW G \in SUBSET K, NEW F \in SUBSET K,
           Ids(F) = Ids(G)
    PROVE  F = G
<1>1. ASSUME NEW A \in SUBSET K, NEW B \in SUBSET K, Ids(A) = Ids(B), NEW r \in A PROVE r \in B
    <2>1. r.id \in Ids(B)
        BY <1>1 DEF Ids
    <2>2. PICK q \in B : q.id = r.id
        BY <2>1 DEF Ids
    <2>3. r = q
        BY <2>2 DEF World
    <2> QED BY <2>2, <2>3
<1> QED BY <1>1

(* Runs of a part are replaced by others that hold the same.               *)
LEMMA SwapRuns ==
    ASSUME NEW runs, NEW gone, NEW G \in SUBSET runs, NEW new, NEW cut, NEW K,
           Body(runs, gone, K), Body(new, cut, K), Held(new, cut) = Of(G),
           NEW runs2, runs2 = (runs \ G) \cup new, NEW gone2, gone2 = gone \cup cut
    PROVE  Body(runs2, gone2, K) /\ Held(runs2, gone2) = Held(runs, gone)
<1>1. Apart(runs, gone) /\ Apart(new, cut)
    BY DEF Body
<1>2. /\ \A r \in new : r.of \subseteq Of(G)
      /\ cut \subseteq Of(G)
    BY DEF Held
<1>3. \A w \in Of(G) : \E g \in G : w \in g.of
    BY DEF Of
<1>4. \A r \in runs \ G : r.of \cap Of(G) = {}
    BY <1>1, <1>3 DEF Apart
<1>5. gone \cap Of(G) = {}
    BY <1>1, <1>3 DEF Apart
<1>6. Apart(runs2, gone2)
    <2>1. ASSUME NEW r \in runs2 PROVE r.of \cap gone2 = {}
        <3>1. CASE r \in runs \ G
            BY <1>1, <1>2, <1>4, <3>1 DEF Apart
        <3>2. CASE r \in new
            BY <1>1, <1>2, <1>5, <3>2 DEF Apart
        <3> QED BY <3>1, <3>2
    <2>2. ASSUME NEW r \in runs2, NEW q \in runs2, r # q PROVE r.of \cap q.of = {}
        <3>1. CASE r \in runs \ G /\ q \in runs \ G
            BY <1>1, <2>2, <3>1 DEF Apart
        <3>2. CASE r \in new /\ q \in new
            BY <1>1, <2>2, <3>2 DEF Apart
        <3>3. CASE r \in runs \ G /\ q \in new
            BY <1>2, <1>4, <3>3
        <3>4. CASE r \in new /\ q \in runs \ G
            BY <1>2, <1>4, <3>4
        <3> QED BY <3>1, <3>2, <3>3, <3>4
    <2> QED BY <2>1, <2>2 DEF Apart
<1>7. IsFiniteSet(runs2)
    <2>1. IsFiniteSet(runs \ G)
        BY FS_Difference DEF Body
    <2> QED BY <2>1, FS_Union DEF Body
<1>8. runs2 \subseteq K /\ gone2 \subseteq RunId
    BY DEF Body
<1>9. Held(runs2, gone2) = Held(runs, gone)
    <2>1. ASSUME NEW w, w \in Held(runs2, gone2) PROVE w \in Held(runs, gone)
        <3>1. w \in gone \/ w \in cut \/ (\E r \in runs \ G : w \in r.of) \/ \E r \in new : w \in r.of
            BY <2>1 DEF Held
        <3>2. w \in Of(G) => w \in Held(runs, gone)
            BY <1>3 DEF Held
        <3> QED BY <1>2, <3>1, <3>2 DEF Held
    <2>2. ASSUME NEW w, w \in Held(runs, gone) PROVE w \in Held(runs2, gone2)
        <3>1. CASE w \in Of(G)
            <4>1. w \in Held(new, cut)
                BY <3>1
            <4> QED BY <4>1 DEF Held
        <3>2. CASE w \notin Of(G)
            <4>1. w \in gone \/ \E r \in runs \ G : w \in r.of
                BY <2>2, <3>2 DEF Held, Of
            <4> QED BY <4>1 DEF Held
        <3> QED BY <3>1, <3>2
    <2> QED BY <2>1, <2>2
<1> QED BY <1>6, <1>7, <1>8, <1>9 DEF Body

(* The part that handle_partial_batch_replacement puts together.           *)
LEMMA CombinedIs ==
    ASSUME NEW res, res.output \in OutType, NEW p
    PROVE  LET old == {r \in p.runs : r.id \in res.input.runs}
               c == Combined(p, res)
           IN /\ c.lower = res.output.lower /\ c.upper = res.output.upper /\ c.since = res.output.since
              /\ c.runs = (p.runs \ old) \cup res.output.runs
              /\ c.gone = p.gone \cup res.output.gone
              /\ c = [lower |-> res.output.lower, upper |-> res.output.upper, since |-> res.output.since,
                      runs |-> (p.runs \ old) \cup res.output.runs, gone |-> p.gone \cup res.output.gone]
<1> DEFINE old == {r \in p.runs : r.id \in res.input.runs}
           o == res.output
           A == p.runs \ old
           B == p.gone
           c == Combined(p, res)
<1>1. c = [o EXCEPT !.runs = A \cup @, !.gone = B \cup @]
    BY DEF Combined
<1>2. o \in OutType
    OBVIOUS
<1> HIDE DEF A, B, o, c
<1>3. c = [lower |-> o.lower, upper |-> o.upper, since |-> o.since, runs |-> A \cup o.runs, gone |-> B \cup o.gone]
    BY <1>1, <1>2 DEF OutType
<1>4. c.lower = o.lower /\ c.upper = o.upper /\ c.since = o.since /\ c.runs = A \cup o.runs /\ c.gone = B \cup o.gone
    BY <1>3
<1> QED BY <1>3, <1>4 DEF A, B, o, c

(* A result that accounts for its input may take the place of what it was  *)
(* made from, and of whatever the spine has made of that.                  *)
LEMMA OutcomeOK ==
    ASSUME NEW W, NEW T, NEW N, NEW K, NEW X, World(W, T, N, K),
           NEW res, OutOK(res, W, T, N, K), Avoids(res.output.runs, X)
    PROVE  ResOK(res, PartsFor(W, T, N, K, X))
<1> DEFINE PS == PartsFor(W, T, N, K, X)
           o == res.output
           H == Held(o.runs, o.gone)
<1>1. o \in OutType /\ Body(o.runs, o.gone, K) /\ Fulfils(res.input, o.lower, o.upper, H, W, T, N, K)
    BY DEF OutOK
<1>2. o.lower \in Nat /\ o.upper \in Nat /\ o.since \in Nat
    BY <1>1 DEF OutType
<1>3. \A p : Combined(p, res).since = o.since
    BY <1>1, CombinedIs
<1>4. CASE res.input.kind = "IdRange"
    <2>1. SpanTimes(res.input.id, o.lower, o.upper, T, N) /\ H = In(W, T, o.lower, o.upper)
        BY <1>1, <1>4 DEF Fulfils
    <2>2. RangeResOK(res, PS)
        BY <1>1, <2>1, WithIdFor DEF RangeResOK
    <2> HIDE DEF PS
    <2> QED BY <1>2, <1>3, <1>4, <2>2 DEF ResOK, PS
<1>5. CASE res.input.kind = "PartialBatch"
    <2>1. SpanTimes(res.input.id, o.lower, o.upper, T, N)
        BY <1>1, <1>5 DEF Fulfils
    <2>2. PICK G \in SUBSET K : res.input.runs = Ids(G) /\ H = Of(G)
        BY <1>1, <1>5 DEF Fulfils
    <2>3. ASSUME NEW p \in PS, p.id = res.input.id PROVE o.lower = p.lower /\ o.upper = p.upper
        <3>1. p.lower = T[p.id[1]] /\ p.upper = T[p.id[2]]
            BY <2>3, PartForFields
        <3> QED BY <2>1, <2>3, <3>1 DEF SpanTimes
    <2>4. ASSUME NEW p \in PS, p.id = res.input.id,
                 res.input.runs = {r.id : r \in {q \in p.runs : q.id \in res.input.runs}}
          PROVE  WithId(p.id, Combined(p, res)) \in PS
        <3> DEFINE old == {q \in p.runs : q.id \in res.input.runs}
                   c == Combined(p, res)
        <3>1. /\ p.runs \subseteq K /\ Body(p.runs, p.gone, K) /\ Avoids(p.runs, X)
              /\ Held(p.runs, p.gone) = In(W, T, p.lower, p.upper) /\ p \in Part
            BY <2>4, PartForFields DEF Body
        <3>2. old = G
            <4>1. old \in SUBSET K
                BY <3>1
            <4>2. Ids(old) = Ids(G)
                BY <2>2, <2>4 DEF Ids
            <4> HIDE DEF old
            <4> QED BY <4>1, <4>2, SameIds
        <3>3. /\ c.lower = o.lower /\ c.upper = o.upper
              /\ c.runs = (p.runs \ old) \cup o.runs
              /\ c.gone = p.gone \cup o.gone
              /\ c = [lower |-> o.lower, upper |-> o.upper, since |-> o.since,
                      runs |-> (p.runs \ old) \cup o.runs, gone |-> p.gone \cup o.gone]
            BY <1>1, CombinedIs
        <3>4. old \subseteq p.runs
            OBVIOUS
        <3> HIDE DEF c, old, o
        <3>5. c \in OutType
            BY <1>1, <3>1, <3>3, PartFields DEF OutType
        <3>6. Body(c.runs, c.gone, K) /\ Held(c.runs, c.gone) = Held(p.runs, p.gone)
            BY <1>1, <2>2, <3>1, <3>2, <3>3, <3>4, SwapRuns
        <3>7. Avoids(c.runs, X)
            BY <3>1, <3>3 DEF Avoids, o
        <3>8. o.lower = p.lower /\ o.upper = p.upper
            BY <2>3, <2>4 DEF o
        <3>9. SpanTimes(p.id, c.lower, c.upper, T, N)
            BY <2>1, <2>4, <3>3
        <3>10. Held(c.runs, c.gone) = In(W, T, c.lower, c.upper)
            BY <3>1, <3>3, <3>6, <3>8
        <3> QED BY <3>5, <3>6, <3>7, <3>9, <3>10, WithIdFor DEF c
    <2>5. RunsResOK(res, PS)
        BY <2>3, <2>4 DEF RunsResOK
    <2> HIDE DEF PS
    <2> QED BY <1>2, <1>3, <1>5, <2>5 DEF ResOK, PS
<1>6. CASE res.input.kind = "Legacy"
    <2>1. o.lower < o.upper /\ H = In(W, T, o.lower, o.upper)
        BY <1>1, <1>6 DEF Fulfils
    <2>2. ASSUME NEW p \in PS, NEW q \in PS, p.id[1] <= q.id[2], p.lower = o.lower, q.upper = o.upper
          PROVE  WithId(<<p.id[1], q.id[2]>>, o) \in PS
        <3> DEFINE a == p.id[1]
                   b == q.id[2]
        <3>1. a \in Nat /\ b \in Nat /\ p.lower = T[a] /\ q.upper = T[b] /\ b <= N
            BY <2>2, PartForFields
        <3> HIDE DEF a, b
        <3>2. SpanTimes(<<a, b>>, o.lower, o.upper, T, N)
            BY <2>2, <3>1 DEF SpanTimes, Span, a, b
        <3>3. WithId(<<a, b>>, o) \in PS
            BY <1>1, <2>1, <3>2, WithIdFor
        <3> QED BY <3>3 DEF a, b
    <2>3. LegacyResOK(res, PS)
        BY <2>1, <2>2 DEF LegacyResOK
    <2> HIDE DEF PS
    <2> QED BY <1>2, <1>3, <1>6, <2>3 DEF ResOK, PS
<1> QED BY <1>1, <1>4, <1>5, <1>6 DEF Fulfils

-----------------------------------------------------------------------------
(* Chunks of a compaction.                                                 *)

(* The times of a span do not change.                                      *)
LEMMA SpanTimesGrow ==
    ASSUME NEW W, NEW T, NEW N, NEW K, NEW X, World(W, T, N, K),
           NEW W2, NEW T2, NEW N2, NEW K2, NEW X2, World(W2, T2, N2, K2),
           Grows(W, T, N, K, X, W2, T2, N2, K2, X2),
           NEW id, NEW lower, NEW upper, SpanTimes(id, lower, upper, T, N)
    PROVE  SpanTimes(id, lower, upper, T2, N2) /\ lower \in Nat /\ upper \in Nat /\ upper <= T[N]
<1>1. N \in Nat /\ N2 \in Nat /\ N <= N2 /\ T \in [Nat -> Nat] /\ \A m, n \in Nat : m <= n => T[m] <= T[n]
    BY DEF World, Grows, Times
<1>2. id[1] \in Nat /\ id[2] \in Nat /\ id[1] <= id[2] /\ id[2] <= N /\ lower = T[id[1]] /\ upper = T[id[2]]
    BY DEF SpanTimes, Span
<1>3. id[1] \in 0 .. N /\ id[2] \in 0 .. N /\ id[2] <= N2
    BY <1>1, <1>2
<1>4. T2[id[1]] = T[id[1]] /\ T2[id[2]] = T[id[2]]
    BY <1>3 DEF Grows
<1> QED BY <1>1, <1>2, <1>3, <1>4 DEF SpanTimes

(* What an output has to account for does not change.                      *)
LEMMA FulfilsGrows ==
    ASSUME NEW W, NEW T, NEW N, NEW K, NEW X, World(W, T, N, K),
           NEW W2, NEW T2, NEW N2, NEW K2, NEW X2, World(W2, T2, N2, K2),
           Grows(W, T, N, K, X, W2, T2, N2, K2, X2),
           NEW input, NEW lower, NEW upper, NEW H, Fulfils(input, lower, upper, H, W, T, N, K)
    PROVE  Fulfils(input, lower, upper, H, W2, T2, N2, K2)
<1>1. CASE input.kind = "IdRange"
    <2>1. SpanTimes(input.id, lower, upper, T, N) /\ H = In(W, T, lower, upper)
        BY <1>1 DEF Fulfils
    <2>2. SpanTimes(input.id, lower, upper, T2, N2) /\ lower \in Nat /\ upper \in Nat /\ upper <= T[N]
        BY <2>1, SpanTimesGrow
    <2>3. In(W2, T2, lower, upper) = In(W, T, lower, upper)
        BY <2>2, InGrows
    <2> QED BY <1>1, <2>1, <2>2, <2>3 DEF Fulfils
<1>2. CASE input.kind = "PartialBatch"
    <2>1. SpanTimes(input.id, lower, upper, T, N) /\ \E G \in SUBSET K : input.runs = Ids(G) /\ H = Of(G)
        BY <1>2 DEF Fulfils
    <2>2. SpanTimes(input.id, lower, upper, T2, N2)
        BY <2>1, SpanTimesGrow
    <2>3. \E G \in SUBSET K2 : input.runs = Ids(G) /\ H = Of(G)
        BY <2>1 DEF Grows
    <2> QED BY <1>2, <2>2, <2>3 DEF Fulfils
<1>3. CASE input.kind = "Legacy"
    <2>1. lower \in Nat /\ upper \in Nat /\ lower < upper /\ upper <= T[N] /\ H = In(W, T, lower, upper)
        BY <1>3 DEF Fulfils
    <2>2. In(W2, T2, lower, upper) = In(W, T, lower, upper)
        BY <2>1, InGrows
    <2>3. upper <= T2[N2]
        <3>1. N \in Nat /\ N2 \in Nat /\ N <= N2 /\ T2[N] = T[N]
            BY DEF World, Grows
        <3>2. T2[N] <= T2[N2] /\ T2[N] \in Nat /\ T2[N2] \in Nat
            BY <3>1 DEF World, Times
        <3> QED BY <2>1, <3>1, <3>2
    <2> QED BY <1>3, <2>1, <2>2, <2>3 DEF Fulfils
<1> QED BY <1>1, <1>2, <1>3 DEF Fulfils

(* A result that was right stays right, however late it arrives.           *)
LEMMA OutGrows ==
    ASSUME NEW W, NEW T, NEW N, NEW K, NEW X, World(W, T, N, K),
           NEW W2, NEW T2, NEW N2, NEW K2, NEW X2, World(W2, T2, N2, K2),
           Grows(W, T, N, K, X, W2, T2, N2, K2, X2),
           NEW res, OutOK(res, W, T, N, K)
    PROVE  OutOK(res, W2, T2, N2, K2)
<1>1. K \subseteq K2
    BY DEF Grows
<1>2. Fulfils(res.input, res.output.lower, res.output.upper,
              Held(res.output.runs, res.output.gone), W2, T2, N2, K2)
    BY FulfilsGrows DEF OutOK
<1> QED BY <1>1, <1>2 DEF OutOK, Body

-----------------------------------------------------------------------------
(* Chunks                                                                  *)
Input == [kind : {"IdRange"}, id : Span] \cup [kind : {"PartialBatch"}, id : Span, runs : SUBSET RunId]
           \cup {Legacy}

ChunkType == [input : Input, lower : Nat, upper : Nat, since : Nat,
              groups : Seq(SUBSET Run), gone : SUBSET RunId]

Grouped(c) == UNION ToSet(c.groups)

ChunkOK(c, W, T, N, K) ==
    /\ c \in ChunkType
    /\ \A k, l \in 1 .. Len(c.groups) : k # l => c.groups[k] \cap c.groups[l] = {}
    /\ Body(Grouped(c), c.gone, K)
    /\ Fulfils(c.input, c.lower, c.upper, Held(Grouped(c), c.gone), W, T, N, K)

(* So does a chunk.                                                        *)
LEMMA ChunkGrows ==
    ASSUME NEW W, NEW T, NEW N, NEW K, NEW X, World(W, T, N, K),
           NEW W2, NEW T2, NEW N2, NEW K2, NEW X2, World(W2, T2, N2, K2),
           Grows(W, T, N, K, X, W2, T2, N2, K2, X2),
           NEW c, ChunkOK(c, W, T, N, K)
    PROVE  ChunkOK(c, W2, T2, N2, K2)
<1>1. K \subseteq K2
    BY DEF Grows
<1>2. Fulfils(c.input, c.lower, c.upper, Held(Grouped(c), c.gone), W2, T2, N2, K2)
    BY FulfilsGrows DEF ChunkOK
<1> QED BY <1>1, <1>2 DEF ChunkOK, Body

(* The runs of a chunk.                                                    *)
LEMMA GroupedIs ==
    ASSUME NEW c, NEW X, c.groups \in Seq(X)
    PROVE  \A r : r \in Grouped(c) <=> \E k \in 1 .. Len(c.groups) : r \in c.groups[k]
<1>1. ToSet(c.groups) = {c.groups[k] : k \in 1 .. Len(c.groups)}
    BY Elements
<1> QED BY <1>1 DEF Grouped

(* A chunk of one group.                                                   *)
LEMMA OneGroup ==
    ASSUME NEW c, NEW G \in SUBSET Run, c.groups = <<G>>
    PROVE  /\ c.groups \in Seq(SUBSET Run) /\ Len(c.groups) = 1 /\ c.groups[1] = G /\ Grouped(c) = G
           /\ \A k, l \in 1 .. Len(c.groups) : k # l => c.groups[k] \cap c.groups[l] = {}
<1>1. c.groups \in Seq(SUBSET Run) /\ Len(c.groups) = 1 /\ c.groups[1] = G
    OBVIOUS
<1>2. \A r : r \in Grouped(c) <=> \E k \in 1 .. Len(c.groups) : r \in c.groups[k]
    BY <1>1, GroupedIs
<1>3. 1 .. Len(c.groups) = {1}
    BY <1>1
<1>4. Grouped(c) = G
    BY <1>1, <1>2, <1>3
<1>5. \A k, l \in 1 .. Len(c.groups) : k = l
    BY <1>3
<1> QED BY <1>1, <1>4, <1>5

Single(c, G, W, T, N, K) == ChunkOK(c, W, T, N, K) /\ Len(c.groups) = 1 /\ c.groups[1] = G

(* The chunk of a chain of parts.                                          *)
LEMMA RangeChunkOK ==
    ASSUME NEW W, NEW T, NEW N, NEW K, NEW X, World(W, T, N, K),
           NEW s \in Seq(PartsFor(W, T, N, K, X)), s # <<>>, Chained(s), NEW since \in Nat
    PROVE  Single(RangeChunk(s, since), AllRuns(s), W, T, N, K)
<1> DEFINE n == Len(s)
           a == s[1].id[1]
           b == s[n].id[2]
           R == AllRuns(s)
           G == AllGone(s)
           c == RangeChunk(s, since)
<1>1. n \in Nat /\ 1 \in 1 .. n /\ n \in 1 .. n /\ Head(s) = s[1] /\ Last(s) = s[n]
    BY DEF Last
<1>2. s[1] \in PartsFor(W, T, N, K, X) /\ s[n] \in PartsFor(W, T, N, K, X)
    BY <1>1
<1>3. /\ a \in Nat /\ b \in Nat /\ s[1].lower = T[a] /\ s[n].upper = T[b] /\ b <= N
      /\ s[1].lower \in Nat /\ s[n].upper \in Nat
    BY <1>2, PartForFields
<1>4. Body(R, G, K) /\ Held(R, G) = In(W, T, s[1].lower, s[n].upper) /\ a <= b
    BY ChainHeld
<1>5. c = [input |-> IdRange(<<a, b>>), lower |-> s[1].lower, upper |-> s[n].upper, since |-> since,
           groups |-> <<R>>, gone |-> G]
    BY <1>1 DEF RangeChunk, AllRuns, AllGone
<1>6. R \in SUBSET Run /\ G \in SUBSET RunId
    BY <1>4 DEF Body, World
<1> HIDE DEF c, a, b, R, G, n
<1>7. /\ c.input = IdRange(<<a, b>>) /\ c.lower = s[1].lower /\ c.upper = s[n].upper /\ c.since = since
      /\ c.groups = <<R>> /\ c.gone = G
    BY <1>5
<1>8. /\ c.groups \in Seq(SUBSET Run) /\ Len(c.groups) = 1 /\ c.groups[1] = R /\ Grouped(c) = R
      /\ \A k, l \in 1 .. Len(c.groups) : k # l => c.groups[k] \cap c.groups[l] = {}
    BY <1>6, <1>7, OneGroup
<1>9. IdRange(<<a, b>>) \in Input /\ IdRange(<<a, b>>).kind = "IdRange" /\ IdRange(<<a, b>>).id = <<a, b>>
    BY <1>3 DEF Input, IdRange, Span
<1>10. c \in ChunkType
    <2>1. <<R>> \in Seq(SUBSET Run)
        BY <1>6
    <2> HIDE DEF Input
    <2> QED BY <1>3, <1>5, <1>6, <1>9, <2>1 DEF ChunkType
<1>11. SpanTimes(<<a, b>>, c.lower, c.upper, T, N)
    BY <1>3, <1>4, <1>7 DEF SpanTimes, Span
<1>12. Fulfils(c.input, c.lower, c.upper, Held(Grouped(c), c.gone), W, T, N, K)
    BY <1>4, <1>7, <1>8, <1>9, <1>11 DEF Fulfils
<1>13. ChunkOK(c, W, T, N, K)
    BY <1>4, <1>7, <1>8, <1>10, <1>12 DEF ChunkOK
<1> QED BY <1>8, <1>13 DEF Single, c, R

(* The chunk of some runs of a part.                                       *)
LEMMA RunsChunkOK ==
    ASSUME NEW W, NEW T, NEW N, NEW K, NEW X, World(W, T, N, K),
           NEW p \in PartsFor(W, T, N, K, X), NEW R \in SUBSET p.runs, NEW since \in Nat
    PROVE  Single(RunsChunk(p, R, since), R, W, T, N, K)
<1> DEFINE c == RunsChunk(p, R, since)
           in == PartialBatch(p.id, Ids(R))
<1>1. c = [input |-> in, lower |-> p.lower, upper |-> p.upper, since |-> since,
           groups |-> <<R>>, gone |-> {}]
    BY DEF RunsChunk, Ids
<1>2. /\ p \in Part /\ p.id[1] <= p.id[2] /\ p.id[2] <= N /\ p.lower = T[p.id[1]] /\ p.upper = T[p.id[2]]
      /\ p.lower \in Nat /\ p.upper \in Nat
      /\ p.runs \subseteq K /\ IsFiniteSet(p.runs) /\ Apart(p.runs, p.gone)
    BY PartForFields
<1>3. R \in SUBSET K /\ R \in SUBSET Run /\ p.id \in Span
    BY <1>2, PartFields DEF World
<1>4. Ids(R) \in SUBSET RunId
    BY <1>3 DEF Ids, Run
<1>5. in.kind = "PartialBatch" /\ in.id = p.id /\ in.runs = Ids(R)
    BY DEF PartialBatch
<1>6. in \in Input
    BY <1>3, <1>4 DEF Input, PartialBatch
<1> HIDE DEF c, in
<1>7. /\ c.input = in /\ c.lower = p.lower /\ c.upper = p.upper /\ c.since = since
      /\ c.groups = <<R>> /\ c.gone = {}
    BY <1>1
<1>8. /\ c.groups \in Seq(SUBSET Run) /\ Len(c.groups) = 1 /\ c.groups[1] = R /\ Grouped(c) = R
      /\ \A k, l \in 1 .. Len(c.groups) : k # l => c.groups[k] \cap c.groups[l] = {}
    BY <1>3, <1>7, OneGroup
<1>9. c \in ChunkType
    <2>1. <<R>> \in Seq(SUBSET Run)
        BY <1>3
    <2> HIDE DEF Input
    <2> QED BY <1>1, <1>2, <1>6, <2>1 DEF ChunkType
<1>10. SpanTimes(in.id, c.lower, c.upper, T, N)
    BY <1>2, <1>3, <1>5, <1>7 DEF SpanTimes
<1>11. Held(R, {}) = Of(R)
    BY DEF Held, Of
<1>12. Fulfils(c.input, c.lower, c.upper, Held(Grouped(c), c.gone), W, T, N, K)
    BY <1>3, <1>5, <1>7, <1>8, <1>10, <1>11 DEF Fulfils
<1>13. Body(R, {}, K)
    <2>1. IsFiniteSet(R)
        BY <1>2, FS_Subset
    <2> QED BY <1>2, <1>3, <2>1 DEF Body, Apart
<1>14. ChunkOK(c, W, T, N, K)
    BY <1>7, <1>8, <1>9, <1>12, <1>13 DEF ChunkOK
<1> QED BY <1>8, <1>14 DEF Single, c

-----------------------------------------------------------------------------
(* Chunks that cover the runs of a request.                                *)

(* One-group chunks that together hold the runs R, each once.              *)
Covering(chs, R, W, T, N, K) ==
    /\ chs \in Seq(ChunkType)
    /\ \A k \in 1 .. Len(chs) : ChunkOK(chs[k], W, T, N, K) /\ Len(chs[k].groups) = 1
    /\ \A k, l \in 1 .. Len(chs) : k # l => chs[k].groups[1] \cap chs[l].groups[1] = {}
    /\ \A r : r \in R <=> \E k \in 1 .. Len(chs) : r \in chs[k].groups[1]

(* No chunks cover no runs.                                                *)
LEMMA CoverNone ==
    ASSUME NEW W, NEW T, NEW N, NEW K
    PROVE  Covering(<<>>, {}, W, T, N, K)
BY DEF Covering

(* One chunk covers its runs.                                              *)
LEMMA CoverOne ==
    ASSUME NEW W, NEW T, NEW N, NEW K, NEW c, NEW G, Single(c, G, W, T, N, K)
    PROVE  Covering(<<c>>, G, W, T, N, K)
<1> DEFINE s == <<c>>
<1>1. c \in ChunkType
    BY DEF Single, ChunkOK
<1>2. s \in Seq(ChunkType) /\ Len(s) = 1 /\ s[1] = c
    BY <1>1
<1> HIDE DEF s
<1>3. 1 .. Len(s) = {1}
    BY <1>2
<1>4. ChunkOK(s[1], W, T, N, K) /\ Len(s[1].groups) = 1 /\ s[1].groups[1] = G
    BY <1>2 DEF Single
<1> HIDE DEF ChunkOK
<1>5. /\ \A k \in 1 .. Len(s) : ChunkOK(s[k], W, T, N, K) /\ Len(s[k].groups) = 1
      /\ \A r : r \in G <=> \E k \in 1 .. Len(s) : r \in s[k].groups[1]
      /\ \A k, l \in 1 .. Len(s) : k = l
    BY <1>3, <1>4
<1> QED BY <1>2, <1>5 DEF Covering, s

(* Chunks of disjoint runs cover them all.                                 *)
LEMMA CoverConcat ==
    ASSUME NEW W, NEW T, NEW N, NEW K, NEW a, NEW b, NEW R, NEW S,
           Covering(a, R, W, T, N, K), Covering(b, S, W, T, N, K), R \cap S = {}
    PROVE  Covering(a \o b, R \cup S, W, T, N, K)
<1> DEFINE s == a \o b
           m == Len(a)
           n == Len(b)
           G(x) == x.groups[1]
           P(x) == ChunkOK(x, W, T, N, K) /\ Len(x.groups) = 1
<1>1. a \in Seq(ChunkType) /\ b \in Seq(ChunkType)
    BY DEF Covering
<1>2. /\ s \in Seq(ChunkType) /\ m \in Nat /\ n \in Nat /\ Len(s) = m + n
      /\ \A i \in 1 .. (m + n) : s[i] = IF i <= m THEN a[i] ELSE b[i - m]
    BY <1>1, ConcatProperties
<1>3. /\ \A k \in 1 .. m : P(a[k])
      /\ \A k, l \in 1 .. m : k # l => G(a[k]) \cap G(a[l]) = {}
      /\ \A r : r \in R <=> \E k \in 1 .. m : r \in G(a[k])
    BY DEF Covering
<1>4. /\ \A k \in 1 .. n : P(b[k])
      /\ \A k, l \in 1 .. n : k # l => G(b[k]) \cap G(b[l]) = {}
      /\ \A r : r \in S <=> \E k \in 1 .. n : r \in G(b[k])
    BY DEF Covering
<1> HIDE DEF s, m, n, G, P
<1>5. \A i \in 1 .. (m + n) : \/ i \in 1 .. m /\ s[i] = a[i]
                              \/ ~(i <= m) /\ i - m \in 1 .. n /\ s[i] = b[i - m]
    BY <1>2
<1>6. /\ \A k \in 1 .. m : k \in 1 .. (m + n) /\ s[k] = a[k]
      /\ \A k \in 1 .. n : m + k \in 1 .. (m + n) /\ s[m + k] = b[k]
    <2>1. ASSUME NEW k \in 1 .. n PROVE m + k \in 1 .. (m + n) /\ ~(m + k <= m) /\ (m + k) - m = k
        BY <1>2
    <2>2. ASSUME NEW k \in 1 .. m PROVE k \in 1 .. (m + n) /\ k <= m
        BY <1>2
    <2> QED BY <1>2, <2>1, <2>2
<1>7. \A k \in 1 .. (m + n) : P(s[k])
    BY <1>3, <1>4, <1>5
<1>8. ASSUME NEW k \in 1 .. (m + n), NEW l \in 1 .. (m + n), k # l PROVE G(s[k]) \cap G(s[l]) = {}
    <2>1. CASE k \in 1 .. m /\ s[k] = a[k] /\ l \in 1 .. m /\ s[l] = a[l]
        BY <1>3, <1>8, <2>1
    <2>2. CASE k - m \in 1 .. n /\ s[k] = b[k - m] /\ l - m \in 1 .. n /\ s[l] = b[l - m]
        <3>1. k - m # l - m
            BY <1>2, <1>8
        <3> QED BY <1>4, <2>2, <3>1
    <2>3. CASE k \in 1 .. m /\ s[k] = a[k] /\ l - m \in 1 .. n /\ s[l] = b[l - m]
        <3>1. G(s[k]) \subseteq R /\ G(s[l]) \subseteq S
            BY <1>3, <1>4, <2>3
        <3> QED BY <3>1
    <2>4. CASE k - m \in 1 .. n /\ s[k] = b[k - m] /\ l \in 1 .. m /\ s[l] = a[l]
        <3>1. G(s[l]) \subseteq R /\ G(s[k]) \subseteq S
            BY <1>3, <1>4, <2>4
        <3> QED BY <3>1
    <2> QED BY <1>5, <2>1, <2>2, <2>3, <2>4
<1>9. \A r : r \in R \cup S <=> \E k \in 1 .. (m + n) : r \in G(s[k])
    <2>1. ASSUME NEW r \in R \cup S PROVE \E k \in 1 .. (m + n) : r \in G(s[k])
        <3>1. CASE r \in R
            BY <1>3, <1>6, <3>1
        <3>2. CASE r \in S
            <4>1. PICK k \in 1 .. n : r \in G(b[k])
                BY <1>4, <3>2
            <4>2. m + k \in 1 .. (m + n) /\ s[m + k] = b[k]
                BY <1>6
            <4> QED BY <4>1, <4>2
        <3> QED BY <3>1, <3>2
    <2>2. ASSUME NEW r, NEW k \in 1 .. (m + n), r \in G(s[k]) PROVE r \in R \cup S
        <3>1. CASE k \in 1 .. m /\ s[k] = a[k]
            BY <1>3, <2>2, <3>1
        <3>2. CASE k - m \in 1 .. n /\ s[k] = b[k - m]
            BY <1>4, <2>2, <3>2
        <3> QED BY <1>5, <3>1, <3>2
    <2> QED BY <2>1, <2>2
<1> QED BY <1>2, <1>7, <1>8, <1>9 DEF Covering, s, G, P

-----------------------------------------------------------------------------
(* Blocks of C numbers.                                                    *)
LEMMA Blocks ==
    ASSUME NEW L \in Nat, NEW C \in Nat, C > 0, NEW n, n = (L + C - 1) \div C
    PROVE  /\ n \in Nat
           /\ \A i \in 1 .. L : \E k \in 1 .. n : (k - 1) * C + 1 <= i /\ i <= k * C
           /\ \A k, l \in 1 .. n : k < l => k * C <= (l - 1) * C
           /\ \A k \in 1 .. n : k * C \in Nat /\ (k - 1) * C \in Nat
<1>1. L + C - 1 \in Nat
    OBVIOUS
<1>2. n \in Nat /\ L + C - 1 < (n + 1) * C
    BY <1>1
<1>3. (n + 1) * C = n * C + C /\ n * C \in Nat
    BY <1>2
<1>4. ASSUME NEW i \in 1 .. L PROVE \E k \in 1 .. n : (k - 1) * C + 1 <= i /\ i <= k * C
    <2> DEFINE q == (i - 1) \div C
    <2>1. i - 1 \in Nat
        OBVIOUS
    <2>2. q \in Nat /\ q * C <= i - 1 /\ i - 1 < (q + 1) * C
        BY <2>1
    <2> HIDE DEF q
    <2>3. (q + 1) - 1 = q /\ (q + 1) * C \in Nat /\ q * C \in Nat
        BY <2>2
    <2>4. q * C < n * C
        BY <1>2, <1>3, <2>2, <2>3
    <2>5. q < n
        BY <1>2, <2>2, <2>4
    <2>6. q + 1 \in 1 .. n
        BY <1>2, <2>2, <2>5
    <2>7. ((q + 1) - 1) * C + 1 <= i /\ i <= (q + 1) * C
        BY <2>2, <2>3
    <2> QED BY <2>6, <2>7
<1>5. ASSUME NEW k \in 1 .. n, NEW l \in 1 .. n, k < l PROVE k * C <= (l - 1) * C
    <2> DEFINE j == l - 1
    <2>1. j \in Nat /\ k \in Nat /\ k <= j
        BY <1>2, <1>5
    <2> HIDE DEF j
    <2>2. k * C <= j * C
        BY <2>1
    <2> QED BY <2>2 DEF j
<1>6. ASSUME NEW k \in 1 .. n PROVE k * C \in Nat /\ (k - 1) * C \in Nat
    <2>1. k \in Nat /\ k - 1 \in Nat
        BY <1>2
    <2> QED BY <2>1
<1> QED BY <1>2, <1>4, <1>5, <1>6

(* Chunks are not empty.                                                   *)
LEMMA ChunkSizeNat == ChunkSize \in Nat /\ ChunkSize > 0
<1>1. MemRuns \in Nat
    BY CompactionAssumption
<1> DEFINE n == MemRuns + 2
<1>2. {MemRuns, 2} \in SUBSET (0 .. n) /\ n \in Nat
    BY <1>1
<1> HIDE DEF n
<1>3. Max({MemRuns, 2}) \in {MemRuns, 2} /\ \A k \in {MemRuns, 2} : k <= Max({MemRuns, 2})
    BY <1>2, MaxOf
<1>4. ChunkSize \in {MemRuns, 2} /\ 2 <= ChunkSize
    BY <1>3 DEF ChunkSize
<1> QED BY <1>1, <1>4

(* The chunks of a part that does not fit in memory cover its runs.        *)
LEMMA SplitPartOK ==
    ASSUME NEW W, NEW T, NEW N, NEW K, NEW X, World(W, T, N, K),
           NEW p \in PartsFor(W, T, N, K, X), NEW since \in Nat
    PROVE  Covering(SplitPart(p, since), p.runs, W, T, N, K)
<1> DEFINE runs == SetToSeq(p.runs)
           L == Len(runs)
           C == ChunkSize
           n == (L + C - 1) \div C
           I(k) == ((k - 1) * C + 1) .. Min({k * C, L})
           B(k) == {runs[i] : i \in I(k)}
           s == SplitPart(p, since)
<1>1. /\ L \in Nat /\ runs \in [1 .. L -> p.runs]
      /\ \A i, j \in 1 .. L : runs[i] = runs[j] => i = j
      /\ \A x \in p.runs : \E i \in 1 .. L : runs[i] = x
    <2>1. IsFiniteSet(p.runs)
        BY PartForFields
    <2>2. /\ Cardinality(p.runs) \in Nat /\ runs \in [1 .. Cardinality(p.runs) -> p.runs]
          /\ L = Cardinality(p.runs)
          /\ \A i, j \in 1 .. Cardinality(p.runs) : runs[i] = runs[j] => i = j
          /\ \A x \in p.runs : \E i \in 1 .. Cardinality(p.runs) : runs[i] = x
        BY <2>1, Listed
    <2> HIDE DEF L, runs
    <2> QED BY <2>2
<1>2. s = [k \in 1 .. n |-> RunsChunk(p, B(k), since)]
    BY DEF SplitPart
<1>3. C \in Nat /\ C > 0
    BY ChunkSizeNat
<1> HIDE DEF runs, L, C, s
<1>4. /\ n \in Nat
      /\ \A i \in 1 .. L : \E k \in 1 .. n : (k - 1) * C + 1 <= i /\ i <= k * C
      /\ \A k, l \in 1 .. n : k < l => k * C <= (l - 1) * C
      /\ \A k \in 1 .. n : k * C \in Nat /\ (k - 1) * C \in Nat
    BY <1>1, <1>3, Blocks
<1> HIDE DEF n
<1>5. ASSUME NEW k \in 1 .. n, NEW i
      PROVE i \in I(k) <=> i \in 1 .. L /\ (k - 1) * C + 1 <= i /\ i <= k * C
    <2>1. k * C \in Int /\ L \in Int /\ (k - 1) * C \in Nat
        BY <1>1, <1>4
    <2>2. Min({k * C, L}) = IF k * C <= L THEN k * C ELSE L
        BY <2>1, MinOfTwo
    <2> QED BY <2>1, <2>2
<1> HIDE DEF I
<1>6. \A k \in 1 .. n : B(k) \subseteq p.runs
    BY <1>1, <1>5
<1>7. \A r : r \in p.runs <=> \E k \in 1 .. n : r \in B(k)
    <2>1. ASSUME NEW r \in p.runs PROVE \E k \in 1 .. n : r \in B(k)
        <3>1. PICK i \in 1 .. L : runs[i] = r
            BY <1>1
        <3>2. PICK k \in 1 .. n : (k - 1) * C + 1 <= i /\ i <= k * C
            BY <1>4
        <3>3. i \in I(k)
            BY <1>5, <3>2
        <3> QED BY <3>1, <3>3
    <2> QED BY <1>6, <2>1
<1>8. ASSUME NEW k \in 1 .. n, NEW l \in 1 .. n, k < l PROVE B(k) \cap B(l) = {}
    <2>1. ASSUME NEW i \in I(k), NEW j \in I(l), runs[i] = runs[j] PROVE FALSE
        <3>1. i \in 1 .. L /\ i <= k * C
            BY <1>5
        <3>2. j \in 1 .. L /\ (l - 1) * C + 1 <= j
            BY <1>5
        <3>3. i = j
            BY <1>1, <2>1, <3>1, <3>2
        <3>4. k * C <= (l - 1) * C /\ k * C \in Nat /\ (l - 1) * C \in Nat
            BY <1>4, <1>8
        <3> QED BY <3>1, <3>2, <3>3, <3>4
    <2> QED BY <2>1
<1>9. ASSUME NEW k \in 1 .. n, NEW l \in 1 .. n, k # l PROVE B(k) \cap B(l) = {}
    <2>1. k < l \/ l < k
        BY <1>4, <1>9
    <2> QED BY <1>8, <2>1
<1> HIDE DEF B
<1>10. ASSUME NEW k \in 1 .. n PROVE /\ ChunkOK(s[k], W, T, N, K) /\ s[k] \in ChunkType
                                      /\ Len(s[k].groups) = 1 /\ s[k].groups[1] = B(k)
    <2>1. B(k) \in SUBSET p.runs
        BY <1>6
    <2>2. s[k] = RunsChunk(p, B(k), since)
        BY <1>2
    <2>3. Single(s[k], B(k), W, T, N, K)
        BY <2>1, <2>2, RunsChunkOK
    <2> QED BY <2>3 DEF Single, ChunkOK
<1>11. s \in Seq(ChunkType) /\ Len(s) = n
    BY <1>2, <1>4, <1>10
<1> QED BY <1>7, <1>9, <1>10, <1>11 DEF Covering, s

(* The two halves of a chain.                                              *)
LEMMA Pieces ==
    ASSUME NEW W, NEW T, NEW N, NEW K, NEW X, World(W, T, N, K),
           NEW d \in Seq(PartsFor(W, T, N, K, X)), NEW o \in Seq(PartsFor(W, T, N, K, X)),
           Chained(d \o o)
    PROVE  /\ Chained(d) /\ Chained(o)
           /\ AllRuns(d \o o) = AllRuns(d) \cup AllRuns(o)
           /\ AllRuns(d) \cap AllRuns(o) = {}
<1> DEFINE PS == PartsFor(W, T, N, K, X)
           s == d \o o
           m == Len(d)
           n == Len(o)
<1>1. /\ s \in Seq(PS) /\ m \in Nat /\ n \in Nat /\ Len(s) = m + n
      /\ \A i \in 1 .. (m + n) : s[i] = IF i <= m THEN d[i] ELSE o[i - m]
    BY ConcatProperties
<1>2. \A i \in 2 .. (m + n) : s[i].id[1] = s[i - 1].id[2] /\ s[i].lower = s[i - 1].upper
    BY <1>1 DEF Chained
<1>3. /\ \A r : r \in AllRuns(s) <=> \E i \in 1 .. (m + n) : r \in s[i].runs
      /\ \A r : r \in AllRuns(d) <=> \E i \in 1 .. m : r \in d[i].runs
      /\ \A r : r \in AllRuns(o) <=> \E i \in 1 .. n : r \in o[i].runs
    BY <1>1, AllRunsIs
<1>4. \A i \in 1 .. (m + n), j \in 1 .. (m + n) : i # j => s[i].runs \cap s[j].runs = {}
    BY <1>1, ChainApart
<1> HIDE DEF s, m, n
<1>5. /\ \A k \in 1 .. m : k \in 1 .. (m + n) /\ s[k] = d[k]
      /\ \A k \in 1 .. n : m + k \in 1 .. (m + n) /\ s[m + k] = o[k]
    <2>1. ASSUME NEW k \in 1 .. n PROVE m + k \in 1 .. (m + n) /\ ~(m + k <= m) /\ (m + k) - m = k
        BY <1>1
    <2>2. ASSUME NEW k \in 1 .. m PROVE k \in 1 .. (m + n) /\ k <= m
        BY <1>1
    <2> QED BY <1>1, <2>1, <2>2
<1>6. Chained(d)
    <2>1. ASSUME NEW i \in 2 .. m PROVE d[i].id[1] = d[i - 1].id[2] /\ d[i].lower = d[i - 1].upper
        <3>1. i \in 2 .. (m + n) /\ i \in 1 .. m /\ i - 1 \in 1 .. m
            BY <1>1
        <3> QED BY <1>2, <1>5, <3>1
    <2> QED BY <2>1 DEF Chained, m
<1>7. Chained(o)
    <2>1. ASSUME NEW i \in 2 .. n PROVE o[i].id[1] = o[i - 1].id[2] /\ o[i].lower = o[i - 1].upper
        <3>1. m + i \in 2 .. (m + n) /\ i \in 1 .. n /\ i - 1 \in 1 .. n /\ (m + i) - 1 = m + (i - 1)
            BY <1>1
        <3>2. s[m + i] = o[i] /\ s[m + (i - 1)] = o[i - 1]
            BY <1>5, <3>1
        <3> QED BY <1>2, <3>1, <3>2
    <2> QED BY <2>1 DEF Chained, n
<1>8. AllRuns(s) = AllRuns(d) \cup AllRuns(o)
    <2>1. ASSUME NEW i \in 1 .. (m + n), NEW r \in s[i].runs PROVE r \in AllRuns(d) \cup AllRuns(o)
        <3>1. CASE i <= m
            <4>1. i \in 1 .. m /\ s[i] = d[i]
                BY <1>1, <3>1
            <4> QED BY <1>3, <4>1
        <3>2. CASE ~(i <= m)
            <4>1. i - m \in 1 .. n /\ s[i] = o[i - m]
                BY <1>1, <3>2
            <4> QED BY <1>3, <4>1
        <3> QED BY <3>1, <3>2
    <2>2. AllRuns(d) \subseteq AllRuns(s)
        BY <1>3, <1>5
    <2>3. AllRuns(o) \subseteq AllRuns(s)
        <3>1. ASSUME NEW r \in AllRuns(o) PROVE r \in AllRuns(s)
            <4>1. PICK i \in 1 .. n : r \in o[i].runs
                BY <1>3
            <4>2. m + i \in 1 .. (m + n) /\ s[m + i] = o[i]
                BY <1>5
            <4> QED BY <1>3, <4>1, <4>2
        <3> QED BY <3>1
    <2> QED BY <1>3, <2>1, <2>2, <2>3
<1>9. AllRuns(d) \cap AllRuns(o) = {}
    <2>1. ASSUME NEW r, r \in AllRuns(d), r \in AllRuns(o) PROVE FALSE
        <3>1. PICK i \in 1 .. m : r \in d[i].runs
            BY <1>3, <2>1
        <3>2. PICK j \in 1 .. n : r \in o[j].runs
            BY <1>3, <2>1
        <3>3. i \in 1 .. (m + n) /\ s[i] = d[i] /\ m + j \in 1 .. (m + n) /\ s[m + j] = o[j] /\ i # m + j
            BY <1>1, <1>5
        <3> QED BY <1>4, <3>1, <3>2, <3>3
    <2> QED BY <2>1
<1> QED BY <1>6, <1>7, <1>8, <1>9 DEF s

(* Having gone through the parts s: some are in chunks, the others open.   *)
AccOK(acc, s, W, T, N, K, X) ==
    \E d, o \in Seq(PartsFor(W, T, N, K, X)) :
      /\ s = d \o o
      /\ acc = [chunks |-> acc.chunks, open |-> o] /\ acc.open = o
      /\ Covering(acc.chunks, AllRuns(d), W, T, N, K)

(* No parts have no runs.                                                  *)
LEMMA NoRuns == AllRuns(<<>>) = {} /\ AllGone(<<>>) = {}
<1>1. <<>> \in Seq({}) /\ Len(<<>>) = 0
    BY EmptySeq
<1>2. 1 .. 0 = {}
    OBVIOUS
<1> DEFINE e == <<>>
<1> HIDE DEF e
<1>3. e \in Seq({}) /\ 1 .. Len(e) = {}
    BY <1>1, <1>2 DEF e
<1>4. AllRuns(e) = {} /\ AllGone(e) = {}
    BY <1>3, AllRunsIs
<1> QED BY <1>4 DEF e

(* Once the open chunk is closed the chunks cover all parts so far.        *)
LEMMA FlushOK ==
    ASSUME NEW W, NEW T, NEW N, NEW K, NEW X, World(W, T, N, K), NEW since \in Nat,
           NEW acc, NEW s, AccOK(acc, s, W, T, N, K, X), Chained(s)
    PROVE  s \in Seq(PartsFor(W, T, N, K, X)) /\ Covering(Flush(acc, since), AllRuns(s), W, T, N, K)
<1> DEFINE PS == PartsFor(W, T, N, K, X)
<1>1. PICK d \in Seq(PS), o \in Seq(PS) :
        s = d \o o /\ acc.open = o /\ Covering(acc.chunks, AllRuns(d), W, T, N, K)
    BY DEF AccOK
<1>2. s \in Seq(PS) /\ Chained(d) /\ Chained(o) /\ AllRuns(s) = AllRuns(d) \cup AllRuns(o) /\ AllRuns(d) \cap AllRuns(o) = {}
    BY <1>1, Pieces, ConcatProperties
<1>3. CASE o = <<>>
    <2>1. Flush(acc, since) = acc.chunks
        BY <1>1, <1>3 DEF Flush
    <2>2. AllRuns(s) = AllRuns(d)
        BY <1>2, <1>3, NoRuns
    <2> QED BY <1>1, <1>2, <2>1, <2>2
<1>4. CASE o # <<>>
    <2> DEFINE c == RangeChunk(o, since)
    <2>1. Flush(acc, since) = Append(acc.chunks, c)
        BY <1>1, <1>4 DEF Flush
    <2>2. Single(c, AllRuns(o), W, T, N, K)
        BY <1>2, <1>4, RangeChunkOK
    <2> HIDE DEF c
    <2>3. Covering(<<c>>, AllRuns(o), W, T, N, K)
        BY <2>2, CoverOne
    <2>4. c \in ChunkType /\ acc.chunks \in Seq(ChunkType)
        BY <1>1, <2>2 DEF Single, ChunkOK, Covering
    <2>5. Append(acc.chunks, c) = acc.chunks \o <<c>>
        BY <2>4, AppendIsConcat
    <2>6. Covering(acc.chunks \o <<c>>, AllRuns(d) \cup AllRuns(o), W, T, N, K)
        BY <1>1, <1>2, <2>3, CoverConcat
    <2> QED BY <1>2, <2>1, <2>5, <2>6
<1> QED BY <1>3, <1>4

(* The runs of one part.                                                   *)
LEMMA AllRunsOne ==
    ASSUME NEW p
    PROVE  AllRuns(<<p>>) = p.runs
<1> DEFINE s == <<p>>
<1>1. s \in Seq({p}) /\ Len(s) = 1 /\ s[1] = p
    OBVIOUS
<1> HIDE DEF s
<1>2. 1 .. Len(s) = {1}
    BY <1>1
<1>3. AllRuns(s) = p.runs
    BY <1>1, <1>2, AllRunsIs
<1> QED BY <1>3 DEF s

(* One step of chunk_runs.                                                 *)
LEMMA AddPartOK ==
    ASSUME NEW W, NEW T, NEW N, NEW K, NEW X, World(W, T, N, K), NEW since \in Nat,
           NEW acc, NEW s, AccOK(acc, s, W, T, N, K, X),
           NEW p \in PartsFor(W, T, N, K, X), Chained(s \o <<p>>)
    PROVE  AccOK(AddPart(acc, p, since), s \o <<p>>, W, T, N, K, X)
<1> DEFINE PS == PartsFor(W, T, N, K, X)
           s2 == s \o <<p>>
           a2 == AddPart(acc, p, since)
           A == [acc EXCEPT !.open = Append(@, p)]
           F == Flush(acc, since)
           B == [chunks |-> F, open |-> <<p>>]
           C == [chunks |-> F \o SplitPart(p, since), open |-> <<>>]
<1>1. a2 = A \/ a2 = B \/ a2 = C
    BY DEF AddPart
<1>2. PICK d \in Seq(PS), o \in Seq(PS) :
        /\ s = d \o o /\ acc = [chunks |-> acc.chunks, open |-> o] /\ acc.open = o
        /\ Covering(acc.chunks, AllRuns(d), W, T, N, K)
    BY DEF AccOK
<1>3. s \in Seq(PS) /\ <<p>> \in Seq(PS) /\ s2 \in Seq(PS) /\ <<>> \in Seq(PS)
    BY <1>2, ConcatProperties
<1>4. Chained(s) /\ AllRuns(s2) = AllRuns(s) \cup p.runs /\ AllRuns(s) \cap p.runs = {}
    <2> DEFINE q == <<p>>
    <2>1. AllRuns(q) = p.runs
        BY AllRunsOne
    <2>2. q \in Seq(PS) /\ Chained(s \o q)
        BY <1>3
    <2> HIDE DEF q
    <2>3. Chained(s) /\ AllRuns(s \o q) = AllRuns(s) \cup AllRuns(q) /\ AllRuns(s) \cap AllRuns(q) = {}
        BY <1>3, <2>2, Pieces
    <2> QED BY <2>1, <2>3 DEF q
<1>5. Covering(F, AllRuns(s), W, T, N, K)
    BY <1>4, FlushOK
<1> HIDE DEF a2, F, s2, PS
<1>6. CASE a2 = A
    <2> DEFINE o2 == Append(o, p)
    <2>1. o2 \in Seq(PS) /\ o2 = o \o <<p>>
        BY AppendProperties, AppendIsConcat DEF PS
    <2>2. s2 = d \o o2
        BY <1>2, <1>3, <2>1, ConcatAssociative DEF s2
    <2> HIDE DEF o2
    <2>3. a2 = [chunks |-> acc.chunks, open |-> o2]
        BY <1>2, <1>6 DEF o2
    <2>4. a2.chunks = acc.chunks /\ a2.open = o2
        BY <2>3
    <2>5. a2 = [chunks |-> a2.chunks, open |-> o2]
        BY <2>3, <2>4
    <2>6. AccOK(a2, s2, W, T, N, K, X)
        BY <1>2, <2>1, <2>2, <2>4, <2>5 DEF AccOK, PS
    <2> QED BY <2>6 DEF a2, s2
<1>7. CASE a2 = B
    <2>1. a2.chunks = F /\ a2.open = <<p>> /\ a2 = [chunks |-> a2.chunks, open |-> <<p>>]
        BY <1>7
    <2>2. s2 = s \o <<p>>
        BY DEF s2
    <2>3. AccOK(a2, s2, W, T, N, K, X)
        BY <1>3, <1>5, <2>1, <2>2 DEF AccOK, PS
    <2> QED BY <2>3 DEF a2, s2
<1>8. CASE a2 = C
    <2> DEFINE D == F \o SplitPart(p, since)
    <2>1. a2.chunks = D /\ a2.open = <<>> /\ a2 = [chunks |-> a2.chunks, open |-> <<>>]
        BY <1>8
    <2>2. Covering(SplitPart(p, since), p.runs, W, T, N, K)
        BY SplitPartOK
    <2>3. Covering(D, AllRuns(s2), W, T, N, K)
        BY <1>4, <1>5, <2>2, CoverConcat
    <2>4. s2 = s2 \o <<>>
        BY <1>3, ConcatEmptySeq
    <2> HIDE DEF D
    <2>5. AccOK(a2, s2, W, T, N, K, X)
        BY <1>3, <2>1, <2>3, <2>4 DEF AccOK, PS
    <2> QED BY <2>5 DEF a2, s2
<1> QED BY <1>1, <1>6, <1>7, <1>8

Prefix(s, i) == SubSeq(s, 1, i)

(* A chain, part by part.                                                  *)
LEMMA PrefixChain ==
    ASSUME NEW W, NEW T, NEW N, NEW K, NEW X, World(W, T, N, K),
           NEW s \in Seq(PartsFor(W, T, N, K, X)), Chained(s)
    PROVE  /\ Prefix(s, 0) = <<>> /\ Prefix(s, Len(s)) = s
           /\ \A i \in 1 .. Len(s) : Prefix(s, i) = Prefix(s, i - 1) \o <<s[i]>> /\ Chained(Prefix(s, i))
<1> DEFINE PS == PartsFor(W, T, N, K, X)
           n == Len(s)
<1>1. n \in Nat /\ \A i \in 1 .. n : s[i] \in PS
    OBVIOUS
<1>2. Prefix(s, 0) = <<>>
    BY SubSeqEmpty DEF Prefix
<1>3. Prefix(s, n) = s
    BY SubSeqFull DEF Prefix
<1>4. ASSUME NEW i \in 1 .. n PROVE Prefix(s, i) = Prefix(s, i - 1) \o <<s[i]>>
    <2>1. 1 \in 1 .. n /\ i \in 1 .. n
        BY <1>1
    <2> QED BY <1>1, <2>1, SubSeqRecursiveSecond DEF Prefix
<1>5. ASSUME NEW i \in 1 .. n PROVE Chained(Prefix(s, i))
    <2> DEFINE d == Prefix(s, i)
               o == SubSeq(s, i + 1, n)
    <2>1. d \in Seq(PS)
        <3>1. \A j \in 1 .. i : s[j] \in PS
            BY <1>1
        <3> QED BY <1>1, <3>1, SubSeqProperties DEF Prefix
    <2>2. o \in Seq(PS)
        <3>1. \A j \in (i + 1) .. n : s[j] \in PS
            BY <1>1
        <3> QED BY <1>1, <3>1, SubSeqProperties
    <2>3. d \o o = Prefix(s, n)
        <3>1. 1 \in 1 .. n + 1 /\ i \in 1 - 1 .. n /\ n \in i .. n
            BY <1>1
        <3> QED BY <3>1, ConcatAdjacentSubSeq DEF Prefix
    <2> HIDE DEF d, o
    <2>4. Chained(d \o o)
        BY <1>3, <2>3
    <2>5. Chained(d)
        BY <2>1, <2>2, <2>4, Pieces
    <2> QED BY <2>5 DEF d
<1> QED BY <1>2, <1>3, <1>4, <1>5

(* The chunks of a chain of parts hold each of its runs once.              *)
LEMMA ChunkRunsOK ==
    ASSUME NEW W, NEW T, NEW N, NEW K, NEW X, World(W, T, N, K), NEW since \in Nat,
           NEW s \in Seq(PartsFor(W, T, N, K, X)), Chained(s)
    PROVE  Covering(ChunkRuns(s, since), AllRuns(s), W, T, N, K)
<1> DEFINE n == Len(s)
           PS == PartsFor(W, T, N, K, X)
           AX == [chunks : Seq(ChunkType), open : Seq(PS)]
           t == [chunks |-> <<>>, open |-> <<>>]
           V(v, i) == AddPart(v, s[i], since)
           F == [p \in (1 .. n) \X AX |-> IF V(p[2], p[1]) \in AX THEN V(p[2], p[1]) ELSE p[2]]
           E(h) == h = [i \in 0 .. n |-> IF i = 0 THEN [chunks |-> <<>>, open |-> <<>>]
                          ELSE The({AddPart(acc, s[i], since) : acc \in {h[i - 1]}})]
           I(v, i) == AccOK(v, Prefix(s, i), W, T, N, K, X)
<1>1. t \in AX /\ n \in Nat
    <2>1. <<>> \in Seq(ChunkType) /\ <<>> \in Seq(PS)
        BY EmptySeq
    <2> HIDE DEF PS
    <2> QED BY <2>1
<1>2. I(t, 0)
    <2> DEFINE e == <<>>
    <2>1. e \in Seq(PS) /\ Covering(e, {}, W, T, N, K) /\ AllRuns(e) = {} /\ Prefix(s, 0) = e
        BY CoverNone, NoRuns, PrefixChain, EmptySeq
    <2>2. t = [chunks |-> e, open |-> e]
        OBVIOUS
    <2> HIDE DEF e
    <2>3. e = e \o e
        BY <2>1, ConcatEmptySeq DEF e
    <2>4. t.chunks = e /\ t.open = e
        BY <2>2
    <2> HIDE DEF t
    <2> QED BY <2>1, <2>2, <2>3, <2>4 DEF AccOK
<1>3. ASSUME NEW i \in 1 .. n, NEW v, I(v, i - 1) PROVE I(V(v, i), i)
    <2>1. s[i] \in PS
        BY ElementOfSeq
    <2>2. Prefix(s, i) = Prefix(s, i - 1) \o <<s[i]>> /\ Chained(Prefix(s, i))
        BY PrefixChain
    <2> DEFINE u == Prefix(s, i - 1)
               p == s[i]
    <2>3. AccOK(v, u, W, T, N, K, X) /\ Chained(u \o <<p>>) /\ p \in PS
        BY <1>3, <2>1, <2>2
    <2> HIDE DEF u, p
    <2>4. AccOK(AddPart(v, p, since), u \o <<p>>, W, T, N, K, X)
        BY <2>3, AddPartOK
    <2> QED BY <2>2, <2>4 DEF u, p
<1>4. ASSUME NEW v, NEW i, I(v, i) PROVE v \in AX
    <2>1. PICK o \in Seq(PS) : v = [chunks |-> v.chunks, open |-> o] /\ v.chunks \in Seq(ChunkType)
        BY <1>4 DEF AccOK, Covering
    <2> HIDE DEF PS
    <2> QED BY <2>1
<1> HIDE DEF I, V, n, AX, t
<1>5. F \in [(1 .. n) \X AX -> AX]
    OBVIOUS
<1>6. PICK g : g \in [0 .. n -> AX] /\ Unfolds(g, n, t, F)
    BY <1>1, <1>5, RecursionUpTo
<1>7. \A i \in 1 .. n : g[i - 1] \in AX
    BY <1>1, <1>6
<1>8. ASSUME NEW i \in 1 .. n
      PROVE  g[i] = IF V(g[i - 1], i) \in AX THEN V(g[i - 1], i) ELSE g[i - 1]
    <2>1. g[i] = F[<<i, g[i - 1]>>]
        BY <1>6 DEF Unfolds
    <2>2. <<i, g[i - 1]>> \in (1 .. n) \X AX
        BY <1>7
    <2> QED BY <2>1, <2>2
<1>9. g[0] = t
    BY <1>6 DEF Unfolds
<1> HIDE DEF F
<1> DEFINE S == {i \in 0 .. n : I(g[i], i) /\ (i > 0 => g[i] = V(g[i - 1], i))}
<1>10. 0 \in S
    BY <1>1, <1>2, <1>9
<1>11. ASSUME NEW i \in 1 .. n, i - 1 \in S PROVE i \in S
    <2>1. I(V(g[i - 1], i), i)
        BY <1>3, <1>11
    <2>2. g[i] = V(g[i - 1], i)
        BY <1>4, <1>8, <2>1
    <2>3. i \in 0 .. n
        BY <1>1
    <2> QED BY <2>1, <2>2, <2>3
<1> HIDE DEF S
<1>12. 0 .. n \subseteq S
    BY <1>1, <1>10, <1>11, InductionUpTo
<1>13. \A i \in 0 .. n : I(g[i], i) /\ (i > 0 => g[i] = V(g[i - 1], i))
    BY <1>12 DEF S
<1>14. \A x, i : The({AddPart(acc, s[i], since) : acc \in {x}}) = V(x, i)
    <2> TAKE x, i
    <2> DEFINE Q == {AddPart(acc, s[i], since) : acc \in {x}}
    <2>1. Q = {V(x, i)}
        BY DEF V
    <2> HIDE DEF Q
    <2>2. The(Q) = V(x, i)
        BY <2>1, TheOf
    <2> QED BY <2>2 DEF Q
<1>15. E(g)
    <2>1. ASSUME NEW i \in 0 .. n
          PROVE  g[i] = IF i = 0 THEN t ELSE The({AddPart(acc, s[i], since) : acc \in {g[i - 1]}})
        <3>1. CASE i = 0
            BY <1>9, <3>1
        <3>2. CASE i # 0
            <4>1. i > 0
                BY <1>1, <3>2
            <4>2. g[i] = V(g[i - 1], i)
                BY <1>13, <4>1
            <4>3. The({AddPart(acc, s[i], since) : acc \in {g[i - 1]}}) = V(g[i - 1], i)
                BY <1>14
            <4> QED BY <3>2, <4>2, <4>3
        <3> QED BY <3>1, <3>2
    <2>2. g = [i \in 0 .. n |-> g[i]]
        BY <1>6
    <2> QED BY <2>1, <2>2 DEF t
<1> HIDE DEF E
<1>16. E(CHOOSE h : E(h))
    BY <1>15
<1>17. PICK h : E(h) /\ ChunkRuns(s, since) = Flush(h[n], since)
    BY <1>16, Zenon DEF ChunkRuns, E, n
<1>18. h = [i \in 0 .. n |-> IF i = 0 THEN t
                             ELSE The({AddPart(acc, s[i], since) : acc \in {h[i - 1]}})]
    BY <1>17 DEF E, t
<1>19. h[0] = t
    BY <1>1, <1>18
<1>20. ASSUME NEW i \in 1 .. n PROVE h[i] = V(h[i - 1], i)
    <2>1. i \in 0 .. n /\ i # 0
        BY <1>1
    <2>2. h[i] = The({AddPart(acc, s[i], since) : acc \in {h[i - 1]}})
        BY <1>18, <2>1
    <2>3. The({AddPart(acc, s[i], since) : acc \in {h[i - 1]}}) = V(h[i - 1], i)
        BY <1>14
    <2> QED BY <2>2, <2>3
<1>21. \A i \in 0 .. n : h[i] = g[i]
    <2>1. ASSUME NEW i \in 1 .. n, h[i - 1] = g[i - 1] PROVE h[i] = g[i]
        <3>1. i \in 0 .. n /\ i > 0
            BY <1>1
        <3>2. g[i] = V(g[i - 1], i)
            BY <1>13, <3>1
        <3>3. h[i] = V(h[i - 1], i)
            BY <1>20
        <3> QED BY <2>1, <3>2, <3>3
    <2>2. h[0] = g[0]
        BY <1>9, <1>19
    <2> QED BY <1>1, <2>1, <2>2, RecursionUnique, SMTT(40)
<1>22. I(h[n], n)
    <2>1. n \in 0 .. n
        BY <1>1
    <2> QED BY <1>13, <1>21, <2>1
<1>23. AccOK(h[n], s, W, T, N, K, X)
    BY <1>22, PrefixChain DEF I, n
<1>24. Covering(Flush(h[n], since), AllRuns(s), W, T, N, K)
    BY <1>23, FlushOK
<1> QED BY <1>17, <1>24

-----------------------------------------------------------------------------
(* Requests and jobs.                                                      *)

(* A request for a chain of parts of the state.                            *)
ReqFor(r, W, T, N, K, X) ==
    /\ r.inputs \in Seq(PartsFor(W, T, N, K, X)) /\ r.inputs # <<>> /\ Chained(r.inputs)
    /\ r.since \in Nat /\ r.lower = r.inputs[1].lower /\ r.upper = r.inputs[Len(r.inputs)].upper
    /\ r.lower < r.upper

(* What a merge asks for is a chain of parts of the state, within the      *)
(* bounds of the request.                                                  *)
LEMMA ReqsAreFor ==
    ASSUME NEW W, NEW T, NEW N, NEW K, NEW X, World(W, T, N, K),
           NEW r \in ReqsOf(BatchesOf(PartsFor(W, T, N, K, X), T))
    PROVE  ReqFor(r, W, T, N, K, X)
<1> DEFINE PS == PartsFor(W, T, N, K, X)
<1>1. GoodParts(PS, T)
    BY PartsAreGood
<1> HIDE DEF PS
<1>2. PICK b \in BatchesOf(PS, T) : b.lower < b.upper /\ r = MergeReq(b)
    BY DEF ReqsOf, PS
<1>3. /\ b \in Batch /\ b.parts \in Seq(PS) /\ b.parts # <<>> /\ Chained(b.parts)
      /\ b.lower = b.parts[1].lower /\ b.upper = b.parts[Len(b.parts)].upper
    BY <1>1, BatchOKFields
<1>4. r.inputs = b.parts /\ r.since = b.since /\ r.lower = b.lower /\ r.upper = b.upper
    BY <1>2 DEF MergeReq
<1>5. b.since \in Nat
    BY <1>3, BatchFields
<1> QED BY <1>2, <1>3, <1>4, <1>5 DEF ReqFor, PS

(* The one chunk of compact_all accounts for what was written in the range *)
(* of the request.                                                         *)
LEMMA LegacyChunkOK ==
    ASSUME NEW W, NEW T, NEW N, NEW K, NEW X, World(W, T, N, K),
           NEW r, ReqFor(r, W, T, N, K, X)
    PROVE  ChunkOK(LegacyChunk(r), W, T, N, K)
<1> DEFINE PS == PartsFor(W, T, N, K, X)
           s == r.inputs
           m == Len(s)
           chs == ChunkRuns(s, r.since)
           n == Len(chs)
           g == [k \in 1 .. n |-> chs[k].groups[1]]
           G == AllGone(s)
           c == LegacyChunk(r)
<1>1. /\ s \in Seq(PS) /\ s # <<>> /\ Chained(s) /\ r.since \in Nat
      /\ r.lower = s[1].lower /\ r.upper = s[m].upper /\ r.lower < r.upper
    BY DEF ReqFor
<1>2. Covering(chs, AllRuns(s), W, T, N, K)
    BY <1>1, ChunkRunsOK
<1>3. Body(AllRuns(s), G, K) /\ Held(AllRuns(s), G) = In(W, T, s[1].lower, s[m].upper)
    BY <1>1, ChainHeld
<1>4. m \in Nat /\ 1 \in 1 .. m /\ m \in 1 .. m
    BY <1>1
<1>5. s[1] \in PS /\ s[m] \in PS
    BY <1>1, <1>4
<1>6. r.lower \in Nat /\ r.upper \in Nat /\ r.upper <= T[N]
    <2>1. s[1].lower \in Nat /\ s[m].upper \in Nat /\ s[m].upper = T[s[m].id[2]] /\ s[m].id[2] \in Nat /\ s[m].id[2] <= N
        BY <1>5, PartForFields
    <2>2. T[s[m].id[2]] <= T[N]
        BY <2>1 DEF World, Times
    <2> QED BY <1>1, <2>1, <2>2
<1>7. c = [input |-> Legacy, lower |-> r.lower, upper |-> r.upper, since |-> r.since, groups |-> g, gone |-> G]
    BY DEF LegacyChunk, AllGone
<1> HIDE DEF c, chs, n, s, m, PS, G
<1>8. /\ chs \in Seq(ChunkType) /\ n \in Nat
      /\ \A k \in 1 .. n : ChunkOK(chs[k], W, T, N, K) /\ Len(chs[k].groups) = 1
      /\ \A k, l \in 1 .. n : k # l => chs[k].groups[1] \cap chs[l].groups[1] = {}
      /\ \A x : x \in AllRuns(s) <=> \E k \in 1 .. n : x \in chs[k].groups[1]
    BY <1>2 DEF Covering, n
<1>9. ASSUME NEW k \in 1 .. n PROVE chs[k].groups[1] \in SUBSET Run
    <2>1. ChunkOK(chs[k], W, T, N, K) /\ Len(chs[k].groups) = 1
        BY <1>8
    <2>2. chs[k].groups \in Seq(SUBSET Run)
        BY <2>1 DEF ChunkOK, ChunkType
    <2>3. 1 \in 1 .. Len(chs[k].groups)
        BY <2>1
    <2> QED BY <2>2, <2>3, ElementOfSeq
<1>10. g \in Seq(SUBSET Run) /\ Len(g) = n /\ \A k \in 1 .. n : g[k] = chs[k].groups[1]
    BY <1>8, <1>9
<1> HIDE DEF g
<1>11. /\ c.input = Legacy /\ c.lower = r.lower /\ c.upper = r.upper /\ c.since = r.since
       /\ c.groups = g /\ c.gone = G
    BY <1>7
<1>12. Grouped(c) = AllRuns(s)
    <2>1. \A x : x \in Grouped(c) <=> \E k \in 1 .. Len(c.groups) : x \in c.groups[k]
        BY <1>10, <1>11, GroupedIs
    <2>2. \A x : x \in Grouped(c) <=> \E k \in 1 .. n : x \in chs[k].groups[1]
        BY <1>10, <1>11, <2>1
    <2>3. \A x : x \in Grouped(c) <=> x \in AllRuns(s)
        BY <1>8, <2>2
    <2> QED BY <2>3
<1>13. c \in ChunkType
    <2>1. Legacy \in Input /\ G \in SUBSET RunId
        BY <1>3 DEF Input, Body
    <2> HIDE DEF Input
    <2> QED BY <1>1, <1>6, <1>7, <1>10, <2>1 DEF ChunkType
<1>14. Fulfils(c.input, c.lower, c.upper, Held(Grouped(c), c.gone), W, T, N, K)
    <2>1. Legacy.kind = "Legacy"
        BY DEF Legacy
    <2> QED BY <1>1, <1>3, <1>6, <1>11, <1>12, <2>1 DEF Fulfils
<1>15. \A k, l \in 1 .. Len(c.groups) : k # l => c.groups[k] \cap c.groups[l] = {}
    BY <1>8, <1>10, <1>11
<1>16. Body(Grouped(c), c.gone, K)
    BY <1>3, <1>11, <1>12
<1> QED BY <1>13, <1>14, <1>15, <1>16 DEF ChunkOK, c

(* The chunks of a new compaction.                                         *)
ChunksOK(chs, W, T, N, K) ==
    /\ chs \in Seq(ChunkType)
    /\ \A k \in 1 .. Len(chs) : ChunkOK(chs[k], W, T, N, K)

(* A compaction that is taken up has good chunks.                          *)
LEMMA NewJobOK ==
    ASSUME NEW W, NEW T, NEW N, NEW K, NEW X, World(W, T, N, K),
           NEW r, ReqFor(r, W, T, N, K, X), NEW mode
    PROVE  /\ ChunksOK(NewJob(r, mode).chunks, W, T, N, K)
           /\ NewJob(r, mode) = [chunks |-> NewJob(r, mode).chunks, out |-> <<>>, ever |-> FALSE]
<1> DEFINE chs == IF mode = "legacy" THEN <<LegacyChunk(r)>> ELSE ChunkRuns(r.inputs, r.since)
<1>1. NewJob(r, mode) = [chunks |-> chs, out |-> <<>>, ever |-> FALSE]
    BY DEF NewJob
<1>2. ChunksOK(chs, W, T, N, K)
    <2>1. CASE mode = "legacy"
        <3> DEFINE c == LegacyChunk(r)
                   s == <<c>>
        <3>1. ChunkOK(c, W, T, N, K)
            BY LegacyChunkOK
        <3> HIDE DEF c
        <3>2. c \in ChunkType
            BY <3>1 DEF ChunkOK
        <3>3. s \in Seq(ChunkType) /\ Len(s) = 1 /\ s[1] = c
            BY <3>2
        <3> HIDE DEF s
        <3>4. 1 .. Len(s) = {1}
            BY <3>3
        <3>5. ChunksOK(s, W, T, N, K)
            BY <3>1, <3>3, <3>4 DEF ChunksOK
        <3> QED BY <2>1, <3>5 DEF s, c
    <2>2. CASE mode # "legacy"
        <3>1. Covering(ChunkRuns(r.inputs, r.since), AllRuns(r.inputs), W, T, N, K)
            BY ChunkRunsOK DEF ReqFor
        <3>2. chs = ChunkRuns(r.inputs, r.since)
            BY <2>2
        <3> HIDE DEF chs
        <3> QED BY <3>1, <3>2 DEF Covering, ChunksOK
    <2> QED BY <2>1, <2>2
<1> HIDE DEF chs
<1>3. NewJob(r, mode).chunks = chs
    BY <1>1
<1> QED BY <1>1, <1>2, <1>3

-----------------------------------------------------------------------------
(* What compact_runs writes.                                               *)

(* Output, with its parts named.                                           *)
OutLen(c, keep, k) ==
    CASE keep[k] = "all"  -> RunsLen(c.groups[k])
      [] keep[k] = "one"  -> Min({1, RunsLen(c.groups[k])})
      [] keep[k] = "none" -> 0

OutRun(c, keep, name, k) ==
    [id |-> <<name[1], name[2], k>>, len |-> OutLen(c, keep, k), of |-> Of(c.groups[k])]

(* Output, spelt out.                                                      *)
LEMMA OutputIs ==
    ASSUME NEW c, NEW keep, NEW name
    PROVE  LET some == {k \in 1 .. Len(c.groups) : OutLen(c, keep, k) > 0}
           IN Output(c, keep, name) =
                [lower |-> c.lower, upper |-> c.upper, since |-> c.since,
                 runs |-> {OutRun(c, keep, name, k) : k \in some},
                 gone |-> c.gone \cup UNION {Of(c.groups[k]) : k \in (1 .. Len(c.groups)) \ some}]
BY DEF Output, OutLen, OutRun, Of

(* Finitely many elements.                                                 *)
LEMMA FiniteImage ==
    ASSUME NEW n \in Nat, NEW S \in SUBSET (1 .. n), NEW f, DOMAIN f = S
    PROVE  IsFiniteSet({f[k] : k \in S})
<1>1. IsFiniteSet(1 .. n)
    BY FS_Interval
<1>2. IsFiniteSet(S)
    BY <1>1, FS_Subset
<1> DEFINE R == {f[k] : k \in S}
           g == [k \in S |-> f[k]]
<1>3. g \in Surjection(S, R)
    BY DEF Surjection
<1> HIDE DEF g, R
<1>4. IsFiniteSet(R)
    BY <1>2, <1>3, FS_Surjection
<1> QED BY <1>4 DEF R

(* A run of the output that has updates is made from runs.                 *)
LEMMA OutLenIs ==
    ASSUME NEW W, NEW T, NEW N, NEW K, World(W, T, N, K), NEW c, ChunkOK(c, W, T, N, K),
           NEW k \in 1 .. Len(c.groups), NEW keep \in Keeps(c)
    PROVE  OutLen(c, keep, k) \in Nat /\ (OutLen(c, keep, k) > 0 => c.groups[k] # {})
<1> DEFINE g == c.groups[k]
<1>1. c.groups \in Seq(SUBSET Run) /\ Body(Grouped(c), c.gone, K)
    BY DEF ChunkOK, ChunkType
<1>2. g \subseteq Grouped(c)
    BY <1>1, GroupedIs
<1>3. g \in SUBSET K /\ IsFiniteSet(g)
    BY <1>1, <1>2, FS_Subset DEF Body
<1> HIDE DEF g
<1>4. RunsLen(g) \in Nat /\ (RunsLen(g) = 0 <=> g = {})
    BY <1>3, KnownRuns
<1>5. Min({1, RunsLen(g)}) = IF 1 <= RunsLen(g) THEN 1 ELSE RunsLen(g)
    BY <1>4, MinOfTwo
<1>6. OutLen(c, keep, k) \in {RunsLen(g), Min({1, RunsLen(g)}), 0}
    BY DEF OutLen, Keeps, g
<1>7. OutLen(c, keep, k) \in Nat /\ (OutLen(c, keep, k) > 0 => g # {})
    BY <1>4, <1>5, <1>6
<1> QED BY <1>7 DEF g

(* What is written for a chunk holds what the chunk held.                  *)
Named(runs, j, m) == \A r \in runs : r.id[1] = j /\ r.id[2] = m

Fresh(o, name, K) ==
    /\ o.runs \subseteq Run /\ \A r \in o.runs : r.len > 0 /\ r.of # {}
    /\ \A r, q \in o.runs : r.id = q.id => r = q
    /\ Named(o.runs, name[1], name[2])

(* compact_runs: what cancels out is gone, the rest is in a run with a new *)
(* name.                                                                   *)
LEMMA OutputOK ==
    ASSUME NEW W, NEW T, NEW N, NEW K, World(W, T, N, K), NEW c, ChunkOK(c, W, T, N, K),
           NEW keep \in Keeps(c), NEW name, name[1] \in Nat, name[2] \in Nat,
           NEW o, o = Output(c, keep, name)
    PROVE  /\ o \in OutType /\ o.lower = c.lower /\ o.upper = c.upper
           /\ Fresh(o, name, K)
           /\ Body(o.runs, o.gone, o.runs)
           /\ Held(o.runs, o.gone) = Held(Grouped(c), c.gone)
<1> DEFINE n == Len(c.groups)
           some == {k \in 1 .. n : OutLen(c, keep, k) > 0}
           none == (1 .. n) \ some
           OR(k) == OutRun(c, keep, name, k)
           O(k) == Of(c.groups[k])
           R == {OR(k) : k \in some}
           G == c.gone \cup UNION {O(k) : k \in none}
<1>1. c \in ChunkType /\ c.groups \in Seq(SUBSET Run) /\ n \in Nat /\ c.gone \in SUBSET RunId
    BY DEF ChunkOK, ChunkType
<1>2. /\ \A k, l \in 1 .. n : k # l => c.groups[k] \cap c.groups[l] = {}
      /\ Grouped(c) \subseteq K /\ Apart(Grouped(c), c.gone)
    BY DEF ChunkOK, Body
<1>3. \A r : r \in Grouped(c) <=> \E k \in 1 .. n : r \in c.groups[k]
    BY <1>1, GroupedIs
<1>4. o = [lower |-> c.lower, upper |-> c.upper, since |-> c.since, runs |-> R, gone |-> G]
    BY OutputIs
<1>5. \A k \in 1 .. n : OutLen(c, keep, k) \in Nat /\ (OutLen(c, keep, k) > 0 => c.groups[k] # {})
    BY OutLenIs
<1>6. \A k \in 1 .. n : c.groups[k] \subseteq K /\ c.groups[k] \subseteq Run
    BY <1>2, <1>3 DEF World
<1>7. \A k \in 1 .. n : O(k) \subseteq RunId
    BY <1>6 DEF Of, Run
<1>8. \A k, l \in 1 .. n : k # l => O(k) \cap O(l) = {}
    <2>1. ASSUME NEW k \in 1 .. n, NEW l \in 1 .. n, k # l, NEW w, w \in O(k), w \in O(l) PROVE FALSE
        <3>1. PICK r \in c.groups[k] : w \in r.of
            BY <2>1 DEF Of
        <3>2. PICK q \in c.groups[l] : w \in q.of
            BY <2>1 DEF Of
        <3>3. r # q /\ r \in Grouped(c) /\ q \in Grouped(c)
            BY <1>2, <1>3, <2>1
        <3> QED BY <1>2, <3>1, <3>2, <3>3 DEF Apart
    <2> QED BY <2>1
<1>9. \A k \in 1 .. n : O(k) \cap c.gone = {}
    BY <1>2, <1>3 DEF Apart, Of
<1>10. \A k \in some : O(k) # {}
    <2>1. ASSUME NEW k \in some PROVE O(k) # {}
        <3>1. PICK r \in c.groups[k] : TRUE
            BY <1>5
        <3>2. r.of # {}
            BY <1>6, <3>1 DEF World
        <3> QED BY <3>1, <3>2 DEF Of
    <2> QED BY <2>1
<1>11. some \subseteq 1 .. n /\ none \subseteq 1 .. n /\ 1 .. n = some \cup none /\ some \cap none = {}
    OBVIOUS
<1>12. \A k \in some : OutLen(c, keep, k) > 0 /\ OutLen(c, keep, k) \in Nat
    BY <1>5
<1> HIDE DEF n, some, none, O
<1>13. ASSUME NEW k \in some
       PROVE  /\ OR(k) \in Run /\ OR(k).len > 0 /\ OR(k).of = O(k)
              /\ OR(k).id[1] = name[1] /\ OR(k).id[2] = name[2] /\ OR(k).id[3] = k
    <2>1. k \in Nat
        BY <1>1, <1>11
    <2>2. O(k) \in SUBSET RunId /\ OutLen(c, keep, k) \in Nat /\ OutLen(c, keep, k) > 0
        BY <1>7, <1>11, <1>12
    <2>3. OR(k) = [id |-> <<name[1], name[2], k>>, len |-> OutLen(c, keep, k), of |-> O(k)]
        BY DEF OutRun, O
    <2> HIDE DEF OR
    <2> QED BY <2>1, <2>2, <2>3 DEF Run, RunId
<1> DEFINE f == [k \in some |-> OR(k)]
<1>14. R = {f[k] : k \in some} /\ DOMAIN f = some
    OBVIOUS
<1> HIDE DEF f, OR
<1>15. IsFiniteSet(R)
    <2>1. IsFiniteSet({f[k] : k \in some})
        <3>1. n \in Nat
            BY <1>1
        <3>2. some \in SUBSET (1 .. n)
            BY <1>11
        <3>3. DOMAIN f = some
            BY <1>14
        <3> QED BY <3>1, <3>2, <3>3, FiniteImage
    <2> QED BY <1>14, <2>1
<1>16. \A r \in R : \E k \in some : r = OR(k)
    OBVIOUS
<1>17. \A k \in some : OR(k) \in R
    OBVIOUS
<1>18. /\ G = c.gone \cup UNION {O(k) : k \in none}
    OBVIOUS
<1>19. \A w : w \in G <=> w \in c.gone \/ \E k \in none : w \in O(k)
    OBVIOUS
<1> HIDE DEF R, G
<1>20. R \subseteq Run /\ \A r \in R : r.len > 0 /\ r.of # {}
    BY <1>10, <1>13, <1>16
<1>21. \A r, q \in R : r.id = q.id => r = q
    BY <1>13, <1>16
<1>22. Named(R, name[1], name[2])
    BY <1>13, <1>16 DEF Named
<1>23. G \in SUBSET RunId
    BY <1>1, <1>7, <1>11, <1>19
<1>24. Apart(R, G)
    <2>1. ASSUME NEW r \in R, NEW w, w \in r.of, w \in G PROVE FALSE
        <3>1. PICK k \in some : r = OR(k)
            BY <1>16
        <3>2. w \in O(k) /\ k \in 1 .. n
            BY <1>11, <1>13, <2>1, <3>1
        <3>3. w \notin c.gone
            BY <1>9, <3>2
        <3>4. PICK l \in none : w \in O(l)
            BY <1>19, <2>1, <3>3
        <3>5. k # l /\ l \in 1 .. n
            BY <1>11, <3>1, <3>4
        <3> QED BY <1>8, <3>2, <3>4, <3>5
    <2>2. ASSUME NEW r \in R, NEW q \in R, r # q PROVE r.of \cap q.of = {}
        <3>1. PICK k \in some : r = OR(k)
            BY <1>16
        <3>2. PICK l \in some : q = OR(l)
            BY <1>16
        <3>3. k # l /\ k \in 1 .. n /\ l \in 1 .. n
            BY <1>11, <2>2, <3>1, <3>2
        <3> QED BY <1>8, <1>13, <3>1, <3>2, <3>3
    <2> QED BY <2>1, <2>2 DEF Apart
<1>25. Held(R, G) = Held(Grouped(c), c.gone)
    <2>1. \A w : w \in Held(R, G) <=> w \in c.gone \/ \E k \in 1 .. n : w \in O(k)
        <3>1. \A w : w \in Held(R, G) <=> w \in G \/ \E r \in R : w \in r.of
            BY DEF Held
        <3>2. \A w : (\E r \in R : w \in r.of) <=> \E k \in some : w \in O(k)
            BY <1>13, <1>16, <1>17
        <3> QED BY <1>11, <1>19, <3>1, <3>2
    <2>2. \A w : w \in Held(Grouped(c), c.gone) <=> w \in c.gone \/ \E k \in 1 .. n : w \in O(k)
        <3>1. \A w : w \in Held(Grouped(c), c.gone) <=> w \in c.gone \/ \E r \in Grouped(c) : w \in r.of
            BY DEF Held
        <3>2. \A w : (\E r \in Grouped(c) : w \in r.of) <=> \E k \in 1 .. n : w \in O(k)
            BY <1>3 DEF O, Of
        <3> QED BY <3>1, <3>2
    <2> QED BY <2>1, <2>2
<1>26. o.runs = R /\ o.gone = G /\ o.lower = c.lower /\ o.upper = c.upper
    BY <1>4
<1>27. o \in OutType
    BY <1>1, <1>4, <1>20, <1>23 DEF OutType, ChunkType
<1>28. Body(o.runs, o.gone, o.runs)
    BY <1>15, <1>23, <1>24, <1>26 DEF Body
<1>29. Fresh(o, name, K)
    BY <1>20, <1>21, <1>22, <1>26 DEF Fresh
<1> QED BY <1>25, <1>26, <1>27, <1>28, <1>29

-----------------------------------------------------------------------------
(* The inductive invariant, and jobs that are taken up.                    *)

ResType == [input : Input, output : OutType]
Job     == [chunks : Seq(ChunkType), out : Seq(ResType), ever : BOOLEAN]

(* An output to retry with is in the state if it was ever applied; until   *)
(* then its runs are among those to avoid.                                 *)
RetryOK(res, job, j, W, T, N, K, X) ==
    /\ res \in ResType /\ job.chunks # <<>>
    /\ OutOK(res, W, T, N, K) /\ Named(res.output.runs, j, Len(job.chunks))
    /\ IF job.ever THEN Avoids(res.output.runs, X) ELSE Ids(res.output.runs) \subseteq X

(* A job: what is left to do, and perhaps an output to retry with.         *)
JobOK(job, j, W, T, N, K, X) ==
    /\ job \in Job
    /\ ChunksOK(job.chunks, W, T, N, K)
    /\ job.out = <<>> \/ \E res : job.out = <<res>> /\ RetryOK(res, job, j, W, T, N, K, X)

JobsOK(js, W, T, N, K, X) ==
    /\ js \in Seq(Job)
    /\ \A j \in 1 .. Len(js) : JobOK(js[j], j, W, T, N, K, X)

(* A run is named after the id it was written with, or after the job and   *)
(* chunk it was made for, whose turn has come; one that is deleted after a *)
(* chunk that is done.                                                     *)
Known(K, js, N) ==
    \A r \in K : \/ r.id[1] = 0 /\ r.id[2] < N
                 \/ /\ r.id[1] \in 1 .. Len(js) /\ Len(js[r.id[1]].chunks) <= r.id[2]
                    /\ r.id[2] = Len(js[r.id[1]].chunks) => js[r.id[1]].out # <<>>

(* Runs are deleted only when their chunk is done.                         *)
Past(del, js) ==
    \A x \in del : x[1] \in 1 .. Len(js) /\ Len(js[x[1]].chunks) < x[2]

(* The state, with T, the times of ids, K, the runs named so far, and X,   *)
(* the ids that must stay out of the spine: those deleted and those which  *)
(* a retry may still bring in or delete.                                   *)
StateOK(t, W, js, del, T, K, X) ==
    /\ World(W, T, t.nextId, K) /\ T[t.nextId] = t.upper
    /\ Spined(t, t.nextId, PartsFor(W, T, t.nextId, K, X), T)
    /\ JobsOK(js, W, T, t.nextId, K, X)
    /\ X \subseteq Ids(K) /\ del \subseteq X
    /\ Known(K, js, t.nextId) /\ Past(del, js)

(* The fields of a job.                                                    *)
LEMMA JobFields ==
    ASSUME NEW job \in Job
    PROVE  /\ job.chunks \in Seq(ChunkType) /\ Len(job.chunks) \in Nat /\ job.ever \in BOOLEAN
           /\ job.out \in Seq(ResType)
           /\ job = [chunks |-> job.chunks, out |-> job.out, ever |-> job.ever]
BY DEF Job

(* Chunks stay right.                                                      *)
LEMMA ChunksGrow ==
    ASSUME NEW W, NEW T, NEW N, NEW K, NEW X, World(W, T, N, K),
           NEW W2, NEW T2, NEW N2, NEW K2, NEW X2, World(W2, T2, N2, K2),
           Grows(W, T, N, K, X, W2, T2, N2, K2, X2),
           NEW chs, ChunksOK(chs, W, T, N, K)
    PROVE  ChunksOK(chs, W2, T2, N2, K2)
<1>1. ASSUME NEW k \in 1 .. Len(chs) PROVE ChunkOK(chs[k], W2, T2, N2, K2)
    <2>1. ChunkOK(chs[k], W, T, N, K)
        BY DEF ChunksOK
    <2> QED BY <2>1, ChunkGrows
<1> QED BY <1>1 DEF ChunksOK

(* A job stays right if the names of its own runs are avoided as before.   *)
LEMMA JobGrows ==
    ASSUME NEW W, NEW T, NEW N, NEW K, NEW X, World(W, T, N, K),
           NEW W2, NEW T2, NEW N2, NEW K2, NEW X2, World(W2, T2, N2, K2),
           Grows(W, T, N, K, X, W2, T2, N2, K2, X2),
           NEW job, NEW j, JobOK(job, j, W, T, N, K, X), \A x \in X : x[1] = j => x \in X2
    PROVE  JobOK(job, j, W2, T2, N2, K2, X2)
<1>1. job \in Job /\ ChunksOK(job.chunks, W2, T2, N2, K2)
    BY ChunksGrow DEF JobOK
<1>2. ASSUME NEW res, RetryOK(res, job, j, W, T, N, K, X) PROVE RetryOK(res, job, j, W2, T2, N2, K2, X2)
    <2>1. /\ res \in ResType /\ job.chunks # <<>> /\ OutOK(res, W, T, N, K)
          /\ Named(res.output.runs, j, Len(job.chunks))
          /\ IF job.ever THEN Avoids(res.output.runs, X) ELSE Ids(res.output.runs) \subseteq X
        BY <1>2 DEF RetryOK
    <2>2. OutOK(res, W2, T2, N2, K2)
        BY <2>1, OutGrows
    <2>3. CASE job.ever
        <3>1. Avoids(res.output.runs, X2)
            <4>1. res.output.runs \subseteq K
                BY <2>1 DEF OutOK, Body
            <4> QED BY <2>1, <2>3, <4>1 DEF Avoids, Grows
        <3> QED BY <2>1, <2>2, <2>3, <3>1 DEF RetryOK
    <2>4. CASE ~job.ever
        <3>1. Ids(res.output.runs) \subseteq X2
            <4>1. \A r \in res.output.runs : r.id \in X /\ r.id[1] = j
                BY <2>1, <2>4 DEF Ids, Named
            <4> QED BY <4>1 DEF Ids
        <3> QED BY <2>1, <2>2, <2>4, <3>1 DEF RetryOK
    <2> QED BY <2>3, <2>4
<1>3. job.out = <<>> \/ \E res : job.out = <<res>> /\ RetryOK(res, job, j, W, T, N, K, X)
    BY DEF JobOK
<1> QED BY <1>1, <1>2, <1>3 DEF JobOK

(* All jobs do.                                                            *)
LEMMA JobsGrow ==
    ASSUME NEW W, NEW T, NEW N, NEW K, NEW X, World(W, T, N, K),
           NEW W2, NEW T2, NEW N2, NEW K2, NEW X2, World(W2, T2, N2, K2),
           Grows(W, T, N, K, X, W2, T2, N2, K2, X2), X \subseteq X2,
           NEW js, JobsOK(js, W, T, N, K, X)
    PROVE  JobsOK(js, W2, T2, N2, K2, X2)
<1>1. ASSUME NEW j \in 1 .. Len(js) PROVE JobOK(js[j], j, W2, T2, N2, K2, X2)
    <2>1. JobOK(js[j], j, W, T, N, K, X)
        BY DEF JobsOK
    <2>2. \A x \in X : x[1] = j => x \in X2
        OBVIOUS
    <2> QED BY <2>1, <2>2, JobGrows
<1> QED BY <1>1 DEF JobsOK

(* New compactions come after the others.                                  *)
NewJobs(taken, mode) == [k \in 1 .. Cardinality(taken) |-> NewJob(SetToSeq(taken)[k], mode)]

ReqsFor(taken, W, T, N, K, X) == IsFiniteSet(taken) /\ \A r \in taken : ReqFor(r, W, T, N, K, X)
Joined(js, taken, mode) == js \o NewJobs(taken, mode)
KeptJobs(js, js2) == \A j \in 1 .. Len(js) : j \in 1 .. Len(js2) /\ js2[j] = js[j]

(* Taking up requests adds good jobs.                                      *)
LEMMA TakeUpJobs ==
    ASSUME NEW W, NEW T, NEW N, NEW K, NEW X, World(W, T, N, K),
           NEW js, JobsOK(js, W, T, N, K, X),
           NEW taken, ReqsFor(taken, W, T, N, K, X), NEW mode,
           NEW js2, js2 = Joined(js, taken, mode)
    PROVE  JobsOK(js2, W, T, N, K, X) /\ KeptJobs(js, js2)
<1> DEFINE s == SetToSeq(taken)
           n == Cardinality(taken)
           new == NewJobs(taken, mode)
           m == Len(js)
<1>1. n \in Nat /\ s \in [1 .. n -> taken]
    BY Listed DEF ReqsFor
<1>2. js2 = js \o new /\ new = [k \in 1 .. n |-> NewJob(s[k], mode)]
    BY DEF NewJobs, Joined
<1> HIDE DEF n, s, new
<1>3. ASSUME NEW k \in 1 .. n, NEW j PROVE NewJob(s[k], mode) \in Job /\ JobOK(NewJob(s[k], mode), j, W, T, N, K, X)
    <2> DEFINE q == s[k]
               b == NewJob(q, mode)
               c == b.chunks
    <2>1. ReqFor(q, W, T, N, K, X)
        BY <1>1 DEF ReqsFor
    <2> HIDE DEF q
    <2>2. ChunksOK(c, W, T, N, K) /\ b = [chunks |-> c, out |-> <<>>, ever |-> FALSE]
        BY <2>1, NewJobOK
    <2>3. c \in Seq(ChunkType) /\ <<>> \in Seq(ResType)
        BY <2>2, EmptySeq DEF ChunksOK
    <2> HIDE DEF b, c
    <2>4. b \in Job
        BY <2>2, <2>3 DEF Job
    <2>5. b.out = <<>>
        BY <2>2
    <2>6. JobOK(b, j, W, T, N, K, X)
        BY <2>2, <2>4, <2>5 DEF JobOK, c
    <2> QED BY <2>4, <2>6 DEF b, q
<1>4. new \in Seq(Job) /\ Len(new) = n /\ \A k \in 1 .. n : new[k] = NewJob(s[k], mode)
    <2>1. \A k \in 1 .. n : NewJob(s[k], mode) \in Job
        BY <1>3
    <2> QED BY <1>1, <1>2, <2>1
<1>5. js \in Seq(Job) /\ m \in Nat
    BY DEF JobsOK
<1>6. /\ js2 \in Seq(Job) /\ Len(js2) = m + n
      /\ \A i \in 1 .. (m + n) : js2[i] = IF i <= m THEN js[i] ELSE new[i - m]
    <2>1. /\ js2 \in Seq(Job) /\ Len(js2) = Len(js) + Len(new)
          /\ \A i \in 1 .. Len(js) + Len(new) : js2[i] = IF i <= Len(js) THEN js[i] ELSE new[i - Len(js)]
        <3>1. js2 = js \o new
            BY <1>2
        <3>2. js \in Seq(Job) /\ new \in Seq(Job)
            BY <1>4, <1>5
        <3> QED BY <3>1, <3>2, ConcatProperties
    <2> QED BY <1>4, <2>1
<1> HIDE DEF m
<1>7. ASSUME NEW j \in 1 .. (m + n) PROVE JobOK(js2[j], j, W, T, N, K, X)
    <2>1. CASE j <= m
        <3>1. j \in 1 .. m /\ js2[j] = js[j]
            BY <1>1, <1>5, <1>6, <2>1
        <3> QED BY <3>1 DEF JobsOK, m
    <2>2. CASE ~(j <= m)
        <3>1. j - m \in 1 .. n /\ js2[j] = new[j - m]
            BY <1>1, <1>5, <1>6, <2>2
        <3> QED BY <1>3, <1>4, <3>1
    <2> QED BY <2>1, <2>2
<1>8. \A j \in 1 .. m : j \in 1 .. (m + n) /\ js2[j] = js[j]
    BY <1>1, <1>5, <1>6
<1> QED BY <1>6, <1>7, <1>8 DEF JobsOK, KeptJobs, m

(* Names are kept when jobs are added and ids grow.                        *)
LEMMA NamesKept ==
    ASSUME NEW js, NEW js2, KeptJobs(js, js2)
    PROVE  /\ \A K, N, M : Known(K, js, N) /\ N \in Nat /\ M \in Nat /\ N <= M /\ K \subseteq Run => Known(K, js2, M)
           /\ \A del : Past(del, js) => Past(del, js2)
<1>1. ASSUME NEW K, NEW N \in Nat, NEW M \in Nat, N <= M, K \subseteq Run, Known(K, js, N), NEW r \in K
      PROVE \/ r.id[1] = 0 /\ r.id[2] < M
            \/ /\ r.id[1] \in 1 .. Len(js2) /\ Len(js2[r.id[1]].chunks) <= r.id[2]
               /\ r.id[2] = Len(js2[r.id[1]].chunks) => js2[r.id[1]].out # <<>>
    <2>1. r.id[2] \in Nat
        BY <1>1 DEF Run, RunId
    <2>2. CASE r.id[1] = 0 /\ r.id[2] < N
        BY <1>1, <2>1, <2>2
    <2>3. CASE /\ r.id[1] \in 1 .. Len(js) /\ Len(js[r.id[1]].chunks) <= r.id[2]
               /\ r.id[2] = Len(js[r.id[1]].chunks) => js[r.id[1]].out # <<>>
        BY <2>3 DEF KeptJobs
    <2> QED BY <1>1, <2>2, <2>3 DEF Known
<1>2. \A del : Past(del, js) => Past(del, js2)
    BY DEF Past, KeptJobs
<1> QED BY <1>1, <1>2 DEF Known

-----------------------------------------------------------------------------
(* The batches of the spine from oldest to newest.                         *)

(* The batches of a spine that are bounded by its since.                   *)
Bounded(t, PS, T) == {b \in BatchesOf(PS, T) : b.since <= t.since}

(* The batches of a layer are a chain between its cuts.                    *)
LEMMA LayerChain ==
    ASSUME NEW T, NEW PS, GoodParts(PS, T), NEW t, NEW e, NEW cut, NEW rec, Laid(t, e, cut, rec, PS, T),
           NEW i \in 1 .. Len(t.layers)
    PROVE  /\ t.layers[i].batches \in Seq(Bounded(t, PS, T))
           /\ IF t.layers[i].batches = <<>> THEN cut[i] = cut[i - 1]
              ELSE LET s == t.layers[i].batches
                   IN Chained(s) /\ s[1].id[1] = cut[i] /\ s[Len(s)].id[2] = cut[i - 1]
<1> DEFINE l == t.layers[i]
           s == l.batches
           n == Len(s)
           BX == Bounded(t, PS, T)
<1>1. i \in Positive /\ Lay(t)[i] = l
    <2>1. t \in Trace
        BY LaidTypes
    <2> QED BY <2>1 DEF Positive, Lay, At, Trace
<1>2. /\ LayerOK(l, i, t.since, BatchesOf(PS, T))
      /\ IF Num(l) = 0 THEN cut[i] = cut[i - 1] ELSE Lo(l) = cut[i] /\ Hi(l) = cut[i - 1]
    BY <1>1, LaidAt
<1>3. /\ s \in Seq(BatchesOf(PS, T)) /\ Num(l) = n /\ n \in 0 .. 2
      /\ \A k \in 1 .. n : s[k].since <= t.since
      /\ n = 2 => s[1].id[2] = s[2].id[1]
    BY <1>2 DEF LayerOK, Num
<1>4. Lo(l) = s[1].id[1] /\ Hi(l) = s[n].id[2]
    BY <1>3 DEF Lo, Hi
<1> HIDE DEF l, s, n
<1>5. n = Len(s) /\ s = l.batches
    BY DEF n, s
<1>6. \A k \in 1 .. n : s[k] \in BX
    <2>1. \A k \in 1 .. n : s[k] \in BatchesOf(PS, T)
        BY <1>3, <1>5
    <2> QED BY <1>3, <2>1 DEF Bounded
<1>7. s \in Seq(BX)
    <2>1. n \in Nat /\ s \in [1 .. n -> BatchesOf(PS, T)]
        BY <1>3, <1>5
    <2>2. s \in [1 .. n -> BX]
        BY <1>6, <2>1
    <2> HIDE DEF BX
    <2> QED BY <2>1, <2>2
<1>8. s = <<>> <=> n = 0
    BY <1>3, <1>5, EmptySeq
<1>9. Chained(s)
    <2>1. ASSUME NEW k \in 2 .. Len(s) PROVE s[k].id[1] = s[k - 1].id[2] /\ s[k].lower = s[k - 1].upper
        <3>1. n = 2 /\ k = 2 /\ k - 1 = 1 /\ 1 \in 1 .. n /\ 2 \in 1 .. n
            BY <1>3, <1>5
        <3>2. s[1] \in BatchesOf(PS, T) /\ s[2] \in BatchesOf(PS, T)
            BY <1>6, <3>1 DEF Bounded
        <3>3. s[2].lower = T[s[2].id[1]] /\ s[1].upper = T[s[1].id[2]]
            BY <3>2, BatchOKFields
        <3> QED BY <1>3, <3>1, <3>3
    <2> QED BY <2>1 DEF Chained
<1>10. CASE s = <<>>
    BY <1>2, <1>3, <1>7, <1>8, <1>10 DEF s, l
<1>11. CASE s # <<>>
    <2>1. Num(l) # 0
        BY <1>3, <1>8, <1>11
    <2>2. s[1].id[1] = cut[i] /\ s[Len(s)].id[2] = cut[i - 1]
        BY <1>2, <1>4, <1>5, <2>1
    <2> QED BY <1>7, <1>9, <1>11, <2>2 DEF s, l
<1> QED BY <1>10, <1>11

(* Batches that follow each other in ids do so in time.                    *)
LEMMA BatchTimes ==
    ASSUME NEW T, NEW PS, GoodParts(PS, T), NEW a \in BatchesOf(PS, T), NEW b \in BatchesOf(PS, T),
           a.id[2] = b.id[1]
    PROVE  a.upper = b.lower
BY BatchOKFields

Strung(q, i, t, e, cut, PS, T) ==
    /\ q \in Seq(Bounded(t, PS, T)) /\ Chained(q)
    /\ IF q = <<>> THEN cut[i] = e ELSE q[1].id[1] = cut[i] /\ q[Len(q)].id[2] = e

(* The batches of layer i come before those of the layers below.           *)
LEMMA StrungOn ==
    ASSUME NEW T, NEW PS, GoodParts(PS, T), NEW t, NEW e, NEW cut, NEW rec, Laid(t, e, cut, rec, PS, T),
           NEW i \in 1 .. Len(t.layers), NEW q, Strung(q, i - 1, t, e, cut, PS, T)
    PROVE  Strung(t.layers[i].batches \o q, i, t, e, cut, PS, T)
<1> DEFINE s == t.layers[i].batches
           BX == Bounded(t, PS, T)
<1>1. /\ s \in Seq(BX)
      /\ IF s = <<>> THEN cut[i] = cut[i - 1]
         ELSE Chained(s) /\ s[1].id[1] = cut[i] /\ s[Len(s)].id[2] = cut[i - 1]
    BY LayerChain
<1>2. /\ q \in Seq(BX) /\ Chained(q)
      /\ IF q = <<>> THEN cut[i - 1] = e ELSE q[1].id[1] = cut[i - 1] /\ q[Len(q)].id[2] = e
    BY DEF Strung
<1> HIDE DEF s
<1>3. CASE s = <<>>
    <2>1. s \o q = q
        BY <1>2, <1>3, ConcatEmptySeq
    <2> QED BY <1>1, <1>2, <1>3, <2>1 DEF Strung, s
<1>4. CASE s # <<>> /\ q = <<>>
    <2>1. s \o q = s
        BY <1>1, <1>4, ConcatEmptySeq
    <2> QED BY <1>1, <1>2, <1>4, <2>1 DEF Strung, s
<1>5. CASE s # <<>> /\ q # <<>>
    <2> DEFINE a == s[Len(s)]
               b == q[1]
    <2>1. a \in BX /\ b \in BX
        <3>1. Len(s) \in 1 .. Len(s) /\ 1 \in 1 .. Len(q)
            BY <1>1, <1>2, <1>5
        <3> QED BY <1>1, <1>2, <3>1, ElementOfSeq
    <2>2. b.id[1] = a.id[2]
        BY <1>1, <1>2, <1>5
    <2>3. b.lower = a.upper
        <3>1. a \in BatchesOf(PS, T) /\ b \in BatchesOf(PS, T)
            BY <2>1 DEF Bounded
        <3> HIDE DEF a, b
        <3> QED BY <2>2, <3>1, BatchTimes
    <2>4. /\ s \o q \in Seq(BX) /\ s \o q # <<>> /\ Chained(s \o q)
          /\ (s \o q)[1] = s[1] /\ (s \o q)[Len(s \o q)] = q[Len(q)]
        BY <1>1, <1>2, <1>5, <2>2, <2>3, ChainedConcat
    <2> QED BY <1>1, <1>2, <1>5, <2>4 DEF Strung, s
<1> QED BY <1>3, <1>4, <1>5

(* The batches of a spine, oldest to newest, are a chain from 0 to the end. *)
LEMMA SpineChain ==
    ASSUME NEW T, NEW PS, GoodParts(PS, T), NEW t, NEW e, NEW cut, NEW rec, Laid(t, e, cut, rec, PS, T)
    PROVE  Strung(SpineBatches(t), Len(t.layers), t, e, cut, PS, T)
<1> DEFINE n == Len(t.layers)
           BX == Bounded(t, PS, T)
           X == Seq(BX)
           L(i) == t.layers[i].batches
           F == [p \in (1 .. n) \X X |-> L(p[1]) \o p[2]]
           E(h) == h = [i \in 0 .. n |-> IF i = 0 THEN <<>> ELSE t.layers[i].batches \o h[i - 1]]
           I(q, i) == Strung(q, i, t, e, cut, PS, T)
<1>1. n \in Nat
    BY LaidTypes
<1>2. ASSUME NEW i \in 1 .. n PROVE L(i) \in X
    BY LayerChain
<1>3. ASSUME NEW i \in 1 .. n, NEW q, I(q, i - 1) PROVE I(L(i) \o q, i)
    BY <1>3, StrungOn
<1>4. <<>> \in X
    BY EmptySeq
<1>5. I(<<>>, 0)
    <2>1. cut[0] = e
        BY LaidTypes
    <2>2. Chained(<<>>)
        BY DEF Chained
    <2> HIDE DEF X
    <2> QED BY <1>4, <2>1, <2>2 DEF Strung, X
<1> HIDE DEF n, L, I
<1>6. F \in [(1 .. n) \X X -> X]
    <2>1. ASSUME NEW p \in (1 .. n) \X X PROVE L(p[1]) \o p[2] \in X
        <3>1. p[1] \in 1 .. n /\ p[2] \in X /\ L(p[1]) \in X
            BY <1>2
        <3> QED BY <3>1, ConcatProperties
    <2> HIDE DEF X
    <2> QED BY <2>1
<1> HIDE DEF X
<1>7. PICK g : g \in [0 .. n -> X] /\ Unfolds(g, n, <<>>, F)
    BY <1>1, <1>4, <1>6, RecursionUpTo
<1>8. g[0] = <<>>
    BY <1>7 DEF Unfolds
<1>9. ASSUME NEW i \in 1 .. n PROVE g[i] = L(i) \o g[i - 1]
    <2>1. i - 1 \in 0 .. n
        BY <1>1
    <2>2. g[i - 1] \in X
        BY <1>7, <2>1
    <2>3. F[<<i, g[i - 1]>>] = L(i) \o g[i - 1]
        BY <2>2
    <2> HIDE DEF F
    <2> QED BY <1>7, <2>3 DEF Unfolds
<1> HIDE DEF F
<1>10. E(g)
    <2>1. ASSUME NEW i \in 0 .. n
          PROVE  g[i] = IF i = 0 THEN <<>> ELSE t.layers[i].batches \o g[i - 1]
        <3>1. CASE i = 0
            BY <1>8, <3>1
        <3>2. CASE i # 0
            <4>1. i \in 1 .. n
                BY <1>1, <3>2
            <4> QED BY <1>9, <3>2, <4>1 DEF L
        <3> QED BY <3>1, <3>2
    <2> QED BY <1>7, <2>1
<1> HIDE DEF E
<1>11. E(CHOOSE h : E(h))
    BY <1>10
<1>12. PICK h : E(h) /\ SpineBatches(t) = h[n]
    BY <1>11, Zenon DEF SpineBatches, E, n
<1>13. h = [i \in 0 .. n |-> IF i = 0 THEN <<>> ELSE t.layers[i].batches \o h[i - 1]]
    BY <1>12 DEF E
<1>14. h[0] = <<>> /\ \A i \in 1 .. n : h[i] = L(i) \o h[i - 1]
    <2>1. h[0] = <<>>
        <3>1. 0 \in 0 .. n
            BY <1>1
        <3> QED BY <1>13, <3>1
    <2>2. ASSUME NEW i \in 1 .. n PROVE h[i] = L(i) \o h[i - 1]
        <3>1. i \in 0 .. n /\ i # 0
            BY <1>1
        <3>2. h[i] = t.layers[i].batches \o h[i - 1]
            BY <1>13, <3>1
        <3> QED BY <3>2 DEF L
    <2> QED BY <2>1, <2>2
<1> DEFINE S == {i \in 0 .. n : I(h[i], i)}
<1>15. 0 \in S
    BY <1>1, <1>5, <1>14
<1>16. ASSUME NEW i \in 1 .. n, i - 1 \in S PROVE i \in S
    <2>1. I(L(i) \o h[i - 1], i)
        BY <1>3, <1>16
    <2>2. i \in 0 .. n
        BY <1>1
    <2> QED BY <1>14, <2>1, <2>2
<1> HIDE DEF S
<1>17. 0 .. n \subseteq S
    BY <1>1, <1>15, <1>16, InductionUpTo
<1>18. I(h[n], n)
    <2>1. n \in S
        BY <1>1, <1>17
    <2> QED BY <2>1 DEF S
<1> QED BY <1>12, <1>18 DEF I, n

(* All parts of the state are what they should be.                         *)
LEMMA AllPartsIn ==
    ASSUME NEW T, NEW PS, GoodParts(PS, T), NEW t, NEW e, NEW cut, NEW rec, Laid(t, e, cut, rec, PS, T)
    PROVE  AllParts(t) \in Seq(PS) /\ ToSet(AllParts(t)) \subseteq PS
<1> DEFINE bs == SpineBatches(t)
           n == Len(bs)
<1>1. bs \in Seq(Bounded(t, PS, T))
    BY SpineChain DEF Strung
<1> HIDE DEF bs
<1>2. n \in Nat /\ \A i \in 1 .. n : bs[i] \in BatchesOf(PS, T)
    <2>1. n \in Nat /\ \A i \in 1 .. n : bs[i] \in Bounded(t, PS, T)
        BY <1>1
    <2> QED BY <2>1 DEF Bounded
<1>3. \A i \in 1 .. n : bs[i].parts \in Seq(PS) /\ bs[i] \in Batch
    BY <1>2, BatchOKFields
<1>4. bs \in Seq(Batch)
    <2>1. bs \in [1 .. n -> Batch]
        BY <1>1, <1>3
    <2> QED BY <1>2, <2>1
<1>5. PICK g : Concats(bs, g) /\ PartsOf(bs) = g[n]
    BY <1>4, PartsOfDef
<1>6. g[0] = <<>> /\ \A i \in 1 .. n : g[i] = g[i - 1] \o bs[i].parts
    BY <1>5 DEF Concats
<1> HIDE DEF n
<1> DEFINE S == {i \in 0 .. n : g[i] \in Seq(PS)}
<1>7. 0 \in S
    <2>1. 0 \in 0 .. n
        BY <1>2
    <2>2. <<>> \in Seq(PS)
        BY EmptySeq
    <2> QED BY <1>6, <2>1, <2>2
<1>8. ASSUME NEW i \in 1 .. n, i - 1 \in S PROVE i \in S
    <2>1. g[i - 1] \o bs[i].parts \in Seq(PS)
        BY <1>3, <1>8, ConcatProperties
    <2>2. i \in 0 .. n
        BY <1>2
    <2> QED BY <1>6, <2>1, <2>2
<1> HIDE DEF S
<1>9. 0 .. n \subseteq S
    BY <1>2, <1>7, <1>8, InductionUpTo
<1>10. g[n] \in Seq(PS)
    <2>1. n \in S
        BY <1>2, <1>9
    <2> QED BY <2>1 DEF S
<1>11. AllParts(t) \in Seq(PS)
    BY <1>5, <1>10 DEF AllParts, bs
<1> QED BY <1>11, Elements

-----------------------------------------------------------------------------
(* The requests that a spine makes.                                        *)

(* A batch with runs spans time, so that it may be asked to merge.         *)
LEMMA ClaimableAreFor ==
    ASSUME NEW W, NEW T, NEW N, NEW K, NEW X, World(W, T, N, K),
           NEW t, NEW e, Spined(t, e, PartsFor(W, T, N, K, X), T)
    PROVE  ClaimableReqs(t) \subseteq ReqsOf(BatchesOf(PartsFor(W, T, N, K, X), T))
<1> DEFINE PS == PartsFor(W, T, N, K, X)
           BS == BatchesOf(PS, T)
<1>1. Times(T) /\ GoodParts(PS, T)
    BY PartsAreGood DEF World
<1>2. ASSUME NEW b \in BS, ~IsCompact(b) \/ OldWriter(b) PROVE b.lower < b.upper
    <2> DEFINE q == b.parts
    <2>1. q \in Seq(PS)
        BY <1>1, BatchOKFields
    <2> HIDE DEF q, PS
    <2>2. ASSUME ~IsCompact(b) PROVE \E i \in 1 .. Len(q) : q[i].runs # {}
        <3>1. SUFFICES ASSUME AllRuns(q) = {} PROVE FALSE
            BY <2>1, AllRunsIs
        <3>2. NumRuns(q) = Cardinality(AllRuns(q))
            BY DEF NumRuns, AllRuns
        <3>3. NumRuns(q) = 0
            BY <3>1, <3>2, FS_EmptySet
        <3> QED BY <2>2, <3>3 DEF IsCompact, q
    <2>3. PICK i \in 1 .. Len(q) : q[i].runs # {}
        <3>1. CASE OldWriter(b)
            BY <2>1, <3>1 DEF OldWriter, ToSet, q
        <3> QED BY <1>2, <2>2, <3>1
    <2>4. q[i] \in PS
        BY <2>1
    <2>5. q[i].lower < q[i].upper
        <3> DEFINE p == q[i]
        <3>1. p \in PS /\ p.runs # {}
            BY <2>3, <2>4
        <3> HIDE DEF p
        <3>2. p.lower < p.upper
            BY <3>1, RunsTakeTime DEF PS
        <3> QED BY <3>2 DEF p
    <2> QED BY <1>1, <2>5, BatchPositive DEF q
<1>3. ToSet(SpineBatches(t)) \subseteq BS
    <2>1. PICK cut, rec : Laid(t, e, cut, rec, PS, T)
        BY DEF Spined
    <2>2. SpineBatches(t) \in Seq(Bounded(t, PS, T))
        BY <1>1, <2>1, SpineChain DEF Strung
    <2>3. ToSet(SpineBatches(t)) \subseteq Bounded(t, PS, T)
        BY <2>2, Elements
    <2> QED BY <2>3 DEF Bounded
<1> HIDE DEF BS, PS
<1>4. ASSUME NEW r \in ClaimableReqs(t) PROVE r \in ReqsOf(BS)
    <2>1. PICK b \in ToSet(SpineBatches(t)) : (~IsCompact(b) \/ OldWriter(b)) /\ r = MergeReq(b)
        BY <1>4 DEF ClaimableReqs
    <2>2. b \in BS /\ b.lower < b.upper
        BY <1>2, <1>3, <2>1
    <2> QED BY <2>1, <2>2 DEF ReqsOf
<1> QED BY <1>4 DEF BS, PS

(* remove_redundant_merge_reqs asks for nothing new.                       *)
LEMMA NeededAmong ==
    ASSUME NEW reqs
    PROVE  Needed(reqs) \subseteq reqs
BY DEF Needed

Cleared(t) == [t EXCEPT !.reqs = {}]

(* The spine without its requests.                                         *)
LEMMA ClearedOK ==
    ASSUME NEW T, NEW PS, NEW t, NEW e, Spined(t, e, PS, T)
    PROVE  /\ Spined(Cleared(t), e, PS, T) /\ SameBut(Cleared(t), t)
           /\ t \in Trace /\ t.reqs \subseteq ReqsOf(BatchesOf(PS, T))
<1> DEFINE u == Cleared(t)
<1>1. t \in Trace /\ t.panicked = FALSE /\ t.reqs \subseteq ReqsOf(BatchesOf(PS, T))
    BY DEF Spined, Laid, Good
<1>2. u \in Trace /\ u.layers = t.layers /\ SameBut(u, t) /\ u.reqs = {} /\ t.since \in Nat
    BY <1>1 DEF Trace, Cleared, SameBut
<1>3. t.since <= u.since /\ u.panicked = FALSE /\ u.reqs \subseteq ReqsOf(BatchesOf(PS, T))
    BY <1>1, <1>2 DEF SameBut
<1> HIDE DEF u
<1>4. BatchesOf(PS, T) \subseteq BatchesOf(PS, T)
    OBVIOUS
<1>5. Spined(u, e, PS, T)
    BY <1>2, <1>3, <1>4, SpinedFrom
<1> QED BY <1>1, <1>2, <1>5 DEF u

(* The requests that are taken up become jobs.                             *)
LEMMA TakeUpOK ==
    ASSUME NEW W, NEW T, NEW N, NEW K, NEW X, World(W, T, N, K),
           JobsOK(jobs, W, T, N, K, X), NEW reqs,
           reqs \subseteq ReqsOf(BatchesOf(PartsFor(W, T, N, K, X), T)), TakeUp(reqs)
    PROVE  JobsOK(jobs', W, T, N, K, X) /\ KeptJobs(jobs, jobs')
<1>1. PICK taken, mode : /\ taken \subseteq reqs /\ IsFiniteSet(taken)
                         /\ jobs' = Joined(jobs, taken, mode)
    BY DEF TakeUp, NewJobs, Joined
<1>2. ReqsFor(taken, W, T, N, K, X)
    BY <1>1, ReqsAreFor DEF ReqsFor
<1> QED BY <1>1, <1>2, TakeUpJobs

-----------------------------------------------------------------------------
(* What a job calls merge_res with.                                        *)

(* What a job may call merge_res with.                                     *)
Offers(res, job, j, W, T, N, K, X) ==
    /\ res \in ResType
    /\ World(W, T, N, K \cup res.output.runs) /\ OutOK(res, W, T, N, K \cup res.output.runs)
    /\ Named(res.output.runs, j, Len(job.chunks))
    /\ job.ever \/ \A r \in K : r.id \in Ids(res.output.runs) => r.id \in X

(* The world with more runs.                                               *)
LEMMA MoreRuns ==
    ASSUME NEW W, NEW T, NEW N, NEW K, NEW X, World(W, T, N, K), NEW K2, K \subseteq K2, NEW X2,
           \A r \in K : r.id \in X2 => r.id \in X
    PROVE  Grows(W, T, N, K, X, W, T, N, K2, X2)
BY DEF Grows, World

(* Runs with unused names are added.                                       *)
LEMMA NewRuns ==
    ASSUME NEW W, NEW T, NEW N, NEW K, World(W, T, N, K), NEW o, NEW name, Fresh(o, name, K),
           \A r \in K : r.id \notin Ids(o.runs)
    PROVE  World(W, T, N, K \cup o.runs)
<1> DEFINE K2 == K \cup o.runs
<1>1. K2 \subseteq Run /\ \A r \in K2 : r.len > 0 /\ r.of # {}
    BY DEF World, Fresh
<1>2. ASSUME NEW r \in K2, NEW q \in K2, r.id = q.id PROVE r = q
    <2>1. CASE r \in K /\ q \in K
        BY <1>2, <2>1 DEF World
    <2>2. CASE r \in o.runs /\ q \in o.runs
        BY <1>2, <2>2 DEF Fresh
    <2>3. CASE r \in K /\ q \in o.runs
        BY <1>2, <2>3 DEF Ids
    <2>4. CASE r \in o.runs /\ q \in K
        BY <1>2, <2>4 DEF Ids
    <2> QED BY <2>1, <2>2, <2>3, <2>4
<1> HIDE DEF K2
<1>3. World(W, T, N, K2)
    BY <1>1, <1>2 DEF World
<1> QED BY <1>3 DEF K2

(* The names of what a job is going to write are not in use yet.           *)
LEMMA NamesUnused ==
    ASSUME NEW js, NEW j \in 1 .. Len(js), NEW N, NEW K, Known(K, js, N), js[j].out = <<>>,
           NEW runs, Named(runs, j, Len(js[j].chunks)), j # 0
    PROVE  \A r \in K : r.id \notin Ids(runs)
<1> SUFFICES ASSUME NEW r \in K, NEW q \in runs, r.id = q.id PROVE FALSE
    BY DEF Ids
<1>1. r.id[1] = j /\ r.id[2] = Len(js[j].chunks)
    BY DEF Named
<1> QED BY <1>1 DEF Known

Proposal(c, keep, name) == [input |-> c.input, output |-> Output(c, keep, name)]

(* What a job offers at its first try: runs with names that nobody has     *)
(* used.                                                                   *)
LEMMA FreshOffers ==
    ASSUME NEW W, NEW T, NEW N, NEW K, NEW X, World(W, T, N, K),
           NEW js, NEW j \in 1 .. Len(js), JobOK(js[j], j, W, T, N, K, X), Known(K, js, N),
           js[j].chunks # <<>>, js[j].out = <<>>, NEW keep \in Keeps(Head(js[j].chunks)),
           NEW res, res = Proposal(Head(js[j].chunks), keep, <<j, Len(js[j].chunks)>>)
    PROVE  Offers(res, js[j], j, W, T, N, K, X)
<1> DEFINE s == js[j].chunks
           c == Head(s)
           name == <<j, Len(s)>>
           o == Output(c, keep, name)
           K2 == K \cup o.runs
<1>1. s \in Seq(ChunkType) /\ s # <<>> /\ \A k \in 1 .. Len(s) : ChunkOK(s[k], W, T, N, K)
    BY DEF JobOK, ChunksOK
<1>2. /\ res.input = c.input /\ res.output = o /\ res = [input |-> c.input, output |-> o]
      /\ keep \in Keeps(c)
    BY DEF Proposal
<1> HIDE DEF s
<1>3. ChunkOK(c, W, T, N, K) /\ Len(s) \in Nat
    <2>1. 1 \in 1 .. Len(s) /\ c = s[1] /\ Len(s) \in Nat
        BY <1>1
    <2> QED BY <1>1, <2>1
<1>4. name[1] \in Nat /\ name[2] \in Nat /\ name[1] = j /\ name[2] = Len(s)
    BY <1>3
<1> HIDE DEF c, name
<1>5. /\ o \in OutType /\ o.lower = c.lower /\ o.upper = c.upper
      /\ Fresh(o, name, K) /\ Body(o.runs, o.gone, o.runs)
      /\ Held(o.runs, o.gone) = Held(Grouped(c), c.gone)
    BY <1>2, <1>3, <1>4, OutputOK
<1>6. c \in ChunkType /\ c.input \in Input
      /\ Fulfils(c.input, c.lower, c.upper, Held(Grouped(c), c.gone), W, T, N, K)
    BY <1>3 DEF ChunkOK, ChunkType
<1> HIDE DEF o
<1>7. res \in ResType
    BY <1>2, <1>5, <1>6 DEF ResType
<1>8. Named(o.runs, j, Len(s))
    BY <1>4, <1>5 DEF Fresh
<1>9. \A r \in K : r.id \notin Ids(o.runs)
    BY <1>8, NamesUnused DEF s
<1>10. World(W, T, N, K2)
    BY <1>5, <1>9, NewRuns
<1> HIDE DEF K2
<1>11. Grows(W, T, N, K, X, W, T, N, K2, X)
    <2>1. K \subseteq K2
        BY DEF K2
    <2> QED BY <2>1, MoreRuns
<1>12. Fulfils(c.input, c.lower, c.upper, Held(Grouped(c), c.gone), W, T, N, K2)
    BY <1>6, <1>10, <1>11, FulfilsGrows
<1>13. Body(o.runs, o.gone, K2)
    BY <1>5 DEF Body, K2
<1>14. OutOK(res, W, T, N, K2)
    BY <1>2, <1>5, <1>12, <1>13 DEF OutOK
<1> QED BY <1>2, <1>7, <1>8, <1>9, <1>10, <1>14 DEF Offers, K2, s

(* What it offers when it tries again.                                     *)
LEMMA RetryOffers ==
    ASSUME NEW W, NEW T, NEW N, NEW K, NEW X, World(W, T, N, K),
           NEW job, NEW j, JobOK(job, j, W, T, N, K, X), job.out # <<>>, NEW res \in ToSet(job.out)
    PROVE  Offers(res, job, j, W, T, N, K, X)
<1>1. PICK r : job.out = <<r>> /\ RetryOK(r, job, j, W, T, N, K, X)
    BY DEF JobOK
<1>2. res = r
    BY <1>1 DEF ToSet
<1>3. /\ res \in ResType /\ OutOK(res, W, T, N, K) /\ Named(res.output.runs, j, Len(job.chunks))
      /\ job.ever \/ Ids(res.output.runs) \subseteq X
    BY <1>1, <1>2 DEF RetryOK
<1>4. K \cup res.output.runs = K
    BY <1>3 DEF OutOK, Body
<1> QED BY <1>3, <1>4 DEF Offers

-----------------------------------------------------------------------------
(* merge_res.                                                              *)

(* The outcome of applying a result.                                       *)
AppliedTo(a, t, e, PS, T) ==
    /\ Spined(a.trace, e, PS, T) /\ SameBut(a.trace, t)
    /\ a.applied \in BOOLEAN
    /\ a.applied \/ a.trace = t

(* What apply_merge_res makes of a right result.                           *)
LEMMA AppliedOK ==
    ASSUME NEW T, NEW PS, Times(T), GoodParts(PS, T), NEW t, NEW e, Spined(t, e, PS, T),
           NEW res, ResOK(res, PS)
    PROVE  AppliedTo(ApplyMergeRes(t, res), t, e, PS, T)
<1> DEFINE a == ApplyMergeRes(t, res)
<1> HIDE DEF a
<1>1. a = ApplyMergeRes(t, res)
    BY DEF a
<1>2. /\ Spined(a.trace, e, PS, T) /\ SameBut(a.trace, t)
      /\ a.applied \in BOOLEAN
      /\ a.applied \/ a.trace = t
    BY <1>1, ApplyMergeResOK
<1> QED BY <1>1, <1>2 DEF AppliedTo

(* The ids that must stay out of the spine once a result has been answered. *)
Left(X, res, job, a) ==
    IF job.ever \/ a.applied THEN X \ Ids(res.output.runs) ELSE X \cup Ids(res.output.runs)

OthersOK(js, j, W, T, N, K, X) ==
    /\ js \in Seq(Job)
    /\ \A i \in 1 .. Len(js) : i # j => JobOK(js[i], i, W, T, N, K, X)

AfterRes(a, t, js, j, del, W, T, N, K2, X2) ==
    /\ World(W, T, N, K2)
    /\ Spined(a.trace, N, PartsFor(W, T, N, K2, X2), T) /\ SameBut(a.trace, t)
    /\ a.applied \in BOOLEAN
    /\ OthersOK(js, j, W, T, N, K2, X2)
    /\ ChunksOK(js[j].chunks, W, T, N, K2)
    /\ X2 \subseteq Ids(K2) /\ del \subseteq X2

(* A result is applied, or not: the spine, and everything else but the job. *)
LEMMA ApplyOK ==
    ASSUME NEW t, NEW W, NEW js, NEW del, NEW T, NEW K, NEW X, StateOK(t, W, js, del, T, K, X),
           NEW j \in 1 .. Len(js), NEW res, Offers(res, js[j], j, W, T, t.nextId, K, X),
           NEW a, a = ApplyMergeRes(t, res), NEW K2, K2 = K \cup res.output.runs,
           NEW X2, X2 = Left(X, res, js[j], a)
    PROVE  AfterRes(a, t, js, j, del, W, T, t.nextId, K2, X2)
<1> DEFINE N == t.nextId
           runs == res.output.runs
           X1 == X \ Ids(runs)
           PS1 == PartsFor(W, T, N, K2, X1)
<1>1. /\ World(W, T, N, K) /\ Spined(t, N, PartsFor(W, T, N, K, X), T)
      /\ JobsOK(js, W, T, N, K, X) /\ X \subseteq Ids(K) /\ del \subseteq X /\ Past(del, js)
    BY DEF StateOK
<1>2. /\ World(W, T, N, K2) /\ OutOK(res, W, T, N, K2) /\ Named(runs, j, Len(js[j].chunks))
      /\ js[j].ever \/ \A r \in K : r.id \in Ids(runs) => r.id \in X
    BY DEF Offers
<1>3. K \subseteq K2 /\ Ids(runs) \subseteq Ids(K2) /\ Ids(K) \subseteq Ids(K2)
    BY DEF Ids
<1>4. \A x \in Ids(runs) : x[1] = j /\ x[2] = Len(js[j].chunks)
    BY <1>2 DEF Ids, Named
<1> HIDE DEF N, runs
<1>5. Grows(W, T, N, K, X, W, T, N, K2, X1)
    BY <1>1, <1>3, MoreRuns
<1>6. Times(T) /\ GoodParts(PS1, T)
    BY <1>2, PartsAreGood DEF World
<1>7. /\ Spined(a.trace, N, PS1, T) /\ SameBut(a.trace, t) /\ a.applied \in BOOLEAN
      /\ a.applied \/ a.trace = t
    <2>1. BatchesOf(PartsFor(W, T, N, K, X), T) \subseteq BatchesOf(PS1, T)
        BY <1>1, <1>2, <1>5, PartsGrow
    <2> HIDE DEF PS1
    <2>2. Spined(t, N, PS1, T)
        <3>1. t \in Trace /\ t.panicked = FALSE /\ t.reqs \subseteq ReqsOf(BatchesOf(PartsFor(W, T, N, K, X), T))
            BY <1>1 DEF Spined, Laid, Good
        <3>2. t.reqs \subseteq ReqsOf(BatchesOf(PS1, T))
            BY <2>1, <3>1 DEF ReqsOf
        <3>3. t.since <= t.since
            BY <3>1 DEF Trace
        <3> QED BY <1>1, <2>1, <3>1, <3>2, <3>3, SpinedFrom
    <2>3. Avoids(runs, X1)
        BY DEF Avoids, Ids
    <2>4. ResOK(res, PS1)
        BY <1>2, <2>3, OutcomeOK DEF PS1, runs
    <2>5. AppliedTo(ApplyMergeRes(t, res), t, N, PS1, T)
        BY <1>6, <2>2, <2>4, AppliedOK
    <2> QED BY <2>5 DEF AppliedTo
<1>8. CASE js[j].ever \/ a.applied
    <2>1. X2 = X1
        BY <1>8 DEF Left, runs
    <2>2. X2 \subseteq Ids(K2)
        BY <1>1, <1>3, <2>1
    <2>3. del \subseteq X2
        <3>1. ASSUME NEW x \in del PROVE x \notin Ids(runs)
            <4>1. x[1] \in 1 .. Len(js) /\ Len(js[x[1]].chunks) < x[2]
                BY <1>1 DEF Past
            <4>2. js[j] \in Job /\ Len(js[j].chunks) \in Nat
                BY <1>1, JobFields DEF JobsOK
            <4>3. SUFFICES ASSUME x \in Ids(runs) PROVE FALSE
                OBVIOUS
            <4>4. x[1] = j /\ x[2] = Len(js[j].chunks)
                BY <1>4, <4>3
            <4> HIDE DEF X1
            <4> QED BY <4>1, <4>2, <4>4
        <3> QED BY <1>1, <2>1, <3>1
    <2>4. OthersOK(js, j, W, T, N, K2, X2)
        <3>1. ASSUME NEW i \in 1 .. Len(js), i # j PROVE JobOK(js[i], i, W, T, N, K2, X2)
            <4>1. \A x \in X : x[1] = i => x \in X2
                BY <1>4, <2>1, <3>1
            <4>2. JobOK(js[i], i, W, T, N, K, X)
                BY <1>1 DEF JobsOK
            <4>3. Grows(W, T, N, K, X, W, T, N, K2, X2)
                BY <1>5, <2>1
            <4> QED BY <1>1, <1>2, <4>1, <4>2, <4>3, JobGrows
        <3> QED BY <1>1, <3>1 DEF OthersOK, JobsOK
    <2>5. ChunksOK(js[j].chunks, W, T, N, K2)
        <3>1. ChunksOK(js[j].chunks, W, T, N, K)
            BY <1>1 DEF JobsOK, JobOK
        <3> QED BY <1>1, <1>2, <1>5, <3>1, ChunksGrow
    <2> QED BY <1>2, <1>7, <2>1, <2>2, <2>3, <2>4, <2>5 DEF AfterRes, N
<1>9. CASE ~(js[j].ever \/ a.applied)
    <2>1. X2 = X \cup Ids(runs)
        BY <1>9 DEF Left, runs
    <2>2. X2 \subseteq Ids(K2) /\ del \subseteq X2 /\ X \subseteq X2
        BY <1>1, <1>3, <2>1
    <2>3. \A r \in K : r.id \in X2 => r.id \in X
        BY <1>2, <1>9, <2>1
    <2>4. Grows(W, T, N, K, X, W, T, N, K2, X2)
        BY <1>1, <1>3, <2>3, MoreRuns
    <2>5. JobsOK(js, W, T, N, K2, X2)
        BY <1>1, <1>2, <2>2, <2>4, JobsGrow
    <2>6. OthersOK(js, j, W, T, N, K2, X2) /\ ChunksOK(js[j].chunks, W, T, N, K2)
        BY <2>5 DEF OthersOK, JobsOK, JobOK
    <2>7. a.trace = t
        BY <1>7, <1>9
    <2>8. Spined(t, N, PartsFor(W, T, N, K2, X2), T)
        <3> DEFINE PS2 == PartsFor(W, T, N, K2, X2)
        <3>1. BatchesOf(PartsFor(W, T, N, K, X), T) \subseteq BatchesOf(PS2, T)
            BY <1>1, <1>2, <2>4, PartsGrow
        <3> HIDE DEF PS2
        <3>2. t \in Trace /\ t.panicked = FALSE /\ t.reqs \subseteq ReqsOf(BatchesOf(PartsFor(W, T, N, K, X), T))
            BY <1>1 DEF Spined, Laid, Good
        <3>3. t.reqs \subseteq ReqsOf(BatchesOf(PS2, T))
            BY <3>1, <3>2 DEF ReqsOf
        <3>4. t.since <= t.since
            BY <3>2 DEF Trace
        <3>5. Spined(t, N, PS2, T)
            BY <1>1, <3>1, <3>2, <3>3, <3>4, SpinedFrom
        <3> QED BY <3>5 DEF PS2
    <2> QED BY <1>2, <1>7, <2>2, <2>6, <2>7, <2>8 DEF AfterRes, N
<1> QED BY <1>8, <1>9

WithJob(js, j, job) == [js EXCEPT ![j] = job]

(* One job is replaced.                                                    *)
LEMMA ReplaceJob ==
    ASSUME NEW W, NEW T, NEW N, NEW K, NEW X, NEW js, NEW j \in 1 .. Len(js),
           OthersOK(js, j, W, T, N, K, X), NEW job, JobOK(job, j, W, T, N, K, X),
           NEW js2, js2 = WithJob(js, j, job)
    PROVE  /\ JobsOK(js2, W, T, N, K, X) /\ Len(js2) = Len(js) /\ js2[j] = job
           /\ \A i \in 1 .. Len(js) : i # j => js2[i] = js[i]
<1>1. job \in Job /\ js \in Seq(Job)
    BY DEF JobOK, OthersOK
<1>2. /\ js2 \in Seq(Job) /\ Len(js2) = Len(js) /\ js2[j] = job
      /\ \A i \in 1 .. Len(js) : i # j => js2[i] = js[i]
    BY <1>1 DEF WithJob
<1>3. \A i \in 1 .. Len(js) : JobOK(js2[i], i, W, T, N, K, X)
    BY <1>2 DEF OthersOK
<1> QED BY <1>2, <1>3 DEF JobsOK

(* The names in use after job j has gone on to its next chunk.             *)
LEMMA NamesAfter ==
    ASSUME NEW js, NEW j \in 1 .. Len(js), js \in Seq(Job), js[j].chunks # <<>>,
           NEW N \in Nat, NEW K, K \subseteq Run, Known(K, js, N),
           NEW del, del \subseteq RunId, Past(del, js),
           NEW runs, runs \subseteq Run, Named(runs, j, Len(js[j].chunks)),
           NEW js2, Len(js2) = Len(js), \A i \in 1 .. Len(js) : i # j => js2[i] = js[i],
           Len(js2[j].chunks) \in Nat, Len(js2[j].chunks) < Len(js[j].chunks)
    PROVE  /\ Known(K \cup runs, js2, N)
           /\ Past(del, js2) /\ Past(del \cup Ids(runs), js2)
<1> DEFINE m == Len(js[j].chunks)
           m2 == Len(js2[j].chunks)
<1>1. m \in Nat /\ m2 \in Nat /\ m2 < m
    BY JobFields
<1>2. ASSUME NEW r \in K \cup runs
      PROVE  \/ r.id[1] = 0 /\ r.id[2] < N
             \/ /\ r.id[1] \in 1 .. Len(js2) /\ Len(js2[r.id[1]].chunks) <= r.id[2]
                /\ r.id[2] = Len(js2[r.id[1]].chunks) => js2[r.id[1]].out # <<>>
    <2>1. r.id[2] \in Nat
        BY DEF Run, RunId
    <2>2. CASE r.id[1] = j
        <3>1. m <= r.id[2] \/ (r.id[1] = 0 /\ r.id[2] < N)
            BY <1>1, <2>1, <2>2 DEF Known, Named
        <3> HIDE DEF m, m2
        <3> QED BY <1>1, <2>1, <2>2, <3>1 DEF m2
    <2>3. CASE r.id[1] # j
        <3>1. r \in K
            BY <2>3 DEF Named
        <3> QED BY <2>3, <3>1 DEF Known
    <2> QED BY <2>2, <2>3
<1>3. ASSUME NEW x \in del \cup Ids(runs) PROVE x[1] \in 1 .. Len(js2) /\ Len(js2[x[1]].chunks) < x[2]
    <2>1. CASE x \in Ids(runs)
        <3>1. x[1] = j /\ x[2] = m
            BY <2>1 DEF Ids, Named
        <3> QED BY <1>1, <3>1
    <2>2. CASE x \in del
        <3>1. x[1] \in 1 .. Len(js) /\ Len(js[x[1]].chunks) < x[2]
            BY <2>2 DEF Past
        <3>2. CASE x[1] # j
            BY <3>1, <3>2
        <3>3. CASE x[1] = j
            <4>1. x[2] \in Nat
                BY <2>2 DEF RunId
            <4> QED BY <1>1, <3>1, <3>3, <4>1
        <3> QED BY <3>2, <3>3
    <2> QED BY <2>1, <2>2
<1> QED BY <1>2, <1>3 DEF Known, Past

(* The pieces of a state that satisfies the invariant.                     *)
LEMMA StateFields ==
    ASSUME NEW t, NEW W, NEW js, NEW del, NEW T, NEW K, NEW X, StateOK(t, W, js, del, T, K, X)
    PROVE  /\ World(W, T, t.nextId, K) /\ T[t.nextId] = t.upper /\ t.nextId \in Nat
           /\ Spined(t, t.nextId, PartsFor(W, T, t.nextId, K, X), T)
           /\ JobsOK(js, W, T, t.nextId, K, X) /\ js \in Seq(Job) /\ K \subseteq Run
           /\ X \subseteq Ids(K) /\ del \subseteq X /\ del \subseteq RunId
           /\ Known(K, js, t.nextId) /\ Past(del, js)
<1>1. /\ World(W, T, t.nextId, K) /\ JobsOK(js, W, T, t.nextId, K, X) /\ X \subseteq Ids(K) /\ del \subseteq X
    BY DEF StateOK
<1>2. K \subseteq Run /\ t.nextId \in Nat /\ js \in Seq(Job)
    BY <1>1 DEF World, JobsOK
<1>3. Ids(K) \subseteq RunId
    BY <1>2 DEF Ids, Run
<1> QED BY <1>1, <1>2, <1>3 DEF StateOK

Onward(job)            == [chunks |-> Tail(job.chunks), out |-> <<>>, ever |-> FALSE]
Again(job, res, ever)  == [chunks |-> job.chunks, out |-> <<res>>, ever |-> ever]
Retried(job, res, a)   == Again(job, res, job.ever \/ a.applied)
GivenUp                == [chunks |-> <<>>, out |-> <<>>, ever |-> FALSE]

(* A job that goes on to its next chunk.                                   *)
LEMMA OnwardOK ==
    ASSUME NEW W, NEW T, NEW N, NEW K, NEW X, NEW job, NEW j, job.chunks # <<>>,
           ChunksOK(job.chunks, W, T, N, K)
    PROVE  /\ JobOK(Onward(job), j, W, T, N, K, X)
           /\ Len(Onward(job).chunks) \in Nat /\ Len(Onward(job).chunks) < Len(job.chunks)
<1> DEFINE s == job.chunks
           u == Tail(s)
           b == Onward(job)
<1>1. s \in Seq(ChunkType) /\ s # <<>> /\ \A k \in 1 .. Len(s) : ChunkOK(s[k], W, T, N, K)
    BY DEF ChunksOK
<1>2. b = [chunks |-> u, out |-> <<>>, ever |-> FALSE]
    BY DEF Onward
<1> HIDE DEF s
<1>3. u \in Seq(ChunkType) /\ Len(u) = Len(s) - 1 /\ Len(s) \in Nat /\ Len(s) >= 1
      /\ \A k \in 1 .. Len(u) : u[k] = s[k + 1]
    BY <1>1
<1> HIDE DEF u, b
<1>4. \A k \in 1 .. Len(u) : ChunkOK(u[k], W, T, N, K)
    BY <1>1, <1>3
<1>5. <<>> \in Seq(ResType)
    BY EmptySeq
<1>6. b \in Job /\ b.chunks = u /\ b.out = <<>>
    BY <1>2, <1>3, <1>5 DEF Job
<1>7. JobOK(b, j, W, T, N, K, X)
    BY <1>3, <1>4, <1>6 DEF JobOK, ChunksOK
<1> QED BY <1>3, <1>6, <1>7 DEF b, s

(* A job that is given up.                                                 *)
LEMMA GivenUpOK ==
    ASSUME NEW W, NEW T, NEW N, NEW K, NEW X, NEW j
    PROVE  JobOK(GivenUp, j, W, T, N, K, X) /\ Len(GivenUp.chunks) = 0
<1>1. <<>> \in Seq(ResType) /\ <<>> \in Seq(ChunkType) /\ Len(<<>>) = 0
    BY EmptySeq
<1>2. GivenUp \in Job /\ GivenUp.chunks = <<>> /\ GivenUp.out = <<>>
    BY <1>1 DEF Job, GivenUp
<1>3. \A k \in 1 .. 0 : FALSE
    OBVIOUS
<1> QED BY <1>1, <1>2, <1>3 DEF JobOK, ChunksOK

(* A job that is going to try again.                                       *)
LEMMA AgainOK ==
    ASSUME NEW W, NEW T, NEW N, NEW K, NEW X, NEW job, NEW j, job.chunks # <<>>,
           ChunksOK(job.chunks, W, T, N, K), NEW ever \in BOOLEAN,
           NEW res \in ResType, OutOK(res, W, T, N, K), Named(res.output.runs, j, Len(job.chunks)),
           IF ever THEN Avoids(res.output.runs, X) ELSE Ids(res.output.runs) \subseteq X
    PROVE  JobOK(Again(job, res, ever), j, W, T, N, K, X)
<1> DEFINE b == Again(job, res, ever)
           q == <<res>>
<1>1. q \in Seq(ResType)
    OBVIOUS
<1> HIDE DEF q
<1>2. b \in Job /\ b.chunks = job.chunks /\ b.out = q /\ b.ever = ever
    BY <1>1 DEF Again, Job, ChunksOK, q
<1> HIDE DEF b
<1>3. RetryOK(res, b, j, W, T, N, K, X)
    BY <1>2 DEF RetryOK
<1>4. JobOK(b, j, W, T, N, K, X)
    BY <1>2, <1>3 DEF JobOK, q
<1> QED BY <1>4 DEF b

SomeState(t, W, js, del, T) == \E K, X : StateOK(t, W, js, del, T, K, X)

(* merge_res, after which the job goes on to its next chunk.               *)
LEMMA NextChunkOK ==
    ASSUME NEW t, NEW W, NEW js, NEW del, NEW T, NEW K, NEW X, StateOK(t, W, js, del, T, K, X),
           NEW j \in 1 .. Len(js), js[j].chunks # <<>>,
           NEW res, Offers(res, js[j], j, W, T, t.nextId, K, X),
           NEW a, a = ApplyMergeRes(t, res),
           NEW js2, js2 = WithJob(js, j, Onward(js[j])),
           NEW del2, del2 = IF js[j].ever \/ a.applied THEN del ELSE del \cup Ids(res.output.runs)
    PROVE  SomeState(a.trace, W, js2, del2, T)
<1> DEFINE N == t.nextId
           job == js[j]
           runs == res.output.runs
           kept == job.ever \/ a.applied
<1>0. PICK K2, X2 : K2 = K \cup res.output.runs /\ X2 = Left(X, res, js[j], a)
    OBVIOUS
<1>1. /\ World(W, T, N, K2)
      /\ Spined(a.trace, N, PartsFor(W, T, N, K2, X2), T) /\ SameBut(a.trace, t)
      /\ OthersOK(js, j, W, T, N, K2, X2)
      /\ ChunksOK(job.chunks, W, T, N, K2)
      /\ X2 \subseteq Ids(K2) /\ del \subseteq X2
    <2>1. AfterRes(a, t, js, j, del, W, T, N, K2, X2)
        BY <1>0, ApplyOK
    <2> QED BY <2>1 DEF AfterRes
<1>2. /\ N \in Nat /\ T[N] = t.upper /\ K \subseteq Run /\ Known(K, js, N) /\ js \in Seq(Job)
      /\ del \subseteq RunId /\ Past(del, js)
    BY StateFields
<1>3. runs \subseteq Run /\ Named(runs, j, Len(job.chunks))
    BY DEF Offers, OutOK, OutType
<1>4. kept \/ Ids(runs) \subseteq X2
    BY <1>0 DEF Left
<1> HIDE DEF N, runs, kept
<1>5. /\ JobOK(Onward(job), j, W, T, N, K2, X2)
      /\ Len(Onward(job).chunks) \in Nat /\ Len(Onward(job).chunks) < Len(job.chunks)
    BY <1>1, OnwardOK
<1>6. /\ JobsOK(js2, W, T, N, K2, X2) /\ Len(js2) = Len(js) /\ js2[j] = Onward(job)
      /\ \A i \in 1 .. Len(js) : i # j => js2[i] = js[i]
    <2> DEFINE b == Onward(job)
    <2>1. JobOK(b, j, W, T, N, K2, X2) /\ js2 = WithJob(js, j, b)
        BY <1>5
    <2> HIDE DEF b
    <2>2. /\ JobsOK(js2, W, T, N, K2, X2) /\ Len(js2) = Len(js) /\ js2[j] = b
          /\ \A i \in 1 .. Len(js) : i # j => js2[i] = js[i]
        BY <1>1, <2>1, ReplaceJob
    <2> QED BY <2>2 DEF b
<1>7. Len(js2[j].chunks) \in Nat /\ Len(js2[j].chunks) < Len(js[j].chunks)
    BY <1>5, <1>6
<1>8. Known(K \cup runs, js2, N) /\ Past(del, js2) /\ Past(del \cup Ids(runs), js2)
    BY <1>2, <1>3, <1>6, <1>7, NamesAfter, ZenonT(40)
<1>9. Past(del2, js2) /\ del2 \subseteq X2
    <2>1. CASE kept
        <3>1. del2 = del
            BY <2>1 DEF kept
        <3> QED BY <1>1, <1>8, <3>1
    <2>2. CASE ~kept
        <3>1. del2 = del \cup Ids(runs)
            BY <2>2 DEF kept, runs
        <3> QED BY <1>1, <1>4, <1>8, <2>2, <3>1
    <2> QED BY <2>1, <2>2
<1>10. a.trace.nextId = N /\ a.trace.upper = t.upper
    BY <1>1 DEF SameBut, N
<1>11. StateOK(a.trace, W, js2, del2, T, K2, X2)
    BY <1>0, <1>1, <1>2, <1>6, <1>8, <1>9, <1>10 DEF StateOK, runs
<1> QED BY <1>11 DEF SomeState

(* merge_res whose answer is lost.                                         *)
LEMMA LostAnswerOK ==
    ASSUME NEW t, NEW W, NEW js, NEW del, NEW T, NEW K, NEW X, StateOK(t, W, js, del, T, K, X),
           NEW j \in 1 .. Len(js), js[j].chunks # <<>>,
           NEW res, Offers(res, js[j], j, W, T, t.nextId, K, X),
           NEW a, a = ApplyMergeRes(t, res),
           NEW js2, js2 = WithJob(js, j, Retried(js[j], res, a))
    PROVE  SomeState(a.trace, W, js2, del, T)
<1> DEFINE N == t.nextId
           job == js[j]
           runs == res.output.runs
           kept == job.ever \/ a.applied
           b == Again(job, res, kept)
<1>0. PICK K2, X2 : K2 = K \cup res.output.runs /\ X2 = Left(X, res, js[j], a)
    OBVIOUS
<1>1. /\ World(W, T, N, K2)
      /\ Spined(a.trace, N, PartsFor(W, T, N, K2, X2), T) /\ SameBut(a.trace, t)
      /\ a.applied \in BOOLEAN
      /\ OthersOK(js, j, W, T, N, K2, X2)
      /\ ChunksOK(job.chunks, W, T, N, K2)
      /\ X2 \subseteq Ids(K2) /\ del \subseteq X2
    <2>1. AfterRes(a, t, js, j, del, W, T, N, K2, X2)
        BY <1>0, ApplyOK
    <2> QED BY <2>1 DEF AfterRes
<1>2. /\ N \in Nat /\ T[N] = t.upper /\ K \subseteq Run /\ Known(K, js, N) /\ js \in Seq(Job)
      /\ Past(del, js)
    BY StateFields
<1>3. res \in ResType /\ OutOK(res, W, T, N, K2) /\ runs \subseteq Run /\ Named(runs, j, Len(job.chunks))
    BY <1>0 DEF Offers, OutOK, OutType
<1>4. IF kept THEN Avoids(runs, X2) ELSE Ids(runs) \subseteq X2
    BY <1>0 DEF Left, Avoids, Ids
<1>5. kept \in BOOLEAN
    OBVIOUS
<1>6. js2 = WithJob(js, j, b)
    BY DEF Retried
<1> HIDE DEF N, kept
<1>7. JobOK(b, j, W, T, N, K2, X2)
    BY <1>1, <1>3, <1>4, <1>5, AgainOK
<1>8. b.chunks = job.chunks /\ b.out # <<>>
    <2>1. <<res>> # <<>>
        OBVIOUS
    <2> QED BY <2>1 DEF Again
<1> HIDE DEF b, runs
<1>9. /\ JobsOK(js2, W, T, N, K2, X2) /\ Len(js2) = Len(js) /\ js2[j] = b
      /\ \A i \in 1 .. Len(js) : i # j => js2[i] = js[i]
    BY <1>1, <1>6, <1>7, ReplaceJob
<1>10. Known(K2, js2, N)
    <2>1. ASSUME NEW r \in K2
          PROVE  \/ r.id[1] = 0 /\ r.id[2] < N
                 \/ /\ r.id[1] \in 1 .. Len(js2) /\ Len(js2[r.id[1]].chunks) <= r.id[2]
                    /\ r.id[2] = Len(js2[r.id[1]].chunks) => js2[r.id[1]].out # <<>>
        <3>1. CASE r \in runs
            <4>1. r.id[1] = j /\ r.id[2] = Len(js2[j].chunks) /\ js2[j].out # <<>>
                BY <1>3, <1>8, <1>9, <3>1 DEF Named
            <4>2. Len(js2[j].chunks) <= Len(js2[j].chunks)
                BY <1>2, <1>8, <1>9, JobFields
            <4> QED BY <1>9, <4>1, <4>2
        <3>2. CASE r \in K
            <4>1. CASE r.id[1] = j
                BY <1>2, <1>8, <1>9, <3>2, <4>1 DEF Known
            <4>2. CASE r.id[1] # j
                BY <1>2, <1>9, <3>2, <4>2 DEF Known
            <4> QED BY <4>1, <4>2
        <3> QED BY <1>0, <3>1, <3>2 DEF runs
    <2> QED BY <2>1 DEF Known
<1>11. Past(del, js2)
    <2>1. ASSUME NEW x \in del PROVE x[1] \in 1 .. Len(js2) /\ Len(js2[x[1]].chunks) < x[2]
        <3>1. x[1] \in 1 .. Len(js) /\ Len(js[x[1]].chunks) < x[2]
            BY <1>2 DEF Past
        <3>2. CASE x[1] = j
            BY <1>8, <1>9, <3>1, <3>2
        <3>3. CASE x[1] # j
            BY <1>9, <3>1, <3>3
        <3> QED BY <3>2, <3>3
    <2> QED BY <2>1 DEF Past
<1>12. a.trace.nextId = N /\ a.trace.upper = t.upper
    BY <1>1 DEF SameBut, N
<1>13. StateOK(a.trace, W, js2, del, T, K2, X2)
    BY <1>1, <1>2, <1>9, <1>10, <1>11, <1>12 DEF StateOK
<1> QED BY <1>13 DEF SomeState

(* A compaction that is given up leaves what it has written behind.        *)
LEMMA GiveUpOK ==
    ASSUME NEW t, NEW W, NEW js, NEW del, NEW T, NEW K, NEW X, StateOK(t, W, js, del, T, K, X),
           NEW j \in 1 .. Len(js), js[j].chunks # <<>>,
           NEW js2, js2 = WithJob(js, j, GivenUp)
    PROVE  StateOK(t, W, js2, del, T, K, X)
<1> DEFINE N == t.nextId
           b == GivenUp
<1>1. /\ World(W, T, N, K) /\ T[N] = t.upper /\ N \in Nat
      /\ Spined(t, N, PartsFor(W, T, N, K, X), T)
      /\ JobsOK(js, W, T, N, K, X) /\ js \in Seq(Job) /\ K \subseteq Run
      /\ X \subseteq Ids(K) /\ del \subseteq X /\ del \subseteq RunId
      /\ Known(K, js, N) /\ Past(del, js)
    BY StateFields
<1> HIDE DEF N
<1>2. OthersOK(js, j, W, T, N, K, X)
    BY <1>1 DEF OthersOK, JobsOK
<1>3. JobOK(b, j, W, T, N, K, X) /\ Len(b.chunks) = 0 /\ js2 = WithJob(js, j, b)
    BY GivenUpOK
<1> HIDE DEF b
<1>4. /\ JobsOK(js2, W, T, N, K, X) /\ Len(js2) = Len(js) /\ js2[j] = b
      /\ \A i \in 1 .. Len(js) : i # j => js2[i] = js[i]
    BY <1>2, <1>3, ReplaceJob
<1>5. Len(js2[j].chunks) \in Nat /\ Len(js2[j].chunks) < Len(js[j].chunks)
    <2>1. js[j].chunks \in Seq(ChunkType)
        BY <1>1, JobFields
    <2>2. Len(js[j].chunks) \in Nat /\ Len(js[j].chunks) # 0
        BY <2>1, EmptySeq
    <2> QED BY <1>3, <1>4, <2>2
<1>6. PICK runs : runs = {}
    OBVIOUS
<1>7. Named(runs, j, Len(js[j].chunks)) /\ runs \subseteq Run /\ K \cup runs = K
    BY <1>6 DEF Named
<1>8. Known(K \cup runs, js2, N) /\ Past(del, js2)
    BY <1>1, <1>4, <1>5, <1>7, NamesAfter
<1> QED BY <1>1, <1>4, <1>7, <1>8 DEF StateOK, N

-----------------------------------------------------------------------------
(* compare_and_append.                                                     *)

(* A written run lies before the end, or it would take no time.            *)
LEMMA WrittenBefore ==
    ASSUME NEW W, NEW T, NEW N, NEW K, World(W, T, N, K), NEW w \in W
    PROVE  w[2] \in Nat /\ w[2] + 1 \in Nat /\ w[2] < N
<1>1. w[2] \in Nat /\ N \in Nat
    BY DEF World, RunId
<1>2. SUFFICES ASSUME N <= w[2] PROVE FALSE
    BY <1>1
<1>3. T[w[2]] = T[N] /\ T[w[2] + 1] = T[N] /\ T[N] \in Nat
    BY <1>1, <1>2 DEF World, Times
<1> QED BY <1>3 DEF World

Later(T, N) == [n \in Nat |-> IF n <= N THEN T[n] ELSE T[N] + 1]

AtEnd(V, N) == V \subseteq RunId /\ \A w \in V : w[2] = N

Moves(W, T, N, K, X, W2, T2) ==
    /\ World(W2, T2, N + 1, K) /\ Grows(W, T, N, K, X, W2, T2, N + 1, K, X)
    /\ T2[N] = T[N] /\ T2[N + 1] = T[N] + 1

(* The world after a batch: time goes on, and only ids at the end are      *)
(* written.                                                                *)
LEMMA LaterWorld ==
    ASSUME NEW W, NEW T, NEW N, NEW K, NEW X, World(W, T, N, K), NEW V, AtEnd(V, N)
    PROVE  Moves(W, T, N, K, X, W \cup V, Later(T, N))
<1> DEFINE T2 == Later(T, N)
           W2 == W \cup V
<1>1. /\ N \in Nat /\ N + 1 \in Nat /\ T \in [Nat -> Nat] /\ T[0] = 0 /\ T[N] \in Nat
      /\ \A m, n \in Nat : m <= n => T[m] <= T[n]
      /\ W \subseteq RunId /\ \A w \in W : T[w[2]] < T[w[2] + 1]
    BY DEF World, Times
<1>2. /\ T2 \in [Nat -> Nat]
      /\ \A n \in Nat : T2[n] = IF n <= N THEN T[n] ELSE T[N] + 1
    BY <1>1 DEF Later
<1> HIDE DEF T2
<1>3. Times(T2)
    <2>1. ASSUME NEW m \in Nat, NEW n \in Nat, m <= n PROVE T2[m] <= T2[n]
        <3>1. CASE n <= N
            <4>1. m <= N
                BY <1>1, <2>1, <3>1
            <4> QED BY <1>1, <1>2, <2>1, <3>1, <4>1
        <3>2. CASE ~(n <= N) /\ m <= N
            <4>1. T2[m] = T[m] /\ T[m] <= T[N] /\ T2[n] = T[N] + 1 /\ T[m] \in Nat
                BY <1>1, <1>2, <3>2
            <4> QED BY <1>1, <4>1
        <3>3. CASE ~(n <= N) /\ ~(m <= N)
            BY <1>1, <1>2, <3>3
        <3> QED BY <3>1, <3>2, <3>3
    <2> QED BY <1>2, <2>1 DEF Times
<1>4. /\ T2[0] = 0 /\ T2[N] = T[N] /\ T2[N + 1] = T[N] + 1
      /\ \A n \in Nat : N + 1 <= n => T2[n] = T2[N + 1]
      /\ \A n \in 0 .. N : T2[n] = T[n]
    BY <1>1, <1>2
<1>5. ASSUME NEW w \in W2 PROVE T2[w[2]] < T2[w[2] + 1]
    <2>1. CASE w \in V
        <3>1. w[2] = N
            BY <2>1 DEF AtEnd
        <3> QED BY <1>1, <1>4, <3>1
    <2>2. CASE w \in W
        <3>1. w[2] \in Nat /\ w[2] + 1 \in Nat /\ w[2] < N
            BY <2>2, WrittenBefore
        <3>2. T[w[2]] < T[w[2] + 1]
            BY <1>1, <2>2
        <3>3. w[2] \in 0 .. N /\ w[2] + 1 \in 0 .. N
            BY <1>1, <3>1
        <3> QED BY <1>4, <3>2, <3>3
    <2> QED BY <2>1, <2>2
<1>6. W2 \subseteq RunId /\ W \subseteq W2 /\ \A w \in W2 \ W : N <= w[2]
    BY <1>1 DEF AtEnd
<1> HIDE DEF W2
<1>7. World(W2, T2, N + 1, K)
    <2>1. K \subseteq Run /\ (\A r \in K : r.len > 0 /\ r.of # {}) /\ \A r, q \in K : r.id = q.id => r = q
        BY DEF World
    <2> QED BY <1>1, <1>3, <1>4, <1>5, <1>6, <2>1 DEF World
<1>8. Grows(W, T, N, K, X, W2, T2, N + 1, K, X)
    <2>1. N <= N + 1
        BY <1>1
    <2> QED BY <1>4, <1>6, <2>1 DEF Grows
<1> QED BY <1>4, <1>7, <1>8 DEF Moves, T2, W2

NewRun(N, lens, k) == [id |-> <<0, N, k>>, len |-> lens[k], of |-> {<<0, N, k>>}]
NewBatch(N, lens)  == {NewRun(N, lens, k) : k \in 1 .. Len(lens)}

(* The runs of a batch that is appended are named after its id.            *)
LEMMA NewBatchIs ==
    ASSUME NEW N \in Nat, NEW lens \in Seq(Nat \ {0}), NEW R, R = NewBatch(N, lens)
    PROVE  /\ R \subseteq Run /\ IsFiniteSet(R)
           /\ \A r \in R : r.len > 0 /\ r.of = {r.id} /\ r.id[1] = 0 /\ r.id[2] = N
           /\ \A r, q \in R : r.id = q.id => r = q
           /\ Ids(R) \subseteq RunId
<1> DEFINE n == Len(lens)
           f == [k \in 1 .. n |-> NewRun(N, lens, k)]
<1>1. n \in Nat /\ \A k \in 1 .. n : lens[k] \in Nat /\ lens[k] > 0
    <2>1. \A k \in 1 .. n : lens[k] \in Nat \ {0}
        OBVIOUS
    <2> QED BY <2>1
<1> HIDE DEF n
<1>2. ASSUME NEW k \in 1 .. n
      PROVE  LET r == NewRun(N, lens, k)
             IN r \in Run /\ r.len > 0 /\ r.id = <<0, N, k>> /\ r.of = {r.id} /\ r.id[1] = 0 /\ r.id[2] = N
    <2> DEFINE i == <<0, N, k>>
               r == NewRun(N, lens, k)
    <2>1. i \in RunId /\ i[1] = 0 /\ i[2] = N
        BY DEF RunId
    <2> HIDE DEF i
    <2>2. r = [id |-> i, len |-> lens[k], of |-> {i}]
        BY DEF NewRun, i
    <2>3. lens[k] \in Nat /\ lens[k] > 0
        BY <1>1
    <2> HIDE DEF r
    <2>4. r \in Run /\ r.len > 0 /\ r.id = i /\ r.of = {i}
        BY <2>1, <2>2, <2>3 DEF Run
    <2> QED BY <2>1, <2>4 DEF r, i
<1>3. \A r \in R : \E k \in 1 .. n : r = NewRun(N, lens, k)
    BY DEF NewBatch, n
<1>4. IsFiniteSet(R)
    <2>1. \A k \in 1 .. n : f[k] = NewRun(N, lens, k)
        OBVIOUS
    <2>2. DOMAIN f = 1 .. n
        OBVIOUS
    <2> HIDE DEF f
    <2>3. R = {f[k] : k \in 1 .. n}
        BY <2>1 DEF NewBatch, n
    <2>4. 1 .. n \subseteq 1 .. n
        OBVIOUS
    <2>5. IsFiniteSet({f[k] : k \in 1 .. n})
        BY <1>1, <2>2, <2>4, FiniteImage
    <2> QED BY <2>3, <2>5
<1>5. ASSUME NEW r \in R, NEW q \in R, r.id = q.id PROVE r = q
    <2>1. PICK k \in 1 .. n : r = NewRun(N, lens, k)
        BY <1>3
    <2>2. PICK l \in 1 .. n : q = NewRun(N, lens, l)
        BY <1>3
    <2>3. r.id = <<0, N, k>> /\ q.id = <<0, N, l>>
        BY <1>2, <2>1, <2>2
    <2>4. k = l
        <3>1. r.id[3] = k /\ q.id[3] = l
            BY <2>3
        <3> QED BY <1>5, <3>1
    <2> QED BY <2>1, <2>2, <2>4
<1>6. ASSUME NEW r \in R PROVE r \in Run /\ r.len > 0 /\ r.of = {r.id} /\ r.id[1] = 0 /\ r.id[2] = N
    <2>1. PICK k \in 1 .. n : r = NewRun(N, lens, k)
        BY <1>3
    <2> QED BY <1>2, <2>1
<1>7. Ids(R) \subseteq RunId
    BY <1>6 DEF Ids, Run
<1> QED BY <1>4, <1>5, <1>6, <1>7

NewPart(t, runs) ==
    [id |-> <<t.nextId, t.nextId + 1>>, lower |-> t.upper, upper |-> t.upper + 1,
     since |-> 0, len |-> RunsLen(runs), runs |-> runs, gone |-> {}]

(* The world grows by a batch.                                             *)
Appends(t, N, lens, R, p, W, T, K, W2, T2, K2) ==
    /\ N = t.nextId /\ T[N] = t.upper /\ lens \in Seq(Nat \ {0})
    /\ R = NewBatch(N, lens) /\ p = NewPart(t, R)
    /\ W2 = W \cup Ids(R) /\ T2 = Later(T, N) /\ K2 = K \cup R

Brings(p, PS, N, T) ==
    /\ p \in PS /\ p.id[1] = N /\ p.id[2] = N + 1 /\ p.since = 0 /\ p.upper = T[N] + 1

(* The part that compare_and_append brings is one of the parts it should be.*)
LEMMA NewPartFor ==
    ASSUME NEW W, NEW T, NEW N, NEW K, NEW X, World(W, T, N, K),
           NEW t, NEW lens, NEW R, NEW p, NEW W2, NEW T2, NEW K2,
           Appends(t, N, lens, R, p, W, T, K, W2, T2, K2),
           World(W2, T2, N + 1, K2), Avoids(R, X)
    PROVE  Brings(p, PartsFor(W2, T2, N + 1, K2, X), N, T)
<1>0. /\ N = t.nextId /\ T[N] = t.upper /\ lens \in Seq(Nat \ {0})
      /\ R = NewBatch(N, lens) /\ p = NewPart(t, R)
      /\ W2 = W \cup Ids(R) /\ T2 = Later(T, N) /\ K2 = K \cup R
    BY DEF Appends
<1>1. /\ R \subseteq Run /\ IsFiniteSet(R)
      /\ \A r \in R : r.len > 0 /\ r.of = {r.id} /\ r.id[1] = 0 /\ r.id[2] = N
      /\ \A r, q \in R : r.id = q.id => r = q
      /\ Ids(R) \subseteq RunId /\ N \in Nat
    BY <1>0, NewBatchIs DEF World
<1>2. R \subseteq K2
    BY <1>0
<1>3. RunsLen(R) \in Nat
    BY <1>1, <1>2, KnownRuns
<1>4. T[N] \in Nat /\ T2[N] = T[N] /\ T2[N + 1] = T[N] + 1
    <2>1. T[N] \in Nat
        BY <1>1 DEF World, Times
    <2>2. N \in Nat /\ N + 1 \in Nat /\ N <= N /\ ~(N + 1 <= N)
        BY <1>1
    <2> QED BY <1>0, <2>1, <2>2 DEF Later
<1>5. p \in Part /\ p.id = <<N, N + 1>> /\ p.lower = T[N] /\ p.upper = T[N] + 1 /\ p.since = 0
      /\ p.len = RunsLen(R) /\ p.runs = R /\ p.gone = {}
    <2> DEFINE i == <<N, N + 1>>
    <2>1. i \in Span
        BY <1>1 DEF Span
    <2>2. p = [id |-> i, lower |-> T[N], upper |-> T[N] + 1, since |-> 0, len |-> RunsLen(R),
               runs |-> R, gone |-> {}]
        BY <1>0 DEF NewPart
    <2> HIDE DEF i
    <2>3. {} \in SUBSET RunId /\ R \in SUBSET Run /\ T[N] + 1 \in Nat
        BY <1>1, <1>4
    <2>4. p \in Part /\ p.id = i
        BY <1>3, <1>4, <2>1, <2>2, <2>3 DEF Part
    <2> QED BY <2>2, <2>4 DEF i
<1>6. p.id[1] = N /\ p.id[2] = N + 1
    BY <1>5
<1>7. Body(R, {}, K2)
    <2>1. \A r, q \in R : r # q => r.of \cap q.of = {}
        BY <1>1
    <2> QED BY <1>1, <1>2, <2>1 DEF Body, Apart
<1>8. ASSUME NEW w PROVE w \in Held(R, {}) <=> w \in Ids(R)
    BY <1>1 DEF Held, Ids
<1>9. ASSUME NEW w \in W2
      PROVE  w \in Ids(R) <=> T[N] <= T2[w[2]] /\ T2[w[2] + 1] <= T[N] + 1
    <2>1. /\ w[2] \in Nat
          /\ T2[N] <= T2[w[2]] /\ T2[w[2] + 1] <= T2[N + 1] <=> N <= w[2] /\ w[2] < N + 1
        <3>1. N \in Nat /\ N + 1 \in Nat
            BY <1>1
        <3> QED BY <3>1, TimeToIds
    <2>2. CASE w \in Ids(R)
        <3>1. w[2] = N
            BY <1>1, <2>2 DEF Ids
        <3> QED BY <1>1, <1>4, <2>1, <2>2, <3>1
    <2>3. CASE w \notin Ids(R)
        <3>1. w[2] < N
            BY <1>0, <2>3, WrittenBefore
        <3> QED BY <1>1, <1>4, <2>1, <2>3, <3>1
    <2> QED BY <2>2, <2>3
<1>10. Held(R, {}) = In(W2, T2, T[N], T[N] + 1)
    <2>1. Ids(R) \subseteq W2
        BY <1>0
    <2> QED BY <1>8, <1>9, <2>1 DEF In
<1>11. PartFor(p, W2, T2, N + 1, K2, X)
    <2>1. Timed(p, T2)
        BY <1>4, <1>5, <1>6 DEF Timed
    <2>2. N <= N + 1 /\ N + 1 <= N + 1
        BY <1>1
    <2> QED BY <1>5, <1>6, <1>7, <1>10, <2>1, <2>2 DEF PartFor
<1>12. p \in PartsFor(W2, T2, N + 1, K2, X)
    BY <1>5, <1>11, InPart
<1> QED BY <1>5, <1>6, <1>12 DEF Brings

(* compare_and_append: the spine after it, and everything but the requests. *)
LEMMA AppendedOK ==
    ASSUME NEW t, NEW W, NEW js, NEW del, NEW T, NEW K, NEW X, StateOK(t, W, js, del, T, K, X),
           NEW N, NEW lens, NEW R, NEW p, NEW W2, NEW T2, NEW K2,
           Appends(t, N, lens, R, p, W, T, K, W2, T2, K2),
           NEW new, new = PushBatch(t, p)
    PROVE  /\ World(W2, T2, N + 1, K2) /\ N \in Nat
           /\ Spined(new, N + 1, PartsFor(W2, T2, N + 1, K2, X), T2)
           /\ new.nextId = N + 1 /\ new.upper = T2[N + 1]
           /\ JobsOK(js, W2, T2, N + 1, K2, X)
           /\ X \subseteq Ids(K2)
           /\ \A r \in K2 : r \in K \/ (r.id[1] = 0 /\ r.id[2] = N)
<1>0. /\ N = t.nextId /\ T[N] = t.upper /\ lens \in Seq(Nat \ {0})
      /\ R = NewBatch(N, lens) /\ p = NewPart(t, R)
      /\ W2 = W \cup Ids(R) /\ T2 = Later(T, N) /\ K2 = K \cup R
    BY DEF Appends
<1>1. /\ World(W, T, N, K) /\ T[N] = t.upper /\ N \in Nat
      /\ Spined(t, N, PartsFor(W, T, N, K, X), T)
      /\ JobsOK(js, W, T, N, K, X) /\ X \subseteq Ids(K) /\ Known(K, js, N)
    BY <1>0, StateFields
<1>2. /\ R \subseteq Run /\ IsFiniteSet(R)
      /\ \A r \in R : r.len > 0 /\ r.of = {r.id} /\ r.id[1] = 0 /\ r.id[2] = N
      /\ \A r, q \in R : r.id = q.id => r = q
      /\ Ids(R) \subseteq RunId
    BY <1>0, <1>1, NewBatchIs
<1>3. \A r \in K : r.id \notin Ids(R)
    <2> SUFFICES ASSUME NEW r \in K, NEW q \in R, r.id = q.id PROVE FALSE
        BY DEF Ids
    <2>1. r.id[1] = 0 /\ r.id[2] = N
        BY <1>2
    <2> QED BY <1>1, <2>1 DEF Known
<1>4. Avoids(R, X)
    <2>1. ASSUME NEW q \in R, q.id \in X PROVE FALSE
        <3>1. PICK r \in K : r.id = q.id
            BY <1>1, <2>1 DEF Ids
        <3> QED BY <1>3, <3>1 DEF Ids
    <2> QED BY <2>1 DEF Avoids
<1>5. World(W, T, N, K2)
    <2> DEFINE o == [runs |-> R]
               name == <<0, N>>
    <2>1. o.runs = R /\ name[1] = 0 /\ name[2] = N
        OBVIOUS
    <2> HIDE DEF o, name
    <2>2. \A r \in R : r.of # {}
        BY <1>2
    <2>3. Fresh(o, name, K)
        BY <1>2, <2>1, <2>2 DEF Fresh, Named
    <2>4. \A r \in K : r.id \notin Ids(o.runs)
        BY <1>3, <2>1
    <2>5. World(W, T, N, K \cup o.runs)
        BY <1>1, <2>3, <2>4, NewRuns
    <2> QED BY <1>0, <2>1, <2>5
<1>6. Grows(W, T, N, K, X, W, T, N, K2, X)
    BY <1>0, <1>1, MoreRuns
<1>7. /\ World(W2, T2, N + 1, K2)
      /\ Grows(W, T, N, K2, X, W2, T2, N + 1, K2, X)
      /\ T2[N] = T[N] /\ T2[N + 1] = T[N] + 1
    <2>1. PICK V : V = Ids(R)
        OBVIOUS
    <2>2. AtEnd(V, N)
        BY <1>2, <2>1 DEF Ids, AtEnd
    <2>3. Moves(W, T, N, K2, X, W \cup V, Later(T, N))
        BY <1>5, <2>2, LaterWorld
    <2> QED BY <1>0, <2>1, <2>3 DEF Moves
<1>8. /\ p \in PartsFor(W2, T2, N + 1, K2, X)
      /\ p.id[1] = N /\ p.id[2] = N + 1 /\ p.since = 0 /\ p.upper = T[N] + 1
    <2>1. Brings(p, PartsFor(W2, T2, N + 1, K2, X), N, T)
        BY <1>1, <1>4, <1>7, NewPartFor
    <2> QED BY <2>1 DEF Brings
<1> DEFINE PS == PartsFor(W, T, N, K, X)
           PS1 == PartsFor(W, T, N, K2, X)
           PS2 == PartsFor(W2, T2, N + 1, K2, X)
<1>9. BatchesOf(PS, T) \subseteq BatchesOf(PS2, T2)
    <2>1. BatchesOf(PS, T) \subseteq BatchesOf(PS1, T)
        BY <1>1, <1>5, <1>6, PartsGrow
    <2>2. BatchesOf(PS1, T) \subseteq BatchesOf(PS2, T2)
        BY <1>5, <1>7, PartsGrow
    <2> QED BY <2>1, <2>2
<1>10. Times(T2) /\ GoodParts(PS2, T2)
    BY <1>7, PartsAreGood DEF World
<1>11. JobsOK(js, W2, T2, N + 1, K2, X)
    <2>1. JobsOK(js, W, T, N, K2, X)
        <3>1. X \subseteq X
            OBVIOUS
        <3> QED BY <1>1, <1>5, <1>6, <3>1, JobsGrow
    <2>2. X \subseteq X
        OBVIOUS
    <2> QED BY <1>5, <1>7, <2>1, <2>2, JobsGrow
<1> HIDE DEF PS, PS1, PS2
<1>12. Spined(t, N, PS2, T2) /\ t.since \in Nat /\ t.nextId \in Nat
    <2>1. t \in Trace /\ t.panicked = FALSE /\ t.reqs \subseteq ReqsOf(BatchesOf(PS, T))
        BY <1>1 DEF Spined, Laid, Good, PS
    <2>2. t.reqs \subseteq ReqsOf(BatchesOf(PS2, T2))
        BY <1>9, <2>1 DEF ReqsOf
    <2>3. t.since <= t.since /\ t.since \in Nat /\ t.nextId \in Nat
        BY <2>1 DEF Trace
    <2>4. Spined(t, N, PS, T)
        BY <1>1 DEF PS
    <2>5. Spined(t, N, PS2, T2)
        BY <1>9, <2>1, <2>2, <2>3, <2>4, SpinedFrom
    <2> QED BY <2>3, <2>5
<1>13. p \in PS2 /\ p.since <= t.since
    BY <1>8, <1>12 DEF PS2
<1>14. Spined(PushBatch(t, p), p.id[2], PS2, T2) /\ Grown(PushBatch(t, p), t, p)
    BY <1>8, <1>10, <1>12, <1>13, PushBatchOK
<1>15. Spined(new, N + 1, PS2, T2) /\ new.nextId = N + 1 /\ new.upper = T2[N + 1]
    BY <1>0, <1>7, <1>8, <1>14 DEF Grown
<1>16. X \subseteq Ids(K2)
    BY <1>0, <1>1 DEF Ids
<1>17. \A r \in K2 : r \in K \/ (r.id[1] = 0 /\ r.id[2] = N)
    BY <1>0, <1>2
<1> QED BY <1>1, <1>7, <1>11, <1>15, <1>16, <1>17 DEF PS2

-----------------------------------------------------------------------------
(* Forced compaction, downgrades, and the beginning.                       *)

(* An id that takes no time, as exert uses for an empty batch.             *)
LEMMA SameTimes ==
    ASSUME NEW W, NEW T, NEW N, NEW K, NEW X, World(W, T, N, K)
    PROVE  /\ World(W, T, N + 1, K) /\ Grows(W, T, N, K, X, W, T, N + 1, K, X)
           /\ T[N + 1] = T[N] /\ T[N] \in Nat
<1>1. /\ N \in Nat /\ N + 1 \in Nat /\ N <= N + 1 /\ T \in [Nat -> Nat]
      /\ \A n \in Nat : N <= n => T[n] = T[N]
    BY DEF World, Times
<1>2. T[N + 1] = T[N] /\ T[N] \in Nat
    BY <1>1
<1>3. \A n \in Nat : N + 1 <= n => T[n] = T[N + 1]
    BY <1>1, <1>2
<1>4. World(W, T, N + 1, K)
    BY <1>1, <1>3 DEF World
<1>5. Grows(W, T, N, K, X, W, T, N + 1, K, X)
    BY <1>1 DEF Grows
<1> QED BY <1>2, <1>4, <1>5

(* A round of forced compaction, and everything but the requests.          *)
Exerted(w, N2, W, js, T, K, X, N) ==
    /\ N2 \in Nat /\ N <= N2 /\ World(W, T, N2, K)
    /\ Spined(w, N2, PartsFor(W, T, N2, K, X), T)
    /\ w.nextId = N2 /\ w.upper = T[N2]
    /\ JobsOK(js, W, T, N2, K, X)

(* spine_exert keeps the invariant.                                        *)
LEMMA ExertedOK ==
    ASSUME NEW t, NEW W, NEW js, NEW del, NEW T, NEW K, NEW X, StateOK(t, W, js, del, T, K, X),
           NEW effort \in Nat, NEW w, w = Exert(t, effort)
    PROVE  \E N2 : Exerted(w, N2, W, js, T, K, X, t.nextId)
<1> DEFINE N == t.nextId
           PS == PartsFor(W, T, N, K, X)
           PS2 == PartsFor(W, T, N + 1, K, X)
<1>1. /\ World(W, T, N, K) /\ T[N] = t.upper /\ N \in Nat /\ Spined(t, N, PS, T)
      /\ JobsOK(js, W, T, N, K, X)
    BY StateFields
<1>2. t \in Trace /\ t.since \in Nat
    BY <1>1 DEF Spined, Laid, Good, Trace
<1> HIDE DEF N
<1>3. /\ World(W, T, N + 1, K) /\ Grows(W, T, N, K, X, W, T, N + 1, K, X)
      /\ T[N + 1] = T[N] /\ T[N] \in Nat
    BY <1>1, SameTimes
<1>4. Times(T) /\ GoodParts(PS, T) /\ GoodParts(PS2, T)
    BY <1>1, <1>3, PartsAreGood DEF World
<1>5. BatchesOf(PS, T) \subseteq BatchesOf(PS2, T)
    BY <1>1, <1>3, PartsGrow
<1>6. EmptyPart(<<N, N + 1>>, t.upper, t.upper, t.since, {}) \in PS2
    <2>1. In(W, T, T[N], T[N]) = {}
        BY <1>1, <1>3, NoTime
    <2>2. PICK G : G = {}
        OBVIOUS
    <2>3. PICK M : M = N + 1
        OBVIOUS
    <2>4. N \in Nat /\ M \in Nat /\ N <= M /\ M <= M /\ G \in SUBSET RunId /\ G = In(W, T, T[N], T[M])
        BY <1>1, <1>3, <2>1, <2>2, <2>3
    <2>5. World(W, T, M, K)
        BY <1>3, <2>3
    <2>6. EmptyPart(<<N, M>>, T[N], T[M], t.since, G) \in PartsFor(W, T, M, K, X)
        BY <1>2, <2>4, <2>5, EmptyPartFor
    <2> QED BY <1>1, <1>3, <2>2, <2>3, <2>6
<1> HIDE DEF PS, PS2
<1>7. /\ w.upper = t.upper
      /\ \/ w.nextId = N /\ Spined(w, N, PS, T)
         \/ w.nextId = N + 1 /\ Spined(w, N + 1, PS2, T)
    <2>1. t.nextId = N
        BY DEF N
    <2> QED BY <1>1, <1>4, <1>5, <1>6, <2>1, ExertOK
<1>8. CASE w.nextId = N /\ Spined(w, N, PS, T)
    <2>1. N <= N
        BY <1>1
    <2> QED BY <1>1, <1>7, <1>8, <2>1 DEF Exerted, N, PS
<1>9. CASE w.nextId = N + 1 /\ Spined(w, N + 1, PS2, T)
    <2>1. N <= N + 1 /\ N + 1 \in Nat
        BY <1>1
    <2>2. JobsOK(js, W, T, N + 1, K, X)
        <3>1. X \subseteq X
            OBVIOUS
        <3> QED BY <1>1, <1>3, <3>1, JobsGrow
    <2>3. Exerted(w, N + 1, W, js, T, K, X, N)
        BY <1>1, <1>3, <1>7, <1>9, <2>1, <2>2 DEF Exerted, PS2
    <2> QED BY <2>3 DEF N
<1> QED BY <1>7, <1>8, <1>9

(* A since that moves forward.                                             *)
LEMMA DowngradedOK ==
    ASSUME NEW t, NEW W, NEW js, NEW del, NEW T, NEW K, NEW X, StateOK(t, W, js, del, T, K, X),
           NEW u, u = [t EXCEPT !.since = @ + 1]
    PROVE  StateOK(u, W, js, del, T, K, X)
<1> DEFINE N == t.nextId
           PS == PartsFor(W, T, N, K, X)
<1>1. Spined(t, N, PS, T)
    BY StateFields
<1>2. t \in Trace /\ t.panicked = FALSE /\ t.reqs \subseteq ReqsOf(BatchesOf(PS, T))
    BY <1>1 DEF Spined, Laid, Good
<1>3. /\ u \in Trace /\ u.layers = t.layers /\ t.since <= u.since /\ u.panicked = FALSE
      /\ u.reqs = t.reqs /\ u.nextId = N /\ u.upper = t.upper
    BY <1>2 DEF Trace
<1> HIDE DEF N, PS
<1>4. BatchesOf(PS, T) \subseteq BatchesOf(PS, T)
    OBVIOUS
<1>5. Spined(u, N, PS, T)
    BY <1>1, <1>2, <1>3, <1>4, SpinedFrom
<1> QED BY <1>3, <1>5 DEF StateOK, N, PS

(* The state once the requests have been handed out.                       *)
LEMMA HandedOut ==
    ASSUME NEW W, NEW T, NEW N, NEW K, NEW X, World(W, T, N, K),
           NEW w, Spined(w, N, PartsFor(W, T, N, K, X), T), w.nextId = N, w.upper = T[N],
           NEW js, JobsOK(js, W, T, N, K, X), X \subseteq Ids(K), NEW del, del \subseteq X,
           Known(K, js, N), Past(del, js)
    PROVE  StateOK(Cleared(w), W, js, del, T, K, X)
<1> DEFINE u == Cleared(w)
<1>1. Spined(u, N, PartsFor(W, T, N, K, X), T) /\ SameBut(u, w)
    BY ClearedOK
<1> HIDE DEF u
<1>2. u.nextId = N /\ u.upper = T[N]
    BY <1>1 DEF SameBut
<1> QED BY <1>1, <1>2 DEF StateOK, u

(* An empty trace.                                                         *)
LEMMA NewTraceOK == \E T, K, X : StateOK(NewTrace, {}, <<>>, {}, T, K, X)
<1> DEFINE T == [n \in Nat |-> 0]
           PS == PartsFor({}, T, 0, {}, {})
           cut == [n \in Nat |-> 0]
           t == NewTrace
<1>1. World({}, T, 0, {})
    BY DEF World, Times
<1>2. /\ t \in Trace /\ t.layers = <<>> /\ t.panicked = FALSE /\ t.reqs = {} /\ t.nextId = 0 /\ t.upper = 0
      /\ Len(t.layers) = 0
    <2>1. <<>> \in Seq(Layer)
        BY EmptySeq
    <2> QED BY <2>1 DEF NewTrace, Trace
<1> HIDE DEF t
<1>3. \A i \in Positive : Lay(t)[i] = VacantLayer
    BY <1>2 DEF Lay, At, Positive
<1>4. Good(t, PS, T)
    <2> HIDE DEF PS, T
    <2>1. \A i \in Positive : LayerOK(VacantLayer, i, t.since, BatchesOf(PS, T))
        BY VacantOK
    <2> QED BY <1>2, <1>3, <2>1 DEF Good
<1>5. \A i \in Positive : Num(Lay(t)[i]) = 0 /\ Num(VacantLayer) = 0
    BY <1>3, VacantType DEF Num
<1>6. Laid(t, 0, cut, cut, PS, T)
    <2> HIDE DEF PS, T
    <2>1. cut \in [Nat -> Nat] /\ \A n \in Nat : cut[n] = 0
        OBVIOUS
    <2>2. \A i \in Positive : i \in Nat /\ i - 1 \in Nat
        BY DEF Positive
    <2> HIDE DEF cut
    <2>3. Tiled(Lay(t), 0, cut)
        BY <1>5, <2>1, <2>2 DEF Tiled
    <2>4. Weighs(Lay(t), cut)
        BY <1>5, <2>1, <2>2 DEF Weighs, Weight
    <2> QED BY <1>2, <1>4, <2>1, <2>3, <2>4 DEF Laid
<1>7. Spined(t, 0, PS, T)
    <2> HIDE DEF PS, T, cut
    <2>1. \A k \in Positive : FuelAt(Lay(t), cut, k, 0)
        BY <1>5 DEF FuelAt
    <2> QED BY <1>6, <2>1 DEF Spined
<1>8. T[0] = 0
    OBVIOUS
<1> HIDE DEF T
<1>9. JobsOK(<<>>, {}, T, 0, {}, {})
    BY EmptySeq DEF JobsOK
<1>10. Known({}, <<>>, 0) /\ Past({}, <<>>)
    BY DEF Known, Past
<1>11. StateOK(t, {}, <<>>, {}, T, {}, {})
    BY <1>1, <1>2, <1>7, <1>8, <1>9, <1>10 DEF StateOK, PS
<1> QED BY <1>11 DEF t

-----------------------------------------------------------------------------
(* The actions.                                                            *)

(* The inductive invariant.                                                *)
CompactionInv == \E T, K, X : StateOK(trace, written, jobs, deleted, T, K, X)

(* The invariant holds of an empty shard.                                  *)
LEMMA InitInv ==
    ASSUME Init
    PROVE  CompactionInv
BY NewTraceOK DEF Init, CompactionInv

(* compare_and_append keeps the invariant.                                 *)
LEMMA AppendBatchInv ==
    ASSUME CompactionInv, NEW lens \in Batches, AppendBatch(lens)
    PROVE  CompactionInv'
<1>1. PICK T, K, X : StateOK(trace, written, jobs, deleted, T, K, X)
    BY DEF CompactionInv
<1> DEFINE N == trace.nextId
           R == NewBatch(N, lens)
           p == NewPart(trace, R)
           asked(new) == IF new.reqs = {} /\ R # {} THEN ClaimableReqs(new) ELSE Needed(new.reqs)
<1>2. PICK new : /\ new = PushBatch(trace, p) /\ trace' = Cleared(new) /\ TakeUp(asked(new))
                 /\ written' = written \cup Ids(R) /\ deleted' = deleted
    BY ZenonT(40) DEF AppendBatch, NewBatch, NewRun, NewPart, Cleared, Ids
<1>3. lens \in Seq(Nat \ {0})
    BY CompactionAssumption
<1>4. PICK W2, T2, K2 : W2 = written \cup Ids(R) /\ T2 = Later(T, N) /\ K2 = K \cup R
    OBVIOUS
<1>5. /\ N \in Nat /\ T[N] = trace.upper /\ Known(K, jobs, N) /\ Past(deleted, jobs)
      /\ deleted \subseteq X /\ K \subseteq Run
    BY <1>1, StateFields
<1>6. Appends(trace, N, lens, R, p, written, T, K, W2, T2, K2)
    BY <1>3, <1>4, <1>5 DEF Appends
<1> HIDE DEF N, R, p
<1>7. /\ World(W2, T2, N + 1, K2)
      /\ Spined(new, N + 1, PartsFor(W2, T2, N + 1, K2, X), T2)
      /\ new.nextId = N + 1 /\ new.upper = T2[N + 1]
      /\ JobsOK(jobs, W2, T2, N + 1, K2, X)
      /\ X \subseteq Ids(K2)
      /\ \A r \in K2 : r \in K \/ (r.id[1] = 0 /\ r.id[2] = N)
    BY <1>1, <1>2, <1>6, AppendedOK
<1>8. asked(new) \subseteq ReqsOf(BatchesOf(PartsFor(W2, T2, N + 1, K2, X), T2))
    <2>1. ClaimableReqs(new) \subseteq ReqsOf(BatchesOf(PartsFor(W2, T2, N + 1, K2, X), T2))
        BY <1>7, ClaimableAreFor
    <2>2. Needed(new.reqs) \subseteq ReqsOf(BatchesOf(PartsFor(W2, T2, N + 1, K2, X), T2))
        BY <1>7, ClearedOK, NeededAmong
    <2> QED BY <2>1, <2>2
<1> HIDE DEF asked
<1>9. JobsOK(jobs', W2, T2, N + 1, K2, X) /\ KeptJobs(jobs, jobs')
    BY <1>2, <1>7, <1>8, TakeUpOK
<1>10. Known(K2, jobs', N + 1) /\ Past(deleted, jobs')
    <2>1. N + 1 \in Nat /\ N <= N + 1 /\ N < N + 1
        BY <1>5
    <2>2. Known(K, jobs', N + 1) /\ Past(deleted, jobs')
        BY <1>5, <1>9, <2>1, NamesKept
    <2>3. Known(K2, jobs', N + 1)
        BY <1>7, <2>1, <2>2 DEF Known
    <2> QED BY <2>2, <2>3
<1>11. StateOK(Cleared(new), W2, jobs', deleted, T2, K2, X)
    BY <1>5, <1>7, <1>9, <1>10, HandedOut
<1>12. StateOK(trace', written', jobs', deleted', T2, K2, X)
    BY <1>2, <1>4, <1>11
<1> QED BY <1>12 DEF CompactionInv

(* So does a downgrade of the since.                                       *)
LEMMA DowngradeSinceInv ==
    ASSUME CompactionInv, DowngradeSince
    PROVE  CompactionInv'
<1>1. PICK T, K, X : StateOK(trace, written, jobs, deleted, T, K, X)
    BY DEF CompactionInv
<1>2. trace' = [trace EXCEPT !.since = @ + 1] /\ written' = written /\ jobs' = jobs /\ deleted' = deleted
    BY DEF DowngradeSince
<1>3. StateOK(trace', written, jobs, deleted, T, K, X)
    BY <1>1, <1>2, DowngradedOK
<1> QED BY <1>2, <1>3 DEF CompactionInv

(* So does a round of forced compaction.                                   *)
LEMMA ForceExertInv ==
    ASSUME CompactionInv, ForceExert
    PROVE  CompactionInv'
<1>1. PICK T, K, X : StateOK(trace, written, jobs, deleted, T, K, X)
    BY DEF CompactionInv
<1>2. written' = written /\ deleted' = deleted
    BY DEF ForceExert
<1>3. CASE trace' = trace /\ jobs' = jobs
    BY <1>1, <1>2, <1>3 DEF CompactionInv
<1>4. CASE \E new : new = Exert(trace, Fuel) /\ trace' = Cleared(new) /\ TakeUp(Needed(new.reqs))
    <2>1. PICK new : new = Exert(trace, Fuel) /\ trace' = Cleared(new) /\ TakeUp(Needed(new.reqs))
        BY <1>4
    <2>2. Fuel \in Nat
        BY CompactionAssumption
    <2> DEFINE N == trace.nextId
    <2>3. /\ N \in Nat /\ Known(K, jobs, N) /\ Past(deleted, jobs)
          /\ deleted \subseteq X /\ X \subseteq Ids(K) /\ K \subseteq Run
        BY <1>1, StateFields
    <2>4. PICK M : Exerted(new, M, written, jobs, T, K, X, N)
        BY <1>1, <2>1, <2>2, ExertedOK
    <2> HIDE DEF N
    <2>5. /\ M \in Nat /\ N <= M /\ World(written, T, M, K)
          /\ Spined(new, M, PartsFor(written, T, M, K, X), T)
          /\ new.nextId = M /\ new.upper = T[M]
          /\ JobsOK(jobs, written, T, M, K, X)
        BY <2>4 DEF Exerted
    <2>6. Needed(new.reqs) \subseteq ReqsOf(BatchesOf(PartsFor(written, T, M, K, X), T))
        BY <2>5, ClearedOK, NeededAmong
    <2>7. JobsOK(jobs', written, T, M, K, X) /\ KeptJobs(jobs, jobs')
        BY <2>1, <2>5, <2>6, TakeUpOK
    <2>8. Known(K, jobs', M) /\ Past(deleted, jobs')
        BY <2>3, <2>5, <2>7, NamesKept
    <2>9. StateOK(Cleared(new), written, jobs', deleted, T, K, X)
        BY <2>3, <2>5, <2>7, <2>8, HandedOut
    <2>10. StateOK(trace', written', jobs', deleted', T, K, X)
        BY <1>2, <2>1, <2>9
    <2> QED BY <2>10 DEF CompactionInv
<1> QED BY <1>3, <1>4 DEF ForceExert, Cleared

(* What merge_res is called with is right.                                 *)
LEMMA ResultsOffer ==
    ASSUME NEW T, NEW K, NEW X, StateOK(trace, written, jobs, deleted, T, K, X),
           NEW j \in 1 .. Len(jobs), jobs[j].chunks # <<>>, NEW res \in Results(j)
    PROVE  Offers(res, jobs[j], j, written, T, trace.nextId, K, X)
<1> DEFINE N == trace.nextId
<1>1. World(written, T, N, K) /\ Known(K, jobs, N) /\ JobOK(jobs[j], j, written, T, N, K, X)
    BY StateFields DEF JobsOK
<1>2. CASE jobs[j].out # <<>>
    <2>1. res \in ToSet(jobs[j].out)
        BY <1>2 DEF Results
    <2> QED BY <1>1, <1>2, <2>1, RetryOffers
<1>3. CASE jobs[j].out = <<>>
    <2>1. PICK keep \in Keeps(Head(jobs[j].chunks)) :
            res = Proposal(Head(jobs[j].chunks), keep, <<j, Len(jobs[j].chunks)>>)
        BY <1>3 DEF Results, Proposal
    <2> QED BY <1>1, <1>3, <2>1, FreshOffers
<1> QED BY <1>2, <1>3

(* The updates of a job, a field at a time, as the update of a job.        *)
JobOf(ch, out, ever) == [chunks |-> ch, out |-> out, ever |-> ever]
AllFields(js, j, ch, out, ever) == [js EXCEPT ![j].chunks = ch, ![j].out = out, ![j].ever = ever]
TwoFields(js, j, out, ever)     == [js EXCEPT ![j].out = out, ![j].ever = ever]

(* The two ways in which the actions update a job.                         *)
LEMMA JobUpdate ==
    ASSUME NEW js \in Seq(Job), NEW j \in 1 .. Len(js), NEW ch, NEW out, NEW ever
    PROVE  /\ AllFields(js, j, ch, out, ever) = WithJob(js, j, JobOf(ch, out, ever))
           /\ TwoFields(js, j, out, ever) = WithJob(js, j, JobOf(js[j].chunks, out, ever))
<1> DEFINE b == js[j]
<1>1. PICK c, o, v : b = [chunks |-> c, out |-> o, ever |-> v] /\ c = b.chunks
    <2>1. b = [chunks |-> b.chunks, out |-> b.out, ever |-> b.ever]
        BY JobFields
    <2> QED BY <2>1
<1>2. PICK n \in Nat : js \in [1 .. n -> Job] /\ j \in 1 .. n
    OBVIOUS
<1>3. [b EXCEPT !.chunks = ch, !.out = out, !.ever = ever] = JobOf(ch, out, ever)
    <2> HIDE DEF b
    <2> DEFINE x == [b EXCEPT !.chunks = ch]
               y == [x EXCEPT !.out = out]
               z == [y EXCEPT !.ever = ever]
               g == [b EXCEPT !.chunks = ch, !.out = out, !.ever = ever]
    <2>1. g = z
        BY <1>1
    <2>2. x = [chunks |-> ch, out |-> o, ever |-> v]
        BY <1>1
    <2> HIDE DEF x, g
    <2>3. y = [chunks |-> ch, out |-> out, ever |-> v]
        BY <2>2
    <2> HIDE DEF y
    <2>4. z = [chunks |-> ch, out |-> out, ever |-> ever]
        BY <2>3
    <2> HIDE DEF z
    <2> QED BY <2>1, <2>4 DEF JobOf, g
<1>4. [b EXCEPT !.out = out, !.ever = ever] = JobOf(b.chunks, out, ever)
    <2> HIDE DEF b
    <2> DEFINE y == [b EXCEPT !.out = out]
               z == [y EXCEPT !.ever = ever]
               g == [b EXCEPT !.out = out, !.ever = ever]
    <2>1. g = z
        BY <1>1
    <2>2. y = [chunks |-> c, out |-> out, ever |-> v]
        BY <1>1
    <2> HIDE DEF y, g
    <2>3. z = [chunks |-> c, out |-> out, ever |-> ever]
        BY <2>2
    <2> HIDE DEF z
    <2> QED BY <1>1, <2>1, <2>3 DEF JobOf, g
<1>5. AllFields(js, j, ch, out, ever) = [js EXCEPT ![j] = [b EXCEPT !.chunks = ch, !.out = out, !.ever = ever]]
    BY <1>1, <1>2 DEF AllFields
<1>6. TwoFields(js, j, out, ever) = [js EXCEPT ![j] = [b EXCEPT !.out = out, !.ever = ever]]
    BY <1>1, <1>2 DEF TwoFields
<1> QED BY <1>3, <1>4, <1>5, <1>6 DEF WithJob

(* merge_res and apply keep the invariant.                                 *)
LEMMA MergeResInv ==
    ASSUME CompactionInv, NEW j \in 1 .. Len(jobs), ~Done(jobs[j]), MergeRes(j)
    PROVE  CompactionInv'
<1>1. PICK T, K, X : StateOK(trace, written, jobs, deleted, T, K, X)
    BY DEF CompactionInv
<1>2. jobs[j].chunks # <<>> /\ jobs \in Seq(Job)
    BY <1>1, StateFields DEF Done
<1>3. PICK res, a : /\ res \in Results(j) /\ a = ApplyMergeRes(trace, res)
                    /\ trace' = a.trace /\ NextChunk(j) /\ written' = written
                    /\ deleted' = IF jobs[j].ever \/ a.applied THEN deleted ELSE deleted \cup Ids(res.output.runs)
    BY DEF MergeRes, Ids
<1>4. jobs' = WithJob(jobs, j, Onward(jobs[j]))
    <2>1. PICK ch, out, ever : ch = Tail(jobs[j].chunks) /\ out = <<>> /\ ever = FALSE
        OBVIOUS
    <2>2. jobs' = AllFields(jobs, j, ch, out, ever)
        BY <1>2, <1>3, <2>1 DEF NextChunk, AllFields
    <2>3. jobs' = WithJob(jobs, j, JobOf(ch, out, ever))
        BY <1>2, <2>2, JobUpdate
    <2>4. JobOf(ch, out, ever) = Onward(jobs[j])
        BY <2>1 DEF JobOf, Onward
    <2> QED BY <2>3, <2>4
<1>5. Offers(res, jobs[j], j, written, T, trace.nextId, K, X)
    BY <1>1, <1>2, <1>3, ResultsOffer
<1>6. SomeState(a.trace, written, jobs', deleted', T)
    BY <1>1, <1>2, <1>3, <1>4, <1>5, NextChunkOK
<1> QED BY <1>3, <1>6 DEF CompactionInv, SomeState

(* So does a merge_res whose answer is lost.                               *)
LEMMA MergeResIndeterminateInv ==
    ASSUME CompactionInv, NEW j \in 1 .. Len(jobs), ~Done(jobs[j]), MergeResIndeterminate(j)
    PROVE  CompactionInv'
<1>1. PICK T, K, X : StateOK(trace, written, jobs, deleted, T, K, X)
    BY DEF CompactionInv
<1>2. jobs[j].chunks # <<>> /\ jobs \in Seq(Job)
    BY <1>1, StateFields DEF Done
<1>3. PICK res, a : /\ res \in Results(j) /\ a = ApplyMergeRes(trace, res)
                    /\ trace' = a.trace /\ written' = written /\ deleted' = deleted
                    /\ jobs' = [jobs EXCEPT ![j].out = <<res>>, ![j].ever = @ \/ a.applied]
    BY DEF MergeResIndeterminate
<1>4. jobs' = WithJob(jobs, j, Retried(jobs[j], res, a))
    <2>1. PICK out, ever : out = <<res>> /\ ever = (jobs[j].ever \/ a.applied)
        OBVIOUS
    <2>2. jobs' = TwoFields(jobs, j, out, ever)
        BY <1>2, <1>3, <2>1 DEF TwoFields
    <2>3. jobs' = WithJob(jobs, j, JobOf(jobs[j].chunks, out, ever))
        BY <1>2, <2>2, JobUpdate
    <2>4. JobOf(jobs[j].chunks, out, ever) = Retried(jobs[j], res, a)
        BY <2>1 DEF JobOf, Again, Retried
    <2> QED BY <2>3, <2>4
<1>5. Offers(res, jobs[j], j, written, T, trace.nextId, K, X)
    BY <1>1, <1>2, <1>3, ResultsOffer
<1>6. SomeState(a.trace, written, jobs', deleted, T)
    <2>1. a = ApplyMergeRes(trace, res)
        BY <1>3
    <2> QED BY <1>1, <1>2, <1>4, <1>5, <2>1, LostAnswerOK
<1> QED BY <1>3, <1>6 DEF CompactionInv, SomeState

(* So does a compaction that is given up.                                  *)
LEMMA AbandonInv ==
    ASSUME CompactionInv, NEW j \in 1 .. Len(jobs), ~Done(jobs[j]), Abandon(j)
    PROVE  CompactionInv'
<1>1. PICK T, K, X : StateOK(trace, written, jobs, deleted, T, K, X)
    BY DEF CompactionInv
<1>2. jobs[j].chunks # <<>> /\ jobs \in Seq(Job)
    BY <1>1, StateFields DEF Done
<1>3. jobs' = WithJob(jobs, j, GivenUp)
    <2>1. PICK out, ever : out = <<>> /\ ever = FALSE
        OBVIOUS
    <2>2. jobs' = AllFields(jobs, j, out, out, ever)
        BY <2>1 DEF Abandon, AllFields
    <2>3. jobs' = WithJob(jobs, j, JobOf(out, out, ever))
        BY <1>2, <2>2, JobUpdate
    <2>4. JobOf(out, out, ever) = GivenUp
        BY <2>1 DEF JobOf, GivenUp
    <2> QED BY <2>3, <2>4
<1>4. StateOK(trace, written, jobs', deleted, T, K, X)
    BY <1>1, <1>2, <1>3, GiveUpOK
<1>5. trace' = trace /\ written' = written /\ deleted' = deleted
    BY DEF Abandon
<1> QED BY <1>4, <1>5 DEF CompactionInv

(* Every step keeps the invariant.                                         *)
LEMMA NextInv ==
    ASSUME CompactionInv, [Next]_vars
    PROVE  CompactionInv'
<1>1. CASE Next
    <2>1. CASE \E lens \in Batches : AppendBatch(lens)
        BY <2>1, AppendBatchInv
    <2>2. CASE DowngradeSince
        BY <2>2, DowngradeSinceInv
    <2>3. CASE \E j \in 1 .. Len(jobs) : Compact(j)
        BY <2>3, MergeResInv, MergeResIndeterminateInv, AbandonInv DEF Compact
    <2>4. CASE StartForce \/ ForceCheck
        BY <2>4 DEF StartForce, ForceCheck, CompactionInv
    <2>5. CASE ForceExert
        BY <2>5, ForceExertInv
    <2> QED BY <1>1, <2>1, <2>2, <2>3, <2>4, <2>5 DEF Next
<1>2. CASE UNCHANGED vars
    BY <1>2 DEF vars, CompactionInv
<1> QED BY <1>1, <1>2

-----------------------------------------------------------------------------
(* The properties.                                                         *)

(* The invariant with its witnesses.                                       *)
LEMMA InvFacts ==
    ASSUME CompactionInv
    PROVE  \E T, K, X, cut, rec :
             /\ World(written, T, trace.nextId, K) /\ T[trace.nextId] = trace.upper
             /\ GoodParts(PartsFor(written, T, trace.nextId, K, X), T)
             /\ Laid(trace, trace.nextId, cut, rec, PartsFor(written, T, trace.nextId, K, X), T)
             /\ \A k \in Positive : FuelAt(Lay(trace), rec, k, 0)
             /\ deleted \subseteq X
<1>1. PICK T, K, X : StateOK(trace, written, jobs, deleted, T, K, X)
    BY DEF CompactionInv
<1> DEFINE N == trace.nextId
           PS == PartsFor(written, T, N, K, X)
<1>2. World(written, T, N, K) /\ T[N] = trace.upper /\ Spined(trace, N, PS, T) /\ deleted \subseteq X
    BY <1>1, StateFields
<1>3. GoodParts(PS, T)
    BY <1>2, PartsAreGood
<1> HIDE DEF PS
<1>4. PICK cut, rec : Laid(trace, N, cut, rec, PS, T) /\ \A k \in Positive : FuelAt(Lay(trace), rec, k, 0)
    BY <1>2 DEF Spined
<1> QED BY <1>2, <1>3, <1>4 DEF PS

(* The invariant implies NeverPanics.                                      *)
LEMMA InvNeverPanics ==
    ASSUME CompactionInv
    PROVE  NeverPanics
BY InvFacts DEF Laid, Good, NeverPanics

(* The invariant implies ReferencedRunsExist.                              *)
LEMMA InvReferencedRunsExist ==
    ASSUME CompactionInv
    PROVE  ReferencedRunsExist
<1>1. PICK T, K, X, cut, rec :
        /\ World(written, T, trace.nextId, K)
        /\ GoodParts(PartsFor(written, T, trace.nextId, K, X), T)
        /\ Laid(trace, trace.nextId, cut, rec, PartsFor(written, T, trace.nextId, K, X), T)
        /\ deleted \subseteq X
    BY InvFacts
<1> DEFINE N == trace.nextId
           PS == PartsFor(written, T, N, K, X)
<1>2. ToSet(AllParts(trace)) \subseteq PS
    BY <1>1, AllPartsIn
<1>3. ASSUME NEW p \in PS, NEW r \in p.runs PROVE r.id \notin deleted
    <2>1. Avoids(p.runs, X)
        BY <1>1, PartForFields
    <2> QED BY <1>1, <2>1 DEF Avoids
<1> HIDE DEF PS
<1> QED BY <1>2, <1>3 DEF ReferencedRunsExist

(* The invariant implies NothingLostOrDoubled.                             *)
LEMMA InvNothingLostOrDoubled ==
    ASSUME CompactionInv
    PROVE  NothingLostOrDoubled
<1>1. PICK T, K, X, cut, rec :
        /\ World(written, T, trace.nextId, K)
        /\ GoodParts(PartsFor(written, T, trace.nextId, K, X), T)
        /\ Laid(trace, trace.nextId, cut, rec, PartsFor(written, T, trace.nextId, K, X), T)
    BY InvFacts
<1> DEFINE N == trace.nextId
           PS == PartsFor(written, T, N, K, X)
<1>2. ToSet(AllParts(trace)) \subseteq PS
    BY <1>1, AllPartsIn
<1>3. ASSUME NEW p \in PS
      PROVE  /\ Contents(p) = {w \in written : Covers(p.id, <<w[2], w[2] + 1>>)}
             /\ \A r \in p.runs : r.of \cap p.gone = {}
             /\ \A r, q \in p.runs : r # q => r.of \cap q.of = {}
    <2>1. Apart(p.runs, p.gone) /\ p.id[1] \in Nat /\ p.id[2] \in Nat
        BY <1>1, PartForFields
    <2>2. \A w : w \in Held(p.runs, p.gone) <=> w \in written /\ p.id[1] <= w[2] /\ w[2] < p.id[2]
        BY <1>1, HeldIds
    <2>3. Contents(p) = Held(p.runs, p.gone)
        BY DEF Contents, Held
    <2>4. ASSUME NEW w \in written
          PROVE  Covers(p.id, <<w[2], w[2] + 1>>) <=> p.id[1] <= w[2] /\ w[2] < p.id[2]
        <3>1. w[2] \in Nat
            BY <1>1, WrittenBefore
        <3>2. Covers(p.id, <<w[2], w[2] + 1>>) <=> p.id[1] <= w[2] /\ w[2] + 1 <= p.id[2]
            BY DEF Covers
        <3> QED BY <2>1, <3>1, <3>2
    <2>5. Contents(p) = {w \in written : Covers(p.id, <<w[2], w[2] + 1>>)}
        BY <2>2, <2>3, <2>4
    <2> QED BY <2>1, <2>5 DEF Apart
<1> HIDE DEF PS
<1> QED BY <1>2, <1>3 DEF NothingLostOrDoubled

(* The invariant implies FuelDiscipline.                                   *)
LEMMA InvFuelDiscipline ==
    ASSUME CompactionInv
    PROVE  FuelDiscipline
<1>1. PICK T, K, X, cut, rec :
        /\ Laid(trace, trace.nextId, cut, rec, PartsFor(written, T, trace.nextId, K, X), T)
        /\ \A k \in Positive : FuelAt(Lay(trace), rec, k, 0)
    BY InvFacts
<1> DEFINE N == trace.nextId
           PS == PartsFor(written, T, N, K, X)
<1>2. ASSUME NEW i \in 1 .. Len(trace.layers)
      PROVE  /\ \A b \in ToSet(trace.layers[i].batches) : b.len <= Pow2[i - 1]
             /\ trace.layers[i].merge # <<>> => Records(trace.layers, i - 1) < Pow2[i - 1]
    <2> DEFINE l == trace.layers[i]
    <2>1. trace \in Trace /\ Len(trace.layers) \in Nat
        BY <1>1, LaidTypes
    <2>2. i \in Positive /\ Lay(trace)[i] = l
        BY <2>1 DEF Positive, Lay, At
    <2>3. LayerOK(l, i, trace.since, BatchesOf(PS, T))
        BY <1>1, <2>2, LaidAt
    <2> HIDE DEF l, PS
    <2>4. ASSUME NEW b \in ToSet(l.batches) PROVE b.len <= Pow2[i - 1]
        <3>1. PICK k \in 1 .. Num(l) : b = l.batches[k]
            BY <2>3 DEF LayerOK, Num, ToSet
        <3> QED BY <2>3, <3>1 DEF LayerOK
    <2>5. ASSUME l.merge # <<>> PROVE Records(trace.layers, i - 1) < Pow2[i - 1]
        <3>1. Num(Lay(trace)[i]) = 2
            BY <2>2, <2>3, <2>5 DEF LayerOK
        <3>2. rec[i - 1] < Pow2[i - 1]
            BY <1>1, <2>2, <3>1 DEF FuelAt
        <3>3. i - 1 \in 0 .. Len(trace.layers)
            BY <2>1
        <3>4. Records(trace.layers, i - 1) = rec[i - 1]
            BY <1>1, <3>3, RecordsIs
        <3> QED BY <3>2, <3>4
    <2> QED BY <2>4, <2>5 DEF l
<1> QED BY <1>2 DEF FuelDiscipline

(* The invariant implies SpineIsValid.                                     *)
LEMMA InvSpineIsValid ==
    ASSUME CompactionInv
    PROVE  SpineIsValid
<1>1. PICK T, K, X, cut, rec :
        /\ World(written, T, trace.nextId, K) /\ T[trace.nextId] = trace.upper
        /\ GoodParts(PartsFor(written, T, trace.nextId, K, X), T)
        /\ Laid(trace, trace.nextId, cut, rec, PartsFor(written, T, trace.nextId, K, X), T)
    BY InvFacts
<1> DEFINE N == trace.nextId
           PS == PartsFor(written, T, N, K, X)
           bs == SpineBatches(trace)
           n == Len(trace.layers)
<1>2. trace \in Trace /\ n \in Nat /\ cut[n] = 0 /\ trace.layers \in Seq(Layer)
    BY <1>1, LaidTypes
<1>3. Strung(bs, n, trace, N, cut, PS, T)
    BY <1>1, SpineChain
<1>4. /\ bs \in Seq(Bounded(trace, PS, T)) /\ Chained(bs)
      /\ bs # <<>> => bs[1].id[1] = 0 /\ bs[Len(bs)].id[2] = N
    BY <1>2, <1>3 DEF Strung
<1>5. GoodParts(PS, T) /\ T[0] = 0 /\ T[N] = trace.upper
    BY <1>1 DEF World
<1> HIDE DEF PS, bs, N
<1>6. ASSUME bs # <<>>
      PROVE  /\ Head(bs).id[1] = 0 /\ Head(bs).lower = 0
             /\ Last(bs).id[2] = N /\ Last(bs).upper = trace.upper
    <2> DEFINE h == bs[1]
               z == bs[Len(bs)]
    <2>1. Head(bs) = h /\ Last(bs) = z
        BY <1>4, <1>6 DEF Last
    <2>2. h \in Bounded(trace, PS, T) /\ z \in Bounded(trace, PS, T)
        <3>1. 1 \in 1 .. Len(bs) /\ Len(bs) \in 1 .. Len(bs)
            BY <1>4, <1>6
        <3> QED BY <1>4, <3>1, ElementOfSeq
    <2>3. h.id[1] = 0 /\ z.id[2] = N
        BY <1>4, <1>6
    <2> HIDE DEF h, z
    <2>4. h.lower = T[h.id[1]] /\ z.upper = T[z.id[2]]
        BY <1>5, <2>2, BatchOKFields DEF Bounded
    <2> QED BY <1>5, <2>1, <2>3, <2>4
<1>7. ASSUME NEW i \in 1 .. n PROVE IsFull(trace.layers[i]) <=> trace.layers[i].merge # <<>>
    <2> DEFINE l == trace.layers[i]
    <2>1. i \in Positive /\ Lay(trace)[i] = l /\ l \in Layer
        BY <1>2 DEF Positive, Lay, At
    <2>2. LayerOK(l, i, trace.since, BatchesOf(PS, T))
        BY <1>1, <2>1, LaidAt DEF PS, N
    <2> HIDE DEF l
    <2>3. IsFull(l) <=> Num(l) = 2
        BY <2>1, Vacancy
    <2>4. Num(l) = 2 => l.merge # <<>>
        <3>1. Num(l) = 2 => Len(l.merge) = 1
            BY <2>2 DEF LayerOK
        <3>2. Len(<<>>) = 0
            OBVIOUS
        <3> QED BY <3>1, <3>2
    <2>5. Num(l) # 2 => l.merge = <<>>
        BY <2>2 DEF LayerOK
    <2>6. IsFull(l) <=> l.merge # <<>>
        BY <2>3, <2>4, <2>5
    <2> QED BY <2>6 DEF l
<1>8. ASSUME NEW b \in ToSet(bs)
      PROVE  /\ b.since <= trace.since /\ Chained(b.parts)
             /\ b.id = <<Head(b.parts).id[1], Last(b.parts).id[2]>>
             /\ b.len = SumLen(b.parts)
             /\ \A p \in ToSet(b.parts) : p.since <= b.since
    <2>1. b \in BatchesOf(PS, T) /\ b.since <= trace.since
        BY <1>4, <1>8, Elements DEF Bounded
    <2>2. /\ b.parts \in Seq(PS) /\ b.parts # <<>> /\ Chained(b.parts)
          /\ \A i \in 1 .. Len(b.parts) : b.parts[i].since <= b.since
          /\ b.id[1] = b.parts[1].id[1] /\ b.id[2] = b.parts[Len(b.parts)].id[2]
          /\ b.id = <<b.id[1], b.id[2]>> /\ b.len = SumLen(b.parts)
        BY <1>5, <2>1, BatchOKFields
    <2>3. Head(b.parts) = b.parts[1] /\ Last(b.parts) = b.parts[Len(b.parts)]
        BY <2>2 DEF Last
    <2>4. ASSUME NEW p \in ToSet(b.parts) PROVE p.since <= b.since
        <3>1. PICK i \in 1 .. Len(b.parts) : p = b.parts[i]
            BY <2>2, <2>4 DEF ToSet
        <3> QED BY <2>2, <3>1
    <2> QED BY <2>1, <2>2, <2>3, <2>4
<1>9. /\ \A i \in 1 .. Len(trace.layers) : IsFull(trace.layers[i]) <=> trace.layers[i].merge # <<>>
      /\ Chained(bs)
      /\ bs # <<>> => /\ Head(bs).id[1] = 0 /\ Head(bs).lower = 0
                      /\ Last(bs).id[2] = trace.nextId /\ Last(bs).upper = trace.upper
    BY <1>4, <1>6, <1>7 DEF N
<1> QED BY <1>8, <1>9 DEF SpineIsValid, bs

(* Appends, downgrades, results of compaction (first tries, retries after  *)
(* a lost answer, given up) and forced rounds keep what trace.rs and       *)
(* compact.rs rely on: the parts account for what was written, the layers  *)
(* tile the ids, the merges have fuel to come, and what compactors still   *)
(* hold accounts for what it is to replace.                                *)
THEOREM CompactionInvariant == Spec => []CompactionInv
<1>1. Init => CompactionInv
    BY InitInv
<1>2. CompactionInv /\ [Next]_vars => CompactionInv'
    BY NextInv
<1> QED BY <1>1, <1>2, PTL DEF Spec

(* However late and out of order the results of compaction arrive, the     *)
(* spine is what validate of trace.rs demands: batches and parts line up   *)
(* in ids and times, no since is ahead of its bound, exactly the full      *)
(* layers are merging.                                                     *)
THEOREM SpineValid == Spec => []SpineIsValid
<1>1. CompactionInv => SpineIsValid
    BY InvSpineIsValid
<1> QED BY <1>1, CompactionInvariant, PTL

(* apply_merge_res_checked of trace.rs neither loses nor doubles an        *)
(* update, also if two compactions of the same batches are both applied,   *)
(* or one of them twice.                                                   *)
THEOREM UpdatesKept == Spec => []NothingLostOrDoubled
<1>1. CompactionInv => NothingLostOrDoubled
    BY InvNothingLostOrDoubled
<1> QED BY <1>1, CompactionInvariant, PTL

(* push_batch never finds a merge that is not done, and                    *)
(* handle_partial_batch_replacement no bounds that disagree: neither of    *)
(* these panics of trace.rs is reachable.                                  *)
THEOREM NoPanic == Spec => []NeverPanics
<1>1. CompactionInv => NeverPanics
    BY InvNeverPanics
<1> QED BY <1>1, CompactionInvariant, PTL

(* The two invariants that the doc comment of Spine in trace.rs states and *)
(* validate does not check: batches fit their layer, and there are fewer   *)
(* records below a merge than its layer holds.                             *)
THEOREM FuelSuffices == Spec => []FuelDiscipline
<1>1. CompactionInv => FuelDiscipline
    BY InvFuelDiscipline
<1> QED BY <1>1, CompactionInvariant, PTL

(* Compaction deletes no blob that the state refers to, although merge_res *)
(* may say "not applied" of a retry of what has taken effect (compact.rs   *)
(* apply, machine.rs merge_res).                                           *)
THEOREM RunsExist == Spec => []ReferencedRunsExist
<1>1. CompactionInv => ReferencedRunsExist
    BY InvReferencedRunsExist
<1> QED BY <1>1, CompactionInvariant, PTL
=============================================================================
