---------------------------- MODULE SpineProofs -----------------------------
(***************************************************************************)
(* What the operations of Spine preserve. Spined(t, e, PS, T) is the       *)
(* invariant of a spine t whose batches are made of parts in PS and cover  *)
(* the ids up to e, where T gives the times of ids: every operation keeps  *)
(* it, and none panics.                                                    *)
(*                                                                         *)
(* Two things have to be found for it. The layers tile the ids, newest at  *)
(* the bottom (Tiled); and the work left of a merge at level i is at most  *)
(* 4 times what is missing to 2^i records below it (FuelAt). A batch of    *)
(* level l adds 2^l records, rolled up ones included at most twice that,   *)
(* and brings 8 * 2^l fuel to each merge: so the inequality survives, and  *)
(* a merge near the batch, which can have at most 8 * 2^l work left, is    *)
(* done before its layer is needed. Replacing a batch by a shorter one,    *)
(* and moving the top layer down, leave the inequality alone.              *)
(*                                                                         *)
(* The operators are recursive functions over the layers and the parts.    *)
(* What they compute is shown by induction on a set of numbers             *)
(* (InductionUpTo), which follows from inclusion among finite sets being   *)
(* well-founded, and by unfolding one step of the recursion                *)
(* (RecursionUpTo).                                                        *)
(***************************************************************************)
EXTENDS Spine, FiniteSetTheorems, SequenceTheorems, WellFoundedInduction, TLAPS

-----------------------------------------------------------------------------
(* Induction, recursion, and short sequences.                              *)

(* Induction.  The library's induction theorems take an operator; these    *)
(* take a set, and follow from finite sets being well-founded.             *)

(* A non-empty set of numbers has a least member.                          *)
LEMMA LeastNat ==
    ASSUME NEW T \in SUBSET Nat, T # {}
    PROVE  \E m \in T : \A k \in T : m <= k
<1> DEFINE R == StrictSubsetOrdering(Nat)
           F == {0 .. k : k \in T}
<1>1. IsWellFoundedOn(R, FiniteSubsetsOf(Nat))
    BY FS_StrictSubsetOrderingWellFounded
<1>2. F \subseteq FiniteSubsetsOf(Nat)
    <2>1. \A k \in Nat : IsFiniteSet(0 .. k) /\ 0 .. k \subseteq Nat
        BY FS_Interval
    <2> QED BY <2>1 DEF FiniteSubsetsOf
<1>3. F # {}
    OBVIOUS
<1> HIDE DEF F, R
<1>4. PICK x \in F : \A y \in F : <<y, x>> \notin R
    BY <1>1, <1>2, <1>3, WFMin
<1>5. PICK m \in T : x = 0 .. m
    BY DEF F
<1>6. ASSUME NEW k \in T, k < m PROVE FALSE
    <2>1. 0 .. k \in F
        BY DEF F
    <2>2. <<0 .. k, x>> \in R
        BY <1>5, <1>6 DEF R, StrictSubsetOrdering
    <2> QED BY <1>4, <2>1, <2>2
<1> QED BY <1>6

(* Induction up to n.                                                      *)
LEMMA InductionUpTo ==
    ASSUME NEW n \in Nat, NEW S, 0 \in S,
           \A i \in 1 .. n : i - 1 \in S => i \in S
    PROVE  0 .. n \subseteq S
<1> DEFINE T == {i \in 0 .. n : i \notin S}
<1>1. SUFFICES ASSUME T # {} PROVE FALSE
    OBVIOUS
<1>2. T \in SUBSET Nat
    OBVIOUS
<1> HIDE DEF T
<1>3. PICK m \in T : \A k \in T : m <= k
    BY <1>1, <1>2, LeastNat
<1>4. m \in 1 .. n /\ m - 1 \notin T
    BY <1>3 DEF T
<1> QED BY <1>3, <1>4 DEF T

(* Induction on all numbers.                                               *)
LEMMA InductionNat ==
    ASSUME NEW S, 0 \in S, \A i \in Nat : i \in S => i + 1 \in S
    PROVE  Nat \subseteq S
<1>1. ASSUME NEW n \in Nat PROVE 0 .. n \subseteq S
    <2>1. \A i \in 1 .. n : i - 1 \in S => i \in S
        OBVIOUS
    <2> QED BY <2>1, InductionUpTo
<1> QED BY <1>1

(* A non-empty set of numbers up to n has a greatest member.               *)
LEMMA GreatestNat ==
    ASSUME NEW n \in Nat, NEW T \in SUBSET (0 .. n), T # {}
    PROVE  \E m \in T : \A k \in T : k <= m
<1> DEFINE U == {n - k : k \in T}
<1>1. U \in SUBSET Nat /\ U # {}
    <2>1. \A k \in T : n - k \in Nat
        OBVIOUS
    <2>2. PICK k \in T : TRUE
        OBVIOUS
    <2>3. n - k \in U
        OBVIOUS
    <2> QED BY <2>1, <2>3
<1> HIDE DEF U
<1>2. PICK u \in U : \A k \in U : u <= k
    BY <1>1, LeastNat
<1>3. PICK m \in T : u = n - m
    BY DEF U
<1>4. ASSUME NEW k \in T PROVE k <= m
    <2>1. n - k \in U
        BY DEF U
    <2> QED BY <1>2, <1>3, <2>1
<1> QED BY <1>4

(* Recursion, with the step as a function.                                 *)

Unfolds(g, n, x, F) == g[0] = x /\ \A i \in 1 .. n : g[i] = F[<<i, g[i - 1]>>]

(* The function that a recursion up to n describes exists.                 *)
LEMMA RecursionUpTo ==
    ASSUME NEW n \in Nat, NEW X, NEW x \in X, NEW F \in [(1 .. n) \X X -> X]
    PROVE  \E g \in [0 .. n -> X] : Unfolds(g, n, x, F)
<1> DEFINE S == {m \in 0 .. n : \E g \in [0 .. m -> X] : Unfolds(g, m, x, F)}
<1>1. 0 \in S
    <2>1. [i \in 0 .. 0 |-> x] \in [0 .. 0 -> X]
        OBVIOUS
    <2>2. Unfolds([i \in 0 .. 0 |-> x], 0, x, F)
        BY DEF Unfolds
    <2> QED BY <2>1, <2>2
<1>2. ASSUME NEW m \in 1 .. n, m - 1 \in S PROVE m \in S
    <2>1. PICK g \in [0 .. (m - 1) -> X] : Unfolds(g, m - 1, x, F)
        BY <1>2
    <2> DEFINE h == [i \in 0 .. m |-> IF i = m THEN F[<<m, g[m - 1]>>] ELSE g[i]]
    <2>2. g[m - 1] \in X /\ <<m, g[m - 1]>> \in (1 .. n) \X X
        BY <2>1
    <2>3. F[<<m, g[m - 1]>>] \in X
        BY <2>2
    <2>4. h \in [0 .. m -> X]
        BY <2>1, <2>3
    <2>5. Unfolds(h, m, x, F)
        <3>1. h[0] = x
            BY <2>1 DEF Unfolds
        <3>2. ASSUME NEW i \in 1 .. m PROVE h[i] = F[<<i, h[i - 1]>>]
            <4>1. CASE i = m
                <5>1. h[m] = F[<<m, g[m - 1]>>] /\ h[m - 1] = g[m - 1]
                    OBVIOUS
                <5> HIDE DEF h
                <5> QED BY <4>1, <5>1
            <4>2. CASE i # m
                <5>1. h[i] = g[i] /\ h[i - 1] = g[i - 1] /\ i \in 1 .. (m - 1)
                    BY <4>2
                <5> QED BY <2>1, <5>1 DEF Unfolds
            <4> QED BY <4>1, <4>2
        <3> HIDE DEF h
        <3> QED BY <3>1, <3>2 DEF Unfolds
    <2> QED BY <2>4, <2>5
<1> HIDE DEF S
<1>3. 0 .. n \subseteq S
    BY <1>1, <1>2, InductionUpTo
<1> QED BY <1>3 DEF S

(* Functions with the same recursion are the same.                         *)
LEMMA RecursionUnique ==
    ASSUME NEW n \in Nat, NEW g, NEW h, g[0] = h[0],
           \A i \in 1 .. n : g[i - 1] = h[i - 1] => g[i] = h[i]
    PROVE  \A i \in 0 .. n : g[i] = h[i]
<1> DEFINE S == {i \in 0 .. n : g[i] = h[i]}
<1>1. 0 \in S /\ \A i \in 1 .. n : i - 1 \in S => i \in S
    OBVIOUS
<1> HIDE DEF S
<1>2. 0 .. n \subseteq S
    BY <1>1, InductionUpTo
<1> QED BY <1>2 DEF S

-----------------------------------------------------------------------------
(* Short sequences                                                         *)

(* Tuples as sequences.                                                    *)
LEMMA Tuples ==
    ASSUME NEW X, NEW a \in X, NEW b \in X
    PROVE  /\ <<a>> \in Seq(X) /\ Len(<<a>>) = 1 /\ <<a>>[1] = a
           /\ <<a, b>> \in Seq(X) /\ Len(<<a, b>>) = 2
           /\ <<a, b>>[1] = a /\ <<a, b>>[2] = b
<1>1. <<a>> \in Seq(X) /\ Len(<<a>>) = 1 /\ <<a>>[1] = a
    OBVIOUS
<1>2. <<a, b>> \in Seq(X) /\ Len(<<a, b>>) = 2 /\ <<a, b>>[1] = a /\ <<a, b>>[2] = b
    OBVIOUS
<1> QED BY <1>1, <1>2

(* Sequences of up to two elements, which is what a layer has.             *)
LEMMA ShortSeqs ==
    ASSUME NEW X, NEW s \in Seq(X), NEW b \in X
    PROVE  /\ Len(s) = 0 => s = <<>> /\ Append(s, b) = <<b>>
           /\ Len(s) = 1 => s[1] \in X /\ s = <<s[1]>> /\ Append(s, b) = <<s[1], b>>
           /\ Len(s) = 2 => s[1] \in X /\ s[2] \in X /\ s = <<s[1], s[2]>>
<1> DEFINE r == Append(s, b)
<1>1. r \in Seq(X) /\ Len(r) = Len(s) + 1 /\ r[Len(s) + 1] = b
      /\ \A i \in 1 .. Len(s) : r[i] = s[i]
    BY AppendProperties
<1>2. \A i \in 1 .. Len(s) : s[i] \in X
    BY ElementOfSeq
<1> HIDE DEF r
<1>3. ASSUME Len(s) = 0 PROVE s = <<>> /\ r = <<b>>
    <2> DEFINE q == <<b>>
    <2>1. q \in Seq(X) /\ Len(q) = 1 /\ q[1] = b
        BY Tuples
    <2> HIDE DEF q
    <2>2. \A i \in 1 .. Len(r) : r[i] = q[i]
        BY <1>1, <1>3, <2>1
    <2>3. r = q
        BY <1>1, <1>3, <2>1, <2>2, SeqEqual
    <2> QED BY <1>3, <2>3, EmptySeq DEF q
<1>4. ASSUME Len(s) = 1 PROVE s[1] \in X /\ s = <<s[1]>> /\ r = <<s[1], b>>
    <2> DEFINE a == s[1]
               p == <<a>>
               q == <<a, b>>
    <2>1. a \in X
        BY <1>2, <1>4
    <2> HIDE DEF a
    <2>2. p \in Seq(X) /\ Len(p) = 1 /\ p[1] = a /\ q \in Seq(X) /\ Len(q) = 2
          /\ q[1] = a /\ q[2] = b
        BY <2>1, Tuples
    <2> HIDE DEF p, q
    <2>3. \A i \in 1 .. Len(s) : s[i] = p[i]
        BY <1>4, <2>2 DEF a
    <2>4. s = p
        BY <1>4, <2>2, <2>3, SeqEqual
    <2>5. r[1] = a /\ r[2] = b /\ Len(r) = 2
        BY <1>1, <1>4 DEF a
    <2>6. \A i \in 1 .. Len(r) : r[i] = q[i]
        BY <2>2, <2>5
    <2>7. r = q
        BY <1>1, <2>2, <2>5, <2>6, SeqEqual
    <2> QED BY <2>1, <2>4, <2>7 DEF a, p, q
<1>5. ASSUME Len(s) = 2 PROVE s[1] \in X /\ s[2] \in X /\ s = <<s[1], s[2]>>
    <2> DEFINE a == s[1]
               c == s[2]
               q == <<a, c>>
    <2>1. a \in X /\ c \in X
        BY <1>2, <1>5
    <2> HIDE DEF a, c
    <2>2. q \in Seq(X) /\ Len(q) = 2 /\ q[1] = a /\ q[2] = c
        BY <2>1, Tuples
    <2> HIDE DEF q
    <2>3. \A i \in 1 .. Len(s) : s[i] = q[i]
        BY <1>5, <2>2 DEF a, c
    <2>4. s = q
        BY <1>5, <2>2, <2>3, SeqEqual
    <2> QED BY <2>1, <2>4 DEF a, c, q
<1> QED BY <1>3, <1>4, <1>5 DEF r

-----------------------------------------------------------------------------
(* Powers of two                                                           *)

(* The recursion that defines Pow2, unfolded.                              *)
LEMMA Pow2Def ==
    /\ Pow2[0] = 1
    /\ \A n \in Nat : Pow2[n] \in Nat \ {0} /\ Pow2[n + 1] = 2 * Pow2[n]
<1> DEFINE F(n) == [p \in (1 .. n) \X Nat |-> 2 * p[2]]
           P(n, g) == g \in [0 .. n -> Nat] /\ Unfolds(g, n, 1, F(n))
           G(n) == CHOOSE g : P(n, g)
           E(h) == h = [n \in Nat |-> IF n = 0 THEN 1 ELSE 2 * h[n - 1]]
<1>1. ASSUME NEW n \in Nat PROVE \E g : P(n, g)
    <2>1. F(n) \in [(1 .. n) \X Nat -> Nat]
        OBVIOUS
    <2> QED BY <2>1, RecursionUpTo
<1> HIDE DEF P
<1>2. \A n \in Nat : P(n, G(n))
    BY <1>1
<1> HIDE DEF G
<1> USE DEF P
<1>3. ASSUME NEW n \in Nat
      PROVE  /\ G(n) \in [0 .. n -> Nat] /\ G(n)[0] = 1
             /\ \A i \in 1 .. n : G(n)[i] = 2 * G(n)[i - 1]
    <2>1. G(n) \in [0 .. n -> Nat] /\ Unfolds(G(n), n, 1, F(n))
        BY <1>2
    <2>2. ASSUME NEW i \in 1 .. n PROVE G(n)[i] = 2 * G(n)[i - 1]
        <3>1. G(n)[i - 1] \in Nat
            BY <2>1
        <3>2. G(n)[i] = F(n)[<<i, G(n)[i - 1]>>]
            BY <2>1 DEF Unfolds
        <3> QED BY <3>1, <3>2
    <2> QED BY <2>1, <2>2 DEF Unfolds
<1> HIDE DEF P, F
<1>4. ASSUME NEW n \in Nat \ {0} PROVE G(n)[n] = 2 * G(n - 1)[n - 1]
    <2> DEFINE g == G(n)
               h == G(n - 1)
    <2>1. n \in Nat /\ n - 1 \in Nat
        OBVIOUS
    <2>2. g[0] = 1 /\ h[0] = 1
        BY <1>3, <2>1
    <2>3. \A i \in 1 .. n : g[i] = 2 * g[i - 1]
        BY <1>3, <2>1
    <2>4. \A i \in 1 .. (n - 1) : h[i] = 2 * h[i - 1]
        BY <1>3, <2>1
    <2> HIDE DEF g, h
    <2>5. \A i \in 1 .. (n - 1) : g[i - 1] = h[i - 1] => g[i] = h[i]
        BY <2>3, <2>4
    <2>6. \A i \in 0 .. (n - 1) : g[i] = h[i]
        BY <2>1, <2>2, <2>5, RecursionUnique
    <2>7. g[n] = 2 * h[n - 1]
        BY <2>3, <2>6
    <2> QED BY <2>7 DEF g, h
<1> DEFINE H == [n \in Nat |-> G(n)[n]]
<1>5. E(H)
    <2>1. ASSUME NEW n \in Nat PROVE H[n] = IF n = 0 THEN 1 ELSE 2 * H[n - 1]
        BY <1>3, <1>4, SMTT(40)
    <2> QED BY <2>1
<1> HIDE DEF E
<1>6. E(CHOOSE h : E(h))
    BY <1>5
<1>7. E(Pow2)
    BY <1>6 DEF Pow2, E
<1>8. Pow2[0] = 1 /\ \A n \in Nat : Pow2[n + 1] = 2 * Pow2[n]
    <2>1. \A n \in Nat : Pow2[n] = IF n = 0 THEN 1 ELSE 2 * Pow2[n - 1]
        BY <1>7 DEF E
    <2> QED BY <2>1
<1> DEFINE S == {n \in Nat : Pow2[n] \in Nat \ {0}}
<1>9. 0 \in S /\ \A n \in Nat : n \in S => n + 1 \in S
    BY <1>8
<1> HIDE DEF S
<1>10. Nat \subseteq S
    BY <1>9, InductionNat
<1> QED BY <1>8, <1>10 DEF S

-----------------------------------------------------------------------------
(* Levels, least and greatest members, and sums of lens.                   *)

(* Powers of two grow.                                                     *)
LEMMA Pow2Mono ==
    ASSUME NEW m \in Nat, NEW n \in Nat, m <= n
    PROVE  Pow2[m] <= Pow2[n]
<1> DEFINE S == {k \in Nat : Pow2[m] <= Pow2[m + k]}
<1>1. 0 \in S
    BY Pow2Def
<1>2. ASSUME NEW k \in Nat, k \in S PROVE k + 1 \in S
    <2>1. m + k \in Nat /\ m + (k + 1) = (m + k) + 1
        OBVIOUS
    <2>2. Pow2[m + (k + 1)] = 2 * Pow2[m + k] /\ Pow2[m + k] \in Nat /\ Pow2[m] \in Nat
        BY <2>1, Pow2Def
    <2> QED BY <1>2, <2>2
<1> HIDE DEF S
<1>3. n - m \in S
    BY <1>1, <1>2, InductionNat
<1> QED BY <1>3 DEF S

(* A number is less than its power of two, so that LevelOf finds a level.  *)
LEMMA Pow2Large ==
    \A n \in Nat : n < Pow2[n]
<1> DEFINE S == {n \in Nat : n < Pow2[n]}
<1>1. 0 \in S /\ \A n \in Nat : n \in S => n + 1 \in S
    BY Pow2Def
<1> HIDE DEF S
<1>2. Nat \subseteq S
    BY <1>1, InductionNat
<1> QED BY <1>2 DEF S

(* A batch of n updates fits the level that insert chooses for it.         *)
LEMMA LevelOfFits ==
    ASSUME NEW n \in Nat
    PROVE  LevelOf(n) \in Nat /\ n <= Pow2[LevelOf(n)]
<1> DEFINE T == {k \in Nat : n <= Pow2[k]}
           P(k) == Pow2[k] >= n /\ (k > 0 => Pow2[k - 1] < n)
<1>1. n \in T
    BY Pow2Large, Pow2Def
<1>2. PICK m \in T : \A k \in T : m <= k
    BY <1>1, LeastNat
<1>3. m \in 0 .. n
    BY <1>1, <1>2
<1>4. P(m)
    <2>1. ASSUME m > 0 PROVE Pow2[m - 1] < n
        <3>1. m - 1 \in Nat /\ m - 1 \notin T
            BY <1>2, <2>1
        <3> QED BY <3>1, Pow2Def
    <2> QED BY <1>2, <2>1, Pow2Def
<1> HIDE DEF P
<1>5. LevelOf(n) = CHOOSE k \in 0 .. n : P(k)
    BY DEF LevelOf, P
<1>6. LevelOf(n) \in 0 .. n /\ P(LevelOf(n))
    BY <1>3, <1>4, <1>5
<1> QED BY <1>6, Pow2Def DEF P

(* The element of a singleton.                                             *)
LEMMA TheOf == \A x : The({x}) = x
    BY DEF The

(* The lesser of two numbers, as in the fuel that a merge uses.            *)
LEMMA MinOfTwo ==
    ASSUME NEW a \in Int, NEW b \in Int
    PROVE  Min({a, b}) = IF a <= b THEN a ELSE b
<1> DEFINE m == IF a <= b THEN a ELSE b
           P(x) == \A y \in {a, b} : x <= y
<1>1. m \in {a, b} /\ P(m)
    OBVIOUS
<1>2. \A x \in {a, b} : P(x) => x = m
    OBVIOUS
<1>3. Min({a, b}) = CHOOSE x \in {a, b} : P(x)
    BY DEF Min
<1> HIDE DEF P, m
<1>4. Min({a, b}) = m
    BY <1>1, <1>2, <1>3
<1> QED BY <1>4 DEF m

(* Min of a set of numbers is its least member.                            *)
LEMMA MinOf ==
    ASSUME NEW S \in SUBSET Nat, S # {}
    PROVE  Min(S) \in S /\ \A k \in S : Min(S) <= k
<1> DEFINE P(x) == \A y \in S : x <= y
<1>1. \E x \in S : P(x)
    BY LeastNat
<1>2. Min(S) = CHOOSE x \in S : P(x)
    BY DEF Min
<1> HIDE DEF P
<1>3. Min(S) \in S /\ P(Min(S))
    BY <1>1, <1>2
<1> QED BY <1>3 DEF P

(* Max of a bounded set of numbers is its greatest member.                 *)
LEMMA MaxOf ==
    ASSUME NEW n \in Nat, NEW S \in SUBSET (0 .. n), S # {}
    PROVE  Max(S) \in S /\ \A k \in S : k <= Max(S)
<1> DEFINE P(x) == \A y \in S : x >= y
<1>1. \E x \in S : P(x)
    <2>1. PICK m \in S : \A k \in S : k <= m
        BY GreatestNat
    <2> QED BY <2>1
<1>2. Max(S) = CHOOSE x \in S : P(x)
    BY DEF Max
<1> HIDE DEF P
<1>3. Max(S) \in S /\ P(Max(S))
    BY <1>1, <1>2
<1> QED BY <1>3 DEF P
-----------------------------------------------------------------------------
(* Sums of lens                                                            *)

HasLens(s) == \A i \in 1 .. Len(s) : s[i].len \in Nat

Sums(s, g) == /\ g[0] = 0
              /\ \A i \in 0 .. Len(s) : g[i] \in Nat
              /\ \A i \in 1 .. Len(s) : g[i] = s[i].len + g[i - 1]

(* The recursion behind SumLen, unfolded.                                  *)
LEMMA SumLenDef ==
    ASSUME NEW X, NEW s \in Seq(X), HasLens(s)
    PROVE  \E g : Sums(s, g) /\ SumLen(s) = g[Len(s)]
<1> DEFINE n == Len(s)
           F == [p \in (1 .. n) \X Nat |-> s[p[1]].len + p[2]]
           E(h) == h = [i \in 0 .. n |-> IF i = 0 THEN 0 ELSE s[i].len + h[i - 1]]
<1>1. n \in Nat
    OBVIOUS
<1>2. F \in [(1 .. n) \X Nat -> Nat]
    BY DEF HasLens
<1>3. PICK g : g \in [0 .. n -> Nat] /\ Unfolds(g, n, 0, F)
    BY <1>1, <1>2, RecursionUpTo
<1>4. ASSUME NEW i \in 1 .. n PROVE g[i] = s[i].len + g[i - 1]
    <2> HIDE DEF n
    <2>1. i - 1 \in 0 .. n
        BY <1>1
    <2>2. g[i - 1] \in Nat
        BY <1>3, <2>1
    <2>3. F[<<i, g[i - 1]>>] = s[i].len + g[i - 1]
        BY <2>2
    <2> HIDE DEF F
    <2> QED BY <1>3, <2>3 DEF Unfolds
<1>5. E(g)
    <2>1. ASSUME NEW i \in 0 .. n PROVE g[i] = IF i = 0 THEN 0 ELSE s[i].len + g[i - 1]
        BY <1>1, <1>3, <1>4 DEF Unfolds
    <2> QED BY <1>3, <2>1
<1> HIDE DEF E
<1>6. E(CHOOSE h : E(h))
    BY <1>5
<1>7. PICK h : E(h) /\ SumLen(s) = h[n]
    BY <1>6 DEF SumLen, E
<1>8. h = [i \in 0 .. n |-> IF i = 0 THEN 0 ELSE s[i].len + h[i - 1]]
    BY <1>7 DEF E
<1> HIDE DEF n
<1>9. h[0] = 0 /\ \A i \in 1 .. n : h[i] = s[i].len + h[i - 1]
    BY <1>1, <1>8
<1>10. g[0] = 0
    BY <1>3 DEF Unfolds
<1>11. \A i \in 0 .. n : h[i] = g[i]
    <2>1. \A i \in 1 .. n : h[i - 1] = g[i - 1] => h[i] = g[i]
        BY <1>4, <1>9
    <2>2. h[0] = g[0]
        BY <1>9, <1>10
    <2> HIDE DEF F
    <2> QED BY <1>1, <2>1, <2>2, RecursionUnique, SMTT(40)
<1>12. \A i \in 0 .. n : h[i] \in Nat
    BY <1>3, <1>11
<1> QED BY <1>7, <1>9, <1>12 DEF Sums, n

(* Any function that sums up the lens gives SumLen.                        *)
LEMMA SumLenIs ==
    ASSUME NEW X, NEW s \in Seq(X), HasLens(s), NEW h, Sums(s, h)
    PROVE  SumLen(s) = h[Len(s)] /\ SumLen(s) \in Nat
<1>1. PICK g : Sums(s, g) /\ SumLen(s) = g[Len(s)]
    BY SumLenDef
<1>2. Len(s) \in Nat
    OBVIOUS
<1>3. \A i \in 0 .. Len(s) : g[i] = h[i]
    <2>1. \A i \in 1 .. Len(s) : g[i - 1] = h[i - 1] => g[i] = h[i]
        BY <1>1 DEF Sums
    <2>2. g[0] = h[0]
        BY <1>1 DEF Sums
    <2> QED BY <1>2, <2>1, <2>2, RecursionUnique, ZenonT(40)
<1> QED BY <1>1, <1>2, <1>3 DEF Sums

(* The len of two sequences of parts is the sum of their lens.             *)
LEMMA SumLenConcat ==
    ASSUME NEW X, NEW s \in Seq(X), NEW r \in Seq(X), HasLens(s), HasLens(r)
    PROVE  SumLen(s \o r) = SumLen(s) + SumLen(r)
<1>1. PICK g : Sums(s, g) /\ SumLen(s) = g[Len(s)]
    BY SumLenDef
<1>2. PICK h : Sums(r, h) /\ SumLen(r) = h[Len(r)]
    BY SumLenDef
<1> DEFINE m == Len(s)
           n == Len(r)
           f == [i \in 0 .. (m + n) |-> IF i <= m THEN g[i] ELSE g[m] + h[i - m]]
<1>3. m \in Nat /\ n \in Nat /\ s \o r \in Seq(X) /\ Len(s \o r) = m + n
    OBVIOUS
<1>4. /\ \A i \in 1 .. m : (s \o r)[i] = s[i]
      /\ \A i \in (m + 1) .. (m + n) : (s \o r)[i] = r[i - m]
    OBVIOUS
<1> DEFINE q == s \o r
<1> HIDE DEF q, m, n
<1>5. g[0] = 0 /\ h[0] = 0 /\ g[m] \in Nat
    BY <1>1, <1>2, <1>3 DEF Sums, m
<1>6. ASSUME NEW i \in 1 .. (m + n)
      PROVE  q[i].len \in Nat /\ f[i] \in Nat /\ f[i] = q[i].len + f[i - 1]
    <2>1. CASE i <= m
        <3>1. i \in 1 .. m /\ q[i] = s[i] /\ f[i] = g[i] /\ f[i - 1] = g[i - 1]
            BY <1>3, <1>4, <2>1 DEF q
        <3> HIDE DEF f
        <3> QED BY <1>1, <3>1 DEF Sums, HasLens, m
    <2>2. CASE i > m
        <3>1. i - m \in 1 .. n /\ q[i] = r[i - m] /\ f[i] = g[m] + h[i - m]
            BY <1>3, <1>4, <2>2, SMTT(40) DEF q
        <3>2. f[i - 1] = g[m] + h[(i - m) - 1]
            <4>1. CASE i = m + 1
                BY <1>3, <1>5, <4>1
            <4>2. CASE i # m + 1
                <5>1. (i - m) - 1 = (i - 1) - m
                    BY <1>3
                <5> QED BY <1>3, <2>2, <4>2, <5>1
            <4> QED BY <4>1, <4>2
        <3> HIDE DEF f
        <3>3. h[i - m] = r[i - m].len + h[(i - m) - 1] /\ h[i - m] \in Nat
              /\ h[(i - m) - 1] \in Nat /\ r[i - m].len \in Nat
            BY <1>2, <1>3, <3>1 DEF Sums, HasLens, n
        <3> QED BY <1>5, <3>1, <3>2, <3>3, SMTT(40)
    <2> QED BY <1>3, <2>1, <2>2
<1>7. f[0] = 0
    BY <1>3, <1>5
<1>8. f[m + n] = g[m] + h[n]
    BY <1>3, <1>5, SMTT(40)
<1> HIDE DEF f
<1>9. Sums(q, f) /\ HasLens(q)
    BY <1>3, <1>6, <1>7, SMTT(40) DEF Sums, HasLens, q
<1>10. SumLen(q) = f[Len(q)]
    BY <1>3, <1>9, SumLenIs DEF q
<1> QED BY <1>1, <1>2, <1>3, <1>8, <1>10 DEF q, m, n

(* The len of up to two parts or batches.                                  *)
LEMMA SumLenSmall ==
    /\ SumLen(<<>>) = 0
    /\ \A a : a.len \in Nat => SumLen(<<a>>) = a.len
    /\ \A a, b : a.len \in Nat /\ b.len \in Nat => SumLen(<<a, b>>) = a.len + b.len
<1>1. SumLen(<<>>) = 0
    <2>1. <<>> \in Seq({}) /\ HasLens(<<>>)
        BY DEF HasLens
    <2> DEFINE s == <<>>
    <2>2. PICK g : Sums(s, g) /\ SumLen(s) = g[Len(s)]
        BY <2>1, SumLenDef
    <2> QED BY <2>2 DEF Sums
<1>2. ASSUME NEW a, a.len \in Nat PROVE SumLen(<<a>>) = a.len
    <2> DEFINE s == <<a>>
    <2>1. s \in Seq({a}) /\ Len(s) = 1 /\ s[1] = a
        OBVIOUS
    <2> HIDE DEF s
    <2>2. HasLens(s)
        BY <1>2, <2>1 DEF HasLens
    <2>3. PICK g : Sums(s, g) /\ SumLen(s) = g[1]
        BY <2>1, <2>2, SumLenDef
    <2>4. g[1] = a.len + g[0] /\ g[0] = 0
        BY <2>1, <2>3 DEF Sums
    <2> QED BY <1>2, <2>3, <2>4 DEF s
<1>3. ASSUME NEW a, NEW b, a.len \in Nat, b.len \in Nat
      PROVE  SumLen(<<a, b>>) = a.len + b.len
    <2> DEFINE s == <<a, b>>
    <2>1. s \in Seq({a, b}) /\ Len(s) = 2 /\ s[1] = a /\ s[2] = b
        OBVIOUS
    <2> HIDE DEF s
    <2>2. HasLens(s)
        BY <1>3, <2>1 DEF HasLens
    <2>3. PICK g : Sums(s, g) /\ SumLen(s) = g[2]
        BY <2>1, <2>2, SumLenDef
    <2>4. g[2] = b.len + g[1] /\ g[1] = a.len + g[0] /\ g[0] = 0
        BY <2>1, <2>3 DEF Sums
    <2> QED BY <1>3, <2>3, <2>4 DEF s
<1> QED BY <1>1, <1>2, <1>3

(* No element is longer than all of them.                                  *)
LEMMA SumLenBounds ==
    ASSUME NEW X, NEW s \in Seq(X), HasLens(s), NEW k \in 1 .. Len(s)
    PROVE  SumLen(s) \in Nat /\ s[k].len <= SumLen(s)
<1>1. PICK g : Sums(s, g) /\ SumLen(s) = g[Len(s)]
    BY SumLenDef
<1> DEFINE S == {i \in 0 .. Len(s) : i >= k => s[k].len <= g[i]}
<1>2. Len(s) \in Nat
    OBVIOUS
<1>3. 0 \in S
    BY <1>2
<1>4. ASSUME NEW i \in 1 .. Len(s), i - 1 \in S PROVE i \in S
    <2>1. s[i].len \in Nat /\ g[i - 1] \in Nat /\ s[k].len \in Nat /\ g[i] = s[i].len + g[i - 1]
        BY <1>1, <1>2 DEF Sums, HasLens
    <2>2. CASE i = k
        BY <1>2, <2>1, <2>2
    <2>3. CASE i # k
        BY <1>2, <1>4, <2>1, <2>3
    <2> QED BY <2>2, <2>3
<1> HIDE DEF S
<1>5. 0 .. Len(s) \subseteq S
    BY <1>2, <1>3, <1>4, InductionUpTo
<1> QED BY <1>1, <1>2, <1>5 DEF S, Sums

(* Lens are numbers.                                                       *)
LEMMA SumLenNat ==
    ASSUME NEW X, NEW s \in Seq(X), HasLens(s)
    PROVE  SumLen(s) \in Nat
<1>1. PICK g : Sums(s, g) /\ SumLen(s) = g[Len(s)]
    BY SumLenDef
<1> QED BY <1>1 DEF Sums

-----------------------------------------------------------------------------
(* The types of the spine, and what its smallest steps do to them.         *)

(* Types                                                                   *)

RunId == Nat \X Nat \X Nat
Run   == [id : RunId, len : Nat, of : SUBSET RunId]
Span  == Nat \X Nat
Part  == [id : Span, lower : Nat, upper : Nat, since : Nat, len : Nat,
          runs : SUBSET Run, gone : SUBSET RunId]
Batch == [id : Span, lower : Nat, upper : Nat, since : Nat, len : Nat,
          parts : Seq(Part)]
Merge == [since : Nat, work : Nat]
Layer == [batches : Seq(Batch), merge : Seq(Merge)]
Req   == [id : Span, lower : Nat, upper : Nat, since : Nat, inputs : Seq(Part)]
Trace == [layers : Seq(Layer), since : Nat, upper : Nat, nextId : Nat,
          reqs : SUBSET Req, panicked : BOOLEAN]

Positive == Nat \ {0}

(* The layers of a trace, with vacant ones above the last.                 *)
At(ls, i) == IF i <= Len(ls) THEN ls[i] ELSE VacantLayer
Lay(t)    == [i \in Positive |-> At(t.layers, i)]

(* t with other layers and requests.                                       *)
SameBut(t, u) == /\ t.since = u.since /\ t.upper = u.upper
                 /\ t.nextId = u.nextId /\ t.panicked = u.panicked

(* A trace with other layers.                                              *)
LEMMA SetLayers ==
    ASSUME NEW t \in Trace, NEW ls \in Seq(Layer)
    PROVE  LET u == [t EXCEPT !.layers = ls]
           IN u \in Trace /\ u.layers = ls /\ SameBut(u, t) /\ u.reqs = t.reqs
    BY DEF Trace, SameBut

(* A vacant layer has no batches and no merge.                             *)
LEMMA VacantType == VacantLayer \in Layer /\ VacantLayer.batches = <<>> /\ VacantLayer.merge = <<>>
<1>1. <<>> \in Seq(Batch) /\ <<>> \in Seq(Merge)
    OBVIOUS
<1> QED BY <1>1 DEF VacantLayer, Layer

(* The layers of a trace, padded, are layers.                              *)
LEMMA LayType ==
    ASSUME NEW t \in Trace
    PROVE  Lay(t) \in [Positive -> Layer]
<1>1. t.layers \in Seq(Layer)
    BY DEF Trace
<1>2. ASSUME NEW i \in Positive PROVE At(t.layers, i) \in Layer
    BY <1>1, VacantType DEF At, Positive
<1> QED BY <1>2 DEF Lay

(* More layers are made by adding vacant ones.                             *)
LEMMA WithLayersLay ==
    ASSUME NEW t \in Trace, NEW n \in Nat
    PROVE  /\ WithLayers(t, n) \in Trace
           /\ Lay(WithLayers(t, n)) = Lay(t)
           /\ Len(WithLayers(t, n).layers) = IF n <= Len(t.layers) THEN Len(t.layers) ELSE n
           /\ SameBut(WithLayers(t, n), t) /\ WithLayers(t, n).reqs = t.reqs
<1> DEFINE ls == t.layers
           m == Len(ls)
           ext == [k \in 1 .. (n - m) |-> VacantLayer]
           u == [t EXCEPT !.layers = ls \o ext]
<1>1. ls \in Seq(Layer) /\ m \in Nat
    BY DEF Trace
<1>2. CASE n <= m
    BY <1>2 DEF WithLayers, SameBut
<1>3. CASE ~(n <= m)
    <2>1. WithLayers(t, n) = u
        BY <1>3 DEF WithLayers
    <2>2. n - m \in Nat
        BY <1>1, <1>3
    <2>3. ext \in Seq(Layer) /\ Len(ext) = n - m
        BY <1>1, <2>2, VacantType
    <2>4. ls \o ext \in Seq(Layer) /\ Len(ls \o ext) = n
        <3> HIDE DEF ls, ext
        <3>1. ls \o ext \in Seq(Layer) /\ Len(ls \o ext) = m + Len(ext)
            BY <1>1, <2>3, ConcatProperties
        <3> QED BY <1>1, <2>3, <3>1
    <2>5. ASSUME NEW i \in Positive PROVE At(ls \o ext, i) = At(ls, i)
        <3>1. CASE i <= m
            <4>1. i \in 1 .. m /\ i <= n
                BY <1>1, <1>3, <3>1 DEF Positive
            <4>2. (ls \o ext)[i] = ls[i]
                BY <1>1, <2>3, <4>1
            <4> QED BY <2>4, <3>1, <4>1, <4>2 DEF At
        <3>2. CASE i > m /\ i <= n
            <4>1. i \in (m + 1) .. n /\ i - m \in 1 .. (n - m)
                BY <1>1, <3>2 DEF Positive
            <4>2. (ls \o ext)[i] = ext[i - m]
                BY <1>1, <2>3, <4>1
            <4>3. ext[i - m] = VacantLayer
                BY <4>1
            <4> QED BY <1>1, <2>4, <3>2, <4>2, <4>3 DEF At, Positive
        <3>3. CASE i > n
            BY <1>1, <1>3, <2>4, <3>3 DEF At, Positive
        <3> QED BY <1>1, <3>1, <3>2, <3>3 DEF Positive
    <2> DEFINE ms == ls \o ext
    <2>6. ms \in Seq(Layer) /\ u = [t EXCEPT !.layers = ms]
        BY <2>4
    <2> HIDE DEF u, ms
    <2>8. u \in Trace /\ u.layers = ms /\ SameBut(u, t) /\ u.reqs = t.reqs
        BY <2>6, SetLayers
    <2>7. Lay(u) = Lay(t)
        BY <2>5, <2>8 DEF Lay, ms
    <2>9. Len(ms) = n
        BY <2>4 DEF ms
    <2> QED BY <1>3, <2>1, <2>8, <2>7, <2>9
<1> QED BY <1>2, <1>3

(* What the layers look like after one has been set.                       *)
LEMMA SetLayer ==
    ASSUME NEW t \in Trace, NEW i \in 1 .. Len(t.layers), NEW l \in Layer
    PROVE  /\ [t.layers EXCEPT ![i] = l] \in Seq(Layer)
           /\ Len([t.layers EXCEPT ![i] = l]) = Len(t.layers)
           /\ \A u : u.layers = [t.layers EXCEPT ![i] = l]
                       => Lay(u) = [Lay(t) EXCEPT ![i] = l]
<1> DEFINE ls == t.layers
           ms == [ls EXCEPT ![i] = l]
<1>1. ls \in Seq(Layer) /\ Len(ls) \in Nat
    BY DEF Trace
<1>2. ms \in Seq(Layer) /\ Len(ms) = Len(ls)
    BY <1>1
<1>3. \A k \in 1 .. Len(ls) : ms[k] = IF k = i THEN l ELSE ls[k]
    BY <1>1
<1> HIDE DEF ms
<1>4. \A k \in Positive : At(ms, k) = IF k = i THEN l ELSE At(ls, k)
    BY <1>1, <1>2, <1>3 DEF At, Positive
<1>5. i \in Positive
    BY <1>1 DEF Positive
<1>6. ASSUME NEW u, u.layers = ms PROVE Lay(u) = [Lay(t) EXCEPT ![i] = l]
    BY <1>4, <1>5, <1>6 DEF Lay
<1> QED BY <1>2, <1>6 DEF ms

(* A batch is pushed onto a layer.                                         *)
Pushed(l, b, since) ==
    [batches |-> Append(l.batches, b),
     merge |-> IF Len(l.batches) = 1
                 THEN <<BeginMerge(Append(l.batches, b), since)>> ELSE <<>>]

CanPush(l, b) ==
    /\ l.merge = <<>>
    /\ Len(l.batches) <= 1
    /\ Len(l.batches) = 1 => /\ l.batches[1].id[2] = b.id[1]
                             /\ l.batches[1].upper = b.lower

(* The greatest of three sinces.                                           *)
LEMMA MaxSince ==
    ASSUME NEW a \in Nat, NEW b \in Nat, NEW c \in Nat
    PROVE  /\ Max({a, b, c}) \in Nat
           /\ a <= Max({a, b, c}) /\ b <= Max({a, b, c}) /\ c <= Max({a, b, c})
           /\ \A d \in Nat : a <= d /\ b <= d /\ c <= d => Max({a, b, c}) <= d
<1> DEFINE S == {a, b, c}
           n == a + b + c
<1>1. n \in Nat /\ S \in SUBSET (0 .. n) /\ S # {}
    OBVIOUS
<1> HIDE DEF n
<1>2. Max(S) \in S /\ \A k \in S : k <= Max(S)
    BY <1>1, MaxOf
<1> QED BY <1>2

(* begin_merge: the since of a merge is not behind that of its batches,    *)
(* and its work is their len.                                              *)
LEMMA BeginMergeIs ==
    ASSUME NEW a \in Batch, NEW b \in Batch, NEW since \in Nat
    PROVE  LET m == BeginMerge(<<a, b>>, since)
           IN /\ m \in Merge
              /\ a.since <= m.since /\ b.since <= m.since
              /\ a.since <= since /\ b.since <= since => m.since <= since
              /\ m.work = a.len + b.len
<1> DEFINE s == <<a, b>>
           S == {x.since : x \in ToSet(s)} \cup {since}
<1>1. ToSet(s) = {a, b}
    <2>1. DOMAIN s = 1 .. 2 /\ s[1] = a /\ s[2] = b
        OBVIOUS
    <2> HIDE DEF s
    <2>2. \A x : x \in ToSet(s) <=> \E i \in 1 .. 2 : x = s[i]
        BY <2>1 DEF ToSet
    <2>3. \A i \in 1 .. 2 : i = 1 \/ i = 2
        OBVIOUS
    <2> QED BY <2>1, <2>2, <2>3
<1>2. S = {a.since, b.since, since}
    BY <1>1
<1>3. a.since \in Nat /\ b.since \in Nat /\ a.len \in Nat /\ b.len \in Nat
    BY DEF Batch
<1>4. BeginMerge(s, since) = [since |-> Max(S), work |-> SumLen(s)]
    BY DEF BeginMerge
<1>5. SumLen(s) = a.len + b.len
    BY <1>3, SumLenSmall
<1> DEFINE x == a.since
           y == b.since
           m == Max(S)
           w == a.len + b.len
<1>6. /\ m \in Nat /\ x <= m /\ y <= m
      /\ x <= since /\ y <= since => m <= since
    <2>1. S = {x, y, since} /\ x \in Nat /\ y \in Nat
        BY <1>2, <1>3
    <2> HIDE DEF S, x, y
    <2> QED BY <2>1, MaxSince
<1>7. BeginMerge(s, since) = [since |-> m, work |-> w] /\ w \in Nat
    BY <1>3, <1>4, <1>5
<1> HIDE DEF s, S, m, w, x, y
<1>8. [since |-> m, work |-> w] \in Merge
    BY <1>6, <1>7 DEF Merge
<1> QED BY <1>6, <1>7, <1>8 DEF s, x, y, w

(* A layer that a batch has been pushed onto.                              *)
LEMMA PushedType ==
    ASSUME NEW l \in Layer, NEW b \in Batch, NEW since \in Nat, Len(l.batches) <= 1
    PROVE  /\ Pushed(l, b, since) \in Layer
           /\ Pushed(l, b, since).batches =
                IF Len(l.batches) = 0 THEN <<b>> ELSE <<l.batches[1], b>>
           /\ Pushed(l, b, since).merge =
                IF Len(l.batches) = 0 THEN <<>>
                ELSE <<BeginMerge(<<l.batches[1], b>>, since)>>
<1> DEFINE s == l.batches
<1>1. s \in Seq(Batch) /\ Len(s) \in Nat
    BY DEF Layer
<1>2. CASE Len(s) = 0
    <2> HIDE DEF s
    <2>1. Append(s, b) = <<b>>
        BY <1>1, <1>2, ShortSeqs
    <2>2. <<b>> \in Seq(Batch) /\ <<>> \in Seq(Merge)
        BY Tuples
    <2> USE DEF s
    <2> QED BY <1>2, <2>1, <2>2 DEF Pushed, Layer
<1>3. CASE Len(s) = 1
    <2> DEFINE a == s[1]
               m == BeginMerge(<<a, b>>, since)
    <2> HIDE DEF s
    <2>1. a \in Batch /\ Append(s, b) = <<a, b>>
        BY <1>1, <1>3, ShortSeqs
    <2> HIDE DEF a
    <2>2. m \in Merge
        BY <2>1, BeginMergeIs
    <2> HIDE DEF m
    <2>3. <<m>> \in Seq(Merge) /\ <<a, b>> \in Seq(Batch)
        BY <2>1, <2>2, Tuples
    <2>4. Pushed(l, b, since) = [batches |-> <<a, b>>, merge |-> <<m>>]
        BY <1>3, <2>1 DEF Pushed, m, s
    <2>5. [batches |-> <<a, b>>, merge |-> <<m>>] \in Layer
        BY <2>3 DEF Layer
    <2> QED BY <1>3, <2>4, <2>5 DEF m, a, s
<1> QED BY <1>1, <1>2, <1>3

(* PushAt without a panic: the layer has room and the batch follows the    *)
(* one that is there.                                                      *)
LEMMA PushAtIs ==
    ASSUME NEW t \in Trace, NEW b \in Batch, NEW i \in Positive, CanPush(Lay(t)[i], b)
    PROVE  LET u == PushAt(t, b, i)
           IN /\ u \in Trace
              /\ Lay(u) = [Lay(t) EXCEPT ![i] = Pushed(Lay(t)[i], b, t.since)]
              /\ Len(u.layers) = IF i <= Len(t.layers) THEN Len(t.layers) ELSE i
              /\ SameBut(u, t) /\ u.reqs = t.reqs
<1> DEFINE w == WithLayers(t, i)
           ls == w.layers
           old == ls[i]
           new == Append(old.batches, b)
           p == Pushed(old, b, t.since)
           u == [t EXCEPT !.layers = [ls EXCEPT ![i] = p]]
<1>1. i \in Nat
    BY DEF Positive
<1>2. /\ w \in Trace /\ Lay(w) = Lay(t)
      /\ Len(ls) = IF i <= Len(t.layers) THEN Len(t.layers) ELSE i
    BY <1>1, WithLayersLay
<1>3. Len(t.layers) \in Nat /\ Len(ls) \in Nat
    BY <1>2 DEF Trace
<1>4. i \in 1 .. Len(ls)
    BY <1>2, <1>3 DEF Positive
<1> HIDE DEF w
<1>5. old = Lay(t)[i] /\ old \in Layer /\ t.since \in Nat
    <2>1. Lay(w)[i] = old
        BY <1>3, <1>4 DEF Lay, At
    <2> QED BY <1>2, <2>1, LayType DEF Trace
<1> HIDE DEF ls, old, new, p, u
<1>6. old.batches \in Seq(Batch) /\ Len(old.batches) \in Nat /\ Len(old.batches) <= 1
      /\ Len(new) = Len(old.batches) + 1 /\ old.merge = <<>>
    BY <1>5 DEF CanPush, Layer, new
<1> DEFINE n == Len(old.batches)
<1>60. n \in Nat /\ n <= 1 /\ Len(new) = n + 1
    BY <1>6
<1> HIDE DEF n
<1>61. n = 0 \/ n = 1
    BY <1>60
<1>7. ~IsFull(old)
    BY <1>61 DEF IsFull, BATCHES_PER_LEVEL, n
<1>8. old.batches = <<>> \/ /\ Last(old.batches).id[2] = b.id[1]
                            /\ Last(old.batches).upper = b.lower
    <2>1. CASE n = 0
        BY <1>6, <2>1, EmptySeq DEF n
    <2>2. CASE n = 1
        BY <1>5, <2>2 DEF CanPush, Last, n
    <2> QED BY <1>61, <2>1, <2>2
<1> DEFINE merge == IF Len(new) = BATCHES_PER_LEVEL
                      THEN <<BeginMerge(new, t.since)>> ELSE <<>>
<1>9. PushAt(t, b, i) = u
    <2>1. [batches |-> new, merge |-> merge] = p
        <3>1. Len(new) = BATCHES_PER_LEVEL <=> Len(old.batches) = 1
            <4>1. Len(new) = BATCHES_PER_LEVEL <=> n = 1
                BY <1>60 DEF BATCHES_PER_LEVEL
            <4> QED BY <4>1 DEF n
        <3> QED BY <3>1 DEF Pushed, p, new
    <2>2. PushAt(t, b, i) = [t EXCEPT !.layers =
               [ls EXCEPT ![i] = [batches |-> new, merge |-> merge]]]
        BY <1>6, <1>7, <1>8, Zenon DEF PushAt, ls, w, new, old
    <2> HIDE DEF merge
    <2> QED BY <2>1, <2>2, Zenon DEF u
<1>10. p \in Layer
    BY <1>5, <1>6, PushedType DEF p
<1> DEFINE ms == [ls EXCEPT ![i] = p]
<1>11. /\ ms \in Seq(Layer) /\ Len(ms) = Len(ls)
       /\ \A v : v.layers = ms => Lay(v) = [Lay(w) EXCEPT ![i] = p]
    BY <1>2, <1>4, <1>10, SetLayer DEF ls
<1>12. u = [t EXCEPT !.layers = ms]
    BY DEF u
<1> HIDE DEF ms
<1>13. u \in Trace /\ u.layers = ms /\ SameBut(u, t) /\ u.reqs = t.reqs
    BY <1>11, <1>12, SetLayers
<1>14. Lay(u) = [Lay(t) EXCEPT ![i] = p]
    BY <1>2, <1>11, <1>13
<1> QED BY <1>2, <1>5, <1>9, <1>11, <1>13, <1>14 DEF p

-----------------------------------------------------------------------------
(* Chains of parts.                                                        *)

(* Sequences of parts that are put together.                               *)

Concats(s, g) == /\ g[0] = <<>>
                 /\ \A i \in 0 .. Len(s) : g[i] \in Seq(Part)
                 /\ \A i \in 1 .. Len(s) : g[i] = g[i - 1] \o s[i].parts

(* The recursion behind PartsOf, unfolded.                                 *)
LEMMA PartsOfDef ==
    ASSUME NEW s \in Seq(Batch)
    PROVE  \E g : Concats(s, g) /\ PartsOf(s) = g[Len(s)]
<1> DEFINE n == Len(s)
           X == Seq(Part)
           F == [p \in (1 .. n) \X X |-> p[2] \o s[p[1]].parts]
           E(h) == h = [i \in 0 .. n |-> IF i = 0 THEN <<>> ELSE h[i - 1] \o s[i].parts]
<1>1. n \in Nat
    OBVIOUS
<1>2. ASSUME NEW i \in 1 .. n PROVE s[i].parts \in X
    <2>1. s[i] \in Batch
        BY ElementOfSeq
    <2> QED BY <2>1 DEF Batch
<1> HIDE DEF n
<1>3. F \in [(1 .. n) \X X -> X]
    <2>1. ASSUME NEW p \in (1 .. n) \X X PROVE p[2] \o s[p[1]].parts \in X
        <3>1. p[1] \in 1 .. n /\ p[2] \in X
            OBVIOUS
        <3> QED BY <1>2, <3>1, ConcatProperties
    <2> HIDE DEF X
    <2> QED BY <2>1
<1>4. <<>> \in X
    OBVIOUS
<1> HIDE DEF X
<1>5. PICK g : g \in [0 .. n -> X] /\ Unfolds(g, n, <<>>, F)
    BY <1>1, <1>3, <1>4, RecursionUpTo
<1>6. g[0] = <<>>
    BY <1>5 DEF Unfolds
<1>7. ASSUME NEW i \in 1 .. n PROVE g[i] = g[i - 1] \o s[i].parts
    <2>1. i - 1 \in 0 .. n
        BY <1>1
    <2>2. g[i - 1] \in X
        BY <1>5, <2>1
    <2>3. F[<<i, g[i - 1]>>] = g[i - 1] \o s[i].parts
        BY <2>2
    <2> HIDE DEF F
    <2> QED BY <1>5, <2>3 DEF Unfolds
<1> HIDE DEF F
<1>8. E(g)
    <2>1. ASSUME NEW i \in 0 .. n
          PROVE  g[i] = IF i = 0 THEN <<>> ELSE g[i - 1] \o s[i].parts
        <3>1. CASE i = 0
            BY <1>6, <3>1
        <3>2. CASE i # 0
            <4>1. i \in 1 .. n
                BY <1>1, <3>2
            <4> QED BY <1>7, <3>2, <4>1
        <3> QED BY <3>1, <3>2
    <2> QED BY <1>5, <2>1
<1> HIDE DEF E
<1>9. E(CHOOSE h : E(h))
    BY <1>8
<1>10. PICK h : E(h) /\ PartsOf(s) = h[n]
    BY <1>9, Zenon DEF PartsOf, E, n
<1>11. h = [i \in 0 .. n |-> IF i = 0 THEN <<>> ELSE h[i - 1] \o s[i].parts]
    BY <1>10 DEF E
<1>12. h[0] = <<>> /\ \A i \in 1 .. n : h[i] = h[i - 1] \o s[i].parts
    BY <1>1, <1>11
<1>13. \A i \in 0 .. n : h[i] = g[i]
    <2>1. \A i \in 1 .. n : h[i - 1] = g[i - 1] => h[i] = g[i]
        BY <1>7, <1>12
    <2>2. h[0] = g[0]
        BY <1>6, <1>12
    <2> QED BY <1>1, <2>1, <2>2, RecursionUnique, SMTT(40)
<1>14. \A i \in 0 .. n : h[i] \in X
    BY <1>5, <1>13
<1> QED BY <1>10, <1>12, <1>14 DEF Concats, n, X

(* The parts of two batches.                                               *)
LEMMA PartsOfTwo ==
    ASSUME NEW a \in Batch, NEW b \in Batch
    PROVE  PartsOf(<<a, b>>) = a.parts \o b.parts
<1> DEFINE s == <<a, b>>
<1>1. s \in Seq(Batch) /\ Len(s) = 2 /\ s[1] = a /\ s[2] = b
    BY Tuples
<1> HIDE DEF s
<1>2. PICK g : Concats(s, g) /\ PartsOf(s) = g[2]
    BY <1>1, PartsOfDef
<1>3. g[2] = g[1] \o b.parts /\ g[1] = <<>> \o a.parts
    <2>1. g[0] = <<>>
        BY <1>2 DEF Concats
    <2>2. \A i \in 1 .. 2 : g[i] = g[i - 1] \o s[i].parts
        BY <1>1, <1>2 DEF Concats
    <2>3. 1 \in 1 .. 2 /\ 2 \in 1 .. 2 /\ 1 - 1 = 0 /\ 2 - 1 = 1
        OBVIOUS
    <2>4. g[1] = g[0] \o s[1].parts
        BY <2>2, <2>3
    <2>5. g[2] = g[1] \o s[2].parts
        BY <2>2, <2>3
    <2> QED BY <1>1, <2>1, <2>4, <2>5
<1>4. <<>> \o a.parts = a.parts
    BY ConcatEmptySeq DEF Batch
<1> QED BY <1>2, <1>3, <1>4 DEF s

(* Two chains that meet are a chain.                                       *)
LEMMA ChainedConcat ==
    ASSUME NEW X, NEW s \in Seq(X), NEW r \in Seq(X), s # <<>>, r # <<>>,
           Chained(s), Chained(r),
           r[1].id[1] = s[Len(s)].id[2], r[1].lower = s[Len(s)].upper
    PROVE  /\ s \o r \in Seq(X) /\ s \o r # <<>> /\ Chained(s \o r)
           /\ Len(s \o r) = Len(s) + Len(r)
           /\ (s \o r)[1] = s[1]
           /\ (s \o r)[Len(s \o r)] = r[Len(r)]
           /\ \A i \in 1 .. Len(s \o r) : \/ \E k \in 1 .. Len(s) : (s \o r)[i] = s[k]
                                          \/ \E k \in 1 .. Len(r) : (s \o r)[i] = r[k]
<1> DEFINE q == s \o r
           m == Len(s)
           n == Len(r)
<1>1. m \in Nat /\ n \in Nat /\ m > 0 /\ n > 0
    BY EmptySeq
<1>2. q \in Seq(X) /\ Len(q) = m + n
    BY ConcatProperties
<1>3. /\ \A i \in 1 .. m : q[i] = s[i]
      /\ \A i \in (m + 1) .. (m + n) : q[i] = r[i - m]
    OBVIOUS
<1> HIDE DEF q
<1>4. Chained(q)
    <2>1. ASSUME NEW i \in 2 .. (m + n)
          PROVE  q[i].id[1] = q[i - 1].id[2] /\ q[i].lower = q[i - 1].upper
        <3>1. CASE i <= m
            <4>1. q[i] = s[i] /\ q[i - 1] = s[i - 1] /\ i \in 2 .. m
                BY <1>1, <1>3, <3>1
            <4> QED BY <4>1 DEF Chained
        <3>2. CASE i = m + 1
            <4>1. q[i] = r[1] /\ q[i - 1] = s[m]
                BY <1>1, <1>3, <3>2
            <4> QED BY <4>1
        <3>3. CASE i > m + 1
            <4>1. q[i] = r[i - m] /\ q[i - 1] = r[(i - m) - 1] /\ i - m \in 2 .. n
                <5>1. (i - 1) - m = (i - m) - 1
                    BY <1>1
                <5> QED BY <1>1, <1>3, <3>3, <5>1
            <4> QED BY <4>1 DEF Chained
        <3> QED BY <1>1, <3>1, <3>2, <3>3
    <2> QED BY <1>2, <2>1 DEF Chained
<1>5. q[1] = s[1] /\ q[m + n] = r[n]
    <2>1. (m + n) - m = n
        BY <1>1
    <2> QED BY <1>1, <1>3, <2>1
<1>6. ASSUME NEW i \in 1 .. (m + n)
      PROVE  \/ \E k \in 1 .. m : q[i] = s[k]
             \/ \E k \in 1 .. n : q[i] = r[k]
    <2>1. CASE i <= m
        BY <1>1, <1>3, <2>1
    <2>2. CASE i > m
        <3>1. i - m \in 1 .. n /\ q[i] = r[i - m]
            BY <1>1, <1>3, <2>2
        <3> QED BY <3>1
    <2> QED BY <1>1, <2>1, <2>2
<1>7. q # <<>>
    BY <1>1, <1>2
<1> QED BY <1>2, <1>4, <1>5, <1>6, <1>7 DEF q

(* Parts that have updates between them have one with updates.             *)
LEMMA SumLenPositive ==
    ASSUME NEW X, NEW s \in Seq(X), HasLens(s), SumLen(s) # 0
    PROVE  \E i \in 1 .. Len(s) : s[i].len > 0
<1>1. SUFFICES ASSUME \A i \in 1 .. Len(s) : s[i].len = 0 PROVE SumLen(s) = 0
    BY DEF HasLens
<1> DEFINE g == [i \in 0 .. Len(s) |-> 0]
<1>2. Len(s) \in Nat
    OBVIOUS
<1>3. Sums(s, g)
    <2>1. \A i \in 0 .. Len(s) : g[i] = 0
        OBVIOUS
    <2> HIDE DEF g
    <2> QED BY <1>1, <1>2, <2>1 DEF Sums
<1>4. g[Len(s)] = 0
    BY <1>2
<1> HIDE DEF g
<1> QED BY <1>3, <1>4, SumLenIs

-----------------------------------------------------------------------------
(* Good parts and batches.                                                 *)

(* Good parts and batches.  T gives the time at which each id starts.      *)

(* Times do not run backwards.                                             *)
Times(T) == /\ T \in [Nat -> Nat]
            /\ \A m, n \in Nat : m <= n => T[m] <= T[n]

(* x spans the times of its ids.                                           *)
Timed(x, T) == x.lower = T[x.id[1]] /\ x.upper = T[x.id[2]]

(* Parts that may be in a spine: PS contains the empty part that takes the *)
(* place of parts without updates, too.                                    *)
GoodParts(PS, T) ==
    /\ PS \subseteq Part
    /\ \A p \in PS : /\ Timed(p, T)
                     /\ p.id[1] <= p.id[2]
                     /\ p.len > 0 => p.lower < p.upper
    /\ \A s \in Seq(PS) : \A since \in Nat :
         s # <<>> /\ Chained(s) /\ SumLen(s) = 0
           => EmptyPart(<<s[1].id[1], s[Len(s)].id[2]>>, s[1].lower, s[Len(s)].upper,
                        since, UNION {p.gone : p \in ToSet(s)}) \in PS

(* Batches made of parts of PS.                                            *)
BatchOK(b, PS, T) ==
    /\ b \in Batch
    /\ b.parts \in Seq(PS) /\ b.parts # <<>> /\ Chained(b.parts)
    /\ b.id = <<b.parts[1].id[1], b.parts[Len(b.parts)].id[2]>>
    /\ Timed(b, T)
    /\ b.len = SumLen(b.parts)
    /\ \A i \in 1 .. Len(b.parts) : b.parts[i].since <= b.since

BatchesOf(PS, T) == {b \in Batch : BatchOK(b, PS, T)}

(* The fields of a part.                                                   *)
LEMMA PartFields ==
    ASSUME NEW p \in Part
    PROVE  /\ p.id \in Span /\ p.id[1] \in Nat /\ p.id[2] \in Nat
           /\ p.id = <<p.id[1], p.id[2]>>
           /\ p.lower \in Nat /\ p.upper \in Nat /\ p.since \in Nat /\ p.len \in Nat
           /\ p.runs \subseteq Run /\ p.gone \subseteq RunId
    BY DEF Part, Span

(* The fields of a batch.                                                  *)
LEMMA BatchFields ==
    ASSUME NEW b \in Batch
    PROVE  /\ b.id \in Span /\ b.id[1] \in Nat /\ b.id[2] \in Nat
           /\ b.id = <<b.id[1], b.id[2]>>
           /\ b.lower \in Nat /\ b.upper \in Nat /\ b.since \in Nat /\ b.len \in Nat
           /\ b.parts \in Seq(Part)
    BY DEF Batch, Span

(* A sequence of good parts.                                               *)
LEMMA SeqOfParts ==
    ASSUME NEW PS \in SUBSET Part, NEW s \in Seq(PS)
    PROVE  /\ s \in Seq(Part) /\ HasLens(s) /\ Len(s) \in Nat
           /\ \A i \in 1 .. Len(s) : s[i] \in PS /\ s[i] \in Part
           /\ s # <<>> => Len(s) >= 1 /\ 1 \in 1 .. Len(s) /\ Len(s) \in 1 .. Len(s)
<1>1. \A i \in 1 .. Len(s) : s[i] \in PS
    BY ElementOfSeq
<1>2. Len(s) \in Nat
    OBVIOUS
<1>3. s # <<>> => Len(s) # 0
    BY EmptySeq
<1>4. HasLens(s)
    BY <1>1, PartFields DEF HasLens
<1>5. s \in Seq(Part)
    OBVIOUS
<1> QED BY <1>1, <1>2, <1>3, <1>4, <1>5

(* The fields of a good batch.                                             *)
LEMMA BatchOKFields ==
    ASSUME NEW T, NEW PS, GoodParts(PS, T), NEW b \in BatchesOf(PS, T)
    PROVE  /\ b \in Batch /\ b.parts \in Seq(PS) /\ b.parts # <<>> /\ Chained(b.parts)
           /\ Len(b.parts) \in Nat /\ Len(b.parts) >= 1
           /\ \A i \in 1 .. Len(b.parts) : b.parts[i] \in PS /\ b.parts[i].since <= b.since
           /\ b.parts[1] \in Part /\ b.parts[Len(b.parts)] \in Part
           /\ b.id[1] = b.parts[1].id[1] /\ b.id[2] = b.parts[Len(b.parts)].id[2]
           /\ b.id = <<b.id[1], b.id[2]>>
           /\ b.lower = T[b.id[1]] /\ b.upper = T[b.id[2]]
           /\ b.lower = b.parts[1].lower /\ b.upper = b.parts[Len(b.parts)].upper
           /\ b.len = SumLen(b.parts) /\ HasLens(b.parts)
<1>1. BatchOK(b, PS, T) /\ b \in Batch
    BY DEF BatchesOf
<1>2. b.parts \in Seq(PS) /\ b.parts # <<>> /\ Chained(b.parts) /\ b.len = SumLen(b.parts)
      /\ b.id = <<b.parts[1].id[1], b.parts[Len(b.parts)].id[2]>>
      /\ b.lower = T[b.id[1]] /\ b.upper = T[b.id[2]]
    BY <1>1 DEF BatchOK, Timed
<1>3. PS \in SUBSET Part
    BY DEF GoodParts
<1>4. /\ HasLens(b.parts) /\ Len(b.parts) \in Nat
      /\ \A i \in 1 .. Len(b.parts) : b.parts[i] \in PS /\ b.parts[i] \in Part
      /\ Len(b.parts) >= 1 /\ 1 \in 1 .. Len(b.parts) /\ Len(b.parts) \in 1 .. Len(b.parts)
    BY <1>2, <1>3, SeqOfParts
<1>5. b.id[1] = b.parts[1].id[1] /\ b.id[2] = b.parts[Len(b.parts)].id[2]
    BY <1>2
<1>6. /\ b.parts[1].lower = T[b.parts[1].id[1]]
      /\ b.parts[Len(b.parts)].upper = T[b.parts[Len(b.parts)].id[2]]
    BY <1>4 DEF GoodParts, Timed
<1>7. \A i \in 1 .. Len(b.parts) : b.parts[i].since <= b.since
    BY <1>1 DEF BatchOK
<1>8. b.id = <<b.id[1], b.id[2]>>
    BY <1>1, BatchFields
<1> QED BY <1>1, <1>2, <1>4, <1>5, <1>6, <1>7, <1>8

(* A batch of one part.                                                    *)
LEMMA MergedOK ==
    ASSUME NEW T, NEW PS, GoodParts(PS, T), NEW p \in PS
    PROVE  /\ Merged(p) \in BatchesOf(PS, T)
           /\ Merged(p).id = p.id /\ Merged(p).since = p.since /\ Merged(p).len = p.len
           /\ Merged(p).lower = p.lower /\ Merged(p).upper = p.upper
<1>1. p \in Part /\ p.lower = T[p.id[1]] /\ p.upper = T[p.id[2]]
    BY DEF GoodParts, Timed
<1> DEFINE s == <<p>>
           b == Merged(p)
<1>2. s \in Seq(PS) /\ s \in Seq(Part) /\ Len(s) = 1 /\ s[1] = p /\ s # <<>>
    BY <1>1, Tuples
<1>3. SumLen(s) = p.len
    BY <1>1, PartFields, SumLenSmall
<1> HIDE DEF s
<1>4. /\ b = [id |-> p.id, lower |-> p.lower, upper |-> p.upper, since |-> p.since,
              len |-> p.len, parts |-> s]
    BY DEF Merged, s
<1>5. /\ b.id = p.id /\ b.lower = p.lower /\ b.upper = p.upper /\ b.since = p.since
      /\ b.len = p.len /\ b.parts = s
    BY <1>4
<1>6. b \in Batch
    BY <1>1, <1>2, <1>4, PartFields DEF Batch
<1> HIDE DEF b
<1>7. BatchOK(b, PS, T)
    <2>1. Chained(s)
        BY <1>2 DEF Chained
    <2>2. b.id = <<p.id[1], p.id[2]>>
        BY <1>1, <1>5, PartFields
    <2>3. \A i \in 1 .. Len(s) : s[i].since <= b.since
        BY <1>1, <1>2, <1>5, PartFields
    <2> QED BY <1>1, <1>2, <1>3, <1>5, <1>6, <2>1, <2>2, <2>3 DEF BatchOK, Timed
<1> QED BY <1>5, <1>6, <1>7 DEF BatchesOf, b

(* A batch that has a part with a duration has one itself.                 *)
LEMMA BatchPositive ==
    ASSUME NEW T, NEW PS, Times(T), GoodParts(PS, T), NEW b \in BatchesOf(PS, T),
           NEW k \in 1 .. Len(b.parts), b.parts[k].lower < b.parts[k].upper
    PROVE  b.lower < b.upper
<1> DEFINE s == b.parts
           n == Len(s)
<1>1. /\ s \in Seq(PS) /\ Chained(s) /\ n \in Nat /\ n >= 1
      /\ b.lower = s[1].lower /\ b.upper = s[n].upper
      /\ \A i \in 1 .. n : s[i] \in PS
    BY BatchOKFields
<1>2. \A i \in 1 .. n : /\ s[i].lower \in Nat /\ s[i].upper \in Nat
                        /\ s[i].lower <= s[i].upper
    <2>1. ASSUME NEW i \in 1 .. n PROVE s[i].lower \in Nat /\ s[i].upper \in Nat
                                        /\ s[i].lower <= s[i].upper
        <3>1. s[i] \in Part /\ s[i].lower = T[s[i].id[1]] /\ s[i].upper = T[s[i].id[2]]
              /\ s[i].id[1] <= s[i].id[2]
            BY <1>1 DEF GoodParts, Timed
        <3>2. s[i].id[1] \in Nat /\ s[i].id[2] \in Nat /\ s[i].lower \in Nat /\ s[i].upper \in Nat
            BY <3>1, PartFields
        <3> QED BY <3>1, <3>2 DEF Times
    <2> QED BY <2>1
<1>3. \A i \in 2 .. n : s[i].lower = s[i - 1].upper
    BY <1>1 DEF Chained
<1> HIDE DEF n
<1> DEFINE S == {i \in 0 .. n : i >= 1 => /\ s[1].lower <= s[i].lower
                                         /\ (i > k => s[1].lower < s[i].lower)}
<1>4. 0 \in S
    BY <1>1
<1>5. ASSUME NEW i \in 1 .. n, i - 1 \in S PROVE i \in S
    <2>1. CASE i = 1
        BY <1>1, <1>2, <2>1 DEF n
    <2>2. CASE i # 1
        <3>1. i \in 2 .. n /\ i - 1 \in 1 .. n /\ i \in 1 .. n
            BY <1>1, <2>2
        <3>2. s[1].lower <= s[i - 1].lower /\ (i - 1 > k => s[1].lower < s[i - 1].lower)
            BY <1>5, <3>1
        <3>3. s[i].lower = s[i - 1].upper /\ s[i - 1].lower <= s[i - 1].upper
              /\ s[i].lower \in Nat /\ s[i - 1].lower \in Nat /\ s[1].lower \in Nat
            BY <1>1, <1>2, <1>3, <3>1, SMTT(40)
        <3>4. i > k => i - 1 > k \/ i - 1 = k
            BY <1>1 DEF n
        <3>5. i - 1 = k => s[i - 1].lower < s[i].lower
            BY <3>3
        <3> DEFINE x == s[1].lower
                   y == s[i - 1].lower
                   z == s[i].lower
        <3>6. x <= z /\ (i > k => x < z)
            <4>1. x \in Nat /\ y \in Nat /\ z \in Nat /\ y <= z /\ x <= y
                  /\ (i - 1 > k => x < y) /\ (i - 1 = k => y < z)
                BY <3>2, <3>3, <3>5
            <4> HIDE DEF x, y, z
            <4> QED BY <4>1, <3>4
        <3>7. i \in 0 .. n
            BY <1>1
        <3> QED BY <3>6, <3>7
    <2> QED BY <2>1, <2>2
<1> HIDE DEF S
<1>6. n \in S
    <2>1. 0 .. n \subseteq S
        BY <1>1, <1>4, <1>5, InductionUpTo
    <2> QED BY <1>1, <2>1
<1>7. s[1].lower <= s[n].lower /\ (n > k => s[1].lower < s[n].lower)
    BY <1>1, <1>6 DEF S
<1>8. n > k \/ n = k
    BY <1>1 DEF n
<1>9. n \in 1 .. n /\ 1 \in 1 .. n
    BY <1>1
<1>10. s[1].lower \in Nat /\ s[n].lower \in Nat /\ s[n].upper \in Nat /\ s[n].lower <= s[n].upper
    BY <1>2, <1>9
<1>11. n = k => s[n].lower < s[n].upper
    OBVIOUS
<1> QED BY <1>1, <1>7, <1>8, <1>10, <1>11

-----------------------------------------------------------------------------
(* Layers and their merges.                                                *)

(* What a merge of two batches amounts to.                                 *)
LEMMA MergeDoneOK ==
    ASSUME NEW T, NEW PS, GoodParts(PS, T),
           NEW a \in BatchesOf(PS, T), NEW b \in BatchesOf(PS, T), a.id[2] = b.id[1],
           NEW m \in Merge, a.since <= m.since, b.since <= m.since,
           NEW l, l.batches = <<a, b>>, l.merge = <<m>>
    PROVE  LET d == MergeDone(l)
           IN /\ d \in BatchesOf(PS, T) /\ d.id = <<a.id[1], b.id[2]>>
              /\ d.since = m.since /\ d.len = a.len + b.len
              /\ LayerLen(l) = d.len
<1> DEFINE s == a.parts
           r == b.parts
           q == s \o r
           id == <<a.id[1], b.id[2]>>
           len == a.len + b.len
           d == MergeDone(l)
<1>1. /\ a \in Batch /\ s \in Seq(PS) /\ s # <<>> /\ Chained(s) /\ a.len = SumLen(s)
      /\ Len(s) \in Nat /\ Len(s) >= 1
      /\ \A i \in 1 .. Len(s) : s[i] \in PS /\ s[i].since <= a.since
      /\ a.id[1] = s[1].id[1] /\ a.id[2] = s[Len(s)].id[2]
      /\ a.upper = s[Len(s)].upper /\ a.lower = s[1].lower
      /\ a.lower = T[a.id[1]] /\ a.upper = T[a.id[2]] /\ HasLens(s)
    BY BatchOKFields
<1>2. /\ b \in Batch /\ r \in Seq(PS) /\ r # <<>> /\ Chained(r) /\ b.len = SumLen(r)
      /\ Len(r) \in Nat /\ Len(r) >= 1
      /\ \A i \in 1 .. Len(r) : r[i] \in PS /\ r[i].since <= b.since
      /\ b.id[1] = r[1].id[1] /\ b.id[2] = r[Len(r)].id[2]
      /\ b.upper = r[Len(r)].upper /\ b.lower = r[1].lower
      /\ b.lower = T[b.id[1]] /\ b.upper = T[b.id[2]] /\ HasLens(r)
    BY BatchOKFields
<1>3. PS \in SUBSET Part
    BY DEF GoodParts
<1>4. PartsOf(l.batches) = q
    BY <1>1, <1>2, PartsOfTwo
<1>5. a.len \in Nat /\ b.len \in Nat /\ a.id[1] \in Nat /\ b.id[2] \in Nat
      /\ a.lower \in Nat /\ b.upper \in Nat /\ m.since \in Nat
      /\ a.since \in Nat /\ b.since \in Nat
    BY <1>1, <1>2, BatchFields DEF Merge
<1>6. LayerLen(l) = len /\ len \in Nat
    BY <1>5, SumLenSmall DEF LayerLen
<1>7. Head(l.batches) = a /\ Last(l.batches) = b
    BY <1>1, <1>2, Tuples DEF Last
<1>8. l.merge[1] = m
    OBVIOUS
<1> HIDE DEF s, r
<1>9. /\ q \in Seq(PS) /\ q # <<>> /\ Chained(q) /\ Len(q) = Len(s) + Len(r)
      /\ q[1] = s[1] /\ q[Len(q)] = r[Len(r)]
      /\ \A i \in 1 .. Len(q) : \/ \E k \in 1 .. Len(s) : q[i] = s[k]
                                \/ \E k \in 1 .. Len(r) : q[i] = r[k]
    <2>1. r[1].id[1] = s[Len(s)].id[2] /\ r[1].lower = s[Len(s)].upper
        BY <1>1, <1>2
    <2>2. s \in Seq(PS) /\ r \in Seq(PS) /\ s # <<>> /\ r # <<>> /\ Chained(s) /\ Chained(r)
        BY <1>1, <1>2
    <2> QED BY <2>1, <2>2, ChainedConcat
<1>10. SumLen(q) = len
    BY <1>1, <1>2, SumLenConcat
<1> HIDE DEF q, len
<1> DEFINE full == [id |-> id, lower |-> a.lower, upper |-> b.upper, since |-> m.since,
                    len |-> len, parts |-> q]
           none == EmptyPart(id, a.lower, b.upper, m.since, UNION {p.gone : p \in ToSet(q)})
<1>11. d = IF len = 0 THEN Merged(none) ELSE full
    <2>1. d = IF LayerLen(l) = 0 THEN Merged(EmptyPart(id, Head(l.batches).lower, Last(l.batches).upper, l.merge[1].since, UNION {p.gone : p \in ToSet(PartsOf(l.batches))}))
              ELSE [id |-> id, lower |-> Head(l.batches).lower, upper |-> Last(l.batches).upper, since |-> l.merge[1].since, len |-> LayerLen(l), parts |-> PartsOf(l.batches)]
        BY <1>7 DEF MergeDone
    <2> QED BY <1>4, <1>6, <1>7, <1>8, <2>1
<1>12. q[1].id[1] = a.id[1] /\ q[Len(q)].id[2] = b.id[2]
       /\ q[1].lower = a.lower /\ q[Len(q)].upper = b.upper
    BY <1>1, <1>2, <1>9
<1> HIDE DEF d
<1>13. CASE len = 0
    <2>1. none \in PS
        <3>1. EmptyPart(<<q[1].id[1], q[Len(q)].id[2]>>, q[1].lower, q[Len(q)].upper,
                        m.since, UNION {p.gone : p \in ToSet(q)}) \in PS
            BY <1>5, <1>9, <1>10, <1>13 DEF GoodParts
        <3> QED BY <1>12, <3>1
    <2>2. none.id = id /\ none.since = m.since /\ none.len = 0
        BY DEF EmptyPart
    <2> HIDE DEF none
    <2>3. Merged(none) \in BatchesOf(PS, T) /\ Merged(none).id = id
          /\ Merged(none).since = m.since /\ Merged(none).len = 0
        BY <2>1, <2>2, MergedOK
    <2> QED BY <1>6, <1>11, <1>13, <2>3 DEF d, len
<1>14. CASE len # 0
    <2> DEFINE f == full
    <2>1. f.id = id /\ f.lower = a.lower /\ f.upper = b.upper /\ f.since = m.since
          /\ f.len = len /\ f.parts = q
        OBVIOUS
    <2>2. f \in Batch
        <3>1. id \in Span /\ q \in Seq(Part)
            BY <1>3, <1>5, <1>9, SMTT(40) DEF Span
        <3> QED BY <1>5, <1>6, <3>1 DEF Batch
    <2> HIDE DEF f
    <2>3. BatchOK(f, PS, T)
        <3>1. ASSUME NEW i \in 1 .. Len(q) PROVE q[i].since <= f.since
            <4>1. q[i].since \in Nat
                <5>1. q[i] \in PS
                    BY <1>9, ElementOfSeq
                <5>2. q[i] \in Part
                    BY <1>3, <5>1
                <5> QED BY <5>2, PartFields
            <4>2. CASE \E k \in 1 .. Len(s) : q[i] = s[k]
                BY <1>1, <1>5, <2>1, <4>1, <4>2, SMTT(40)
            <4>3. CASE \E k \in 1 .. Len(r) : q[i] = r[k]
                BY <1>2, <1>5, <2>1, <4>1, <4>3, SMTT(40)
            <4> QED BY <1>9, <4>2, <4>3
        <3>2. f.id = <<q[1].id[1], q[Len(q)].id[2]>>
            BY <1>12, <2>1
        <3>3. Timed(f, T)
            BY <1>1, <1>2, <2>1 DEF Timed
        <3> QED BY <1>9, <1>10, <2>1, <2>2, <3>1, <3>2, <3>3 DEF BatchOK
    <2> QED BY <1>6, <1>11, <1>14, <2>1, <2>2, <2>3 DEF BatchesOf, d, f, len
<1> QED BY <1>13, <1>14

-----------------------------------------------------------------------------
(* Layers                                                                  *)

(* The batches of a layer, the ids it covers, and the work left.           *)
Num(l)  == Len(l.batches)
Lo(l)   == l.batches[1].id[1]
Hi(l)   == l.batches[Num(l)].id[2]
Work(l) == l.merge[1].work

(* A layer of good batches, at level i - 1.                                *)
LayerOK(l, i, since, BS) ==
    /\ l \in Layer
    /\ l.batches \in Seq(BS) /\ Num(l) \in 0 .. 2
    /\ \A k \in 1 .. Num(l) : l.batches[k].since <= since /\ l.batches[k].len <= Pow2[i - 1]
    /\ Num(l) # 2 => l.merge = <<>>
    /\ Num(l) = 2 => /\ Len(l.merge) = 1
                     /\ l.batches[1].id[2] = l.batches[2].id[1]
                     /\ l.batches[1].since <= l.merge[1].since
                     /\ l.batches[2].since <= l.merge[1].since
                     /\ l.merge[1].since <= since

(* The merge requests for batches that have a duration.                    *)
ReqsOf(BS) == {MergeReq(b) : b \in {c \in BS : c.lower < c.upper}}

(* A vacant layer is a good one.                                           *)
LEMMA VacantOK ==
    ASSUME NEW i \in Positive, NEW since, NEW BS
    PROVE  LayerOK(VacantLayer, i, since, BS) /\ Num(VacantLayer) = 0
<1>1. VacantLayer.batches \in Seq(BS) /\ Len(VacantLayer.batches) = 0
    BY VacantType
<1> QED BY <1>1, VacantType DEF LayerOK, Num

(* The three states of a layer, by the number of its batches.              *)
LEMMA Vacancy ==
    ASSUME NEW l \in Layer
    PROVE  /\ Num(l) \in Nat
           /\ IsVacant(l) <=> Num(l) = 0
           /\ IsSingle(l) <=> Num(l) = 1
           /\ IsFull(l) <=> Num(l) = 2
<1>1. l.batches \in Seq(Batch)
    BY DEF Layer
<1> QED BY <1>1, EmptySeq DEF Num, IsVacant, IsSingle, IsFull, BATCHES_PER_LEVEL

(* A layer with one batch.                                                 *)
LEMMA SingleLayer ==
    ASSUME NEW T, NEW PS, NEW since, NEW i \in Positive, NEW l,
           LayerOK(l, i, since, BatchesOf(PS, T)), Num(l) = 1
    PROVE  /\ l.batches[1] \in BatchesOf(PS, T) /\ l.batches[1] \in Batch
           /\ l.batches = <<l.batches[1]>>
           /\ l.batches[1].id = <<Lo(l), Hi(l)>>
           /\ l.batches[1].since <= since /\ l.batches[1].len <= Pow2[i - 1]
           /\ LayerLen(l) = l.batches[1].len /\ l.merge = <<>>
<1> DEFINE BS == BatchesOf(PS, T)
           s == l.batches
           b == s[1]
<1>1. s \in Seq(BS) /\ Len(s) = 1 /\ \A k \in 1 .. 1 : s[k].since <= since /\ s[k].len <= Pow2[i - 1]
    BY DEF LayerOK, Num
<1>2. b \in BS /\ s = <<b>>
    <2> HIDE DEF s, BS
    <2>1. s[1] \in BS
        BY <1>1, ElementOfSeq
    <2> QED BY <1>1, <2>1, ShortSeqs
<1>3. b \in Batch
    BY <1>2 DEF BatchesOf
<1>4. b.len \in Nat /\ b.id = <<b.id[1], b.id[2]>>
    BY <1>3, BatchFields
<1>5. LayerLen(l) = b.len
    BY <1>2, <1>4, SumLenSmall DEF LayerLen
<1> QED BY <1>1, <1>2, <1>3, <1>4, <1>5 DEF Lo, Hi, LayerOK, Num

Merging(l, i, since, a, b, m) ==
    /\ l.batches = <<a, b>> /\ l.merge = <<m>>
    /\ a \in Batch /\ b \in Batch
    /\ a.id[2] = b.id[1] /\ Lo(l) = a.id[1] /\ Hi(l) = b.id[2]
    /\ a.since <= m.since /\ b.since <= m.since /\ m.since <= since
    /\ a.len <= Pow2[i - 1] /\ b.len <= Pow2[i - 1]
    /\ Work(l) = m.work

(* A layer that is merging.                                                *)
LEMMA FullLayer ==
    ASSUME NEW T, NEW PS, NEW since, NEW i \in Positive, NEW l,
           LayerOK(l, i, since, BatchesOf(PS, T)), Num(l) = 2
    PROVE  \E a, b \in BatchesOf(PS, T) : \E m \in Merge :
             Merging(l, i, since, a, b, m)
<1> DEFINE BS == BatchesOf(PS, T)
           s == l.batches
           a == s[1]
           b == s[2]
           m == l.merge[1]
<1>1. /\ s \in Seq(BS) /\ Len(s) = 2 /\ \A k \in 1 .. 2 : s[k].since <= since /\ s[k].len <= Pow2[i - 1]
      /\ l.merge \in Seq(Merge) /\ Len(l.merge) = 1
      /\ a.id[2] = b.id[1] /\ a.since <= m.since /\ b.since <= m.since /\ m.since <= since
    BY DEF LayerOK, Num, Layer
<1>2. a \in BS /\ b \in BS /\ s = <<a, b>>
    <2> HIDE DEF s, BS
    <2>1. s[1] \in BS
        BY <1>1, ElementOfSeq
    <2> QED BY <1>1, <2>1, ShortSeqs
<1>3. m \in Merge /\ l.merge = <<m>>
    <2> DEFINE r == l.merge
    <2> HIDE DEF r
    <2>1. r \in Seq(Merge) /\ Len(r) = 1
        BY <1>1 DEF r
    <2>2. r[1] \in Merge
        BY <2>1, ElementOfSeq
    <2>3. r = <<r[1]>>
        BY <2>1, <2>2, ShortSeqs
    <2> QED BY <2>2, <2>3 DEF r
<1>4. a \in Batch /\ b \in Batch
    BY <1>2 DEF BatchesOf
<1>5. Lo(l) = a.id[1] /\ Hi(l) = b.id[2] /\ Work(l) = m.work
    BY DEF Lo, Hi, Work
<1> HIDE DEF a, b, m
<1>6. a.len <= Pow2[i - 1] /\ b.len <= Pow2[i - 1]
    BY <1>1 DEF a, b
<1> HIDE DEF BS
<1>7. Merging(l, i, since, a, b, m)
    BY <1>1, <1>2, <1>3, <1>4, <1>5, <1>6 DEF Merging, s, a, b, m
<1> QED BY <1>2, <1>3, <1>7 DEF BS

-----------------------------------------------------------------------------
(* Pushing and completing.                                                 *)

(* A good layer stays good when a batch is pushed onto it; if it merges    *)
(* now, all the work is left.                                              *)
LEMMA PushedOK ==
    ASSUME NEW T, NEW PS, Times(T), GoodParts(PS, T), NEW since \in Nat, NEW i \in Positive, NEW l,
           LayerOK(l, i, since, BatchesOf(PS, T)), Num(l) # 2,
           NEW b \in BatchesOf(PS, T), b.since <= since, b.len <= Pow2[i - 1],
           Num(l) = 1 => Hi(l) = b.id[1]
    PROVE  /\ CanPush(l, b)
           /\ LET q == Pushed(l, b, since)
              IN /\ LayerOK(q, i, since, BatchesOf(PS, T))
                 /\ Num(q) = Num(l) + 1
                 /\ Lo(q) = IF Num(l) = 0 THEN b.id[1] ELSE Lo(l)
                 /\ Hi(q) = b.id[2]
                 /\ Num(q) = 2 => /\ Work(q) = l.batches[1].len + b.len
                                  /\ Work(q) <= 2 * Pow2[i - 1]
<1> DEFINE BS == BatchesOf(PS, T)
           q == Pushed(l, b, since)
<1>1. l \in Layer /\ Num(l) \in 0 .. 2 /\ l.merge = <<>>
    BY DEF LayerOK
<1>2. b \in Batch /\ b.lower = T[b.id[1]]
    BY BatchOKFields
<1>3. Len(l.batches) <= 1
    <2>1. Num(l) <= 1
        BY <1>1
    <2> QED BY <2>1 DEF Num
<1>4. /\ q \in Layer
      /\ q.batches = IF Len(l.batches) = 0 THEN <<b>> ELSE <<l.batches[1], b>>
      /\ q.merge = IF Len(l.batches) = 0 THEN <<>>
                   ELSE <<BeginMerge(<<l.batches[1], b>>, since)>>
    BY <1>1, <1>2, <1>3, PushedType
<1>5. Pow2[i - 1] \in Nat
    BY Pow2Def DEF Positive
<1> HIDE DEF q
<1>6. CASE Num(l) = 0
    <2>1. q.batches = <<b>> /\ q.merge = <<>>
        BY <1>4, <1>6 DEF Num
    <2>2. q.batches \in Seq(BS) /\ Num(q) = 1 /\ q.batches[1] = b
        BY <2>1, Tuples DEF Num
    <2>3. LayerOK(q, i, since, BS)
        <3>1. \A k \in 1 .. 1 : q.batches[k] = b
            BY <2>2
        <3>2. \A k \in 1 .. 1 : q.batches[k].since <= since /\ q.batches[k].len <= Pow2[i - 1]
            BY <3>1
        <3>3. Num(q) \in 0 .. 2 /\ Num(q) # 2
            BY <2>2
        <3> QED BY <1>4, <2>1, <2>2, <3>2, <3>3 DEF LayerOK
    <2>4. CanPush(l, b)
        BY <1>1, <1>3, <1>6 DEF CanPush, Num
    <2>5. Lo(q) = b.id[1] /\ Hi(q) = b.id[2]
        BY <2>2 DEF Lo, Hi
    <2> QED BY <1>6, <2>2, <2>3, <2>4, <2>5 DEF q
<1>7. CASE Num(l) = 1
    <2> DEFINE a == l.batches[1]
               m == BeginMerge(<<a, b>>, since)
    <2>1. a \in BS /\ a \in Batch /\ a.id[2] = Hi(l) /\ a.id[1] = Lo(l) /\ a.since <= since /\ a.len <= Pow2[i - 1]
        <3>1. a \in BS /\ a \in Batch /\ a.id = <<Lo(l), Hi(l)>> /\ a.since <= since /\ a.len <= Pow2[i - 1]
            BY <1>7, SingleLayer, Zenon
        <3> QED BY <3>1
    <2>2. a.upper = T[a.id[2]]
        BY <2>1, BatchOKFields
    <2>3. CanPush(l, b)
        BY <1>1, <1>2, <1>3, <1>7, <2>1, <2>2 DEF CanPush
    <2>4. q.batches = <<a, b>> /\ q.merge = <<m>>
        BY <1>4, <1>7 DEF Num
    <2> HIDE DEF a
    <2>5. m \in Merge /\ a.since <= m.since /\ b.since <= m.since /\ m.since <= since
          /\ m.work = a.len + b.len
        BY <1>2, <2>1, BeginMergeIs
    <2> HIDE DEF m
    <2>6. q.batches \in Seq(BS) /\ Num(q) = 2 /\ q.batches[1] = a /\ q.batches[2] = b
          /\ Len(q.merge) = 1 /\ q.merge[1] = m
        BY <2>1, <2>4, <2>5, Tuples DEF Num
    <2>7. LayerOK(q, i, since, BS)
        <3>1. \A k \in 1 .. 2 : q.batches[k] = a \/ q.batches[k] = b
            BY <2>6
        <3>2. \A k \in 1 .. 2 : q.batches[k].since <= since /\ q.batches[k].len <= Pow2[i - 1]
            BY <2>1, <3>1
        <3>3. a.id[2] = b.id[1]
            BY <1>7, <2>1
        <3> QED BY <1>4, <2>5, <2>6, <3>2, <3>3 DEF LayerOK
    <2>8. Lo(q) = Lo(l) /\ Hi(q) = b.id[2] /\ Work(q) = m.work
        BY <2>1, <2>6 DEF Lo, Hi, Work
    <2>9. m.work <= 2 * Pow2[i - 1]
        BY <1>2, <1>5, <2>1, <2>5, BatchFields, SMTT(40)
    <2>10. Work(q) = l.batches[1].len + b.len
        BY <2>5, <2>8 DEF a
    <2> QED BY <1>7, <2>3, <2>6, <2>7, <2>8, <2>9, <2>10 DEF q
<1> QED BY <1>1, <1>6, <1>7

(* What a layer amounts to fits the next layer, and asks for a merge only  *)
(* of a batch with a duration.                                             *)
LEMMA CompletedOK ==
    ASSUME NEW T, NEW PS, Times(T), GoodParts(PS, T), NEW since \in Nat, NEW i \in Positive, NEW l,
           LayerOK(l, i, since, BatchesOf(PS, T)), Num(l) # 0
    PROVE  LET d == Completed(l)
           IN /\ d \in BatchesOf(PS, T) /\ d \in Batch
              /\ d.id = <<Lo(l), Hi(l)>>
              /\ d.since <= since
              /\ d.len <= Pow2[i]
              /\ d.len = LayerLen(l)
              /\ Num(l) = 1 => d.len <= Pow2[i - 1]
              /\ Num(l) = 2 /\ LayerLen(l) > 0 => MergeReq(MergeDone(l)) \in ReqsOf(BatchesOf(PS, T))
<1> DEFINE BS == BatchesOf(PS, T)
           d == Completed(l)
<1>1. l \in Layer /\ Num(l) \in 1 .. 2
    BY DEF LayerOK
<1>2. Pow2[i - 1] \in Nat /\ Pow2[i] = 2 * Pow2[i - 1]
    <2>1. i - 1 \in Nat /\ (i - 1) + 1 = i
        BY DEF Positive
    <2>2. Pow2[i - 1] \in Nat /\ Pow2[(i - 1) + 1] = 2 * Pow2[i - 1]
        BY <2>1, Pow2Def
    <2> QED BY <2>1, <2>2
<1>3. CASE Num(l) = 1
    <2>1. d = l.batches[1]
        BY <1>1, <1>3, Vacancy DEF Completed
    <2>2. d \in BS /\ d \in Batch /\ d.id = <<Lo(l), Hi(l)>> /\ d.since <= since /\ d.len <= Pow2[i - 1]
          /\ d.len = LayerLen(l)
        <3> DEFINE a == l.batches[1]
        <3>1. a \in BS /\ a \in Batch /\ a.id = <<Lo(l), Hi(l)>> /\ a.since <= since /\ a.len <= Pow2[i - 1]
              /\ LayerLen(l) = a.len
            BY <1>3, SingleLayer, Zenon
        <3> HIDE DEF d
        <3> QED BY <2>1, <3>1
    <2>3. d.len <= Pow2[i]
        BY <1>2, <2>2, BatchFields
    <2> QED BY <1>3, <2>2, <2>3
<1>4. CASE Num(l) = 2
    <2>1. d = MergeDone(l)
        BY <1>1, <1>4, Vacancy DEF Completed
    <2>2. PICK a, b \in BatchesOf(PS, T) : \E m \in Merge : Merging(l, i, since, a, b, m)
        BY <1>4, FullLayer, Zenon
    <2>31. PICK m \in Merge : Merging(l, i, since, a, b, m)
        BY <2>2
    <2>3. /\ l.batches = <<a, b>> /\ l.merge = <<m>>
          /\ a \in Batch /\ b \in Batch
          /\ a.id[2] = b.id[1] /\ Lo(l) = a.id[1] /\ Hi(l) = b.id[2]
          /\ a.since <= m.since /\ b.since <= m.since /\ m.since <= since
          /\ a.len <= Pow2[i - 1] /\ b.len <= Pow2[i - 1]
          /\ Work(l) = m.work
        BY <2>31 DEF Merging
    <2>4. d \in BS /\ d.id = <<Lo(l), Hi(l)>> /\ d.since = m.since /\ d.len = a.len + b.len
          /\ LayerLen(l) = d.len
        BY <2>1, <2>3, MergeDoneOK
    <2>5. d.len <= Pow2[i]
        BY <1>2, <2>3, <2>4, BatchFields
    <2>6. d \in Batch
        BY <2>4 DEF BatchesOf
    <2>7. ASSUME d.len > 0 PROVE d.lower < d.upper
        <3> DEFINE s == d.parts
        <3> HIDE DEF d
        <3>1. s \in Seq(PS) /\ d.len = SumLen(s) /\ HasLens(s)
              /\ \A k \in 1 .. Len(s) : s[k] \in PS
            BY <2>4, BatchOKFields
        <3>2. PICK k \in 1 .. Len(s) : s[k].len > 0
            BY <2>7, <3>1, SumLenPositive
        <3>3. s[k].lower < s[k].upper
            BY <3>1, <3>2 DEF GoodParts
        <3> QED BY <2>4, <3>3, BatchPositive
    <2>8. LayerLen(l) > 0 => MergeReq(d) \in ReqsOf(BS)
        BY <2>4, <2>7 DEF ReqsOf
    <2> QED BY <1>4, <2>1, <2>3, <2>4, <2>5, <2>6, <2>8
<1> QED BY <1>1, <1>3, <1>4

(* Requests have their type.                                               *)
LEMMA ReqTypes ==
    ASSUME NEW PS, NEW T
    PROVE  ReqsOf(BatchesOf(PS, T)) \subseteq Req
<1>1. ASSUME NEW b \in Batch PROVE MergeReq(b) \in Req
    BY BatchFields DEF MergeReq, Req
<1> QED BY <1>1 DEF ReqsOf, BatchesOf

-----------------------------------------------------------------------------
(* The steps of a trace                                                    *)

Good(t, PS, T) ==
    /\ t \in Trace
    /\ t.panicked = FALSE
    /\ t.reqs \subseteq ReqsOf(BatchesOf(PS, T))
    /\ \A i \in Positive : LayerOK(Lay(t)[i], i, t.since, BatchesOf(PS, T))

(* Batch b can be pushed onto layer i.                                     *)
Fits(t, b, i, PS, T) ==
    /\ i \in Positive /\ Num(Lay(t)[i]) # 2
    /\ b \in BatchesOf(PS, T) /\ b.since <= t.since /\ b.len <= Pow2[i - 1]
    /\ Num(Lay(t)[i]) = 1 => Hi(Lay(t)[i]) = b.id[1]

(* u is t after that.                                                      *)
PushStep(t, u, b, i) ==
    /\ Lay(u) = [Lay(t) EXCEPT ![i] = Lay(u)[i]]
    /\ Num(Lay(u)[i]) = Num(Lay(t)[i]) + 1
    /\ Lo(Lay(u)[i]) = IF Num(Lay(t)[i]) = 0 THEN b.id[1] ELSE Lo(Lay(t)[i])
    /\ Hi(Lay(u)[i]) = b.id[2]
    /\ Num(Lay(u)[i]) = 2 => /\ Work(Lay(u)[i]) = Lay(t)[i].batches[1].len + b.len
                             /\ Work(Lay(u)[i]) <= 2 * Pow2[i - 1]
    /\ Len(u.layers) = IF i <= Len(t.layers) THEN Len(t.layers) ELSE i
    /\ SameBut(u, t)

(* push_batch keeps the layers good, and does not panic if the batch fits. *)
LEMMA PushAtOK ==
    ASSUME NEW T, NEW PS, Times(T), GoodParts(PS, T), NEW t, Good(t, PS, T),
           NEW b, NEW i, Fits(t, b, i, PS, T)
    PROVE  Good(PushAt(t, b, i), PS, T) /\ PushStep(t, PushAt(t, b, i), b, i)
<1>0. /\ i \in Positive /\ Num(Lay(t)[i]) # 2
      /\ b \in BatchesOf(PS, T) /\ b.since <= t.since /\ b.len <= Pow2[i - 1]
      /\ Num(Lay(t)[i]) = 1 => Hi(Lay(t)[i]) = b.id[1]
    BY DEF Fits
<1> DEFINE BS == BatchesOf(PS, T)
           l == Lay(t)[i]
           q == Pushed(l, b, t.since)
           u == PushAt(t, b, i)
<1>1. t \in Trace /\ t.since \in Nat /\ LayerOK(l, i, t.since, BS) /\ Lay(t) \in [Positive -> Layer]
    BY <1>0, LayType DEF Good, Trace
<1>2. CanPush(l, b) /\ LayerOK(q, i, t.since, BS) /\ Num(q) = Num(l) + 1
      /\ (Lo(q) = IF Num(l) = 0 THEN b.id[1] ELSE Lo(l)) /\ Hi(q) = b.id[2]
      /\ (Num(q) = 2 => Work(q) = l.batches[1].len + b.len /\ Work(q) <= 2 * Pow2[i - 1])
    BY <1>0, <1>1, PushedOK
<1>3. b \in Batch
    BY <1>0 DEF BatchesOf
<1>4. /\ u \in Trace /\ Lay(u) = [Lay(t) EXCEPT ![i] = q] /\ SameBut(u, t) /\ u.reqs = t.reqs
      /\ Len(u.layers) = IF i <= Len(t.layers) THEN Len(t.layers) ELSE i
    BY <1>0, <1>1, <1>2, <1>3, PushAtIs
<1> HIDE DEF q, u, l
<1>5. Lay(u)[i] = q
    BY <1>0, <1>1, <1>4
<1>6. Good(u, PS, T)
    <2>1. \A k \in Positive : k # i => Lay(u)[k] = Lay(t)[k]
        BY <1>1, <1>4
    <2>2. u.since = t.since /\ u.panicked = FALSE /\ u.reqs \subseteq ReqsOf(BS)
        BY <1>4 DEF SameBut, Good
    <2>3. ASSUME NEW k \in Positive PROVE LayerOK(Lay(u)[k], k, u.since, BS)
        <3>1. CASE k = i
            BY <1>2, <1>5, <2>2, <3>1
        <3>2. CASE k # i
            BY <2>1, <2>2, <3>2 DEF Good
        <3> QED BY <3>1, <3>2
    <2> QED BY <1>4, <2>2, <2>3 DEF Good
<1>7. PushStep(t, u, b, i)
    BY <1>2, <1>4, <1>5 DEF PushStep, l
<1> QED BY <1>6, <1>7 DEF u

(* complete_at empties a layer and may ask for a merge.                    *)
LEMMA CompleteAtOK ==
    ASSUME NEW T, NEW PS, Times(T), GoodParts(PS, T), NEW t, Good(t, PS, T),
           NEW i \in 1 .. Len(t.layers), Num(Lay(t)[i]) # 0
    PROVE  LET u == CompleteAt(t, i)
           IN /\ Good(u, PS, T)
              /\ Lay(u) = [Lay(t) EXCEPT ![i] = VacantLayer]
              /\ Len(u.layers) = Len(t.layers)
              /\ SameBut(u, t)
<1> DEFINE BS == BatchesOf(PS, T)
           l == t.layers[i]
           ls == [t.layers EXCEPT ![i] = VacantLayer]
           rs == IF IsFull(l) /\ LayerLen(l) > 0
                   THEN t.reqs \cup {MergeReq(MergeDone(l))} ELSE t.reqs
           u == CompleteAt(t, i)
<1>1. t \in Trace /\ t.since \in Nat /\ t.layers \in Seq(Layer) /\ Len(t.layers) \in Nat
    BY DEF Good, Trace
<1>2. i \in Positive /\ Lay(t)[i] = l
    BY <1>1 DEF Positive, Lay, At
<1>3. LayerOK(l, i, t.since, BS) /\ l \in Layer
    BY <1>2 DEF Good, LayerOK
<1>4. rs \subseteq ReqsOf(BS)
    <2>1. ASSUME IsFull(l), LayerLen(l) > 0 PROVE MergeReq(MergeDone(l)) \in ReqsOf(BS)
        <3>1. Num(l) = 2
            BY <1>3, <2>1, Vacancy
        <3> HIDE DEF l
        <3> QED BY <1>1, <1>2, <1>3, <2>1, <3>1, CompletedOK
    <2> QED BY <2>1 DEF Good
<1>5. /\ ls \in Seq(Layer) /\ Len(ls) = Len(t.layers)
      /\ \A v : v.layers = ls => Lay(v) = [Lay(t) EXCEPT ![i] = VacantLayer]
    BY <1>1, VacantType, SetLayer
<1>6. u = [t EXCEPT !.layers[i] = VacantLayer, !.reqs = rs]
    BY DEF CompleteAt
<1>7. u = [layers |-> ls, since |-> t.since, upper |-> t.upper, nextId |-> t.nextId,
           reqs |-> rs, panicked |-> t.panicked]
    <2> HIDE DEF rs
    <2> QED BY <1>1, <1>6 DEF Trace
<1>8. rs \subseteq Req
    BY <1>4, ReqTypes
<1> HIDE DEF ls, rs, u
<1>9. /\ u.layers = ls /\ u.since = t.since /\ u.upper = t.upper /\ u.nextId = t.nextId
      /\ u.reqs = rs /\ u.panicked = t.panicked
    BY <1>7
<1>10. u \in Trace
    BY <1>1, <1>5, <1>7, <1>8 DEF Trace
<1>11. Lay(u) = [Lay(t) EXCEPT ![i] = VacantLayer]
    BY <1>5, <1>9
<1>12. Good(u, PS, T)
    <2>1. ASSUME NEW k \in Positive PROVE LayerOK(Lay(u)[k], k, u.since, BS)
        <3>0. Lay(t) \in [Positive -> Layer]
            BY <1>1, LayType
        <3>1. CASE k = i
            <4>1. Lay(u)[k] = VacantLayer
                BY <1>2, <1>11, <3>0, <3>1
            <4> QED BY <4>1, VacantOK
        <3>2. CASE k # i
            <4>1. Lay(u)[k] = Lay(t)[k]
                BY <1>2, <1>11, <3>0, <3>2
            <4> QED BY <1>9, <4>1 DEF Good
        <3> QED BY <3>1, <3>2
    <2> QED BY <1>4, <1>9, <1>10, <2>1 DEF Good
<1>13. SameBut(u, t)
    BY <1>9 DEF SameBut
<1> QED BY <1>5, <1>9, <1>11, <1>12, <1>13 DEF u

(* Completing a layer into another is a completion and a push.             *)
LEMMA CompleteIntoIs ==
    ASSUME NEW T, NEW PS, Times(T), GoodParts(PS, T), NEW t, Good(t, PS, T),
           NEW i \in 1 .. Len(t.layers), Num(Lay(t)[i]) # 0, NEW j
    PROVE  /\ CompleteInto(t, i, j) = PushAt(CompleteAt(t, i), Completed(Lay(t)[i]), j)
           /\ i \in Positive /\ Lay(t)[i] \in Layer
           /\ LayerOK(Lay(t)[i], i, t.since, BatchesOf(PS, T))
<1> DEFINE l == t.layers[i]
           v == CompleteAt(t, i)
           d == Completed(l)
<1>1. t \in Trace /\ t.layers \in Seq(Layer) /\ Len(t.layers) \in Nat
    BY DEF Good, Trace
<1>2. i \in Positive /\ Lay(t)[i] = l
    BY <1>1 DEF Positive, Lay, At
<1>3. LayerOK(l, i, t.since, BatchesOf(PS, T)) /\ l \in Layer
    BY <1>2 DEF Good, LayerOK
<1>4. ~IsVacant(l)
    BY <1>2, <1>3, Vacancy
<1> DEFINE S == {PushAt(left, done, j) : left \in {v}, done \in {d}}
<1>5. CompleteInto(t, i, j) = The(S)
    BY <1>4 DEF CompleteInto
<1> HIDE DEF v, d
<1>6. S = {PushAt(v, d, j)}
    OBVIOUS
<1> HIDE DEF S
<1>7. CompleteInto(t, i, j) = PushAt(v, d, j)
    BY <1>5, <1>6, TheOf
<1> QED BY <1>2, <1>3, <1>7 DEF v, d

(* u is t after what layer i amounts to has moved to the next layer.       *)
UpStep(t, u, i) ==
    /\ Lay(u)[i] = VacantLayer
    /\ \A k \in Positive : k # i /\ k # i + 1 => Lay(u)[k] = Lay(t)[k]
    /\ Num(Lay(u)[i + 1]) = Num(Lay(t)[i + 1]) + 1
    /\ Lo(Lay(u)[i + 1]) = IF Num(Lay(t)[i + 1]) = 0 THEN Lo(Lay(t)[i]) ELSE Lo(Lay(t)[i + 1])
    /\ Hi(Lay(u)[i + 1]) = Hi(Lay(t)[i])
    /\ Num(Lay(u)[i + 1]) = 2 => Work(Lay(u)[i + 1]) <= 2 * Pow2[i]
    /\ Len(u.layers) = IF i + 1 <= Len(t.layers) THEN Len(t.layers) ELSE i + 1
    /\ SameBut(u, t)

(* A layer is completed into the next one.                                 *)
LEMMA CompleteUp ==
    ASSUME NEW T, NEW PS, Times(T), GoodParts(PS, T), NEW t, Good(t, PS, T),
           NEW i \in 1 .. Len(t.layers), Num(Lay(t)[i]) # 0,
           Num(Lay(t)[i + 1]) # 2,
           Num(Lay(t)[i + 1]) = 1 => Hi(Lay(t)[i + 1]) = Lo(Lay(t)[i])
    PROVE  Good(CompleteInto(t, i, i + 1), PS, T) /\ UpStep(t, CompleteInto(t, i, i + 1), i)
<1> DEFINE BS == BatchesOf(PS, T)
           l == Lay(t)[i]
           m == Lay(t)[i + 1]
           v == CompleteAt(t, i)
           d == Completed(l)
           u == PushAt(v, d, i + 1)
           q == Lay(u)[i + 1]
<1>1. t \in Trace /\ t.since \in Nat /\ Lay(t) \in [Positive -> Layer] /\ Len(t.layers) \in Nat
    BY LayType DEF Good, Trace
<1>2. CompleteInto(t, i, i + 1) = u /\ i \in Positive /\ LayerOK(l, i, t.since, BS)
    BY CompleteIntoIs
<1>3. i + 1 \in Positive /\ (i + 1) - 1 = i /\ i + 1 # i
    BY <1>2 DEF Positive
<1>4. Good(v, PS, T) /\ Lay(v) = [Lay(t) EXCEPT ![i] = VacantLayer]
      /\ Len(v.layers) = Len(t.layers) /\ SameBut(v, t)
    BY CompleteAtOK
<1>5. d \in BS /\ d.id = <<Lo(l), Hi(l)>> /\ d.since <= t.since /\ d.len <= Pow2[i]
    BY <1>1, <1>2, CompletedOK
<1> HIDE DEF v, d, l, BS
<1>6. Lay(v)[i + 1] = m /\ v.since = t.since
    BY <1>1, <1>3, <1>4 DEF SameBut
<1>7. d.id[1] = Lo(l) /\ d.id[2] = Hi(l)
    BY <1>5
<1>8. d.len <= Pow2[(i + 1) - 1] /\ d.since <= v.since
    BY <1>3, <1>5, <1>6
<1>9. Num(Lay(v)[i + 1]) # 2 /\ (Num(Lay(v)[i + 1]) = 1 => Hi(Lay(v)[i + 1]) = d.id[1])
    BY <1>6, <1>7 DEF l
<1>10. /\ Good(u, PS, T) /\ Lay(u) = [Lay(v) EXCEPT ![i + 1] = q]
       /\ Num(q) = Num(m) + 1 /\ (Lo(q) = IF Num(m) = 0 THEN d.id[1] ELSE Lo(m))
       /\ Hi(q) = d.id[2]
       /\ (Num(q) = 2 => Work(q) <= 2 * Pow2[(i + 1) - 1])
       /\ Len(u.layers) = (IF i + 1 <= Len(v.layers) THEN Len(v.layers) ELSE i + 1)
       /\ SameBut(u, v)
    <2> DEFINE j == i + 1
    <2>1. Fits(v, d, j, PS, T)
        BY <1>3, <1>5, <1>8, <1>9 DEF BS, Fits
    <2> HIDE DEF j, m
    <2>2. Good(PushAt(v, d, j), PS, T) /\ PushStep(v, PushAt(v, d, j), d, j)
        BY <1>4, <2>1, PushAtOK
    <2>3. Good(u, PS, T) /\ PushStep(v, u, d, j)
        BY <2>2 DEF j
    <2> HIDE DEF u
    <2>4. m = Lay(v)[j] /\ q = Lay(u)[j]
        BY <1>6 DEF j
    <2> HIDE DEF q
    <2>5. /\ Lay(u) = [Lay(v) EXCEPT ![j] = q]
          /\ Num(q) = Num(m) + 1 /\ (Lo(q) = IF Num(m) = 0 THEN d.id[1] ELSE Lo(m))
          /\ Hi(q) = d.id[2]
          /\ (Num(q) = 2 => Work(q) <= 2 * Pow2[j - 1])
          /\ Len(u.layers) = (IF j <= Len(v.layers) THEN Len(v.layers) ELSE j)
          /\ SameBut(u, v)
        BY <2>3, <2>4, Zenon DEF PushStep
    <2> QED BY <2>3, <2>5 DEF j
<1> HIDE DEF u, q
<1>11. SameBut(u, t)
    BY <1>4, <1>10 DEF SameBut
<1>12. Lay(v) \in [Positive -> Layer] /\ Lay(u) \in [Positive -> Layer]
    BY <1>4, <1>10, LayType DEF Good
<1>13. Lay(u)[i] = VacantLayer
    BY <1>1, <1>2, <1>3, <1>4, <1>10, <1>12
<1>14. \A k \in Positive : k # i /\ k # i + 1 => Lay(u)[k] = Lay(t)[k]
    BY <1>1, <1>4, <1>10, <1>12
<1>15. UpStep(t, u, i)
    BY <1>3, <1>4, <1>7, <1>10, <1>11, <1>13, <1>14 DEF UpStep, l, q
<1> QED BY <1>2, <1>10, <1>15

(* The empty batches of a layer are fused in place.                        *)
LEMMA CompleteHere ==
    ASSUME NEW T, NEW PS, Times(T), GoodParts(PS, T), NEW t, Good(t, PS, T),
           NEW i \in 1 .. Len(t.layers), Num(Lay(t)[i]) # 0,
           LayerLen(Lay(t)[i]) <= Pow2[i - 1]
    PROVE  LET u == CompleteInto(t, i, i)
               l == Lay(t)[i]
               q == Lay(u)[i]
           IN /\ Good(u, PS, T)
              /\ \A k \in Positive : k # i => Lay(u)[k] = Lay(t)[k]
              /\ Num(q) = 1 /\ Lo(q) = Lo(l) /\ Hi(q) = Hi(l)
              /\ Len(u.layers) = Len(t.layers)
              /\ SameBut(u, t)
<1> DEFINE BS == BatchesOf(PS, T)
           l == Lay(t)[i]
           v == CompleteAt(t, i)
           d == Completed(l)
           u == PushAt(v, d, i)
           q == Lay(u)[i]
<1>1. t \in Trace /\ t.since \in Nat /\ Lay(t) \in [Positive -> Layer] /\ Len(t.layers) \in Nat
    BY LayType DEF Good, Trace
<1>2. CompleteInto(t, i, i) = u /\ i \in Positive /\ LayerOK(l, i, t.since, BS)
    BY CompleteIntoIs
<1>4. Good(v, PS, T) /\ Lay(v) = [Lay(t) EXCEPT ![i] = VacantLayer]
      /\ Len(v.layers) = Len(t.layers) /\ SameBut(v, t)
    BY CompleteAtOK
<1>5. d \in BS /\ d.id = <<Lo(l), Hi(l)>> /\ d.since <= t.since /\ d.len = LayerLen(l)
    BY <1>1, <1>2, CompletedOK
<1>50. d.len <= Pow2[i - 1]
    BY <1>5
<1> HIDE DEF v, d, l, BS
<1>6. Lay(v)[i] = VacantLayer /\ v.since = t.since
    BY <1>1, <1>2, <1>4 DEF SameBut
<1>7. d.id[1] = Lo(l) /\ d.id[2] = Hi(l)
    BY <1>5
<1>8. d.since <= v.since /\ Num(VacantLayer) = 0
    BY <1>2, <1>5, <1>6, VacantOK
<1>9. Num(Lay(v)[i]) = 0
    BY <1>6, <1>8
<1>90. Num(Lay(v)[i]) # 2 /\ (Num(Lay(v)[i]) = 1 => Hi(Lay(v)[i]) = d.id[1])
    BY <1>9
<1>10. /\ Good(u, PS, T) /\ Lay(u) = [Lay(v) EXCEPT ![i] = q]
       /\ Num(q) = Num(Lay(v)[i]) + 1 /\ Lo(q) = (IF Num(Lay(v)[i]) = 0 THEN d.id[1] ELSE Lo(Lay(v)[i]))
       /\ Hi(q) = d.id[2]
       /\ Len(u.layers) = (IF i <= Len(v.layers) THEN Len(v.layers) ELSE i)
       /\ SameBut(u, v)
    <2>1. Fits(v, d, i, PS, T)
        BY <1>2, <1>5, <1>50, <1>8, <1>90 DEF BS, Fits
    <2>2. Good(u, PS, T) /\ PushStep(v, u, d, i)
        BY <1>4, <2>1, PushAtOK
    <2> HIDE DEF u
    <2> QED BY <2>2 DEF PushStep
<1> HIDE DEF u, q
<1>11. SameBut(u, t)
    BY <1>4, <1>10 DEF SameBut
<1>12. Lay(v) \in [Positive -> Layer] /\ Lay(u) \in [Positive -> Layer]
    BY <1>4, <1>10, LayType DEF Good
<1>14. \A k \in Positive : k # i => Lay(u)[k] = Lay(t)[k]
    BY <1>1, <1>4, <1>10, <1>12
<1>15. i <= Len(v.layers) /\ Num(q) = 1 /\ Lo(q) = d.id[1]
    BY <1>1, <1>4, <1>9, <1>10
<1> QED BY <1>2, <1>4, <1>7, <1>10, <1>11, <1>14, <1>15 DEF l, q, u

-----------------------------------------------------------------------------
(* Layers that tile the ids, and the fuel of their merges.                 *)

(* The layers tile the ids from 0 to e: cut[i] is where layer i starts.    *)
Tiled(L, e, cut) ==
    /\ cut \in [Nat -> Nat] /\ cut[0] = e
    /\ \A i \in Positive : IF Num(L[i]) = 0 THEN cut[i] = cut[i - 1]
                           ELSE Lo(L[i]) = cut[i] /\ Hi(L[i]) = cut[i - 1]

(* rec[i] records are in the layers up to i.                               *)
Weight(l, i) == IF Num(l) = 0 THEN 0 ELSE IF Num(l) = 1 THEN Pow2[i - 1] ELSE 2 * Pow2[i - 1]

Weighs(L, rec) ==
    /\ rec \in [Nat -> Nat] /\ rec[0] = 0
    /\ \A i \in Positive : rec[i] = rec[i - 1] + Weight(L[i], i)

(* The merge of layer i has enough fuel to come, and f more.               *)
FuelAt(L, rec, i, f) ==
    Num(L[i]) = 2 => /\ rec[i - 1] < Pow2[i - 1]
                     /\ Work(L[i]) + f <= 4 * (Pow2[i - 1] - rec[i - 1])
                     /\ f > 0 => Work(L[i]) > 0

(* A trace of good layers that tile its ids.                               *)
Laid(t, e, cut, rec, PS, T) ==
    /\ Good(t, PS, T)
    /\ Tiled(Lay(t), e, cut) /\ cut[Len(t.layers)] = 0
    /\ Weighs(Lay(t), rec)

(* The pieces of a trace whose layers tile its ids.                        *)
LEMMA LaidTypes ==
    ASSUME NEW T, NEW PS, NEW t, NEW e, NEW cut, NEW rec, Laid(t, e, cut, rec, PS, T)
    PROVE  /\ t \in Trace /\ Lay(t) \in [Positive -> Layer] /\ t.since \in Nat
           /\ Len(t.layers) \in Nat /\ t.layers \in Seq(Layer)
           /\ cut \in [Nat -> Nat] /\ cut[0] = e /\ rec \in [Nat -> Nat] /\ rec[0] = 0
           /\ cut[Len(t.layers)] = 0 /\ Good(t, PS, T)
<1>1. t \in Trace /\ Lay(t) \in [Positive -> Layer] /\ t.since \in Nat /\ Len(t.layers) \in Nat
      /\ t.layers \in Seq(Layer)
    BY LayType DEF Laid, Good, Trace
<1>2. /\ cut \in [Nat -> Nat] /\ cut[0] = e /\ rec \in [Nat -> Nat] /\ rec[0] = 0
      /\ cut[Len(t.layers)] = 0 /\ Good(t, PS, T)
    BY DEF Laid, Tiled, Weighs
<1> QED BY <1>1, <1>2

(* Levels and layers: layer i is level i - 1.                              *)
LEMMA PositiveFacts ==
    ASSUME NEW i \in Positive
    PROVE  /\ i \in Nat /\ i >= 1 /\ i - 1 \in Nat /\ i - 1 < i /\ i + 1 \in Positive /\ (i + 1) - 1 = i
           /\ Pow2[i - 1] \in Nat /\ Pow2[i - 1] > 0 /\ Pow2[i] = 2 * Pow2[i - 1] /\ Pow2[i] \in Nat
<1>1. i - 1 \in Nat /\ i \in Nat /\ (i - 1) + 1 = i
    BY DEF Positive
<1>2. Pow2[i - 1] \in Nat \ {0} /\ Pow2[(i - 1) + 1] = 2 * Pow2[i - 1]
    BY <1>1, Pow2Def
<1>3. Pow2[i] \in Nat
    BY <1>1, Pow2Def
<1>4. i >= 1 /\ i + 1 \in Positive /\ (i + 1) - 1 = i /\ i - 1 < i
    BY DEF Positive
<1> QED BY <1>1, <1>2, <1>3, <1>4

(* What is known of one layer.                                             *)
LEMMA LaidAt ==
    ASSUME NEW T, NEW PS, NEW t, NEW e, NEW cut, NEW rec, Laid(t, e, cut, rec, PS, T),
           NEW i \in Positive
    PROVE  /\ Num(Lay(t)[i]) \in 0 .. 2 /\ Lay(t)[i] \in Layer
           /\ LayerOK(Lay(t)[i], i, t.since, BatchesOf(PS, T))
           /\ cut[i] \in Nat /\ cut[i - 1] \in Nat
           /\ rec[i] \in Nat /\ rec[i - 1] \in Nat
           /\ Weight(Lay(t)[i], i) \in Nat
           /\ rec[i] = rec[i - 1] + Weight(Lay(t)[i], i)
           /\ IF Num(Lay(t)[i]) = 0 THEN cut[i] = cut[i - 1]
              ELSE Lo(Lay(t)[i]) = cut[i] /\ Hi(Lay(t)[i]) = cut[i - 1]
           /\ i > Len(t.layers) => Num(Lay(t)[i]) = 0 /\ Lay(t)[i] = VacantLayer
<1>1. LayerOK(Lay(t)[i], i, t.since, BatchesOf(PS, T))
    BY DEF Laid, Good
<1>2. Num(Lay(t)[i]) \in 0 .. 2 /\ Lay(t)[i] \in Layer
    BY <1>1 DEF LayerOK
<1>3. cut[i] \in Nat /\ cut[i - 1] \in Nat /\ rec[i] \in Nat /\ rec[i - 1] \in Nat
    <2>1. cut \in [Nat -> Nat] /\ rec \in [Nat -> Nat]
        BY LaidTypes, Zenon
    <2>2. i \in Nat /\ i - 1 \in Nat
        BY PositiveFacts
    <2> QED BY <2>1, <2>2
<1>4. rec[i] = rec[i - 1] + Weight(Lay(t)[i], i)
    BY DEF Laid, Weighs
<1>5. Weight(Lay(t)[i], i) \in Nat
    BY <1>2, PositiveFacts DEF Weight
<1>6. IF Num(Lay(t)[i]) = 0 THEN cut[i] = cut[i - 1]
      ELSE Lo(Lay(t)[i]) = cut[i] /\ Hi(Lay(t)[i]) = cut[i - 1]
    BY DEF Laid, Tiled
<1>7. ASSUME i > Len(t.layers) PROVE Num(Lay(t)[i]) = 0 /\ Lay(t)[i] = VacantLayer
    <2>1. Len(t.layers) \in Nat
        BY LaidTypes, Zenon
    <2> DEFINE n == Len(t.layers)
    <2>3. ~(i <= n)
        <3>1. n \in Nat /\ i > n
            BY <1>7, <2>1
        <3> HIDE DEF n
        <3>2. i \in Nat
            BY PositiveFacts
        <3> QED BY <3>1, <3>2
    <2>2. Lay(t)[i] = VacantLayer
        BY <2>3 DEF Lay, At
    <2> QED BY <2>2, VacantOK
<1> QED BY <1>1, <1>2, <1>3, <1>4, <1>5, <1>6, <1>7

(* The same for a trace of which layer i has moved up.                     *)
CutUp(cut, i) == [k \in Nat |-> IF k = i THEN cut[i - 1] ELSE cut[k]]
RecUp(rec, i, w) ==
    [k \in Nat |-> IF k < i THEN rec[k] ELSE IF k = i THEN rec[i - 1] ELSE rec[k] + w]

(* When a layer moves up the layers still tile the ids.                    *)
LEMMA UpLaid ==
    ASSUME NEW T, NEW PS, Times(T), GoodParts(PS, T), NEW t, NEW e, NEW cut, NEW rec,
           Laid(t, e, cut, rec, PS, T),
           NEW i \in 1 .. Len(t.layers), Num(Lay(t)[i]) # 0, Num(Lay(t)[i + 1]) # 2
    PROVE  /\ UpStep(t, CompleteInto(t, i, i + 1), i)
           /\ Laid(CompleteInto(t, i, i + 1), e, CutUp(cut, i),
                   RecUp(rec, i, IF Num(Lay(t)[i]) = 2 THEN 0 ELSE Pow2[i - 1]), PS, T)
<1> DEFINE u == CompleteInto(t, i, i + 1)
           L == Lay(t)
           M == Lay(u)
           n == Len(t.layers)
           w == IF Num(L[i]) = 2 THEN 0 ELSE Pow2[i - 1]
           c == CutUp(cut, i)
           r == RecUp(rec, i, w)
<1>1. n \in Nat /\ cut[n] = 0 /\ cut \in [Nat -> Nat] /\ cut[0] = e
    <2>1. n \in Nat
        BY DEF Laid, Good, Trace
    <2> QED BY <2>1 DEF Laid, Tiled
<1>20. rec \in [Nat -> Nat] /\ rec[0] = 0 /\ Good(t, PS, T)
    BY DEF Laid, Weighs
<1>30. i \in 1 .. n
    OBVIOUS
<1> HIDE DEF n
<1>3. i \in Positive /\ i + 1 \in Positive /\ (i + 1) - 1 = i /\ i # i + 1 /\ i \in Nat /\ i - 1 \in Nat
      /\ i <= n /\ i >= 1
    BY <1>1, <1>30 DEF Positive
<1>31. Num(L[i]) \in 0 .. 2 /\ Num(L[i]) # 0 /\ Lo(L[i]) = cut[i] /\ Hi(L[i]) = cut[i - 1]
       /\ rec[i] \in Nat /\ rec[i - 1] \in Nat /\ Weight(L[i], i) \in Nat
       /\ rec[i] = rec[i - 1] + Weight(L[i], i) /\ cut[i] \in Nat /\ cut[i - 1] \in Nat
    BY <1>3, LaidAt
<1>32. Num(L[i + 1]) \in 0 .. 2 /\ Num(L[i + 1]) # 2 /\ rec[i + 1] \in Nat
       /\ Weight(L[i + 1], i + 1) \in Nat /\ rec[i + 1] = rec[i] + Weight(L[i + 1], i + 1)
       /\ (Num(L[i + 1]) = 0 => cut[i + 1] = cut[i])
       /\ (Num(L[i + 1]) # 0 => Lo(L[i + 1]) = cut[i + 1] /\ Hi(L[i + 1]) = cut[i])
       /\ (i + 1 > n => Num(L[i + 1]) = 0)
    <2> DEFINE j == i + 1
    <2>1. j \in Positive /\ j - 1 = i
        BY <1>3
    <2> HIDE DEF j
    <2>2. Num(L[j]) \in 0 .. 2 /\ rec[j] \in Nat
       /\ Weight(L[j], j) \in Nat /\ rec[j] = rec[j - 1] + Weight(L[j], j)
       /\ (Num(L[j]) = 0 => cut[j] = cut[j - 1])
       /\ (Num(L[j]) # 0 => Lo(L[j]) = cut[j] /\ Hi(L[j]) = cut[j - 1])
       /\ (j > n => Num(L[j]) = 0)
        BY <2>1, LaidAt DEF n
    <2> QED BY <2>1, <2>2 DEF j
<1>33. Pow2[i - 1] \in Nat /\ Pow2[i] = 2 * Pow2[i - 1] /\ Pow2[i] \in Nat
    BY <1>3, PositiveFacts
<1>4. Num(L[i + 1]) = 1 => Hi(L[i + 1]) = Lo(L[i])
    BY <1>31, <1>32
<1>5. Good(u, PS, T) /\ UpStep(t, u, i)
    BY <1>20, <1>31, <1>32, <1>4, CompleteUp
<1> HIDE DEF u
<1>6. Num(VacantLayer) = 0
    BY <1>3, VacantOK
<1>7. /\ Num(M[i]) = 0
      /\ \A k \in Positive : k # i /\ k # i + 1 => M[k] = L[k]
      /\ Num(M[i + 1]) = Num(L[i + 1]) + 1
      /\ Lo(M[i + 1]) = IF Num(L[i + 1]) = 0 THEN Lo(L[i]) ELSE Lo(L[i + 1])
      /\ Hi(M[i + 1]) = Hi(L[i])
      /\ Len(u.layers) = IF i + 1 <= n THEN n ELSE i + 1
    BY <1>5, <1>6 DEF UpStep, n
<1>9. w \in Nat /\ Weight(L[i], i) + w = 2 * Pow2[i - 1]
    <2>1. Num(L[i]) = 1 \/ Num(L[i]) = 2
        BY <1>31
    <2> HIDE DEF L
    <2> QED BY <1>33, <2>1 DEF Weight
<1> HIDE DEF w
<1>8. /\ c \in [Nat -> Nat] /\ \A k \in Nat : c[k] = IF k = i THEN cut[i - 1] ELSE cut[k]
    BY <1>1, <1>3 DEF CutUp
<1>10. /\ r \in [Nat -> Nat]
       /\ \A k \in Nat : r[k] = IF k < i THEN rec[k] ELSE IF k = i THEN rec[i - 1] ELSE rec[k] + w
    <2>1. w \in Nat /\ \A k \in Nat : rec[k] \in Nat
        BY <1>20, <1>9
    <2>2. r = [k \in Nat |-> IF k < i THEN rec[k] ELSE IF k = i THEN rec[i - 1] ELSE rec[k] + w]
        BY DEF RecUp
    <2> HIDE DEF r
    <2> QED BY <1>3, <2>1, <2>2
<1>2. ASSUME NEW k \in Positive
      PROVE  /\ k \in Nat /\ k - 1 \in Nat /\ k - 1 < k /\ rec[k - 1] \in Nat
             /\ Weight(L[k], k) \in Nat /\ rec[k] = rec[k - 1] + Weight(L[k], k)
             /\ IF Num(L[k]) = 0 THEN cut[k] = cut[k - 1]
                ELSE Lo(L[k]) = cut[k] /\ Hi(L[k]) = cut[k - 1]
    BY LaidAt, PositiveFacts
<1> HIDE DEF M, L, c, r
<1>11. Tiled(M, e, c)
    <2>1. c[0] = e
        BY <1>1, <1>3, <1>8
    <2>2. ASSUME NEW k \in Positive
          PROVE IF Num(M[k]) = 0 THEN c[k] = c[k - 1] ELSE Lo(M[k]) = c[k] /\ Hi(M[k]) = c[k - 1]
        <3>0. k \in Nat /\ k - 1 \in Nat /\ k - 1 # k
            BY <1>2
        <3>1. CASE k = i
            <4>1. c[k] = cut[i - 1] /\ c[k - 1] = cut[i - 1]
                BY <1>8, <3>0, <3>1
            <4> QED BY <1>7, <3>1, <4>1
        <3>2. CASE k = i + 1
            <4>0. k - 1 = i /\ k # i
                BY <1>3, <3>2
            <4>1. c[k] = cut[k] /\ c[k - 1] = cut[i - 1]
                BY <1>3, <1>8, <3>0, <4>0
            <4>2. Num(M[i + 1]) # 0
                BY <1>32, <1>7
            <4>3. Hi(M[i + 1]) = cut[i - 1]
                BY <1>31, <1>7
            <4>4. Lo(M[i + 1]) = cut[i + 1]
                BY <1>31, <1>32, <1>7
            <4> QED BY <3>2, <4>1, <4>2, <4>3, <4>4
        <3>3. CASE k # i /\ k # i + 1
            <4>0. k - 1 # i
                BY <1>3, <3>0, <3>3
            <4>1. c[k] = cut[k] /\ c[k - 1] = cut[k - 1] /\ M[k] = L[k]
                BY <1>7, <1>8, <3>0, <3>3, <4>0
            <4> QED BY <1>2, <4>1
        <3> QED BY <3>1, <3>2, <3>3
    <2> QED BY <1>8, <2>1, <2>2 DEF Tiled
<1>12. c[Len(u.layers)] = 0
    <2>1. CASE i + 1 <= n
        <3>1. Len(u.layers) = n /\ n # i
            BY <1>1, <1>3, <1>7, <2>1
        <3> QED BY <1>1, <1>8, <3>1
    <2>2. CASE ~(i + 1 <= n)
        <3>1. i = n /\ i + 1 > n
            BY <1>1, <1>3, <2>2
        <3>2. Len(u.layers) = i + 1 /\ cut[i + 1] = cut[i]
            BY <1>32, <1>7, <2>2, <3>1
        <3>4. c[i + 1] = cut[i + 1]
            <4>1. i + 1 \in Nat
                BY <1>3
            <4> QED BY <1>3, <1>8, <4>1
        <3> QED BY <1>1, <3>1, <3>2, <3>4
    <2> QED BY <2>1, <2>2
<1>13. Weighs(M, r)
    <2>1. r[0] = 0
        BY <1>20, <1>3, <1>10
    <2>2. ASSUME NEW k \in Positive PROVE r[k] = r[k - 1] + Weight(M[k], k)
        <3>0. k \in Nat /\ k - 1 \in Nat /\ k - 1 < k
            BY <1>2
        <3>1. CASE k < i
            <4>0. k - 1 < i /\ k # i /\ k # i + 1
                BY <1>3, <3>0, <3>1
            <4>1. r[k] = rec[k] /\ r[k - 1] = rec[k - 1]
                BY <1>10, <3>0, <3>1, <4>0
            <4> QED BY <1>2, <1>7, <4>0, <4>1
        <3>2. CASE k = i
            <4>0. i - 1 < i /\ ~(i < i)
                BY <1>3
            <4>1. r[i] = rec[i - 1] /\ r[i - 1] = rec[i - 1]
                BY <1>3, <1>10, <4>0
            <4>2. Weight(M[i], i) = 0
                BY <1>7 DEF Weight
            <4> QED BY <1>31, <3>2, <4>1, <4>2
        <3>3. CASE k = i + 1
            <4>0. i + 1 \in Nat /\ ~(i + 1 < i) /\ i + 1 # i /\ ~(i < i)
                BY <1>3
            <4>1. r[i + 1] = rec[i + 1] + w /\ r[i] = rec[i - 1]
                BY <1>3, <1>10, <4>0
            <4>4. Weight(M[i + 1], i + 1) = Weight(L[i + 1], i + 1) + Pow2[i]
                <5>1. Num(L[i + 1]) = 0 \/ Num(L[i + 1]) = 1
                    BY <1>32
                <5>2. Num(L[i + 1]) = 0 => Num(M[i + 1]) = 1
                    BY <1>7
                <5>3. Num(L[i + 1]) = 1 => Num(M[i + 1]) = 2
                    BY <1>7
                <5> QED BY <1>3, <1>33, <5>1, <5>2, <5>3 DEF Weight
            <4>5. r[i + 1] = r[i] + Weight(M[i + 1], i + 1)
                BY <1>9, <1>31, <1>32, <1>33, <4>1, <4>4, SMTT(40)
            <4> QED BY <1>3, <3>3, <4>5
        <3>4. CASE k > i + 1
            <4>0. k - 1 > i /\ k > i /\ k # i /\ ~(k < i) /\ ~(k - 1 < i) /\ k - 1 # i /\ k # i + 1
                BY <1>3, <3>0, <3>4
            <4>1. r[k] = rec[k] + w /\ r[k - 1] = rec[k - 1] + w
                BY <1>10, <3>0, <4>0
            <4>2. M[k] = L[k]
                BY <1>7, <4>0
            <4>3. rec[k] = rec[k - 1] + Weight(L[k], k) /\ rec[k - 1] \in Nat /\ Weight(L[k], k) \in Nat
                BY <1>2
            <4> QED BY <1>9, <4>1, <4>2, <4>3
        <3> QED BY <1>3, <3>0, <3>1, <3>2, <3>3, <3>4
    <2> QED BY <1>10, <2>1, <2>2 DEF Weighs
<1>14. Laid(u, e, c, r, PS, T)
    BY <1>5, <1>11, <1>12, <1>13 DEF Laid, M
<1> QED BY <1>5, <1>14 DEF c, r, u, L, w

-----------------------------------------------------------------------------
(* apply_fuel.                                                             *)

(* A merge that is not yet done is given fuel.                             *)
Spend(t, i, rest) == [t EXCEPT !.layers[i].merge[1].work = rest]

SpendStep(t, u, i, rest) ==
    /\ \A k \in Positive : k # i => Lay(u)[k] = Lay(t)[k]
    /\ \A k \in Positive : Num(Lay(u)[k]) = Num(Lay(t)[k])
    /\ Work(Lay(u)[i]) = rest
    /\ SameBut(u, t) /\ Len(u.layers) = Len(t.layers)

(* Fuel that does not finish a merge changes nothing but its work.         *)
LEMMA SpendFuel ==
    ASSUME NEW T, NEW PS, NEW t, NEW e, NEW cut, NEW rec, Laid(t, e, cut, rec, PS, T),
           NEW i \in 1 .. Len(t.layers), Num(Lay(t)[i]) = 2, NEW rest \in Nat
    PROVE  /\ Laid(Spend(t, i, rest), e, cut, rec, PS, T)
           /\ SpendStep(t, Spend(t, i, rest), i, rest)
<1> DEFINE BS == BatchesOf(PS, T)
           ls == t.layers
           n == Len(ls)
           l == ls[i]
           m == l.merge[1]
           m2 == [m EXCEPT !.work = rest]
           l2 == [l EXCEPT !.merge = [l.merge EXCEPT ![1] = m2]]
           ms == [ls EXCEPT ![i] = l2]
           u == Spend(t, i, rest)
<1>1. t \in Trace /\ ls \in Seq(Layer) /\ n \in Nat
    BY DEF Laid, Good, Trace
<1>2. i \in Positive /\ Lay(t)[i] = l
    BY <1>1 DEF Positive, Lay, At
<1>3. LayerOK(l, i, t.since, BS) /\ l \in Layer /\ Num(l) = 2
    <2>1. LayerOK(l, i, t.since, BS)
        BY <1>2 DEF Laid, Good
    <2> QED BY <1>2, <2>1 DEF LayerOK
<1>4. l.merge \in Seq(Merge) /\ Len(l.merge) = 1
    BY <1>3 DEF LayerOK, Layer
<1>5. m \in Merge
    BY <1>4, ElementOfSeq
<1>6. u = [t EXCEPT !.layers = ms]
    BY DEF Spend
<1> HIDE DEF ls, l, m, u
<1>7. m2 \in Merge /\ m2.since = m.since /\ m2.work = rest
    BY <1>5 DEF Merge
<1> DEFINE mm == [l.merge EXCEPT ![1] = m2]
<1> HIDE DEF m2
<1>8. mm \in Seq(Merge) /\ Len(mm) = 1 /\ mm[1] = m2
    BY <1>4, <1>7
<1>9. l2 = [l EXCEPT !.merge = mm]
    OBVIOUS
<1> HIDE DEF mm, l2
<1>10. l2 \in Layer /\ l2.batches = l.batches /\ l2.merge = mm
    BY <1>3, <1>8, <1>9 DEF Layer
<1>11. Num(l2) = 2 /\ Lo(l2) = Lo(l) /\ Hi(l2) = Hi(l) /\ Work(l2) = rest /\ Num(l2) = Num(l)
    BY <1>3, <1>7, <1>8, <1>10 DEF Num, Lo, Hi, Work
<1>12. LayerOK(l2, i, t.since, BS)
    <2>1. l.batches \in Seq(BS) /\ \A k \in 1 .. 2 : l.batches[k].since <= t.since /\ l.batches[k].len <= Pow2[i - 1]
        BY <1>3 DEF LayerOK
    <2>2. l.batches[1].id[2] = l.batches[2].id[1] /\ l.batches[1].since <= m.since
          /\ l.batches[2].since <= m.since /\ m.since <= t.since
        BY <1>3 DEF LayerOK, m
    <2>3. Num(l2) \in 0 .. 2
        BY <1>11
    <2>4. l2.merge[1].since = m.since /\ Len(l2.merge) = 1
        BY <1>7, <1>8, <1>10
    <2> QED BY <1>10, <1>11, <2>1, <2>2, <2>3, <2>4 DEF LayerOK
<1>13. /\ ms \in Seq(Layer) /\ Len(ms) = n
       /\ \A v : v.layers = ms => Lay(v) = [Lay(t) EXCEPT ![i] = l2]
    BY <1>1, <1>10, SetLayer DEF ls
<1> HIDE DEF ms
<1>14. u \in Trace /\ u.layers = ms /\ SameBut(u, t) /\ u.reqs = t.reqs
    <2> DEFINE v == [t EXCEPT !.layers = ms]
    <2>1. v \in Trace /\ v.layers = ms /\ SameBut(v, t) /\ v.reqs = t.reqs
        BY <1>1, <1>13, SetLayers, Zenon
    <2>2. u = v
        BY <1>6
    <2> HIDE DEF v
    <2> QED BY <2>1, <2>2, Zenon
<1>15. Lay(u) = [Lay(t) EXCEPT ![i] = l2]
    BY <1>13, <1>14
<1>16. Lay(t) \in [Positive -> Layer]
    BY <1>1, LayType
<1>17. Lay(u)[i] = l2 /\ \A k \in Positive : k # i => Lay(u)[k] = Lay(t)[k]
    BY <1>2, <1>15, <1>16
<1>18. \A k \in Positive : /\ Num(Lay(u)[k]) = Num(Lay(t)[k])
                           /\ Lo(Lay(u)[k]) = Lo(Lay(t)[k]) /\ Hi(Lay(u)[k]) = Hi(Lay(t)[k])
    BY <1>2, <1>11, <1>17
<1>19. Good(u, PS, T)
    <2>1. t.panicked = FALSE /\ t.reqs \subseteq ReqsOf(BS)
          /\ \A k \in Positive : LayerOK(Lay(t)[k], k, t.since, BS)
        BY DEF Laid, Good
    <2>2. u.since = t.since /\ u.panicked = FALSE
        BY <1>14, <2>1 DEF SameBut
    <2>3. \A k \in Positive : LayerOK(Lay(u)[k], k, u.since, BS)
        BY <1>12, <1>17, <2>1, <2>2
    <2> QED BY <1>14, <2>1, <2>2, <2>3 DEF Good
<1>20. Tiled(Lay(u), e, cut)
    BY <1>18 DEF Laid, Tiled
<1>21. Weighs(Lay(u), rec)
    BY <1>18 DEF Laid, Weighs, Weight
<1>22. cut[Len(u.layers)] = 0 /\ Len(u.layers) = Len(t.layers)
    BY <1>13, <1>14 DEF Laid, ls
<1>23. Laid(u, e, cut, rec, PS, T)
    BY <1>19, <1>20, <1>21, <1>22 DEF Laid
<1>24. Work(Lay(u)[i]) = rest
    BY <1>11, <1>17
<1>25. SpendStep(t, u, i, rest)
    BY <1>14, <1>17, <1>18, <1>22, <1>24 DEF SpendStep
<1> QED BY <1>23, <1>25 DEF u

(* Layers up to i have had their share of fuel f.                          *)
Fuelled(v, t, i, f, e, PS, T) ==
    \E cut, rec :
      /\ Laid(v, e, cut, rec, PS, T)
      /\ SameBut(v, t) /\ Len(v.layers) >= Len(t.layers)
      /\ \A k \in Positive : FuelAt(Lay(v), rec, k, IF k <= i THEN f ELSE 0)
      /\ \A k \in Positive : k > Len(t.layers)
           => Num(Lay(v)[k]) = 0 \/ (i = Len(t.layers) /\ Num(Lay(v)[k]) = 1)

(* One step of apply_fuel: the merge of layer i is finished, and moves up, *)
(* or has f less work to do.                                               *)
LEMMA WorkAtOK ==
    ASSUME NEW T, NEW PS, Times(T), GoodParts(PS, T), NEW t \in Trace, NEW v, NEW e, NEW f \in Nat,
           NEW i \in 1 .. Len(t.layers), Fuelled(v, t, i - 1, f, e, PS, T)
    PROVE  Fuelled(WorkAt(v, i, f), t, i, f, e, PS, T)
<1> DEFINE n == Len(t.layers)
<1>1. PICK cut, rec :
      /\ Laid(v, e, cut, rec, PS, T)
      /\ SameBut(v, t) /\ Len(v.layers) >= Len(t.layers)
      /\ \A k \in Positive : FuelAt(Lay(v), rec, k, IF k <= i - 1 THEN f ELSE 0)
      /\ \A k \in Positive : k > Len(t.layers)
           => Num(Lay(v)[k]) = 0 \/ (i - 1 = Len(t.layers) /\ Num(Lay(v)[k]) = 1)
    BY DEF Fuelled
<1> DEFINE L == Lay(v)
           l == v.layers[i]
           work == l.merge[1].work
           rest == work - Min({f, work})
           u == WorkAt(v, i, f)
<1>2. n \in Nat /\ Len(v.layers) \in Nat /\ v.layers \in Seq(Layer) /\ v \in Trace
    BY <1>1 DEF Laid, Good, Trace
<1>3. i \in 1 .. Len(v.layers) /\ i \in Positive /\ i \in Nat /\ i - 1 \in Nat /\ i + 1 \in Positive
    <2>1. i \in 1 .. n /\ n <= Len(v.layers)
        BY <1>1
    <2> HIDE DEF n
    <2> QED BY <1>2, <2>1 DEF Positive
<1>4. L[i] = l
    BY <1>2, <1>3 DEF Lay, At
<1>5. LayerOK(l, i, v.since, BatchesOf(PS, T)) /\ Num(l) \in 0 .. 2 /\ l \in Layer
    <2>1. LayerOK(l, i, v.since, BatchesOf(PS, T))
        BY <1>1, <1>3, <1>4 DEF Laid, Good
    <2> QED BY <2>1 DEF LayerOK
<1>6. /\ \A k \in Positive : k <= i - 1 => FuelAt(L, rec, k, f)
      /\ \A k \in Positive : k > i - 1 => FuelAt(L, rec, k, 0)
    <2>1. ASSUME NEW k \in Positive, k <= i - 1 PROVE FuelAt(L, rec, k, f)
        BY <1>1, <2>1
    <2>2. ASSUME NEW k \in Positive, k > i - 1 PROVE FuelAt(L, rec, k, 0)
        <3>1. ~(k <= i - 1)
            BY <1>3, <2>2 DEF Positive
        <3> QED BY <1>1, <3>1
    <2> QED BY <2>1, <2>2
<1>60. \A k \in Positive : k > n => Num(L[k]) = 0
    <2>1. i \in 1 .. n /\ n \in Nat
        BY <1>2
    <2> HIDE DEF n
    <2>2. i - 1 # n
        BY <2>1
    <2> QED BY <1>1, <2>2 DEF n
<1>61. i \in 1 .. n
    OBVIOUS
<1> HIDE DEF L, n
<1>7. CASE Num(l) # 2
    <2>1. l.merge = <<>>
        BY <1>5, <1>7 DEF LayerOK
    <2>2. u = v
        BY <2>1 DEF WorkAt
    <2>3. ASSUME NEW k \in Positive PROVE FuelAt(L, rec, k, IF k <= i THEN f ELSE 0)
        <3>1. CASE k = i
            BY <1>4, <1>7, <3>1 DEF FuelAt
        <3>2. CASE k # i
            <4>1. k <= i <=> k <= i - 1
                BY <1>3, <3>2 DEF Positive
            <4>2. ~(k <= i) => k > i - 1
                BY <1>3 DEF Positive
            <4> QED BY <1>6, <4>1, <4>2
        <3> QED BY <3>1, <3>2
    <2> QED BY <1>1, <1>60, <2>2, <2>3 DEF Fuelled, L, n
<1>8. CASE Num(l) = 2
    <2>1. Len(l.merge) = 1 /\ l.merge \in Seq(Merge) /\ l.merge # <<>>
        BY <1>5, <1>8 DEF LayerOK, Layer
    <2>2. l.merge[1] \in Merge
        BY <2>1, ElementOfSeq
    <2>3. work \in Nat /\ Work(l) = work
        BY <2>2 DEF Merge, Work
    <2>4. FuelAt(L, rec, i, 0)
        BY <1>3, <1>6
    <2>5. rec[i - 1] \in Nat /\ rec[i] \in Nat /\ rec[i] = rec[i - 1] + Weight(L[i], i)
        BY <1>1, <1>3, LaidAt DEF L
    <2>6. Pow2[i - 1] \in Nat /\ Pow2[i] = 2 * Pow2[i - 1] /\ Pow2[i - 1] > 0
        BY <1>3, PositiveFacts
    <2>7. rec[i - 1] < Pow2[i - 1] /\ work + 0 <= 4 * (Pow2[i - 1] - rec[i - 1])
        BY <1>4, <1>8, <2>3, <2>4 DEF FuelAt
    <2> HIDE DEF work
    <2>8. Min({f, work}) = IF f <= work THEN f ELSE work
        BY <2>3, MinOfTwo
    <2>9. rest \in Nat /\ (rest > 0 => rest + f = work)
        BY <2>3, <2>8
    <2> HIDE DEF rest
    <2>10. CASE rest > 0
        <3>1. u = [v EXCEPT !.layers[i].merge[1].work = rest]
            BY <2>1, <2>10 DEF WorkAt, rest, work
        <3>10. u = Spend(v, i, rest)
            BY <3>1 DEF Spend
        <3> HIDE DEF u
        <3>2. /\ Laid(u, e, cut, rec, PS, T)
              /\ \A k \in Positive : k # i => Lay(u)[k] = Lay(v)[k]
              /\ \A k \in Positive : Num(Lay(u)[k]) = Num(Lay(v)[k])
              /\ Work(Lay(u)[i]) = rest
              /\ SameBut(u, v) /\ Len(u.layers) = Len(v.layers)
            <4>1. Num(Lay(v)[i]) = 2
                BY <1>4, <1>8 DEF L
            <4>2. Laid(v, e, cut, rec, PS, T) /\ i \in 1 .. Len(v.layers) /\ rest \in Nat
                BY <1>1, <1>3, <2>9
            <4>3. Laid(Spend(v, i, rest), e, cut, rec, PS, T) /\ SpendStep(v, Spend(v, i, rest), i, rest)
                BY <4>1, <4>2, SpendFuel
            <4> QED BY <3>10, <4>3 DEF SpendStep
        <3>3. ASSUME NEW k \in Positive PROVE FuelAt(Lay(u), rec, k, IF k <= i THEN f ELSE 0)
            <4>1. CASE k = i
                <5>1. rest + f <= 4 * (Pow2[i - 1] - rec[i - 1])
                    BY <2>3, <2>5, <2>6, <2>7, <2>9, <2>10
                <5>2. FuelAt(Lay(u), rec, i, f)
                    BY <2>7, <2>10, <3>2, <5>1 DEF FuelAt
                <5>3. i <= i
                    BY <1>3
                <5> QED BY <4>1, <5>2, <5>3
            <4>2. CASE k # i
                <5>1. k <= i <=> k <= i - 1
                    BY <1>3, <4>2 DEF Positive
                <5>2. ~(k <= i) => k > i - 1
                    BY <1>3 DEF Positive
                <5>3. FuelAt(L, rec, k, IF k <= i THEN f ELSE 0)
                    BY <1>6, <5>1, <5>2
                <5>4. Lay(u)[k] = L[k]
                    BY <3>2, <4>2 DEF L
                <5> QED BY <5>3, <5>4 DEF FuelAt
            <4> QED BY <4>1, <4>2
        <3>4. SameBut(u, t) /\ Len(u.layers) >= Len(t.layers)
            BY <1>1, <3>2 DEF SameBut
        <3>5. Fuelled(u, t, i, f, e, PS, T)
            <4>1. \A k \in Positive : k > Len(t.layers) => Num(Lay(u)[k]) = 0
                BY <1>60, <3>2 DEF L, n
            <4> QED BY <3>2, <3>3, <3>4, <4>1 DEF Fuelled
        <3> QED BY <3>5 DEF u
    <2>11. CASE ~(rest > 0)
        <3>1. u = CompleteInto(v, i, i + 1)
            BY <2>1, <2>11 DEF WorkAt, rest, work
        <3> DEFINE w == IF Num(Lay(v)[i]) = 2 THEN 0 ELSE Pow2[i - 1]
                   c == CutUp(cut, i)
                   r == RecUp(rec, i, w)
        <3>2. Num(L[i + 1]) # 2
            <4>1. FuelAt(L, rec, i + 1, 0)
                <5>1. i + 1 > i - 1
                    BY <1>3
                <5> QED BY <1>3, <1>6, <5>1
            <4>2. rec[i] >= Pow2[i]
                <5>1. Weight(L[i], i) = 2 * Pow2[i - 1]
                    BY <1>4, <1>8 DEF Weight
                <5> QED BY <2>5, <2>6, <5>1
            <4>3. (i + 1) - 1 = i
                BY <1>3
            <4> QED BY <2>5, <2>6, <4>1, <4>2, <4>3 DEF FuelAt
        <3>3. UpStep(v, CompleteInto(v, i, i + 1), i) /\ Laid(CompleteInto(v, i, i + 1), e, c, r, PS, T)
            <4>1. Num(Lay(v)[i]) # 0 /\ Num(Lay(v)[i + 1]) # 2
                BY <1>4, <1>8, <3>2 DEF L
            <4> HIDE DEF u
            <4> QED BY <1>1, <1>3, <4>1, UpLaid, Zenon
        <3>4. w = 0
            BY <1>4, <1>8 DEF L
        <3> HIDE DEF u, w
        <3>5. UpStep(v, u, i) /\ Laid(u, e, c, r, PS, T)
            BY <3>1, <3>3
        <3>6. \A k \in Nat : r[k] = IF k = i THEN rec[i - 1] ELSE rec[k]
            <4>1. \A k \in Nat : rec[k] \in Nat
                BY <1>1 DEF Laid, Weighs
            <4> QED BY <1>3, <3>4, <4>1 DEF RecUp
        <3> HIDE DEF c, r
        <3>7. /\ Num(Lay(u)[i]) = 0
              /\ \A k \in Positive : k # i /\ k # i + 1 => Lay(u)[k] = L[k]
              /\ Num(Lay(u)[i + 1]) = 2 => Work(Lay(u)[i + 1]) <= 2 * Pow2[i]
            <4>1. Num(VacantLayer) = 0
                BY <1>3, VacantOK
            <4> QED BY <3>5, <4>1 DEF UpStep, L
        <3>8. ASSUME NEW k \in Positive PROVE FuelAt(Lay(u), r, k, IF k <= i THEN f ELSE 0)
            <4>0. k \in Nat /\ k - 1 \in Nat
                BY PositiveFacts
            <4>1. CASE k = i
                BY <3>7, <4>1 DEF FuelAt
            <4>2. CASE k = i + 1
                <5>1. k - 1 = i /\ ~(k <= i)
                    BY <1>3, <4>2
                <5>2. r[i] = rec[i - 1]
                    BY <1>3, <3>6
                <5>3. ASSUME Num(Lay(u)[k]) = 2
                      PROVE  Work(Lay(u)[k]) + 0 <= 4 * (Pow2[i] - rec[i - 1])
                    <6>1. Work(Lay(u)[k]) <= 2 * Pow2[i]
                        BY <3>7, <4>2, <5>3
                    <6>2. LayerOK(Lay(u)[k], k, u.since, BatchesOf(PS, T))
                        BY <3>5 DEF Laid, Good
                    <6>3. Work(Lay(u)[k]) \in Nat
                        <7> DEFINE q == Lay(u)[k].merge
                        <7>1. q \in Seq(Merge) /\ Len(q) = 1
                            BY <5>3, <6>2 DEF LayerOK, Layer
                        <7> HIDE DEF q
                        <7>0. 1 \in 1 .. Len(q)
                            BY <7>1
                        <7>2. q[1] \in Merge
                            BY <7>0, <7>1, ElementOfSeq
                        <7>3. q[1].work \in Nat
                            BY <7>2 DEF Merge
                        <7> QED BY <7>3 DEF Work, q
                    <6> HIDE DEF u
                    <6> QED BY <2>5, <2>6, <2>7, <6>1, <6>3, SMTT(40)
                <5>4. rec[i - 1] < Pow2[i]
                    BY <2>5, <2>6, <2>7
                <5> QED BY <5>1, <5>2, <5>3, <5>4 DEF FuelAt
            <4>3. CASE k # i /\ k # i + 1
                <5>1. k <= i <=> k <= i - 1
                    BY <1>3, <4>0, <4>3
                <5>2. ~(k <= i) => k > i - 1
                    BY <1>3, <4>0
                <5>3. FuelAt(L, rec, k, IF k <= i THEN f ELSE 0)
                    BY <1>6, <5>1, <5>2
                <5>4. Lay(u)[k] = L[k]
                    BY <3>7, <4>3
                <5>5. r[k - 1] = rec[k - 1]
                    <6>1. k - 1 # i
                        BY <1>3, <4>0, <4>3
                    <6> QED BY <3>6, <4>0, <6>1
                <5> QED BY <5>3, <5>4, <5>5 DEF FuelAt
            <4> QED BY <4>1, <4>2, <4>3
        <3>9. SameBut(u, t) /\ Len(u.layers) >= Len(t.layers)
            <4>1. SameBut(u, v) /\ Len(u.layers) = IF i + 1 <= Len(v.layers) THEN Len(v.layers) ELSE i + 1
                BY <3>5 DEF UpStep
            <4>2. Len(u.layers) >= Len(v.layers)
                BY <1>2, <1>3, <4>1
            <4>3. Len(u.layers) \in Nat
                BY <3>5 DEF Laid, Good, Trace
            <4>4. SameBut(u, t)
                BY <1>1, <4>1 DEF SameBut
            <4>5. Len(v.layers) >= n
                BY <1>1 DEF n
            <4>6. Len(u.layers) >= n
                BY <1>2, <4>2, <4>3, <4>5
            <4> QED BY <4>4, <4>6 DEF n
        <3>10. Fuelled(u, t, i, f, e, PS, T)
            <4>1. ASSUME NEW k \in Positive, k > n
                  PROVE  Num(Lay(u)[k]) = 0 \/ (i = n /\ Num(Lay(u)[k]) = 1)
                <5>1. Num(L[k]) = 0 /\ k # i
                    <6>1. k # i
                        BY <1>2, <1>61, <4>1, PositiveFacts
                    <6> QED BY <1>60, <4>1, <6>1
                <5>2. CASE k = i + 1
                    <6>1. i = n
                        BY <1>2, <1>61, <4>1, <5>2
                    <6>2. Num(Lay(u)[k]) = Num(L[k]) + 1
                        BY <3>5, <5>2 DEF UpStep, L
                    <6> QED BY <5>1, <6>1, <6>2
                <5>3. CASE k # i + 1
                    BY <3>7, <5>1, <5>3
                <5> QED BY <5>2, <5>3
            <4>2. \A k \in Positive : k > Len(t.layers)
                    => Num(Lay(u)[k]) = 0 \/ (i = Len(t.layers) /\ Num(Lay(u)[k]) = 1)
                BY <4>1 DEF n
            <4> QED BY <3>5, <3>8, <3>9, <4>2 DEF Fuelled
        <3> QED BY <3>10 DEF u
    <2> QED BY <2>10, <2>11
<1> QED BY <1>7, <1>8

(* apply_fuel: every merge left has f more fuel than it needs.             *)
LEMMA ApplyFuelOK ==
    ASSUME NEW T, NEW PS, Times(T), GoodParts(PS, T), NEW t, NEW e, NEW cut, NEW rec, NEW f \in Nat,
           Laid(t, e, cut, rec, PS, T), \A k \in Positive : FuelAt(Lay(t), rec, k, 0)
    PROVE  Fuelled(ApplyFuel(t, f), t, Len(t.layers), f, e, PS, T)
<1> DEFINE n == Len(t.layers)
           W(v, i) == WorkAt(v, i, f)
           F == [p \in (1 .. n) \X Trace |-> IF W(p[2], p[1]) \in Trace THEN W(p[2], p[1]) ELSE p[2]]
           E(h) == h = [i \in 0 .. n |-> IF i = 0 THEN t
                          ELSE The({WorkAt(below, i, f) : below \in {h[i - 1]}})]
           I(v, i) == Fuelled(v, t, i, f, e, PS, T)
<1>1. t \in Trace /\ n \in Nat
    BY DEF Laid, Good, Trace
<1>2. I(t, 0)
    <2>1. \A k \in Positive : k > n => Num(Lay(t)[k]) = 0
        BY LaidAt
    <2>2. \A k \in Positive : ~(k <= 0)
        BY DEF Positive
    <2>3. \A k \in Positive : FuelAt(Lay(t), rec, k, IF k <= 0 THEN f ELSE 0)
        BY <2>2
    <2>4. SameBut(t, t) /\ Len(t.layers) >= Len(t.layers)
        BY <1>1 DEF SameBut
    <2> QED BY <2>1, <2>3, <2>4 DEF Fuelled
<1>3. ASSUME NEW i \in 1 .. n, NEW v, I(v, i - 1) PROVE I(W(v, i), i)
    BY <1>1, <1>3, WorkAtOK
<1>4. ASSUME NEW v, NEW i, I(v, i) PROVE v \in Trace
    BY <1>4 DEF Fuelled, Laid, Good
<1> HIDE DEF I, W, n
<1>5. F \in [(1 .. n) \X Trace -> Trace]
    OBVIOUS
<1>6. PICK g : g \in [0 .. n -> Trace] /\ Unfolds(g, n, t, F)
    BY <1>1, <1>5, RecursionUpTo
<1>7. \A i \in 1 .. n : g[i - 1] \in Trace
    BY <1>1, <1>6
<1>8. ASSUME NEW i \in 1 .. n
      PROVE  g[i] = IF W(g[i - 1], i) \in Trace THEN W(g[i - 1], i) ELSE g[i - 1]
    <2>1. g[i] = F[<<i, g[i - 1]>>]
        BY <1>6 DEF Unfolds
    <2>2. <<i, g[i - 1]>> \in (1 .. n) \X Trace
        BY <1>7
    <2> QED BY <2>1, <2>2
<1>9. g[0] = t
    BY <1>6 DEF Unfolds
<1> HIDE DEF F
<1> DEFINE S == {i \in 0 .. n : I(g[i], i) /\ (i > 0 => g[i] = W(g[i - 1], i))}
<1>10. 0 \in S
    BY <1>1, <1>2, <1>9
<1>11. ASSUME NEW i \in 1 .. n, i - 1 \in S PROVE i \in S
    <2>1. I(W(g[i - 1], i), i)
        BY <1>3, <1>11
    <2>2. g[i] = W(g[i - 1], i)
        BY <1>4, <1>8, <2>1
    <2>3. i \in 0 .. n
        BY <1>1
    <2> QED BY <2>1, <2>2, <2>3
<1> HIDE DEF S
<1>12. 0 .. n \subseteq S
    BY <1>1, <1>10, <1>11, InductionUpTo
<1>13. \A i \in 0 .. n : I(g[i], i) /\ (i > 0 => g[i] = W(g[i - 1], i))
    BY <1>12 DEF S
<1>14. \A x, i : The({WorkAt(below, i, f) : below \in {x}}) = W(x, i)
    <2> TAKE x, i
    <2> DEFINE Q == {WorkAt(below, i, f) : below \in {x}}
    <2>1. Q = {W(x, i)}
        BY DEF W
    <2> HIDE DEF Q
    <2>2. The(Q) = W(x, i)
        BY <2>1, TheOf
    <2> QED BY <2>2 DEF Q
<1>15. E(g)
    <2>1. ASSUME NEW i \in 0 .. n
          PROVE  g[i] = IF i = 0 THEN t ELSE The({WorkAt(below, i, f) : below \in {g[i - 1]}})
        <3>1. CASE i = 0
            BY <1>9, <3>1
        <3>2. CASE i # 0
            <4>1. i > 0
                BY <1>1, <3>2
            <4>2. g[i] = W(g[i - 1], i)
                BY <1>13, <4>1
            <4>3. The({WorkAt(below, i, f) : below \in {g[i - 1]}}) = W(g[i - 1], i)
                BY <1>14
            <4> QED BY <3>2, <4>2, <4>3
        <3> QED BY <3>1, <3>2
    <2>2. g = [i \in 0 .. n |-> g[i]]
        BY <1>6
    <2> QED BY <2>1, <2>2
<1> HIDE DEF E
<1>16. E(CHOOSE h : E(h))
    BY <1>15
<1>17. PICK h : E(h) /\ ApplyFuel(t, f) = h[n]
    BY <1>16, Zenon DEF ApplyFuel, E, n
<1>18. h = [i \in 0 .. n |-> IF i = 0 THEN t
                             ELSE The({WorkAt(below, i, f) : below \in {h[i - 1]}})]
    BY <1>17 DEF E
<1>19. h[0] = t
    BY <1>1, <1>18
<1>20. ASSUME NEW i \in 1 .. n PROVE h[i] = W(h[i - 1], i)
    <2>1. i \in 0 .. n /\ i # 0
        BY <1>1
    <2>2. h[i] = The({WorkAt(below, i, f) : below \in {h[i - 1]}})
        BY <1>18, <2>1
    <2>3. The({WorkAt(below, i, f) : below \in {h[i - 1]}}) = W(h[i - 1], i)
        BY <1>14
    <2> QED BY <2>2, <2>3
<1>21. \A i \in 0 .. n : h[i] = g[i]
    <2>1. ASSUME NEW i \in 1 .. n, h[i - 1] = g[i - 1] PROVE h[i] = g[i]
        <3>1. i \in 0 .. n /\ i > 0
            BY <1>1
        <3>2. g[i] = W(g[i - 1], i)
            BY <1>13, <3>1
        <3>3. h[i] = W(h[i - 1], i)
            BY <1>20
        <3> QED BY <2>1, <3>2, <3>3
    <2>2. h[0] = g[0]
        BY <1>9, <1>19
    <2> QED BY <1>1, <2>1, <2>2, RecursionUnique
<1>22. I(g[n], n) /\ h[n] = g[n]
    <2>1. n \in 0 .. n
        BY <1>1
    <2> QED BY <1>13, <1>21, <2>1
<1> QED BY <1>17, <1>22 DEF I, n

-----------------------------------------------------------------------------
(* roll_up.                                                                *)

(* Below the first occupied layer there are no records, and no ids.        *)
LEMMA VacantBelow ==
    ASSUME NEW T, NEW PS, NEW t, NEW e, NEW cut, NEW rec, Laid(t, e, cut, rec, PS, T),
           NEW n \in Nat, \A j \in Positive : j <= n => Num(Lay(t)[j]) = 0
    PROVE  \A j \in 0 .. n : cut[j] = e /\ rec[j] = 0
<1> DEFINE S == {j \in 0 .. n : cut[j] = e /\ rec[j] = 0}
<1>1. 0 \in S
    BY DEF Laid, Tiled, Weighs
<1>2. ASSUME NEW j \in 1 .. n, j - 1 \in S PROVE j \in S
    <2>1. j \in Positive /\ j <= n /\ j \in 0 .. n
        BY DEF Positive
    <2>2. Num(Lay(t)[j]) = 0
        BY <2>1
    <2>3. cut[j] = cut[j - 1] /\ rec[j] = rec[j - 1] + Weight(Lay(t)[j], j)
        BY <2>1, <2>2, LaidAt
    <2>4. Weight(Lay(t)[j], j) = 0
        BY <2>2 DEF Weight
    <2> QED BY <1>2, <2>1, <2>3, <2>4
<1> HIDE DEF S
<1>3. 0 .. n \subseteq S
    BY <1>1, <1>2, InductionUpTo
<1> QED BY <1>3 DEF S

(* Layers 1..k of t have been rolled up into layer k + 1.                  *)
Rolled(v, t, rec, k, i, e, PS, T) ==
    \E c, r :
      /\ Laid(v, e, c, r, PS, T)
      /\ SameBut(v, t) /\ Len(v.layers) = IF i <= Len(t.layers) THEN Len(t.layers) ELSE i
      /\ \A j \in Positive : j <= k => Num(Lay(v)[j]) = 0
      /\ Num(Lay(v)[k + 1]) <= Num(Lay(t)[k + 1]) + 1
      /\ \A j \in Positive : j > k + 1 => Lay(v)[j] = Lay(t)[j]
      /\ \A j \in Positive : j > k => r[j] <= rec[j] + Pow2[k]

(* One step of roll_up: layer k moves into layer k + 1, which has room.    *)
LEMMA RollStep ==
    ASSUME NEW T, NEW PS, Times(T), GoodParts(PS, T), NEW t, NEW e, NEW cut, NEW rec,
           Laid(t, e, cut, rec, PS, T), NEW i \in Positive,
           \A j \in Positive : j <= i => Num(Lay(t)[j]) # 2,
           NEW k \in 1 .. (i - 1), NEW v, Rolled(v, t, rec, k - 1, i, e, PS, T)
    PROVE  Rolled(CompleteInto(v, k, k + 1), t, rec, k, i, e, PS, T)
<1>1. PICK c, r :
      /\ Laid(v, e, c, r, PS, T)
      /\ SameBut(v, t) /\ Len(v.layers) = IF i <= Len(t.layers) THEN Len(t.layers) ELSE i
      /\ \A j \in Positive : j <= k - 1 => Num(Lay(v)[j]) = 0
      /\ Num(Lay(v)[(k - 1) + 1]) <= Num(Lay(t)[(k - 1) + 1]) + 1
      /\ \A j \in Positive : j > (k - 1) + 1 => Lay(v)[j] = Lay(t)[j]
      /\ \A j \in Positive : j > k - 1 => r[j] <= rec[j] + Pow2[k - 1]
    BY DEF Rolled
<1> DEFINE u == CompleteInto(v, k, k + 1)
<1>2. i \in Nat /\ k \in Nat /\ k \in Positive /\ k <= i - 1 /\ (k - 1) + 1 = k
      /\ k + 1 \in Positive /\ k + 1 > k /\ k + 1 <= i /\ k <= i
    BY DEF Positive
<1>3. /\ \A j \in Positive : j <= k - 1 => Num(Lay(v)[j]) = 0
      /\ \A j \in Positive : j > k => Lay(v)[j] = Lay(t)[j]
      /\ \A j \in Positive : j >= k => r[j] <= rec[j] + Pow2[k - 1]
    <2>1. \A j \in Positive : j >= k => j > k - 1
        BY <1>2 DEF Positive
    <2> QED BY <1>1, <1>2, <2>1
<1>4. Laid(v, e, c, r, PS, T) /\ SameBut(v, t) /\ Len(v.layers) = IF i <= Len(t.layers) THEN Len(t.layers) ELSE i
    BY <1>1
<1>5. Len(t.layers) \in Nat /\ v.layers \in Seq(Layer)
    BY <1>4 DEF Laid, Good, Trace
<1>6. k \in 1 .. Len(v.layers) /\ k + 1 <= Len(v.layers) /\ Len(v.layers) \in Nat
    BY <1>2, <1>4, <1>5
<1>7. Num(Lay(t)[k]) \in 0 .. 1 /\ Num(Lay(t)[k + 1]) \in 0 .. 1
    <2>1. Num(Lay(t)[k]) \in 0 .. 2
        BY <1>2, LaidAt
    <2>2. Num(Lay(t)[k + 1]) \in 0 .. 2
        BY <1>2, LaidAt
    <2>3. Num(Lay(t)[k]) # 2 /\ Num(Lay(t)[k + 1]) # 2
        BY <1>2
    <2> QED BY <2>1, <2>2, <2>3
<1>8. Num(Lay(v)[k]) \in 0 .. 2 /\ Lay(v)[k] = v.layers[k] /\ Lay(v)[k] \in Layer
    <2>1. Num(Lay(v)[k]) \in 0 .. 2 /\ Lay(v)[k] \in Layer
        BY <1>2, <1>4, LaidAt
    <2>2. Lay(v)[k] = v.layers[k]
        BY <1>2, <1>6 DEF Lay, At
    <2> QED BY <2>1, <2>2
<1>9. Pow2[k - 1] \in Nat /\ Pow2[k] = 2 * Pow2[k - 1] /\ Pow2[k] \in Nat
    BY <1>2, PositiveFacts
<1>10. \A j \in Nat : rec[j] \in Nat /\ r[j] \in Nat
    BY <1>4 DEF Laid, Weighs
<1>11. Lay(v)[k + 1] = Lay(t)[k + 1]
    BY <1>2, <1>3
<1>12. CASE Num(Lay(v)[k]) = 0
    <2>1. u = v
        BY <1>8, <1>12, Vacancy DEF CompleteInto
    <2>2. \A j \in Positive : j <= k => Num(Lay(v)[j]) = 0
        <3>1. \A j \in Positive : j <= k => j <= k - 1 \/ j = k
            BY <1>2 DEF Positive
        <3> QED BY <1>3, <1>12, <3>1
    <2>3. Num(Lay(v)[k + 1]) <= Num(Lay(t)[k + 1]) + 1
        BY <1>7, <1>11
    <2>4. \A j \in Positive : j > k + 1 => Lay(v)[j] = Lay(t)[j]
        <3>1. \A j \in Positive : j > k + 1 => j > k
            BY <1>2 DEF Positive
        <3> QED BY <1>3, <3>1
    <2>5. ASSUME NEW j \in Positive, j > k PROVE r[j] <= rec[j] + Pow2[k]
        <3>1. j \in Nat /\ j >= k
            BY <1>2, <2>5 DEF Positive
        <3>2. r[j] <= rec[j] + Pow2[k - 1]
            BY <1>3, <3>1
        <3>3. r[j] \in Nat /\ rec[j] \in Nat
            BY <1>10, <3>1
        <3> QED BY <1>9, <3>2, <3>3
    <2>6. Rolled(v, t, rec, k, i, e, PS, T)
        BY <1>4, <2>2, <2>3, <2>4, <2>5 DEF Rolled
    <2> QED BY <2>1, <2>6
<1>13. CASE Num(Lay(v)[k]) # 0
    <2> DEFINE w == IF Num(Lay(v)[k]) = 2 THEN 0 ELSE Pow2[k - 1]
               c2 == CutUp(c, k)
               r2 == RecUp(r, k, w)
    <2>1. Num(Lay(v)[k + 1]) # 2
        BY <1>7, <1>11
    <2>2. UpStep(v, u, k) /\ Laid(u, e, c2, r2, PS, T)
        BY <1>4, <1>6, <1>13, <2>1, UpLaid, Zenon
    <2>3. w \in Nat /\ w <= Pow2[k - 1]
        BY <1>9
    <2> HIDE DEF w, u
    <2>4. \A j \in Nat : j > k => r2[j] = r[j] + w
        BY <1>2 DEF RecUp
    <2> HIDE DEF c2, r2
    <2>5. ASSUME NEW j \in Positive, j > k PROVE r2[j] <= rec[j] + Pow2[k]
        <3>1. j \in Nat /\ j >= k
            BY <1>2, <2>5 DEF Positive
        <3>2. r[j] <= rec[j] + Pow2[k - 1] /\ r2[j] = r[j] + w
            BY <1>3, <2>4, <2>5, <3>1
        <3>3. r[j] \in Nat /\ rec[j] \in Nat
            BY <1>10, <3>1
        <3> QED BY <1>9, <2>3, <3>2, <3>3
    <2>6. /\ Lay(u)[k] = VacantLayer
          /\ \A j \in Positive : j # k /\ j # k + 1 => Lay(u)[j] = Lay(v)[j]
          /\ Num(Lay(u)[k + 1]) = Num(Lay(v)[k + 1]) + 1
          /\ Len(u.layers) = IF k + 1 <= Len(v.layers) THEN Len(v.layers) ELSE k + 1
          /\ SameBut(u, v)
        BY <2>2 DEF UpStep
    <2>7. \A j \in Positive : j <= k => Num(Lay(u)[j]) = 0
        <3>1. \A j \in Positive : j <= k => j = k \/ (j <= k - 1 /\ j # k /\ j # k + 1)
            BY <1>2 DEF Positive
        <3>2. Num(VacantLayer) = 0
            BY <1>2, VacantOK
        <3> QED BY <1>3, <2>6, <3>1, <3>2
    <2>8. Num(Lay(u)[k + 1]) <= Num(Lay(t)[k + 1]) + 1
        BY <1>7, <1>11, <2>6
    <2>9. \A j \in Positive : j > k + 1 => Lay(u)[j] = Lay(t)[j]
        <3>1. \A j \in Positive : j > k + 1 => j > k /\ j # k /\ j # k + 1
            BY <1>2 DEF Positive
        <3> QED BY <1>3, <2>6, <3>1
    <2>10. SameBut(u, t) /\ Len(u.layers) = IF i <= Len(t.layers) THEN Len(t.layers) ELSE i
        BY <1>4, <1>6, <2>6 DEF SameBut
    <2>11. Rolled(u, t, rec, k, i, e, PS, T)
        BY <2>2, <2>5, <2>7, <2>8, <2>9, <2>10 DEF Rolled
    <2> QED BY <2>11 DEF u
<1> QED BY <1>12, <1>13

(* Above the last layer there are no ids.                                  *)
LEMMA NoIdsAbove ==
    ASSUME NEW T, NEW PS, NEW t, NEW e, NEW cut, NEW rec, Laid(t, e, cut, rec, PS, T),
           NEW j \in Nat, j >= Len(t.layers)
    PROVE  cut[j] = 0
<1> DEFINE n == Len(t.layers)
           S == {k \in Nat : cut[n + k] = 0}
<1>1. n \in Nat
    BY DEF Laid, Good, Trace
<1>2. 0 \in S
    <2>1. n + 0 = n
        BY <1>1
    <2> QED BY <2>1 DEF Laid
<1>3. ASSUME NEW k \in Nat, k \in S PROVE k + 1 \in S
    <2> DEFINE m == n + (k + 1)
    <2> HIDE DEF n
    <2>0. m \in Positive /\ m - 1 = n + k /\ m > n
        BY <1>1 DEF Positive
    <2> HIDE DEF m
    <2>1. Num(Lay(t)[m]) = 0
        BY <2>0, LaidAt DEF n
    <2>2. cut[m] = cut[m - 1]
        BY <2>0, <2>1, LaidAt
    <2>3. cut[n + k] = 0
        BY <1>3
    <2>4. cut[n + (k + 1)] = 0
        BY <2>0, <2>2, <2>3 DEF m
    <2> QED BY <2>4
<1> HIDE DEF S
<1>4. j - n \in S
    <2>1. Nat \subseteq S
        BY <1>2, <1>3, InductionNat
    <2>2. j >= n
        OBVIOUS
    <2> HIDE DEF n
    <2>3. j - n \in Nat
        BY <1>1, <2>2
    <2> QED BY <2>1, <2>3
<1>5. n + (j - n) = j
    BY <1>1
<1> QED BY <1>4, <1>5 DEF S

(* Vacant layers on top change nothing.                                    *)
LEMMA WithLayersLaid ==
    ASSUME NEW T, NEW PS, NEW t, NEW e, NEW cut, NEW rec, Laid(t, e, cut, rec, PS, T),
           NEW i \in Positive
    PROVE  LET v == WithLayers(t, i)
           IN /\ Laid(v, e, cut, rec, PS, T) /\ Lay(v) = Lay(t) /\ SameBut(v, t)
              /\ Len(v.layers) = IF i <= Len(t.layers) THEN Len(t.layers) ELSE i
<1> DEFINE v == WithLayers(t, i)
           n == Len(t.layers)
<1>1. t \in Trace /\ i \in Nat /\ n \in Nat
    BY DEF Laid, Good, Trace, Positive
<1>2. v \in Trace /\ Lay(v) = Lay(t) /\ SameBut(v, t) /\ v.reqs = t.reqs
      /\ Len(v.layers) = IF i <= n THEN n ELSE i
    BY <1>1, WithLayersLay
<1> HIDE DEF v
<1>3. Good(v, PS, T)
    BY <1>2 DEF Laid, Good, SameBut
<1>4. cut[Len(v.layers)] = 0
    <2>1. Len(v.layers) \in Nat /\ Len(v.layers) >= n
        BY <1>1, <1>2
    <2> QED BY <2>1, NoIdsAbove
<1>5. Laid(v, e, cut, rec, PS, T)
    BY <1>2, <1>3, <1>4 DEF Laid
<1> QED BY <1>2, <1>5 DEF v

(* u is t after layers below i have been rolled up into it.                *)
RolledUp(u, t, rec, i, e, PS, T) ==
    \E c, r :
      /\ Laid(u, e, c, r, PS, T) /\ SameBut(u, t)
      /\ \A j \in Positive : j < i => Num(Lay(u)[j]) = 0
      /\ Num(Lay(u)[i]) # 2
      /\ \A j \in Positive : j > i + 1 => Lay(u)[j] = Lay(t)[j]
      /\ \A j \in Positive : j > i => r[j] <= rec[j] + Pow2[i - 1]
      /\ \/ Lay(u)[i + 1] = Lay(t)[i + 1]
         \/ /\ Num(Lay(u)[i]) = 0
            /\ Num(Lay(u)[i + 1]) = 2 => Work(Lay(u)[i + 1]) <= 2 * Pow2[i]

(* roll_up with vacant layers below.                                       *)
LEMMA NothingToRoll ==
    ASSUME NEW T, NEW PS, NEW t, NEW e, NEW cut, NEW rec, Laid(t, e, cut, rec, PS, T),
           NEW i \in Positive, Num(Lay(t)[i]) # 2,
           \A k \in 1 .. Min({i - 1, Len(t.layers)}) : IsVacant(t.layers[k])
    PROVE  RolledUp(WithLayers(t, i), t, rec, i, e, PS, T)
<1> DEFINE v == WithLayers(t, i)
           n == Len(t.layers)
<1>1. Laid(v, e, cut, rec, PS, T) /\ Lay(v) = Lay(t) /\ SameBut(v, t)
    BY WithLayersLaid
<1> HIDE DEF v
<1>2. n \in Nat /\ i \in Nat /\ i - 1 \in Nat
    BY DEF Laid, Good, Trace, Positive
<1>3. Min({i - 1, n}) = IF i - 1 <= n THEN i - 1 ELSE n
    BY <1>2, MinOfTwo
<1>4. ASSUME NEW j \in Positive, j < i PROVE Num(Lay(t)[j]) = 0
    <2>1. CASE j <= n
        <3>1. j \in 1 .. Min({i - 1, n})
            <4>1. j \in Nat /\ j >= 1 /\ j <= i - 1
                BY <1>2, <1>4 DEF Positive
            <4> HIDE DEF n
            <4> QED BY <1>2, <1>3, <2>1, <4>1
        <3>2. IsVacant(t.layers[j])
            BY <3>1
        <3>3. Lay(t)[j] = t.layers[j]
            BY <2>1 DEF Lay, At
        <3>4. Lay(t)[j] \in Layer
            BY LaidAt
        <3> QED BY <3>2, <3>3, <3>4, Vacancy
    <2>2. CASE ~(j <= n)
        <3>1. j > n
            <4> HIDE DEF n
            <4> QED BY <1>2, <2>2 DEF Positive
        <3> QED BY <3>1, LaidAt
    <2> QED BY <2>1, <2>2
<1>5. ASSUME NEW j \in Positive PROVE rec[j] <= rec[j] + Pow2[i - 1]
    <2>1. rec[j] \in Nat
        BY LaidAt
    <2>2. Pow2[i - 1] \in Nat
        BY PositiveFacts
    <2> QED BY <2>1, <2>2
<1>6. RolledUp(v, t, rec, i, e, PS, T)
    BY <1>1, <1>4, <1>5 DEF RolledUp
<1> QED BY <1>6 DEF v

(* The last step of roll_up: a layer that the ones below have filled is    *)
(* completed into the next.                                                *)
LEMMA RollTop ==
    ASSUME NEW T, NEW PS, Times(T), GoodParts(PS, T), NEW t, NEW e, NEW cut, NEW rec,
           Laid(t, e, cut, rec, PS, T), NEW i \in Positive,
           Num(Lay(t)[i + 1]) # 2,
           NEW v, Rolled(v, t, rec, i - 1, i, e, PS, T)
    PROVE  RolledUp(IF IsFull(v.layers[i]) THEN CompleteInto(v, i, i + 1) ELSE v,
                    t, rec, i, e, PS, T)
<1>1. PICK c, r :
      /\ Laid(v, e, c, r, PS, T)
      /\ SameBut(v, t) /\ Len(v.layers) = IF i <= Len(t.layers) THEN Len(t.layers) ELSE i
      /\ \A j \in Positive : j <= i - 1 => Num(Lay(v)[j]) = 0
      /\ Num(Lay(v)[(i - 1) + 1]) <= Num(Lay(t)[(i - 1) + 1]) + 1
      /\ \A j \in Positive : j > (i - 1) + 1 => Lay(v)[j] = Lay(t)[j]
      /\ \A j \in Positive : j > i - 1 => r[j] <= rec[j] + Pow2[i - 1]
    BY DEF Rolled
<1>2. i \in Nat /\ (i - 1) + 1 = i /\ i + 1 \in Positive /\ i - 1 \in Nat
    BY DEF Positive
<1>3. /\ \A j \in Positive : j < i => Num(Lay(v)[j]) = 0
      /\ \A j \in Positive : j > i => Lay(v)[j] = Lay(t)[j]
      /\ \A j \in Positive : j > i => r[j] <= rec[j] + Pow2[i - 1]
    <2>1. \A j \in Positive : (j < i => j <= i - 1) /\ (j > i => j > i - 1)
        BY <1>2 DEF Positive
    <2> QED BY <1>1, <1>2, <2>1
<1>4. Laid(v, e, c, r, PS, T) /\ SameBut(v, t) /\ Len(v.layers) = IF i <= Len(t.layers) THEN Len(t.layers) ELSE i
    BY <1>1
<1>5. Len(t.layers) \in Nat /\ v.layers \in Seq(Layer)
    BY <1>4 DEF Laid, Good, Trace
<1>6. i \in 1 .. Len(v.layers) /\ Len(v.layers) \in Nat
    BY <1>2, <1>4, <1>5 DEF Positive
<1>7. Lay(v)[i] = v.layers[i] /\ Lay(v)[i] \in Layer
    <2>1. Lay(v)[i] \in Layer
        BY <1>4, LaidAt
    <2>2. Lay(v)[i] = v.layers[i]
        BY <1>2, <1>6 DEF Lay, At
    <2> QED BY <2>1, <2>2
<1>8. Lay(v)[i + 1] = Lay(t)[i + 1] /\ \A j \in Positive : j > i + 1 => Lay(v)[j] = Lay(t)[j]
    <2>1. i + 1 > i /\ \A j \in Positive : j > i + 1 => j > i
        BY <1>2 DEF Positive
    <2> QED BY <1>2, <1>3, <2>1
<1>9. IsFull(v.layers[i]) <=> Num(Lay(v)[i]) = 2
    BY <1>7, Vacancy
<1>10. CASE Num(Lay(v)[i]) # 2
    <2>1. RolledUp(v, t, rec, i, e, PS, T)
        BY <1>3, <1>4, <1>8, <1>10 DEF RolledUp
    <2> QED BY <1>9, <1>10, <2>1
<1>11. CASE Num(Lay(v)[i]) = 2
    <2> DEFINE u == CompleteInto(v, i, i + 1)
               w == IF Num(Lay(v)[i]) = 2 THEN 0 ELSE Pow2[i - 1]
               c2 == CutUp(c, i)
               r2 == RecUp(r, i, w)
    <2>1. Num(Lay(v)[i]) # 0 /\ Num(Lay(v)[i + 1]) # 2
        BY <1>8, <1>11
    <2>2. UpStep(v, u, i) /\ Laid(u, e, c2, r2, PS, T)
        BY <1>4, <1>6, <2>1, UpLaid, Zenon
    <2>3. w = 0
        BY <1>11
    <2> HIDE DEF w, u
    <2>4. \A j \in Positive : j > i => r2[j] = r[j]
        <3>1. \A j \in Nat : r[j] \in Nat
            BY <1>4 DEF Laid, Weighs
        <3> QED BY <1>2, <2>3, <3>1 DEF RecUp, Positive
    <2> HIDE DEF c2, r2
    <2>5. /\ Lay(u)[i] = VacantLayer
          /\ \A j \in Positive : j # i /\ j # i + 1 => Lay(u)[j] = Lay(v)[j]
          /\ Num(Lay(u)[i + 1]) = 2 => Work(Lay(u)[i + 1]) <= 2 * Pow2[i]
          /\ SameBut(u, v)
        BY <2>2 DEF UpStep
    <2>6. Num(Lay(u)[i]) = 0
        BY <2>5, VacantOK
    <2>7. \A j \in Positive : (j < i => j # i /\ j # i + 1) /\ (j > i + 1 => j # i /\ j # i + 1)
        BY <1>2 DEF Positive
    <2>8. \A j \in Positive : j < i => Num(Lay(u)[j]) = 0
        BY <1>3, <2>5, <2>7
    <2>9. \A j \in Positive : j > i + 1 => Lay(u)[j] = Lay(t)[j]
        BY <1>8, <2>5, <2>7
    <2>10. \A j \in Positive : j > i => r2[j] <= rec[j] + Pow2[i - 1]
        BY <1>3, <2>4
    <2>11. SameBut(u, t)
        BY <1>4, <2>5 DEF SameBut
    <2>12. RolledUp(u, t, rec, i, e, PS, T)
        BY <2>2, <2>5, <2>6, <2>8, <2>9, <2>10, <2>11 DEF RolledUp
    <2> QED BY <1>9, <1>11, <2>12 DEF u
<1> QED BY <1>10, <1>11

(* roll_up leaves layer i with room and the ones below it vacant, if none  *)
(* of them was merging.                                                    *)
LEMMA RollUpOK ==
    ASSUME NEW T, NEW PS, Times(T), GoodParts(PS, T), NEW t, NEW e, NEW cut, NEW rec,
           Laid(t, e, cut, rec, PS, T), NEW i \in Positive,
           \A j \in Positive : j <= i + 1 => Num(Lay(t)[j]) # 2
    PROVE  RolledUp(RollUp(t, i), t, rec, i, e, PS, T)
<1> DEFINE n == i - 1
           W(v, k) == CompleteInto(v, k, k + 1)
           F == [p \in (1 .. n) \X Trace |-> IF W(p[2], p[1]) \in Trace THEN W(p[2], p[1]) ELSE p[2]]
           E(h) == h = [k \in 0 .. n |-> IF k = 0 THEN WithLayers(t, i)
                          ELSE The({CompleteInto(below, k, k + 1) : below \in {h[k - 1]}})]
           I(v, k) == Rolled(v, t, rec, k, i, e, PS, T)
           x == WithLayers(t, i)
           top(v) == IF IsFull(v.layers[i]) THEN CompleteInto(v, i, i + 1) ELSE v
<1>1. i \in Nat /\ n \in Nat /\ i + 1 \in Positive /\ i <= i + 1 /\ i + 1 <= i + 1
    BY DEF Positive
<1>2. I(x, 0)
    <2>1. Laid(x, e, cut, rec, PS, T) /\ Lay(x) = Lay(t) /\ SameBut(x, t)
          /\ Len(x.layers) = IF i <= Len(t.layers) THEN Len(t.layers) ELSE i
        BY WithLayersLaid
    <2> HIDE DEF x
    <2>2. \A j \in Positive : ~(j <= 0)
        BY DEF Positive
    <2>3. Num(Lay(t)[0 + 1]) <= Num(Lay(t)[0 + 1]) + 1
        <3>1. 0 + 1 \in Positive
            BY DEF Positive
        <3>2. Num(Lay(t)[0 + 1]) \in 0 .. 2
            BY <3>1, LaidAt
        <3> QED BY <3>2
    <2>4. ASSUME NEW j \in Positive PROVE rec[j] <= rec[j] + Pow2[0]
        <3>1. rec[j] \in Nat
            BY LaidAt
        <3> QED BY <3>1, Pow2Def
    <2> QED BY <2>1, <2>2, <2>3, <2>4 DEF Rolled
<1>3. ASSUME NEW k \in 1 .. n, NEW v, I(v, k - 1) PROVE I(W(v, k), k)
    <2>1. \A j \in Positive : j <= i => Num(Lay(t)[j]) # 2
        <3>1. \A j \in Positive : j <= i => j <= i + 1
            BY <1>1 DEF Positive
        <3> QED BY <3>1
    <2> QED BY <1>3, <2>1, RollStep
<1>4. ASSUME NEW v, NEW k, I(v, k) PROVE v \in Trace
    BY <1>4 DEF Rolled, Laid, Good
<1>40. Num(Lay(t)[i]) # 2 /\ Num(Lay(t)[i + 1]) # 2
    BY <1>1
<1>41. ASSUME NEW v, I(v, n) PROVE RolledUp(top(v), t, rec, i, e, PS, T)
    BY <1>40, <1>41, RollTop
<1> DEFINE none == \A k \in 1 .. Min({i - 1, Len(t.layers)}) : IsVacant(t.layers[k])
<1>42. CASE none
    <2>1. RollUp(t, i) = WithLayers(t, i)
        BY <1>42 DEF RollUp
    <2> QED BY <1>40, <1>42, <2>1, NothingToRoll
<1>43. CASE ~none
    <2> HIDE DEF I, W, n, x, none, top
    <2>5. F \in [(1 .. n) \X Trace -> Trace]
        OBVIOUS
    <2>50. x \in Trace
        BY <1>2, <1>4
    <2>6. PICK g : g \in [0 .. n -> Trace] /\ Unfolds(g, n, x, F)
        BY <1>1, <2>5, <2>50, RecursionUpTo
    <2>7. \A k \in 1 .. n : g[k - 1] \in Trace
        BY <1>1, <2>6
    <2>8. ASSUME NEW k \in 1 .. n
          PROVE  g[k] = IF W(g[k - 1], k) \in Trace THEN W(g[k - 1], k) ELSE g[k - 1]
        <3>1. g[k] = F[<<k, g[k - 1]>>]
            BY <2>6 DEF Unfolds
        <3>2. <<k, g[k - 1]>> \in (1 .. n) \X Trace
            BY <2>7
        <3> QED BY <3>1, <3>2
    <2>9. g[0] = x
        BY <2>6 DEF Unfolds
    <2> HIDE DEF F
    <2> DEFINE S == {k \in 0 .. n : I(g[k], k) /\ (k > 0 => g[k] = W(g[k - 1], k))}
    <2>10. 0 \in S
        BY <1>1, <1>2, <2>9
    <2>11. ASSUME NEW k \in 1 .. n, k - 1 \in S PROVE k \in S
        <3>1. I(W(g[k - 1], k), k)
            BY <1>3, <2>11
        <3>2. g[k] = W(g[k - 1], k)
            BY <1>4, <2>8, <3>1
        <3>3. k \in 0 .. n
            BY <1>1
        <3> QED BY <3>1, <3>2, <3>3
    <2> HIDE DEF S
    <2>12. 0 .. n \subseteq S
        BY <1>1, <2>10, <2>11, InductionUpTo
    <2>13. \A k \in 0 .. n : I(g[k], k) /\ (k > 0 => g[k] = W(g[k - 1], k))
        BY <2>12 DEF S
    <2>14. \A y, k : The({CompleteInto(below, k, k + 1) : below \in {y}}) = W(y, k)
        <3> TAKE y, k
        <3> DEFINE Q == {CompleteInto(below, k, k + 1) : below \in {y}}
        <3>1. Q = {W(y, k)}
            BY DEF W
        <3> HIDE DEF Q
        <3>2. The(Q) = W(y, k)
            BY <3>1, TheOf
        <3> QED BY <3>2 DEF Q
    <2>15. E(g)
        <3>1. ASSUME NEW k \in 0 .. n
              PROVE  g[k] = IF k = 0 THEN WithLayers(t, i) ELSE The({CompleteInto(below, k, k + 1) : below \in {g[k - 1]}})
            <4>1. CASE k = 0
                BY <2>9, <4>1 DEF x
            <4>2. CASE k # 0
                <5>1. k > 0
                    BY <1>1, <4>2
                <5>2. g[k] = W(g[k - 1], k)
                    BY <2>13, <5>1
                <5>3. The({CompleteInto(below, k, k + 1) : below \in {g[k - 1]}}) = W(g[k - 1], k)
                    BY <2>14
                <5> QED BY <4>2, <5>2, <5>3
            <4> QED BY <4>1, <4>2
        <3>2. g = [k \in 0 .. n |-> g[k]]
            BY <2>6
        <3> QED BY <3>1, <3>2
    <2> HIDE DEF E
    <2>16. E(CHOOSE h : E(h))
        BY <2>15
    <2> DEFINE h == CHOOSE hh : E(hh)
    <2>17. RollUp(t, i) = The({top(r) : r \in {h[n]}})
        <3>1. RollUp(t, i) = The({IF IsFull(r.layers[i]) THEN CompleteInto(r, i, i + 1) ELSE r : r \in {h[i - 1]}})
            BY <1>43, Zenon DEF RollUp, E, n, none
        <3> QED BY <3>1 DEF top, n
    <2> HIDE DEF h
    <2>170. E(h)
        BY <2>16 DEF h
    <2>18. h = [k \in 0 .. n |-> IF k = 0 THEN WithLayers(t, i)
                                 ELSE The({CompleteInto(below, k, k + 1) : below \in {h[k - 1]}})]
        BY <2>170 DEF E
    <2>19. h[0] = x
        BY <1>1, <2>18 DEF x
    <2>20. ASSUME NEW k \in 1 .. n PROVE h[k] = W(h[k - 1], k)
        <3>1. k \in 0 .. n /\ k # 0
            BY <1>1
        <3>2. h[k] = The({CompleteInto(below, k, k + 1) : below \in {h[k - 1]}})
            BY <2>18, <3>1
        <3>3. The({CompleteInto(below, k, k + 1) : below \in {h[k - 1]}}) = W(h[k - 1], k)
            BY <2>14
        <3> QED BY <3>2, <3>3
    <2>21. \A k \in 0 .. n : h[k] = g[k]
        <3>1. ASSUME NEW k \in 1 .. n, h[k - 1] = g[k - 1] PROVE h[k] = g[k]
            <4>1. k \in 0 .. n /\ k > 0
                BY <1>1
            <4>2. g[k] = W(g[k - 1], k)
                BY <2>13, <4>1
            <4>3. h[k] = W(h[k - 1], k)
                BY <2>20
            <4> QED BY <3>1, <4>2, <4>3
        <3>2. h[0] = g[0]
            BY <2>9, <2>19
        <3> QED BY <1>1, <3>1, <3>2, RecursionUnique
    <2>22. I(h[n], n)
        <3>1. n \in 0 .. n
            BY <1>1
        <3> QED BY <2>13, <2>21, <3>1
    <2>23. RolledUp(top(h[n]), t, rec, i, e, PS, T)
        BY <1>41, <2>22
    <2>24. The({top(r) : r \in {h[n]}}) = top(h[n])
        <3> DEFINE Q == {top(r) : r \in {h[n]}}
        <3>1. Q = {top(h[n])}
            OBVIOUS
        <3> HIDE DEF Q
        <3>2. The(Q) = top(h[n])
            BY <3>1, TheOf
        <3> QED BY <3>2 DEF Q
    <2> QED BY <2>17, <2>23, <2>24
<1> QED BY <1>42, <1>43

-----------------------------------------------------------------------------
(* introduce_batch: fuel, room, push.                                      *)

(* A batch is pushed onto the lowest layers that are in use, or below.     *)
CutPush(c, i, e) == [k \in Nat |-> IF k < i THEN e ELSE c[k]]
RecPush(r, i, w) == [k \in Nat |-> IF k < i THEN r[k] ELSE r[k] + w]

(* A batch that continues the ids is pushed onto the lowest layer in use,  *)
(* or below it.                                                            *)
LEMMA PushLaid ==
    ASSUME NEW T, NEW PS, Times(T), GoodParts(PS, T), NEW v, NEW e, NEW c, NEW r,
           Laid(v, e, c, r, PS, T), NEW i \in Positive,
           \A j \in Positive : j < i => Num(Lay(v)[j]) = 0,
           Num(Lay(v)[i]) # 2,
           NEW b \in BatchesOf(PS, T), b.id[1] = e, b.since <= v.since, b.len <= Pow2[i - 1]
    PROVE  /\ PushStep(v, PushAt(v, b, i), b, i)
           /\ Laid(PushAt(v, b, i), b.id[2], CutPush(c, i, b.id[2]), RecPush(r, i, Pow2[i - 1]), PS, T)
<1> DEFINE u == PushAt(v, b, i)
           L == Lay(v)
           M == Lay(u)
           w == Pow2[i - 1]
           e2 == b.id[2]
           c2 == CutPush(c, i, e2)
           r2 == RecPush(r, i, w)
           n == Len(v.layers)
<1>1. i \in Nat /\ i - 1 \in Nat /\ i >= 1 /\ w \in Nat /\ Pow2[i] = 2 * w
    BY PositiveFacts
<1>2. Good(v, PS, T) /\ c \in [Nat -> Nat] /\ c[0] = e /\ r \in [Nat -> Nat] /\ r[0] = 0
    BY DEF Laid, Tiled, Weighs
<1>20. n \in Nat /\ L \in [Positive -> Layer]
    BY LayType DEF Laid, Good, Trace
<1>21. e2 \in Nat
    BY BatchFields DEF BatchesOf
<1>3. \A j \in 0 .. (i - 1) : c[j] = e /\ r[j] = 0
    <2>1. \A j \in Positive : j <= i - 1 => j < i
        BY <1>1 DEF Positive
    <2>2. \A j \in Positive : j <= i - 1 => Num(Lay(v)[j]) = 0
        BY <2>1
    <2> HIDE DEF L
    <2> QED BY <1>1, <2>2, VacantBelow
<1>4. c[i - 1] = e /\ r[i - 1] = 0
    BY <1>1, <1>3
<1>5. Num(L[i]) \in 0 .. 2 /\ Num(L[i]) # 2 /\ r[i] = r[i - 1] + Weight(L[i], i) /\ r[i] \in Nat
      /\ (Num(L[i]) = 0 => c[i] = c[i - 1])
      /\ (Num(L[i]) # 0 => Lo(L[i]) = c[i] /\ Hi(L[i]) = c[i - 1])
    BY LaidAt
<1>6. Fits(v, b, i, PS, T)
    BY <1>4, <1>5 DEF Fits
<1>7. Good(u, PS, T) /\ PushStep(v, u, b, i)
    BY <1>2, <1>6, PushAtOK
<1> HIDE DEF u
<1>8. /\ M = [L EXCEPT ![i] = M[i]]
      /\ Num(M[i]) = Num(L[i]) + 1
      /\ Lo(M[i]) = IF Num(L[i]) = 0 THEN b.id[1] ELSE Lo(L[i])
      /\ Hi(M[i]) = e2
      /\ Len(u.layers) = IF i <= n THEN n ELSE i
    BY <1>7 DEF PushStep
<1>9. \A k \in Positive : k # i => M[k] = L[k]
    BY <1>8, <1>20
<1> HIDE DEF L, M, w, e2, n
<1>10. c2 \in [Nat -> Nat] /\ \A k \in Nat : c2[k] = IF k < i THEN e2 ELSE c[k]
    BY <1>1, <1>2, <1>21 DEF CutPush
<1>11. r2 \in [Nat -> Nat] /\ \A k \in Nat : r2[k] = IF k < i THEN r[k] ELSE r[k] + w
    BY <1>1, <1>2 DEF RecPush
<1> HIDE DEF c2, r2
<1>12. Tiled(M, e2, c2)
    <2>1. c2[0] = e2
        BY <1>1, <1>10
    <2>2. ASSUME NEW k \in Positive
          PROVE  IF Num(M[k]) = 0 THEN c2[k] = c2[k - 1] ELSE Lo(M[k]) = c2[k] /\ Hi(M[k]) = c2[k - 1]
        <3>0. k \in Nat /\ k - 1 \in Nat
            BY PositiveFacts
        <3>1. CASE k < i
            <4>1. k - 1 < i /\ k # i
                BY <1>1, <3>0, <3>1
            <4>2. c2[k] = e2 /\ c2[k - 1] = e2
                BY <1>10, <3>0, <3>1, <4>1
            <4>3. Num(M[k]) = 0
                BY <1>9, <3>1, <4>1 DEF L
            <4> QED BY <4>2, <4>3
        <3>2. CASE k = i
            <4>1. i - 1 < i /\ ~(i < i)
                BY <1>1
            <4>2. c2[i] = c[i] /\ c2[i - 1] = e2
                BY <1>1, <1>10, <4>1
            <4>3. Num(M[i]) # 0
                BY <1>5, <1>8
            <4>4. Lo(M[i]) = c[i]
                BY <1>4, <1>5, <1>8
            <4> QED BY <1>8, <3>2, <4>2, <4>3, <4>4
        <3>3. CASE k > i
            <4>1. ~(k < i) /\ ~(k - 1 < i) /\ k # i
                BY <1>1, <3>0, <3>3
            <4>2. c2[k] = c[k] /\ c2[k - 1] = c[k - 1] /\ M[k] = L[k]
                BY <1>9, <1>10, <3>0, <4>1
            <4>3. IF Num(L[k]) = 0 THEN c[k] = c[k - 1] ELSE Lo(L[k]) = c[k] /\ Hi(L[k]) = c[k - 1]
                BY LaidAt DEF L
            <4> QED BY <4>2, <4>3
        <3> QED BY <1>1, <3>0, <3>1, <3>2, <3>3
    <2> QED BY <1>10, <2>1, <2>2 DEF Tiled
<1>13. Weighs(M, r2)
    <2>1. r2[0] = 0
        BY <1>1, <1>2, <1>11
    <2>2. ASSUME NEW k \in Positive PROVE r2[k] = r2[k - 1] + Weight(M[k], k)
        <3>0. k \in Nat /\ k - 1 \in Nat
            BY PositiveFacts
        <3>4. r[k] = r[k - 1] + Weight(L[k], k) /\ r[k - 1] \in Nat /\ Weight(L[k], k) \in Nat
            BY LaidAt DEF L
        <3>1. CASE k < i
            <4>1. k - 1 < i /\ k # i
                BY <1>1, <3>0, <3>1
            <4>2. r2[k] = r[k] /\ r2[k - 1] = r[k - 1] /\ M[k] = L[k]
                BY <1>9, <1>11, <3>0, <3>1, <4>1
            <4> QED BY <3>4, <4>2
        <3>2. CASE k = i
            <4>1. i - 1 < i /\ ~(i < i)
                BY <1>1
            <4>2. r2[i] = r[i] + w /\ r2[i - 1] = r[i - 1]
                BY <1>1, <1>11, <4>1
            <4>3. Weight(M[i], i) = Weight(L[i], i) + w
                <5>1. Num(L[i]) = 0 \/ Num(L[i]) = 1
                    BY <1>5
                <5>2. Num(L[i]) = 0 => Num(M[i]) = 1
                    BY <1>8
                <5>3. Num(L[i]) = 1 => Num(M[i]) = 2
                    BY <1>8
                <5> QED BY <1>1, <5>1, <5>2, <5>3 DEF Weight, w
            <4>4. r[i] = r[i - 1] + Weight(L[i], i) /\ r[i - 1] \in Nat /\ Weight(L[i], i) \in Nat
                BY <3>2, <3>4
            <4>5. r2[i] = r2[i - 1] + Weight(M[i], i)
                BY <1>1, <4>2, <4>3, <4>4
            <4> QED BY <3>2, <4>5
        <3>3. CASE k > i
            <4>1. ~(k < i) /\ ~(k - 1 < i) /\ k # i
                BY <1>1, <3>0, <3>3
            <4>2. r2[k] = r[k] + w /\ r2[k - 1] = r[k - 1] + w /\ M[k] = L[k]
                BY <1>9, <1>11, <3>0, <4>1
            <4> QED BY <1>1, <3>4, <4>2
        <3> QED BY <1>1, <3>0, <3>1, <3>2, <3>3
    <2> QED BY <1>11, <2>1, <2>2 DEF Weighs
<1>14. c2[Len(u.layers)] = 0
    <2>1. Len(u.layers) \in Nat /\ ~(Len(u.layers) < i) /\ Len(u.layers) >= n
        BY <1>1, <1>20, <1>8 DEF n
    <2>2. c[Len(u.layers)] = 0
        BY <2>1, NoIdsAbove DEF n
    <2> QED BY <1>10, <2>1, <2>2
<1>15. Laid(u, e2, c2, r2, PS, T)
    BY <1>7, <1>12, <1>13, <1>14 DEF Laid, M
<1> QED BY <1>7, <1>15 DEF u, e2, c2, r2, w

-----------------------------------------------------------------------------
(* The invariant of the spine: its layers tile the ids up to e, and every  *)
(* merge will have the fuel it needs.                                      *)
Spined(t, e, PS, T) ==
    \E cut, rec : /\ Laid(t, e, cut, rec, PS, T)
                  /\ \A k \in Positive : FuelAt(Lay(t), rec, k, 0)

(* Work is a number.                                                       *)
LEMMA WorkNat ==
    ASSUME NEW T, NEW PS, NEW t, NEW e, NEW cut, NEW rec, Laid(t, e, cut, rec, PS, T),
           NEW k \in Positive, Num(Lay(t)[k]) = 2
    PROVE  Work(Lay(t)[k]) \in Nat
<1> DEFINE q == Lay(t)[k].merge
<1>1. LayerOK(Lay(t)[k], k, t.since, BatchesOf(PS, T))
    BY LaidAt
<1>2. q \in Seq(Merge) /\ Len(q) = 1
    BY <1>1 DEF LayerOK, Layer
<1> HIDE DEF q
<1>3. 1 \in 1 .. Len(q)
    BY <1>2
<1>4. q[1] \in Merge
    BY <1>2, <1>3, ElementOfSeq
<1>5. q[1].work \in Nat
    BY <1>4 DEF Merge
<1> QED BY <1>5 DEF Work, q

(* The fuel that a batch at level l brings finishes the merges near it.    *)
LEMMA FuelFinishes ==
    ASSUME NEW T, NEW PS, NEW v, NEW e, NEW cut, NEW rec, Laid(v, e, cut, rec, PS, T),
           NEW l \in Nat, NEW k \in Positive, k <= l + 2, FuelAt(Lay(v), rec, k, 8 * Pow2[l])
    PROVE  Num(Lay(v)[k]) # 2
<1>1. SUFFICES ASSUME Num(Lay(v)[k]) = 2 PROVE FALSE
    OBVIOUS
<1> DEFINE W == Work(Lay(v)[k])
           P == Pow2[k - 1]
           Q == Pow2[l]
           R == rec[k - 1]
<1>2. W \in Nat /\ R \in Nat
    BY <1>1, WorkNat, LaidAt
<1>3. P \in Nat /\ Q \in Nat /\ Q > 0
    BY Pow2Def, PositiveFacts
<1>4. P <= 2 * Q
    <2>1. k - 1 \in Nat /\ l + 1 \in Nat /\ k - 1 <= l + 1
        BY DEF Positive
    <2>2. P <= Pow2[l + 1]
        BY <2>1, Pow2Mono
    <2> QED BY <2>2, Pow2Def
<1>5. W + 8 * Q <= 4 * (P - R) /\ (8 * Q > 0 => W > 0)
    BY <1>1 DEF FuelAt
<1> HIDE DEF W, P, Q, R
<1> QED BY <1>2, <1>3, <1>4, <1>5

(* After the fuel of a batch of level l, every merge left has that much to *)
(* spare, and the layers up to l + 2 have none.                            *)
RoomAt(v, t, rec, l, e, PS, T) ==
    \E cut : /\ Laid(v, e, cut, rec, PS, T) /\ SameBut(v, t)
             /\ \A k \in Positive : FuelAt(Lay(v), rec, k, 8 * Pow2[l])
             /\ \A k \in Positive : k <= l + 2 => Num(Lay(v)[k]) # 2

(* The fuel of introduce_batch makes room for a batch of level l.          *)
LEMMA RoomMade ==
    ASSUME NEW T, NEW PS, Times(T), GoodParts(PS, T), NEW t, NEW e, Spined(t, e, PS, T), NEW l \in Nat
    PROVE  \E rec : RoomAt(ApplyFuel(t, 8 * Pow2[l]), t, rec, l, e, PS, T)
<1> DEFINE f == 8 * Pow2[l]
           v == ApplyFuel(t, f)
           n == Len(t.layers)
<1>1. f \in Nat
    BY Pow2Def
<1>2. PICK cut0, rec0 : /\ Laid(t, e, cut0, rec0, PS, T)
                        /\ \A k \in Positive : FuelAt(Lay(t), rec0, k, 0)
    BY DEF Spined
<1> HIDE DEF f
<1>3. Fuelled(v, t, n, f, e, PS, T)
    BY <1>1, <1>2, ApplyFuelOK
<1> HIDE DEF v, n
<1>4. PICK cut, rec :
      /\ Laid(v, e, cut, rec, PS, T)
      /\ SameBut(v, t)
      /\ \A k \in Positive : FuelAt(Lay(v), rec, k, IF k <= n THEN f ELSE 0)
      /\ \A k \in Positive : k > n => Num(Lay(v)[k]) = 0 \/ Num(Lay(v)[k]) = 1
    BY <1>3 DEF Fuelled, n
<1>5. n \in Nat
    BY <1>2 DEF n, Laid, Good, Trace
<1>6. ASSUME NEW k \in Positive PROVE FuelAt(Lay(v), rec, k, f)
    <2>1. k \in Nat
        BY DEF Positive
    <2>2. CASE k <= n
        BY <1>4, <2>2
    <2>3. CASE k > n
        <3>1. Num(Lay(v)[k]) # 2
            BY <1>4, <2>3
        <3> QED BY <3>1 DEF FuelAt
    <2> QED BY <1>5, <2>1, <2>2, <2>3
<1>7. ASSUME NEW k \in Positive, k <= l + 2 PROVE Num(Lay(v)[k]) # 2
    BY <1>4, <1>6, <1>7, FuelFinishes DEF f
<1>8. RoomAt(v, t, rec, l, e, PS, T)
    BY <1>4, <1>6, <1>7 DEF RoomAt, f
<1> QED BY <1>8 DEF v, f

(* The layers above a batch that is introduced still have fuel enough.     *)
RollFacts(u, v, r, rec, l) ==
    /\ \A k \in Positive : FuelAt(Lay(v), rec, k, 8 * Pow2[l])
    /\ \A k \in Positive : k <= l + 2 => Num(Lay(v)[k]) # 2
    /\ \A j \in Positive : j < l + 1 => Num(Lay(u)[j]) = 0
    /\ \A j \in Positive : j > l + 2 => Lay(u)[j] = Lay(v)[j]
    /\ \A j \in Positive : j > l + 1 => r[j] <= rec[j] + Pow2[l]
    /\ \/ Lay(u)[l + 2] = Lay(v)[l + 2]
       \/ /\ Num(Lay(u)[l + 1]) = 0
          /\ Num(Lay(u)[l + 2]) = 2 => Work(Lay(u)[l + 2]) <= 2 * Pow2[l + 1]

(* After the push every merge has enough fuel to come: the batch adds 2^l  *)
(* records below the merges above it and has brought 8 * 2^l fuel to each. *)
LEMMA FuelLasts ==
    ASSUME NEW T, NEW PS, NEW v, NEW e, NEW cut, NEW rec, NEW l \in Nat,
           Laid(v, e, cut, rec, PS, T),
           NEW u, NEW c, NEW r, Laid(u, e, c, r, PS, T), RollFacts(u, v, r, rec, l),
           NEW w, NEW b, PushStep(u, w, b, l + 1), NEW c2,
           Laid(w, b.id[2], c2, RecPush(r, l + 1, Pow2[l]), PS, T)
    PROVE  \A k \in Positive : FuelAt(Lay(w), RecPush(r, l + 1, Pow2[l]), k, 0)
<1> DEFINE i == l + 1
           Q == Pow2[l]
           r2 == RecPush(r, i, Q)
<1>1. i \in Positive /\ i \in Nat /\ i - 1 = l /\ i + 1 = l + 2 /\ i + 1 \in Positive /\ Q \in Nat /\ Q > 0
      /\ Pow2[i] = 2 * Q /\ Pow2[i + 1] = 4 * Q
    <2>1. Pow2[l + 1] = 2 * Pow2[l] /\ Pow2[(l + 1) + 1] = 2 * Pow2[l + 1] /\ Pow2[l] \in Nat /\ Pow2[l] # 0
        BY Pow2Def
    <2> QED BY <2>1 DEF Positive
<1> USE DEF RollFacts
<1>2. \A j \in Positive : j < i => Num(Lay(u)[j]) = 0
    OBVIOUS
<1>3. \A j \in 0 .. l : r[j] = 0
    <2>1. \A j \in Positive : j <= l => Num(Lay(u)[j]) = 0
        BY <1>2 DEF Positive
    <2> QED BY <2>1, VacantBelow
<1>4. Lay(u) \in [Positive -> Layer] /\ r \in [Nat -> Nat]
    BY LayType DEF Laid, Good, Weighs
<1>5. \A k \in Positive : k # i => Lay(w)[k] = Lay(u)[k]
    BY <1>4 DEF PushStep
<1>6. \A k \in Nat : r2[k] = IF k < i THEN r[k] ELSE r[k] + Q
    BY DEF RecPush
<1>7. ASSUME NEW k \in Positive, Num(Lay(w)[k]) = 2
      PROVE  Work(Lay(w)[k]) <= 4 * (Pow2[k - 1] - r2[k - 1]) /\ r2[k - 1] < Pow2[k - 1]
    <2>0. k \in Nat /\ k - 1 \in Nat /\ Pow2[k - 1] \in Nat /\ r[k - 1] \in Nat
        BY PositiveFacts, <1>4
    <2>1. k >= i
        <3>1. SUFFICES ASSUME k < i PROVE FALSE
            BY <1>1, <2>0
        <3>2. Lay(w)[k] = Lay(u)[k] /\ Num(Lay(u)[k]) = 0
            BY <1>1, <1>2, <1>5, <2>0, <3>1
        <3> QED BY <1>7, <3>2
    <2>2. CASE k = i
        <3>1. Work(Lay(w)[i]) <= 2 * Pow2[i - 1]
            BY <1>7, <2>2 DEF PushStep
        <3>2. r2[i - 1] = 0
            <4>1. i - 1 \in 0 .. l /\ i - 1 < i /\ i - 1 \in Nat
                BY <1>1
            <4> QED BY <1>3, <1>6, <4>1
        <3>3. Work(Lay(w)[i]) \in Nat
            BY <1>7, <2>2, WorkNat
        <3>4. Pow2[i - 1] = Q
            BY <1>1
        <3> HIDE DEF Q, r2
        <3>5. Work(Lay(w)[i]) <= 4 * (Pow2[i - 1] - r2[i - 1]) /\ r2[i - 1] < Pow2[i - 1]
            BY <1>1, <3>1, <3>2, <3>3, <3>4
        <3> QED BY <2>2, <3>5
    <2>3. CASE k = i + 1
        <3>1. Num(Lay(u)[i + 1]) = 2 /\ Lay(w)[i + 1] = Lay(u)[i + 1]
            BY <1>1, <1>5, <1>7, <2>3
        <3>2. Num(Lay(v)[i + 1]) # 2
            BY <1>1
        <3>3. Num(Lay(u)[i]) = 0 /\ Work(Lay(u)[i + 1]) <= 2 * Pow2[i]
            BY <3>1, <3>2, <1>1
        <3>4. r[i] = 0
            <4> HIDE DEF i
            <4>1. r[i] = r[i - 1] + Weight(Lay(u)[i], i)
                BY <1>1, LaidAt
            <4>2. r[i - 1] = 0
                BY <1>1, <1>3
            <4> QED BY <3>3, <4>1, <4>2 DEF Weight
        <3>5. r2[i] = Q
            BY <1>1, <1>6, <3>4
        <3>6. Work(Lay(w)[i + 1]) \in Nat
            BY <1>7, <2>3, WorkNat
        <3>7. (i + 1) - 1 = i /\ Pow2[i] = 2 * Q
            BY <1>1
        <3> HIDE DEF Q, r2, i
        <3>8. Work(Lay(w)[i + 1]) <= 4 * (Pow2[i] - r2[i]) /\ r2[i] < Pow2[i]
            BY <1>1, <3>1, <3>3, <3>5, <3>6, <3>7
        <3> QED BY <2>3, <3>7, <3>8
    <2>4. CASE k > i + 1
        <3>1. Lay(w)[k] = Lay(v)[k]
            <4>1. k # i /\ k > l + 2
                BY <1>1, <2>0, <2>4
            <4> QED BY <1>5, <4>1
        <3>2. /\ rec[k - 1] < Pow2[k - 1]
              /\ Work(Lay(w)[k]) + 8 * Q <= 4 * (Pow2[k - 1] - rec[k - 1])
              /\ 8 * Q > 0 => Work(Lay(w)[k]) > 0
            <4>1. FuelAt(Lay(v), rec, k, 8 * Q)
                OBVIOUS
            <4> QED BY <1>7, <3>1, <4>1 DEF FuelAt
        <3>3. r[k - 1] <= rec[k - 1] + Q
            <4>1. k - 1 \in Positive /\ k - 1 > l + 1
                BY <1>1, <2>0, <2>4 DEF Positive
            <4> QED BY <4>1
        <3>4. r2[k - 1] = r[k - 1] + Q
            <4>1. ~(k - 1 < i)
                BY <1>1, <2>0, <2>4
            <4> QED BY <1>6, <2>0, <4>1
        <3>5. Work(Lay(w)[k]) \in Nat /\ rec[k - 1] \in Nat
            BY <1>7, WorkNat, LaidAt
        <3> HIDE DEF Q, r2
        <3> QED BY <1>1, <2>0, <3>2, <3>3, <3>4, <3>5
    <2> QED BY <1>1, <2>0, <2>1, <2>2, <2>3, <2>4
<1>8. ASSUME NEW k \in Positive PROVE FuelAt(Lay(w), r2, k, 0)
    <2>1. SUFFICES ASSUME Num(Lay(w)[k]) = 2
                   PROVE  /\ r2[k - 1] < Pow2[k - 1]
                          /\ Work(Lay(w)[k]) + 0 <= 4 * (Pow2[k - 1] - r2[k - 1])
        BY DEF FuelAt
    <2>2. Work(Lay(w)[k]) \in Nat
        BY <2>1, WorkNat
    <2> HIDE DEF r2
    <2> QED BY <1>7, <2>1, <2>2
<1> QED BY <1>8 DEF r2, i, Q

(* A batch that fits is introduced: fuel, room, push.                      *)
LEMMA PushRolled ==
    ASSUME NEW T, NEW PS, Times(T), GoodParts(PS, T), NEW t, NEW e, Spined(t, e, PS, T), NEW l \in Nat,
           NEW b \in BatchesOf(PS, T), b.id[1] = e, b.since <= t.since, b.len <= Pow2[l]
    PROVE  LET w == PushAt(RollUp(ApplyFuel(t, 8 * Pow2[l]), l + 1), b, l + 1)
           IN Spined(w, b.id[2], PS, T) /\ SameBut(w, t) /\ Len(w.layers) > 0
<1> DEFINE v == ApplyFuel(t, 8 * Pow2[l])
           i == l + 1
           u == RollUp(v, i)
           w == PushAt(u, b, i)
<1>1. PICK rec : RoomAt(v, t, rec, l, e, PS, T)
    BY RoomMade
<1> HIDE DEF v
<1>2. PICK cut : /\ Laid(v, e, cut, rec, PS, T) /\ SameBut(v, t)
                 /\ \A k \in Positive : FuelAt(Lay(v), rec, k, 8 * Pow2[l])
                 /\ \A k \in Positive : k <= l + 2 => Num(Lay(v)[k]) # 2
    BY <1>1 DEF RoomAt
<1>3. i \in Positive /\ i + 1 = l + 2 /\ i - 1 = l
    BY DEF Positive
<1> HIDE DEF i
<1>4. \A j \in Positive : j <= i + 1 => Num(Lay(v)[j]) # 2
    BY <1>2, <1>3
<1>5. RolledUp(u, v, rec, i, e, PS, T)
    BY <1>2, <1>3, <1>4, RollUpOK
<1> HIDE DEF u
<1>6. PICK c, r :
      /\ Laid(u, e, c, r, PS, T) /\ SameBut(u, v)
      /\ \A j \in Positive : j < i => Num(Lay(u)[j]) = 0
      /\ Num(Lay(u)[i]) # 2
      /\ \A j \in Positive : j > i + 1 => Lay(u)[j] = Lay(v)[j]
      /\ \A j \in Positive : j > i => r[j] <= rec[j] + Pow2[i - 1]
      /\ \/ Lay(u)[i + 1] = Lay(v)[i + 1]
         \/ /\ Num(Lay(u)[i]) = 0
            /\ Num(Lay(u)[i + 1]) = 2 => Work(Lay(u)[i + 1]) <= 2 * Pow2[i]
    BY <1>5 DEF RolledUp
<1>7. b.since <= u.since
    BY <1>2, <1>6 DEF SameBut
<1>8. /\ PushStep(u, w, b, i)
      /\ Laid(w, b.id[2], CutPush(c, i, b.id[2]), RecPush(r, i, Pow2[i - 1]), PS, T)
    BY <1>3, <1>6, <1>7, PushLaid
<1> HIDE DEF w
<1>9. \A k \in Positive : FuelAt(Lay(w), RecPush(r, l + 1, Pow2[l]), k, 0)
    <2>1. RollFacts(u, v, r, rec, l)
        BY <1>2, <1>3, <1>6 DEF RollFacts, i
    <2>2. /\ PushStep(u, w, b, l + 1)
          /\ Laid(w, b.id[2], CutPush(c, i, b.id[2]), RecPush(r, l + 1, Pow2[l]), PS, T)
        BY <1>3, <1>8 DEF i
    <2>3. Laid(v, e, cut, rec, PS, T) /\ Laid(u, e, c, r, PS, T)
        BY <1>2, <1>6
    <2> QED BY <2>1, <2>2, <2>3, FuelLasts, Zenon
<1>10. Spined(w, b.id[2], PS, T)
    BY <1>3, <1>8, <1>9 DEF Spined, i
<1>11. SameBut(w, t)
    BY <1>2, <1>6, <1>8 DEF SameBut, PushStep
<1>12. Len(w.layers) > 0
    <2>1. Len(u.layers) \in Nat
        BY <1>6 DEF Laid, Good, Trace
    <2>2. Len(w.layers) = IF i <= Len(u.layers) THEN Len(u.layers) ELSE i
        BY <1>8 DEF PushStep
    <2> QED BY <1>3, <2>1, <2>2 DEF Positive
<1> QED BY <1>10, <1>11, <1>12 DEF w, u, v, i

-----------------------------------------------------------------------------
(* tidy_layers.                                                            *)

(* Records counts what rec counts.                                         *)
LEMMA RecordsIs ==
    ASSUME NEW T, NEW PS, NEW t, NEW e, NEW cut, NEW rec, Laid(t, e, cut, rec, PS, T),
           NEW m \in 0 .. Len(t.layers)
    PROVE  Records(t.layers, m) = rec[m]
<1> DEFINE ls == t.layers
           B(k) == Len(ls[k].batches) * Pow2[k - 1]
           E(h) == h = [k \in 0 .. m |-> IF k = 0 THEN 0 ELSE h[k - 1] + Len(ls[k].batches) * Pow2[k - 1]]
           g == [k \in 0 .. m |-> rec[k]]
<1>1. m \in Nat /\ Len(ls) \in Nat /\ rec \in [Nat -> Nat] /\ rec[0] = 0
    <2>1. Len(ls) \in Nat
        BY DEF Laid, Good, Trace
    <2>2. rec \in [Nat -> Nat] /\ rec[0] = 0
        BY DEF Laid, Weighs
    <2> QED BY <2>1, <2>2
<1>2. ASSUME NEW k \in 1 .. m PROVE rec[k] = rec[k - 1] + B(k)
    <2>1. k \in Positive /\ k \in 1 .. Len(ls)
        BY <1>1, SMTT(40) DEF Positive
    <2>2. Lay(t)[k] = ls[k]
        BY <2>1 DEF Lay, At
    <2>3. rec[k] = rec[k - 1] + Weight(Lay(t)[k], k) /\ Num(Lay(t)[k]) \in 0 .. 2
        BY <2>1, LaidAt
    <2>4. Pow2[k - 1] \in Nat
        BY <2>1, PositiveFacts
    <2>5. B(k) = Weight(Lay(t)[k], k)
        <3>1. Len(ls[k].batches) = Num(Lay(t)[k])
            BY <2>2 DEF Num
        <3>2. CASE Num(Lay(t)[k]) = 0
            BY <2>4, <3>1, <3>2 DEF Weight
        <3>3. CASE Num(Lay(t)[k]) = 1
            BY <2>4, <3>1, <3>3 DEF Weight
        <3>4. CASE Num(Lay(t)[k]) = 2
            BY <2>4, <3>1, <3>4 DEF Weight
        <3> QED BY <2>3, <3>2, <3>3, <3>4
    <2> QED BY <2>3, <2>5
<1>3. E(g)
    <2>1. ASSUME NEW k \in 0 .. m PROVE g[k] = IF k = 0 THEN 0 ELSE g[k - 1] + B(k)
        <3>1. CASE k = 0
            BY <1>1, <3>1
        <3>2. CASE k # 0
            <4>1. k \in 1 .. m /\ k - 1 \in 0 .. m
                BY <1>1, <3>2
            <4>2. g[k] = rec[k] /\ g[k - 1] = rec[k - 1]
                BY <4>1
            <4> QED BY <1>2, <3>2, <4>1, <4>2
        <3> QED BY <3>1, <3>2
    <2> QED BY <2>1
<1> HIDE DEF E
<1>4. E(CHOOSE h : E(h))
    BY <1>3
<1>5. PICK h : E(h) /\ Records(ls, m) = h[m]
    BY <1>4, Zenon DEF Records, E
<1>6. h[0] = 0 /\ \A k \in 1 .. m : h[k] = h[k - 1] + B(k)
    <2>1. h = [k \in 0 .. m |-> IF k = 0 THEN 0 ELSE h[k - 1] + B(k)]
        BY <1>5 DEF E
    <2>2. 0 \in 0 .. m /\ \A k \in 1 .. m : k \in 0 .. m /\ k # 0
        BY <1>1
    <2> HIDE DEF B
    <2> QED BY <2>1, <2>2
<1> HIDE DEF B, g, ls
<1>7. \A i \in 0 .. m : h[i] = rec[i]
    <2>1. h[0] = rec[0]
        BY <1>1, <1>6
    <2>2. \A i \in 1 .. m : h[i - 1] = rec[i - 1] => h[i] = rec[i]
        BY <1>2, <1>6
    <2>3. m \in Nat
        BY <1>1
    <2> DEFINE S == {i \in 0 .. m : h[i] = rec[i]}
    <2>4. 0 \in S
        BY <2>1, <2>3
    <2>5. ASSUME NEW i \in 1 .. m, i - 1 \in S PROVE i \in S
        <3>1. i \in 0 .. m
            BY <2>3
        <3> QED BY <2>2, <2>5, <3>1
    <2> HIDE DEF S
    <2>6. 0 .. m \subseteq S
        BY <2>3, <2>4, <2>5, InductionUpTo
    <2> QED BY <2>6 DEF S
<1> QED BY <1>1, <1>5, <1>7 DEF ls

(* The batch of the top layer moves down to layer j.                       *)
DownTo(t, j) == [t EXCEPT !.layers = Append(SubSeq(t.layers, 1, j - 1), t.layers[Len(t.layers)])]

TopAt(v, t, j) ==
    /\ Len(v.layers) = j /\ SameBut(v, t)
    /\ \A i \in Positive : Lay(v)[i] = IF i < j THEN Lay(t)[i]
                                       ELSE IF i = j THEN Lay(t)[Len(t.layers)]
                                       ELSE VacantLayer

(* The top layer moved down is good if its batch fits there.               *)
LEMMA TopMoved ==
    ASSUME NEW T, NEW PS, NEW t, Good(t, PS, T), Len(t.layers) > 0,
           NEW j \in 1 .. Len(t.layers), Num(Lay(t)[Len(t.layers)]) = 1,
           LayerLen(t.layers[Len(t.layers)]) <= Pow2[j - 1]
    PROVE  Good(DownTo(t, j), PS, T) /\ TopAt(DownTo(t, j), t, j)
<1> DEFINE ls == t.layers
           n == Len(ls)
           s == SubSeq(ls, 1, j - 1)
           new == Append(s, ls[n])
           v == [t EXCEPT !.layers = new]
<1>1. ls \in Seq(Layer) /\ n \in Nat /\ n \in 1 .. n /\ j \in Nat /\ j >= 1 /\ t \in Trace /\ n \in Positive
    BY DEF Good, Trace, Positive
<1>2. s \in Seq(Layer) /\ Len(s) = j - 1 /\ \A i \in 1 .. (j - 1) : s[i] = ls[i]
    <2> HIDE DEF ls
    <2>1. 1 \in 1 .. n + 1 /\ j - 1 \in 0 .. n
        BY <1>1 DEF ls
    <2> QED BY <1>1, <2>1, SubSeqProperties
<1>3. ls[n] \in Layer
    BY <1>1, ElementOfSeq
<1> HIDE DEF s, n
<1>4. new \in Seq(Layer) /\ Len(new) = j /\ new[j] = ls[n] /\ \A i \in 1 .. (j - 1) : new[i] = ls[i]
    BY <1>1, <1>2, <1>3
<1> HIDE DEF new
<1>5. v \in Trace /\ v.layers = new /\ SameBut(v, t) /\ v.reqs = t.reqs
    BY <1>1, <1>4, SetLayers
<1> HIDE DEF v
<1>6. ASSUME NEW i \in Positive
      PROVE  Lay(v)[i] = IF i < j THEN Lay(t)[i] ELSE IF i = j THEN Lay(t)[n] ELSE VacantLayer
    <2>0. i \in Nat /\ i >= 1
        BY DEF Positive
    <2>4. Lay(v)[i] = IF i <= j THEN new[i] ELSE VacantLayer
        BY <1>4, <1>5 DEF Lay, At
    <2>1. CASE i < j
        <3>1. i \in 1 .. (j - 1) /\ i <= j /\ i <= Len(ls)
            BY <1>1, <2>0, <2>1
        <3>2. Lay(t)[i] = ls[i]
            BY <3>1 DEF Lay, At
        <3> QED BY <1>4, <2>1, <2>4, <3>1, <3>2
    <2>2. CASE i = j
        <3>1. Lay(t)[n] = ls[n]
            BY <1>1 DEF Lay, At, n
        <3> QED BY <1>1, <1>4, <2>2, <2>4, <3>1
    <2>3. CASE i > j
        BY <1>1, <2>0, <2>3, <2>4
    <2> QED BY <1>1, <2>0, <2>1, <2>2, <2>3
<1>7. Good(v, PS, T)
    <2>1. v.panicked = FALSE /\ v.reqs \subseteq ReqsOf(BatchesOf(PS, T)) /\ v.since = t.since
        BY <1>5 DEF Good, SameBut
    <2>2. ASSUME NEW i \in Positive PROVE LayerOK(Lay(v)[i], i, t.since, BatchesOf(PS, T))
        <3>0. i \in Nat /\ i >= 1
            BY DEF Positive
        <3>1. CASE i < j
            BY <1>6, <3>1 DEF Good
        <3>2. CASE i = j
            <4> DEFINE l == Lay(t)[n]
            <4>1. LayerOK(l, n, t.since, BatchesOf(PS, T)) /\ Num(l) = 1
                BY <1>1 DEF Good, n
            <4>2. l = ls[n]
                BY <1>1 DEF Lay, At, n
            <4>3. l.batches[1].len <= Pow2[j - 1]
                <5> HIDE DEF l
                <5>1. LayerLen(l) = l.batches[1].len
                    BY <1>1, <4>1, SingleLayer, ZenonT(40)
                <5> QED BY <4>2, <5>1 DEF n
            <4> HIDE DEF l
            <4>4. LayerOK(l, j, t.since, BatchesOf(PS, T))
                <5>1. \A k \in 1 .. Num(l) : k = 1
                    BY <4>1
                <5> QED BY <4>1, <4>3, <5>1 DEF LayerOK
            <4>5. Lay(v)[i] = l
                BY <1>1, <1>6, <3>2 DEF l
            <4> QED BY <3>2, <4>4, <4>5
        <3>3. CASE i > j
            <4>1. Lay(v)[i] = VacantLayer
                BY <1>1, <1>6, <3>0, <3>3
            <4> QED BY <4>1, VacantOK
        <3> QED BY <1>1, <3>0, <3>1, <3>2, <3>3
    <2> QED BY <1>5, <2>1, <2>2 DEF Good
<1>8. v = DownTo(t, j)
    BY DEF v, new, s, n, DownTo
<1> QED BY <1>4, <1>5, <1>6, <1>7, <1>8 DEF TopAt, n

(* A spine that agrees with another one below its own top layer.           *)
TopStep(w, t, cut, rec, j) ==
    /\ Len(w.layers) = j
    /\ \A i \in Positive : i < j => Lay(w)[i] = Lay(t)[i]
    /\ Num(Lay(w)[j]) = 1 \/ Num(Lay(w)[j]) = 2
    /\ Lo(Lay(w)[j]) = 0 /\ Hi(Lay(w)[j]) = cut[j - 1]
    /\ FuelAt(Lay(w), rec, j, 0)

(* Moving the top layer down over vacant layers keeps the invariant of the *)
(* spine.                                                                  *)
LEMMA TopTiled ==
    ASSUME NEW T, NEW PS, NEW t, NEW e, NEW cut, NEW rec, Laid(t, e, cut, rec, PS, T),
           \A k \in Positive : FuelAt(Lay(t), rec, k, 0),
           NEW w, Good(w, PS, T), NEW j \in Positive, TopStep(w, t, cut, rec, j)
    PROVE  Spined(w, e, PS, T)
<1> DEFINE L == Lay(t)
           M == Lay(w)
           c2 == [i \in Nat |-> IF i < j THEN cut[i] ELSE 0]
           r2 == [i \in Nat |-> IF i < j THEN rec[i] ELSE rec[j - 1] + Weight(M[j], j)]
<1>1. /\ j \in Nat /\ j >= 1 /\ j - 1 \in Nat /\ j - 1 < j /\ 0 < j
      /\ cut \in [Nat -> Nat] /\ rec \in [Nat -> Nat] /\ cut[0] = e /\ rec[0] = 0
    <2>1. j \in Nat /\ j >= 1 /\ j - 1 \in Nat /\ j - 1 < j /\ 0 < j
        BY DEF Positive
    <2>2. rec \in [Nat -> Nat] /\ rec[0] = 0
        BY DEF Laid, Weighs
    <2>3. cut \in [Nat -> Nat] /\ cut[0] = e
        BY DEF Laid, Tiled
    <2> QED BY <2>1, <2>2, <2>3
<1>2. Num(M[j]) = 1 \/ Num(M[j]) = 2
    BY DEF TopStep
<1>3. Weight(M[j], j) \in Nat
    BY <1>2, PositiveFacts DEF Weight
<1>4. \A i \in Positive : i < j => M[i] = L[i]
    BY DEF TopStep
<1>5. \A i \in Positive : i > j => Num(M[i]) = 0
    <2>1. \A i \in Positive : i > j => M[i] = VacantLayer
        BY DEF TopStep, Lay, At, Positive
    <2> QED BY <2>1, VacantOK
<1> HIDE DEF M, L
<1>6. c2 \in [Nat -> Nat] /\ r2 \in [Nat -> Nat] /\ c2[0] = e /\ r2[0] = 0
    BY <1>1, <1>3
<1>7. /\ \A i \in Nat : i < j => c2[i] = cut[i] /\ r2[i] = rec[i]
      /\ \A i \in Nat : ~(i < j) => c2[i] = 0 /\ r2[i] = rec[j - 1] + Weight(M[j], j)
    OBVIOUS
<1> HIDE DEF c2, r2
<1>8. ASSUME NEW i \in Positive
      PROVE  /\ IF Num(M[i]) = 0 THEN c2[i] = c2[i - 1] ELSE Lo(M[i]) = c2[i] /\ Hi(M[i]) = c2[i - 1]
             /\ r2[i] = r2[i - 1] + Weight(M[i], i)
             /\ FuelAt(M, r2, i, 0)
    <2>0. i \in Nat /\ i - 1 \in Nat
        BY PositiveFacts
    <2>1. CASE i < j
        <3>1. /\ IF Num(L[i]) = 0 THEN cut[i] = cut[i - 1] ELSE Lo(L[i]) = cut[i] /\ Hi(L[i]) = cut[i - 1]
              /\ rec[i] = rec[i - 1] + Weight(L[i], i)
            BY LaidAt DEF L
        <3>2. i - 1 < j
            BY <1>1, <2>0, <2>1
        <3>3. c2[i] = cut[i] /\ r2[i] = rec[i] /\ c2[i - 1] = cut[i - 1] /\ r2[i - 1] = rec[i - 1]
              /\ M[i] = L[i]
            BY <1>4, <1>7, <2>0, <2>1, <3>2
        <3>4. FuelAt(L, rec, i, 0)
            BY DEF L
        <3>5. FuelAt(M, r2, i, 0)
            BY <3>3, <3>4 DEF FuelAt
        <3> QED BY <3>1, <3>3, <3>5
    <2>2. CASE i = j
        <3>1. ~(j < j)
            BY <1>1
        <3>2. c2[j] = 0 /\ c2[j - 1] = cut[j - 1] /\ r2[j - 1] = rec[j - 1]
              /\ r2[j] = rec[j - 1] + Weight(M[j], j)
            BY <1>1, <1>7, <3>1
        <3>3. Lo(M[j]) = 0 /\ Hi(M[j]) = cut[j - 1] /\ FuelAt(M, rec, j, 0)
            BY DEF TopStep, M
        <3>4. FuelAt(M, r2, j, 0)
            BY <3>2, <3>3 DEF FuelAt
        <3> QED BY <1>2, <2>2, <3>2, <3>3, <3>4
    <2>3. CASE i > j
        <3>1. ~(i < j) /\ ~(i - 1 < j)
            BY <1>1, <2>0, <2>3
        <3>2. c2[i] = 0 /\ c2[i - 1] = 0 /\ r2[i] = r2[i - 1] /\ r2[i - 1] \in Nat
            BY <1>6, <1>7, <2>0, <3>1
        <3>3. Num(M[i]) = 0
            BY <1>5, <2>3
        <3>4. Weight(M[i], i) = 0 /\ FuelAt(M, r2, i, 0)
            BY <3>3 DEF Weight, FuelAt
        <3> QED BY <3>2, <3>3, <3>4
    <2> QED BY <1>1, <2>0, <2>1, <2>2, <2>3
<1>9. Tiled(M, e, c2) /\ Weighs(M, r2)
    BY <1>6, <1>8 DEF Tiled, Weighs
<1>10. c2[Len(w.layers)] = 0
    <2>1. Len(w.layers) = j /\ ~(j < j)
        BY <1>1 DEF TopStep
    <2> QED BY <1>1, <1>7, <2>1
<1>11. Laid(w, e, c2, r2, PS, T)
    BY <1>9, <1>10 DEF Laid, M
<1> QED BY <1>8, <1>11 DEF Spined, M

(* Vacant layers do not hold ids.                                          *)
LEMMA VacantBetween ==
    ASSUME NEW T, NEW PS, NEW t, NEW e, NEW cut, NEW rec, Laid(t, e, cut, rec, PS, T),
           NEW a \in Nat, NEW n \in Nat, a <= n,
           \A j \in Positive : a < j /\ j <= n => Num(Lay(t)[j]) = 0
    PROVE  cut[n] = cut[a]
<1> DEFINE S == {i \in Nat : a + i <= n => cut[a + i] = cut[a]}
<1>1. 0 \in S
    OBVIOUS
<1>2. ASSUME NEW i \in Nat, i \in S PROVE i + 1 \in S
    <2>1. SUFFICES ASSUME a + (i + 1) <= n PROVE cut[a + (i + 1)] = cut[a]
        OBVIOUS
    <2>2. a + i <= n /\ a + (i + 1) \in Positive /\ a < a + (i + 1) /\ (a + (i + 1)) - 1 = a + i
        BY <2>1 DEF Positive
    <2>3. Num(Lay(t)[a + (i + 1)]) = 0
        BY <2>1, <2>2
    <2>4. cut[a + (i + 1)] = cut[(a + (i + 1)) - 1]
        BY <2>2, <2>3, LaidAt
    <2>5. cut[a + i] = cut[a]
        BY <1>2, <2>2
    <2> QED BY <2>2, <2>4, <2>5
<1>3. Nat \subseteq S
    <2> HIDE DEF S
    <2> QED BY <1>1, <1>2, InductionNat
<1>4. n - a \in S /\ a + (n - a) = n
    BY <1>3
<1> QED BY <1>4

(* The len of a layer with one batch is a number.                          *)
LEMMA SingleLen ==
    ASSUME NEW T, NEW PS, NEW t, NEW e, NEW cut, NEW rec, Laid(t, e, cut, rec, PS, T),
           NEW k \in Positive, Num(Lay(t)[k]) = 1
    PROVE  LayerLen(Lay(t)[k]) \in Nat
<1> DEFINE l == Lay(t)[k]
<1>1. LayerOK(l, k, t.since, BatchesOf(PS, T)) /\ Num(l) = 1
    BY LaidAt
<1> HIDE DEF l
<1>2. LayerLen(l) = l.batches[1].len /\ l.batches[1] \in Batch
    BY <1>1, SingleLayer
<1>3. LayerLen(l) \in Nat
    BY <1>2, BatchFields
<1> QED BY <1>3 DEF l

TidyTo(t) == Min({k \in (LevelOf(LayerLen(t.layers[Len(t.layers)])) + 1) .. Len(t.layers) :
                    \A j \in k .. (Len(t.layers) - 1) : IsVacant(t.layers[j])})

(* The outcomes of tidy_layers: nothing, the top batch pushed under into   *)
(* the layer below, or moved down.                                         *)
LEMMA TidyIs ==
    ASSUME NEW t
    PROVE  LET n == Len(t.layers)
               top == t.layers[n]
               level == LevelOf(LayerLen(top))
               m == TidyTo(t)
               below == t.layers[m - 1]
           IN \/ TidyLayers(t) = t
              \/ /\ n > 0 /\ IsSingle(top) /\ level < n - 1
                 /\ level < m - 1 /\ IsSingle(below) /\ Records(t.layers, m - 2) <= Pow2[m] \div 8
                 /\ TidyLayers(t) = PushAt([t EXCEPT !.layers = Append(SubSeq(t.layers, 1, m - 2), top)],
                                           below.batches[1], m - 1)
              \/ /\ n # 0 /\ IsSingle(top) /\ ~(level >= n - 1)
                 /\ TidyLayers(t) = DownTo(t, m)
<1> DEFINE n == Len(t.layers)
           top == t.layers[n]
           level == LevelOf(LayerLen(top))
           m == TidyTo(t)
           below == t.layers[m - 1]
           P1 == n = 0 \/ ~IsSingle(top) \/ level >= n - 1
           P2 == n > 0 /\ IsSingle(top) /\ level < n - 1
                   /\ level < m - 1 /\ IsSingle(below) /\ Records(t.layers, m - 2) <= Pow2[m] \div 8
           A2 == PushAt([t EXCEPT !.layers = Append(SubSeq(t.layers, 1, m - 2), top)],
                        below.batches[1], m - 1)
           A3 == DownTo(t, m)
<1>1. TidyLayers(t) = CASE P1 -> t [] P2 -> A2 [] OTHER -> A3
    BY DEF TidyLayers, TidyTo, DownTo
<1>2. ~P1 => (n # 0 /\ IsSingle(top) /\ ~(level >= n - 1))
    OBVIOUS
<1>3. P2 => /\ n > 0 /\ IsSingle(top) /\ level < n - 1
            /\ level < m - 1 /\ IsSingle(below) /\ Records(t.layers, m - 2) <= Pow2[m] \div 8
    OBVIOUS
<1> HIDE DEF P1, P2, A2, A3
<1>4. TidyLayers(t) = t \/ (P2 /\ TidyLayers(t) = A2) \/ (~P1 /\ TidyLayers(t) = A3)
    BY <1>1
<1> QED BY <1>2, <1>3, <1>4 DEF A2, A3

(* tidy_layers keeps the invariant of the spine.                           *)
LEMMA TidyOK ==
    ASSUME NEW T, NEW PS, Times(T), GoodParts(PS, T), NEW t, NEW e, Spined(t, e, PS, T)
    PROVE  Spined(TidyLayers(t), e, PS, T) /\ SameBut(TidyLayers(t), t)
<1> DEFINE n == Len(t.layers)
           top == t.layers[n]
           level == LevelOf(LayerLen(top))
           m == TidyTo(t)
           below == t.layers[m - 1]
           L == Lay(t)
<1>1. PICK cut, rec : /\ Laid(t, e, cut, rec, PS, T)
                      /\ \A k \in Positive : FuelAt(Lay(t), rec, k, 0)
    BY DEF Spined
<1>2. t \in Trace /\ n \in Nat /\ Good(t, PS, T)
    BY <1>1 DEF Laid, Good, Trace
<1>3. CASE TidyLayers(t) = t
    BY <1>3 DEF SameBut
<1>4. ASSUME n > 0, IsSingle(top), level < n - 1
      PROVE  /\ n \in Positive /\ L[n] = top /\ Num(L[n]) = 1
             /\ level \in Nat /\ LayerLen(top) <= Pow2[level]
             /\ m \in (level + 1) .. n /\ m \in Positive
             /\ LayerLen(top) <= Pow2[m - 1]
             /\ \A j \in Positive : m <= j /\ j <= n - 1 => Num(L[j]) = 0
             /\ Lo(L[n]) = 0 /\ Hi(L[n]) = cut[m - 1] /\ Lo(L[n]) = cut[n]
    <2>1. n \in Positive /\ L[n] = top
        BY <1>2, <1>4 DEF Positive, Lay, At
    <2>2. L[n] \in Layer /\ LayerOK(L[n], n, t.since, BatchesOf(PS, T))
        BY <1>1, <2>1, LaidAt DEF L
    <2>3. Num(L[n]) = 1
        BY <1>4, <2>1, <2>2, Vacancy
    <2>4. LayerLen(top) \in Nat
        BY <1>1, <2>1, <2>3, SingleLen
    <2>5. level \in Nat /\ LayerLen(top) <= Pow2[level]
        BY <2>4, LevelOfFits
    <2> DEFINE S == {k \in (level + 1) .. n : \A j \in k .. (n - 1) : IsVacant(t.layers[j])}
    <2> HIDE DEF level, L
    <2>6. S \in SUBSET Nat /\ n \in S
        BY <1>2, <1>4, <2>5
    <2>7. m = Min(S)
        BY DEF TidyTo, level
    <2> HIDE DEF m
    <2>8. m \in S
        <3> HIDE DEF S
        <3> QED BY <2>6, <2>7, MinOf
    <2>9. m \in (level + 1) .. n /\ \A j \in m .. (n - 1) : IsVacant(t.layers[j])
        BY <2>8
    <2>10. m \in Positive /\ m \in Nat /\ m <= n
        BY <1>2, <2>5, <2>9 DEF Positive
    <2>11. ASSUME NEW j \in Positive, m <= j, j <= n - 1 PROVE Num(L[j]) = 0
        <3>1. j \in m .. (n - 1)
            BY <1>2, <2>10, <2>11 DEF Positive
        <3>2. L[j] = t.layers[j]
            BY <1>2, <2>11 DEF L, Lay, At, Positive
        <3> QED BY <2>9, <3>1, <3>2 DEF IsVacant, Num
    <2>12. LayerLen(top) <= Pow2[m - 1]
        <3>1. m - 1 \in Nat /\ level <= m - 1
            BY <2>5, <2>9, <2>10, <1>2
        <3>2. Pow2[level] <= Pow2[m - 1] /\ Pow2[level] \in Nat /\ Pow2[m - 1] \in Nat
            BY <2>5, <3>1, Pow2Mono, Pow2Def
        <3> QED BY <2>4, <2>5, <3>2
    <2>13. Lo(L[n]) = cut[n] /\ Hi(L[n]) = cut[n - 1] /\ cut[n] = 0
        <3>1. Num(L[n]) # 0
            BY <2>3
        <3>2. cut[n] = 0
            BY <1>1 DEF Laid
        <3> QED BY <1>1, <2>1, <3>1, <3>2, LaidAt DEF L
    <2>14. cut[n - 1] = cut[m - 1]
        <3>1. m - 1 \in Nat /\ n - 1 \in Nat /\ m - 1 <= n - 1
            BY <1>2, <2>10 DEF Positive
        <3>2. \A j \in Positive : m - 1 < j /\ j <= n - 1 => Num(Lay(t)[j]) = 0
            BY <2>10, <2>11 DEF Positive, L
        <3> HIDE DEF n
        <3> QED BY <1>1, <3>1, <3>2, VacantBetween
    <2> QED BY <2>1, <2>3, <2>5, <2>9, <2>10, <2>11, <2>12, <2>13, <2>14 DEF L, level
<1>5. ASSUME n > 0, IsSingle(top), level < n - 1, TidyLayers(t) = DownTo(t, m)
      PROVE  Spined(DownTo(t, m), e, PS, T) /\ SameBut(DownTo(t, m), t)
    <2> DEFINE w == DownTo(t, m)
    <2>1. /\ n \in Positive /\ L[n] = top /\ Num(L[n]) = 1
          /\ m \in 1 .. n /\ m \in Positive
          /\ LayerLen(top) <= Pow2[m - 1]
          /\ Lo(L[n]) = 0 /\ Hi(L[n]) = cut[m - 1]
        <3>1. level \in Nat /\ m \in (level + 1) .. n
            BY <1>4, <1>5
        <3> HIDE DEF level, m
        <3>2. m \in 1 .. n
            BY <3>1, <1>2
        <3> QED BY <1>4, <1>5, <3>2 DEF level, m
    <2> HIDE DEF m, level
    <2>2. /\ Good(w, PS, T) /\ Len(w.layers) = m /\ SameBut(w, t)
          /\ \A i \in Positive : Lay(w)[i] = IF i < m THEN Lay(t)[i]
                                             ELSE IF i = m THEN Lay(t)[Len(t.layers)]
                                             ELSE VacantLayer
        <3>1. Good(w, PS, T) /\ TopAt(w, t, m)
            BY <1>2, <1>5, <2>1, TopMoved
        <3> HIDE DEF w
        <3> QED BY <3>1 DEF TopAt
    <2> HIDE DEF w
    <2>3. TopStep(w, t, cut, rec, m)
        <3>1. Lay(w)[m] = L[n] /\ \A i \in Positive : i < m => Lay(w)[i] = Lay(t)[i]
            BY <2>1, <2>2 DEF Positive
        <3>2. FuelAt(Lay(w), rec, m, 0)
            BY <2>1, <3>1 DEF FuelAt
        <3> QED BY <2>1, <2>2, <3>1, <3>2 DEF TopStep
    <2>4. Spined(w, e, PS, T)
        BY <1>1, <2>1, <2>2, <2>3, TopTiled
    <2> QED BY <2>2, <2>4 DEF w
<1>6. ASSUME n > 0, IsSingle(top), level < n - 1, level < m - 1, IsSingle(below),
             Records(t.layers, m - 2) <= Pow2[m] \div 8,
             NEW w, w = PushAt([t EXCEPT !.layers = Append(SubSeq(t.layers, 1, m - 2), top)],
                               below.batches[1], m - 1)
      PROVE  Spined(w, e, PS, T) /\ SameBut(w, t)
    <2> DEFINE j == m - 1
               v == DownTo(t, j)
               b == below.batches[1]
    <2>1. /\ n \in Positive /\ L[n] = top /\ Num(L[n]) = 1
          /\ m \in (level + 1) .. n /\ level \in Nat /\ LayerLen(top) <= Pow2[level]
          /\ Lo(L[n]) = 0 /\ Hi(L[n]) = cut[m - 1]
        BY <1>4, <1>6
    <2>2. level < m - 1 /\ IsSingle(below) /\ Records(t.layers, m - 2) <= Pow2[m] \div 8
        BY <1>6
    <2>3. LayerLen(top) \in Nat
        BY <1>1, <2>1, SingleLen
    <2> HIDE DEF level, m
    <2>4. j \in Positive /\ j \in 1 .. n /\ j \in Nat /\ j - 1 = m - 2 /\ j - 1 \in 0 .. n /\ level <= j - 1
          /\ j - 1 \in Nat /\ m = j + 1 /\ j < n
        BY <1>2, <2>1, <2>2 DEF Positive
    <2> HIDE DEF j
    <2>5. LayerLen(top) <= Pow2[j - 1]
        <3>1. Pow2[level] <= Pow2[j - 1] /\ Pow2[level] \in Nat /\ Pow2[j - 1] \in Nat
            BY <2>1, <2>4, Pow2Mono, Pow2Def
        <3> QED BY <2>1, <2>3, <3>1
    <2>6. /\ Good(v, PS, T) /\ Len(v.layers) = j /\ SameBut(v, t)
          /\ \A i \in Positive : Lay(v)[i] = IF i < j THEN Lay(t)[i]
                                             ELSE IF i = j THEN Lay(t)[Len(t.layers)]
                                             ELSE VacantLayer
        <3>1. Good(v, PS, T) /\ TopAt(v, t, j)
            BY <1>2, <1>6, <2>1, <2>4, <2>5, TopMoved
        <3> HIDE DEF v
        <3> QED BY <3>1 DEF TopAt
    <2>7. w = PushAt(v, b, j)
        BY <1>6, <2>4 DEF DownTo, j
    <2>8. L[j] = below /\ Num(L[j]) = 1 /\ LayerOK(L[j], j, t.since, BatchesOf(PS, T))
        <3>1. L[j] = below
            BY <1>2, <2>4 DEF Lay, At, j
        <3>2. L[j] \in Layer /\ LayerOK(L[j], j, t.since, BatchesOf(PS, T))
            BY <1>1, <2>4, LaidAt DEF L
        <3> QED BY <2>2, <3>1, <3>2, Vacancy
    <2>9. /\ b \in BatchesOf(PS, T) /\ b.since <= t.since /\ b.len <= Pow2[j - 1]
          /\ b.id = <<Lo(L[j]), Hi(L[j])>>
        <3> DEFINE q == L[j]
        <3>1. Num(q) = 1 /\ LayerOK(q, j, t.since, BatchesOf(PS, T)) /\ b = q.batches[1]
            BY <2>8
        <3> HIDE DEF q, b
        <3>2. /\ b \in BatchesOf(PS, T) /\ b.since <= t.since /\ b.len <= Pow2[j - 1]
              /\ b.id = <<Lo(q), Hi(q)>>
            BY <2>4, <3>1, SingleLayer
        <3> QED BY <3>2 DEF q
    <2>10. Lo(L[j]) = cut[j] /\ Hi(L[j]) = cut[j - 1]
        <3>1. Num(L[j]) # 0
            BY <2>8
        <3> QED BY <1>1, <2>4, <3>1, LaidAt DEF L
    <2>11. b.id[1] = cut[j] /\ b.id[2] = cut[j - 1]
        BY <2>9, <2>10
    <2>12. Lay(v)[j] = L[n] /\ \A i \in Positive : i < j => Lay(v)[i] = Lay(t)[i]
        BY <2>4, <2>6 DEF Positive
    <2> HIDE DEF v, b, L
    <2>13. Fits(v, b, j, PS, T)
        <3>1. Num(Lay(v)[j]) = 1 /\ Hi(Lay(v)[j]) = b.id[1]
            BY <2>1, <2>11, <2>12 DEF j
        <3>2. b.since <= v.since
            BY <2>6, <2>9 DEF SameBut
        <3> QED BY <2>4, <2>9, <3>1, <3>2 DEF Fits
    <2>14. Good(w, PS, T) /\ PushStep(v, w, b, j)
        BY <2>6, <2>7, <2>13, PushAtOK
    <2>15. /\ Num(Lay(w)[j]) = 2 /\ Lo(Lay(w)[j]) = 0 /\ Hi(Lay(w)[j]) = cut[j - 1]
           /\ Work(Lay(w)[j]) <= 2 * Pow2[j - 1] /\ Len(w.layers) = j
        <3>1. Num(Lay(v)[j]) = 1 /\ Lo(Lay(v)[j]) = 0
            BY <2>1, <2>12
        <3>2. Num(Lay(w)[j]) = 2
            BY <2>14, <3>1 DEF PushStep
        <3>3. Lo(Lay(w)[j]) = 0 /\ Hi(Lay(w)[j]) = b.id[2]
            BY <2>14, <3>1 DEF PushStep
        <3>4. Work(Lay(w)[j]) <= 2 * Pow2[j - 1]
            BY <2>14, <3>2 DEF PushStep
        <3>5. Len(w.layers) = j
            BY <2>4, <2>6, <2>14 DEF PushStep
        <3> QED BY <2>11, <3>2, <3>3, <3>4, <3>5
    <2>16. \A i \in Positive : i < j => Lay(w)[i] = Lay(t)[i]
        <3>1. Lay(v) \in [Positive -> Layer]
            BY <2>6, LayType DEF Good
        <3>2. \A i \in Positive : i < j => Lay(w)[i] = Lay(v)[i]
            BY <2>4, <2>14, <3>1 DEF PushStep
        <3> QED BY <2>12, <3>2
    <2>17. FuelAt(Lay(w), rec, j, 0)
        <3>1. rec[j - 1] = Records(t.layers, m - 2)
            BY <1>1, <2>4, RecordsIs
        <3>2. rec[j - 1] \in Nat
            BY <1>1, <2>4, LaidAt
        <3>3. Pow2[m] = 4 * Pow2[j - 1] /\ Pow2[j - 1] \in Nat /\ Pow2[j - 1] > 0
            <4>1. Pow2[j + 1] = 2 * Pow2[j] /\ Pow2[j] = 2 * Pow2[j - 1] /\ Pow2[j - 1] \in Nat /\ Pow2[j - 1] > 0
                BY <2>4, PositiveFacts, Pow2Def
            <4> QED BY <2>4, <4>1
        <3>4. Work(Lay(w)[j]) \in Nat
            <4> DEFINE q == Lay(w)[j].merge
            <4>1. LayerOK(Lay(w)[j], j, w.since, BatchesOf(PS, T))
                BY <2>4, <2>14 DEF Good
            <4>2. q \in Seq(Merge) /\ Len(q) = 1
                BY <2>15, <4>1 DEF LayerOK, Layer
            <4> HIDE DEF q
            <4>3. 1 \in 1 .. Len(q)
                BY <4>2
            <4>4. q[1] \in Merge
                BY <4>2, <4>3, ElementOfSeq
            <4>5. q[1].work \in Nat
                BY <4>4 DEF Merge
            <4> QED BY <4>5 DEF q, Work
        <3> DEFINE P == Pow2[j - 1]
                   R == rec[j - 1]
                   W == Work(Lay(w)[j])
        <3>5. R <= (4 * P) \div 8 /\ W <= 2 * P
            BY <2>2, <2>15, <3>1, <3>3
        <3>6. P \in Nat /\ P > 0 /\ R \in Nat /\ W \in Nat
            BY <3>2, <3>3, <3>4
        <3> HIDE DEF P, R, W
        <3>7. 8 * R <= 4 * P
            BY <3>5, <3>6
        <3>8. R < P /\ W + 0 <= 4 * (P - R)
            BY <3>5, <3>6, <3>7
        <3> QED BY <3>8 DEF FuelAt, P, R, W
    <2>18. TopStep(w, t, cut, rec, j)
        BY <2>15, <2>16, <2>17 DEF TopStep
    <2>19. Spined(w, e, PS, T)
        BY <1>1, <2>4, <2>14, <2>18, TopTiled
    <2>20. SameBut(w, t)
        BY <2>6, <2>14 DEF PushStep, SameBut
    <2> QED BY <2>19, <2>20
<1>7. LevelOf(LayerLen(top)) \in Nat \/ n = 0 \/ ~IsSingle(top)
    <2>1. SUFFICES ASSUME n # 0, IsSingle(top) PROVE LevelOf(LayerLen(top)) \in Nat
        OBVIOUS
    <2>2. n \in Positive /\ L[n] = top
        BY <1>2, <2>1 DEF Positive, Lay, At
    <2>3. L[n] \in Layer /\ LayerOK(L[n], n, t.since, BatchesOf(PS, T))
        BY <1>1, <2>2, LaidAt DEF L
    <2>4. Num(L[n]) = 1
        BY <2>1, <2>2, <2>3, Vacancy
    <2>5. LayerLen(top) \in Nat
        BY <1>1, <2>2, <2>4, SingleLen
    <2> QED BY <2>5, LevelOfFits
<1>8. \/ TidyLayers(t) = t
      \/ /\ n > 0 /\ IsSingle(top) /\ level < n - 1
         /\ level < m - 1 /\ IsSingle(below) /\ Records(t.layers, m - 2) <= Pow2[m] \div 8
         /\ TidyLayers(t) = PushAt([t EXCEPT !.layers = Append(SubSeq(t.layers, 1, m - 2), top)],
                                   below.batches[1], m - 1)
      \/ /\ n # 0 /\ IsSingle(top) /\ ~(level >= n - 1)
         /\ TidyLayers(t) = DownTo(t, m)
    BY TidyIs, Zenon
<1>9. n # 0 /\ IsSingle(top) /\ ~(level >= n - 1) => n > 0 /\ level < n - 1
    <2>1. n # 0 /\ IsSingle(top) => level \in Nat
        BY <1>7
    <2> HIDE DEF level, top
    <2> QED BY <1>2, <2>1
<1> HIDE DEF n, top, level, m, below
<1> QED BY <1>3, <1>5, <1>6, <1>8, <1>9

-----------------------------------------------------------------------------
(* insert and exert.                                                       *)

(* The invariant depends on the layers, and survives new parts and times,  *)
(* and a since that moves forward.                                         *)
LEMMA SpinedFrom ==
    ASSUME NEW T, NEW PS, NEW t, NEW e, Spined(t, e, PS, T), NEW T2, NEW PS2,
           BatchesOf(PS, T) \subseteq BatchesOf(PS2, T2),
           NEW u \in Trace, u.layers = t.layers, t.since <= u.since, u.panicked = FALSE,
           u.reqs \subseteq ReqsOf(BatchesOf(PS2, T2))
    PROVE  Spined(u, e, PS2, T2)
<1> DEFINE BS == BatchesOf(PS, T)
           B2 == BatchesOf(PS2, T2)
<1>1. PICK cut, rec : /\ Laid(t, e, cut, rec, PS, T)
                      /\ \A k \in Positive : FuelAt(Lay(t), rec, k, 0)
    BY DEF Spined
<1>2. Lay(u) = Lay(t)
    BY DEF Lay
<1>3. t.since \in Nat /\ u.since \in Nat
    BY <1>1 DEF Laid, Good, Trace
<1>4. ASSUME NEW i \in Positive PROVE LayerOK(Lay(u)[i], i, u.since, B2)
    <2> DEFINE l == Lay(t)[i]
    <2>1. LayerOK(l, i, t.since, BS)
        BY <1>1 DEF Laid, Good
    <2> HIDE DEF l, BS, B2
    <2>2. l \in Layer /\ l.batches \in Seq(BS) /\ Num(l) \in 0 .. 2
        BY <2>1 DEF LayerOK
    <2>3. l.batches \in Seq(B2)
        <3>1. BS \subseteq B2
            BY DEF BS, B2
        <3> DEFINE q == l.batches
        <3>2. q \in Seq(BS)
            BY <2>2
        <3> HIDE DEF q
        <3>3. q \in Seq(B2)
            BY <3>1, <3>2
        <3> QED BY <3>3 DEF q
    <2>4. \A k \in 1 .. Num(l) : l.batches[k].since <= u.since /\ l.batches[k].len <= Pow2[i - 1]
        <3>1. ASSUME NEW k \in 1 .. Num(l) PROVE l.batches[k].since <= u.since /\ l.batches[k].len <= Pow2[i - 1]
            <4> DEFINE q == l.batches
            <4>1. q[k].since <= t.since /\ q[k].len <= Pow2[i - 1]
                BY <2>1 DEF LayerOK
            <4>2. q \in Seq(Batch) /\ k \in 1 .. Len(q)
                BY <2>2 DEF Layer, Num
            <4> HIDE DEF q
            <4>3. q[k] \in Batch
                BY <4>2, ElementOfSeq
            <4>4. q[k].since \in Nat
                BY <4>3 DEF Batch
            <4>5. q[k].since <= u.since
                BY <1>3, <4>1, <4>4
            <4> QED BY <4>1, <4>5 DEF q
        <3> QED BY <3>1
    <2>5. ASSUME Num(l) = 2 PROVE l.merge[1].since <= u.since
        <3>1. Len(l.merge) = 1 /\ l.merge[1].since <= t.since
            BY <2>1, <2>5 DEF LayerOK
        <3> DEFINE q == l.merge
        <3>2. q \in Seq(Merge) /\ 1 \in 1 .. Len(q)
            BY <2>2, <3>1 DEF Layer
        <3> HIDE DEF q
        <3>3. q[1] \in Merge
            BY <3>2, ElementOfSeq
        <3>4. q[1].since \in Nat
            BY <3>3 DEF Merge
        <3> QED BY <1>3, <3>1, <3>4 DEF q
    <2>6. LayerOK(l, i, u.since, B2)
        BY <2>1, <2>2, <2>3, <2>4, <2>5 DEF LayerOK
    <2> QED BY <1>2, <2>6 DEF l
<1>5. Good(u, PS2, T2)
    BY <1>4 DEF Good
<1>6. Laid(u, e, cut, rec, PS2, T2)
    BY <1>1, <1>2, <1>5 DEF Laid
<1> QED BY <1>1, <1>2, <1>6 DEF Spined

(* The four calls of introduce_batch, in their order.                      *)
LEMMA IntroduceIs ==
    ASSUME NEW t, NEW b, NEW l
    PROVE  Introduce(t, b, l) = TidyLayers(PushAt(RollUp(ApplyFuel(t, 8 * Pow2[l]), l + 1), b, l + 1))
<1> DEFINE v == ApplyFuel(t, 8 * Pow2[l])
           F == {v}
           R == {RollUp(f, l + 1) : f \in F}
           Q == {PushAt(r, b, l + 1) : r \in R}
           A == {TidyLayers(p) : p \in Q}
<1>1. Introduce(t, b, l) = The(A)
    BY DEF Introduce
<1> HIDE DEF v
<1>2. R = {RollUp(v, l + 1)}
    OBVIOUS
<1>3. Q = {PushAt(RollUp(v, l + 1), b, l + 1)}
    <2> HIDE DEF R
    <2> QED BY <1>2
<1>4. A = {TidyLayers(PushAt(RollUp(v, l + 1), b, l + 1))}
    <2> HIDE DEF Q
    <2> QED BY <1>3
<1> HIDE DEF A
<1> QED BY <1>1, <1>4, TheOf DEF v

(* introduce_batch keeps the invariant of the spine.                       *)
LEMMA IntroduceOK ==
    ASSUME NEW T, NEW PS, Times(T), GoodParts(PS, T), NEW t, NEW e, Spined(t, e, PS, T), NEW l \in Nat,
           NEW b \in BatchesOf(PS, T), b.id[1] = e, b.since <= t.since, b.len <= Pow2[l]
    PROVE  Spined(Introduce(t, b, l), b.id[2], PS, T) /\ SameBut(Introduce(t, b, l), t)
<1> DEFINE w == PushAt(RollUp(ApplyFuel(t, 8 * Pow2[l]), l + 1), b, l + 1)
<1>1. Spined(w, b.id[2], PS, T) /\ SameBut(w, t)
    BY PushRolled
<1>2. Introduce(t, b, l) = TidyLayers(w)
    BY IntroduceIs
<1> HIDE DEF w
<1>3. Spined(TidyLayers(w), b.id[2], PS, T) /\ SameBut(TidyLayers(w), w)
    BY <1>1, TidyOK
<1> QED BY <1>1, <1>2, <1>3 DEF SameBut

(* An empty batch is fused with the empty batch in the lowest layer used.  *)
LEMMA FuseOK ==
    ASSUME NEW T, NEW PS, Times(T), GoodParts(PS, T), NEW t, NEW e, Spined(t, e, PS, T),
           NEW b \in BatchesOf(PS, T), b.id[1] = e, b.since <= t.since, b.len = 0,
           NEW i \in 1 .. Len(t.layers), \A j \in Positive : j < i => Num(Lay(t)[j]) = 0,
           Num(Lay(t)[i]) = 1, LayerLen(Lay(t)[i]) = 0,
           NEW w, w = CompleteInto(PushAt(t, b, i), i, i)
    PROVE  Spined(w, b.id[2], PS, T) /\ SameBut(w, t)
<1> DEFINE L == Lay(t)
           u == PushAt(t, b, i)
           e2 == b.id[2]
<1>1. PICK c, r : /\ Laid(t, e, c, r, PS, T)
                  /\ \A k \in Positive : FuelAt(Lay(t), r, k, 0)
    BY DEF Spined
<1>2. i \in Positive /\ t \in Trace /\ t.layers \in Seq(Layer) /\ Len(t.layers) \in Nat /\ t.since \in Nat
    BY <1>1 DEF Laid, Good, Trace, Positive
<1>3. Pow2[i - 1] \in Nat /\ Pow2[i - 1] > 0
    BY <1>2, PositiveFacts
<1>4. /\ PushStep(t, u, b, i)
      /\ Laid(u, e2, CutPush(c, i, e2), RecPush(r, i, Pow2[i - 1]), PS, T)
    <2>1. b.len <= Pow2[i - 1] /\ Num(Lay(t)[i]) # 2
        BY <1>3
    <2> QED BY <1>1, <1>2, <2>1, PushLaid
<1>5. LayerOK(L[i], i, t.since, BatchesOf(PS, T)) /\ L[i] \in Layer
    BY <1>1, <1>2, LaidAt
<1>6. LayerLen(Lay(u)[i]) = 0
    <2> DEFINE a == L[i].batches[1]
    <2>1. b \in Batch
        BY DEF BatchesOf
    <2>2. Hi(L[i]) = e
        <3>1. IF Num(L[i]) = 0 THEN c[i] = c[i - 1] ELSE Lo(L[i]) = c[i] /\ Hi(L[i]) = c[i - 1]
            BY <1>1, <1>2, LaidAt
        <3>2. c[i - 1] = e
            <4>1. i - 1 \in Nat /\ i - 1 \in 0 .. (i - 1) /\ \A j \in Positive : j <= i - 1 => Num(Lay(t)[j]) = 0
                BY <1>2 DEF Positive
            <4> QED BY <1>1, <4>1, VacantBelow
        <3> QED BY <3>1, <3>2
    <2>3. CanPush(L[i], b)
        <3> DEFINE l == L[i]
        <3>1. LayerOK(l, i, t.since, BatchesOf(PS, T)) /\ Num(l) # 2 /\ (Num(l) = 1 => Hi(l) = b.id[1])
            BY <1>5, <2>2
        <3>2. b.len <= Pow2[i - 1]
            BY <1>3
        <3> HIDE DEF l
        <3>3. CanPush(l, b)
            BY <1>2, <3>1, <3>2, PushedOK
        <3> QED BY <3>3 DEF l
    <2>4. Lay(u)[i] = Pushed(L[i], b, t.since)
        <3>1. Lay(u) = [Lay(t) EXCEPT ![i] = Pushed(Lay(t)[i], b, t.since)]
            BY <1>2, <2>1, <2>3, PushAtIs
        <3>2. Lay(t) \in [Positive -> Layer]
            BY <1>2, LayType
        <3> HIDE DEF u
        <3> QED BY <1>2, <3>1, <3>2
    <2>5. Pushed(L[i], b, t.since).batches = <<a, b>>
        <3>1. Len(L[i].batches) = 1
            BY DEF Num
        <3> DEFINE l == L[i]
        <3>2. Len(l.batches) <= 1 /\ Len(l.batches) # 0 /\ l \in Layer
            BY <1>5, <3>1
        <3> HIDE DEF l
        <3>3. Pushed(l, b, t.since).batches = <<l.batches[1], b>>
            BY <1>2, <2>1, <3>2, PushedType
        <3> QED BY <3>3 DEF l
    <2>6. a.len = 0
        <3> DEFINE l == L[i]
        <3>1. LayerOK(l, i, t.since, BatchesOf(PS, T)) /\ Num(l) = 1 /\ LayerLen(l) = 0
            BY <1>5
        <3> HIDE DEF l
        <3>2. LayerLen(l) = l.batches[1].len
            BY <1>2, <3>1, SingleLayer, ZenonT(40)
        <3> QED BY <3>1, <3>2 DEF l
    <2> HIDE DEF a, u, L
    <2>7. SumLen(<<a, b>>) = 0
        <3>1. a.len \in Nat /\ b.len \in Nat
            BY <2>6
        <3>2. SumLen(<<a, b>>) = a.len + b.len
            BY <3>1, SumLenSmall, Zenon
        <3> QED BY <2>6, <3>2
    <2> QED BY <2>4, <2>5, <2>7 DEF LayerLen
<1> HIDE DEF u
<1>7. /\ Good(u, PS, T) /\ i \in 1 .. Len(u.layers) /\ Num(Lay(u)[i]) = 2
      /\ LayerLen(Lay(u)[i]) <= Pow2[i - 1]
    <2>1. Len(u.layers) = Len(t.layers)
        BY <1>2, <1>4 DEF PushStep
    <2>2. Num(Lay(u)[i]) = 2
        BY <1>4 DEF PushStep
    <2>3. Good(u, PS, T)
        BY <1>4 DEF Laid
    <2> QED BY <1>3, <1>6, <2>1, <2>2, <2>3
<1> DEFINE c2 == CutPush(c, i, e2)
           M == Lay(w)
<1>8. /\ Good(w, PS, T)
      /\ \A k \in Positive : k # i => M[k] = Lay(u)[k]
      /\ Num(M[i]) = 1 /\ Lo(M[i]) = Lo(Lay(u)[i]) /\ Hi(M[i]) = Hi(Lay(u)[i])
      /\ Len(w.layers) = Len(u.layers) /\ SameBut(w, u)
    <2>1. w = CompleteInto(u, i, i) /\ Num(Lay(u)[i]) # 0
        BY <1>7 DEF u
    <2> QED BY <1>7, <2>1, CompleteHere
<1>9. \A k \in Positive : k # i => M[k] = L[k]
    <2>1. Lay(t) \in [Positive -> Layer]
        BY <1>2, LayType
    <2>2. \A k \in Positive : k # i => Lay(u)[k] = Lay(t)[k]
        BY <1>4, <2>1 DEF PushStep
    <2> QED BY <1>8, <2>2
<1> HIDE DEF c2, M
<1>10. Tiled(M, e2, c2) /\ c2[Len(w.layers)] = 0
    <2>1. Tiled(Lay(u), e2, c2) /\ c2[Len(u.layers)] = 0
        BY <1>4 DEF Laid, c2
    <2>2. ASSUME NEW k \in Positive
          PROVE  IF Num(M[k]) = 0 THEN c2[k] = c2[k - 1] ELSE Lo(M[k]) = c2[k] /\ Hi(M[k]) = c2[k - 1]
        <3>1. IF Num(Lay(u)[k]) = 0 THEN c2[k] = c2[k - 1]
              ELSE Lo(Lay(u)[k]) = c2[k] /\ Hi(Lay(u)[k]) = c2[k - 1]
            BY <2>1 DEF Tiled
        <3>2. CASE k = i
            <4>1. Lo(Lay(u)[i]) = c2[i] /\ Hi(Lay(u)[i]) = c2[i - 1]
                BY <1>7, <3>1, <3>2
            <4> QED BY <1>8, <3>2, <4>1
        <3>3. CASE k # i
            <4>1. M[k] = Lay(u)[k]
                BY <1>8, <3>3
            <4> QED BY <3>1, <4>1
        <3> QED BY <3>2, <3>3
    <2> QED BY <1>8, <2>1, <2>2 DEF Tiled
<1>11. Weighs(M, r)
    <2>1. Weighs(L, r)
        BY <1>1 DEF Laid
    <2>2. \A k \in Positive : Weight(M[k], k) = Weight(L[k], k)
        BY <1>8, <1>9 DEF Weight
    <2> QED BY <2>1, <2>2 DEF Weighs
<1>12. \A k \in Positive : FuelAt(M, r, k, 0)
    <2>1. ASSUME NEW k \in Positive PROVE FuelAt(M, r, k, 0)
        <3>1. CASE k = i
            BY <1>8, <3>1 DEF FuelAt
        <3>2. CASE k # i
            BY <1>1, <1>9, <3>2 DEF FuelAt
        <3> QED BY <3>1, <3>2
    <2> QED BY <2>1
<1>13. Laid(w, e2, c2, r, PS, T)
    BY <1>8, <1>10, <1>11 DEF Laid, M
<1>14. SameBut(w, t)
    BY <1>4, <1>8 DEF PushStep, SameBut
<1> QED BY <1>12, <1>13, <1>14 DEF Spined, M, e2

(* What a batch does to the trace: its part ends the ids at e2.            *)
Grown(u, t, part) ==
    /\ u.since = t.since /\ u.upper = part.upper /\ u.nextId = t.nextId + 1

(* insert: whatever the spine looks like, a batch that continues it is     *)
(* taken in without a panic.                                               *)
LEMMA PushBatchOK ==
    ASSUME NEW T, NEW PS, Times(T), GoodParts(PS, T), NEW t, NEW e, Spined(t, e, PS, T),
           NEW part \in PS, part.id[1] = e, part.since <= t.since
    PROVE  Spined(PushBatch(t, part), part.id[2], PS, T) /\ Grown(PushBatch(t, part), t, part)
<1> DEFINE v == [t EXCEPT !.nextId = @ + 1, !.upper = part.upper]
           b == Merged(part)
           used == {i \in 1 .. Len(v.layers) : ~IsVacant(v.layers[i])}
           first == Min(used)
           fuse == /\ b.len = 0 /\ used # {} /\ IsSingle(v.layers[first]) /\ LayerLen(v.layers[first]) = 0
           w == PushBatch(t, part)
<1>1. t \in Trace /\ t.nextId \in Nat /\ t.panicked = FALSE /\ t.reqs \subseteq ReqsOf(BatchesOf(PS, T))
    BY DEF Spined, Laid, Good, Trace
<1>2. part \in Part
    BY DEF GoodParts
<1>3. /\ v \in Trace /\ v.layers = t.layers /\ v.since = t.since /\ v.panicked = t.panicked /\ v.reqs = t.reqs
      /\ v.upper = part.upper /\ v.nextId = t.nextId + 1
    <2> DEFINE a == part.upper
    <2>1. a \in Nat
        BY <1>2, PartFields
    <2> HIDE DEF a
    <2> DEFINE x == [t EXCEPT !.nextId = @ + 1]
               y == [x EXCEPT !.upper = a]
    <2>2. v = y
        BY <1>1 DEF Trace, a
    <2> HIDE DEF v
    <2>4. /\ x \in Trace /\ x.layers = t.layers /\ x.since = t.since /\ x.panicked = t.panicked
          /\ x.reqs = t.reqs /\ x.nextId = t.nextId + 1
        BY <1>1 DEF Trace
    <2> HIDE DEF x
    <2>3. /\ y \in Trace /\ y.layers = t.layers /\ y.since = t.since /\ y.panicked = t.panicked
          /\ y.reqs = t.reqs /\ y.upper = a /\ y.nextId = t.nextId + 1
        BY <2>1, <2>4 DEF Trace
    <2> HIDE DEF y
    <2> QED BY <2>2, <2>3 DEF a
<1>4. Spined(v, e, PS, T)
    <2>1. t.since <= v.since
        BY <1>1, <1>3 DEF Trace
    <2> HIDE DEF v
    <2>2. v.panicked = FALSE /\ v.reqs \subseteq ReqsOf(BatchesOf(PS, T)) /\ BatchesOf(PS, T) \subseteq BatchesOf(PS, T)
        BY <1>1, <1>3
    <2> QED BY <1>3, <2>1, <2>2, SpinedFrom
<1>5. /\ b \in BatchesOf(PS, T) /\ b.id = part.id /\ b.since = part.since /\ b.len = part.len
    BY MergedOK
<1>6. w = IF fuse THEN The({CompleteInto(u, first, first) : u \in {PushAt(v, b, first)}})
                  ELSE Introduce(v, b, LevelOf(b.len))
    BY DEF PushBatch
<1>7. SUFFICES Spined(w, b.id[2], PS, T) /\ SameBut(w, v)
    BY <1>3, <1>5 DEF Grown, SameBut
<1> HIDE DEF v, b, w
<1>8. ASSUME fuse PROVE Spined(w, b.id[2], PS, T) /\ SameBut(w, v)
    <2> DEFINE Q == {CompleteInto(u, first, first) : u \in {PushAt(v, b, first)}}
    <2>1. PICK c, r : Laid(v, e, c, r, PS, T)
        BY <1>4 DEF Spined
    <2>2. v.layers \in Seq(Layer) /\ Len(v.layers) \in Nat
        BY <1>3 DEF Trace
    <2>3. first \in used /\ \A k \in used : first <= k
        <3>1. used \in SUBSET Nat /\ used # {}
            BY <1>8, <2>2
        <3> HIDE DEF used
        <3> QED BY <3>1, MinOf
    <2> HIDE DEF first
    <2>4. first \in 1 .. Len(v.layers) /\ first \in Positive
        BY <2>2, <2>3 DEF Positive
    <2>5. \A i \in 1 .. Len(v.layers) : Lay(v)[i] = v.layers[i] /\ i \in Positive
        BY <2>2 DEF Lay, At, Positive
    <2>6. ASSUME NEW j \in Positive, j < first PROVE Num(Lay(v)[j]) = 0
        <3>1. j \in 1 .. Len(v.layers) /\ ~(first <= j)
            BY <2>2, <2>4, <2>6 DEF Positive
        <3>2. IsVacant(v.layers[j])
            BY <2>3, <3>1
        <3> QED BY <2>5, <3>1, <3>2 DEF IsVacant, Num
    <2>7. Num(Lay(v)[first]) = 1 /\ LayerLen(Lay(v)[first]) = 0
        <3>1. IsSingle(v.layers[first]) /\ LayerLen(v.layers[first]) = 0
            BY <1>8
        <3> QED BY <2>4, <2>5, <3>1 DEF IsSingle, Num
    <2>8. w = CompleteInto(PushAt(v, b, first), first, first)
        <3>1. Q = {CompleteInto(PushAt(v, b, first), first, first)}
            OBVIOUS
        <3>2. w = The(Q)
            BY <1>6, <1>8
        <3> HIDE DEF Q
        <3> QED BY <3>1, <3>2, TheOf
    <2>9. b.id[1] = e /\ b.since <= v.since /\ b.len = 0 /\ b \in BatchesOf(PS, T)
        BY <1>3, <1>5, <1>8
    <2> QED BY <1>4, <2>4, <2>6, <2>7, <2>8, <2>9, FuseOK
<1>9. ASSUME ~fuse PROVE Spined(w, b.id[2], PS, T) /\ SameBut(w, v)
    <2>1. b.id[1] = e /\ b.since <= v.since /\ b \in BatchesOf(PS, T) /\ b.len \in Nat
        BY <1>2, <1>3, <1>5, PartFields
    <2>2. LevelOf(b.len) \in Nat /\ b.len <= Pow2[LevelOf(b.len)]
        BY <2>1, LevelOfFits
    <2>3. w = Introduce(v, b, LevelOf(b.len))
        BY <1>6, <1>9
    <2> QED BY <1>4, <2>1, <2>2, <2>3, IntroduceOK
<1> QED BY <1>8, <1>9

(* Forced work: fuel, or an empty batch at the upper.                      *)
LEMMA ExertOK ==
    ASSUME NEW T, NEW PS, Times(T), GoodParts(PS, T), NEW t, NEW e, Spined(t, e, PS, T),
           NEW effort \in Nat, t.nextId = e,
           NEW PS2, GoodParts(PS2, T), BatchesOf(PS, T) \subseteq BatchesOf(PS2, T),
           EmptyPart(<<e, e + 1>>, t.upper, t.upper, t.since, {}) \in PS2,
           NEW w, w = Exert(t, effort)
    PROVE  /\ w.since = t.since /\ w.upper = t.upper
           /\ \/ w.nextId = e /\ Spined(w, e, PS, T)
              \/ w.nextId = e + 1 /\ Spined(w, e + 1, PS2, T)
<1> DEFINE v == TidyLayers(t)
           fake == Merged(EmptyPart(<<v.nextId, v.nextId + 1>>, v.upper, v.upper, v.since, {}))
           merging == \E i \in 1 .. Len(v.layers) : v.layers[i].merge # <<>>
           z == [v EXCEPT !.nextId = @ + 1]
<1>1. Spined(v, e, PS, T) /\ SameBut(v, t)
    BY TidyOK
<1>2. w = IF merging THEN ApplyFuel(v, effort) ELSE Introduce(z, fake, LevelOf(effort))
    BY DEF Exert
<1> HIDE DEF v
<1>3. v \in Trace /\ v.nextId = e /\ v.upper = t.upper /\ v.since = t.since /\ v.panicked = FALSE
      /\ v.reqs \subseteq ReqsOf(BatchesOf(PS, T)) /\ e \in Nat
    BY <1>1 DEF Spined, Laid, Good, SameBut, Trace
<1>4. CASE merging
    <2>1. w = ApplyFuel(v, effort)
        BY <1>2, <1>4
    <2>2. PICK cut0, rec0 : /\ Laid(v, e, cut0, rec0, PS, T)
                            /\ \A k \in Positive : FuelAt(Lay(v), rec0, k, 0)
        BY <1>1 DEF Spined
    <2>3. Fuelled(w, v, Len(v.layers), effort, e, PS, T)
        BY <2>1, <2>2, ApplyFuelOK
    <2>4. PICK cut, rec :
            /\ Laid(w, e, cut, rec, PS, T) /\ SameBut(w, v)
            /\ \A k \in Positive : FuelAt(Lay(w), rec, k, IF k <= Len(v.layers) THEN effort ELSE 0)
        BY <2>3 DEF Fuelled
    <2>5. ASSUME NEW k \in Positive PROVE FuelAt(Lay(w), rec, k, 0)
        <3>1. CASE k <= Len(v.layers)
            <4>1. SUFFICES ASSUME Num(Lay(w)[k]) = 2
                  PROVE rec[k - 1] < Pow2[k - 1] /\ Work(Lay(w)[k]) + 0 <= 4 * (Pow2[k - 1] - rec[k - 1])
                BY DEF FuelAt
            <4>2. rec[k - 1] < Pow2[k - 1] /\ Work(Lay(w)[k]) + effort <= 4 * (Pow2[k - 1] - rec[k - 1])
                BY <2>4, <3>1, <4>1 DEF FuelAt
            <4>3. Work(Lay(w)[k]) \in Nat /\ rec[k - 1] \in Nat /\ Pow2[k - 1] \in Nat
                BY <2>4, <4>1, WorkNat, LaidAt, PositiveFacts
            <4> QED BY <4>2, <4>3
        <3>2. CASE ~(k <= Len(v.layers))
            BY <2>4, <3>2
        <3> QED BY <3>1, <3>2
    <2>6. Spined(w, e, PS, T)
        BY <2>4, <2>5 DEF Spined
    <2> QED BY <1>3, <2>4, <2>6 DEF SameBut
<1>5. CASE ~merging
    <2>1. /\ z \in Trace /\ z.layers = v.layers /\ z.since = v.since /\ z.panicked = v.panicked /\ z.reqs = v.reqs
          /\ z.upper = v.upper /\ z.nextId = v.nextId + 1
        BY <1>3 DEF Trace
    <2> HIDE DEF z
    <2>2. Spined(z, e, PS2, T)
        <3>1. v.since <= z.since
            BY <1>3, <2>1 DEF Trace
        <3>2. z.panicked = FALSE /\ z.reqs \subseteq ReqsOf(BatchesOf(PS2, T))
            BY <1>3, <2>1 DEF ReqsOf
        <3> QED BY <1>1, <2>1, <3>1, <3>2, SpinedFrom
    <2> DEFINE p == EmptyPart(<<e, e + 1>>, t.upper, t.upper, t.since, {})
    <2>3. fake = Merged(p)
        BY <1>3
    <2>4. p.id[1] = e /\ p.id[2] = e + 1 /\ p.since = t.since /\ p.len = 0
        BY DEF EmptyPart
    <2> HIDE DEF p, fake
    <2>5. fake \in BatchesOf(PS2, T) /\ fake.id = p.id /\ fake.since = p.since /\ fake.len = p.len
        BY <2>3, MergedOK DEF p
    <2>6. LevelOf(effort) \in Nat /\ Pow2[LevelOf(effort)] \in Nat
        BY LevelOfFits, Pow2Def
    <2>7. fake.id[1] = e /\ fake.since <= z.since /\ fake.len <= Pow2[LevelOf(effort)]
        <3>1. t.since \in Nat
            BY <1>3 DEF Trace
        <3> QED BY <1>3, <2>1, <2>4, <2>5, <2>6, <3>1
    <2>8. w = Introduce(z, fake, LevelOf(effort))
        BY <1>2, <1>5 DEF z, fake
    <2>9. Spined(w, fake.id[2], PS2, T) /\ SameBut(w, z)
        BY <2>2, <2>5, <2>6, <2>7, <2>8, IntroduceOK
    <2>10. w.nextId = e + 1 /\ fake.id[2] = e + 1
        BY <1>3, <2>1, <2>4, <2>5, <2>9 DEF SameBut
    <2> QED BY <1>3, <2>1, <2>9, <2>10 DEF SameBut
<1> QED BY <1>4, <1>5

-----------------------------------------------------------------------------
(* Replacing parts of a batch.                                             *)

(* Parts whose ids are spans follow each other in a chain.                 *)
Spans(PS) == PS \subseteq Part /\ \A p \in PS : p.id[1] <= p.id[2]

(* Later parts of a chain have later ids.                                  *)
LEMMA SpansGrow ==
    ASSUME NEW PS, Spans(PS), NEW s \in Seq(PS), Chained(s), NEW a \in 1 .. Len(s)
    PROVE  \A j \in 1 .. Len(s) : a < j => s[a].id[2] <= s[j].id[1]
<1> DEFINE n == Len(s)
           S == {k \in Nat : a + (k + 1) <= n => s[a].id[2] <= s[a + (k + 1)].id[1]}
<1>1. n \in Nat /\ a \in Nat
    OBVIOUS
<1>2. \A i \in 1 .. n : /\ s[i].id[1] \in Nat /\ s[i].id[2] \in Nat /\ s[i].id[1] <= s[i].id[2]
    <2>1. ASSUME NEW i \in 1 .. n PROVE s[i].id[1] \in Nat /\ s[i].id[2] \in Nat /\ s[i].id[1] <= s[i].id[2]
        <3>1. s[i] \in PS
            OBVIOUS
        <3>2. s[i] \in Part /\ s[i].id[1] <= s[i].id[2]
            BY <3>1 DEF Spans
        <3> QED BY <3>2, PartFields
    <2> QED BY <2>1
<1>3. \A i \in 2 .. n : s[i].id[1] = s[i - 1].id[2]
    BY DEF Chained
<1> HIDE DEF n
<1>4. 0 \in S
    <2>1. SUFFICES ASSUME a + 1 <= n PROVE s[a].id[2] <= s[a + 1].id[1]
        OBVIOUS
    <2>2. a + 1 \in 2 .. n /\ (a + 1) - 1 = a /\ a \in 1 .. n
        BY <1>1, <2>1 DEF n
    <2>3. s[a + 1].id[1] = s[a].id[2]
        BY <1>3, <2>2
    <2>4. s[a].id[2] \in Nat
        BY <1>2, <2>2
    <2> QED BY <2>3, <2>4
<1>5. ASSUME NEW k \in Nat, k \in S PROVE k + 1 \in S
    <2> DEFINE j == a + (k + 1)
               h == a + ((k + 1) + 1)
    <2>1. SUFFICES ASSUME h <= n PROVE s[a].id[2] <= s[h].id[1]
        OBVIOUS
    <2>2. j \in 1 .. n /\ h \in 2 .. n /\ h - 1 = j /\ a \in 1 .. n
        BY <1>1, <2>1 DEF n
    <2>3. s[a].id[2] <= s[j].id[1]
        BY <1>5, <2>2
    <2> HIDE DEF j, h
    <2>4. s[h].id[1] = s[j].id[2]
        BY <1>3, <2>2
    <2>5. s[a].id[2] \in Nat /\ s[j].id[1] \in Nat /\ s[j].id[2] \in Nat /\ s[j].id[1] <= s[j].id[2]
        BY <1>2, <2>2
    <2> QED BY <2>3, <2>4, <2>5
<1>6. Nat \subseteq S
    <2> HIDE DEF S
    <2> QED BY <1>4, <1>5, InductionNat
<1>7. ASSUME NEW j \in 1 .. n, a < j PROVE s[a].id[2] <= s[j].id[1]
    <2>1. j - a - 1 \in Nat /\ a + ((j - a - 1) + 1) = j
        BY <1>1, <1>7
    <2>2. j - a - 1 \in S
        BY <1>6, <2>1
    <2> QED BY <1>1, <2>1, <2>2
<1> QED BY <1>7 DEF n

(* The same for good parts.                                                *)
LEMMA IdsGrow ==
    ASSUME NEW T, NEW PS, GoodParts(PS, T), NEW s \in Seq(PS), Chained(s), NEW a \in 1 .. Len(s)
    PROVE  \A j \in 1 .. Len(s) : a < j => s[a].id[2] <= s[j].id[1]
<1>1. Spans(PS)
    BY DEF GoodParts, Spans
<1> QED BY <1>1, SpansGrow

(* Some part of a chain covers an id within it.                            *)
LEMMA ChainCovers ==
    ASSUME NEW PS, Spans(PS), NEW s \in Seq(PS), s # <<>>, Chained(s),
           NEW w \in Nat, s[1].id[1] <= w, w < s[Len(s)].id[2]
    PROVE  \E i \in 1 .. Len(s) : s[i].id[1] <= w /\ w < s[i].id[2]
<1> DEFINE n == Len(s)
           S == {i \in 1 .. n : w < s[i].id[2]}
<1>1. n \in Nat /\ n >= 1 /\ n \in 1 .. n /\ 1 \in 1 .. n
    OBVIOUS
<1>2. \A i \in 1 .. n : s[i].id[2] \in Nat
    <2>1. \A i \in 1 .. n : s[i] \in Part
        BY DEF Spans
    <2> QED BY <2>1, PartFields
<1>3. S \in SUBSET Nat /\ S # {}
    BY <1>1
<1>4. PICK m \in S : \A k \in S : m <= k
    <2> HIDE DEF S
    <2> QED BY <1>3, LeastNat
<1>5. m \in 1 .. n /\ w < s[m].id[2]
    BY <1>4
<1>6. s[m].id[1] <= w
    <2>1. CASE m = 1
        BY <2>1
    <2>2. CASE m # 1
        <3>1. m \in 2 .. n /\ m - 1 \in 1 .. n /\ ~(m <= m - 1)
            BY <1>1, <1>5, <2>2
        <3>2. ~(w < s[m - 1].id[2])
            BY <1>4, <3>1
        <3>3. s[m].id[1] = s[m - 1].id[2]
            BY <3>1 DEF Chained
        <3>4. s[m - 1].id[2] \in Nat
            BY <1>2, <3>1
        <3> QED BY <3>2, <3>3, <3>4
    <2> QED BY <2>1, <2>2
<1> QED BY <1>5, <1>6

Splice(p, q, lo, hi) == SubSeq(p, 1, lo - 1) \o <<q>> \o SubSeq(p, hi + 1, Len(p))

(* The elements of a sequence of which some have been replaced by one.     *)
LEMMA Spliced ==
    ASSUME NEW X, NEW p \in Seq(X), NEW q \in X, NEW lo \in 1 .. Len(p), NEW hi \in 1 .. Len(p), lo <= hi
    PROVE  /\ Splice(p, q, lo, hi) \in Seq(X)
           /\ Len(Splice(p, q, lo, hi)) = Len(p) - (hi - lo)
           /\ \A i \in 1 .. Len(Splice(p, q, lo, hi)) :
                Splice(p, q, lo, hi)[i] = IF i < lo THEN p[i] ELSE IF i = lo THEN q ELSE p[i + (hi - lo)]
<1> DEFINE n == Len(p)
           A == SubSeq(p, 1, lo - 1)
           B == <<q>>
           C == SubSeq(p, hi + 1, n)
           D == A \o B
           Z == D \o C
<1>1. n \in Nat /\ lo \in Nat /\ hi \in Nat /\ lo >= 1 /\ hi <= n /\ hi >= 1
    OBVIOUS
<1>2. A \in Seq(X) /\ Len(A) = lo - 1 /\ \A i \in 1 .. (lo - 1) : A[i] = p[i]
    <2>1. 1 \in 1 .. (n + 1) /\ lo - 1 \in 0 .. n
        BY <1>1
    <2> QED BY <1>1, <2>1, SubSeqProperties
<1>3. C \in Seq(X) /\ Len(C) = n - hi /\ \A i \in 1 .. (n - hi) : C[i] = p[hi + i]
    <2>1. hi + 1 \in 1 .. (n + 1) /\ n \in 0 .. n
        BY <1>1
    <2>2. /\ C \in Seq(X)
          /\ Len(C) = IF hi + 1 <= n THEN n - (hi + 1) + 1 ELSE 0
          /\ \A i \in 1 .. n - (hi + 1) + 1 : C[i] = p[(hi + 1) + i - 1]
        BY <2>1, SubSeqProperties
    <2> HIDE DEF C
    <2>3. Len(C) = n - hi
        BY <1>1, <2>2
    <2>4. \A i \in 1 .. (n - hi) : (hi + 1) + i - 1 = hi + i /\ i \in 1 .. n - (hi + 1) + 1
        BY <1>1
    <2> QED BY <2>2, <2>3, <2>4
<1>4. B \in Seq(X) /\ Len(B) = 1 /\ B[1] = q
    BY Tuples
<1> HIDE DEF A, B, C, n
<1>5. /\ D \in Seq(X) /\ Len(D) = lo
      /\ \A i \in 1 .. lo : D[i] = IF i < lo THEN p[i] ELSE q
    <2>0. /\ D \in Seq(X) /\ Len(D) = Len(A) + Len(B)
          /\ \A i \in 1 .. Len(A) + Len(B) : D[i] = IF i <= Len(A) THEN A[i] ELSE B[i - Len(A)]
        BY <1>2, <1>4, ConcatProperties
    <2> HIDE DEF D
    <2>1. D \in Seq(X) /\ Len(D) = lo
        BY <1>1, <1>2, <1>4, <2>0
    <2>2. ASSUME NEW i \in 1 .. lo PROVE D[i] = IF i < lo THEN p[i] ELSE q
        <3>1. D[i] = IF i <= Len(A) THEN A[i] ELSE B[i - Len(A)]
            BY <1>1, <1>2, <1>4, <2>0
        <3>2. CASE i < lo
            BY <1>1, <1>2, <3>1, <3>2
        <3>3. CASE ~(i < lo)
            <4>1. i - (lo - 1) = 1 /\ ~(i <= lo - 1)
                BY <1>1, <3>3
            <4> QED BY <1>2, <1>4, <3>1, <3>3, <4>1
        <3> QED BY <3>2, <3>3
    <2> QED BY <2>1, <2>2
<1> HIDE DEF D
<1>6. /\ Z \in Seq(X) /\ Len(Z) = n - (hi - lo)
    <2>1. Z \in Seq(X) /\ Len(Z) = Len(D) + Len(C)
        BY <1>3, <1>5, ConcatProperties
    <2> HIDE DEF Z
    <2> QED BY <1>1, <1>3, <1>5, <2>1
<1>7. ASSUME NEW i \in 1 .. Len(Z)
      PROVE  Z[i] = IF i < lo THEN p[i] ELSE IF i = lo THEN q ELSE p[i + (hi - lo)]
    <2>0. i \in Nat /\ i >= 1 /\ i <= n - (hi - lo)
        BY <1>1, <1>6, <1>7
    <2>1. Z[i] = IF i <= Len(D) THEN D[i] ELSE C[i - Len(D)]
        <3>1. i \in 1 .. Len(D) + Len(C)
            BY <1>1, <1>3, <1>5, <2>0
        <3> QED BY <1>3, <1>5, <3>1
    <2>2. CASE i <= lo
        BY <1>1, <1>5, <2>0, <2>1, <2>2
    <2>3. CASE i > lo
        <3>1. i - lo \in 1 .. (n - hi) /\ hi + (i - lo) = i + (hi - lo) /\ ~(i <= lo) /\ ~(i < lo) /\ i # lo
            BY <1>1, <2>0, <2>3
        <3> QED BY <1>3, <1>5, <2>1, <3>1
    <2> QED BY <1>1, <2>0, <2>2, <2>3
<1>8. Z = Splice(p, q, lo, hi)
    BY DEF Splice, D, A, B, C, n
<1> HIDE DEF Z
<1> QED BY <1>6, <1>7, <1>8 DEF n

(* What may take the place of a batch.                                     *)
Replaced(o, b, PS, T) ==
    /\ o.result # "Panic"
    /\ o.batch \in BatchesOf(PS, T) /\ o.batch.id = b.id
    /\ o.batch.since <= b.since /\ o.batch.len <= b.len
    /\ o.batch = b \/ Applied(o)

(* A result that does not apply leaves the batch as it is.                 *)
LEMMA Kept ==
    ASSUME NEW T, NEW PS, NEW b \in BatchesOf(PS, T), NEW result, result # "Panic"
    PROVE  Replaced(Outcome(result, b), b, PS, T)
<1>1. b.since \in Nat /\ b.len \in Nat
    BY BatchFields DEF BatchesOf
<1> QED BY <1>1 DEF Replaced, Outcome

WithParts(b, ps) == [b EXCEPT !.parts = ps, !.len = SumLen(ps)]

(* A batch stays good when a part that spans some of its parts takes their *)
(* place.                                                                  *)
LEMMA SplicedBatch ==
    ASSUME NEW T, NEW PS, Times(T), GoodParts(PS, T), NEW b \in BatchesOf(PS, T),
           NEW lo \in 1 .. Len(b.parts), NEW hi \in 1 .. Len(b.parts), lo <= hi,
           NEW q \in PS, q.id = <<b.parts[lo].id[1], b.parts[hi].id[2]>>, q.since <= b.since,
           NEW ps, ps = Splice(b.parts, q, lo, hi),
           NEW new, new = WithParts(b, ps)
    PROVE  new \in BatchesOf(PS, T) /\ new.id = b.id /\ new.since = b.since
<1> DEFINE p == b.parts
           n == Len(p)
           k == Len(ps)
<1>1. /\ b \in Batch /\ p \in Seq(PS) /\ p # <<>> /\ Chained(p)
      /\ n \in Nat /\ n >= 1
      /\ \A i \in 1 .. n : p[i] \in PS /\ p[i].since <= b.since
      /\ b.id[1] = p[1].id[1] /\ b.id[2] = p[n].id[2]
      /\ b.id = <<b.id[1], b.id[2]>>
      /\ b.lower = T[b.id[1]] /\ b.upper = T[b.id[2]]
    BY BatchOKFields
<1>2. PS \in SUBSET Part /\ \A x \in PS : Timed(x, T)
    BY DEF GoodParts
<1> HIDE DEF p, n
<1>3. /\ ps \in Seq(PS) /\ k = n - (hi - lo)
      /\ \A i \in 1 .. k : ps[i] = IF i < lo THEN p[i] ELSE IF i = lo THEN q ELSE p[i + (hi - lo)]
    <2>1. p \in Seq(PS) /\ lo \in 1 .. Len(p) /\ hi \in 1 .. Len(p)
        BY <1>1 DEF p
    <2> HIDE DEF k
    <2>2. /\ Splice(p, q, lo, hi) \in Seq(PS)
          /\ Len(Splice(p, q, lo, hi)) = Len(p) - (hi - lo)
          /\ \A i \in 1 .. Len(Splice(p, q, lo, hi)) :
                Splice(p, q, lo, hi)[i] = IF i < lo THEN p[i] ELSE IF i = lo THEN q ELSE p[i + (hi - lo)]
        BY <2>1, Spliced
    <2>3. ps = Splice(p, q, lo, hi)
        BY DEF p
    <2> QED BY <2>2, <2>3 DEF k, n
<1>4. lo \in Nat /\ hi \in Nat /\ lo >= 1 /\ hi <= n /\ lo <= hi /\ hi \in 1 .. n /\ lo \in 1 .. n
    BY <1>1 DEF n, p
<1>5. k \in Nat /\ k >= 1 /\ lo \in 1 .. k /\ 1 \in 1 .. k /\ k \in 1 .. k
    BY <1>1, <1>3, <1>4
<1>14. k = n - (hi - lo) /\ \A i \in 1 .. k : i \in Nat /\ 1 <= i /\ i <= k
    BY <1>3, <1>5
<1> HIDE DEF k
<1>6. q \in Part /\ q.id[1] = p[lo].id[1] /\ q.id[2] = p[hi].id[2]
    BY <1>2 DEF p
<1>7. \A x \in PS : x.lower = T[x.id[1]] /\ x.upper = T[x.id[2]]
    BY <1>2 DEF Timed
<1>8. Chained(ps)
    <2>1. SUFFICES ASSUME NEW i \in 2 .. k PROVE ps[i].id[1] = ps[i - 1].id[2] /\ ps[i].lower = ps[i - 1].upper
        BY DEF Chained, k
    <2>2. i \in 1 .. k /\ i - 1 \in 1 .. k /\ i \in Nat
        BY <1>5
    <2>3. \A j \in 2 .. n : p[j].id[1] = p[j - 1].id[2]
        BY <1>1 DEF Chained, n
    <2>4. ps[i].id[1] = ps[i - 1].id[2]
        <3>1. CASE i < lo
            <4>1. i \in 2 .. n /\ i - 1 < lo
                BY <1>1, <1>4, <2>2, <3>1
            <4>2. ps[i] = p[i] /\ ps[i - 1] = p[i - 1]
                BY <1>3, <2>2, <3>1, <4>1
            <4> QED BY <2>3, <4>1, <4>2
        <3>2. CASE i = lo
            <4>1. lo \in 2 .. n /\ lo - 1 < lo /\ ~(lo < lo)
                BY <1>1, <1>4, <3>2
            <4>2. ps[i] = q /\ ps[i - 1] = p[lo - 1]
                BY <1>3, <2>2, <3>2, <4>1
            <4>3. p[lo].id[1] = p[lo - 1].id[2]
                BY <2>3, <4>1
            <4> QED BY <1>6, <4>2, <4>3
        <3>3. CASE i = lo + 1
            <4>1. ~(i < lo) /\ i # lo /\ i - 1 = lo /\ ~(lo < lo) /\ i + (hi - lo) = hi + 1 /\ hi + 1 \in 2 .. n
                  /\ (hi + 1) - 1 = hi
                <5>1. i <= k /\ k = n - (hi - lo) /\ n \in Nat
                    BY <1>1, <1>14, <2>2
                <5>2. lo + 1 <= k
                    BY <3>3, <5>1
                <5>3. hi + 1 <= n
                    BY <1>4, <5>1, <5>2
                <5>4. ~(i < lo) /\ i # lo /\ i - 1 = lo /\ ~(lo < lo)
                    BY <1>4, <3>3
                <5>5. i + (hi - lo) = hi + 1 /\ (hi + 1) - 1 = hi
                    BY <1>4, <3>3
                <5>6. hi + 1 \in 2 .. n
                    BY <1>4, <5>1, <5>3
                <5> QED BY <5>4, <5>5, <5>6
            <4>2. ps[i] = p[hi + 1]
                BY <1>3, <2>2, <4>1
            <4>3. ps[i - 1] = q
                BY <1>3, <2>2, <4>1
            <4>4. p[hi + 1].id[1] = p[hi].id[2]
                BY <2>3, <4>1
            <4> QED BY <1>6, <4>2, <4>3, <4>4
        <3>4. CASE i > lo + 1
            <4> DEFINE d == hi - lo
            <4>1. ~(i < lo) /\ i # lo /\ ~(i - 1 < lo) /\ i - 1 # lo /\ (i - 1) + d = (i + d) - 1 /\ i + d \in 2 .. n
                <5>1. i <= k /\ k = n - (hi - lo) /\ n \in Nat
                    BY <1>1, <1>14, <2>2
                <5>2. i + d <= n
                    BY <1>4, <2>2, <5>1
                <5>3. ~(i < lo) /\ i # lo /\ ~(i - 1 < lo) /\ i - 1 # lo
                    BY <1>4, <2>2, <3>4
                <5>4. (i - 1) + d = (i + d) - 1
                    BY <1>4, <2>2
                <5>5. i + d \in 2 .. n
                    BY <1>4, <2>2, <3>4, <5>1, <5>2
                <5> QED BY <5>3, <5>4, <5>5
            <4>2. ps[i] = p[i + d] /\ ps[i - 1] = p[(i - 1) + d]
                BY <1>3, <2>2, <4>1
            <4> HIDE DEF d
            <4> QED BY <2>3, <4>1, <4>2
        <3> QED BY <1>4, <2>2, <3>1, <3>2, <3>3, <3>4
    <2>5. ps[i] \in PS /\ ps[i - 1] \in PS
        <3>1. ps \in Seq(PS) /\ i \in 1 .. Len(ps) /\ i - 1 \in 1 .. Len(ps)
            BY <1>3, <2>2 DEF k
        <3> QED BY <3>1, ElementOfSeq
    <2> QED BY <1>7, <2>4, <2>5
<1>9. ps[1].id[1] = b.id[1] /\ ps[k].id[2] = b.id[2]
    <2>1. ps[1].id[1] = b.id[1]
        <3>1. CASE lo = 1
            <4>1. ps[1] = q
                BY <1>3, <1>5, <3>1
            <4> QED BY <1>1, <1>6, <3>1, <4>1
        <3>2. CASE lo # 1
            <4>1. ps[1] = p[1]
                BY <1>3, <1>4, <1>5, <3>2
            <4> QED BY <1>1, <4>1
        <3> QED BY <3>1, <3>2
    <2>2. ps[k].id[2] = b.id[2]
        <3>1. CASE hi = n
            <4>1. k = lo
                BY <1>1, <1>3, <1>4, <3>1
            <4>2. ps[k] = q
                BY <1>3, <1>4, <1>5, <4>1
            <4> QED BY <1>1, <1>6, <3>1, <4>2
        <3>2. CASE hi # n
            <4>1. ~(k < lo) /\ k # lo /\ k + (hi - lo) = n
                BY <1>1, <1>3, <1>4, <3>2
            <4>2. ps[k] = p[n]
                BY <1>3, <1>5, <4>1
            <4> QED BY <1>1, <4>2
        <3> QED BY <3>1, <3>2
    <2> QED BY <2>1, <2>2
<1>10. \A i \in 1 .. k : ps[i].since <= b.since
    <2>1. SUFFICES ASSUME NEW i \in 1 .. k PROVE ps[i].since <= b.since
        OBVIOUS
    <2>2. ps[i] = q \/ \E j \in 1 .. n : ps[i] = p[j]
        <3>1. ps[i] = IF i < lo THEN p[i] ELSE IF i = lo THEN q ELSE p[i + (hi - lo)]
            BY <1>3
        <3>2. i < lo => i \in 1 .. n
            BY <1>1, <1>4
        <3>3. ~(i < lo) /\ i # lo => i + (hi - lo) \in 1 .. n
            <4>1. i \in Nat /\ i <= k /\ k = n - (hi - lo) /\ n \in Nat
                BY <1>1, <1>14
            <4> QED BY <1>4, <4>1, SMTT(40)
        <3> QED BY <3>1, <3>2, <3>3
    <2> QED BY <1>1, <2>2
<1>11. SumLen(ps) \in Nat /\ ps \in Seq(Part) /\ ps # <<>>
    <2>1. ps \in Seq(Part) /\ HasLens(ps)
        BY <1>2, <1>3, SeqOfParts
    <2>2. ps # <<>>
        BY <1>3, <1>5, EmptySeq DEF k
    <2> QED BY <2>1, <2>2, SumLenNat
<1>12. /\ new \in Batch /\ new.parts = ps /\ new.len = SumLen(ps) /\ new.id = b.id /\ new.since = b.since
       /\ new.lower = b.lower /\ new.upper = b.upper
    <2> DEFINE z == SumLen(ps)
               x == [b EXCEPT !.parts = ps]
               y == [x EXCEPT !.len = z]
    <2>1. z \in Nat /\ ps \in Seq(Part)
        BY <1>11
    <2>2. new = y
        BY <1>1 DEF Batch, WithParts
    <2> HIDE DEF z
    <2>3. /\ x \in Batch /\ x.parts = ps /\ x.id = b.id /\ x.since = b.since
          /\ x.lower = b.lower /\ x.upper = b.upper
        BY <1>1, <2>1 DEF Batch
    <2> HIDE DEF x
    <2>4. /\ y \in Batch /\ y.parts = ps /\ y.len = z /\ y.id = b.id /\ y.since = b.since
          /\ y.lower = b.lower /\ y.upper = b.upper
        BY <2>1, <2>3 DEF Batch
    <2> HIDE DEF y
    <2> QED BY <2>2, <2>4 DEF z
<1>13. BatchOK(new, PS, T)
    <2>1. new.parts \in Seq(PS) /\ new.parts # <<>> /\ Chained(new.parts) /\ Len(new.parts) = k
        BY <1>3, <1>8, <1>11, <1>12 DEF k
    <2>2. new.id = <<new.parts[1].id[1], new.parts[Len(new.parts)].id[2]>>
        BY <1>1, <1>9, <1>12, <2>1
    <2>3. Timed(new, T)
        BY <1>1, <1>12 DEF Timed
    <2>4. \A i \in 1 .. Len(new.parts) : new.parts[i].since <= new.since
        BY <1>10, <1>12, <2>1
    <2> QED BY <1>12, <2>1, <2>2, <2>3, <2>4 DEF BatchOK
<1> QED BY <1>12, <1>13 DEF BatchesOf

(* perform_subset_replacement: an output that would make the batch longer  *)
(* is refused.                                                             *)
LEMMA ReplacePartsOK ==
    ASSUME NEW T, NEW PS, Times(T), GoodParts(PS, T), NEW b \in BatchesOf(PS, T),
           NEW lo \in 1 .. Len(b.parts), NEW hi \in 1 .. Len(b.parts), lo <= hi,
           NEW output, NEW id, WithId(id, output) \in PS,
           id = <<b.parts[lo].id[1], b.parts[hi].id[2]>>, output.since <= b.since
    PROVE  Replaced(ReplaceParts(b, output, id, lo, hi), b, PS, T)
<1> DEFINE q == WithId(id, output)
           ps == Splice(b.parts, q, lo, hi)
           new == WithParts(b, ps)
           o == ReplaceParts(b, output, id, lo, hi)
<1>1. q.id = id /\ q.since = output.since /\ q \in PS
    BY DEF WithId
<1> HIDE DEF q
<1>2. /\ new \in BatchesOf(PS, T) /\ new.id = b.id /\ new.since = b.since
    <2>1. ps = Splice(b.parts, q, lo, hi) /\ new = WithParts(b, ps)
        OBVIOUS
    <2>2. q \in PS /\ q.id = <<b.parts[lo].id[1], b.parts[hi].id[2]>> /\ q.since <= b.since
        BY <1>1
    <2> HIDE DEF ps, new
    <2> QED BY <2>1, <2>2, SplicedBatch
<1>3. o = CASE new.len > b.len -> Outcome("TooManyUpdates", b)
            [] new.len <= b.len /\ hi + 1 - lo = Len(b.parts) -> Outcome("AppliedExact", new)
            [] OTHER -> Outcome("AppliedSubset", new)
    BY DEF ReplaceParts, Splice, WithParts, q
<1> HIDE DEF ps, new, o
<1>4. b.len \in Nat /\ new.len \in Nat /\ b.since \in Nat
    BY <1>2, BatchFields DEF BatchesOf
<1>5. \/ o = Outcome("TooManyUpdates", b)
      \/ new.len <= b.len /\ (o = Outcome("AppliedExact", new) \/ o = Outcome("AppliedSubset", new))
    BY <1>3, <1>4
<1>6. CASE o = Outcome("TooManyUpdates", b)
    BY <1>6, Kept DEF o
<1>7. CASE new.len <= b.len /\ (o = Outcome("AppliedExact", new) \/ o = Outcome("AppliedSubset", new))
    <2>1. o.batch = new /\ o.result # "Panic"
        BY <1>7 DEF Outcome
    <2>3. Applied(o)
        BY <1>7 DEF Outcome, Applied
    <2>2. Replaced(o, b, PS, T)
        BY <1>2, <1>4, <1>7, <2>1, <2>3 DEF Replaced
    <2> QED BY <2>2 DEF o
<1> QED BY <1>5, <1>6, <1>7

-----------------------------------------------------------------------------
(* The three ways to apply a result of compaction.                         *)

(* What a result of compaction has to be for the batches over PS and T.    *)
Combined(p, res) ==
    [res.output EXCEPT !.runs = (p.runs \ {r \in p.runs : r.id \in res.input.runs}) \cup @,
                       !.gone = p.gone \cup @]

RangeResOK(res, PS) == WithId(res.input.id, res.output) \in PS

RunsResOK(res, PS) ==
    \A p \in PS : p.id = res.input.id =>
      /\ res.output.lower = p.lower /\ res.output.upper = p.upper
      /\ res.input.runs = {r.id : r \in {q \in p.runs : q.id \in res.input.runs}}
           => WithId(p.id, Combined(p, res)) \in PS

LegacyResOK(res, PS) ==
    /\ res.output.lower < res.output.upper
    /\ \A p, q \in PS :
         /\ p.id[1] <= q.id[2]
         /\ p.lower = res.output.lower /\ q.upper = res.output.upper
         => WithId(<<p.id[1], q.id[2]>>, res.output) \in PS

ResOK(res, PS) ==
    /\ res.output.lower \in Nat /\ res.output.upper \in Nat /\ res.output.since \in Nat
    /\ \A p : Combined(p, res).since = res.output.since
    /\ CASE res.input.kind = "IdRange" -> RangeResOK(res, PS)
         [] res.input.kind = "PartialBatch" -> RunsResOK(res, PS)
         [] OTHER -> LegacyResOK(res, PS)

(* The ids of a batch are a span.                                          *)
LEMMA BatchSpan ==
    ASSUME NEW T, NEW PS, GoodParts(PS, T), NEW b \in BatchesOf(PS, T)
    PROVE  b.id[1] \in Nat /\ b.id[2] \in Nat /\ b.id[1] <= b.id[2]
<1> DEFINE p == b.parts
           n == Len(p)
<1>1. /\ n \in Nat /\ n >= 1 /\ p \in Seq(PS) /\ Chained(p) /\ \A i \in 1 .. n : p[i] \in PS
      /\ b.id[1] = p[1].id[1] /\ b.id[2] = p[n].id[2]
    BY BatchOKFields
<1> HIDE DEF p
<1>2. 1 \in 1 .. n /\ n \in 1 .. n
    BY <1>1
<1>3. p[1] \in PS /\ p[n] \in PS
    BY <1>1, <1>2
<1>4. ASSUME NEW x \in PS PROVE x.id[1] \in Nat /\ x.id[2] \in Nat /\ x.id[1] <= x.id[2]
    BY PartFields DEF GoodParts
<1>5. CASE n = 1
    <2>1. p[1].id[1] \in Nat /\ p[1].id[2] \in Nat /\ p[1].id[1] <= p[1].id[2]
        BY <1>3, <1>4
    <2>2. b.id[2] = p[1].id[2]
        BY <1>1, <1>5
    <2>3. b.id[1] = p[1].id[1]
        BY <1>1
    <2> QED BY <2>1, <2>2, <2>3, Zenon
<1>6. CASE n > 1
    <2>1. p[1].id[2] <= p[n].id[1]
        BY <1>1, <1>2, <1>6, IdsGrow
    <2>2. /\ p[1].id[1] \in Nat /\ p[1].id[2] \in Nat /\ p[1].id[1] <= p[1].id[2]
          /\ p[n].id[1] \in Nat /\ p[n].id[2] \in Nat /\ p[n].id[1] <= p[n].id[2]
        BY <1>3, <1>4
    <2> QED BY <1>1, <2>1, <2>2
<1>7. n = 1 \/ n > 1
    <2> HIDE DEF n
    <2> QED BY <1>1
<1> QED BY <1>5, <1>6, <1>7

(* handle_id_range_replacement yields a good batch, or the same one.       *)
LEMMA ReplaceIdRangeOK ==
    ASSUME NEW T, NEW PS, Times(T), GoodParts(PS, T), NEW b \in BatchesOf(PS, T),
           NEW res, RangeResOK(res, PS), res.output.since <= b.since
    PROVE  Replaced(ReplaceIdRange(b, res), b, PS, T)
<1> DEFINE in == {i \in 1 .. Len(b.parts) : Covers(res.input.id, b.parts[i].id)}
<1>1. Len(b.parts) \in Nat
    BY BatchOKFields
<1>2. CASE in # {} /\ res.input.id = <<b.parts[Min(in)].id[1], b.parts[Max(in)].id[2]>>
    <2>1. Min(in) \in in /\ Max(in) \in in /\ Min(in) <= Max(in)
        <3>0. \A i \in 1 .. Len(b.parts) : i \in Nat /\ i \in 0 .. Len(b.parts)
            BY <1>1
        <3>1. in \in SUBSET Nat /\ in \in SUBSET (0 .. Len(b.parts)) /\ in # {}
            BY <1>2, <3>0
        <3> HIDE DEF in
        <3>2. Min(in) \in in /\ \A k \in in : Min(in) <= k
            BY <3>1, MinOf
        <3>3. Max(in) \in in
            BY <1>1, <3>1, MaxOf
        <3> QED BY <3>2, <3>3
    <2> DEFINE lo == Min(in)
               hi == Max(in)
    <2>2. lo \in 1 .. Len(b.parts) /\ hi \in 1 .. Len(b.parts) /\ lo <= hi
        BY <2>1
    <2>3. res.input.id = <<b.parts[lo].id[1], b.parts[hi].id[2]>> /\ WithId(res.input.id, res.output) \in PS
        BY <1>2 DEF RangeResOK
    <2>4. ReplaceIdRange(b, res) = ReplaceParts(b, res.output, res.input.id, lo, hi)
        BY <1>2 DEF ReplaceIdRange
    <2> HIDE DEF lo, hi
    <2> QED BY <2>2, <2>3, <2>4, ReplacePartsOK
<1>3. CASE ~(in # {} /\ res.input.id = <<b.parts[Min(in)].id[1], b.parts[Max(in)].id[2]>>)
    <2>1. ReplaceIdRange(b, res) = Outcome("NoMatch", b)
        BY <1>3 DEF ReplaceIdRange
    <2> QED BY <2>1, Kept
<1> QED BY <1>2, <1>3

(* handle_partial_batch_replacement yields a good batch, or the same one,  *)
(* and its bounds agree.                                                   *)
LEMMA ReplaceRunsOK ==
    ASSUME NEW T, NEW PS, Times(T), GoodParts(PS, T), NEW b \in BatchesOf(PS, T),
           NEW res, RunsResOK(res, PS), res.output.since <= b.since,
           \A p : Combined(p, res).since = res.output.since
    PROVE  Replaced(ReplaceRuns(b, res), b, PS, T)
<1> DEFINE at == {i \in 1 .. Len(b.parts) : b.parts[i].id = res.input.id}
           i == Min(at)
           part == b.parts[i]
           old == {r \in part.runs : r.id \in res.input.runs}
           new == Combined(part, res)
           P1 == at = {} \/ res.input.runs = {}
           P2 == at # {} /\ \/ res.output.lower # part.lower
                            \/ res.output.upper # part.upper
           P3 == at # {} /\ res.output.since < part.since
           P4 == at # {} /\ res.input.runs # {r.id : r \in old}
           A5 == ReplaceParts(b, new, res.input.id, i, i)
           o == ReplaceRuns(b, res)
<1>1. Len(b.parts) \in Nat
    BY BatchOKFields
<1>2. o = CASE P1 -> Outcome("NoMatch", b) [] P2 -> Outcome("Panic", b)
            [] P3 -> Outcome("InvalidSince", b) [] P4 -> Outcome("NoMatch", b)
            [] OTHER -> A5
    BY DEF ReplaceRuns, Combined
<1>3. at # {} => /\ i \in 1 .. Len(b.parts) /\ part.id = res.input.id /\ part \in PS
    <2>1. SUFFICES ASSUME at # {} PROVE i \in at
        BY BatchOKFields
    <2>2. at \in SUBSET Nat
        BY <1>1
    <2> HIDE DEF at
    <2> QED BY <2>1, <2>2, MinOf
<1>4. ~P2
    BY <1>3 DEF RunsResOK
<1>5. ~P1 /\ ~P4 => Replaced(A5, b, PS, T)
    <2>1. SUFFICES ASSUME ~P1, ~P4 PROVE Replaced(A5, b, PS, T)
        OBVIOUS
    <2>2. i \in 1 .. Len(b.parts) /\ part.id = res.input.id /\ part \in PS
        BY <1>3, <2>1
    <2>3. WithId(part.id, new) \in PS
        BY <2>1, <2>2 DEF RunsResOK
    <2>4. part.id = <<part.id[1], part.id[2]>>
        BY <2>2, PartFields DEF GoodParts
    <2>5. new.since <= b.since /\ i <= i
        BY <2>2
    <2> HIDE DEF new, i
    <2> QED BY <2>2, <2>3, <2>4, <2>5, ReplacePartsOK
<1> HIDE DEF P1, P2, P3, P4, A5, o
<1>6. \/ o = Outcome("NoMatch", b) \/ o = Outcome("InvalidSince", b)
      \/ ~P1 /\ ~P4 /\ o = A5
    BY <1>2, <1>4
<1>7. Replaced(o, b, PS, T)
    BY <1>5, <1>6, Kept
<1> QED BY <1>7 DEF o

(* find_replacement_range: the parts it finds have the bounds of the       *)
(* output.                                                                 *)
LEMMA RangeFound ==
    ASSUME NEW T, NEW PS, Times(T), GoodParts(PS, T), NEW b \in BatchesOf(PS, T),
           NEW output, output.lower < output.upper, output.lower \in Nat, output.upper \in Nat,
           ReplacementRange(b, output) # <<>>
    PROVE  \E lo, hi \in 1 .. Len(b.parts) :
             /\ ReplacementRange(b, output) = <<lo, hi>> /\ lo <= hi
             /\ b.parts[lo].lower = output.lower /\ b.parts[hi].upper = output.upper
             /\ b.parts[lo].id[1] <= b.parts[hi].id[2]
<1> DEFINE p == b.parts
           n == Len(p)
           los(k) == {i \in 1 .. k : p[i].lower = output.lower}
           his(k) == {i \in 1 .. k : p[i].upper = output.upper}
           ends == {k \in 1 .. n : los(k) # {} /\ his(k) # {}}
           e == Min(ends)
           lo == Max(los(e))
           hi == Max(his(e))
<1>1. /\ n \in Nat /\ p \in Seq(PS) /\ Chained(p) /\ \A i \in 1 .. n : p[i] \in PS
    BY BatchOKFields
<1>2. ReplacementRange(b, output) = IF ends = {} THEN <<>> ELSE <<lo, hi>>
    BY DEF ReplacementRange
<1>3. ends # {}
    BY <1>2
<1>4. e \in ends
    <2>1. ends \in SUBSET Nat
        BY <1>1
    <2> HIDE DEF ends
    <2> QED BY <1>3, <2>1, MinOf
<1>5. e \in 1 .. n /\ los(e) # {} /\ his(e) # {}
    BY <1>4
<1> HIDE DEF e
<1>6. lo \in los(e) /\ hi \in his(e)
    <2>1. los(e) \in SUBSET (0 .. n) /\ his(e) \in SUBSET (0 .. n)
        BY <1>1, <1>5
    <2> HIDE DEF los, his
    <2> QED BY <1>1, <1>5, <2>1, MaxOf
<1>7. ReplacementRange(b, output) = <<lo, hi>>
    BY <1>2, <1>3
<1> HIDE DEF lo, hi
<1>8. lo \in 1 .. n /\ hi \in 1 .. n /\ p[lo].lower = output.lower /\ p[hi].upper = output.upper
    BY <1>1, <1>5, <1>6
<1>9. ASSUME NEW x \in PS PROVE /\ x \in Part /\ x.id[1] \in Nat /\ x.id[2] \in Nat /\ x.id[1] <= x.id[2]
                                /\ x.lower = T[x.id[1]] /\ x.upper = T[x.id[2]]
    BY PartFields DEF GoodParts, Timed
<1> HIDE DEF n, p
<1>10. lo <= hi
    <2>1. SUFFICES ASSUME hi < lo PROVE FALSE
        BY <1>1, <1>8
    <2>2. p[hi].id[2] <= p[lo].id[1]
        BY <1>1, <1>8, <2>1, IdsGrow DEF n
    <2>3. p[hi] \in PS /\ p[lo] \in PS
        BY <1>1, <1>8
    <2>4. T[p[hi].id[2]] <= T[p[lo].id[1]]
        BY <1>9, <2>2, <2>3 DEF Times
    <2>5. output.upper <= output.lower
        BY <1>8, <1>9, <2>3, <2>4
    <2> QED BY <2>5
<1>11. p[lo].id[1] <= p[hi].id[2]
    <2>1. p[hi] \in PS /\ p[lo] \in PS
        BY <1>1, <1>8
    <2>2. /\ p[lo].id[1] \in Nat /\ p[lo].id[2] \in Nat /\ p[hi].id[1] \in Nat /\ p[hi].id[2] \in Nat
          /\ p[lo].id[1] <= p[lo].id[2] /\ p[hi].id[1] <= p[hi].id[2]
        BY <1>9, <2>1
    <2>3. CASE lo = hi
        BY <2>2, <2>3
    <2>4. CASE lo < hi
        <3>1. p[lo].id[2] <= p[hi].id[1]
            BY <1>1, <1>8, <2>4, IdsGrow DEF n
        <3> QED BY <2>2, <3>1
    <2> QED BY <1>1, <1>8, <1>10, <2>3, <2>4
<1> QED BY <1>7, <1>8, <1>10, <1>11 DEF n, p

(* maybe_replace_checked of an output without ids yields a good batch, or  *)
(* the same one.                                                           *)
LEMMA ReplaceLegacyOK ==
    ASSUME NEW T, NEW PS, Times(T), GoodParts(PS, T), NEW b \in BatchesOf(PS, T),
           NEW res, LegacyResOK(res, PS), res.output.since <= b.since,
           res.output.lower \in Nat, res.output.upper \in Nat, res.output.since \in Nat
    PROVE  Replaced(ReplaceLegacy(b, res), b, PS, T)
<1> DEFINE out == res.output
           exact == out.lower = b.lower /\ out.upper = b.upper
           range == ReplacementRange(b, out)
           z == RunsLen(out.runs)
           A2 == Outcome("AppliedExact", Merged(WithId(b.id, out)))
           A4 == ReplaceParts(b, out, <<b.parts[range[1]].id[1], b.parts[range[2]].id[2]>>, range[1], range[2])
           P1 == exact /\ z > b.len
           P2 == exact /\ z <= b.len
           P3 == ~exact /\ range = <<>>
           o == ReplaceLegacy(b, res)
           p == b.parts
           n == Len(p)
<1>1. o = CASE P1 -> Outcome("TooManyUpdates", b) [] P2 -> A2 [] P3 -> Outcome("NoMatch", b) [] OTHER -> A4
    BY DEF ReplaceLegacy
<1>0. /\ n \in Nat /\ n >= 1 /\ p \in Seq(PS) /\ Chained(p) /\ p[1] \in PS /\ p[n] \in PS
      /\ b.id = <<p[1].id[1], p[n].id[2]>> /\ b.lower = p[1].lower /\ b.upper = p[n].upper
    BY BatchOKFields
<1>2. ASSUME P2 PROVE Replaced(A2, b, PS, T)
    <2>1. p[1].id[1] <= p[n].id[2]
        BY <1>0, BatchSpan
    <2> DEFINE q == WithId(b.id, out)
    <2>2. q \in PS
        BY <1>0, <1>2, <2>1 DEF LegacyResOK
    <2>3. q.id = b.id /\ q.since = out.since /\ q.len = z
        BY DEF WithId
    <2> HIDE DEF q, z
    <2>4. /\ Merged(q) \in BatchesOf(PS, T) /\ Merged(q).id = q.id /\ Merged(q).since = q.since
          /\ Merged(q).len = q.len
        BY <2>2, MergedOK
    <2>5. z <= b.len
        BY <1>2
    <2>6. A2.result = "AppliedExact" /\ A2.batch = Merged(q)
        BY DEF Outcome, q
    <2> HIDE DEF A2
    <2>7. Applied(A2)
        BY <2>6 DEF Applied
    <2> QED BY <2>3, <2>4, <2>5, <2>6, <2>7 DEF Replaced
<1>3. ASSUME range # <<>> PROVE Replaced(A4, b, PS, T)
    <2>1. out.lower < out.upper /\ out.lower \in Nat /\ out.upper \in Nat
        BY DEF LegacyResOK
    <2> HIDE DEF out, p
    <2>2. PICK lo, hi \in 1 .. Len(b.parts) :
             /\ range = <<lo, hi>> /\ lo <= hi
             /\ b.parts[lo].lower = out.lower /\ b.parts[hi].upper = out.upper
             /\ b.parts[lo].id[1] <= b.parts[hi].id[2]
        BY <1>3, <2>1, RangeFound
    <2> DEFINE id == <<b.parts[lo].id[1], b.parts[hi].id[2]>>
    <2>3. b.parts[lo] \in PS /\ b.parts[hi] \in PS
        BY <2>2, BatchOKFields
    <2>4. WithId(id, out) \in PS
        BY <2>2, <2>3 DEF LegacyResOK, out
    <2>5. A4 = ReplaceParts(b, out, id, lo, hi)
        <3>1. range[1] = lo /\ range[2] = hi
            BY <2>2
        <3> HIDE DEF range
        <3> QED BY <3>1
    <2>6. out.since <= b.since
        BY DEF out
    <2> HIDE DEF A4
    <2> QED BY <2>2, <2>4, <2>5, <2>6, ReplacePartsOK
<1>4. ~exact \/ z > b.len \/ z <= b.len
    <2>1. SUFFICES ASSUME exact PROVE z > b.len \/ z <= b.len
        OBVIOUS
    <2>2. b.len \in Nat
        BY BatchFields DEF BatchesOf
    <2>3. z \in Nat
        <3>1. p[1].id[1] <= p[n].id[2]
            BY <1>0, BatchSpan
        <3>2. WithId(b.id, out) \in PS
            BY <1>0, <2>1, <3>1 DEF LegacyResOK
        <3>3. WithId(b.id, out).len \in Nat
            BY <3>2, PartFields DEF GoodParts
        <3> QED BY <3>3 DEF WithId
    <2> HIDE DEF z
    <2> QED BY <2>2, <2>3
<1> HIDE DEF A2, A4, o, exact, range, z
<1>5. \/ o = Outcome("TooManyUpdates", b) \/ o = Outcome("NoMatch", b)
      \/ P2 /\ o = A2
      \/ range # <<>> /\ o = A4
    BY <1>1, <1>4
<1>6. Replaced(o, b, PS, T)
    BY <1>2, <1>3, <1>5, Kept
<1> QED BY <1>6 DEF o

(* Whichever way a result is to be applied, what takes the place of a      *)
(* batch is good, no longer, and does not panic.                           *)
LEMMA MaybeReplaceOK ==
    ASSUME NEW T, NEW PS, Times(T), GoodParts(PS, T), NEW b \in BatchesOf(PS, T),
           NEW res, ResOK(res, PS)
    PROVE  Replaced(MaybeReplace(b, res), b, PS, T)
<1> DEFINE o == MaybeReplace(b, res)
           k == res.input.kind
<1>1. o = CASE res.output.since > b.since -> Outcome("InvalidSince", b)
            [] res.output.since <= b.since /\ k = "IdRange" -> ReplaceIdRange(b, res)
            [] res.output.since <= b.since /\ k = "PartialBatch" -> ReplaceRuns(b, res)
            [] OTHER -> ReplaceLegacy(b, res)
    BY DEF MaybeReplace
<1>2. b.since \in Nat /\ res.output.since \in Nat
    BY BatchFields DEF BatchesOf, ResOK
<1> HIDE DEF o
<1>3. \/ o = Outcome("InvalidSince", b)
      \/ res.output.since <= b.since /\ k = "IdRange" /\ o = ReplaceIdRange(b, res)
      \/ res.output.since <= b.since /\ k = "PartialBatch" /\ o = ReplaceRuns(b, res)
      \/ res.output.since <= b.since /\ k # "IdRange" /\ k # "PartialBatch" /\ o = ReplaceLegacy(b, res)
    BY <1>1, <1>2
<1>4. /\ k = "IdRange" => RangeResOK(res, PS)
      /\ k = "PartialBatch" => RunsResOK(res, PS)
      /\ k # "IdRange" /\ k # "PartialBatch" => LegacyResOK(res, PS)
      /\ \A p : Combined(p, res).since = res.output.since
      /\ res.output.lower \in Nat /\ res.output.upper \in Nat
    BY DEF ResOK
<1>5. Replaced(o, b, PS, T)
    BY <1>2, <1>3, <1>4, Kept, ReplaceIdRangeOK, ReplaceRunsOK, ReplaceLegacyOK
<1> QED BY <1>5 DEF o

-----------------------------------------------------------------------------
(* apply_merge_res.                                                        *)

Swap(t, i, k, nb, flag) == [t EXCEPT !.layers[i].batches[k] = nb, !.panicked = @ \/ flag]

(* A batch is replaced by one with the same ids that is not longer: the    *)
(* merges have fuel enough, as they had.                                   *)
LEMMA SwapBatch ==
    ASSUME NEW T, NEW PS, NEW t, NEW e, Spined(t, e, PS, T),
           NEW i \in 1 .. Len(t.layers), NEW k \in 1 .. Len(t.layers[i].batches),
           NEW nb \in BatchesOf(PS, T), nb.id = t.layers[i].batches[k].id,
           nb.since <= t.layers[i].batches[k].since, nb.len <= t.layers[i].batches[k].len,
           NEW flag, flag = FALSE
    PROVE  Spined(Swap(t, i, k, nb, flag), e, PS, T) /\ SameBut(Swap(t, i, k, nb, flag), t)
<1> DEFINE BS == BatchesOf(PS, T)
           ls == t.layers
           n == Len(ls)
           l == ls[i]
           q == l.batches
           q2 == [q EXCEPT ![k] = nb]
           l2 == [l EXCEPT !.batches = q2]
           ms == [ls EXCEPT ![i] = l2]
           z == [t EXCEPT !.layers = ms]
           u == Swap(t, i, k, nb, flag)
<1>0. PICK cut, rec : /\ Laid(t, e, cut, rec, PS, T)
                      /\ \A j \in Positive : FuelAt(Lay(t), rec, j, 0)
    BY DEF Spined
<1>1. t \in Trace /\ ls \in Seq(Layer) /\ n \in Nat /\ t.panicked = FALSE /\ t.since \in Nat
    BY <1>0 DEF Laid, Good, Trace
<1>2. i \in Positive /\ Lay(t)[i] = l
    BY <1>1 DEF Positive, Lay, At
<1>3. LayerOK(l, i, t.since, BS) /\ l \in Layer
    <2>1. LayerOK(l, i, t.since, BS)
        BY <1>0, <1>2 DEF Laid, Good
    <2> QED BY <1>2, <2>1 DEF LayerOK
<1>4. q \in Seq(BS) /\ Len(q) = Num(l) /\ Num(l) \in 0 .. 2 /\ k \in 1 .. Len(q) /\ q \in Seq(Batch)
    BY <1>3 DEF LayerOK, Num, Layer
<1>5. u = [z EXCEPT !.panicked = t.panicked \/ flag]
    BY DEF Swap
<1>6. nb \in Batch /\ nb \in BS /\ nb.id = q[k].id /\ nb.since <= q[k].since /\ nb.len <= q[k].len
    BY DEF BatchesOf
<1>21. \A j \in 1 .. Len(q) : q[j] \in Batch
    BY <1>4, ElementOfSeq
<1>22. nb.since \in Nat /\ nb.len \in Nat /\ \A j \in 1 .. Len(q) : q[j].since \in Nat /\ q[j].len \in Nat
    BY <1>6, <1>21, BatchFields
<1> HIDE DEF q, l, ls, u, BS
<1>7. q2 \in Seq(BS) /\ q2 \in Seq(Batch) /\ Len(q2) = Len(q)
      /\ \A j \in 1 .. Len(q) : q2[j] = IF j = k THEN nb ELSE q[j]
    BY <1>4, <1>6
<1>8. \A j \in 1 .. Len(q) : q2[j].id = q[j].id /\ q2[j].since <= q[j].since /\ q2[j].len <= q[j].len
    <2>1. SUFFICES ASSUME NEW j \in 1 .. Len(q)
                   PROVE  q2[j].id = q[j].id /\ q2[j].since <= q[j].since /\ q2[j].len <= q[j].len
        OBVIOUS
    <2> HIDE DEF q2
    <2>2. CASE j = k
        <3>1. q2[k] = nb
            BY <1>4, <1>7
        <3> QED BY <1>6, <2>2, <3>1
    <2>3. CASE j # k
        <3>1. q2[j] = q[j] /\ q[j].since \in Nat /\ q[j].len \in Nat
            BY <1>7, <1>22, <2>3
        <3> QED BY <3>1
    <2> QED BY <2>2, <2>3
<1> HIDE DEF q2
<1>9. l2 \in Layer /\ l2.batches = q2 /\ l2.merge = l.merge
    BY <1>3, <1>7 DEF Layer
<1>10. l2 = [l EXCEPT !.batches = q2]
    OBVIOUS
<1> HIDE DEF l2
<1>11. Num(l2) = Num(l) /\ Work(l2) = Work(l)
    BY <1>4, <1>7, <1>9 DEF Num, Work
<1>12. Num(l) # 0 => Lo(l2) = Lo(l) /\ Hi(l2) = Hi(l)
    <2>1. SUFFICES ASSUME Num(l) # 0 PROVE Lo(l2) = Lo(l) /\ Hi(l2) = Hi(l)
        OBVIOUS
    <2>2. 1 \in 1 .. Len(q) /\ Num(l) \in 1 .. Len(q)
        BY <1>4, <2>1
    <2>3. q2[1].id = q[1].id /\ q2[Num(l)].id = q[Num(l)].id
        BY <1>8, <2>2
    <2> QED BY <1>9, <1>11, <2>3 DEF Lo, Hi, q
<1>13. LayerOK(l2, i, t.since, BS)
    <2>1. Pow2[i - 1] \in Nat
        BY <1>2, PositiveFacts
    <2>2. \A j \in 1 .. Num(l) : q[j].since <= t.since /\ q[j].len <= Pow2[i - 1]
        BY <1>3 DEF LayerOK, q
    <2>3. ASSUME NEW j \in 1 .. Num(l2) PROVE l2.batches[j].since <= t.since /\ l2.batches[j].len <= Pow2[i - 1]
        <3>1. j \in 1 .. Len(q) /\ j \in 1 .. Num(l)
            BY <1>4, <1>11
        <3>2. q2[j].since <= q[j].since /\ q2[j].len <= q[j].len /\ q[j].since <= t.since /\ q[j].len <= Pow2[i - 1]
            BY <1>8, <2>2, <3>1
        <3>3. q[j].since \in Nat /\ q[j].len \in Nat
            BY <1>22, <3>1
        <3>4. q2[j].since \in Nat /\ q2[j].len \in Nat
            BY <1>7, <1>22, <3>1
        <3>5. q2[j].since <= t.since /\ q2[j].len <= Pow2[i - 1]
            BY <1>1, <2>1, <3>2, <3>3, <3>4, SMTT(40)
        <3> QED BY <1>9, <3>5
    <2>4. Num(l2) # 2 => l2.merge = <<>>
        BY <1>3, <1>9, <1>11 DEF LayerOK
    <2>5. ASSUME Num(l2) = 2
          PROVE  /\ Len(l2.merge) = 1 /\ l2.batches[1].id[2] = l2.batches[2].id[1]
                 /\ l2.batches[1].since <= l2.merge[1].since /\ l2.batches[2].since <= l2.merge[1].since
                 /\ l2.merge[1].since <= t.since
        <3>1. /\ Len(l.merge) = 1 /\ q[1].id[2] = q[2].id[1]
              /\ q[1].since <= l.merge[1].since /\ q[2].since <= l.merge[1].since
              /\ l.merge[1].since <= t.since
            BY <1>3, <1>11, <2>5 DEF LayerOK, q
        <3>2. 1 \in 1 .. Len(q) /\ 2 \in 1 .. Len(q)
            BY <1>4, <1>11, <2>5
        <3>3. /\ q2[1].id = q[1].id /\ q2[1].since <= q[1].since
              /\ q2[2].id = q[2].id /\ q2[2].since <= q[2].since
            BY <1>8, <3>2
        <3>4. /\ q[1].since \in Nat /\ q[2].since \in Nat /\ q2[1].since \in Nat /\ q2[2].since \in Nat
            BY <1>7, <1>22, <3>2
        <3> DEFINE g == l.merge
        <3>5. g \in Seq(Merge) /\ 1 \in 1 .. Len(g)
            BY <1>3, <3>1 DEF Layer
        <3> HIDE DEF g
        <3>6. g[1] \in Merge
            BY <3>5, ElementOfSeq
        <3>7. g[1].since \in Nat
            BY <3>6 DEF Merge
        <3>8. q2[1].since <= g[1].since /\ q2[2].since <= g[1].since
            BY <3>1, <3>3, <3>4, <3>7, SMTT(40) DEF g
        <3>9. q2[1].id[2] = q2[2].id[1]
            BY <3>1, <3>3
        <3> QED BY <1>9, <3>1, <3>8, <3>9 DEF g
    <2> QED BY <1>4, <1>7, <1>9, <1>11, <2>3, <2>4, <2>5 DEF LayerOK
<1>14. /\ ms \in Seq(Layer) /\ Len(ms) = n
       /\ \A v : v.layers = ms => Lay(v) = [Lay(t) EXCEPT ![i] = l2]
    BY <1>1, <1>9, SetLayer DEF ls
<1> HIDE DEF ms
<1>15. z \in Trace /\ z.layers = ms /\ SameBut(z, t) /\ z.reqs = t.reqs
    BY <1>1, <1>14, SetLayers, Zenon
<1> HIDE DEF z
<1>16. u \in Trace /\ u.layers = ms /\ SameBut(u, t) /\ u.reqs = t.reqs
    <2>1. u = [z EXCEPT !.panicked = FALSE]
        BY <1>1, <1>5
    <2>2. u \in Trace /\ u.layers = z.layers /\ u.since = z.since /\ u.upper = z.upper /\ u.nextId = z.nextId
          /\ u.reqs = z.reqs /\ u.panicked = FALSE
        BY <1>15, <2>1 DEF Trace
    <2> QED BY <1>1, <1>15, <2>2 DEF SameBut
<1>17. Lay(u)[i] = l2 /\ \A j \in Positive : j # i => Lay(u)[j] = Lay(t)[j]
    <2>1. Lay(u) = [Lay(t) EXCEPT ![i] = l2]
        BY <1>14, <1>16
    <2>2. Lay(t) \in [Positive -> Layer]
        BY <1>1, LayType
    <2> QED BY <1>2, <2>1, <2>2
<1>18. \A j \in Positive :
         /\ Num(Lay(u)[j]) = Num(Lay(t)[j]) /\ Work(Lay(u)[j]) = Work(Lay(t)[j])
         /\ Num(Lay(t)[j]) # 0 => Lo(Lay(u)[j]) = Lo(Lay(t)[j]) /\ Hi(Lay(u)[j]) = Hi(Lay(t)[j])
    <2>1. SUFFICES ASSUME NEW j \in Positive
          PROVE  /\ Num(Lay(u)[j]) = Num(Lay(t)[j]) /\ Work(Lay(u)[j]) = Work(Lay(t)[j])
                 /\ Num(Lay(t)[j]) # 0 => Lo(Lay(u)[j]) = Lo(Lay(t)[j]) /\ Hi(Lay(u)[j]) = Hi(Lay(t)[j])
        OBVIOUS
    <2>2. CASE j = i
        BY <1>2, <1>11, <1>12, <1>17, <2>2
    <2>3. CASE j # i
        BY <1>17, <2>3
    <2> QED BY <2>2, <2>3
<1>19. Good(u, PS, T)
    <2>1. t.panicked = FALSE /\ t.reqs \subseteq ReqsOf(BS)
          /\ \A j \in Positive : LayerOK(Lay(t)[j], j, t.since, BS)
        BY <1>0 DEF Laid, Good, BS
    <2>2. u.since = t.since /\ u.panicked = FALSE
        BY <1>16, <2>1 DEF SameBut
    <2>3. \A j \in Positive : LayerOK(Lay(u)[j], j, u.since, BS)
        BY <1>13, <1>17, <2>1, <2>2
    <2> QED BY <1>16, <2>1, <2>2, <2>3 DEF Good, BS
<1>20. Laid(u, e, cut, rec, PS, T)
    <2>1. Tiled(Lay(u), e, cut)
        BY <1>0, <1>18 DEF Laid, Tiled
    <2>2. Weighs(Lay(u), rec)
        BY <1>0, <1>18 DEF Laid, Weighs, Weight
    <2>3. cut[Len(u.layers)] = 0
        BY <1>0, <1>14, <1>16 DEF Laid, ls
    <2> QED BY <1>19, <2>1, <2>2, <2>3 DEF Laid
<1>23. \A j \in Positive : FuelAt(Lay(u), rec, j, 0)
    BY <1>0, <1>18 DEF FuelAt
<1> QED BY <1>16, <1>20, <1>23 DEF Spined, u

(* Among the batches that match there is a newest one.                     *)
LEMMA NewestFirst ==
    ASSUME NEW n \in Nat, NEW at \in SUBSET ((1 .. n) \X (1 .. 2)), at # {}
    PROVE  \E m \in at : \A q \in at : m[1] < q[1] \/ (m[1] = q[1] /\ m[2] >= q[2])
<1> DEFINE f(q) == 3 * q[1] - q[2]
           S == {f(q) : q \in at}
<1>1. \A q \in at : q[1] \in Nat /\ q[1] >= 1 /\ (q[2] = 1 \/ q[2] = 2)
    <2>1. ASSUME NEW q \in at PROVE q[1] \in Nat /\ q[1] >= 1 /\ (q[2] = 1 \/ q[2] = 2)
        <3>1. q[1] \in 1 .. n /\ q[2] \in 1 .. 2
            OBVIOUS
        <3> QED BY <3>1
    <2> QED BY <2>1
<1>2. \A q \in at : f(q) \in Nat
    BY <1>1
<1>3. S \in SUBSET Nat /\ S # {}
    <2> HIDE DEF f
    <2> QED BY <1>2
<1>4. PICK x \in S : \A y \in S : x <= y
    <2> HIDE DEF S
    <2> QED BY <1>3, LeastNat
<1>5. PICK m \in at : x = f(m)
    BY <1>4
<1>6. \A q \in at : f(m) <= f(q)
    BY <1>4, <1>5
<1>7. ASSUME NEW q \in at PROVE m[1] < q[1] \/ (m[1] = q[1] /\ m[2] >= q[2])
    BY <1>1, <1>6
<1> QED BY <1>7

(* A batch is replaced by itself.                                          *)
LEMMA SwapSame ==
    ASSUME NEW t \in Trace, t.panicked = FALSE, NEW i \in 1 .. Len(t.layers),
           NEW k \in 1 .. Len(t.layers[i].batches), NEW nb, nb = t.layers[i].batches[k],
           NEW flag, flag = FALSE
    PROVE  Swap(t, i, k, nb, flag) = t
<1> DEFINE ls == t.layers
           l == ls[i]
           q == l.batches
           q2 == [q EXCEPT ![k] = nb]
           l2 == [l EXCEPT !.batches = q2]
           ms == [ls EXCEPT ![i] = l2]
           z == [t EXCEPT !.layers = ms]
<1>1. ls \in Seq(Layer)
    BY DEF Trace
<1>2. Swap(t, i, k, nb, flag) = [z EXCEPT !.panicked = t.panicked \/ flag]
    BY DEF Swap
<1> HIDE DEF ls
<1>3. l \in Layer
    BY <1>1, ElementOfSeq DEF ls
<1> HIDE DEF l
<1>4. q \in Seq(Batch)
    BY <1>3 DEF Layer
<1>5. q2 = q
    <2>1. nb = q[k] /\ k \in 1 .. Len(q)
        BY DEF l, ls
    <2> HIDE DEF q
    <2> QED BY <1>4, <2>1
<1> HIDE DEF q2
<1>6. l2 = l
    BY <1>3, <1>5 DEF Layer
<1> HIDE DEF l2
<1>7. ms = ls
    <2>1. l = ls[i] /\ i \in 1 .. Len(ls)
        BY DEF l, ls
    <2> QED BY <1>1, <1>6, <2>1
<1> HIDE DEF ms
<1>8. z = t
    BY <1>7 DEF Trace, ls
<1> HIDE DEF z
<1>9. [t EXCEPT !.panicked = FALSE] = t
    BY DEF Trace
<1> QED BY <1>2, <1>8, <1>9

(* apply_merge_res keeps the invariant of the spine, and an unapplied      *)
(* result changes nothing.                                                 *)
LEMMA ApplyMergeResOK ==
    ASSUME NEW T, NEW PS, Times(T), GoodParts(PS, T), NEW t, NEW e, Spined(t, e, PS, T),
           NEW res, ResOK(res, PS), NEW a, a = ApplyMergeRes(t, res)
    PROVE  /\ Spined(a.trace, e, PS, T) /\ SameBut(a.trace, t)
           /\ a.applied \in BOOLEAN
           /\ a.applied \/ a.trace = t
<1> DEFINE b(p) == t.layers[p[1]].batches[p[2]]
           M(p) == MaybeReplace(b(p), res)
           at == {p \in (1 .. Len(t.layers)) \X (1 .. 2) :
                    p[2] <= Len(t.layers[p[1]].batches) /\ Matched(M(p))}
           N(m) == \A q \in at : m[1] < q[1] \/ (m[1] = q[1] /\ m[2] >= q[2])
           c == CHOOSE m \in at : N(m)
           o == M(c)
<1>1. a = IF at = {} THEN [applied |-> FALSE, trace |-> t]
          ELSE [applied |-> Applied(o), trace |-> Swap(t, c[1], c[2], o.batch, o.result = "Panic")]
    BY DEF ApplyMergeRes, BATCHES_PER_LEVEL, Swap
<1>2. PICK cut, rec : Laid(t, e, cut, rec, PS, T)
    BY DEF Spined
<1>3. t \in Trace /\ t.layers \in Seq(Layer) /\ Len(t.layers) \in Nat /\ t.panicked = FALSE
    BY <1>2 DEF Laid, Good, Trace
<1>4. CASE at = {}
    <2> HIDE DEF at, o, c
    <2>1. a.applied = FALSE /\ a.trace = t
        BY <1>1, <1>4
    <2> QED BY <2>1 DEF SameBut
<1>5. CASE at # {}
    <2>1. c \in at
        <3>1. at \in SUBSET ((1 .. Len(t.layers)) \X (1 .. 2))
            OBVIOUS
        <3> HIDE DEF at
        <3>2. \E m \in at : N(m)
            BY <1>3, <1>5, <3>1, NewestFirst
        <3> HIDE DEF N
        <3> QED BY <3>2
    <2>2. c \in (1 .. Len(t.layers)) \X (1 .. 2) /\ c[2] <= Len(t.layers[c[1]].batches)
        BY <2>1
    <2> HIDE DEF c
    <2> DEFINE i == c[1]
               k == c[2]
               l == t.layers[i]
    <2>3. i \in 1 .. Len(t.layers) /\ k \in 1 .. 2 /\ k <= Len(l.batches)
        BY <2>2
    <2> HIDE DEF i, k
    <2>4. i \in Positive /\ Lay(t)[i] = l
        BY <1>3, <2>3 DEF Positive, Lay, At
    <2>5. LayerOK(l, i, t.since, BatchesOf(PS, T))
        BY <1>2, <2>4 DEF Laid, Good
    <2>6. l.batches \in Seq(BatchesOf(PS, T)) /\ Len(l.batches) \in Nat
        BY <2>5 DEF LayerOK
    <2>7. k \in 1 .. Len(l.batches)
        BY <2>3, <2>6
    <2>8. l.batches[k] \in BatchesOf(PS, T)
        <3> DEFINE q == l.batches
        <3>1. q \in Seq(BatchesOf(PS, T)) /\ k \in 1 .. Len(q)
            BY <2>6, <2>7
        <3> HIDE DEF q
        <3>2. q[k] \in BatchesOf(PS, T)
            BY <3>1, ElementOfSeq
        <3> QED BY <3>2 DEF q
    <2> DEFINE x == l.batches[k]
    <2>9. o = MaybeReplace(x, res)
        BY DEF i, k
    <2> HIDE DEF o, x
    <2>10. Replaced(o, x, PS, T)
        BY <2>8, <2>9, MaybeReplaceOK DEF x
    <2>11. a.trace = Swap(t, i, k, o.batch, o.result = "Panic") /\ a.applied = Applied(o)
        <3> HIDE DEF at
        <3>1. a = [applied |-> Applied(o), trace |-> Swap(t, c[1], c[2], o.batch, o.result = "Panic")]
            BY <1>1, <1>5, Zenon
        <3> DEFINE v == Swap(t, c[1], c[2], o.batch, o.result = "Panic")
                   d == Applied(o)
        <3> HIDE DEF v, d
        <3>2. a = [applied |-> d, trace |-> v]
            BY <3>1 DEF v, d
        <3>3. a.applied = d /\ a.trace = v
            BY <3>2
        <3> QED BY <3>3 DEF v, d, i, k
    <2>12. (o.result = "Panic") = FALSE
        BY <2>10 DEF Replaced
    <2>13. /\ o.batch \in BatchesOf(PS, T) /\ o.batch.id = x.id
           /\ o.batch.since <= x.since /\ o.batch.len <= x.len
           /\ o.batch = x \/ Applied(o)
        BY <2>10 DEF Replaced
    <2> DEFINE flag == o.result = "Panic"
               nb == o.batch
               u == Swap(t, i, k, nb, flag)
    <2>14. flag = FALSE /\ a.trace = u /\ nb \in BatchesOf(PS, T) /\ nb.id = t.layers[i].batches[k].id
           /\ nb.since <= t.layers[i].batches[k].since /\ nb.len <= t.layers[i].batches[k].len
           /\ k \in 1 .. Len(t.layers[i].batches)
        BY <2>7, <2>11, <2>12, <2>13 DEF x
    <2> HIDE DEF flag, nb
    <2>15. Spined(u, e, PS, T) /\ SameBut(u, t)
        BY <2>3, <2>14, SwapBatch
    <2>16. ASSUME nb = t.layers[i].batches[k] PROVE u = t
        <3>1. flag = FALSE /\ i \in 1 .. Len(t.layers) /\ k \in 1 .. Len(t.layers[i].batches)
              /\ t \in Trace /\ t.panicked = FALSE
            BY <1>3, <2>3, <2>14
        <3> QED BY <2>16, <3>1, SwapSame, ZenonT(40)
    <2>17. Applied(o) \in BOOLEAN
        BY DEF Applied
    <2>18. a.applied \/ a.trace = t
        <3>1. SUFFICES ASSUME ~a.applied PROVE a.trace = t
            OBVIOUS
        <3>2. o.batch = x
            BY <2>11, <2>13, <3>1
        <3>3. nb = t.layers[i].batches[k]
            BY <3>2 DEF nb, x
        <3> QED BY <2>14, <2>16, <3>3
    <2> HIDE DEF u
    <2> QED BY <2>11, <2>14, <2>15, <2>17, <2>18
<1> QED BY <1>4, <1>5
=============================================================================
