----------------------------- MODULE Induction -----------------------------
(***************************************************************************)
(* Induction without a predicate as a parameter: the set of those for      *)
(* which something holds stands for it.  From it, that a fold over a        *)
(* finite set has a value.                                                 *)
(***************************************************************************)
EXTENDS Integers, FiniteSetsExt, FiniteSetTheorems, SequenceTheorems, WellFoundedInduction, TLAPS

\* A set of numbers that has 0, and with each number the next, has them all.
LEMMA NatSetInduction ==
    ASSUME NEW P \in SUBSET Nat, 0 \in P, \A n \in P : n + 1 \in P
    PROVE  P = Nat
<1> DEFINE Less == OpToRel(<, Nat)
<1>1. SUFFICES ASSUME Nat \ P # {} PROVE FALSE
  OBVIOUS
<1>2. PICK n \in Nat \ P : \A m \in Nat \ P : <<m, n>> \notin Less
  <2> HIDE DEF Less
  <2>1. IsWellFoundedOn(Less, Nat)
    BY NatLessThanWellFounded DEF Less
  <2>2. QED BY <1>1, <2>1, WFMin
<1> HIDE DEF Less
<1>3. \A m \in Nat \ P : ~(m < n)
  BY <1>2 DEF OpToRel, Less
<1>4. n # 0 /\ n \in Nat
  BY <1>2
<1>5. n - 1 \in Nat /\ n - 1 < n /\ (n - 1) + 1 = n
  BY <1>4
<1>6. n - 1 \in P
  BY <1>3, <1>5
<1>7. QED BY <1>2, <1>5, <1>6

\* A set of subsets of a finite set has them all if it has each of which it
\* has those that lack one element.
LEMMA SubsetInduction ==
    ASSUME NEW D, IsFiniteSet(D), NEW P \in SUBSET (SUBSET D),
           \A S \in SUBSET D : (\A x \in S : S \ {x} \in P) => S \in P
    PROVE  P = SUBSET D
<1>1. SUFFICES ASSUME (SUBSET D) \ P # {} PROVE FALSE
  OBVIOUS
<1>2. /\ IsWellFoundedOn(StrictSubsetOrdering(D), FiniteSubsetsOf(D))
      /\ FiniteSubsetsOf(D) = SUBSET D
  BY FS_StrictSubsetOrderingWellFounded, FS_FiniteSubsetsOfFinite
<1>3. PICK S \in (SUBSET D) \ P :
          \A T \in (SUBSET D) \ P : <<T, S>> \notin StrictSubsetOrdering(D)
  <2>1. (SUBSET D) \ P \subseteq FiniteSubsetsOf(D)
    BY <1>2
  <2> DEFINE T == (SUBSET D) \ P
             R == StrictSubsetOrdering(D)
             U == FiniteSubsetsOf(D)
  <2>2. IsWellFoundedOn(R, U) /\ T \subseteq U /\ T # {}
    BY <1>1, <1>2, <2>1
  <2>3. \E S \in T : \A Q \in T : ~(<<Q, S>> \in R)
    <3> HIDE DEF T, R, U
    <3>1. QED BY <2>2, WFMin
  <2>4. QED BY <2>3
<1>4. ASSUME NEW x \in S PROVE S \ {x} \in P
  <2>1. /\ S \in SUBSET D /\ S \ {x} \in SUBSET D
        /\ S \ {x} \subseteq S /\ S \ {x} # S
    BY <1>3
  <2>2. <<S \ {x}, S>> \in StrictSubsetOrdering(D)
    BY <2>1 DEF StrictSubsetOrdering
  <2>3. QED BY <1>3, <2>1, <2>2
<1>5. QED BY <1>3, <1>4

\* Up to a number, induction is done there.
LEMMA UptoInduction ==
    ASSUME NEW n \in Nat, NEW P, 0 \in P, \A k \in 1..n : k - 1 \in P => k \in P
    PROVE  \A k \in 0..n : k \in P
<1> DEFINE Q == {k \in Nat : k <= n => k \in P}
<1>1. Q = Nat
  <2>1. 0 \in Q
    OBVIOUS
  <2>2. ASSUME NEW k \in Q PROVE k + 1 \in Q
    <3>1. k \in Nat /\ (k <= n => k \in P)
      OBVIOUS
    <3>2. ASSUME k + 1 <= n PROVE k + 1 \in P
      <4>1. k <= n /\ k + 1 \in 1..n /\ (k + 1) - 1 = k
        BY <3>1, <3>2
      <4>2. QED BY <3>1, <4>1
    <3>3. QED BY <3>1, <3>2
  <2> HIDE DEF Q
  <2>3. Q \in SUBSET Nat
    BY DEF Q
  <2>4. QED BY <2>1, <2>2, <2>3, NatSetInduction
<1>2. QED BY <1>1

\* Of any numbers one is the least.
LEMMA MinExists ==
    ASSUME NEW S \in SUBSET Nat, S # {}
    PROVE  Min(S) \in S /\ \A y \in S : Min(S) <= y
<1> DEFINE Less == OpToRel(<, Nat)
<1>1. PICK x \in S : \A y \in S : <<y, x>> \notin Less
  <2> HIDE DEF Less
  <2>1. IsWellFoundedOn(Less, Nat)
    BY NatLessThanWellFounded DEF Less
  <2>2. QED BY <2>1, WFMin
<1> HIDE DEF Less
<1>2. \A y \in S : x <= y
  <2>1. \A y \in S : y \in Nat /\ x \in Nat /\ ~(y < x)
    BY <1>1 DEF OpToRel, Less
  <2>2. \A a, b \in Nat : ~(b < a) => a <= b
    OBVIOUS
  <2>3. QED BY <2>1, <2>2
<1>3. QED BY <1>2 DEF Min

-----------------------------------------------------------------------------
\* The fold of B over the subsets of D, in the order in which c takes their
\* elements.
IsFold(fold, D, c, B, base) ==
    fold = [S \in SUBSET D |-> IF S = {} THEN base ELSE B[<<fold[S \ {c[S]}], c[S]>>]]

\* Over a finite set there is one.
LEMMA FoldExists ==
    ASSUME NEW D, IsFiniteSet(D), NEW V, NEW base \in V, NEW B \in [V \X D -> V],
           NEW c, \A S \in SUBSET D : S # {} => c[S] \in S
    PROVE  \E fold \in [SUBSET D -> V] : IsFold(fold, D, c, B, base)
<1> DEFINE Upto(n) == {S \in SUBSET D : Cardinality(S) <= n}
           Fits(g, n) == \A S \in Upto(n) :
               g[S] = IF S = {} THEN base ELSE B[<<g[S \ {c[S]}], c[S]>>]
           P == {n \in Nat : \E g \in [Upto(n) -> V] : Fits(g, n)}
<1>1. \A S \in SUBSET D :
          /\ IsFiniteSet(S) /\ Cardinality(S) \in Nat /\ (Cardinality(S) = 0 <=> S = {})
          /\ Cardinality(S) <= Cardinality(D)
          /\ S # {} => Cardinality(S \ {c[S]}) = Cardinality(S) - 1
  BY FS_Subset, FS_CardinalityType, FS_EmptySet, FS_RemoveElement
<1>2. 0 \in P
  <2> DEFINE g == [S \in Upto(0) |-> base]
  <2>1. Upto(0) = {{}}
    <3>1. ASSUME NEW S \in SUBSET D PROVE Cardinality(S) <= 0 <=> S = {}
      <4>1. Cardinality(S) \in Nat /\ (Cardinality(S) = 0 <=> S = {})
        BY <1>1
      <4>2. QED BY <4>1
    <3>2. QED BY <3>1
  <2>2. g \in [Upto(0) -> V] /\ Fits(g, 0)
    BY <2>1
  <2>3. QED BY <2>2
<1>3. ASSUME NEW n \in P PROVE n + 1 \in P
  <2>1. PICK g \in [Upto(n) -> V] : Fits(g, n)
    BY <1>3
  <2> DEFINE h == [S \in Upto(n + 1) |->
                      IF Cardinality(S) <= n THEN g[S] ELSE B[<<g[S \ {c[S]}], c[S]>>]]
  <2>2. n \in Nat /\ n + 1 \in Nat
    OBVIOUS
  <2>3. ASSUME NEW S \in Upto(n + 1), S # {}
        PROVE  S \ {c[S]} \in Upto(n) /\ c[S] \in D /\ c[S] \in S
    <3>1. S \in SUBSET D /\ Cardinality(S) <= n + 1 /\ Cardinality(S) \in Nat
      BY <1>1
    <3>2. c[S] \in S /\ c[S] \in D /\ S \ {c[S]} \in SUBSET D
      BY <2>3, <3>1
    <3>3. Cardinality(S \ {c[S]}) = Cardinality(S) - 1
      BY <1>1, <2>3, <3>1
    <3>4. Cardinality(S \ {c[S]}) <= n
      BY <2>2, <3>1, <3>3
    <3>5. QED BY <3>2, <3>4
  <2>4. Upto(n) \subseteq Upto(n + 1)
    <3>1. ASSUME NEW S \in SUBSET D, Cardinality(S) <= n PROVE Cardinality(S) <= n + 1
      <4>1. Cardinality(S) \in Nat
        BY <1>1
      <4>2. QED BY <2>2, <3>1, <4>1
    <3>2. QED BY <3>1
  <2>5. ASSUME NEW S \in Upto(n + 1)
        PROVE  h[S] \in V /\ h[S] = IF S = {} THEN base ELSE B[<<h[S \ {c[S]}], c[S]>>]
    <3>1. CASE S \in Upto(n)
      <4>1. h[S] = g[S]
        BY <3>1, <2>5
      <4>2. S # {} => h[S \ {c[S]}] = g[S \ {c[S]}]
        BY <2>3, <2>4, <3>1
      <4>3. QED BY <2>1, <3>1, <4>1, <4>2
    <3>2. CASE S \notin Upto(n)
      <4>1. S # {} /\ ~(Cardinality(S) <= n)
        <5>1. S \in SUBSET D
          OBVIOUS
        <5>2. ~(Cardinality(S) <= n)
          BY <3>2, <5>1
        <5>3. Cardinality(S) \in Nat /\ (S = {} => Cardinality(S) = 0)
          BY <1>1, <5>1
        <5>4. QED BY <2>2, <5>2, <5>3
      <4>2. h[S] = B[<<g[S \ {c[S]}], c[S]>>]
        BY <4>1
      <4>3. h[S \ {c[S]}] = g[S \ {c[S]}]
        BY <2>3, <2>4, <4>1
      <4>4. h[S] \in V
        BY <2>3, <4>1, <4>2
      <4>5. QED BY <4>1, <4>2, <4>3, <4>4
    <3>3. QED BY <3>1, <3>2
  <2>6. h \in [Upto(n + 1) -> V] /\ Fits(h, n + 1)
    <3> HIDE DEF h
    <3>1. h = [S \in Upto(n + 1) |-> h[S]]
      BY DEF h
    <3>2. QED BY <2>5, <3>1
  <2>7. QED BY <2>2, <2>6
<1>4. Cardinality(D) \in P
  <2>1. P = Nat
    <3> HIDE DEF P
    <3>1. P \subseteq Nat
      BY DEF P
    <3>2. QED BY <1>2, <1>3, <3>1, NatSetInduction
  <2>2. QED BY <1>1, <2>1
<1>5. PICK g \in [Upto(Cardinality(D)) -> V] : Fits(g, Cardinality(D))
  BY <1>4
<1>6. Upto(Cardinality(D)) = SUBSET D
  BY <1>1
<1>7. IsFold(g, D, c, B, base)
  BY <1>5, <1>6 DEF IsFold
<1>8. QED BY <1>5, <1>6, <1>7

-----------------------------------------------------------------------------
\* f[n] is base after n applications of F.
IsIteration(f, base, F) == f = [n \in Nat |-> IF n = 0 THEN base ELSE F[f[n - 1]]]

\* There is such a function.
LEMMA IterationExists ==
    ASSUME NEW V, NEW base \in V, NEW F \in [V -> V]
    PROVE  \E f \in [Nat -> V] : IsIteration(f, base, F)
<1> DEFINE Fits(g, n) == /\ g \in [0..n -> V] /\ g[0] = base
                         /\ \A k \in 0..(n - 1) : g[k + 1] = F[g[k]]
           P == {n \in Nat : \E g : Fits(g, n)}
           Q == {n \in Nat : \A a, b \in Nat : \A g, h :
                    n <= a /\ n <= b /\ Fits(g, a) /\ Fits(h, b) => g[n] = h[n]}
<1>1. P = Nat
  <2>1. 0 \in P
    <3>1. Fits([k \in 0..0 |-> base], 0)
      OBVIOUS
    <3>2. QED BY <3>1
  <2>2. ASSUME NEW n \in P
        PROVE  n + 1 \in P
    <3>1. n \in Nat /\ \E g : Fits(g, n)
      OBVIOUS
    <3>2. PICK g : Fits(g, n)
      BY <3>1
    <3> DEFINE h == [k \in 0..(n + 1) |-> IF k <= n THEN g[k] ELSE F[g[n]]]
    <3>3. g[n] \in V /\ \A k \in 0..n : g[k] \in V
      BY <3>1, <3>2
    <3>4. h \in [0..(n + 1) -> V] /\ h[0] = base
      BY <3>1, <3>2, <3>3
    <3>5. ASSUME NEW k \in 0..((n + 1) - 1)
          PROVE  h[k + 1] = F[h[k]]
      <4>1. k \in 0..n /\ h[k] = g[k]
        BY <3>1
      <4>2. CASE k = n
        BY <3>1, <4>1, <4>2
      <4>3. CASE k # n
        <5>1. k \in 0..(n - 1) /\ h[k + 1] = g[k + 1]
          BY <3>1, <4>1, <4>3
        <5>2. QED BY <3>2, <4>1, <5>1
      <4>4. QED BY <4>2, <4>3
    <3>6. Fits(h, n + 1)
      BY <3>4, <3>5
    <3> HIDE DEF Fits, h
    <3>7. QED BY <3>1, <3>6
  <2> HIDE DEF P
  <2>3. P \in SUBSET Nat
    BY DEF P
  <2>4. QED BY <2>1, <2>2, <2>3, NatSetInduction
<1>2. Q = Nat
  <2>1. 0 \in Q
    OBVIOUS
  <2>2. ASSUME NEW n \in Q
        PROVE  n + 1 \in Q
    <3>1. /\ n \in Nat
          /\ \A a, b \in Nat : \A g, h :
                n <= a /\ n <= b /\ Fits(g, a) /\ Fits(h, b) => g[n] = h[n]
      <4> HIDE DEF Fits
      <4>1. QED OBVIOUS
    <3>2. ASSUME NEW a \in Nat, NEW b \in Nat, NEW g, NEW h,
                 n + 1 <= a, n + 1 <= b, Fits(g, a), Fits(h, b)
          PROVE  g[n + 1] = h[n + 1]
      <4>1. n \in 0..(a - 1) /\ n \in 0..(b - 1) /\ n <= a /\ n <= b
        BY <3>1, <3>2
      <4>2. g[n] = h[n]
        <5> HIDE DEF Fits
        <5>1. QED BY <3>1, <3>2, <4>1
      <4>3. QED BY <3>2, <4>1, <4>2
    <3> HIDE DEF Fits
    <3>3. QED BY <3>1, <3>2
  <2> HIDE DEF Q
  <2>3. Q \in SUBSET Nat
    BY DEF Q
  <2>4. QED BY <2>1, <2>2, <2>3, NatSetInduction
<1> DEFINE G(n) == CHOOSE g : Fits(g, n)
           f == [n \in Nat |-> G(n)[n]]
<1>3. ASSUME NEW n \in Nat
      PROVE  Fits(G(n), n)
  <2>1. \E g : Fits(g, n)
    BY <1>1
  <2> HIDE DEF Fits
  <2>2. QED BY <2>1
<1>4. \A a, b, n \in Nat : \A g, h :
         n <= a /\ n <= b /\ Fits(g, a) /\ Fits(h, b) => g[n] = h[n]
  BY <1>2
<1> HIDE DEF P, Q, G
<1>5. f \in [Nat -> V]
  BY <1>3
<1>6. ASSUME NEW n \in Nat
      PROVE  f[n] = IF n = 0 THEN base ELSE F[f[n - 1]]
  <2>1. CASE n = 0
    BY <1>3, <2>1
  <2>2. CASE n # 0
    <3>1. n - 1 \in Nat /\ n - 1 <= n /\ n - 1 \in 0..(n - 1) /\ n - 1 + 1 = n
      BY <2>2
    <3>2. Fits(G(n), n) /\ Fits(G(n - 1), n - 1)
      BY <1>3, <3>1
    <3>3. G(n)[n] = F[G(n)[n - 1]]
      BY <3>1, <3>2
    <3>4. G(n)[n - 1] = G(n - 1)[n - 1]
      <4> HIDE DEF Fits
      <4>1. QED BY <1>4, <3>1, <3>2
    <3>5. f[n] = G(n)[n] /\ f[n - 1] = G(n - 1)[n - 1]
      BY <3>1
    <3>6. QED BY <2>2, <3>3, <3>4, <3>5
  <2>3. QED BY <2>1, <2>2
<1>7. IsIteration(f, base, F)
  <2> HIDE DEF f
  <2>1. QED BY <1>5, <1>6 DEF IsIteration
<1>8. QED BY <1>5, <1>7

-----------------------------------------------------------------------------
\* Finitely many integers have a largest.
LEMMA MaxExists ==
    ASSUME NEW D \in SUBSET Int, IsFiniteSet(D), NEW S \in SUBSET D, S # {}
    PROVE  Max(S) \in S /\ \A y \in S : Max(S) >= y
<1> DEFINE P == {T \in SUBSET D : T = {} \/ \E x \in T : \A y \in T : x >= y}
<1>1. ASSUME NEW T \in SUBSET D, \A x \in T : T \ {x} \in P PROVE T \in P
  <2> SUFFICES ASSUME NEW d \in T PROVE \E x \in T : \A y \in T : x >= y
    OBVIOUS
  <2>1. CASE T \ {d} = {}
    <3>1. \A y \in T : d >= y
      BY <2>1
    <3>2. QED BY <3>1
  <2>2. CASE T \ {d} # {}
    <3>1. PICK m \in T \ {d} : \A y \in T \ {d} : m >= y
      BY <1>1, <2>2
    <3>2. CASE m >= d
      BY <3>1, <3>2
    <3>3. CASE ~(m >= d)
      <4>1. \A y \in T : d >= y
        BY <3>1, <3>3
      <4>2. QED BY <4>1
    <3>4. QED BY <3>2, <3>3
  <2>3. QED BY <2>1, <2>2
<1>2. P = SUBSET D
  <2>1. P \in SUBSET (SUBSET D)
    OBVIOUS
  <2> HIDE DEF P
  <2>2. QED BY <1>1, <2>1, SubsetInduction
<1>3. \E x \in S : \A y \in S : x >= y
  BY <1>2
<1>4. QED BY <1>3 DEF Max

\* The numbers up to k, taken apart at the largest.
LEMMA MaxOfFirst ==
    ASSUME NEW k \in Nat \ {0}
    PROVE  Max(1..k) = k /\ (1..k) \ {Max(1..k)} = 1..(k - 1)
<1>1. 1..k \in SUBSET Int /\ IsFiniteSet(1..k) /\ k \in 1..k
  BY FS_Interval
<1>2. Max(1..k) \in 1..k /\ Max(1..k) >= k
  BY <1>1, MaxExists
<1> DEFINE m == Max(1..k)
<1>3. m \in 1..k /\ m >= k
  BY <1>2
<1> HIDE DEF m
<1>4. m = k /\ (1..k) \ {m} = 1..(k - 1)
  BY <1>3
<1>5. QED BY <1>4 DEF m

\* One whose steps know their number.
IsCounted(f, F, base) ==
    f[0] = base /\ \A n \in Nat \ {0} : f[n] = F[<<f[n - 1], n>>]

LEMMA CountedExists ==
    ASSUME NEW V, NEW base \in V, NEW F \in [V \X Nat -> V]
    PROVE  \E f \in [Nat -> V] : IsCounted(f, F, base)
<1> DEFINE W == V \X Nat
           G == [w \in W |-> <<F[<<w[1], w[2] + 1>>], w[2] + 1>>]
<1>1. <<base, 0>> \in W /\ G \in [W -> W]
  OBVIOUS
<1>2. PICK g \in [Nat -> W] : IsIteration(g, <<base, 0>>, G)
  <2> HIDE DEF W, G
  <2>1. QED BY <1>1, IterationExists
<1>3. g[0] = <<base, 0>> /\ \A n \in Nat \ {0} : g[n] = G[g[n - 1]]
  BY <1>2 DEF IsIteration
<1> DEFINE P == {n \in Nat : g[n][2] = n}
<1>4. P = Nat
  <2>1. 0 \in P
    BY <1>3
  <2>2. ASSUME NEW n \in P PROVE n + 1 \in P
    <3>1. n \in Nat /\ g[n] \in W /\ g[n][2] = n
      OBVIOUS
    <3>2. n + 1 \in Nat \ {0} /\ (n + 1) - 1 = n
      BY <3>1
    <3>3. g[n + 1] = G[g[n]]
      BY <1>3, <3>2
    <3>4. QED BY <3>1, <3>2, <3>3
  <2> HIDE DEF P
  <2>3. P \in SUBSET Nat
    BY DEF P
  <2>4. QED BY <2>1, <2>2, <2>3, NatSetInduction
<1> DEFINE f == [n \in Nat |-> g[n][1]]
<1>5. f \in [Nat -> V] /\ f[0] = base
  BY <1>3
<1>6. ASSUME NEW n \in Nat \ {0} PROVE f[n] = F[<<f[n - 1], n>>]
  <2>1. n - 1 \in Nat /\ (n - 1) + 1 = n
    OBVIOUS
  <2>2. g[n - 1] \in W /\ g[n - 1][2] = n - 1 /\ g[n - 1][1] = f[n - 1]
    BY <1>4, <2>1
  <2>3. g[n] = G[g[n - 1]]
    BY <1>3
  <2>4. g[n] = <<F[<<g[n - 1][1], g[n - 1][2] + 1>>], g[n - 1][2] + 1>>
    BY <2>2, <2>3
  <2>5. g[n][1] = F[<<f[n - 1], n>>]
    BY <2>1, <2>2, <2>4
  <2>6. QED BY <2>5
<1> HIDE DEF f
<1>7. QED BY <1>5, <1>6 DEF IsCounted

\* F makes the value at i of the values at greater numbers alone.
LooksAhead(F, D, V) ==
    \A i \in D, g, h \in [D -> V] : (\A j \in D : j > i => g[j] = h[j]) => F[g][i] = F[h][i]

\* What is defined that way from the greatest of n numbers downwards is there.
IsFixed(g, F) == g = F[g]

LEMMA DescentExists ==
    ASSUME NEW n \in Nat, NEW V, NEW F \in [[1..n -> V] -> [1..n -> V]],
           NEW v \in V, LooksAhead(F, 1..n, V)
    PROVE  \E g \in [1..n -> V] : IsFixed(g, F)
<1> DEFINE W == [1..n -> V]
           base == [i \in 1..n |-> v]
<1>1. base \in W
  OBVIOUS
<1>2. PICK f \in [Nat -> W] : IsIteration(f, base, F)
  <2> HIDE DEF W, base
  <2>1. F \in [W -> W]
    BY DEF W
  <2>2. QED BY <1>1, <2>1, IterationExists
<1>3. \A k \in Nat \ {0} : f[k] = F[f[k - 1]]
  BY <1>2 DEF IsIteration
<1> DEFINE P == {k \in Nat : \A i \in 1..n : i > n - k => f[k + 1][i] = f[k][i]}
<1>4. P = Nat
  <2>1. 0 \in P
    OBVIOUS
  <2>2. ASSUME NEW k \in P PROVE k + 1 \in P
    <3>1. k \in Nat /\ \A i \in 1..n : i > n - k => f[k + 1][i] = f[k][i]
      OBVIOUS
    <3>2. /\ k + 1 \in Nat \ {0} /\ k + 2 \in Nat \ {0}
          /\ (k + 1) - 1 = k /\ (k + 2) - 1 = k + 1 /\ (k + 1) + 1 = k + 2
      BY <3>1
    <3>3. f[k + 1] = F[f[k]] /\ f[k + 2] = F[f[k + 1]]
      BY <1>3, <3>2
    <3>4. f[k] \in W /\ f[k + 1] \in W
      BY <3>1, <3>2
    <3>5. ASSUME NEW i \in 1..n, i > n - (k + 1) PROVE f[k + 2][i] = f[k + 1][i]
      <4>1. \A j \in 1..n : j > i => f[k + 1][j] = f[k][j]
        BY <3>1, <3>5
      <4>2. F[f[k + 1]][i] = F[f[k]][i]
        BY <3>4, <4>1 DEF LooksAhead
      <4>3. QED BY <3>3, <4>2
    <3>6. QED BY <3>2, <3>5
  <2> HIDE DEF P
  <2>3. P \in SUBSET Nat
    BY DEF P
  <2>4. QED BY <2>1, <2>2, <2>3, NatSetInduction
<1>5. n + 1 \in Nat \ {0} /\ (n + 1) - 1 = n /\ f[n] \in W /\ f[n + 1] \in W
  OBVIOUS
<1>6. \A i \in 1..n : f[n + 1][i] = f[n][i]
  <2>1. n \in P
    BY <1>4
  <2>2. \A i \in 1..n : i > n - n
    OBVIOUS
  <2>3. QED BY <2>1, <2>2
<1>7. f[n + 1] = f[n]
  BY <1>5, <1>6
<1>8. f[n + 1] = F[f[n]]
  BY <1>3, <1>5
<1>9. QED BY <1>5, <1>7, <1>8 DEF IsFixed

-----------------------------------------------------------------------------
\* A fold from left to right: the greatest element of a set is taken last.
IsLeftFold(fold, n, B, base) ==
    /\ fold[{}] = base
    /\ \A S \in SUBSET (1..n) : S # {} =>
          /\ Max(S) \in 1..n /\ S \ {Max(S)} \in SUBSET (1..n)
          /\ fold[S] = B[<<fold[S \ {Max(S)}], Max(S)>>]

\* There is one.
LEMMA LeftFoldExists ==
    ASSUME NEW V, NEW base \in V, NEW n \in Nat, NEW B \in [V \X (1..n) -> V]
    PROVE  \E fold \in [SUBSET (1..n) -> V] : IsLeftFold(fold, n, B, base)
<1> DEFINE c == [S \in SUBSET (1..n) |-> Max(S)]
<1>1. IsFiniteSet(1..n) /\ 1..n \in SUBSET Int
  BY FS_Interval
<1>2. \A S \in SUBSET (1..n) : S # {} => Max(S) \in S /\ c[S] = Max(S)
  <2>1. \A S \in SUBSET (1..n) : S # {} => Max(S) \in S
    BY <1>1, MaxExists
  <2>2. QED BY <2>1
<1>3. \A S \in SUBSET (1..n) : S # {} => c[S] \in S
  BY <1>2
<1>4. PICK fold \in [SUBSET (1..n) -> V] : IsFold(fold, 1..n, c, B, base)
  <2> HIDE DEF c
  <2>1. QED BY <1>1, <1>3, FoldExists
<1>5. fold[{}] = base
  BY <1>4 DEF IsFold
<1>6. ASSUME NEW S \in SUBSET (1..n), S # {}
      PROVE  /\ Max(S) \in 1..n /\ S \ {Max(S)} \in SUBSET (1..n)
             /\ fold[S] = B[<<fold[S \ {Max(S)}], Max(S)>>]
  <2>1. Max(S) \in 1..n /\ S \ {Max(S)} \in SUBSET (1..n) /\ c[S] = Max(S)
    BY <1>2, <1>6
  <2>2. fold[S] = B[<<fold[S \ {c[S]}], c[S]>>]
    BY <1>4, <1>6 DEF IsFold
  <2>3. QED BY <2>1, <2>2
<1>7. QED BY <1>5, <1>6 DEF IsLeftFold

-----------------------------------------------------------------------------
\* The sums of f over the subsets of D: any element can be taken out of one.
Sums(sum, D, f) ==
    /\ sum \in [SUBSET D -> Int] /\ sum[{}] = 0
    /\ \A S \in SUBSET D : \A d \in S : sum[S] = f[d] + sum[S \ {d}]

Alike(f, g, E) == \A d \in E : f[d] = g[d]

\* What f adds up to.
Total(f) == FoldFunction(+, 0, f)

\* Over a finite set there are such sums, and the total is the last of them.
LEMMA SumExists ==
    ASSUME NEW D, IsFiniteSet(D), NEW f \in [D -> Int]
    PROVE  \E sum : Sums(sum, D, f) /\ Total(f) = sum[D]
<1> DEFINE Any(S) == CHOOSE d \in S : TRUE
           c == [S \in SUBSET D |-> Any(S)]
           B == [z \in Int \X D |-> f[z[2]] + z[1]]
           Unfolds(s) == s = [S \in SUBSET D |->
                              IF S = {} THEN 0 ELSE f[Any(S)] + s[S \ {Any(S)}]]
           sum == CHOOSE s : Unfolds(s)
<1>1. \A S \in SUBSET D : S # {} => Any(S) \in S /\ c[S] = Any(S)
  OBVIOUS
<1>2. PICK fold \in [SUBSET D -> Int] : IsFold(fold, D, c, B, 0)
  <2>1. B \in [Int \X D -> Int] /\ 0 \in Int
    OBVIOUS
  <2>2. \A S \in SUBSET D : S # {} => c[S] \in S
    BY <1>1
  <2> HIDE DEF B, c
  <2>3. QED BY <2>1, <2>2, FoldExists
<1>3. Unfolds(fold)
  <2> DEFINE body == [S \in SUBSET D |-> IF S = {} THEN 0 ELSE f[Any(S)] + fold[S \ {Any(S)}]]
  <2>1. ASSUME NEW S \in SUBSET D PROVE fold[S] = body[S]
    <3>1. CASE S = {}
      BY <1>2, <3>1 DEF IsFold
    <3>2. CASE S # {}
      <4>1. Any(S) \in D /\ S \ {Any(S)} \in SUBSET D /\ c[S] = Any(S)
        BY <1>1, <3>2
      <4>2. fold[S] = B[<<fold[S \ {Any(S)}], Any(S)>>]
        BY <1>2, <3>2, <4>1 DEF IsFold
      <4>3. fold[S \ {Any(S)}] \in Int
        BY <4>1
      <4>4. QED BY <3>2, <4>1, <4>2, <4>3
    <3>3. QED BY <3>1, <3>2
  <2>2. fold = [S \in SUBSET D |-> fold[S]] /\ DOMAIN body = SUBSET D
    OBVIOUS
  <2>3. fold = body
    BY <2>1, <2>2
  <2>4. QED BY <2>3
<1>4. Unfolds(sum)
  <2> HIDE DEF Unfolds
  <2>1. QED BY <1>3
<1>5. \A S \in SUBSET D : sum[S] = IF S = {} THEN 0 ELSE f[Any(S)] + sum[S \ {Any(S)}]
  <2> HIDE DEF sum
  <2>1. QED BY <1>4
<1>6. DOMAIN sum = SUBSET D
  <2> HIDE DEF sum
  <2>1. QED BY <1>4
<1>7. Total(f) = sum[D]
  BY DEF Total, FoldFunction, FoldFunctionOnSet, MapThenFoldSet
<1> HIDE DEF sum
<1>8. \A S \in SUBSET D : sum[S] \in Int
  <2> DEFINE P == {S \in SUBSET D : sum[S] \in Int}
  <2>1. ASSUME NEW S \in SUBSET D, \A x \in S : S \ {x} \in P PROVE S \in P
    <3>1. S # {} => Any(S) \in S /\ Any(S) \in D
      OBVIOUS
    <3>2. S # {} => sum[S \ {Any(S)}] \in Int /\ f[Any(S)] \in Int
      BY <2>1, <3>1
    <3>3. CASE S = {}
      <4>1. sum[S] = 0
        BY <1>5, <3>3
      <4>2. QED BY <4>1
    <3>4. CASE S # {}
      <4>1. sum[S] = f[Any(S)] + sum[S \ {Any(S)}]
        BY <1>5, <3>4
      <4>2. f[Any(S)] \in Int /\ sum[S \ {Any(S)}] \in Int
        BY <3>2, <3>4
      <4> HIDE DEF Any
      <4>3. sum[S] \in Int
        BY <4>1, <4>2
      <4>4. QED BY <4>3
    <3>5. QED BY <3>3, <3>4
  <2>2. P = SUBSET D
    <3>1. P \in SUBSET (SUBSET D)
      OBVIOUS
    <3> HIDE DEF P
    <3>2. QED BY <2>1, <3>1, SubsetInduction
  <2>3. QED BY <2>2
<1>9. \A S \in SUBSET D : \A d \in S : sum[S] = f[d] + sum[S \ {d}]
  <2> DEFINE P == {S \in SUBSET D : \A d \in S : sum[S] = f[d] + sum[S \ {d}]}
  <2>1. ASSUME NEW S \in SUBSET D, \A x \in S : S \ {x} \in P PROVE S \in P
    <3> SUFFICES ASSUME NEW d \in S PROVE sum[S] = f[d] + sum[S \ {d}]
      OBVIOUS
    <3>1. Any(S) \in S /\ sum[S] = f[Any(S)] + sum[S \ {Any(S)}]
      BY <1>1, <1>5
    <3> HIDE DEF Any
    <3> DEFINE e == Any(S)
    <3>2. e \in S /\ sum[S] = f[e] + sum[S \ {e}]
      BY <3>1
    <3> HIDE DEF e
    <3>3. CASE e = d
      BY <3>2, <3>3
    <3>4. CASE e # d
      <4>1. d \in S \ {e} /\ S \ {e} \in P
        BY <2>1, <3>2, <3>4
      <4>2. sum[S \ {e}] = f[d] + sum[(S \ {e}) \ {d}]
        BY <4>1
      <4>3. e \in S \ {d} /\ S \ {d} \in P
        BY <2>1, <3>2, <3>4
      <4>4. sum[S \ {d}] = f[e] + sum[(S \ {d}) \ {e}]
        BY <4>3
      <4>5. (S \ {e}) \ {d} = (S \ {d}) \ {e}
        OBVIOUS
      <4>6. /\ f[d] \in Int /\ f[e] \in Int
            /\ sum[(S \ {d}) \ {e}] \in Int
        BY <1>8, <3>2
      <4> DEFINE rest == sum[(S \ {d}) \ {e}]
                 a == f[d]
                 b == f[e]
      <4>7. /\ sum[S] = b + (a + rest) /\ sum[S \ {d}] = b + rest
            /\ a \in Int /\ b \in Int /\ rest \in Int
        BY <3>2, <4>2, <4>4, <4>5, <4>6
      <4> HIDE DEF rest, a, b
      <4>8. sum[S] = a + sum[S \ {d}]
        BY <4>7
      <4>9. QED BY <4>8 DEF a
    <3>5. QED BY <3>3, <3>4
  <2>2. P = SUBSET D
    <3>1. P \in SUBSET (SUBSET D)
      OBVIOUS
    <3> HIDE DEF P
    <3>2. QED BY <2>1, <3>1, SubsetInduction
  <2>3. QED BY <2>2
<1>10. sum \in [SUBSET D -> Int]
  <2>1. sum = [S \in SUBSET D |-> sum[S]]
    BY <1>4
  <2>2. QED BY <1>8, <2>1
<1>11. sum[{}] = 0
  BY <1>5
<1>12. QED BY <1>7, <1>9, <1>10, <1>11 DEF Sums

\* They depend on the values summed up, ...
LEMMA SumsAgree ==
    ASSUME NEW D, IsFiniteSet(D), NEW f, NEW g, NEW E \in SUBSET D, Alike(f, g, E),
           NEW s, Sums(s, D, f), NEW t, Sums(t, D, g)
    PROVE  s[E] = t[E]
<1> USE DEF Sums, Alike
<1> DEFINE P == {S \in SUBSET E : s[S] = t[S]}
<1>1. ASSUME NEW S \in SUBSET E, \A x \in S : S \ {x} \in P PROVE S \in P
  <2>1. CASE S = {}
    BY <2>1
  <2>2. CASE S # {}
    <3>1. PICK d \in S : TRUE
      BY <2>2
    <3>2. S \in SUBSET D /\ d \in E
      OBVIOUS
    <3>3. s[S] = f[d] + s[S \ {d}] /\ t[S] = g[d] + t[S \ {d}]
      BY <3>2
    <3>4. s[S \ {d}] = t[S \ {d}]
      BY <1>1
    <3>5. QED BY <3>2, <3>3, <3>4
  <2>3. QED BY <2>1, <2>2
<1>2. IsFiniteSet(E) /\ P \in SUBSET (SUBSET E)
  BY FS_Subset
<1>3. P = SUBSET E
  <2> HIDE DEF P
  <2>1. QED BY <1>1, <1>2, SubsetInduction
<1>4. QED BY <1>3

\* ...and so does the total, which changes with one value as much as that, ...
LEMMA TotalUpdate ==
    ASSUME NEW D, IsFiniteSet(D), NEW f \in [D -> Int], NEW d \in D, NEW v \in Int
    PROVE  /\ Total(f) \in Int
           /\ Total([f EXCEPT ![d] = v]) = Total(f) - f[d] + v
<1> DEFINE g == [f EXCEPT ![d] = v]
           E == D \ {d}
<1>1. g \in [D -> Int] /\ g[d] = v /\ Alike(f, g, E) /\ E \in SUBSET D
  BY DEF Alike
<1> HIDE DEF g
<1>2. PICK s : Sums(s, D, f) /\ Total(f) = s[D]
  BY SumExists
<1>3. PICK t : Sums(t, D, g) /\ Total(g) = t[D]
  BY <1>1, SumExists
<1>4. s[E] = t[E]
  <2> HIDE DEF E
  <2>1. QED BY <1>1, <1>2, <1>3, SumsAgree
<1>5. s[D] = f[d] + s[E] /\ t[D] = v + t[E] /\ s[E] \in Int /\ s[D] \in Int
  BY <1>1, <1>2, <1>3 DEF Sums
<1>6. f[d] \in Int
  OBVIOUS
<1>7. Total(f) \in Int /\ Total(g) = Total(f) - f[d] + v
  BY <1>2, <1>3, <1>4, <1>5, <1>6
<1>8. QED BY <1>7 DEF g

\* ...and is 0 if nothing has a value.
LEMMA TotalOfNothing ==
    ASSUME NEW D, IsFiniteSet(D)
    PROVE  Total([d \in D |-> 0]) = 0
<1> DEFINE f == [d \in D |-> 0]
           t == [S \in SUBSET D |-> 0]
<1>1. f \in [D -> Int] /\ Alike(f, f, D) /\ D \in SUBSET D
  BY DEF Alike
<1>2. Sums(t, D, f) /\ t[D] = 0
  BY DEF Sums
<1> HIDE DEF f, t
<1>3. PICK s : Sums(s, D, f) /\ Total(f) = s[D]
  BY <1>1, SumExists
<1>4. s[D] = t[D]
  BY <1>1, <1>2, <1>3, SumsAgree
<1>5. QED BY <1>2, <1>3, <1>4 DEF f

-----------------------------------------------------------------------------
(* Folds of sequences                                                      *)

\* A set of sequences that has the empty one, and with each those with one
\* element more, has them all.
LEMMA SeqSetInduction ==
    ASSUME NEW T, NEW P \in SUBSET Seq(T), << >> \in P,
           \A s \in P, t \in T : Append(s, t) \in P
    PROVE  P = Seq(T)
<1> DEFINE Q == {n \in Nat : \A s \in Seq(T) : Len(s) = n => s \in P}
<1>1. 0 \in Q
  <2>1. ASSUME NEW s \in Seq(T), Len(s) = 0 PROVE s \in P
    <3>1. s = << >>
      BY <2>1, EmptySeq
    <3>2. QED BY <3>1
  <2>2. QED BY <2>1
<1>2. ASSUME NEW n \in Q PROVE n + 1 \in Q
  <2>1. n \in Nat /\ \A s \in Seq(T) : Len(s) = n => s \in P
    OBVIOUS
  <2>2. ASSUME NEW s \in Seq(T), Len(s) = n + 1 PROVE s \in P
    <3>1. s # << >>
      BY <2>1, <2>2, EmptySeq
    <3>2. PICK q \in Seq(T), t \in T : s = Append(q, t)
      BY <3>1, SequenceEmptyOrAppend
    <3>3. Len(s) = Len(q) + 1 /\ Len(q) \in Nat
      BY <3>2, AppendProperties, LenProperties
    <3>4. Len(q) = n
      BY <2>1, <2>2, <3>3
    <3>5. QED BY <2>1, <3>2, <3>4
  <2>3. QED BY <2>1, <2>2
<1>3. Q \in SUBSET Nat
  OBVIOUS
<1>4. Q = Nat
  <2> HIDE DEF Q
  <2>1. QED BY <1>1, <1>2, <1>3, NatSetInduction
<1>5. ASSUME NEW s \in Seq(T) PROVE s \in P
  <2>1. Len(s) \in Q
    BY <1>4, LenProperties
  <2>2. QED BY <2>1
<1>6. QED BY <1>5

\* B makes of a value and an element a value.
Steps(B, V, T) == B \in [V \X T -> V]

\* The values of a fold of B over s from left to right, from v.
IsRun(r, B, v, s) ==
    r[0] = v /\ \A k \in 1..Len(s) : r[k] = B[<<r[k - 1], s[k]>>]

Folded(B, v, s) == CHOOSE w : \E r : IsRun(r, B, v, s) /\ w = r[Len(s)]

\* They are known, ...
LEMMA RunIsFold ==
    ASSUME NEW V, NEW T, NEW B, Steps(B, V, T), NEW v \in V, NEW s \in Seq(T),
           NEW r, IsRun(r, B, v, s)
    PROVE  Folded(B, v, s) = r[Len(s)] /\ r[Len(s)] \in V
<1> DEFINE P == {k \in 0..Len(s) : r[k] \in V}
<1>1. Len(s) \in Nat /\ (\A k \in 1..Len(s) : s[k] \in T) /\ B \in [V \X T -> V]
  BY LenProperties, ElementOfSeq DEF Steps
<1>2. r[0] = v /\ \A k \in 1..Len(s) : r[k] = B[<<r[k - 1], s[k]>>]
  BY DEF IsRun
<1>3. \A k \in 0..Len(s) : r[k] \in V
  <2>1. 0 \in P
    BY <1>1, <1>2
  <2>2. ASSUME NEW k \in 1..Len(s), k - 1 \in P PROVE k \in P
    <3>1. r[k - 1] \in V /\ s[k] \in T /\ k \in 0..Len(s)
      BY <1>1, <2>2
    <3>2. r[k] = B[<<r[k - 1], s[k]>>]
      BY <1>2
    <3>3. B[<<r[k - 1], s[k]>>] \in V
      BY <1>1, <3>1
    <3>4. QED BY <3>1, <3>2, <3>3
  <2>3. \A k \in 0..Len(s) : k \in P
    <3> DEFINE n == Len(s)
    <3>1. n \in Nat /\ \A k \in 1..n : k - 1 \in P => k \in P
      BY <1>1, <2>2
    <3> HIDE DEF P, n
    <3>2. \A k \in 0..n : k \in P
      BY <2>1, <3>1, UptoInduction
    <3>3. QED BY <3>2 DEF n
  <2>4. QED BY <2>3
<1>4. ASSUME NEW q, IsRun(q, B, v, s) PROVE \A k \in 0..Len(s) : q[k] = r[k]
  <2> DEFINE Q == {k \in 0..Len(s) : q[k] = r[k]}
             n == Len(s)
  <2>1. q[0] = v /\ \A k \in 1..Len(s) : q[k] = B[<<q[k - 1], s[k]>>]
    BY <1>4 DEF IsRun
  <2>2. 0 \in Q
    BY <1>1, <1>2, <2>1
  <2>3. ASSUME NEW k \in 1..n, k - 1 \in Q PROVE k \in Q
    <3>1. k \in 0..n /\ q[k - 1] = r[k - 1]
      BY <1>1, <2>3
    <3>2. q[k] = B[<<q[k - 1], s[k]>>] /\ r[k] = B[<<r[k - 1], s[k]>>]
      BY <1>2, <2>1
    <3>3. QED BY <3>1, <3>2
  <2>4. n \in Nat /\ \A k \in 1..n : k - 1 \in Q => k \in Q
    BY <1>1, <2>3
  <2> HIDE DEF Q, n
  <2>5. \A k \in 0..n : k \in Q
    BY <2>2, <2>4, UptoInduction
  <2>6. QED BY <2>5 DEF Q, n
<1>5. Folded(B, v, s) = r[Len(s)]
  <2> DEFINE Ends(w) == \E q : IsRun(q, B, v, s) /\ w = q[Len(s)]
  <2>1. Len(s) \in 0..Len(s)
    BY <1>1
  <2>2. Ends(r[Len(s)])
    OBVIOUS
  <2>3. \A w : Ends(w) => w = r[Len(s)]
    BY <1>4, <2>1
  <2> HIDE DEF Ends
  <2>4. (CHOOSE w : Ends(w)) = r[Len(s)]
    BY <2>2, <2>3
  <2>5. QED BY <2>4 DEF Folded, Ends
<1>6. Len(s) \in 0..Len(s)
  BY <1>1
<1>7. QED BY <1>3, <1>5, <1>6

\* ...there are some, ...
LEMMA RunExists ==
    ASSUME NEW V, NEW T, NEW B, Steps(B, V, T), NEW v \in V, NEW s \in Seq(T)
    PROVE  \E r : IsRun(r, B, v, s)
<1> DEFINE n == Len(s)
           F == [z \in V \X Nat |-> IF z[2] \in 1..n THEN B[<<z[1], s[z[2]]>>] ELSE z[1]]
<1>1. n \in Nat /\ (\A k \in 1..n : s[k] \in T) /\ B \in [V \X T -> V]
  BY LenProperties, ElementOfSeq DEF Steps
<1>2. F \in [V \X Nat -> V]
  BY <1>1
<1>3. PICK f \in [Nat -> V] : IsCounted(f, F, v)
  <2> HIDE DEF F
  <2>1. QED BY <1>2, CountedExists
<1>4. ASSUME NEW k \in 1..n PROVE f[k] = B[<<f[k - 1], s[k]>>]
  <2>1. k \in Nat \ {0} /\ k - 1 \in Nat
    BY <1>1
  <2>2. f[k] = F[<<f[k - 1], k>>] /\ f[k - 1] \in V
    BY <1>3, <2>1 DEF IsCounted
  <2>3. QED BY <2>1, <2>2
<1>5. f[0] = v
  BY <1>3 DEF IsCounted
<1>6. QED BY <1>4, <1>5 DEF IsRun

\* ...and they go on.
LEMMA FoldedConcat ==
    ASSUME NEW V, NEW T, NEW B, Steps(B, V, T), NEW v \in V, NEW s \in Seq(T), NEW u \in Seq(T)
    PROVE  /\ Folded(B, v, s) \in V
           /\ Folded(B, v, s \o u) = Folded(B, Folded(B, v, s), u)
<1>1. PICK r : IsRun(r, B, v, s)
  BY RunExists
<1>2. Len(s) \in Nat /\ Len(u) \in Nat
  BY LenProperties
<1>3. Folded(B, v, s) = r[Len(s)] /\ r[Len(s)] \in V
  BY <1>1, <1>2, RunIsFold
<1>4. PICK q : IsRun(q, B, r[Len(s)], u)
  BY <1>3, RunExists
<1>5. Folded(B, r[Len(s)], u) = q[Len(u)]
  BY <1>3, <1>4, RunIsFold
<1> DEFINE m == Len(s)
           p == [k \in 0..(m + Len(u)) |-> IF k <= m THEN r[k] ELSE q[k - m]]
<1>6. s \o u \in Seq(T) /\ Len(s \o u) = m + Len(u)
      /\ \A k \in 1..(m + Len(u)) : (s \o u)[k] = IF k <= m THEN s[k] ELSE u[k - m]
  BY ConcatProperties
<1>7. ASSUME NEW k \in 1..(m + Len(u)) PROVE p[k] = B[<<p[k - 1], (s \o u)[k]>>]
  <2>1. CASE k <= m
    <3>1. k \in 1..m /\ k - 1 \in 0..(m + Len(u)) /\ k - 1 <= m /\ k \in 0..(m + Len(u))
      BY <1>2, <2>1
    <3>2. r[k] = B[<<r[k - 1], s[k]>>]
      BY <1>1, <3>1 DEF IsRun
    <3>3. p[k] = r[k] /\ p[k - 1] = r[k - 1] /\ (s \o u)[k] = s[k]
      BY <1>6, <2>1, <3>1
    <3>4. QED BY <3>2, <3>3
  <2>2. CASE ~(k <= m)
    <3>1. k - m \in 1..Len(u) /\ k - 1 \in 0..(m + Len(u)) /\ k \in 0..(m + Len(u))
          /\ (k - m) - 1 = (k - 1) - m
      BY <1>2, <2>2
    <3>2. q[k - m] = B[<<q[(k - 1) - m], u[k - m]>>]
      BY <1>4, <3>1 DEF IsRun
    <3>3. p[k] = q[k - m] /\ (s \o u)[k] = u[k - m]
      BY <1>6, <2>2, <3>1
    <3>4. p[k - 1] = q[(k - 1) - m]
      <4>1. CASE k - 1 <= m
        <5>1. k - 1 = m /\ (k - 1) - m = 0
          BY <1>2, <2>2, <4>1
        <5>2. q[0] = r[m]
          BY <1>4 DEF IsRun
        <5>3. QED BY <3>1, <5>1, <5>2
      <4>2. CASE ~(k - 1 <= m)
        BY <3>1, <4>2
      <4>3. QED BY <4>1, <4>2
    <3>5. QED BY <3>2, <3>3, <3>4
  <2>3. QED BY <2>1, <2>2
<1>8. IsRun(p, B, v, s \o u)
  <2>1. p[0] = v
    <3>1. 0 \in 0..(m + Len(u)) /\ 0 <= m
      BY <1>2
    <3>2. r[0] = v
      BY <1>1 DEF IsRun
    <3>3. QED BY <3>1, <3>2
  <2>2. QED BY <1>6, <1>7, <2>1 DEF IsRun
<1>9. p[m + Len(u)] = q[Len(u)]
  <2>1. m + Len(u) \in 0..(m + Len(u)) /\ (m + Len(u)) - m = Len(u)
    BY <1>2
  <2>2. CASE Len(u) = 0
    <3>1. m + Len(u) <= m /\ m + Len(u) = m
      BY <1>2, <2>2
    <3>2. q[0] = r[m]
      BY <1>4 DEF IsRun
    <3>3. QED BY <2>1, <2>2, <3>1, <3>2
  <2>3. CASE Len(u) # 0
    <3>1. ~(m + Len(u) <= m)
      BY <1>2, <2>3
    <3>2. QED BY <2>1, <3>1
  <2>4. QED BY <2>2, <2>3
<1> HIDE DEF p
<1>10. Folded(B, v, s \o u) = p[m + Len(u)]
  <2> DEFINE w == s \o u
  <2>1. w \in Seq(T) /\ IsRun(p, B, v, w)
    BY <1>6, <1>8
  <2> HIDE DEF w
  <2>2. Folded(B, v, w) = p[Len(w)]
    BY <2>1, RunIsFold
  <2>3. QED BY <1>6, <2>2 DEF w
<1>11. QED BY <1>3, <1>5, <1>9, <1>10

\* A fold of nothing, ...
LEMMA FoldedNone ==
    ASSUME NEW V, NEW T, NEW B, Steps(B, V, T), NEW v \in V
    PROVE  Folded(B, v, << >>) = v
<1> DEFINE w == << >>
           r == [k \in 0..0 |-> v]
<1>1. w \in Seq(T) /\ Len(w) = 0 /\ r[0] = v /\ IsRun(r, B, v, w)
  BY DEF IsRun
<1> HIDE DEF r, w
<1>2. ASSUME NEW s \in Seq(T), IsRun(r, B, v, s) PROVE Folded(B, v, s) = r[Len(s)]
  BY <1>2, RunIsFold
<1>3. QED BY <1>1, <1>2 DEF w

\* ...and of one element.
LEMMA FoldedOne ==
    ASSUME NEW V, NEW T, NEW B, Steps(B, V, T), NEW v \in V, NEW t \in T
    PROVE  Folded(B, v, <<t>>) = B[<<v, t>>]
<1> DEFINE w == <<t>>
           r == [k \in 0..1 |-> IF k = 0 THEN v ELSE B[<<v, t>>]]
<1>1. w \in Seq(T) /\ Len(w) = 1 /\ w[1] = t
  OBVIOUS
<1>2. r[0] = v /\ r[1] = B[<<v, t>>]
  OBVIOUS
<1> HIDE DEF r, w
<1>3. IsRun(r, B, v, w)
  BY <1>1, <1>2 DEF IsRun
<1>4. ASSUME NEW s \in Seq(T), IsRun(r, B, v, s) PROVE Folded(B, v, s) = r[Len(s)]
  BY <1>4, RunIsFold
<1>5. QED BY <1>1, <1>2, <1>3, <1>4 DEF w

\* The greatest of some of the numbers up to n is one of them.
LEMMA MaxOfSome ==
    ASSUME NEW n \in Nat, NEW S \in SUBSET (1..n), S # {}
    PROVE  Max(S) \in 1..n
<1>1. IsFiniteSet(1..n) /\ 1..n \in SUBSET Int
  BY FS_Interval
<1>2. Max(S) \in S
  BY <1>1, MaxExists
<1>3. QED BY <1>2

\* What folds that way over the numbers of the elements is the fold of them.
FoldsOver(g, B, V, v, s) ==
    /\ g[{}] = v
    /\ \A S \in SUBSET (1..Len(s)) : S # {} /\ g[S \ {Max(S)}] \in V =>
           g[S] = B[<<g[S \ {Max(S)}], s[Max(S)]>>]

LEMMA FoldedOver ==
    ASSUME NEW V, NEW T, NEW B, Steps(B, V, T), NEW v \in V, NEW s \in Seq(T),
           NEW g, FoldsOver(g, B, V, v, s)
    PROVE  g[1..Len(s)] = Folded(B, v, s)
<1> DEFINE n == Len(s)
           P == {k \in 0..n : g[1..k] \in V}
           r == [k \in 0..n |-> g[1..k]]
<1>1. n \in Nat /\ (\A k \in 1..n : s[k] \in T) /\ B \in [V \X T -> V]
  BY LenProperties, ElementOfSeq DEF Steps
<1>2. ASSUME NEW k \in 1..n, g[1..(k - 1)] \in V
      PROVE  g[1..k] = B[<<g[1..(k - 1)], s[k]>>] /\ g[1..k] \in V
  <2>1. Max(1..k) = k /\ (1..k) \ {Max(1..k)} = 1..(k - 1) /\ 1..k \in SUBSET (1..n) /\ 1..k # {}
    BY <1>1, MaxOfFirst
  <2>2. g[1..k] = B[<<g[1..(k - 1)], s[k]>>]
    BY <1>2, <2>1 DEF FoldsOver
  <2>3. QED BY <1>1, <1>2, <2>2
<1>3. 1..0 = {} /\ 0 \in 0..n
  BY <1>1
<1>4. \A k \in 0..n : k \in P
  <2>1. 0 \in P
    BY <1>3 DEF FoldsOver
  <2>2. \A k \in 1..n : k - 1 \in P => k \in P
    <3>1. ASSUME NEW k \in 1..n, k - 1 \in P PROVE k \in P
      <4>1. k \in 0..n /\ k - 1 \in 0..n /\ g[1..(k - 1)] \in V
        BY <1>1, <3>1
      <4>2. QED BY <1>2, <4>1
    <3>2. QED BY <3>1
  <2> HIDE DEF P, n
  <2>3. n \in Nat
    BY <1>1 DEF n
  <2>4. QED BY <2>1, <2>2, <2>3, UptoInduction
<1>5. IsRun(r, B, v, s)
  <2>1. r[0] = v
    BY <1>3 DEF FoldsOver
  <2>2. ASSUME NEW k \in 1..n PROVE r[k] = B[<<r[k - 1], s[k]>>]
    <3>1. k - 1 \in 0..n /\ k \in 0..n
      BY <1>1
    <3>2. g[1..(k - 1)] \in V
      BY <1>4, <3>1
    <3>3. g[1..k] = B[<<g[1..(k - 1)], s[k]>>]
      BY <1>2, <3>2
    <3>4. QED BY <3>1, <3>3
  <2>3. QED BY <2>1, <2>2 DEF IsRun
<1>6. r[n] = g[1..n]
  BY <1>1
<1> HIDE DEF r
<1>7. Folded(B, v, s) = r[n]
  BY <1>5, RunIsFold
<1>8. QED BY <1>6, <1>7
=============================================================================
