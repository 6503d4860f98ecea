----------------------------- MODULE ScoringProofs -----------------------------
(***************************************************************************)
(* Proofs about Scoring, for any data: whatever a source reports, a band   *)
(* gives a listed score and a weighted mean of scores stays among them.    *)
(* The lemmas on sums and means serve the other proofs as well.            *)
(***************************************************************************)
EXTENDS Scoring, FiniteSetTheorems, WellFoundedInduction, TLAPS

-----------------------------------------------------------------------------
(* Sums over finite sets: a fold is the function its recursion defines.    *)

(* A nonempty set of numbers has a least element. *)
LEMMA Least ==
  ASSUME NEW S \in SUBSET Nat, S # {}
  PROVE  \E n \in S : \A m \in S : n <= m
<1> DEFINE R == OpToRel(<, Nat)
<1>1. IsWellFoundedOn(R, Nat)
  BY NatLessThanWellFounded
<1>2. PICK n \in S : \A m \in S : ~ (<<m, n>> \in R)
  <2> HIDE DEF R
  <2> QED BY <1>1, WFMin
<1>3. \A m \in S : ~ (m < n)
  BY <1>2 DEF OpToRel
<1> QED BY <1>3

(* A nonempty collection of subsets of a finite set has a smallest one. *)
LEMMA Smallest ==
  ASSUME NEW S, IsFiniteSet(S), NEW T \in SUBSET SUBSET S, T # {}
  PROVE  \E t \in T : \A u \in T : Cardinality(t) <= Cardinality(u)
<1> DEFINE N == {Cardinality(t) : t \in T}
<1>1. \A t \in SUBSET S : Cardinality(t) \in Nat
  BY FS_Subset, FS_CardinalityType
<1>2. N \in SUBSET Nat /\ N # {}
  BY <1>1
<1>3. PICK n \in N : \A m \in N : n <= m
  <2> HIDE DEF N
  <2> QED BY <1>2, Least
<1> QED BY <1>3

(* The element a fold takes next. *)
Pick(s) == CHOOSE x \in s : TRUE
LEMMA PickLemma ==
  ASSUME NEW S, IsFiniteSet(S), S # {}
  PROVE  /\ Pick(S) \in S
         /\ IsFiniteSet(S \ {Pick(S)})
         /\ Cardinality(S \ {Pick(S)}) < Cardinality(S)
<1>1. Pick(S) \in S
  BY DEF Pick
<1>2. Cardinality(S) \in Nat
  BY FS_CardinalityType
<1>3. IsFiniteSet(S \ {Pick(S)}) /\ Cardinality(S \ {Pick(S)}) = Cardinality(S) - 1
  BY <1>1, FS_RemoveElement
<1> QED BY <1>1, <1>2, <1>3

(* h sums g over every subset of S. *)
IsSum(g, S, h) ==
  h = [s \in SUBSET S |-> IF s = {} THEN 0 ELSE g[Pick(s)] + h[s \ {Pick(s)}]]

(* The sums over two subsets agree on what these share. *)
LEMMA SumsAgree ==
  ASSUME NEW S, IsFiniteSet(S), NEW g, NEW U \in SUBSET S, NEW V \in SUBSET S,
         NEW h, NEW k, IsSum(g, U, h), IsSum(g, V, k)
  PROVE  \A s \in SUBSET (U \cap V) : h[s] = k[s]
<1> DEFINE T == {s \in SUBSET (U \cap V) : h[s] # k[s]}
<1> SUFFICES ASSUME T # {} PROVE FALSE
  OBVIOUS
<1>1. PICK s \in T : \A u \in T : Cardinality(s) <= Cardinality(u)
  <2>1. T \in SUBSET SUBSET S
    OBVIOUS
  <2> HIDE DEF T
  <2> QED BY <2>1, Smallest
<1>2. s \in SUBSET U /\ s \in SUBSET V /\ IsFiniteSet(s) /\ Cardinality(s) \in Nat
  BY <1>1, FS_Subset, FS_CardinalityType
<1>3. s # {}
  BY <1>1, <1>2 DEF IsSum
<1> DEFINE r == s \ {Pick(s)}
<1>4. r \in SUBSET (U \cap V) /\ Cardinality(r) < Cardinality(s) /\ Cardinality(r) \in Nat
  BY <1>1, <1>2, <1>3, PickLemma, FS_CardinalityType
<1>5. h[r] = k[r]
  <2>1. r \notin T
    <3> HIDE DEF T, r
    <3> QED BY <1>1, <1>2, <1>4
  <2> HIDE DEF r
  <2> QED BY <2>1, <1>4
<1>6. h[s] = g[Pick(s)] + h[r] /\ k[s] = g[Pick(s)] + k[r]
  BY <1>2, <1>3 DEF IsSum
<1> QED BY <1>1, <1>5, <1>6

(* Every function has its sums over the subsets of a finite set. *)
LEMMA SumsExist ==
  ASSUME NEW S, IsFiniteSet(S), NEW g
  PROVE  \E h : IsSum(g, S, h)
<1> DEFINE T == {t \in SUBSET S : ~ \E h : IsSum(g, t, h)}
<1> SUFFICES ASSUME T # {} PROVE FALSE
  OBVIOUS
<1>1. PICK t \in T : \A u \in T : Cardinality(t) <= Cardinality(u)
  <2>1. T \in SUBSET SUBSET S
    OBVIOUS
  <2> HIDE DEF T
  <2> QED BY <2>1, Smallest
<1> DEFINE H(u) == CHOOSE h : IsSum(g, u, h)
           R(s) == s \ {Pick(s)}
           F == [s \in SUBSET t |-> IF s = {} THEN 0 ELSE g[Pick(s)] + H(R(s))[R(s)]]
<1>2. ASSUME NEW s \in SUBSET t, s # {}
      PROVE  R(s) \in SUBSET t /\ R(s) \in SUBSET S /\ IsSum(g, R(s), H(R(s)))
  <2>1. t \in SUBSET S /\ IsFiniteSet(s) /\ IsFiniteSet(t) /\ Cardinality(t) \in Nat
        /\ Cardinality(s) \in Nat /\ Cardinality(s) <= Cardinality(t)
    BY <1>1, FS_Subset, FS_CardinalityType
  <2>2. R(s) \in SUBSET t /\ Cardinality(R(s)) < Cardinality(s) /\ Cardinality(R(s)) \in Nat
    BY <1>2, <2>1, PickLemma, FS_CardinalityType
  <2>3. R(s) \notin T
    <3> HIDE DEF T, R
    <3> QED BY <1>1, <2>1, <2>2
  <2>4. \E h : IsSum(g, R(s), h)
    <3> HIDE DEF R
    <3> QED BY <2>1, <2>2, <2>3
  <2> HIDE DEF R
  <2> QED BY <2>1, <2>2, <2>4
<1>3. ASSUME NEW s \in SUBSET t, s # {}
      PROVE  F[R(s)] = H(R(s))[R(s)]
  <2> DEFINE r == R(s)
  <2> SUFFICES F[r] = H(r)[r]
    OBVIOUS
  <2>1. r \in SUBSET t /\ r \in SUBSET S /\ IsSum(g, r, H(r))
    BY <1>2, <1>3
  <2>2. CASE r = {}
    <3> HIDE DEF r, H
    <3> QED BY <2>1, <2>2 DEF IsSum
  <2>3. CASE r # {}
    <3>1. R(r) \in SUBSET r /\ R(r) \in SUBSET S /\ IsSum(g, R(r), H(R(r)))
      <4> HIDE DEF r, H
      <4> QED BY <1>2, <2>1, <2>3
    <3>2. H(r)[r] = g[Pick(r)] + H(r)[R(r)]
      <4> HIDE DEF r, H
      <4> QED BY <2>1, <2>3 DEF IsSum
    <3>3. H(r)[R(r)] = H(R(r))[R(r)]
      <4>1. R(r) \in SUBSET (r \cap R(r))
        BY <3>1
      <4> HIDE DEF r, R, H
      <4> QED BY <2>1, <3>1, <4>1, SumsAgree
    <3> HIDE DEF r, R, H
    <3> QED BY <2>1, <2>3, <3>2, <3>3
  <2> QED BY <2>2, <2>3
<1>4. IsSum(g, t, F)
  <2>1. F = [s \in SUBSET t |-> IF s = {} THEN 0 ELSE g[Pick(s)] + F[R(s)]]
    <3>1. \A s \in SUBSET t : F[s] = IF s = {} THEN 0 ELSE g[Pick(s)] + F[R(s)]
      <4> HIDE DEF H, R
      <4> QED BY <1>3
    <3>2. F = [s \in SUBSET t |-> F[s]]
      OBVIOUS
    <3> HIDE DEF F, R
    <3> QED BY <3>1, <3>2
  <2> HIDE DEF F
  <2> QED BY <2>1 DEF IsSum
<1> QED BY <1>1, <1>4

(* One more term keeps a weighted sum between its bounds. *)
LEMMA Products ==
  ASSUME NEW low \in Int, NEW high \in Int, NEW a \in Int, NEW w \in Nat,
         NEW x \in Nat, NEW y \in Int, low <= a, a <= high, low * x <= y, y <= high * x
  PROVE  low * (w + x) <= a * w + y /\ a * w + y <= high * (w + x) /\ a * w + y \in Int
<1>1. low * w <= a * w /\ a * w <= high * w
  OBVIOUS
<1>2. low * (w + x) = low * w + low * x /\ high * (w + x) = high * w + high * x
  OBVIOUS
<1>3. low * w \in Int /\ low * x \in Int /\ high * w \in Int /\ high * x \in Int /\ a * w \in Int
  OBVIOUS
<1> QED BY <1>1, <1>2, <1>3

(* The two sums of a weighted mean: the weights add up to a number, and the *)
(* weighted scores to one between their bounds times that number.           *)
LEMMA WeightedSums ==
  ASSUME NEW S, IsFiniteSet(S), NEW score, NEW weight, NEW low \in Int, NEW high \in Int,
         \A f \in S : score[f] \in low..high /\ weight[f] \in Nat
  PROVE  /\ Total(S, weight) \in Nat
         /\ WeightedSum(S, score, weight) \in Int
         /\ low * Total(S, weight) <= WeightedSum(S, score, weight)
         /\ WeightedSum(S, score, weight) <= high * Total(S, weight)
<1> DEFINE h == CHOOSE w : IsSum(weight, S, w)
           IsProducts(v) ==
             v = [s \in SUBSET S |-> IF s = {} THEN 0
                                     ELSE score[Pick(s)] * weight[Pick(s)] + v[s \ {Pick(s)}]]
           k == CHOOSE v : IsProducts(v)
<1>1. IsSum(weight, S, h)
  BY SumsExist
<1>2. IsProducts(k)
  <2> DEFINE g == [f \in S |-> score[f] * weight[f]]
  <2>1. PICK v : IsSum(g, S, v)
    <3> HIDE DEF g
    <3> QED BY SumsExist
  <2>2. \A s \in SUBSET S : s # {} => g[Pick(s)] = score[Pick(s)] * weight[Pick(s)]
    BY DEF Pick
  <2>3. IsProducts(v)
    <3> HIDE DEF g
    <3> QED BY <2>1, <2>2 DEF IsSum
  <2> HIDE DEF IsProducts
  <2> QED BY <2>3
<1>3. Total(S, weight) = h[S]
  BY DEF Total, MapThenSumSet, MapThenFoldSet, IsSum, Pick
<1>4. WeightedSum(S, score, weight) = k[S]
  BY DEF WeightedSum, MapThenSumSet, MapThenFoldSet, Pick
<1> DEFINE Good(s) == h[s] \in Nat /\ k[s] \in Int /\ low * h[s] <= k[s] /\ k[s] <= high * h[s]
           T == {s \in SUBSET S : ~ Good(s)}
<1>5. T = {}
  <2> SUFFICES ASSUME T # {} PROVE FALSE
    OBVIOUS
  <2>1. PICK s \in T : \A u \in T : Cardinality(s) <= Cardinality(u)
    <3>1. T \in SUBSET SUBSET S
      OBVIOUS
    <3> HIDE DEF T
    <3> QED BY <3>1, Smallest
  <2>2. s \in SUBSET S /\ IsFiniteSet(s) /\ Cardinality(s) \in Nat
    BY <2>1, FS_Subset, FS_CardinalityType
  <2>3. CASE s = {}
    <3>1. h[s] = 0 /\ k[s] = 0
      BY <1>1, <1>2, <2>3 DEF IsSum
    <3>2. Good(s)
      <4> HIDE DEF h, k
      <4> QED BY <3>1
    <3> QED BY <2>1, <3>2
  <2>4. CASE s # {}
    <3> DEFINE p == Pick(s)
               r == s \ {p}
    <3>1. p \in S /\ r \in SUBSET S /\ Cardinality(r) < Cardinality(s) /\ Cardinality(r) \in Nat
      BY <2>2, <2>4, PickLemma, FS_CardinalityType
    <3>2. h[s] = weight[p] + h[r] /\ k[s] = score[p] * weight[p] + k[r]
      BY <1>1, <1>2, <2>2, <2>4 DEF IsSum
    <3>3. r \notin T
      <4> HIDE DEF T, r, p
      <4> QED BY <2>1, <2>2, <3>1
    <3>4. Good(r)
      <4> HIDE DEF Good, r, p
      <4> QED BY <3>1, <3>3
    <3> HIDE DEF h, k, p, r
    <3>5. /\ weight[p] \in Nat /\ score[p] \in Int /\ low <= score[p] /\ score[p] <= high
          /\ h[r] \in Nat /\ k[r] \in Int /\ low * h[r] <= k[r] /\ k[r] <= high * h[r]
      BY <3>1, <3>4
    <3>6. Good(s)
      BY <3>2, <3>5, Products
    <3> QED BY <2>1, <3>6
  <2> QED BY <2>3, <2>4
<1>6. Good(S)
  <2>1. S \in SUBSET S
    OBVIOUS
  <2> HIDE DEF Good
  <2> QED BY <1>5, <2>1
<1> HIDE DEF h, k
<1> QED BY <1>3, <1>4, <1>6

(* A sum takes off one member at a time. *)
LEMMA TotalStep ==
  ASSUME NEW S, IsFiniteSet(S), NEW amount
  PROVE  Total(S, amount)
           = IF S = {} THEN 0 ELSE amount[Pick(S)] + Total(S \ {Pick(S)}, amount)
<1> DEFINE H(U) == CHOOSE h : IsSum(amount, U, h)
<1>1. ASSUME NEW U, IsFiniteSet(U) PROVE IsSum(amount, U, H(U)) /\ Total(U, amount) = H(U)[U]
  <2>1. IsSum(amount, U, H(U))
    BY <1>1, SumsExist
  <2>2. Total(U, amount) = H(U)[U]
    BY DEF Total, MapThenSumSet, MapThenFoldSet, IsSum, Pick
  <2> QED BY <2>1, <2>2
<1> HIDE DEF H
<1>2. IsSum(amount, S, H(S)) /\ Total(S, amount) = H(S)[S]
  BY <1>1
<1>3. CASE S = {}
  BY <1>2, <1>3 DEF IsSum
<1>4. CASE S # {}
  <2> DEFINE r == S \ {Pick(S)}
  <2>1. IsFiniteSet(r) /\ r \in SUBSET S /\ r \in SUBSET (S \cap r)
    BY <1>4, PickLemma
  <2>2. H(S)[S] = amount[Pick(S)] + H(S)[r]
    BY <1>2, <1>4 DEF IsSum
  <2> HIDE DEF r
  <2>3. IsSum(amount, r, H(r)) /\ Total(r, amount) = H(r)[r]
    BY <1>1, <2>1
  <2>4. H(S)[r] = H(r)[r]
    <3>1. S \in SUBSET S
      OBVIOUS
    <3> QED BY <1>2, <2>1, <2>3, <3>1, SumsAgree
  <2> QED BY <1>2, <1>4, <2>2, <2>3, <2>4 DEF r
<1> QED BY <1>3, <1>4

(* Whole numbers add up to one, and positive ones to a positive one. *)
LEMMA TotalIsInt ==
  ASSUME NEW S, IsFiniteSet(S), NEW amount, \A x \in S : amount[x] \in Int
  PROVE  Total(S, amount) \in Int
<1> DEFINE T == {t \in SUBSET S : Total(t, amount) \notin Int}
<1> SUFFICES ASSUME T # {} PROVE FALSE
  <2>1. S \in SUBSET S
    OBVIOUS
  <2> QED BY <2>1
<1>1. PICK t \in T : \A u \in T : Cardinality(t) <= Cardinality(u)
  <2>1. T \in SUBSET SUBSET S
    OBVIOUS
  <2> HIDE DEF T
  <2> QED BY <2>1, Smallest
<1>2. t \in SUBSET S /\ IsFiniteSet(t) /\ Cardinality(t) \in Nat /\ Total(t, amount) \notin Int
  BY <1>1, FS_Subset, FS_CardinalityType
<1>3. t # {}
  <2>1. Total(t, amount) = IF t = {} THEN 0 ELSE amount[Pick(t)] + Total(t \ {Pick(t)}, amount)
    BY <1>2, TotalStep
  <2> QED BY <1>2, <2>1
<1> DEFINE r == t \ {Pick(t)}
<1>4. /\ Pick(t) \in S /\ r \in SUBSET S
      /\ Cardinality(r) < Cardinality(t) /\ Cardinality(r) \in Nat
  BY <1>2, <1>3, PickLemma, FS_CardinalityType
<1>5. Total(t, amount) = amount[Pick(t)] + Total(r, amount)
  BY <1>2, <1>3, TotalStep
<1>6. r \notin T
  <2> HIDE DEF T, r
  <2> QED BY <1>1, <1>2, <1>4
<1>7. Total(r, amount) \in Int
  <2> HIDE DEF r
  <2> QED BY <1>4, <1>6
<1> HIDE DEF r, T
<1> QED BY <1>2, <1>4, <1>5, <1>7
LEMMA TotalIsPositive ==
  ASSUME NEW S, IsFiniteSet(S), S # {}, NEW weight, \A x \in S : weight[x] \in Nat \ {0}
  PROVE  Total(S, weight) \in Nat \ {0}
<1> DEFINE r == S \ {Pick(S)}
           one == [x \in r |-> 1]
           low == 1
<1>1. Pick(S) \in S /\ IsFiniteSet(r) /\ r \in SUBSET S
  BY PickLemma
<1>2. Total(S, weight) = weight[Pick(S)] + Total(r, weight)
  BY TotalStep
<1>3. \A x \in r : one[x] \in low..low /\ weight[x] \in Nat
  OBVIOUS
<1>4. low \in Int
  OBVIOUS
<1> HIDE DEF r, one, low
<1>5. Total(r, weight) \in Nat
  BY <1>1, <1>3, <1>4, WeightedSums
<1> QED BY <1>1, <1>2, <1>5

(* A nonempty finite set of numbers has a least and a greatest. *)
LEMMA Extrema ==
  ASSUME NEW S, IsFiniteSet(S), S # {}, S \subseteq Int
  PROVE  /\ Min(S) \in S /\ Max(S) \in S
         /\ \A x \in S : Min(S) <= x /\ x <= Max(S)
<1> DEFINE Good(t) == \E low, high \in t : \A x \in t : low <= x /\ x <= high
           T == {t \in SUBSET S : t # {} /\ ~ Good(t)}
<1>1. T = {}
  <2> SUFFICES ASSUME T # {} PROVE FALSE
    OBVIOUS
  <2>1. PICK t \in T : \A u \in T : Cardinality(t) <= Cardinality(u)
    <3>1. T \in SUBSET SUBSET S
      OBVIOUS
    <3> HIDE DEF T
    <3> QED BY <3>1, Smallest
  <2>2. /\ t \in SUBSET S /\ t # {} /\ ~ Good(t)
        /\ IsFiniteSet(t) /\ Cardinality(t) \in Nat
    <3> HIDE DEF Good
    <3> QED BY <2>1, FS_Subset, FS_CardinalityType
  <2> DEFINE p == Pick(t)
             r == t \ {p}
  <2>3. /\ p \in t /\ p \in Int /\ t = r \cup {p} /\ r \in SUBSET S
        /\ Cardinality(r) < Cardinality(t) /\ Cardinality(r) \in Nat
    <3> HIDE DEF Good, T
    <3> QED BY <2>2, PickLemma, FS_CardinalityType
  <2> HIDE DEF p, r
  <2>4. CASE r = {}
    BY <2>2, <2>3, <2>4
  <2>5. CASE r # {}
    <3>1. Good(r)
      <4>1. r \notin T
        <5>1. ~ (Cardinality(t) <= Cardinality(r))
          BY <2>2, <2>3
        <5> HIDE DEF T
        <5> QED BY <2>1, <5>1
      <4> HIDE DEF Good
      <4> QED BY <2>3, <2>5, <4>1
    <3>2. PICK low \in r, high \in r : \A x \in r : low <= x /\ x <= high
      BY <3>1
    <3>3. r \subseteq Int
      BY <2>3
    <3> DEFINE a == IF p < low THEN p ELSE low
               b == IF p > high THEN p ELSE high
    <3>4. a \in t /\ b \in t /\ \A x \in t : a <= x /\ x <= b
      BY <2>3, <3>2, <3>3
    <3> HIDE DEF a, b
    <3>5. Good(t)
      BY <3>4
    <3> HIDE DEF Good
    <3> QED BY <2>2, <3>5
  <2> QED BY <2>4, <2>5
<1>2. PICK low \in S, high \in S : \A x \in S : low <= x /\ x <= high
  <2>1. S \in SUBSET S
    OBVIOUS
  <2>2. Good(S)
    <3> HIDE DEF Good
    <3> QED BY <1>1, <2>1
  <2> QED BY <2>2
<1> HIDE DEF Good, T
<1>3. Min(S) \in S /\ \A x \in S : Min(S) <= x
  BY <1>2 DEF Min
<1>4. Max(S) \in S /\ \A x \in S : x <= Max(S)
  <2>1. \A x \in S : high >= x
    BY <1>2
  <2>2. Max(S) \in S /\ \A x \in S : Max(S) >= x
    BY <2>1 DEF Max
  <2> QED BY <2>2
<1> QED BY <1>3, <1>4

-----------------------------------------------------------------------------
(* Means.                                                                   *)

(* Quotient and dividend. *)
LEMMA Division ==
  ASSUME NEW n \in Int, NEW d \in Nat \ {0}
  PROVE  n \div d \in Int /\ d * (n \div d) <= n /\ n < d * (n \div d + 1)
  OBVIOUS

(* Rounding never leaves whole bounds. *)
LEMMA RoundedLemma ==
  ASSUME NEW n \in Int, NEW d \in Nat \ {0}, NEW low \in Int, NEW high \in Int,
         low * d <= n, n <= high * d
  PROVE  Rounded(n, d) \in low..high
<1> DEFINE q == (2 * n + d) \div (2 * d)
<1>1. 2 * n + d \in Int /\ 2 * d \in Nat \ {0}
  OBVIOUS
<1>2. q \in Int /\ (2 * d) * q <= 2 * n + d /\ 2 * n + d < (2 * d) * (q + 1)
  BY <1>1, Division
<1> HIDE DEF q
<1>3. low <= q
  <2> SUFFICES ASSUME q + 1 <= low PROVE FALSE
    BY <1>2
  <2>1. (2 * d) * (q + 1) <= (2 * d) * low
    BY <1>1, <1>2
  <2>2. (2 * d) * low = 2 * (low * d) /\ low * d \in Int
    OBVIOUS
  <2>3. (2 * d) * (q + 1) \in Int
    BY <1>2
  <2> QED BY <1>2, <2>1, <2>2, <2>3
<1>4. q <= high
  <2> SUFFICES ASSUME high + 1 <= q PROVE FALSE
    BY <1>2
  <2>1. (2 * d) * (high + 1) <= (2 * d) * q
    BY <1>1, <1>2
  <2>2. (2 * d) * (high + 1) = 2 * (high * d) + 2 * d /\ high * d \in Int
    OBVIOUS
  <2>3. (2 * d) * q \in Int
    BY <1>2
  <2> QED BY <1>2, <2>1, <2>2, <2>3
<1> QED BY <1>2, <1>3, <1>4 DEF q, Rounded

(* A weighted mean of the known factors lies between a bound below all of   *)
(* them and one above all of them.                                          *)
LEMMA MeanLemma ==
  ASSUME NEW score, IsFiniteSet(DOMAIN score), NEW weight, NEW low \in Int, NEW high \in Int,
         \A f \in DOMAIN score : score[f] = None \/ score[f] \in low..high,
         \A f \in DOMAIN score : weight[f] \in Nat
  PROVE  Mean(score, weight) = None \/ Mean(score, weight) \in 100 * low..100 * high
<1> DEFINE W == Total(Known(score), weight)
           V == WeightedSum(Known(score), score, weight)
<1>1. IsFiniteSet(Known(score)) /\ \A f \in Known(score) : score[f] \in low..high /\ weight[f] \in Nat
  BY FS_Subset DEF Known
<1>2. W \in Nat /\ V \in Int /\ low * W <= V /\ V <= high * W
  BY <1>1, WeightedSums
<1>3. Mean(score, weight) = IF W = 0 THEN None ELSE Rounded(100 * V, W)
  BY DEF Mean
<1> HIDE DEF W, V
<1>4. (100 * low) * W = 100 * (low * W) /\ (100 * high) * W = 100 * (high * W)
      /\ low * W \in Int /\ high * W \in Int
  BY <1>2
<1>5. (100 * low) * W <= 100 * V /\ 100 * V <= (100 * high) * W /\ 100 * V \in Int
  BY <1>2, <1>4
<1> DEFINE a == 100 * low
           b == 100 * high
           u == 100 * V
<1>6. a \in Int /\ b \in Int /\ u \in Int /\ a * W <= u /\ u <= b * W
  BY <1>2, <1>5
<1>7. W # 0 => Rounded(u, W) \in a..b
  <2> HIDE DEF a, b, u
  <2> QED BY <1>2, <1>6, RoundedLemma
<1> QED BY <1>3, <1>7

LEMMA ScoreMean ==
  ASSUME NEW score, IsFiniteSet(DOMAIN score), NEW weight,
         \A f \in DOMAIN score : score[f] = None \/ score[f] \in 0..100,
         \A f \in DOMAIN score : weight[f] \in Nat
  PROVE  Mean(score, weight) = None \/ Mean(score, weight) \in 0..10000
<1> DEFINE low == 0
           high == 100
<1>1. low \in Int /\ high \in Int
      /\ \A f \in DOMAIN score : score[f] = None \/ score[f] \in low..high
  OBVIOUS
<1>2. 100 * low..100 * high = 0..10000
  OBVIOUS
<1> HIDE DEF low, high
<1>3. Mean(score, weight) = None \/ Mean(score, weight) \in 100 * low..100 * high
  BY <1>1, MeanLemma
<1> QED BY <1>2, <1>3

(* Sharing a category's weight leaves whole shares. *)
LEMMA SharesLemma ==
  ASSUME NEW category, IsFiniteSet(DOMAIN category), NEW weight,
         \A f \in DOMAIN category : weight[category[f]] \in Nat
  PROVE  \A f \in DOMAIN category : Shares(category, weight)[f] \in Nat
<1> TAKE f \in DOMAIN category
<1> DEFINE G == {g \in DOMAIN category : category[g] = category[f]}
<1>1. IsFiniteSet(G) /\ f \in G
  BY FS_Subset
<1>2. Cardinality(G) \in Nat \ {0}
  <2> HIDE DEF G
  <2> QED BY <1>1, FS_CardinalityType, FS_EmptySet
<1>3. Shares(category, weight)[f] = (60 * weight[category[f]]) \div Cardinality(G)
  BY DEF Shares
<1> HIDE DEF G
<1>4. 60 * weight[category[f]] \in Nat
  OBVIOUS
<1> QED BY <1>2, <1>3, <1>4

(* What a function makes of a finite set is finite.                         *)
LEMMA ImageIsFinite ==
  ASSUME NEW S, IsFiniteSet(S), NEW f
  PROVE  IsFiniteSet({f[x] : x \in S})
<1> DEFINE g == [x \in S |-> f[x]]
           T == {f[x] : x \in S}
<1>1. g \in Surjection(S, T)
  BY DEF Surjection
<1> QED BY <1>1, FS_Surjection

(* The known scores, when there are any, have a least and a greatest.       *)
LEMMA KnownExtrema ==
  ASSUME NEW score, IsFiniteSet(DOMAIN score), Known(score) # {},
         \A f \in DOMAIN score : score[f] = None \/ score[f] \in Int
  PROVE  LET V == {score[f] : f \in Known(score)}
         IN  /\ Min(V) \in Int /\ Max(V) \in Int
             /\ \A f \in Known(score) : score[f] \in Min(V)..Max(V)
<1> DEFINE K == Known(score)
           V == {score[f] : f \in K}
<1>1. IsFiniteSet(K) /\ K # {} /\ \A f \in K : score[f] \in Int
  BY FS_Subset DEF Known
<1> HIDE DEF K
<1>2. IsFiniteSet(V) /\ V # {} /\ V \subseteq Int
  <2>1. IsFiniteSet(V)
    BY <1>1, ImageIsFinite
  <2>2. V # {} /\ V \subseteq Int
    BY <1>1
  <2> QED BY <2>1, <2>2
<1>3. \A f \in K : score[f] \in V
  OBVIOUS
<1> HIDE DEF V
<1>4. /\ Min(V) \in Int /\ Max(V) \in Int
      /\ \A x \in V : x \in Int /\ Min(V) <= x /\ x <= Max(V)
  BY <1>2, Extrema
<1>5. \A f \in K : score[f] \in Min(V)..Max(V)
  BY <1>3, <1>4
<1> QED BY <1>4, <1>5 DEF K, V

(* The rounded mean of whole numbers is one, between the least and the      *)
(* greatest that are known.                                                 *)
LEMMA MeanIsInt ==
  ASSUME NEW score, IsFiniteSet(DOMAIN score), NEW weight,
         \A f \in DOMAIN score : score[f] = None \/ score[f] \in Int,
         \A f \in DOMAIN score : weight[f] \in Nat
  PROVE  Mean(score, weight) = None \/ Mean(score, weight) \in Int
<1>1. CASE Known(score) = {}
  <2>1. IsFiniteSet({})
    BY FS_EmptySet
  <2>2. Total(Known(score), weight) = 0
    BY <1>1, <2>1, TotalStep
  <2> QED BY <2>2 DEF Mean
<1>2. CASE Known(score) # {}
  <2> DEFINE V == {score[f] : f \in Known(score)}
             low == Min(V)
             high == Max(V)
  <2>1. low \in Int /\ high \in Int /\ \A f \in Known(score) : score[f] \in low..high
    BY <1>2, KnownExtrema
  <2>2. \A f \in DOMAIN score : score[f] = None \/ score[f] \in low..high
    BY <2>1 DEF Known
  <2> HIDE DEF low, high
  <2>3. Mean(score, weight) = None \/ Mean(score, weight) \in 100 * low..100 * high
    BY <2>1, <2>2, MeanLemma
  <2> QED BY <2>1, <2>3
<1> QED BY <1>1, <1>2
LEMMA MeanOfKnown ==
  ASSUME NEW score, IsFiniteSet(DOMAIN score), NEW weight, Known(score) # {},
         \A f \in DOMAIN score : score[f] = None \/ score[f] \in Int,
         \A f \in DOMAIN score : weight[f] \in Nat \ {0}
  PROVE  LET V == {score[f] : f \in Known(score)}
         IN  Rounded(WeightedSum(Known(score), score, weight), Total(Known(score), weight))
               \in Min(V)..Max(V)
<1> DEFINE V == {score[f] : f \in Known(score)}
           K == Known(score)
           low == Min(V)
           high == Max(V)
           n == WeightedSum(K, score, weight)
           d == Total(K, weight)
<1>1. low \in Int /\ high \in Int /\ \A f \in K : score[f] \in low..high
  BY KnownExtrema
<1>2. IsFiniteSet(K) /\ K # {} /\ \A f \in K : weight[f] \in Nat \ {0}
  BY FS_Subset DEF Known
<1> SUFFICES Rounded(n, d) \in low..high
  OBVIOUS
<1> HIDE DEF K, low, high
<1>3. d \in Nat \ {0}
  BY <1>2, TotalIsPositive
<1>4. n \in Int /\ low * d <= n /\ n <= high * d
  BY <1>1, <1>2, WeightedSums
<1> HIDE DEF n, d
<1> QED BY <1>1, <1>3, <1>4, RoundedLemma

-----------------------------------------------------------------------------
(* Bands.                                                                   *)

(* A band's score is that of the first band reached, or of the last one.    *)
LEMMA BandLemma ==
  ASSUME NEW bands, NEW n \in Nat \ {0}, Len(bands) = n, NEW R \in SUBSET (1..n)
  PROVE  \E i \in 1..n : /\ FirstBand(bands, R) = bands[i][2]
                         /\ IF R = {} THEN i = n ELSE i \in R /\ \A j \in R : i <= j
<1>1. CASE R = {}
  BY <1>1 DEF FirstBand
<1>2. CASE R # {}
  <2>1. \E i \in R : \A j \in R : i <= j
    BY <1>2, Least
  <2>2. Min(R) \in R /\ \A j \in R : Min(R) <= j
    BY <2>1 DEF Min
  <2> QED BY <1>2, <2>2 DEF FirstBand
<1> QED BY <1>1, <1>2

(* What a scorer may return. *)
BandScore == (0..100) \cup {None}
(* A table of bands with scores from 0 to 100. *)
Table(bands, n) ==
  /\ n \in Nat \ {0} /\ Len(bands) = n /\ DOMAIN bands = 1..n
  /\ \A i \in 1..n : bands[i][2] \in 0..100
LEMMA TableScores ==
  ASSUME NEW v, NEW bands, NEW n, Table(bands, n)
  PROVE  HigherIsBetter(v, bands) \in BandScore /\ LowerIsBetter(v, bands) \in BandScore
<1>1. ASSUME NEW R \in SUBSET (1..n) PROVE FirstBand(bands, R) \in 0..100
  <2>1. n \in Nat \ {0} /\ Len(bands) = n /\ \A i \in 1..n : bands[i][2] \in 0..100
    BY DEF Table
  <2>2. PICK i \in 1..n : FirstBand(bands, R) = bands[i][2]
    BY <2>1, BandLemma
  <2> QED BY <2>1, <2>2
<1>2. /\ {k \in DOMAIN bands : v >= bands[k][1]} \in SUBSET (1..n)
      /\ {k \in DOMAIN bands : v <= bands[k][1]} \in SUBSET (1..n)
  BY DEF Table
<1> QED BY <1>1, <1>2 DEF HigherIsBetter, LowerIsBetter, BandScore

(* Every scorer gives a score, whatever it is given. *)
LEMMA TechnicalScorers ==
  ASSUME NEW v, NEW w
  PROVE  /\ ScoreRsi(v) \in BandScore /\ ScoreVsEma(v, w) \in BandScore /\ ScoreVwap(v, w) \in BandScore
         /\ ScoreAdx(v) \in BandScore /\ ScoreVolume(v) \in BandScore /\ ScoreAccumDist(v) \in BandScore
<1>1. ScoreRsi(v) \in BandScore
  BY DEF ScoreRsi, BandScore
<1>2. /\ Table(<<<<300, 100>>, <<0, 70>>, <<-300, 40>>, <<-99900, 20>>>>, 4)
      /\ Table(<<<<100, 90>>, <<0, 65>>, <<-100, 40>>, <<-99900, 20>>>>, 4)
      /\ Table(<<<<30, 100>>, <<25, 80>>, <<20, 60>>, <<15, 40>>, <<0, 20>>>>, 5)
      /\ Table(<<<<30, 100>>, <<20, 85>>, <<15, 70>>, <<10, 50>>, <<0, 30>>>>, 5)
      /\ Table(<<<<20, 90>>, <<5, 70>>, <<-5, 50>>, <<-20, 30>>, <<-999, 10>>>>, 5)
  BY DEF Table
<1> QED BY <1>1, <1>2, TableScores DEF ScoreVsEma, ScoreVwap, ScoreAdx, ScoreVolume, ScoreAccumDist
LEMMA FundamentalScorers ==
  ASSUME NEW v
  PROVE  /\ ScoreGrowth(v) \in BandScore /\ ScoreReturn(v) \in BandScore /\ ScoreMargin(v) \in BandScore
         /\ ScoreDebt(v) \in BandScore /\ ScoreCoverage(v) \in BandScore /\ ScoreCash(v) \in BandScore
         /\ ScorePe(v) \in BandScore /\ ScoreHolding(v) \in BandScore /\ ScorePledge(v) \in BandScore
<1>1. ScoreCash(v) \in BandScore
  BY DEF ScoreCash, BandScore
<1>2. /\ Table(<<<<20, 100>>, <<12, 80>>, <<6, 60>>, <<0, 40>>, <<-999, 20>>>>, 5)
      /\ Table(<<<<20, 100>>, <<15, 80>>, <<10, 60>>, <<5, 40>>, <<-999, 20>>>>, 5)
      /\ Table(<<<<25, 100>>, <<15, 80>>, <<8, 60>>, <<3, 40>>, <<-999, 20>>>>, 5)
      /\ Table(<<<<3, 100>>, <<5, 80>>, <<10, 60>>, <<20, 40>>, <<9990, 20>>>>, 5)
      /\ Table(<<<<10, 100>>, <<5, 80>>, <<2, 60>>, <<1, 40>>, <<-999, 20>>>>, 5)
  BY DEF Table
<1>3. /\ Table(<<<<15, 90>>, <<25, 70>>, <<40, 50>>, <<999, 30>>>>, 4)
      /\ Table(<<<<50, 90>>, <<30, 70>>, <<15, 50>>, <<-999, 30>>>>, 4)
      /\ Table(<<<<0, 100>>, <<5, 70>>, <<20, 40>>, <<999, 10>>>>, 4)
  BY DEF Table
<1>4. ScorePe(v) \in BandScore
  BY <1>3, TableScores DEF ScorePe, BandScore
<1>5. ScoreGrowth(v) \in BandScore /\ ScoreReturn(v) \in BandScore /\ ScoreMargin(v) \in BandScore
  BY <1>2, TableScores DEF ScoreGrowth, ScoreReturn, ScoreMargin
<1>6. ScoreDebt(v) \in BandScore /\ ScoreCoverage(v) \in BandScore
  BY <1>2, TableScores DEF ScoreDebt, ScoreCoverage
<1>7. ScoreHolding(v) \in BandScore /\ ScorePledge(v) \in BandScore
  BY <1>3, TableScores DEF ScoreHolding, ScorePledge
<1> QED BY <1>1, <1>4, <1>5, <1>6, <1>7

-----------------------------------------------------------------------------
(* The scores of a symbol.                                                  *)

(* What a list names is finite. *)
LEMMA ListedIsFinite ==
  ASSUME NEW n \in Nat, NEW s, DOMAIN s = 1..n, NEW S, S = {s[i] : i \in 1..n}
  PROVE  IsFiniteSet(S)
<1> DEFINE f == [i \in 1..n |-> s[i]]
<1>1. f \in Surjection(1..n, S)
  BY DEF Surjection
<1>2. IsFiniteSet(1..n)
  BY FS_Interval
<1> QED BY <1>1, <1>2, FS_Surjection

LEMMA FactorsAreFinite ==
  IsFiniteSet(DOMAIN TechnicalCategory) /\ IsFiniteSet(DOMAIN FundamentalCategory)
<1> DEFINE t == <<"trend_direction", "price_vs_ema20", "price_vs_ema50", "rsi14", "macd_histogram",
                  "adx14", "relative_volume", "accumulation_vs_distribution", "volatility_state",
                  "price_vs_vwap", "market_structure">>
           f == <<"revenue_growth_3y", "eps_growth_3y", "profit_growth_3y", "roe", "roce",
                  "operating_margin", "net_margin", "debt_to_equity", "interest_coverage",
                  "operating_cash_flow", "free_cash_flow", "pe", "promoter_holding",
                  "promoter_pledge">>
<1>1. DOMAIN t = 1..11 /\ DOMAIN TechnicalCategory = {t[i] : i \in 1..11}
  BY DEF TechnicalCategory
<1>2. DOMAIN f = 1..14 /\ DOMAIN FundamentalCategory = {f[i] : i \in 1..14}
  BY DEF FundamentalCategory
<1> DEFINE T == DOMAIN TechnicalCategory
           F == DOMAIN FundamentalCategory
           n == 11
           m == 14
<1>3. DOMAIN t = 1..n /\ T = {t[i] : i \in 1..n} /\ n \in Nat
  BY <1>1
<1>4. DOMAIN f = 1..m /\ F = {f[i] : i \in 1..m} /\ m \in Nat
  BY <1>2
<1>5. IsFiniteSet(T) /\ IsFiniteSet(F)
  <2> HIDE DEF t, f, T, F, n, m
  <2> QED BY <1>3, <1>4, ListedIsFinite
<1> QED BY <1>5

LEMMA WeightsAreNumbers ==
  /\ \A f \in DOMAIN TechnicalCategory : TechnicalWeight[f] \in Nat
  /\ \A f \in DOMAIN FundamentalCategory : FundamentalWeight[f] \in Nat
<1>1. \A f \in DOMAIN TechnicalCategory : TechnicalCategoryWeight[TechnicalCategory[f]] \in Nat
  BY DEF TechnicalCategory, TechnicalCategoryWeight
<1>2. \A f \in DOMAIN FundamentalCategory : FundamentalCategoryWeight[FundamentalCategory[f]] \in Nat
  BY DEF FundamentalCategory, FundamentalCategoryWeight
<1> QED BY <1>1, <1>2, FactorsAreFinite, SharesLemma DEF TechnicalWeight, FundamentalWeight

(* Directions a stored trend may have. *)
Direction == {"up", "sideways", "down", None}
(* The scores the model writes down: from 0 to 100, in hundredths. *)
FullScore == 0..10000

(* A technical score is a number from 0 to 10000, whatever else is stored. *)
LEMMA TechnicalLemma ==
  ASSUME NEW price, NEW d, d.trend_direction \in Direction, NEW vwap
  PROVE  TechnicalScore(TechnicalFactors(price, d, vwap)) \in FullScore
<1> DEFINE F == TechnicalFactors(price, d, vwap)
<1>1. DOMAIN F = DOMAIN TechnicalCategory
  BY DEF TechnicalFactors, TechnicalCategory
<1>2. ScoreTrend(d.trend_direction) \in BandScore
  BY DEF ScoreTrend, Direction, BandScore
<1>3. ScoreStructure((IF d.higher_high THEN 1 ELSE 0) + (IF d.higher_low THEN 1 ELSE 0)) \in BandScore
  BY DEF ScoreStructure, BandScore
<1>4. /\ F.trend_direction \in BandScore /\ F.price_vs_ema20 \in BandScore /\ F.price_vs_ema50 \in BandScore
      /\ F.rsi14 \in BandScore /\ F.adx14 \in BandScore /\ F.relative_volume \in BandScore
      /\ F.price_vs_vwap \in BandScore /\ F.market_structure \in BandScore
  BY <1>2, <1>3, TechnicalScorers DEF TechnicalFactors
<1>5. F.macd_histogram \in BandScore /\ F.volatility_state \in BandScore
  BY DEF TechnicalFactors, BandScore
<1>6. F.accumulation_vs_distribution \in BandScore
  <2>1. F.accumulation_vs_distribution =
          IF None \in {d.accumulation_score, d.distribution_score} THEN None
          ELSE ScoreAccumDist(d.accumulation_score - d.distribution_score)
    BY DEF TechnicalFactors
  <2>2. ScoreAccumDist(d.accumulation_score - d.distribution_score) \in BandScore /\ None \in BandScore
    BY TechnicalScorers DEF BandScore
  <2> QED BY <2>1, <2>2
<1> HIDE DEF F
<1>7. \A f \in DOMAIN F : F[f] \in BandScore
  BY <1>1, <1>4, <1>5, <1>6 DEF TechnicalCategory
<1>8. \A f \in DOMAIN F : F[f] = None \/ F[f] \in 0..100
  BY <1>7 DEF BandScore
<1>9. IsFiniteSet(DOMAIN F) /\ \A f \in DOMAIN F : TechnicalWeight[f] \in Nat
  BY <1>1, FactorsAreFinite, WeightsAreNumbers
<1>10. Mean(F, TechnicalWeight) = None \/ Mean(F, TechnicalWeight) \in 0..10000
  BY <1>8, <1>9, ScoreMean
<1>11. TechnicalScore(F) \in 0..10000
  BY <1>10 DEF TechnicalScore
<1> QED BY <1>11 DEF F, FullScore

(* So is a fundamental score that is known, whatever a source reported. *)
LEMMA FundamentalLemma ==
  ASSUME NEW d
  PROVE  FundamentalScore(d) = None \/ FundamentalScore(d) \in FullScore
<1> DEFINE F == FundamentalFactors(d)
<1>1. DOMAIN F = DOMAIN FundamentalCategory
  BY DEF FundamentalFactors
<1>2. ASSUME NEW f \in DOMAIN FundamentalCategory PROVE F[f] \in BandScore
  <2> DEFINE v == Value(d, f)
  <2>1. F[f] \in {ScoreGrowth(v), ScoreReturn(v), ScoreMargin(v), ScoreDebt(v), ScoreCoverage(v),
                  ScoreCash(v), ScorePe(v), ScoreHolding(v), ScorePledge(v)}
    BY DEF FundamentalFactors
  <2> HIDE DEF v, F
  <2> QED BY <2>1, FundamentalScorers
<1> HIDE DEF F
<1>3. \A f \in DOMAIN F : F[f] = None \/ F[f] \in 0..100
  BY <1>1, <1>2 DEF BandScore
<1>4. IsFiniteSet(DOMAIN F) /\ \A f \in DOMAIN F : FundamentalWeight[f] \in Nat
  BY <1>1, FactorsAreFinite, WeightsAreNumbers
<1>5. Mean(F, FundamentalWeight) = None \/ Mean(F, FundamentalWeight) \in 0..10000
  BY <1>3, <1>4, ScoreMean
<1>6. FundamentalScore(d) \in {None, Mean(F, FundamentalWeight)}
  BY DEF FundamentalScore, F
<1> QED BY <1>5, <1>6 DEF FullScore

(* And so is what both are combined into. *)
LEMMA CombineLemma ==
  ASSUME NEW f, f = None \/ f \in FullScore, NEW t \in FullScore
  PROVE  CombineScores(f, t) \in FullScore
<1>1. CASE f = None
  BY <1>1 DEF CombineScores
<1>2. CASE f # None
  <2> DEFINE
         n == f * FundamentalShare + t * TechnicalShare
         d == 100
         low == 0
         high == 10000
  <2>1. f \in Int /\ t \in Int /\ 0 <= f /\ f <= 10000 /\ 0 <= t /\ t <= 10000
    <3>1. f \in FullScore
      BY <1>2
    <3>2. FullScore \subseteq Int /\ \A x \in FullScore : 0 <= x /\ x <= 10000
      BY DEF FullScore
    <3> QED BY <3>1, <3>2
  <2>2. n = 30 * f + 70 * t
    BY <2>1 DEF FundamentalShare, TechnicalShare
  <2>3. n \in Int /\ 0 <= n /\ n <= 1000000
    <3> HIDE DEF n
    <3> QED BY <2>1, <2>2
  <2>4. /\ n \in Int /\ d \in Nat \ {0} /\ low \in Int /\ high \in Int
        /\ low * d <= n /\ n <= high * d
    <3> HIDE DEF n
    <3> QED BY <2>3
  <2>5. Rounded(n, d) \in low..high
    <3> HIDE DEF n, d, low, high
    <3> QED BY <2>4, RoundedLemma, Zenon
  <2>6. CombineScores(f, t) = Rounded(n, d)
    BY <1>2 DEF CombineScores
  <2>7. low..high = FullScore
    BY DEF FullScore
  <2> HIDE DEF n, d, low, high
  <2> QED BY <2>5, <2>6, <2>7
<1> QED BY <1>1, <1>2

(* Every score a candidate is given stays between 0 and 100, whatever prices  *)
(* and features are stored and whatever a source reported: the shares of a    *)
(* category's weight never let a mean leave the bounds of its factors.        *)
THEOREM ScoresTheorem ==
  ASSUME NEW price, NEW d, d.trend_direction \in Direction, NEW vwap, NEW answer
  PROVE  LET technical == TechnicalScore(TechnicalFactors(price, d, vwap))
             fundamental == FundamentalScore(answer)
         IN  /\ technical \in FullScore
             /\ fundamental = None \/ fundamental \in FullScore
             /\ CombineScores(fundamental, technical) \in FullScore
<1> DEFINE technical == TechnicalScore(TechnicalFactors(price, d, vwap))
           fundamental == FundamentalScore(answer)
<1>1. technical \in FullScore /\ (fundamental = None \/ fundamental \in FullScore)
  BY TechnicalLemma, FundamentalLemma
<1> HIDE DEF technical, fundamental
<1>2. CombineScores(fundamental, technical) \in FullScore
  BY <1>1, CombineLemma
<1> QED BY <1>1, <1>2 DEF technical, fundamental
=============================================================================
