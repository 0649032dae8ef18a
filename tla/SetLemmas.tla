----------------------------- MODULE SetLemmas -----------------------------
(* What the proofs need of sets: least and greatest elements, which the     *)
(* eviction of the web tables, the first line of a buffer and the last      *)
(* value of a key are chosen by, and folds over finite sets, which the      *)
(* scorer adds up with and an archive collects IOCs with. And of sequences  *)
(* that arrive in parts: what they are after so many parts, and what a      *)
(* buffer that takes up to a limit holds of them.                           *)
EXTENDS Integers, Sequences, FiniteSets, Functions, FiniteSetTheorems, SequenceTheorems, WellFoundedInduction, TLAPS

(* Induction over an order comes as a library fact about relations: the     *)
(* least of some naturals is minimal for the order of the naturals.         *)
LEMMA LeastNatural ==
    ASSUME NEW T, T \subseteq Nat, T # {}
    PROVE  \E x \in T : \A y \in T : x <= y
  <1> DEFINE R == OpToRel(<, Nat)
  <1>1. IsWellFoundedOn(R, Nat)
    BY NatLessThanWellFounded
  <1>2. \A x, y \in Nat : x < y => <<x, y>> \in R
    BY DEF OpToRel
  <1> HIDE DEF R
  <1>3. PICK x \in T : \A y \in T : ~(<<y, x>> \in R)
    BY <1>1, WFMin
  <1>4. ASSUME NEW y \in T PROVE x <= y
    <2>1. x \in Nat /\ y \in Nat /\ ~(y < x)
      BY <1>2, <1>3
    <2> QED
      BY <2>1
  <1> QED
    BY <1>4

LEMMA GreatestBounded ==
    ASSUME NEW T, T \subseteq Nat, T # {}, NEW n \in Nat, \A x \in T : x <= n
    PROVE  \E x \in T : \A y \in T : y <= x
  <1> DEFINE M == {m \in Nat : \A x \in T : x <= m}
  <1>1. n \in M
    OBVIOUS
  <1>2. PICK m \in M : \A k \in M : m <= k
    BY <1>1, LeastNatural
  <1>3. m \in T
    <2> SUFFICES ASSUME m \notin T PROVE FALSE
      OBVIOUS
    <2>1. PICK x \in T : TRUE
      OBVIOUS
    <2>2. \A y \in T : y <= m /\ y # m /\ y \in Nat /\ m \in Nat
      BY <1>2
    <2>3. m > 0
      BY <2>1, <2>2
    <2>4. m - 1 \in M
      BY <2>2, <2>3
    <2> QED
      BY <1>2, <2>2, <2>4
  <1> QED
    BY <1>2, <1>3

-----------------------------------------------------------------------------
(* Of the counterexamples among the subsets of a finite set some are        *)
(* smallest.                                                                *)
LEMMA SmallestSubset ==
    ASSUME NEW S, IsFiniteSet(S), NEW B, B \subseteq SUBSET S, B # {}
    PROVE  \E t \in B : \A u \in B : u \subseteq t => u = t
  <1> DEFINE R == StrictSubsetOrdering(S)
  <1>1. IsWellFoundedOn(R, SUBSET S)
    BY FS_StrictSubsetOrderingWellFounded, FS_FiniteSubsetsOfFinite
  <1>2. \A u, t \in SUBSET S : u \subseteq t /\ u # t => <<u, t>> \in R
    BY DEF StrictSubsetOrdering
  <1> HIDE DEF R
  <1>3. PICK t \in B : \A u \in B : ~(<<u, t>> \in R)
    BY <1>1, WFMin
  <1> QED
    BY <1>2, <1>3

(* A fold over a finite set is the value of a function on its subsets that  *)
(* is defined by recursion.  There is one: it is extended one size of the   *)
(* subsets at a time.                                                       *)
Foldable(S, V, base, pick, g) ==
    /\ IsFiniteSet(S) /\ base \in V
    /\ \A s \in SUBSET S : s # {} => pick[s] \in s
    /\ \A x \in S, v \in V : g[<<x, v>>] \in V
Folds(F, S, V, base, pick, g) ==
    /\ F \in [SUBSET S -> V]
    /\ \A s \in SUBSET S : F[s] = IF s = {} THEN base ELSE g[<<pick[s], F[s \ {pick[s]}]>>]

LEMMA FoldExists ==
    ASSUME NEW S, NEW V, NEW base, NEW pick, NEW g, Foldable(S, V, base, pick, g)
    PROVE  \E F : Folds(F, S, V, base, pick, g)
  <1> USE DEF Foldable
  <1> DEFINE Sub(n) == {s \in SUBSET S : Cardinality(s) <= n}
             Step(F, s) == IF s = {} THEN base ELSE g[<<pick[s], F[s \ {pick[s]}]>>]
             Good(n) == \E F \in [Sub(n) -> V] : \A s \in Sub(n) : F[s] = Step(F, s)
             Bad == {n \in Nat : ~Good(n)}
  <1>1. \A s \in SUBSET S : /\ IsFiniteSet(s) /\ Cardinality(s) \in Nat
                            /\ Cardinality(s) = 0 <=> s = {}
                            /\ s # {} => pick[s] \in s /\ s \ {pick[s]} \in SUBSET S
                                         /\ Cardinality(s \ {pick[s]}) = Cardinality(s) - 1
    <2> SUFFICES ASSUME NEW s \in SUBSET S
                 PROVE  /\ IsFiniteSet(s) /\ Cardinality(s) \in Nat
                        /\ Cardinality(s) = 0 <=> s = {}
                        /\ s # {} => pick[s] \in s /\ s \ {pick[s]} \in SUBSET S
                                     /\ Cardinality(s \ {pick[s]}) = Cardinality(s) - 1
      OBVIOUS
    <2>1. IsFiniteSet(s)
      BY FS_Subset
    <2> QED
      BY <2>1, FS_CardinalityType, FS_EmptySet, FS_RemoveElement
  <1>2. Good(0)
    <2> DEFINE F == [s \in Sub(0) |-> base]
    <2>1. ASSUME NEW s \in Sub(0) PROVE s = {}
      <3>1. s \in SUBSET S /\ Cardinality(s) <= 0
        OBVIOUS
      <3>2. Cardinality(s) \in Nat /\ (Cardinality(s) = 0 <=> s = {})
        BY <1>1, <3>1
      <3> QED
        BY <3>1, <3>2
    <2>2. F \in [Sub(0) -> V] /\ \A s \in Sub(0) : F[s] = Step(F, s)
      BY <2>1
    <2> QED
      BY <2>2
  <1>3. ASSUME NEW n \in Nat, Good(n) PROVE Good(n + 1)
    <2>1. PICK F \in [Sub(n) -> V] : \A s \in Sub(n) : F[s] = Step(F, s)
      BY <1>3
    <2> DEFINE H == [s \in Sub(n + 1) |-> Step(F, s)]
    <2>2. ASSUME NEW s \in Sub(n + 1), s # {} PROVE s \ {pick[s]} \in Sub(n)
      <3>1. s \in SUBSET S /\ Cardinality(s) <= n + 1
        OBVIOUS
      <3>2. /\ Cardinality(s) \in Nat /\ s \ {pick[s]} \in SUBSET S
            /\ Cardinality(s \ {pick[s]}) = Cardinality(s) - 1
        BY <1>1, <2>2, <3>1
      <3> QED
        BY <3>1, <3>2
    <2>3. \A s \in Sub(n + 1) : Step(F, s) \in V
      BY <2>2, <2>1, <1>1
    <2>4. ASSUME NEW s \in Sub(n) PROVE s \in Sub(n + 1) /\ H[s] = F[s]
      <3>1. s \in SUBSET S /\ Cardinality(s) <= n /\ Cardinality(s) \in Nat
        BY <1>1
      <3>2. s \in Sub(n + 1)
        BY <3>1
      <3> QED
        BY <2>1, <3>2
    <2>5. \A s \in Sub(n + 1) : Step(F, s) = Step(H, s)
      <3> SUFFICES ASSUME NEW s \in Sub(n + 1), s # {} PROVE Step(F, s) = Step(H, s)
        OBVIOUS
      <3>1. H[s \ {pick[s]}] = F[s \ {pick[s]}]
        BY <2>2, <2>4
      <3> QED
        BY <3>1
    <2>6. H \in [Sub(n + 1) -> V] /\ \A s \in Sub(n + 1) : H[s] = Step(H, s)
      BY <2>3, <2>5
    <2> QED
      BY <2>6
  <1>4. Bad = {}
    <2> SUFFICES ASSUME Bad # {} PROVE FALSE
      OBVIOUS
    <2> HIDE DEF Good
    <2>1. PICK n \in Bad : \A m \in Bad : n <= m
      BY LeastNatural
    <2>2. n \in Nat /\ ~Good(n) /\ n # 0
      BY <1>2
    <2>3. n - 1 \in Nat /\ ~(n - 1 \in Bad)
      BY <2>1, <2>2
    <2>4. Good(n - 1)
      BY <2>3
    <2>5. Good((n - 1) + 1)
      BY <1>3, <2>3, <2>4
    <2> QED
      BY <2>2, <2>5
  <1>5. Cardinality(S) \in Nat
    BY FS_CardinalityType
  <1>6. Sub(Cardinality(S)) = SUBSET S
    BY <1>1, FS_Subset
  <1>7. PICK F \in [Sub(Cardinality(S)) -> V] : \A s \in Sub(Cardinality(S)) : F[s] = Step(F, s)
    BY <1>4, <1>5
  <1>8. F \in [SUBSET S -> V] /\ \A s \in SUBSET S : F[s] = Step(F, s)
    BY <1>6, <1>7
  <1> QED
    BY <1>8 DEF Folds

-----------------------------------------------------------------------------
(* The sum of W over a finite set, by the function its fold is defined by,  *)
(* which may take out any element first.                                    *)
Sum(W, S) == FoldFunctionOnSet(+, 0, W, S)
SumsUp(F, W, S) ==
    /\ F \in [SUBSET S -> Nat] /\ F[{}] = 0
    /\ \A t \in SUBSET S, x \in S : x \in t => F[t] = W[x] + F[t \ {x}]

LEMMA SumFold ==
    ASSUME NEW S, IsFiniteSet(S), NEW W, \A x \in S : W[x] \in Nat
    PROVE  \E F : SumsUp(F, W, S) /\ Sum(W, S) = F[S]
  <1> DEFINE first(s) == CHOOSE x \in s : TRUE
             Fold(F) == [s \in SUBSET S |-> IF s = {} THEN 0 ELSE W[first(s)] + F[s \ {first(s)}]]
             it == CHOOSE F : F = Fold(F)
  <1>1. Sum(W, S) = it[S]
    BY DEF Sum, FoldFunctionOnSet, MapThenFoldSet
  <1>2. \A s : s # {} => first(s) \in s
    OBVIOUS
  <1>3. \E F \in [SUBSET S -> Nat] : F = Fold(F)
    <2> DEFINE pick == [s \in SUBSET S |-> first(s)]
               g == [p \in S \X Nat |-> W[p[1]] + p[2]]
    <2>1. \A s \in SUBSET S : s # {} => pick[s] \in s
      BY <1>2
    <2>2. \A x \in S, v \in Nat : g[<<x, v>>] = W[x] + v /\ g[<<x, v>>] \in Nat
      OBVIOUS
    <2> HIDE DEF pick, g
    <2>3. PICK F : Folds(F, S, Nat, 0, pick, g)
      <3>1. 0 \in Nat
        OBVIOUS
      <3>2. Foldable(S, Nat, 0, pick, g)
        BY <2>1, <2>2, <3>1 DEF Foldable
      <3> QED
        BY <3>2, FoldExists
    <2>4. ASSUME NEW s \in SUBSET S, s # {}
          PROVE  g[<<pick[s], F[s \ {pick[s]}]>>] = W[first(s)] + F[s \ {first(s)}]
      <3>1. pick[s] = first(s)
        BY DEF pick
      <3>2. first(s) \in S /\ s \ {first(s)} \in SUBSET S
        BY <2>4, <1>2
      <3> HIDE DEF first
      <3>3. F[s \ {first(s)}] \in Nat
        BY <2>3, <3>2 DEF Folds
      <3> QED
        BY <3>1, <3>2, <3>3, <2>2
    <2>5. F \in [SUBSET S -> Nat] /\ F = Fold(F)
      <3> HIDE DEF first
      <3> QED
        BY <2>3, <2>4 DEF Folds
    <2> QED
      BY <2>5
  <1>4. it = Fold(it)
    <2> HIDE DEF Fold
    <2> QED
      BY <1>3
  <1>5. it \in [SUBSET S -> Nat]
    <2> HIDE DEF it
    <2> DEFINE Bad == {t \in SUBSET S : it[t] \notin Nat}
    <2> SUFFICES ASSUME Bad # {} PROVE FALSE
      BY <1>4
    <2>1. PICK t \in Bad : \A u \in Bad : u \subseteq t => u = t
      <3>1. Bad \subseteq SUBSET S /\ Bad # {}
        OBVIOUS
      <3> HIDE DEF Bad
      <3> QED
        BY <3>1, SmallestSubset
    <2>2. t # {} /\ first(t) \in t /\ first(t) \in S
      BY <1>2, <1>4
    <2>3. it[t \ {first(t)}] \in Nat /\ W[first(t)] \in Nat
      BY <2>1, <2>2
    <2>4. it[t] = W[first(t)] + it[t \ {first(t)}]
      BY <1>4, <2>2
    <2> QED
      BY <2>3, <2>4
  <1> DEFINE Bad == {t \in SUBSET S : \E x \in t : it[t] # W[x] + it[t \ {x}]}
  <1>6. Bad = {}
    <2> HIDE DEF it
    <2> SUFFICES ASSUME Bad # {} PROVE FALSE
      OBVIOUS
    <2>1. PICK t \in Bad : \A u \in Bad : u \subseteq t => u = t
      <3>1. Bad \subseteq SUBSET S /\ Bad # {}
        OBVIOUS
      <3> HIDE DEF Bad
      <3> QED
        BY <3>1, SmallestSubset
    <2>2. PICK x \in t : it[t] # W[x] + it[t \ {x}]
      OBVIOUS
    <2> DEFINE c == first(t)
    <2>3. c \in t /\ it[t] = W[c] + it[t \ {c}] /\ x \in S /\ c \in S
      BY <1>2, <1>4
    <2> HIDE DEF c
    <2>4. c # x
      BY <2>2, <2>3
    <2>5. t \ {c} \notin Bad /\ t \ {x} \notin Bad /\ (t \ {c}) \ {x} = (t \ {x}) \ {c}
      BY <2>1, <2>3
    <2>6. it[t \ {c}] = W[x] + it[(t \ {c}) \ {x}] /\ it[t \ {x}] = W[c] + it[(t \ {x}) \ {c}]
      BY <2>3, <2>4, <2>5
    <2>7. it[(t \ {c}) \ {x}] \in Nat /\ W[x] \in Nat /\ W[c] \in Nat
      BY <1>5, <2>3
    <2> DEFINE rest == it[(t \ {c}) \ {x}]
    <2>8. it[t] = W[c] + (W[x] + rest) /\ it[t \ {x}] = W[c] + rest
      BY <2>3, <2>5, <2>6
    <2>9. rest \in Nat /\ W[x] \in Nat /\ W[c] \in Nat
      BY <2>7
    <2> HIDE DEF rest
    <2>10. it[t] = W[x] + it[t \ {x}]
      BY <2>8, <2>9
    <2> QED
      BY <2>2, <2>10
  <1> HIDE DEF it
  <1>7. it[{}] = 0
    BY <1>4
  <1>8. SumsUp(it, W, S)
    BY <1>5, <1>6, <1>7 DEF SumsUp
  <1> QED
    BY <1>1, <1>8

(* Taking an element out of a sum takes its value off, whatever the         *)
(* function is elsewhere.                                                   *)
LEMMA SumWithout ==
    ASSUME NEW S, IsFiniteSet(S), NEW W, \A x \in S : W[x] \in Nat, NEW x \in S,
           NEW V, \A y \in S \ {x} : V[y] = W[y]
    PROVE  /\ Sum(W, S) = W[x] + Sum(V, S \ {x})
           /\ Sum(W, S) \in Nat /\ Sum(V, S \ {x}) \in Nat
  <1> DEFINE R == S \ {x}
  <1>1. PICK F : SumsUp(F, W, S) /\ Sum(W, S) = F[S]
    BY SumFold
  <1>2. IsFiniteSet(R) /\ \A y \in R : V[y] \in Nat
    BY FS_RemoveElement
  <1>3. PICK G : SumsUp(G, V, R) /\ Sum(V, R) = G[R]
    BY <1>2, SumFold
  <1> DEFINE Bad == {t \in SUBSET R : F[t] # G[t]}
  <1>4. Bad = {}
    <2> SUFFICES ASSUME Bad # {} PROVE FALSE
      OBVIOUS
    <2>1. PICK t \in Bad : \A u \in Bad : u \subseteq t => u = t
      <3>1. Bad \subseteq SUBSET R /\ Bad # {}
        OBVIOUS
      <3> HIDE DEF Bad
      <3> QED
        BY <1>2, <3>1, SmallestSubset
    <2>2. t # {}
      BY <1>1, <1>3 DEF SumsUp
    <2>3. PICK y \in t : TRUE
      BY <2>2
    <2>4. F[t \ {y}] = G[t \ {y}] /\ y \in R
      BY <2>1, <2>3
    <2>5. F[t] = W[y] + F[t \ {y}] /\ G[t] = V[y] + G[t \ {y}]
      BY <1>1, <1>3, <2>3 DEF SumsUp
    <2> QED
      BY <2>4, <2>5
  <1>5. F[S] = W[x] + F[R] /\ F[R] = G[R] /\ F[R] \in Nat /\ F[S] \in Nat
    BY <1>1, <1>4 DEF SumsUp
  <1> QED
    BY <1>1, <1>3, <1>5

(* A sum over nothing, and a sum over the same values.                      *)
LEMMA SumEmpty == \A W : Sum(W, {}) = 0
  <1> SUFFICES ASSUME NEW W PROVE Sum(W, {}) = 0
    OBVIOUS
  <1>1. IsFiniteSet({}) /\ \A x \in {} : W[x] \in Nat
    BY FS_EmptySet
  <1>2. PICK F : SumsUp(F, W, {}) /\ Sum(W, {}) = F[{}]
    BY <1>1, SumFold
  <1> QED
    BY <1>2 DEF SumsUp

LEMMA SumSame ==
    ASSUME NEW S, IsFiniteSet(S), NEW W, \A x \in S : W[x] \in Nat,
           NEW V, \A y \in S : V[y] = W[y]
    PROVE  Sum(W, S) = Sum(V, S) /\ Sum(W, S) \in Nat
  <1>1. CASE S = {}
    BY <1>1, SumEmpty
  <1>2. CASE S # {}
    <2>1. PICK x \in S : TRUE
      BY <1>2
    <2>2. \A y \in S : V[y] \in Nat
      OBVIOUS
    <2>3. /\ Sum(W, S) = W[x] + Sum(W, S \ {x})
          /\ Sum(W, S) \in Nat /\ Sum(W, S \ {x}) \in Nat
      BY SumWithout
    <2>4. /\ Sum(V, S) = V[x] + Sum(W, S \ {x})
      BY <2>2, SumWithout
    <2> QED
      BY <2>3, <2>4
  <1> QED
    BY <1>1, <1>2

-----------------------------------------------------------------------------
(* Sequences that are put together of parts: what they are after so many    *)
(* parts is a function defined by recursion, and there is one.              *)
Joins(f, n, part) == \A i \in 0..n : f[i] = IF i = 0 THEN <<>> ELSE f[i - 1] \o part[i]

LEMMA JoinExists ==
    ASSUME NEW X, NEW n \in Nat, NEW part, \A i \in 1..n : part[i] \in Seq(X)
    PROVE  \E f \in [0..n -> Seq(X)] : Joins(f, n, part)
  <1> DEFINE Good(m) == \E f \in [0..m -> Seq(X)] : Joins(f, m, part)
             Bad == {m \in Nat : m <= n /\ ~Good(m)}
  <1>1. Good(0)
    <2> DEFINE f == [i \in 0..0 |-> <<>>]
    <2>1. f \in [0..0 -> Seq(X)] /\ \A i \in 0..0 : i = 0 /\ f[i] = <<>>
      OBVIOUS
    <2> QED
      BY <2>1 DEF Joins
  <1>2. ASSUME NEW m \in Nat, m + 1 <= n, Good(m) PROVE Good(m + 1)
    <2>1. PICK f \in [0..m -> Seq(X)] : Joins(f, m, part)
      BY <1>2
    <2> DEFINE g == [i \in 0..(m + 1) |-> IF i = m + 1 THEN f[m] \o part[m + 1] ELSE f[i]]
    <2> HIDE DEF Bad
    <2>2. f[m] \o part[m + 1] \in Seq(X)
      <3>1. m + 1 \in 1..n /\ m \in 0..m
        BY <1>2
      <3> QED
        BY <3>1, ConcatProperties
    <2>3. g \in [0..(m + 1) -> Seq(X)]
      BY <2>2
    <2>4. /\ g[m + 1] = f[m] \o part[m + 1] /\ m + 1 # 0 /\ (m + 1) - 1 = m
          /\ \A i \in 0..m : g[i] = f[i]
      OBVIOUS
    <2> HIDE DEF g
    <2>5. ASSUME NEW i \in 0..(m + 1) PROVE g[i] = IF i = 0 THEN <<>> ELSE g[i - 1] \o part[i]
      <3>1. CASE i = m + 1
        <4>1. i # 0 /\ i - 1 = m /\ m \in 0..m
          BY <3>1
        <4>2. g[i - 1] = f[m]
          BY <2>4, <4>1
        <4> QED
          BY <2>4, <3>1, <4>1, <4>2
      <3>2. CASE i # m + 1
        <4>1. i \in 0..m /\ (i # 0 => i - 1 \in 0..m)
          BY <3>2
        <4>2. g[i] = f[i] /\ (i # 0 => g[i - 1] = f[i - 1])
          BY <2>4, <4>1
        <4> QED
          BY <2>1, <4>1, <4>2 DEF Joins
      <3> QED
        BY <3>1, <3>2
    <2> QED
      BY <2>3, <2>5 DEF Joins
  <1> HIDE DEF Good
  <1>3. Bad = {}
    <2> SUFFICES ASSUME Bad # {} PROVE FALSE
      OBVIOUS
    <2>1. PICK m \in Bad : \A k \in Bad : m <= k
      BY LeastNatural
    <2>2. m # 0
      BY <1>1
    <2>3. m - 1 \in Nat /\ m - 1 \notin Bad /\ (m - 1) + 1 = m /\ m <= n
      BY <2>1, <2>2
    <2>4. Good(m - 1)
      BY <2>3
    <2> QED
      BY <1>2, <2>3, <2>4
  <1> QED
    BY <1>3 DEF Good

(* What is there after some parts is the beginning of what is there after   *)
(* more of them.                                                            *)
Begins(b, s) == Len(b) <= Len(s) /\ \A i \in 1..Len(b) : b[i] = s[i]

LEMMA JoinBegins ==
    ASSUME NEW X, NEW n \in Nat, NEW part, \A i \in 1..n : part[i] \in Seq(X),
           NEW f \in [0..n -> Seq(X)], Joins(f, n, part), NEW a \in 0..n, NEW b \in 0..n, a <= b
    PROVE  Begins(f[a], f[b])
  <1> DEFINE Bad == {m \in Nat : a <= m /\ m <= n /\ ~Begins(f[a], f[m])}
  <1>1. Begins(f[a], f[a])
    BY DEF Begins
  <1>2. ASSUME NEW m \in Nat, a <= m, m + 1 <= n, Begins(f[a], f[m]) PROVE Begins(f[a], f[m + 1])
    <2> HIDE DEF Bad
    <2>1. f[m] \in Seq(X) /\ part[m + 1] \in Seq(X) /\ f[a] \in Seq(X)
      BY <1>2
    <2>2. f[m + 1] = f[m] \o part[m + 1]
      <3>1. m + 1 \in 0..n /\ m + 1 # 0 /\ (m + 1) - 1 = m
        BY <1>2
      <3> QED
        BY <3>1 DEF Joins
    <2> HIDE DEF Joins
    <2>3. /\ Len(f[m + 1]) = Len(f[m]) + Len(part[m + 1]) /\ Len(f[m]) \in Nat /\ Len(part[m + 1]) \in Nat
          /\ \A i \in 1..Len(f[m]) : f[m + 1][i] = f[m][i]
      <3> DEFINE u == f[m]
                 v == part[m + 1]
      <3>1. u \in Seq(X) /\ v \in Seq(X) /\ f[m + 1] = u \o v
        BY <2>1, <2>2
      <3> HIDE DEF u, v
      <3>2. /\ Len(u \o v) = Len(u) + Len(v) /\ Len(u) \in Nat /\ Len(v) \in Nat
            /\ \A i \in 1..Len(u) + Len(v) : (u \o v)[i] = IF i <= Len(u) THEN u[i] ELSE v[i - Len(u)]
        BY <3>1, ConcatProperties
      <3>3. \A i \in 1..Len(u) : (u \o v)[i] = u[i]
        BY <3>2
      <3> QED
        BY <3>1, <3>2, <3>3 DEF u, v
    <2>4. Len(f[a]) \in Nat /\ Len(f[a]) <= Len(f[m]) /\ \A i \in 1..Len(f[a]) : f[a][i] = f[m][i]
      BY <1>2, <2>1 DEF Begins
    <2>5. \A i \in 1..Len(f[a]) : i \in 1..Len(f[m])
      BY <2>3, <2>4
    <2>6. Len(f[a]) <= Len(f[m + 1])
      <3>1. Len(f[m + 1]) = Len(f[m]) + Len(part[m + 1]) /\ Len(f[m]) \in Nat /\ Len(part[m + 1]) \in Nat
        BY <2>3
      <3>2. Len(f[a]) \in Nat /\ Len(f[a]) <= Len(f[m])
        BY <2>4
      <3> DEFINE whole == Len(f[m + 1])
                 some == Len(f[m])
                 more == Len(part[m + 1])
                 early == Len(f[a])
      <3>3. whole = some + more /\ some \in Nat /\ more \in Nat /\ early \in Nat /\ early <= some
        BY <3>1, <3>2
      <3> HIDE DEF whole, some, more, early
      <3>4. early <= whole
        BY <3>3
      <3> QED
        BY <3>4 DEF early, whole
    <2>7. \A i \in 1..Len(f[a]) : f[a][i] = f[m + 1][i]
      BY <2>3, <2>4, <2>5
    <2> QED
      BY <2>6, <2>7 DEF Begins
  <1>3. Bad = {}
    <2> SUFFICES ASSUME Bad # {} PROVE FALSE
      OBVIOUS
    <2>1. PICK m \in Bad : \A k \in Bad : m <= k
      BY LeastNatural
    <2>2. m # a /\ a \in Nat /\ n \in Nat /\ m \in Nat /\ a <= m /\ m <= n /\ ~Begins(f[a], f[m])
      BY <1>1
    <2>3. m - 1 \in Nat /\ ~(m <= m - 1) /\ (m - 1) + 1 = m /\ a <= m - 1 /\ m - 1 <= n
      BY <2>2
    <2>4. m - 1 \notin Bad
      BY <2>1, <2>3
    <2>5. Begins(f[a], f[m - 1])
      BY <2>3, <2>4
    <2>6. Begins(f[a], f[(m - 1) + 1])
      BY <1>2, <2>2, <2>3, <2>5
    <2> QED
      BY <2>2, <2>3, <2>6
  <1>4. b \in Nat /\ b <= n
    OBVIOUS
  <1> QED
    BY <1>3, <1>4

LEMMA BeginsTransitive ==
    ASSUME NEW a, NEW b, NEW c, Len(a) \in Nat, Len(b) \in Nat, Len(c) \in Nat, Begins(a, b), Begins(b, c)
    PROVE  Begins(a, c)
  <1>1. \A i \in 1..Len(a) : i \in 1..Len(b) /\ a[i] = b[i]
    BY DEF Begins
  <1>2. \A i \in 1..Len(b) : b[i] = c[i]
    BY DEF Begins
  <1>3. Len(a) <= Len(c)
    BY DEF Begins
  <1> QED
    BY <1>1, <1>2, <1>3 DEF Begins

(* A buffer of some capacity that holds the beginning of what there is:     *)
(* all of it, unless the buffer is full. It does so when more is added.     *)
Buffers(b, s, capacity) == Begins(b, s) /\ Len(b) <= capacity /\ (Len(b) = Len(s) \/ Len(b) = capacity)

LEMMA BufferFed ==
    ASSUME NEW X, NEW b \in Seq(X), NEW s \in Seq(X), NEW q \in Seq(X), NEW capacity \in Nat,
           Buffers(b, s, capacity)
    PROVE  LET room == capacity - Len(b)
               fed == b \o SubSeq(q, 1, IF room < Len(q) THEN room ELSE Len(q))
           IN  fed \in Seq(X) /\ Buffers(fed, s \o q, capacity)
  <1> DEFINE room == capacity - Len(b)
             n == IF room < Len(q) THEN room ELSE Len(q)
             part == SubSeq(q, 1, n)
             fed == b \o part
  <1> SUFFICES fed \in Seq(X) /\ Buffers(fed, s \o q, capacity)
    OBVIOUS
  <1>1. Len(b) \in Nat /\ Len(s) \in Nat /\ Len(q) \in Nat /\ Len(b) <= Len(s) /\ Len(b) <= capacity
    BY DEF Buffers, Begins
  <1>2. n \in Nat /\ n <= Len(q) /\ Len(b) + n <= capacity /\ (n = Len(q) \/ Len(b) + n = capacity)
    BY <1>1
  <1>3. part \in Seq(X) /\ Len(part) = n /\ \A i \in 1..n : part[i] = q[i]
    <2>1. \A i \in 1..n : q[i] \in X
      BY <1>2
    <2> HIDE DEF n
    <2> QED
      BY <1>2, <2>1, SubSeqProperties
  <1> HIDE DEF part, n
  <1>4. /\ fed \in Seq(X) /\ Len(fed) = Len(b) + n
        /\ \A i \in 1..(Len(b) + n) : fed[i] = IF i <= Len(b) THEN b[i] ELSE part[i - Len(b)]
    BY <1>3, ConcatProperties
  <1>5. /\ Len(s \o q) = Len(s) + Len(q)
        /\ \A i \in 1..(Len(s) + Len(q)) : (s \o q)[i] = IF i <= Len(s) THEN s[i] ELSE q[i - Len(s)]
    BY ConcatProperties
  <1> HIDE DEF fed
  <1>6. CASE Len(b) = Len(s)
    <2>1. ASSUME NEW i \in 1..(Len(b) + n) PROVE fed[i] = (s \o q)[i]
      <3>1. i \in 1..(Len(s) + Len(q))
        BY <1>1, <1>2, <1>6
      <3>2. CASE i <= Len(b)
        BY <1>1, <1>4, <1>5, <1>6, <3>1, <3>2 DEF Buffers, Begins
      <3>3. CASE ~(i <= Len(b))
        <4>1. i - Len(b) \in 1..n
          BY <1>1, <1>2, <3>3
        <4> QED
          BY <1>3, <1>4, <1>5, <1>6, <3>1, <3>3, <4>1
      <3> QED
        BY <3>2, <3>3
    <2>2. Len(fed) <= Len(s \o q) /\ Len(fed) <= capacity /\ (Len(fed) = Len(s \o q) \/ Len(fed) = capacity)
      <3>1. Len(fed) = Len(b) + n /\ Len(s \o q) = Len(s) + Len(q)
        BY <1>4, <1>5
      <3> QED
        BY <1>1, <1>2, <1>6, <3>1
    <2> QED
      BY <1>4, <2>1, <2>2 DEF Buffers, Begins
  <1>7. CASE Len(b) = capacity
    <2>1. n = 0
      BY <1>1, <1>2, <1>7
    <2>2. ASSUME NEW i \in 1..Len(b) PROVE fed[i] = (s \o q)[i]
      <3>1. i \in 1..(Len(b) + n) /\ i \in 1..(Len(s) + Len(q)) /\ i <= Len(s)
        BY <1>1, <2>1
      <3> QED
        BY <1>4, <1>5, <3>1 DEF Buffers, Begins
    <2>3. Len(fed) <= Len(s \o q) /\ Len(fed) = capacity /\ Len(fed) = Len(b)
      BY <1>1, <1>4, <1>5, <1>7, <2>1
    <2> QED
      BY <1>4, <2>2, <2>3 DEF Buffers, Begins
  <1> QED
    BY <1>6, <1>7 DEF Buffers
=============================================================================
