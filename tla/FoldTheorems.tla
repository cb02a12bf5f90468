----------------------------- MODULE FoldTheorems -----------------------------
(* Facts about the folds of sequences and sets.  A fold is a recursive function *)
(* on the subsets of its domain; the induction is on a set of numbers, taken    *)
(* from the well-foundedness of <, so that no fact has an operator parameter.   *)
EXTENDS Integers, Sequences, SequencesExt, FiniteSetTheorems, WellFoundedInduction,
        NaturalsInduction, TLAPS

LEMMA LessIsWellFounded == IsWellFoundedOn({ss \in Nat \X Nat : ss[1] < ss[2]}, Nat)
  BY NatLessThanWellFounded, Zenon DEF OpToRel

\* A set of numbers that are not all missing has a least one.
LEMMA LeastNumber ==
    ASSUME NEW T \in SUBSET Nat, T # {}
    PROVE  \E x \in T : \A y \in T : x <= y
<1> DEFINE R == {ss \in Nat \X Nat : ss[1] < ss[2]}
<1>1. \E x \in T : \A y \in T : ~ (<<y, x>> \in R)
  <2>1. IsWellFoundedOn(R, Nat)
    BY LessIsWellFounded
  <2> HIDE DEF R
  <2> QED
    BY <2>1, WFMin
<1>2. \A x, y \in Nat : <<y, x>> \in R <=> y < x
  OBVIOUS
<1> HIDE DEF R
<1>3. PICK x \in T : \A y \in T : ~ (<<y, x>> \in R)
  BY <1>1
<1>4. \A y \in T : ~ (y < x)
  BY <1>2, <1>3
<1> QED
  BY <1>4

\* Induction up to n, on the set of the numbers for which a fact holds.
LEMMA UpTo ==
    ASSUME NEW n \in Nat, NEW S, 0 \in S,
           \A k \in 0 .. n - 1 : k \in S => k + 1 \in S
    PROVE  \A k \in 0 .. n : k \in S
<1> DEFINE T == (0 .. n) \ S
<1>1. SUFFICES ASSUME T # {}
               PROVE  FALSE
  OBVIOUS
<1>2. PICK x \in T : \A y \in T : x <= y
  <2>1. T \in SUBSET Nat /\ T # {}
    BY <1>1
  <2> HIDE DEF T
  <2> QED
    BY <2>1, LeastNumber
<1>3. x # 0 /\ x \in 0 .. n /\ x \notin S
  BY <1>2
<1>4. x - 1 \in S
  <2>1. x - 1 \in 0 .. n /\ x - 1 \notin T
    BY <1>2, <1>3
  <2> QED
    BY <2>1
<1> QED
  BY <1>2, <1>3, <1>4

\* The greatest element of a set of numbers up to n.
LEMMA MaxUpTo ==
    ASSUME NEW n \in Nat, NEW s \in SUBSET (1 .. n), s # {}
    PROVE  Max(s) \in s /\ \A y \in s : y <= Max(s)
<1> DEFINE T == {k \in 0 .. n : \A y \in s : y <= k}
<1>1. n \in T
  OBVIOUS
<1>2. PICK x \in T : \A y \in T : x <= y
  <2>1. T \in SUBSET Nat /\ T # {}
    BY <1>1
  <2> HIDE DEF T
  <2> QED
    BY <2>1, LeastNumber
<1>3. x \in 0 .. n /\ \A y \in s : y <= x
  BY <1>2
<1>4. x \in s
  <2>1. SUFFICES ASSUME x \notin s
                 PROVE  FALSE
    OBVIOUS
  <2>2. \A y \in s : y <= x - 1
    BY <1>3, <2>1
  <2>3. x # 0
    <3>1. PICK y \in s : TRUE
      OBVIOUS
    <3>2. y \in 1 .. n /\ y <= x
      BY <1>3
    <3> QED
      BY <1>3, <3>2
  <2>4. x - 1 \in 0 .. n
    BY <1>3, <2>3
  <2>5. x - 1 \in T
    BY <2>2, <2>4
  <2>6. x <= x - 1
    BY <1>2, <2>5
  <2> QED
    BY <1>3, <2>6
<1>5. \E z \in s : \A y \in s : z >= y
  BY <1>3, <1>4
<1>6. Max(s) \in s /\ \A y \in s : Max(s) >= y
  BY <1>5 DEF Max
<1> QED
  BY <1>6

LEMMA MaxOfPrefix ==
    ASSUME NEW n \in Nat, NEW k \in 1 .. n
    PROVE  1 .. k \in SUBSET (1 .. n) /\ 1 .. k # {} /\ Max(1 .. k) = k
           /\ (1 .. k) \ {k} = 1 .. k - 1
<1>1. 1 .. k \in SUBSET (1 .. n) /\ k \in 1 .. k
  OBVIOUS
<1>2. Max(1 .. k) \in 1 .. k /\ \A y \in 1 .. k : y <= Max(1 .. k)
  BY <1>1, MaxUpTo
<1>3. Max(1 .. k) = k
  BY <1>1, <1>2
<1> QED
  BY <1>1, <1>3

\* G takes the greatest index off a set of indices; H gives for each index what it
\* does to a value.
Folds(G, n, base, H) ==
    \A s \in SUBSET (1 .. n) : G[s] = IF s = {} THEN base ELSE H[Max(s)][G[s \ {Max(s)}]]

\* This recursion has a solution.
LEMMA FoldExists ==
    ASSUME NEW n \in Nat, NEW V, NEW base \in V, NEW H \in [1 .. n -> [V -> V]]
    PROVE  \E G \in [SUBSET (1 .. n) -> V] : Folds(G, n, base, H)
<1> DEFINE D(m) == SUBSET (1 .. m)
           Solves(G, m) == \A s \in D(m) :
                              G[s] = IF s = {} THEN base ELSE H[Max(s)][G[s \ {Max(s)}]]
           S == {m \in 0 .. n : \E G \in [D(m) -> V] : Solves(G, m)}
<1>1. 0 \in S
  <2> DEFINE G == [s \in D(0) |-> base]
  <2>1. G \in [D(0) -> V]
    OBVIOUS
  <2>2. \A s \in D(0) : s = {} /\ G[s] = base
    OBVIOUS
  <2>3. Solves(G, 0)
    BY <2>2
  <2> HIDE DEF G, Solves, D
  <2> QED
    BY <2>1, <2>3
<1>2. ASSUME NEW m \in 0 .. n - 1, m \in S
      PROVE  m + 1 \in S
  <2>1. PICK G \in [D(m) -> V] : Solves(G, m)
    BY <1>2
  <2> DEFINE K == [s \in D(m + 1) |->
                      IF m + 1 \in s THEN H[m + 1][G[s \ {m + 1}]] ELSE G[s]]
  <2>2. \A s \in D(m + 1) : (m + 1 \notin s => s \in D(m)) /\ s \ {m + 1} \in D(m)
    <3> HIDE DEF K, Solves, S
    <3>1. (1 .. m + 1) \ {m + 1} = 1 .. m
      OBVIOUS
    <3> QED
      BY <3>1
  <2>3. m + 1 \in 1 .. n
    OBVIOUS
  <2>4. K \in [D(m + 1) -> V]
    <3>1. \A s \in D(m + 1) : (m + 1 \in s => H[m + 1][G[s \ {m + 1}]] \in V)
                              /\ (m + 1 \notin s => G[s] \in V)
      BY <2>1, <2>2, <2>3
    <3> QED
      BY <3>1
  <2>5. \A s \in D(m) : s \in D(m + 1) /\ m + 1 \notin s /\ K[s] = G[s]
    OBVIOUS
  <2>6. ASSUME NEW s \in D(m + 1)
        PROVE  K[s] = IF s = {} THEN base ELSE H[Max(s)][K[s \ {Max(s)}]]
    <3>1. CASE m + 1 \in s
      <4>1. Max(s) = m + 1
        <5>1. m + 1 \in Nat /\ s \in SUBSET (1 .. m + 1) /\ s # {}
          BY <3>1
        <5>2. Max(s) \in s /\ \A y \in s : y <= Max(s)
          BY <5>1, MaxUpTo
        <5>3. Max(s) \in 1 .. m + 1 /\ m + 1 <= Max(s)
          BY <3>1, <5>1, <5>2
        <5> QED
          BY <5>3
      <4>2. s \ {m + 1} \in D(m) /\ s # {}
        BY <3>1
      <4>3. K[s] = H[m + 1][G[s \ {m + 1}]] /\ K[s \ {m + 1}] = G[s \ {m + 1}]
        BY <2>5, <3>1, <4>2
      <4> HIDE DEF K
      <4> QED
        BY <4>1, <4>2, <4>3
    <3>2. CASE m + 1 \notin s
      <4>1. s \in D(m) /\ K[s] = G[s]
        BY <2>2, <2>5, <3>2
      <4>2. G[s] = IF s = {} THEN base ELSE H[Max(s)][G[s \ {Max(s)}]]
        BY <2>1, <4>1
      <4>3. s \ {Max(s)} \in D(m)
        BY <4>1
      <4>4. K[s \ {Max(s)}] = G[s \ {Max(s)}]
        BY <2>5, <4>3
      <4> HIDE DEF K
      <4> QED
        BY <4>1, <4>2, <4>4
    <3> QED
      BY <3>1, <3>2
  <2>7. Solves(K, m + 1)
    BY <2>6
  <2> HIDE DEF K, Solves, D
  <2> QED
    BY <2>3, <2>4, <2>7
<1>3. n \in S
  <2>1. n \in 0 .. n
    OBVIOUS
  <2> HIDE DEF S
  <2>2. \A k \in 0 .. n : k \in S
    BY <1>1, <1>2, UpTo
  <2> QED
    BY <2>1, <2>2
<1>4. PICK G \in [D(n) -> V] : Solves(G, n)
  BY <1>3
<1> QED
  BY <1>4 DEF Folds

\* G takes a value through n steps.
Steps(G, n, base, H) == G[0] = base /\ \A k \in 1 .. n : G[k] = H[k][G[k - 1]]

LEMMA StepsExist ==
    ASSUME NEW n \in Nat, NEW V, NEW base \in V, NEW H \in [1 .. n -> [V -> V]]
    PROVE  \E G \in [0 .. n -> V] : Steps(G, n, base, H)
<1>1. PICK F \in [SUBSET (1 .. n) -> V] : Folds(F, n, base, H)
  BY FoldExists, Zenon
<1> DEFINE G == [k \in 0 .. n |-> F[1 .. k]]
<1>2. G \in [0 .. n -> V]
  <2>1. \A k \in 0 .. n : 1 .. k \in SUBSET (1 .. n)
    OBVIOUS
  <2> QED
    BY <2>1
<1>3. G[0] = base
  <2>1. 1 .. 0 = {} /\ {} \in SUBSET (1 .. n) /\ G[0] = F[1 .. 0]
    OBVIOUS
  <2>2. F[{}] = base
    BY <1>1, <2>1 DEF Folds
  <2> HIDE DEF G
  <2> QED
    BY <2>1, <2>2
<1>4. ASSUME NEW k \in 1 .. n
      PROVE  G[k] = H[k][G[k - 1]]
  <2>1. 1 .. k \in SUBSET (1 .. n) /\ 1 .. k # {} /\ Max(1 .. k) = k
        /\ (1 .. k) \ {k} = 1 .. k - 1
    BY MaxOfPrefix
  <2>2. F[1 .. k] = H[k][F[1 .. k - 1]]
    BY <1>1, <2>1 DEF Folds
  <2>3. G[k] = F[1 .. k] /\ G[k - 1] = F[1 .. k - 1]
    OBVIOUS
  <2> HIDE DEF G
  <2> QED
    BY <2>2, <2>3
<1> HIDE DEF G
<1> QED
  BY <1>2, <1>3, <1>4 DEF Steps

---------------------------------------------------------------------------
(* Sums of sequences.                                                      *)

Sum(s) == FoldLeft(LAMBDA a, b : a + b, 0, s)

\* The sum of a sequence is the last of its partial sums.
LEMMA SumIsPartialSums ==
    ASSUME NEW s \in Seq(Nat)
    PROVE  \E f \in [0 .. Len(s) -> Nat] :
              /\ f[0] = 0
              /\ \A k \in 1 .. Len(s) : f[k] = f[k - 1] + s[k]
              /\ Sum(s) = f[Len(s)]
<1> DEFINE n == Len(s)
           Sums(g) == g = [u \in SUBSET DOMAIN s |->
                              IF u = {} THEN 0 ELSE g[u \ {Max(u)}] + s[Max(u)]]
           H == [i \in 1 .. n |-> [v \in Nat |-> v + s[i]]]
<1>1. n \in Nat /\ DOMAIN s = 1 .. n /\ \A i \in 1 .. n : s[i] \in Nat
  OBVIOUS
<1>2. H \in [1 .. n -> [Nat -> Nat]]
  BY <1>1
<1>3. PICK G \in [SUBSET (1 .. n) -> Nat] : Folds(G, n, 0, H)
  <2>1. 0 \in Nat /\ n \in Nat
    BY <1>1
  <2> HIDE DEF n, H
  <2> QED
    BY <1>2, <2>1, FoldExists, Zenon
<1>4. ASSUME NEW u \in SUBSET (1 .. n), u # {}
      PROVE  H[Max(u)][G[u \ {Max(u)}]] = G[u \ {Max(u)}] + s[Max(u)]
  <2>1. Max(u) \in 1 .. n
    BY <1>1, <1>4, MaxUpTo
  <2>2. G[u \ {Max(u)}] \in Nat
    BY <1>3
  <2> QED
    BY <2>1, <2>2
<1>5. Sums(G)
  <2> HIDE DEF H, n
  <2>1. \A u \in SUBSET (1 .. n) :
           G[u] = IF u = {} THEN 0 ELSE G[u \ {Max(u)}] + s[Max(u)]
    BY <1>3, <1>4 DEF Folds
  <2>2. G = [u \in SUBSET (1 .. n) |-> G[u]]
    OBVIOUS
  <2> QED
    BY <1>1, <2>1, <2>2
<1> DEFINE g == CHOOSE it : Sums(it)
<1>6. Sums(g)
  <2> HIDE DEF Sums
  <2> QED
    BY <1>5
<1>7. Sum(s) = g[1 .. n]
  <2>1. Sum(s) = g[DOMAIN s]
    BY Zenon DEF Sum, FoldLeft, MapThenFoldSet
  <2> HIDE DEF g
  <2> QED
    BY <1>1, <2>1
<1> HIDE DEF g
<1>8. g[1 .. 0] = 0
  BY <1>1, <1>6
<1>9. ASSUME NEW k \in 1 .. n
      PROVE  g[1 .. k] = g[1 .. k - 1] + s[k]
  <2>1. 1 .. k \in SUBSET DOMAIN s /\ 1 .. k # {} /\ Max(1 .. k) = k
        /\ (1 .. k) \ {k} = 1 .. k - 1
    BY <1>1, MaxOfPrefix
  <2>2. g[1 .. k] = g[(1 .. k) \ {Max(1 .. k)}] + s[Max(1 .. k)]
    BY <1>6, <2>1
  <2> QED
    BY <2>1, <2>2
<1> DEFINE f == [k \in 0 .. n |-> g[1 .. k]]
<1>10. \A k \in 0 .. n : g[1 .. k] \in Nat
  <2> DEFINE S == {k \in 0 .. n : g[1 .. k] \in Nat}
  <2>1. 0 \in S
    BY <1>1, <1>8
  <2>2. ASSUME NEW k \in 0 .. n - 1, k \in S
        PROVE  k + 1 \in S
    <3>1. k + 1 \in 1 .. n /\ (k + 1) - 1 = k
      BY <1>1
    <3> QED
      BY <1>1, <1>9, <2>2, <3>1
  <2>3. \A k \in 0 .. n : k \in S
    <3> HIDE DEF S, n
    <3> QED
      BY <1>1, <2>1, <2>2, UpTo
  <2> QED
    BY <2>3
<1>11. f \in [0 .. n -> Nat]
  BY <1>10
<1>12. f[0] = 0 /\ Sum(s) = f[n] /\ \A k \in 1 .. n : f[k] = f[k - 1] + s[k]
  BY <1>1, <1>7, <1>8, <1>9
<1> HIDE DEF f
<1> QED
  BY <1>11, <1>12

LEMMA SumOfEmpty == Sum(<<>>) = 0
<1>1. <<>> \in Seq(Nat) /\ Len(<<>>) = 0
  OBVIOUS
<1> QED
  BY <1>1, SumIsPartialSums

\* One more number.
LEMMA SumOfAppend ==
    ASSUME NEW s \in Seq(Nat), NEW x \in Nat
    PROVE  Sum(s) \in Nat /\ Sum(Append(s, x)) = Sum(s) + x
<1> DEFINE n == Len(s)
           t == Append(s, x)
<1>1. /\ n \in Nat /\ t \in Seq(Nat) /\ Len(t) = n + 1 /\ t[n + 1] = x
      /\ \A k \in 1 .. n : t[k] = s[k]
  OBVIOUS
<1>2. PICK f \in [0 .. n -> Nat] :
         /\ f[0] = 0
         /\ \A k \in 1 .. n : f[k] = f[k - 1] + s[k]
         /\ Sum(s) = f[n]
  BY SumIsPartialSums
<1>3. PICK g \in [0 .. n + 1 -> Nat] :
         /\ g[0] = 0
         /\ \A k \in 1 .. n + 1 : g[k] = g[k - 1] + t[k]
         /\ Sum(t) = g[n + 1]
  <2> HIDE DEF t, n
  <2> QED
    BY <1>1, SumIsPartialSums
<1>4. \A k \in 0 .. n : f[k] = g[k]
  <2> DEFINE S == {k \in 0 .. n : f[k] = g[k]}
  <2>1. 0 \in S
    BY <1>1, <1>2, <1>3
  <2>2. ASSUME NEW k \in 0 .. n - 1, k \in S
        PROVE  k + 1 \in S
    <3>1. k + 1 \in 1 .. n /\ k + 1 \in 1 .. n + 1 /\ (k + 1) - 1 = k
      BY <1>1
    <3>2. f[k + 1] = f[k] + s[k + 1] /\ g[k + 1] = g[k] + t[k + 1]
      BY <1>2, <1>3, <3>1
    <3> HIDE DEF t
    <3> QED
      BY <1>1, <2>2, <3>1, <3>2
  <2>3. \A k \in 0 .. n : k \in S
    <3> HIDE DEF S, n, t
    <3> QED
      BY <1>1, <2>1, <2>2, UpTo
  <2> QED
    BY <2>3
<1>5. g[n + 1] = g[n] + x /\ f[n] = g[n] /\ f[n] \in Nat
  <2>1. n + 1 \in 1 .. n + 1 /\ (n + 1) - 1 = n /\ n \in 0 .. n
    BY <1>1
  <2> HIDE DEF t, n
  <2> QED
    BY <1>1, <1>2, <1>3, <1>4, <2>1
<1> QED
  BY <1>2, <1>3, <1>5

---------------------------------------------------------------------------
(* Sums over finite sets, which a fold takes in an order nobody knows.      *)

Pick(s) == CHOOSE x \in s : TRUE

\* g[s] is the sum of f over s, for every part s of S.
Adds(g, f, S) ==
    \A s \in SUBSET S : g[s] = IF s = {} THEN 0 ELSE g[s \ {Pick(s)}] + f[Pick(s)]

Numbers(f, S) == \A x \in S : f[x] \in Nat

LEMMA Smaller ==
    ASSUME NEW S, IsFiniteSet(S), NEW s \in SUBSET S, s # {}, NEW x \in s
    PROVE  /\ Cardinality(s) \in Nat \ {0} /\ IsFiniteSet(s)
           /\ s \ {x} \in SUBSET S /\ Cardinality(s \ {x}) = Cardinality(s) - 1
<1>1. IsFiniteSet(s)
  BY FS_Subset
<1>2. Cardinality(s) \in Nat /\ Cardinality(s) # 0
  BY <1>1, FS_CardinalityType, FS_EmptySet
<1>3. Cardinality(s \ {x}) = Cardinality(s) - 1
  BY <1>1, FS_RemoveElement
<1> QED
  BY <1>1, <1>2, <1>3

LEMMA Picked ==
    ASSUME NEW s, s # {}
    PROVE  Pick(s) \in s
  BY DEF Pick

\* Two sums of functions that agree on T agree on the parts of T.
LEMMA SumsAgree ==
    ASSUME NEW S, IsFiniteSet(S), NEW T \in SUBSET S, NEW f, NEW e, \A x \in T : f[x] = e[x],
           NEW g, NEW h, Adds(g, f, S), Adds(h, e, T)
    PROVE  \A s \in SUBSET T : g[s] = h[s]
<1> DEFINE Q == {k \in 0 .. Cardinality(S) : \A s \in SUBSET T : Cardinality(s) = k => g[s] = h[s]}
<1>1. Cardinality(S) \in Nat /\ IsFiniteSet(T)
  BY FS_CardinalityType, FS_Subset
<1>2. 0 \in Q
  <2>1. \A s \in SUBSET T : Cardinality(s) = 0 => s = {}
    BY <1>1, FS_Subset, FS_EmptySet
  <2>2. g[{}] = 0 /\ h[{}] = 0
    BY DEF Adds
  <2> QED
    BY <1>1, <2>1, <2>2
<1>3. ASSUME NEW k \in 0 .. Cardinality(S) - 1, k \in Q
      PROVE  k + 1 \in Q
  <2>1. ASSUME NEW s \in SUBSET T, Cardinality(s) = k + 1
        PROVE  g[s] = h[s]
    <3>1. s # {}
      <4>1. k + 1 # 0
        BY <1>1
      <4> QED
        BY <2>1, <4>1, FS_EmptySet
    <3>2. Pick(s) \in s
      BY <3>1, Picked
    <3>3. s \ {Pick(s)} \in SUBSET T /\ Cardinality(s \ {Pick(s)}) = k
      BY <1>1, <2>1, <3>1, <3>2, Smaller
    <3>4. g[s \ {Pick(s)}] = h[s \ {Pick(s)}] /\ f[Pick(s)] = e[Pick(s)]
      BY <1>3, <3>2, <3>3
    <3>5. g[s] = g[s \ {Pick(s)}] + f[Pick(s)] /\ h[s] = h[s \ {Pick(s)}] + e[Pick(s)]
      BY <3>1 DEF Adds
    <3> QED
      BY <3>4, <3>5
  <2> QED
    BY <1>1, <2>1
<1> HIDE DEF Q
<1>4. \A k \in 0 .. Cardinality(S) : k \in Q
  BY <1>1, <1>2, <1>3, UpTo
<1>5. ASSUME NEW s \in SUBSET T
      PROVE  g[s] = h[s]
  <2>1. Cardinality(s) \in 0 .. Cardinality(S)
    <3>1. s \in SUBSET S
      OBVIOUS
    <3>2. IsFiniteSet(s) /\ Cardinality(s) <= Cardinality(S)
      BY <3>1, FS_Subset
    <3> QED
      BY <1>1, <3>2, FS_CardinalityType
  <2> QED
    BY <1>4, <2>1 DEF Q
<1> QED
  BY <1>5

\* A set of numbers can be summed.
LEMMA SumExists ==
    ASSUME NEW S, IsFiniteSet(S), NEW f, Numbers(f, S)
    PROVE  \E g \in [SUBSET S -> Nat] : Adds(g, f, S)
<1> DEFINE D(k) == {s \in SUBSET S : Cardinality(s) <= k}
           Solves(g, k) == \A s \in D(k) : g[s] = IF s = {} THEN 0 ELSE g[s \ {Pick(s)}] + f[Pick(s)]
           Q == {k \in 0 .. Cardinality(S) : \E g \in [D(k) -> Nat] : Solves(g, k)}
<1>1. Cardinality(S) \in Nat /\ \A s \in SUBSET S : IsFiniteSet(s) /\ Cardinality(s) \in 0 .. Cardinality(S)
  BY FS_CardinalityType, FS_Subset
<1>2. 0 \in Q
  <2> DEFINE g == [s \in D(0) |-> 0]
  <2>1. \A s \in D(0) : s = {}
    BY <1>1, FS_EmptySet
  <2>2. g \in [D(0) -> Nat] /\ \A s \in D(0) : g[s] = 0
    OBVIOUS
  <2> HIDE DEF g
  <2>3. Solves(g, 0)
    BY <2>1, <2>2
  <2> HIDE DEF D, Solves
  <2> QED
    BY <1>1, <2>2, <2>3
<1>3. ASSUME NEW k \in 0 .. Cardinality(S) - 1, k \in Q
      PROVE  k + 1 \in Q
  <2>1. PICK g \in [D(k) -> Nat] : Solves(g, k)
    BY <1>3
  <2> DEFINE h == [s \in D(k + 1) |-> IF s \in D(k) THEN g[s] ELSE g[s \ {Pick(s)}] + f[Pick(s)]]
  <2>2. ASSUME NEW s \in D(k + 1), s # {}
        PROVE  /\ Pick(s) \in s /\ s \ {Pick(s)} \in D(k + 1) /\ s \ {Pick(s)} \in D(k)
    <3>1. Pick(s) \in s
      BY <2>2, Picked
    <3>2. s \ {Pick(s)} \in SUBSET S /\ Cardinality(s \ {Pick(s)}) = Cardinality(s) - 1
      BY <2>2, <3>1, Smaller
    <3>3. Cardinality(s) \in Nat /\ Cardinality(s) <= k + 1
      BY <1>1
    <3> QED
      BY <1>1, <3>1, <3>2, <3>3
  <2>3. {} \in D(k)
    BY <1>1, FS_EmptySet
  <2>4. ASSUME NEW s \in D(k + 1)
        PROVE  h[s] \in Nat
    <3>1. CASE s \in D(k)
      BY <2>1, <3>1
    <3>2. CASE s \notin D(k)
      <4>1. s # {}
        BY <2>3, <3>2
      <4>2. g[s \ {Pick(s)}] \in Nat /\ f[Pick(s)] \in Nat
        BY <2>1, <2>2, <4>1 DEF Numbers
      <4> QED
        BY <3>2, <4>2
    <3> QED
      BY <3>1, <3>2
  <2>5. h \in [D(k + 1) -> Nat]
    BY <2>4
  <2>6. ASSUME NEW s \in D(k + 1)
        PROVE  h[s] = IF s = {} THEN 0 ELSE h[s \ {Pick(s)}] + f[Pick(s)]
    <3>1. CASE s = {}
      <4>1. g[s] = 0
        BY <2>1, <2>3, <3>1
      <4> QED
        BY <2>3, <3>1, <4>1
    <3>2. CASE s # {}
      <4>1. h[s \ {Pick(s)}] = g[s \ {Pick(s)}]
        BY <2>2, <3>2
      <4>2. CASE s \in D(k)
        <5>1. g[s] = g[s \ {Pick(s)}] + f[Pick(s)]
          BY <2>1, <3>2, <4>2
        <5> QED
          BY <3>2, <4>1, <4>2, <5>1
      <4>3. CASE s \notin D(k)
        <5>1. h[s] = g[s \ {Pick(s)}] + f[Pick(s)]
          BY <4>3
        <5> HIDE DEF h, D
        <5> QED
          BY <3>2, <4>1, <5>1
      <4> QED
        BY <4>2, <4>3
    <3> QED
      BY <3>1, <3>2
  <2>7. Solves(h, k + 1) /\ k + 1 \in 0 .. Cardinality(S)
    <3> HIDE DEF h, D
    <3> QED
      BY <1>1, <2>6
  <2> HIDE DEF h, D, Solves
  <2> QED
    BY <2>5, <2>7
<1>4. Cardinality(S) \in Q
  <2> HIDE DEF Q
  <2>1. \A k \in 0 .. Cardinality(S) : k \in Q
    BY <1>1, <1>2, <1>3, UpTo
  <2> QED
    BY <1>1, <2>1
<1>5. PICK g \in [D(Cardinality(S)) -> Nat] : Solves(g, Cardinality(S))
  BY <1>4
<1>6. D(Cardinality(S)) = SUBSET S
  BY <1>1
<1> QED
  BY <1>5, <1>6 DEF Adds

\* MapThenSumSet adds the other way round, which is the same for numbers.
AddsBefore(h, f, S) ==
    \A s \in SUBSET S : h[s] = IF s = {} THEN 0 ELSE f[Pick(s)] + h[s \ {Pick(s)}]

LEMMA SumsEitherWay ==
    ASSUME NEW S, IsFiniteSet(S), NEW f, Numbers(f, S), NEW h, AddsBefore(h, f, S)
    PROVE  Adds(h, f, S)
<1> DEFINE Q == {k \in 0 .. Cardinality(S) : \A s \in SUBSET S : Cardinality(s) = k => h[s] \in Nat}
<1>1. Cardinality(S) \in Nat /\ \A s \in SUBSET S : IsFiniteSet(s) /\ Cardinality(s) \in 0 .. Cardinality(S)
  BY FS_CardinalityType, FS_Subset
<1>2. 0 \in Q
  <2>1. \A s \in SUBSET S : Cardinality(s) = 0 => s = {}
    BY <1>1, FS_EmptySet
  <2>2. h[{}] = 0
    BY DEF AddsBefore
  <2> QED
    BY <1>1, <2>1, <2>2
<1>3. ASSUME NEW k \in 0 .. Cardinality(S) - 1, k \in Q
      PROVE  k + 1 \in Q
  <2>1. ASSUME NEW s \in SUBSET S, Cardinality(s) = k + 1
        PROVE  h[s] \in Nat
    <3>1. s # {}
      <4>1. k + 1 # 0
        BY <1>1
      <4> QED
        BY <2>1, <4>1, FS_EmptySet
    <3>2. Pick(s) \in s
      BY <3>1, Picked
    <3>3. s \ {Pick(s)} \in SUBSET S /\ Cardinality(s \ {Pick(s)}) = k
      <4>1. s \ {Pick(s)} \in SUBSET S /\ Cardinality(s \ {Pick(s)}) = Cardinality(s) - 1
        BY <3>1, <3>2, Smaller
      <4>2. (k + 1) - 1 = k
        BY <1>1
      <4> QED
        BY <2>1, <4>1, <4>2
    <3>4. h[s \ {Pick(s)}] \in Nat /\ f[Pick(s)] \in Nat
      BY <1>3, <3>2, <3>3 DEF Numbers
    <3>5. h[s] = f[Pick(s)] + h[s \ {Pick(s)}]
      BY <3>1 DEF AddsBefore
    <3> QED
      BY <3>4, <3>5
  <2> QED
    BY <1>1, <2>1
<1> HIDE DEF Q
<1>4. \A k \in 0 .. Cardinality(S) : k \in Q
  BY <1>1, <1>2, <1>3, UpTo
<1>5. ASSUME NEW s \in SUBSET S
      PROVE  h[s] = IF s = {} THEN 0 ELSE h[s \ {Pick(s)}] + f[Pick(s)]
  <2>1. s \ {Pick(s)} \in SUBSET S
    OBVIOUS
  <2>2. h[s \ {Pick(s)}] \in Nat
    BY <1>1, <1>4, <2>1 DEF Q
  <2>3. s # {} => f[Pick(s)] \in Nat
    BY Picked DEF Numbers
  <2>4. h[s] = IF s = {} THEN 0 ELSE f[Pick(s)] + h[s \ {Pick(s)}]
    BY DEF AddsBefore
  <2> QED
    BY <2>2, <2>3, <2>4
<1> QED
  BY <1>5 DEF Adds

TakesOff(g, f, s) == \A x \in s : g[s] = g[s \ {x}] + f[x]

\* A summand can be taken off first, whichever the sum took off.
LEMMA SumTakesOff ==
    ASSUME NEW S, IsFiniteSet(S), NEW f, Numbers(f, S),
           NEW g \in [SUBSET S -> Nat], Adds(g, f, S)
    PROVE  \A s \in SUBSET S : TakesOff(g, f, s)
<1> DEFINE Good(s) == \A x \in s : g[s] = g[s \ {x}] + f[x]
           Q == {k \in 0 .. Cardinality(S) : \A s \in SUBSET S : Cardinality(s) = k => Good(s)}
<1>1. Cardinality(S) \in Nat /\ \A s \in SUBSET S : IsFiniteSet(s) /\ Cardinality(s) \in 0 .. Cardinality(S)
  BY FS_CardinalityType, FS_Subset
<1>2. 0 \in Q
  BY <1>1, FS_EmptySet
<1>3. ASSUME NEW k \in 0 .. Cardinality(S) - 1, k \in Q
      PROVE  k + 1 \in Q
  <2>1. ASSUME NEW s \in SUBSET S, Cardinality(s) = k + 1, NEW x \in s
        PROVE  g[s] = g[s \ {x}] + f[x]
    <3> DEFINE p == Pick(s)
    <3>1. p \in s /\ g[s] = g[s \ {p}] + f[p]
      BY Picked DEF Adds
    <3> HIDE DEF p
    <3>2. CASE x = p
      BY <3>1, <3>2
    <3>3. CASE x # p
      <4> HIDE DEF Q
      <4>0. s # {} /\ Cardinality(s) - 1 = k /\ x \in s \ {p} /\ p \in s \ {x}
        BY <1>1, <2>1, <3>1, <3>3
      <4>1. s \ {p} \in SUBSET S /\ Cardinality(s \ {p}) = k
        BY <3>1, <4>0, Smaller
      <4>2. s \ {x} \in SUBSET S /\ Cardinality(s \ {x}) = k
        BY <4>0, Smaller
      <4>3. g[s \ {p}] = g[(s \ {p}) \ {x}] + f[x]
        BY <1>3, <4>0, <4>1 DEF Q
      <4>4. g[s \ {x}] = g[(s \ {x}) \ {p}] + f[p]
        BY <1>3, <4>0, <4>2 DEF Q
      <4>5. (s \ {p}) \ {x} = (s \ {x}) \ {p} /\ (s \ {x}) \ {p} \in SUBSET S
        OBVIOUS
      <4>6. g[(s \ {x}) \ {p}] \in Nat /\ f[x] \in Nat /\ f[p] \in Nat
        BY <3>1, <4>5 DEF Numbers
      <4> DEFINE rest == g[(s \ {x}) \ {p}]
      <4>7. g[s \ {p}] = rest + f[x] /\ g[s \ {x}] = rest + f[p] /\ rest \in Nat
        BY <4>3, <4>4, <4>5, <4>6
      <4> HIDE DEF rest
      <4> QED
        BY <3>1, <4>6, <4>7
    <3> QED
      BY <3>2, <3>3
  <2> QED
    BY <1>1, <2>1
<1>4. \A k \in 0 .. Cardinality(S) : k \in Q
  <2> HIDE DEF Q
  <2> QED
    BY <1>1, <1>2, <1>3, UpTo
<1> QED
  BY <1>1, <1>4 DEF TakesOff
=============================================================================
