------------------------------- MODULE DataProofs -------------------------------
(***************************************************************************)
(* The parts of the library that read and keep data, for any input: the    *)
(* histogram, the block allocator, the allocation bitmap, the vectored     *)
(* i/o with its transfer loops and the reader of configuration documents.  *)
(*                                                                         *)
(* First come the facts about numbers and recursion that the others need:  *)
(* the provers know no induction, so a function defined by recursion, or a *)
(* fold of the library, is shown to exist before its values are used.      *)
(***************************************************************************)
EXTENDS Histogram, VBasic, Bitmap, IoVec, ConfigToken,
        FiniteSetTheorems, SequenceTheorems, WellFoundedInduction, TLAPS

\* A set of numbers that is not empty has a smallest member.
LEMMA SmallestMember ==
    ASSUME NEW S \in SUBSET Nat, S # {}
    PROVE  \E x \in S : \A y \in S : x <= y
<1>1. PICK x \in S : \A y \in S : ~(<<y, x>> \in OpToRel(<, Nat))
  BY NatLessThanWellFounded, WFMin
<1>2. \A y \in S : ~(y < x)
  BY <1>1 DEF OpToRel
<1>. QED
  BY <1>2

\* Induction up to n, for a property given by the set of numbers that have it.
LEMMA Induction ==
    ASSUME NEW n \in Nat, NEW Good, 0 \in Good,
           \A k \in 0..(n - 1) : k \in Good => k + 1 \in Good
    PROVE  \A k \in 0..n : k \in Good
<1> DEFINE Bad == {k \in 0..n : k \notin Good}
<1>1. SUFFICES ASSUME Bad # {}, Bad \in SUBSET Nat PROVE FALSE
  OBVIOUS
<1>2. PICK k \in Bad : \A j \in Bad : k <= j
  BY <1>1, SmallestMember
<1>3. k - 1 \in 0..(n - 1) /\ k - 1 \notin Bad
  BY <1>2
<1>. QED
  BY <1>2, <1>3

\* A step function for each member of D, on the values B.
Steps(g, D, B) == g \in [D -> [B -> B]]

\* A function defined by recursion on its argument exists.
LEMMA RecursionExists ==
    ASSUME NEW B, NEW base \in B, NEW g, Steps(g, Nat, B)
    PROVE  \E f \in [Nat -> B] :
              f[0] = base /\ \A n \in Nat \ {0} : f[n] = g[n][f[n - 1]]
<1>0. g \in [Nat -> [B -> B]]
  BY DEF Steps
<1> DEFINE On(n, f) == /\ f \in [0..n -> B]
                       /\ \A i \in 0..n : f[i] = IF i = 0 THEN base ELSE g[i][f[i - 1]]
           Some == {n \in Nat : \E f : On(n, f)}
<1>1. 0 \in Some
  <2>1. On(0, [i \in 0..0 |-> base])
    OBVIOUS
  <2>. QED
    BY <2>1
<1>2. ASSUME NEW n \in Nat, n \in Some PROVE n + 1 \in Some
  <2>1. PICK f : On(n, f)
    BY <1>2
  <2> DEFINE h == [i \in 0..(n + 1) |-> IF i = n + 1 THEN g[n + 1][f[n]] ELSE f[i]]
  <2>2. f[n] \in B /\ g[n + 1][f[n]] \in B
    BY <1>0, <2>1
  <2>3. h \in [0..(n + 1) -> B]
    BY <2>1, <2>2
  <2>4. ASSUME NEW i \in 0..(n + 1)
        PROVE  h[i] = IF i = 0 THEN base ELSE g[i][h[i - 1]]
    <3>1. CASE i = n + 1
      BY <3>1
    <3>2. CASE i # n + 1
      BY <2>1, <3>2
    <3>. QED
      BY <3>1, <3>2
  <2>5. n + 1 \in Nat /\ On(n + 1, h)
    BY <2>3, <2>4
  <2>. QED
    BY <2>5
<1>3. ASSUME NEW n \in Nat PROVE n \in Some
  <2>1. \A k \in 0..n : k \in Some
    <3> HIDE DEF Some
    <3>. QED
      BY <1>1, <1>2, Induction
  <2>. QED
    BY <2>1
<1>4. ASSUME NEW m \in Nat, NEW n \in Nat, m <= n, NEW f, NEW h, On(m, f), On(n, h)
      PROVE  \A i \in 0..m : f[i] = h[i]
  <2> DEFINE Same == {i \in 0..m : f[i] = h[i]}
  <2>1. 0 \in Same
    <3>1. 0 \in 0..m /\ 0 \in 0..n
      BY <1>4
    <3>2. f[0] = base /\ h[0] = base
      BY <1>4, <3>1
    <3>. QED
      BY <3>1, <3>2
  <2>2. ASSUME NEW k \in 0..(m - 1), k \in Same PROVE k + 1 \in Same
    <3>1. k + 1 \in 0..m /\ k + 1 \in 0..n /\ k + 1 # 0 /\ k + 1 - 1 = k
      BY <1>4
    <3>2. f[k + 1] = g[k + 1][f[k]] /\ h[k + 1] = g[k + 1][h[k]]
      BY <1>4, <3>1
    <3>. QED
      BY <2>2, <3>1, <3>2
  <2>3. \A k \in 0..m : k \in Same
    <3> HIDE DEF Same
    <3>. QED
      BY <2>1, <2>2, Induction
  <2>. QED
    BY <2>3
<1>5. ASSUME NEW n \in Nat, NEW f, On(n, f)
      PROVE  f[n] \in B /\ f[n] = IF n = 0 THEN base ELSE g[n][f[n - 1]]
  BY <1>5
<1> DEFINE At(n) == CHOOSE f : On(n, f)
           F == [n \in Nat |-> At(n)[n]]
<1>6. ASSUME NEW n \in Nat PROVE On(n, At(n))
  BY <1>3
<1> HIDE DEF On, At
<1>7. F \in [Nat -> B]
  BY <1>5, <1>6
<1>8. ASSUME NEW n \in Nat PROVE F[n] = IF n = 0 THEN base ELSE g[n][F[n - 1]]
  <2>1. F[n] = At(n)[n] /\ (n # 0 => n - 1 \in Nat /\ F[n - 1] = At(n - 1)[n - 1])
    OBVIOUS
  <2>2. n # 0 => At(n - 1)[n - 1] = At(n)[n - 1]
    <3>1. SUFFICES ASSUME n # 0 PROVE At(n - 1)[n - 1] = At(n)[n - 1]
      OBVIOUS
    <3>2. n - 1 \in Nat /\ n - 1 <= n /\ n - 1 \in 0..(n - 1)
      BY <3>1
    <3>. QED
      BY <1>4, <1>6, <3>2
  <2>3. At(n)[n] = IF n = 0 THEN base ELSE g[n][At(n)[n - 1]]
    BY <1>5, <1>6
  <2>. QED
    BY <2>1, <2>2, <2>3
<1>. HIDE DEF F
<1>. QED
  BY <1>7, <1>8

\* A way to choose a member of each nonempty subset of S, and a function of the
\* subsets of S that takes one member after another out of its argument.
Chooses(c, S) == \A s \in SUBSET S : s # {} => c[s] \in s
TakesOut(it, base, g, c, S) ==
    /\ it[{}] = base
    /\ \A s \in SUBSET S : s # {} => it[s] = g[c[s]][it[s \ {c[s]}]]

\* Such a function exists on the subsets of a finite set.
LEMMA SetRecursionExists ==
    ASSUME NEW S, IsFiniteSet(S), NEW B, NEW base \in B, NEW g, Steps(g, S, B),
           NEW c, Chooses(c, S)
    PROVE  \E it \in [SUBSET S -> B] : TakesOut(it, base, g, c, S)
<1>0. g \in [S -> [B -> B]]
  BY DEF Steps
<1> DEFINE T == SUBSET S
           Next1(h) == [s \in T |-> IF s = {} THEN base ELSE g[c[s]][h[s \ {c[s]}]]]
           G == [n \in Nat |-> [h \in [T -> B] |-> Next1(h)]]
<1>1. [s \in T |-> base] \in [T -> B]
  OBVIOUS
<1>2. ASSUME NEW h \in [T -> B] PROVE Next1(h) \in [T -> B]
  <2>1. ASSUME NEW s \in T, s # {} PROVE g[c[s]][h[s \ {c[s]}]] \in B
    BY <1>0, <2>1 DEF Chooses
  <2>. QED
    BY <2>1
<1>3. G \in [Nat -> [[T -> B] -> [T -> B]]]
  <2> HIDE DEF Next1, T
  <2>. QED
    BY <1>2
<1> DEFINE start == [s \in T |-> base]
           H == [T -> B]
<1>4. PICK f \in [Nat -> H] :
         f[0] = start /\ \A n \in Nat \ {0} : f[n] = G[n][f[n - 1]]
  <2>1. start \in H /\ Steps(G, Nat, H)
    BY <1>1, <1>3 DEF Steps
  <2> HIDE DEF G, H, start
  <2>. QED
    BY <2>1, RecursionExists
<1>5. ASSUME NEW s \in T PROVE Cardinality(s) \in Nat /\ IsFiniteSet(s)
  BY <1>5, FS_Subset, FS_CardinalityType
<1>6. f[0] = start
  <2> HIDE DEF G, H, start
  <2>. QED
    BY <1>4
<1>7. ASSUME NEW n \in Nat \ {0} PROVE f[n] = Next1(f[n - 1]) /\ f[n - 1] \in H
  <2>1. f[n] = G[n][f[n - 1]] /\ f[n - 1] \in H
    <3> HIDE DEF G, H, start
    <3>. QED
      BY <1>4
  <2>2. \A h \in H : G[n][h] = Next1(h)
    <3> HIDE DEF Next1
    <3>. QED
      OBVIOUS
  <2> HIDE DEF G, H, Next1
  <2>. QED
    BY <2>1, <2>2
<1> DEFINE it == [s \in T |-> f[Cardinality(s)][s]]
<1>8. it \in [T -> B]
  <2>1. ASSUME NEW n \in Nat, NEW s \in T PROVE f[n][s] \in B
    <3>1. f[n] \in [T -> B]
      BY <1>4
    <3>. QED
      BY <3>1
  <2> HIDE DEF T
  <2>. QED
    BY <2>1, <1>5
<1>9. ASSUME NEW s \in T
      PROVE  it[s] = IF s = {} THEN base ELSE g[c[s]][it[s \ {c[s]}]]
  <2>1. CASE s = {}
    <3>1. Cardinality(s) = 0
      BY <2>1, FS_EmptySet
    <3>. QED
      BY <2>1, <3>1, <1>6
  <2>2. CASE s # {}
    <3> DEFINE r == s \ {c[s]}
               n == Cardinality(s)
    <3>1. c[s] \in s /\ r \in T
      BY <2>2 DEF Chooses
    <3>2. Cardinality(r) = n - 1 /\ n \in Nat \ {0}
      BY <1>5, <2>2, <3>1, FS_RemoveElement, FS_EmptySet
    <3>3. f[n] = Next1(f[n - 1])
      BY <1>7, <3>2
    <3>5. it[s] = f[n][s] /\ it[r] = f[n - 1][r]
      BY <3>1, <3>2
    <3>6. Next1(f[n - 1])[s] = g[c[s]][f[n - 1][r]]
      BY <2>2
    <3>. QED
      BY <2>2, <3>3, <3>5, <3>6
  <2>. QED
    BY <2>1, <2>2
<1>. HIDE DEF it
<1>10. TakesOut(it, base, g, c, S)
  BY <1>9 DEF TakesOut
<1>. QED
  BY <1>8, <1>10

\* The largest number of a set of positions.
LEMMA MaxOfPositions ==
    ASSUME NEW n \in Nat, NEW S \in SUBSET (1..n), S # {}
    PROVE  Max(S) \in S /\ \A x \in S : x <= Max(S)
<1> DEFINE Up == {k \in Nat : \A x \in S : x <= k}
<1>1. n \in Up /\ Up \in SUBSET Nat
  OBVIOUS
<1>2. PICK m \in Up : \A k \in Up : m <= k
  <2> HIDE DEF Up
  <2>. QED
    BY <1>1, SmallestMember
<1>3. m \in S
  <2>1. SUFFICES ASSUME m \notin S PROVE FALSE
    OBVIOUS
  <2>2. \A x \in S : x <= m - 1 /\ x \in Nat /\ x >= 1
    BY <1>2, <2>1
  <2>3. m - 1 \in Up
    <3>1. PICK x \in S : TRUE
      OBVIOUS
    <3>2. m \in Nat /\ x <= m - 1 /\ x >= 1 /\ x \in Nat
      BY <1>2, <2>2, <3>1
    <3>3. m - 1 \in Nat
      BY <3>2
    <3>. QED
      BY <2>2, <3>3
  <2>. QED
    BY <1>2, <2>3
<1>4. \E x \in S : \A y \in S : x >= y
  BY <1>2, <1>3
<1>5. Max(S) \in S /\ \A y \in S : Max(S) >= y
  BY <1>4 DEF Max
<1>. QED
  BY <1>5

LEMMA MaxOfInterval ==
    ASSUME NEW n \in Nat, NEW k \in 1..n
    PROVE  Max(1..k) = k /\ (1..k) \ {k} = 1..(k - 1) /\ 1..k \in SUBSET (1..n) /\ 1..k # {}
<1>1. 1..k \in SUBSET (1..n) /\ 1..k # {}
  OBVIOUS
<1>2. Max(1..k) \in 1..k /\ \A x \in 1..k : x <= Max(1..k)
  BY <1>1, MaxOfPositions
<1>. QED
  BY <1>1, <1>2

\* What FoldLeft and the library's other folds over positions compute: the
\* values behind the first k elements.
FoldsUp(it, base, g, n, B) ==
    /\ it[{}] = base
    /\ \A k \in 1..n : it[1..(k - 1)] \in B => it[1..k] = g[k][it[1..(k - 1)]]
ValuesUpTo(f, base, g, n, B) ==
    /\ f \in [0..n -> B]
    /\ f[0] = base
    /\ \A k \in 1..n : f[k] = g[k][f[k - 1]]

LEMMA FoldPrefixes ==
    ASSUME NEW n \in Nat, NEW B, NEW base \in B, NEW g, Steps(g, 1..n, B), NEW it,
           FoldsUp(it, base, g, n, B)
    PROVE  \E f : ValuesUpTo(f, base, g, n, B) /\ f[n] = it[1..n]
<1> DEFINE Good == {k \in 0..n : it[1..k] \in B}
           f == [k \in 0..n |-> it[1..k]]
<1>1. 1..0 = {} /\ 0 \in Good
  BY DEF FoldsUp
<1>2. ASSUME NEW k \in 0..(n - 1), k \in Good PROVE k + 1 \in Good
  <2>1. k + 1 \in 1..n /\ k + 1 - 1 = k /\ k + 1 \in 0..n
    OBVIOUS
  <2>2. it[1..(k + 1)] = g[k + 1][it[1..k]]
    BY <1>2, <2>1 DEF FoldsUp
  <2>. QED
    BY <1>2, <2>1, <2>2 DEF Steps
<1>3. \A k \in 0..n : k \in Good
  <2> HIDE DEF Good
  <2>. QED
    BY <1>1, <1>2, Induction
<1>4. f \in [0..n -> B] /\ f[0] = base /\ f[n] = it[1..n]
  BY <1>1, <1>3 DEF FoldsUp
<1>5. ASSUME NEW k \in 1..n PROVE f[k] = g[k][f[k - 1]]
  <2>1. k \in 0..n /\ k - 1 \in 0..n
    OBVIOUS
  <2>2. f[k] = it[1..k] /\ f[k - 1] = it[1..(k - 1)]
    BY <2>1
  <2>. QED
    BY <1>3, <2>1, <2>2 DEF FoldsUp
<1>6. ValuesUpTo(f, base, g, n, B)
  <2> HIDE DEF f
  <2>. QED
    BY <1>4, <1>5 DEF ValuesUpTo
<1>. QED
  BY <1>4, <1>6

\* Division, and products with a common factor.
LEMMA Quotient ==
    ASSUME NEW v \in Nat, NEW m \in Nat \ {0}
    PROVE  /\ v \div m \in Nat /\ v \div m <= v
           /\ m * (v \div m) <= v /\ v < m * (v \div m) + m
           /\ \A a \in Nat : v \div m < a <=> v < a * m
<1>1. v \div m \in Int /\ m * (v \div m) <= v /\ v < m * (v \div m) + m
  BY SMT
<1> DEFINE q == v \div m
<1> HIDE DEF q
<1>2. q \in Int /\ m * q <= v /\ v < m * q + m /\ m \in Int /\ m > 0 /\ v \in Int /\ v >= 0
  BY <1>1 DEF q
<1>3. q >= 0
  BY <1>2
<1>4. q <= v
  BY <1>2, <1>3
<1>5. ASSUME NEW a \in Nat PROVE q < a <=> v < a * m
  <2>1. CASE q < a
    <3>1. q + 1 <= a
      BY <1>2, <2>1
    <3>2. (q + 1) * m <= a * m
      BY <1>2, <3>1
    <3>. QED
      BY <1>2, <2>1, <3>2
  <2>2. CASE ~(q < a)
    <3>1. a * m <= q * m
      BY <1>2, <2>2
    <3>. QED
      BY <1>2, <2>2, <3>1
  <2>. QED
    BY <2>1, <2>2
<1>. QED
  BY <1>3, <1>4, <1>5, <1>2 DEF q

\* A multiple of m is divided by it.
LEMMA Multiples ==
    ASSUME NEW m \in Nat \ {0}, NEW c \in Nat
    PROVE  (m * c) \div m = c /\ (m * c) % m = 0
<1> DEFINE v == m * c
           q == v \div m
<1>1. v \in Nat /\ m \in Int /\ m > 0
  OBVIOUS
<1>2. v = m * q + (v % m) /\ q \in Int /\ v % m \in 0..(m - 1)
  <2> HIDE DEF v
  <2>. QED
    BY <1>1
<1> HIDE DEF q
<1>3. m * q <= m * c /\ m * c < m * q + m
  BY <1>1, <1>2
<1>4. ~(q < c)
  <2>1. SUFFICES ASSUME q + 1 <= c PROVE FALSE
    BY <1>2
  <2>2. m * (q + 1) <= m * c
    BY <1>2, <2>1
  <2>. QED
    BY <1>2, <1>3, <2>2
<1>5. ~(c < q)
  <2>1. SUFFICES ASSUME c + 1 <= q PROVE FALSE
    BY <1>2
  <2>2. m * (c + 1) <= m * q
    BY <1>2, <2>1
  <2>. QED
    BY <1>2, <1>3, <2>2
<1>6. q = c
  BY <1>2, <1>4, <1>5
<1>. QED
  BY <1>2, <1>6 DEF q

LEMMA Products ==
    ASSUME NEW i \in Int, NEW j \in Int, NEW u \in Nat, i <= j
    PROVE  i * u \in Int /\ j * u \in Int /\ i * u <= j * u
OBVIOUS

LEMMA SumOfMultiples ==
    ASSUME NEW m \in Nat \ {0}, NEW a \in Nat, NEW b \in Nat, NEW k \in Nat,
           a % m = 0, b % m = 0
    PROVE  (a + k * b) % m = 0
<1> DEFINE p == a \div m
           q == b \div m
<1>1. p \in Nat /\ q \in Nat /\ a = m * p /\ b = m * q
  BY Quotient
<1> HIDE DEF p, q
<1>2. p + k * q \in Nat
  BY <1>1
<1>3. a + k * b = m * (p + k * q)
  BY <1>1
<1>. QED
  BY <1>2, <1>3, Multiples

\* A function of the sets of positions that takes the last position out each
\* time, which is what the library's FoldLeft is.
FoldsBack(it, base, g, n, B) ==
    /\ it[{}] = base
    /\ \A t \in SUBSET (1..n) : t # {} /\ it[t \ {Max(t)}] \in B =>
          it[t] = g[Max(t)][it[t \ {Max(t)}]]

LEMMA FoldExists ==
    ASSUME NEW n \in Nat, NEW B, NEW base \in B, NEW g, Steps(g, 1..n, B)
    PROVE  \E it \in [SUBSET (1..n) -> B] : FoldsBack(it, base, g, n, B)
<1> DEFINE D == 1..n
           c == [t \in SUBSET D |-> Max(t)]
<1>1. IsFiniteSet(D)
  BY FS_Interval
<1>2. \A t \in SUBSET D : t # {} => Max(t) \in t
  BY MaxOfPositions
<1> HIDE DEF D
<1>3. Chooses(c, D) /\ \A t \in SUBSET D : c[t] = Max(t)
  BY <1>2 DEF Chooses
<1> HIDE DEF c
<1>4. PICK it \in [SUBSET D -> B] : TakesOut(it, base, g, c, D)
  <2>1. Steps(g, D, B)
    BY DEF D
  <2>. QED
    BY <1>1, <1>3, <2>1, SetRecursionExists
<1>5. FoldsBack(it, base, g, n, B)
  BY <1>3, <1>4 DEF FoldsBack, TakesOut, D
<1>. QED
  BY <1>4, <1>5 DEF D

LEMMA FoldValues ==
    ASSUME NEW n \in Nat, NEW B, NEW base \in B, NEW g, Steps(g, 1..n, B), NEW it,
           FoldsBack(it, base, g, n, B)
    PROVE  \E f : ValuesUpTo(f, base, g, n, B) /\ f[n] = it[1..n]
<1>1. FoldsUp(it, base, g, n, B)
  <2>1. ASSUME NEW k \in 1..n, it[1..(k - 1)] \in B PROVE it[1..k] = g[k][it[1..(k - 1)]]
    <3> DEFINE t == 1..k
    <3>1. Max(t) = k /\ t \ {k} = 1..(k - 1) /\ t \in SUBSET (1..n) /\ t # {}
      BY MaxOfInterval
    <3> HIDE DEF t
    <3>2. it[t] = g[k][it[1..(k - 1)]]
      BY <2>1, <3>1 DEF FoldsBack
    <3>. QED
      BY <3>2 DEF t
  <2>. QED
    BY <2>1 DEF FoldsBack, FoldsUp
<1>. QED
  BY <1>1, FoldPrefixes

-------------------------------------------------------------------------------
(***************************************************************************)
(* The histogram, for any shape and any values: the bucket that counts a   *)
(* value is the one whose range holds it.                                  *)
(***************************************************************************)

\* Powers of two, and that they grow.
LEMMA PowersOfTwo ==
    /\ Pow2[0] = 1
    /\ \A k \in Nat : Pow2[k] \in Nat \ {0} /\ Pow2[k + 1] = 2 * Pow2[k]
<1> DEFINE g == [n \in Nat |-> [b \in Nat \ {0} |-> 2 * b]]
           P == Nat \ {0}
<1>1. Steps(g, Nat, P) /\ 1 \in P
  BY DEF Steps
<1>2. PICK f \in [Nat -> P] :
         f[0] = 1 /\ \A n \in Nat \ {0} : f[n] = g[n][f[n - 1]]
  <2> HIDE DEF g, P
  <2>. QED
    BY <1>1, RecursionExists
<1>3. \A n \in Nat \ {0} : g[n][f[n - 1]] = 2 * f[n - 1]
  BY <1>2
<1>4. f = [k \in Nat |-> IF k = 0 THEN 1 ELSE 2 * f[k - 1]]
  <2> HIDE DEF g
  <2>. QED
    BY <1>2, <1>3
<1>5. Pow2 = [k \in Nat |-> IF k = 0 THEN 1 ELSE 2 * Pow2[k - 1]]
  BY <1>4 DEF Pow2
<1> HIDE DEF g
<1> DEFINE Good == {k \in Nat : Pow2[k] \in Nat \ {0}}
<1>6. Pow2[0] = 1 /\ \A k \in Nat : Pow2[k + 1] = 2 * Pow2[k]
  <2>1. \A k \in Nat : Pow2[k] = IF k = 0 THEN 1 ELSE 2 * Pow2[k - 1]
    BY <1>5
  <2>2. \A k \in Nat : k + 1 \in Nat /\ k + 1 # 0 /\ k + 1 - 1 = k
    OBVIOUS
  <2>. QED
    BY <2>1, <2>2
<1>7. ASSUME NEW n \in Nat PROVE Pow2[n] \in Nat \ {0}
  <2>1. 0 \in Good /\ \A k \in 0..(n - 1) : k \in Good => k + 1 \in Good
    BY <1>6
  <2>2. \A k \in 0..n : k \in Good
    <3> HIDE DEF Good
    <3>. QED
      BY <2>1, Induction
  <2>. QED
    BY <2>2
<1>. QED
  BY <1>6, <1>7

LEMMA PowersGrow ==
    ASSUME NEW i \in Nat, NEW j \in Nat, i <= j
    PROVE  Pow2[i] <= Pow2[j]
<1> DEFINE Good == {k \in Nat : Pow2[i] <= Pow2[i + k]}
<1>1. \A k \in Nat : i + k \in Nat /\ i + k + 1 = i + (k + 1)
  OBVIOUS
<1>2. 0 \in Good
  BY PowersOfTwo
<1>3. ASSUME NEW k \in Nat, k \in Good PROVE k + 1 \in Good
  <2>1. Pow2[i + (k + 1)] = 2 * Pow2[i + k] /\ Pow2[i + k] \in Nat /\ Pow2[i] \in Nat
    BY <1>1, PowersOfTwo
  <2>. QED
    BY <1>3, <2>1
<1>4. j - i \in Nat /\ i + (j - i) = j
  OBVIOUS
<1>5. \A k \in 0..(j - i) : k \in Good
  <2> HIDE DEF Good
  <2>. QED
    BY <1>2, <1>3, <1>4, Induction
<1>. QED
  BY <1>4, <1>5

LEMMA PowersMultiply ==
    ASSUME NEW i \in Nat, NEW j \in Nat
    PROVE  Pow2[i + j] = Pow2[i] * Pow2[j]
<1> DEFINE Good == {k \in Nat : Pow2[i + k] = Pow2[i] * Pow2[k]}
<1>1. 0 \in Good
  BY PowersOfTwo
<1>2. ASSUME NEW k \in Nat, k \in Good PROVE k + 1 \in Good
  <2>1. /\ Pow2[k + 1] = 2 * Pow2[k] /\ Pow2[i + k + 1] = 2 * Pow2[i + k]
        /\ i + k + 1 = i + (k + 1)
    BY PowersOfTwo
  <2>2. Pow2[i] \in Nat /\ Pow2[k] \in Nat
    BY PowersOfTwo
  <2>3. \A a, b \in Nat : 2 * (a * b) = a * (2 * b)
    OBVIOUS
  <2>4. Pow2[i + k] = Pow2[i] * Pow2[k]
    BY <1>2
  <2>5. 2 * (Pow2[i] * Pow2[k]) = Pow2[i] * (2 * Pow2[k])
    BY <2>2, <2>3
  <2>. QED
    BY <2>1, <2>4, <2>5
<1>3. \A k \in 0..j : k \in Good
  <2> HIDE DEF Good
  <2>. QED
    BY <1>1, <1>2, Induction
<1>. QED
  BY <1>3

\* The number of significant bits of a value that 64 bits hold.
LEMMA BitLengthIs ==
    ASSUME NEW v \in Nat, NEW w \in 0..64, v < Pow2[w]
    PROVE  /\ BitLength(v) \in 0..64 /\ v < Pow2[BitLength(v)]
           /\ BitLength(v) = 0 \/ Pow2[BitLength(v) - 1] <= v
<1> DEFINE S == {k \in 0..64 : v < Pow2[k]}
<1>0. w \in S /\ S \in SUBSET Nat
  OBVIOUS
<1>1. PICK k \in S : \A j \in S : k <= j
  <2> HIDE DEF S
  <2>. QED
    BY <1>0, SmallestMember
<1>2. k = 0 \/ Pow2[k - 1] <= v
  <2>1. SUFFICES ASSUME k # 0 PROVE Pow2[k - 1] <= v
    OBVIOUS
  <2>2. k - 1 \in 0..64 /\ k - 1 \notin S /\ Pow2[k - 1] \in Nat
    BY <1>1, <2>1, PowersOfTwo
  <2>. QED
    BY <2>2
<1>3. Pow2[k] > v /\ k \in 0..64
  BY <1>1, PowersOfTwo
<1>4. \E l \in 0..64 : Pow2[l] > v /\ (l = 0 \/ Pow2[l - 1] <= v)
  BY <1>2, <1>3
<1>5. /\ BitLength(v) \in 0..64 /\ Pow2[BitLength(v)] > v
      /\ BitLength(v) = 0 \/ Pow2[BitLength(v) - 1] <= v
  BY <1>4 DEF BitLength
<1>. QED
  BY <1>5, PowersOfTwo

\* A bucket counts the values between its bounds.
LEMMA BucketHolds ==
    ASSUME NEW st \in Nat, NEW n \in Nat \ {0}, NEW v \in Nat, NEW w \in 0..64, v < Pow2[w],
           bh.start = st, bh.n = n
    PROVE  /\ BucketOf(v) \in 0..(n - 1)
           /\ \A p \in 0..(n - 1) :
                 p = BucketOf(v) <=> Lower(p) <= v /\ (Upper(p) = -1 \/ v <= Upper(p))
<1> DEFINE m == Pow2[st]
           q == v \div m
           k == BitLength(q)
<1>1. m \in Nat \ {0} /\ q \in Nat /\ q <= v
  <2>1. m \in Nat \ {0}
    BY PowersOfTwo
  <2> HIDE DEF m
  <2>2. v \div m \in Nat /\ v \div m <= v
    BY <2>1, Quotient
  <2>. QED
    BY <2>1, <2>2
<1>2. /\ k \in 0..64 /\ q < Pow2[k]
      /\ k = 0 \/ Pow2[k - 1] <= q
  <2>1. Pow2[w] \in Nat
    BY PowersOfTwo
  <2>2. q < Pow2[w]
    BY <1>1, <2>1
  <2> HIDE DEF q
  <2>. QED
    BY <1>1, <2>2, BitLengthIs
<1>3. \A a \in Nat : /\ a * m \in Nat /\ (q < a <=> v < a * m)
  BY <1>1
<1>4. \A j \in Nat : Pow2[j + st] = Pow2[j] * m /\ Pow2[j] \in Nat
  BY PowersMultiply, PowersOfTwo
<1> HIDE DEF m, q, k
<1>5. \A j \in Nat : v < Pow2[j + st] <=> q < Pow2[j]
  BY <1>3, <1>4
<1>6. \A j \in Nat : q < Pow2[j] <=> k <= j
  <2>1. ASSUME NEW j \in Nat, k <= j PROVE q < Pow2[j]
    <3>1. Pow2[k] <= Pow2[j] /\ Pow2[k] \in Nat /\ Pow2[j] \in Nat
      BY <1>2, <2>1, PowersGrow, PowersOfTwo, SMTT(20)
    <3>. QED
      BY <1>1, <1>2, <3>1
  <2>2. ASSUME NEW j \in Nat, ~(k <= j) PROVE ~(q < Pow2[j])
    <3>1. k - 1 \in Nat /\ j <= k - 1 /\ k # 0
      BY <1>2, <2>2
    <3>2. Pow2[j] <= Pow2[k - 1] /\ Pow2[j] \in Nat /\ Pow2[k - 1] \in Nat
      BY <3>1, PowersGrow, PowersOfTwo
    <3>. QED
      BY <1>1, <1>2, <3>1, <3>2
  <2>. QED
    BY <2>1, <2>2
<1>7. BucketOf(v) = IF k < n - 1 THEN k ELSE n - 1
  BY DEF BucketOf, k, q, m
<1>8. ASSUME NEW p \in 0..(n - 1)
      PROVE  /\ Lower(p) <= v <=> p <= k
             /\ (Upper(p) = -1 \/ v <= Upper(p)) <=> (p = n - 1 \/ k <= p)
  <2>1. Lower(p) <= v <=> p <= k
    <3>1. CASE p = 0
      BY <1>2, <3>1 DEF Lower
    <3>2. CASE p # 0
      <4>1. p - 1 \in Nat /\ p - 1 + st \in Nat /\ Lower(p) = Pow2[p - 1 + st]
        BY <3>2 DEF Lower
      <4>2. Pow2[p - 1 + st] \in Nat
        BY <4>1, PowersOfTwo
      <4>3. v < Pow2[p - 1 + st] <=> k <= p - 1
        BY <4>1, <1>5, <1>6
      <4>. QED
        BY <1>2, <4>1, <4>2, <4>3
    <3>. QED
      BY <3>1, <3>2
  <2>2. CASE p = n - 1
    BY <2>1, <2>2 DEF Upper
  <2>3. CASE p # n - 1
    <3>1. Upper(p) = Pow2[p + st] - 1 /\ Pow2[p + st] \in Nat \ {0} /\ p \in Nat
      BY <2>3, PowersOfTwo DEF Upper
    <3>2. v < Pow2[p + st] <=> k <= p
      BY <3>1, <1>5, <1>6
    <3>. QED
      BY <2>1, <2>3, <3>1, <3>2
  <2>. QED
    BY <2>2, <2>3
<1>. QED
  BY <1>2, <1>7, <1>8

\* How many of the values added lie between two bounds.
Tally(s, lo, up) ==
    FoldLeft(LAMBDA n, a : IF lo <= a[1] /\ (up = -1 \/ a[1] <= up) THEN n + a[2] ELSE n,
             0, s)

Pairs == Nat \X Nat

\* One more value, and the tallies of the first k values.
More(a, lo, up, b) == IF lo <= a[1] /\ (up = -1 \/ a[1] <= up) THEN b + a[2] ELSE b
Tallies(f, s, lo, up) ==
    /\ f \in [0..Len(s) -> Nat]
    /\ f[0] = 0
    /\ \A k \in 1..Len(s) : f[k] = More(s[k], lo, up, f[k - 1])

LEMMA TallyPrefixes ==
    ASSUME NEW s \in Seq(Pairs), NEW lo, NEW up
    PROVE  \E f : Tallies(f, s, lo, up) /\ f[Len(s)] = Tally(s, lo, up)
<1> DEFINE n == Len(s)
           In(k) == lo <= s[k][1] /\ (up = -1 \/ s[k][1] <= up)
           g == [k \in 1..n |-> [b \in Nat |-> IF In(k) THEN b + s[k][2] ELSE b]]
           c == [t \in SUBSET (1..n) |-> Max(t)]
           IsFold(it) == it = [t \in SUBSET (1..n) |->
                                 IF t = {} THEN 0
                                 ELSE IF In(Max(t)) THEN it[t \ {Max(t)}] + s[Max(t)][2]
                                                   ELSE it[t \ {Max(t)}]]
           jt == CHOOSE it : IsFold(it)
<1>1. n \in Nat /\ DOMAIN s = 1..n /\ \A k \in 1..n : s[k][1] \in Nat /\ s[k][2] \in Nat
  BY LenProperties, ElementOfSeq DEF Pairs
<1>2. g \in [1..n -> [Nat -> Nat]] /\ IsFiniteSet(1..n) /\ 0 \in Nat
  <2>1. ASSUME NEW k \in 1..n, NEW b \in Nat
        PROVE  (IF In(k) THEN b + s[k][2] ELSE b) \in Nat
    <3> HIDE DEF In, n
    <3>. QED
      BY <1>1
  <2>2. g \in [1..n -> [Nat -> Nat]]
    <3> HIDE DEF In, n
    <3>. QED
      BY <2>1
  <2>3. n \in Int /\ 1 \in Int
    BY <1>1
  <2>. HIDE DEF n, g
  <2>4. IsFiniteSet(1..n)
    BY <2>3, FS_Interval
  <2>. QED
    BY <2>2, <2>4
<1>3. \A t \in SUBSET (1..n) : t # {} => c[t] \in t /\ c[t] = Max(t) /\ Max(t) \in 1..n
  <2> HIDE DEF n
  <2>. QED
    BY <1>1, MaxOfPositions
<1> DEFINE D == 1..n
           N == Nat
           zero == 0
<1>4. PICK it \in [SUBSET D -> N] : TakesOut(it, zero, g, c, D)
  <2>1. Steps(g, D, N) /\ IsFiniteSet(D) /\ zero \in N /\ Chooses(c, D)
    <3> HIDE DEF g, c, n
    <3>. QED
      BY <1>2, <1>3 DEF Steps, Chooses
  <2> HIDE DEF g, c, n, D, N, zero
  <2>. QED
    BY <2>1, SetRecursionExists
<1>5. \A t \in SUBSET (1..n) :
         it[t] = IF t = {} THEN 0 ELSE IF In(Max(t)) THEN it[t \ {Max(t)}] + s[Max(t)][2]
                                                     ELSE it[t \ {Max(t)}]
  <2> HIDE DEF c
  <2>. QED
    BY <1>3, <1>4 DEF TakesOut
<1>6. IsFold(it)
  <2> HIDE DEF In
  <2>. QED
    BY <1>5
<1>7. IsFold(jt)
  <2> HIDE DEF IsFold
  <2>. QED
    BY <1>6
<1>8. Tally(s, lo, up) = jt[1..n]
  BY <1>1 DEF Tally, FoldLeft, MapThenFoldSet
<1>9. /\ jt[{}] = 0
      /\ \A k \in 1..n : jt[1..k] = IF In(k) THEN jt[1..(k - 1)] + s[k][2] ELSE jt[1..(k - 1)]
  <2>1. ASSUME NEW k \in 1..n
        PROVE  Max(1..k) = k /\ (1..k) \ {k} = 1..(k - 1) /\ 1..k \in SUBSET (1..n) /\ 1..k # {}
    BY <1>1, MaxOfInterval
  <2> HIDE DEF jt, n, In
  <2>2. \A t \in SUBSET (1..n) :
           jt[t] = IF t = {} THEN 0 ELSE IF In(Max(t)) THEN jt[t \ {Max(t)}] + s[Max(t)][2]
                                                       ELSE jt[t \ {Max(t)}]
    BY <1>7
  <2>. QED
    BY <2>1, <2>2
<1>10. \A k \in 1..n : jt[1..(k - 1)] \in Nat => jt[1..k] = g[k][jt[1..(k - 1)]]
  <2> HIDE DEF jt
  <2>. QED
    BY <1>9
<1>11. PICK f : ValuesUpTo(f, zero, g, n, N) /\ f[n] = jt[1..n]
  <2>1. n \in Nat /\ Steps(g, 1..n, N) /\ zero \in N /\ FoldsUp(jt, zero, g, n, N)
    <3> HIDE DEF g, jt, n
    <3>. QED
      BY <1>1, <1>2, <1>9, <1>10 DEF Steps, FoldsUp
  <2> HIDE DEF g, jt, n, N, zero
  <2>. QED
    BY <2>1, FoldPrefixes
<1>12. \A k \in 1..n : f[k] = IF In(k) THEN f[k - 1] + s[k][2] ELSE f[k - 1]
  <2>1. \A k \in 1..n : f[k - 1] \in Nat
    <3>1. f \in [0..n -> Nat]
      BY <1>11 DEF ValuesUpTo
    <3> HIDE DEF n, In, g, jt
    <3>. QED
      BY <1>1, <3>1
  <2>. QED
    BY <1>11, <2>1 DEF ValuesUpTo
<1>13. Tallies(f, s, lo, up) /\ f[n] = Tally(s, lo, up)
  BY <1>8, <1>11, <1>12 DEF ValuesUpTo, Tallies, More
<1>. QED
  BY <1>13

LEMMA TallyAppend ==
    ASSUME NEW s \in Seq(Pairs), NEW a \in Pairs, NEW lo, NEW up
    PROVE  /\ Tally(s, lo, up) \in Nat
           /\ Tally(Append(s, a), lo, up) =
                 IF lo <= a[1] /\ (up = -1 \/ a[1] <= up)
                 THEN Tally(s, lo, up) + a[2] ELSE Tally(s, lo, up)
<1> DEFINE n == Len(s)
           sa == Append(s, a)
<1>1. /\ n \in Nat /\ sa \in Seq(Pairs) /\ Len(sa) = n + 1
      /\ \A k \in 1..n : sa[k] = s[k] /\ s[k] \in Pairs
      /\ sa[n + 1] = a
  BY AppendProperties, LenProperties, ElementOfSeq
<1>2. PICK f : Tallies(f, s, lo, up) /\ f[n] = Tally(s, lo, up)
  BY TallyPrefixes
<1>3. PICK h : Tallies(h, sa, lo, up) /\ h[n + 1] = Tally(sa, lo, up)
  <2>1. \E h : Tallies(h, sa, lo, up) /\ h[Len(sa)] = Tally(sa, lo, up)
    <3> HIDE DEF sa
    <3>. QED
      BY <1>1, TallyPrefixes
  <2>. QED
    BY <1>1, <2>1
<1>9. /\ f \in [0..n -> Nat] /\ f[0] = 0
      /\ \A k \in 1..n : f[k] = More(s[k], lo, up, f[k - 1])
  BY <1>2 DEF Tallies
<1>10. /\ h[0] = 0 /\ \A k \in 1..(n + 1) : h[k] = More(sa[k], lo, up, h[k - 1])
  <2> HIDE DEF sa, n
  <2>. QED
    BY <1>1, <1>3 DEF Tallies
<1> HIDE DEF sa, n
<1> DEFINE Good == {k \in 0..n : f[k] = h[k]}
<1>4. 0 \in Good
  BY <1>1, <1>9, <1>10
<1>5. ASSUME NEW k \in 0..(n - 1), k \in Good PROVE k + 1 \in Good
  <2>1. k + 1 \in 1..n /\ k + 1 \in 1..(n + 1) /\ k + 1 \in 0..n /\ k + 1 - 1 = k
    BY <1>1
  <2>2. f[k + 1] = More(s[k + 1], lo, up, f[k]) /\ h[k + 1] = More(sa[k + 1], lo, up, h[k])
    BY <1>9, <1>10, <2>1
  <2>. QED
    BY <1>1, <1>5, <2>1, <2>2
<1>6. \A k \in 0..n : k \in Good
  <2> HIDE DEF Good
  <2>. QED
    BY <1>1, <1>4, <1>5, Induction
<1>7. f[n] = h[n] /\ f[n] \in Nat /\ n + 1 \in 1..(n + 1) /\ n + 1 - 1 = n
  BY <1>1, <1>9, <1>6
<1>8. h[n + 1] = More(sa[n + 1], lo, up, h[n])
  <2>1. h[n + 1] = More(sa[n + 1], lo, up, h[n + 1 - 1])
    BY <1>1, <1>10, <1>7
  <2>. QED
    BY <1>7, <2>1
<1>. QED
  BY <1>1, <1>2, <1>3, <1>7, <1>8 DEF More, sa, n

LEMMA TallyEmpty ==
    ASSUME NEW s, s = <<>>, NEW lo, NEW up
    PROVE  Tally(s, lo, up) = 0
<1>1. s \in Seq(Pairs) /\ Len(s) = 0
  OBVIOUS
<1>2. PICK f : Tallies(f, s, lo, up) /\ f[Len(s)] = Tally(s, lo, up)
  BY <1>1, TallyPrefixes
<1>. QED
  BY <1>1, <1>2 DEF Tallies

\* What went in and what the buckets hold: every bucket counts the values that
\* its printed range holds.
HistInv ==
    /\ bh = [start |-> bh.start, n |-> bh.n, values |-> bh.values]
    /\ bh.start \in Nat /\ bh.n \in Nat \ {0} /\ bh.values \in [0..(bh.n - 1) -> Nat]
    /\ bh.start + bh.n <= 64
    /\ added \in Seq(Pairs)
    /\ \A p \in 0..(bh.n - 1) : bh.values[p] = Tally(added, Lower(p), Upper(p))

LEMMA HistInvInit == HistInit => HistInv
<1> SUFFICES ASSUME HistInit PROVE HistInv
  OBVIOUS
<1>1. PICK s \in HistShapes : bh = [start |-> s[1], n |-> s[2],
                                    values |-> [p \in 0..s[2]-1 |-> 0]]
  BY DEF HistInit
<1>2. s[1] \in Nat /\ s[2] \in Nat \ {0} /\ s[1] + s[2] <= 64
  BY HistAssumption
<1>3. added = <<>> /\ added \in Seq(Pairs)
  BY DEF HistInit
<1>4. ASSUME NEW p \in 0..(bh.n - 1)
      PROVE  bh.values[p] = Tally(added, Lower(p), Upper(p))
  BY <1>1, <1>3, TallyEmpty
<1>5. /\ bh = [start |-> bh.start, n |-> bh.n, values |-> bh.values]
      /\ bh.start \in Nat /\ bh.n \in Nat \ {0} /\ bh.values \in [0..(bh.n - 1) -> Nat]
      /\ bh.start + bh.n <= 64
  BY <1>1, <1>2
<1>. QED
  BY <1>3, <1>4, <1>5 DEF HistInv

LEMMA HistInvNext == HistInv /\ [HistNext]_histVars => HistInv'
<1> SUFFICES ASSUME HistInv, [HistNext]_histVars PROVE HistInv'
  OBVIOUS
<1>1. ASSUME NEW v \in HistValues, NEW c \in 1..2, IncorporateVal(v, c) PROVE HistInv'
  <2> DEFINE b == BucketOf(v)
             N == bh.n
             st == bh.start
  <2>1. PICK w \in 0..64 : v < Pow2[w]
    BY HistAssumption
  <2>2. v \in Nat /\ c \in Nat /\ <<v, c>> \in Pairs
    BY HistAssumption DEF Pairs
  <2>3. N \in Nat \ {0} /\ st \in Nat /\ bh.values \in [0..(N - 1) -> Nat] /\ added \in Seq(Pairs)
    BY DEF HistInv
  <2>4. /\ b \in 0..(N - 1)
        /\ \A p \in 0..(N - 1) :
              p = b <=> Lower(p) <= v /\ (Upper(p) = -1 \/ v <= Upper(p))
    BY <2>1, <2>2, <2>3, BucketHolds
  <2>5. bh' = [bh EXCEPT !.values[b] = @ + c] /\ added' = Append(added, <<v, c>>)
    BY <1>1 DEF IncorporateVal
  <2>10. bh' = [start |-> bh'.start, n |-> bh'.n, values |-> bh'.values]
    <3> HIDE DEF b
    <3>1. bh = [start |-> bh.start, n |-> bh.n, values |-> bh.values]
      BY DEF HistInv
    <3>. QED
      BY <2>5, <3>1
  <2>6. /\ bh'.n = N /\ bh'.start = st
        /\ \A p \in 0..(N - 1) : Lower(p)' = Lower(p) /\ Upper(p)' = Upper(p)
    <3>1. bh'.n = N /\ bh'.start = st
      BY <2>5
    <3>. QED
      BY <3>1 DEF Lower, Upper
  <2>7. /\ bh'.values \in [0..(N - 1) -> Nat]
        /\ \A p \in 0..(N - 1) :
              bh'.values[p] = IF p = b THEN bh.values[p] + c ELSE bh.values[p]
    <3> HIDE DEF b
    <3>1. bh'.values = [bh.values EXCEPT ![b] = bh.values[b] + c]
      BY <2>5 DEF HistInv
    <3>2. DOMAIN bh.values = 0..(N - 1) /\ b \in DOMAIN bh.values
      BY <2>3, <2>4
    <3>3. bh.values[b] + c \in Nat
      BY <2>2, <2>3, <2>4, SMTT(20)
    <3> HIDE DEF N
    <3>4. ASSUME NEW p \in 0..(N - 1)
          PROVE  bh'.values[p] = IF p = b THEN bh.values[p] + c ELSE bh.values[p]
      BY <3>1, <3>2
    <3>5. bh'.values \in [0..(N - 1) -> Nat]
      BY <2>3, <3>1, <3>2, <3>3
    <3>. QED
      BY <3>4, <3>5
  <2>8. added' \in Seq(Pairs)
    BY <2>2, <2>3, <2>5, AppendProperties
  <2>9. ASSUME NEW p \in 0..(N - 1)
        PROVE  bh'.values[p] = Tally(added', Lower(p), Upper(p))
    <3>1. bh.values[p] = Tally(added, Lower(p), Upper(p))
      BY DEF HistInv
    <3>2. <<v, c>>[1] = v /\ <<v, c>>[2] = c
      OBVIOUS
    <3> HIDE DEF b
    <3>. QED
      BY <2>2, <2>3, <2>4, <2>5, <2>7, <3>1, <3>2, TallyAppend, SMTT(20)
  <2>. QED
    BY <2>3, <2>6, <2>7, <2>8, <2>9, <2>10 DEF HistInv
<1>2. CASE UNCHANGED histVars
  BY <1>2 DEF HistInv, histVars, Lower, Upper
<1>. QED
  BY <1>1, <1>2 DEF HistNext

LEMMA HistInvRanges == HistInv => HistRanges
<1> SUFFICES ASSUME HistInv PROVE HistRanges
  OBVIOUS
<1>1. ASSUME NEW p \in 0..(bh.n - 2) PROVE Lower(p + 1) = Upper(p) + 1
  <2>1. p + 1 # 0 /\ p + 1 - 1 = p /\ p # bh.n - 1 /\ p + bh.start \in Nat
    BY DEF HistInv
  <2>2. Lower(p + 1) = Pow2[p + bh.start] /\ Upper(p) = Pow2[p + bh.start] - 1
    BY <2>1 DEF Lower, Upper
  <2>3. Pow2[p + bh.start] \in Nat
    BY <2>1, PowersOfTwo
  <2>. QED
    BY <2>2, <2>3
<1>. QED
  BY <1>1 DEF HistInv, HistRanges, Tally

\* binary_hist.h: whatever the shape, and whatever the values, the range that a
\* bucket is printed with holds exactly the values counted there.
THEOREM HistCorrect == HistSpec => []HistRanges
<1>. QED
  BY HistInvInit, HistInvNext, HistInvRanges, PTL DEF HistSpec

-------------------------------------------------------------------------------
(***************************************************************************)
(* The block allocator, whatever the region, its alignment and the sizes   *)
(* asked for.                                                              *)
(***************************************************************************)

\* The first of several positions.
LEMMA MinOfPositions ==
    ASSUME NEW S \in SUBSET Nat, S # {}
    PROVE  Min(S) \in S /\ \A x \in S : Min(S) <= x
<1>1. \E x \in S : \A y \in S : x <= y
  BY SmallestMember
<1>. QED
  BY <1>1 DEF Min

NoneIn(bits, n, i) == \A b \in i..(i + n - 1) : b \notin bits

\* avail_offset is the lowest free run at or above an offset.
LEMMA AvailOffset ==
    ASSUME NEW bits, NEW n \in Nat \ {0}, NEW off \in Nat, NEW r, r = avail_offset(bits, n, off)
    PROVE  /\ r \in Nat
           /\ r < VbaBits => /\ off <= r /\ r + n <= VbaBits
                             /\ NoneIn(bits, n, r)
                             /\ \A i \in off..(r - 1) : ~NoneIn(bits, n, i)
           /\ ~(r < VbaBits) => /\ r = VbaBits
                                /\ \A i \in Nat : off <= i /\ i + n <= VbaBits => ~NoneIn(bits, n, i)
<1> DEFINE at == {i \in off..(VbaBits - n) : \A b \in i..(i + n - 1) : b \notin bits}
<1>0. VbaBits \in Nat \ {0}
  BY VbaAssumption
<1>1. at \in SUBSET Nat /\ \A i \in Nat : i \in at <=> off <= i /\ i + n <= VbaBits /\ NoneIn(bits, n, i)
  BY <1>0 DEF NoneIn
<1>2. r = IF n > VbaBits \/ at = {} THEN VbaBits ELSE Min(at)
  BY DEF avail_offset
<1> HIDE DEF at
<1>3. CASE n > VbaBits
  BY <1>0, <1>2, <1>3
<1>4. CASE ~(n > VbaBits) /\ at = {}
  BY <1>0, <1>1, <1>2, <1>4
<1>5. CASE ~(n > VbaBits) /\ at # {}
  <2>1. r \in at /\ \A x \in at : r <= x
    <3>1. at \in SUBSET Nat /\ at # {} /\ r = Min(at)
      BY <1>1, <1>2, <1>5
    <3>2. Min(at) \in at /\ \A x \in at : Min(at) <= x
      BY <3>1, MinOfPositions
    <3>. QED
      BY <3>1, <3>2
  <2>2. r \in Nat /\ off <= r /\ r + n <= VbaBits /\ NoneIn(bits, n, r)
    BY <1>1, <2>1
  <2>3. ASSUME NEW i \in off..(r - 1) PROVE ~NoneIn(bits, n, i)
    <3>1. i \in Nat /\ off <= i /\ i < r
      BY <2>2
    <3>2. i \notin at /\ i + n <= VbaBits
      BY <1>0, <2>1, <2>2, <3>1
    <3>. QED
      BY <1>1, <3>1, <3>2
  <2>. QED
    BY <1>0, <2>2, <2>3
<1>. QED
  BY <1>3, <1>4, <1>5

\* The lowest free run is determined by the bits it may meet.
LEMMA AvailOffsetIs ==
    ASSUME NEW bits, NEW n \in Nat \ {0}, NEW off \in Nat,
           NEW b2, NEW off2 \in Nat, off2 <= off,
           \A i \in Nat : off <= i => (i \in b2 <=> i \in bits),
           \A i \in off2..(off - 1) : i + n <= VbaBits => ~NoneIn(b2, n, i)
    PROVE  avail_offset(b2, n, off2) = avail_offset(bits, n, off)
<1> DEFINE r == avail_offset(bits, n, off)
           q == avail_offset(b2, n, off2)
<1>0. VbaBits \in Nat
  BY VbaAssumption
<1>1. \A i \in Nat : off <= i => (NoneIn(bits, n, i) <=> NoneIn(b2, n, i))
  BY DEF NoneIn
<1>2. /\ r \in Nat
      /\ r < VbaBits => /\ off <= r /\ r + n <= VbaBits
                        /\ NoneIn(bits, n, r)
                        /\ \A i \in off..(r - 1) : ~NoneIn(bits, n, i)
      /\ ~(r < VbaBits) => /\ r = VbaBits
                           /\ \A i \in Nat : off <= i /\ i + n <= VbaBits => ~NoneIn(bits, n, i)
  BY AvailOffset
<1>3. /\ q \in Nat
      /\ q < VbaBits => /\ off2 <= q /\ q + n <= VbaBits
                        /\ NoneIn(b2, n, q)
                        /\ \A i \in off2..(q - 1) : ~NoneIn(b2, n, i)
      /\ ~(q < VbaBits) => /\ q = VbaBits
                           /\ \A i \in Nat : off2 <= i /\ i + n <= VbaBits => ~NoneIn(b2, n, i)
  BY AvailOffset
<1> HIDE DEF r, q
<1>4. q < VbaBits => off <= q
  <2>1. SUFFICES ASSUME q < VbaBits, ~(off <= q) PROVE FALSE
    BY <1>3
  <2>2. q \in off2..(off - 1) /\ q + n <= VbaBits /\ NoneIn(b2, n, q)
    BY <1>3, <2>1
  <2>. QED
    BY <2>2
<1>5. CASE q < VbaBits /\ r < VbaBits
  <2>1. ~(q < r)
    BY <1>1, <1>2, <1>3, <1>4, <1>5
  <2>2. ~(r < q)
    BY <1>1, <1>2, <1>3, <1>5
  <2>. QED
    BY <1>2, <1>3, <2>1, <2>2 DEF q, r
<1>6. CASE q < VbaBits /\ ~(r < VbaBits)
  BY <1>1, <1>2, <1>3, <1>4, <1>6
<1>7. CASE ~(q < VbaBits) /\ r < VbaBits
  BY <1>1, <1>2, <1>3, <1>7
<1>8. CASE ~(q < VbaBits) /\ ~(r < VbaBits)
  BY <1>2, <1>3, <1>8 DEF q, r
<1>. QED
  BY <1>5, <1>6, <1>7, <1>8

\* When the search that skips from item to item finds room for each, so does
\* the allocation of one item after another.
LEMMA SpaceFits ==
    ASSUME NEW bytes, NEW items \in Nat, NUnits(bytes) \in Nat \ {0},
           space_avail_nitems(bytes, items)
    PROVE  Fit(vba.bits, NUnits(bytes), items)
<1> DEFINE n == NUnits(bytes)
           bits == vba.bits
           Off(o) == o = [k \in Nat |-> IF k = 0 THEN 0 ELSE avail_offset(bits, n, o[k - 1]) + n]
           Tak(t) == t = [k \in Nat |-> IF k = 0 THEN bits ELSE assign_bits(t[k - 1], n)]
           o == CHOOSE o : Off(o)
           t == CHOOSE t : Tak(t)
<1>0. VbaBits \in Nat /\ n \in Nat \ {0}
  BY VbaAssumption
<1>1. /\ o[0] = 0
      /\ \A k \in Nat : o[k + 1] = avail_offset(bits, n, o[k]) + n
  <2> DEFINE g == [k \in Nat |-> [b \in Nat |-> avail_offset(bits, n, b) + n]]
  <2>1. Steps(g, Nat, Nat) /\ 0 \in Nat
    <3>1. \A b \in Nat : avail_offset(bits, n, b) + n \in Nat
      BY <1>0, AvailOffset
    <3>2. g \in [Nat -> [Nat -> Nat]]
      BY <3>1
    <3>. QED
      BY <3>2 DEF Steps
  <2>2. PICK f \in [Nat -> Nat] : f[0] = 0 /\ \A k \in Nat \ {0} : f[k] = g[k][f[k - 1]]
    <3> DEFINE N == Nat
               zero == 0
    <3>1. Steps(g, Nat, N) /\ zero \in N
      BY <2>1
    <3>2. \E f \in [Nat -> N] : f[0] = zero /\ \A k \in Nat \ {0} : f[k] = g[k][f[k - 1]]
      <4> HIDE DEF g, N, zero
      <4>. QED
        BY <3>1, RecursionExists
    <3> HIDE DEF g
    <3>. QED
      BY <3>2
  <2>3. \A k \in Nat \ {0} : f[k] = avail_offset(bits, n, f[k - 1]) + n
    <3>1. \A k \in Nat \ {0} : k \in Nat /\ f[k - 1] \in Nat
      BY <2>2
    <3> HIDE DEF bits, n
    <3>. QED
      BY <2>2, <3>1
  <2>4. Off(f)
    <3> HIDE DEF bits, n, g
    <3>. QED
      BY <2>2, <2>3
  <2>5. Off(o)
    <3> HIDE DEF Off
    <3>. QED
      BY <2>4
  <2>. HIDE DEF o, bits, n
  <2>6. \A k \in Nat : k + 1 \in Nat /\ k + 1 # 0 /\ k + 1 - 1 = k
    OBVIOUS
  <2>7. \A k \in Nat : o[k] = IF k = 0 THEN 0 ELSE avail_offset(bits, n, o[k - 1]) + n
    BY <2>5
  <2>. QED
    BY <2>6, <2>7
<1>2. /\ t[0] = bits
      /\ \A k \in Nat : t[k + 1] = assign_bits(t[k], n)
  <2> DEFINE B == SUBSET (bits \cup Int)
             g == [k \in Nat |-> [b \in B |-> assign_bits(b, n)]]
  <2>1. Steps(g, Nat, B) /\ bits \in B
    <3>1. \A b \in B : assign_bits(b, n) \in B
      BY DEF assign_bits
    <3>2. g \in [Nat -> [B -> B]]
      <4> HIDE DEF B
      <4>. QED
        BY <3>1
    <3>. QED
      BY <3>2 DEF Steps
  <2>2. PICK f \in [Nat -> B] : f[0] = bits /\ \A k \in Nat \ {0} : f[k] = g[k][f[k - 1]]
    <3> HIDE DEF g, B, bits
    <3>. QED
      BY <2>1, RecursionExists
  <2>3. \A k \in Nat \ {0} : f[k] = assign_bits(f[k - 1], n)
    <3>1. \A k \in Nat \ {0} : f[k - 1] \in B
      <4> HIDE DEF B
      <4>. QED
        BY <2>2
    <3> HIDE DEF B, bits, n
    <3>. QED
      BY <2>2, <3>1
  <2>4. Tak(f)
    <3> HIDE DEF bits, n, g, B
    <3>. QED
      BY <2>2, <2>3
  <2>5. Tak(t)
    <3> HIDE DEF Tak
    <3>. QED
      BY <2>4
  <2>. HIDE DEF t, bits, n
  <2>6. \A k \in Nat : k + 1 \in Nat /\ k + 1 # 0 /\ k + 1 - 1 = k
    OBVIOUS
  <2>7. \A k \in Nat : t[k] = IF k = 0 THEN bits ELSE assign_bits(t[k - 1], n)
    BY <2>5
  <2>. QED
    BY <2>6, <2>7
<1>3. \A k \in 0..(items - 1) : avail_offset(bits, n, o[k]) < VbaBits
  BY DEF space_avail_nitems
<1>4. Fit(bits, n, items) <=> \A k \in 0..(items - 1) : avail_offset(t[k], n, 0) < VbaBits
  BY DEF Fit
<1> HIDE DEF o, t, n, bits
\* What the allocation has done after k items.
<1> DEFINE After(k) == /\ o[k] \in Nat
                       /\ \A i \in Nat : o[k] <= i => (i \in t[k] <=> i \in bits)
                       /\ \A i \in 0..(o[k] - 1) : i + n <= VbaBits => ~NoneIn(t[k], n, i)
           Good == {k \in 0..items : After(k)}
<1>5. After(0)
  BY <1>1, <1>2
<1>6. ASSUME NEW k \in Nat, After(k)
      PROVE  avail_offset(t[k], n, 0) = avail_offset(bits, n, o[k])
  <2> DEFINE off == o[k]
             b2 == t[k]
  <2>1. /\ off \in Nat /\ 0 \in Nat /\ 0 <= off
        /\ \A i \in Nat : off <= i => (i \in b2 <=> i \in bits)
        /\ \A i \in 0..(off - 1) : i + n <= VbaBits => ~NoneIn(b2, n, i)
    BY <1>6
  <2> HIDE DEF off, b2
  <2>2. avail_offset(b2, n, 0) = avail_offset(bits, n, off)
    BY <1>0, <2>1, AvailOffsetIs
  <2>. QED
    BY <2>2 DEF off, b2
<1>7. ASSUME NEW k \in 0..(items - 1), k \in Good PROVE k + 1 \in Good
  <2> DEFINE r == avail_offset(bits, n, o[k])
             off == o[k]
             b2 == t[k]
  <2>0. k \in Nat /\ k + 1 \in 0..items /\ After(k)
    BY <1>7
  <2>1. r = avail_offset(b2, n, 0) /\ r < VbaBits
    BY <1>3, <1>6, <2>0
  <2>2. /\ off \in Nat /\ \A i \in Nat : off <= i => (i \in b2 <=> i \in bits)
    BY <2>0
  <2>3. o[k + 1] = r + n /\ t[k + 1] = b2 \cup (r..(r + n - 1))
    BY <1>1, <1>2, <2>0, <2>1 DEF assign_bits
  <2>3a. r = avail_offset(bits, n, off)
    OBVIOUS
  <2> HIDE DEF r, off, b2
  <2>4. r \in Nat /\ \A i \in 0..(r - 1) : ~NoneIn(b2, n, i)
    BY <1>0, <2>1, AvailOffset
  <2>5. r + n \in Nat /\ off <= r
    <3>1. off <= r
      BY <1>0, <2>1, <2>2, <2>3a, AvailOffset
    <3>. QED
      BY <1>0, <2>4, <3>1
  <2>6. ASSUME NEW i \in Nat, r + n <= i PROVE i \in t[k + 1] <=> i \in bits
    BY <1>0, <2>2, <2>3, <2>4, <2>5, <2>6
  <2>7. ASSUME NEW i \in 0..(r + n - 1) PROVE ~NoneIn(t[k + 1], n, i)
    <3>1. CASE i < r
      <4>1. PICK b \in i..(i + n - 1) : b \in b2
        BY <2>4, <3>1 DEF NoneIn
      <4>. QED
        BY <2>3, <4>1 DEF NoneIn
    <3>2. CASE ~(i < r)
      <4>1. i \in r..(r + n - 1) /\ i \in i..(i + n - 1)
        BY <1>0, <2>4, <3>2
      <4>. QED
        BY <2>3, <4>1 DEF NoneIn
    <3>. QED
      BY <3>1, <3>2
  <2> DEFINE e == o[k + 1]
             b3 == t[k + 1]
  <2>8. /\ e \in Nat
        /\ \A i \in Nat : e <= i => (i \in b3 <=> i \in bits)
        /\ \A i \in 0..(e - 1) : i + n <= VbaBits => ~NoneIn(b3, n, i)
    <3>1. e = r + n
      BY <2>3
    <3> HIDE DEF e, b3
    <3>2. /\ \A i \in Nat : r + n <= i => (i \in b3 <=> i \in bits)
          /\ \A i \in 0..(r + n - 1) : ~NoneIn(b3, n, i)
      BY <2>6, <2>7 DEF b3
    <3>3. r \in Nat /\ n \in Nat /\ e \in Nat
      BY <1>0, <2>4, <3>1
    <3>. QED
      BY <3>1, <3>2, <3>3
  <2>. QED
    BY <2>0, <2>8
<1>8. \A k \in 0..items : k \in Good
  <2>1. 0 \in Good
    BY <1>5
  <2> HIDE DEF Good
  <2>. QED
    BY <1>7, <2>1, Induction
<1>9. ASSUME NEW k \in 0..(items - 1) PROVE avail_offset(t[k], n, 0) < VbaBits
  <2>1. k \in Nat /\ After(k)
    BY <1>8
  <2>2. avail_offset(t[k], n, 0) = avail_offset(bits, n, o[k])
    <3> HIDE DEF After
    <3>. QED
      BY <1>6, <2>1
  <2>. QED
    BY <1>3, <2>2
<1>. QED
  BY <1>4, <1>9 DEF n, bits

\* The units of an allocation: At(x) the first, Span(x) all of them.
At(x) == (x[1] - vba.ptr) \div vba.unit
Span(x) == At(x)..(At(x) + NUnits(x[2]) - 1)
PastEnd == {b \in VbaUnits : b >= vba.nunits}

VbaTypes ==
    /\ vba = [unit |-> vba.unit, nunits |-> vba.nunits, regsz |-> vba.regsz,
              ptr |-> vba.ptr, align |-> vba.align, bits |-> vba.bits]
    /\ vba.unit \in Nat \ {0} /\ vba.nunits \in 1..VbaBits
    /\ vba.regsz \in Nat /\ vba.ptr \in Nat /\ vba.align \in Nat /\ end \in Nat

\* The units lie inside the region, and the region inside the caller's memory.
UnitsInside ==
    /\ vba.nunits * vba.unit <= vba.regsz
    /\ vba.ptr + vba.nunits * vba.unit <= end
    /\ vba.align # 0 => vba.ptr % vba.align = 0 /\ vba.unit % vba.align = 0

\* A block is a run of units, no unit has two owners, and the bits say which
\* ones are owned.
BlocksAreRuns ==
    \A x \in blocks : /\ x \in Nat \X (Nat \ {0})
                      /\ At(x) \in Nat /\ x[1] = vba.ptr + At(x) * vba.unit
                      /\ At(x) + NUnits(x[2]) <= vba.nunits
BlocksApart == \A x, y \in blocks : x # y => Span(x) \cap Span(y) = {}
BitsAreOwned == vba.bits = PastEnd \cup UNION {Span(x) : x \in blocks}

VbaInv == /\ VbaTypes /\ UnitsInside /\ BlocksAreRuns
          /\ BlocksApart /\ BitsAreOwned /\ vbaOk = TRUE

LEMMA UnitsEnough ==
    ASSUME NEW bytes \in Nat \ {0}, vba.unit \in Nat \ {0}
    PROVE  NUnits(bytes) \in Nat \ {0} /\ bytes <= NUnits(bytes) * vba.unit
<1> DEFINE u == vba.unit
           q == bytes \div u
           m == bytes % u
<1>1. bytes = u * q + m /\ q \in Nat /\ m \in 0..(u - 1)
  <2>1. u \in Nat \ {0}
    OBVIOUS
  <2> HIDE DEF u
  <2>2. q \in Nat
    BY <2>1, Quotient
  <2>. QED
    BY <2>1, <2>2
<1>2. NUnits(bytes) = q + (IF m = 0 THEN 0 ELSE 1)
  BY DEF NUnits
<1> HIDE DEF u, q, m
<1>0. u \in Nat \ {0}
  BY DEF u
<1>3. CASE m = 0
  <2>1. q # 0
    BY <1>0, <1>1, <1>3
  <2>. QED
    BY <1>0, <1>1, <1>2, <1>3, <2>1 DEF u
<1>4. CASE m # 0
  <2>1. (q + 1) * u = u * q + u
    BY <1>0, <1>1
  <2>. QED
    BY <1>0, <1>1, <1>2, <1>4, <2>1 DEF u
<1>. QED
  BY <1>3, <1>4

\* The address of unit k is in unit k.
LEMMA AtOf ==
    ASSUME vba.unit \in Nat \ {0}, vba.ptr \in Nat, NEW k \in Nat, NEW b
    PROVE  At(<<vba.ptr + k * vba.unit, b>>) = k
<1> DEFINE u == vba.unit
<1>1. vba.ptr + k * u - vba.ptr = u * k
  <2>1. k * u \in Int /\ k * u = u * k
    BY Products
  <2> HIDE DEF u
  <2>. QED
    BY <2>1
<1>2. (u * k) \div u = k
  BY Multiples
<1> HIDE DEF u
<1>3. At(<<vba.ptr + k * vba.unit, b>>) = (vba.ptr + k * u - vba.ptr) \div u
  BY DEF At, u
<1>. QED
  BY <1>1, <1>2, <1>3

\* What niova_vbasic_init() and its aligned form set up.
LEMMA VbaInvInit == VbaInit => VbaInv
<1> SUFFICES ASSUME VbaInit PROVE VbaInv
  OBVIOUS
<1>0. VbaBits \in Nat \ {0}
  BY VbaAssumption
<1>1. PICK r \in Regions : /\ vba \in init(r.raw, r.size) \cup init_aligned(r.raw, r.size, r.unit, r.align)
                           /\ end = r.raw + r.size
  BY DEF VbaInit
<1>2. r.raw \in Nat /\ r.size \in Nat /\ r.unit \in Nat /\ r.align \in Nat /\ end \in Nat
  BY <1>1, VbaAssumption
<1>3. blocks = {} /\ vbaOk = TRUE
  BY DEF VbaInit
<1>4. CASE vba \in init(r.raw, r.size)
  <2> DEFINE q == r.size \div VbaBits
  <2>1. q # 0 /\ vba = [unit |-> q, nunits |-> VbaBits, regsz |-> r.size,
                        ptr |-> r.raw, align |-> 0, bits |-> {}]
    BY <1>4 DEF init
  <2>2. q \in Nat /\ VbaBits * q <= r.size
    BY <1>0, <1>2, Quotient
  <2> HIDE DEF q
  <2>3. VbaTypes
    BY <1>0, <1>2, <2>1, <2>2 DEF VbaTypes
  <2>4. UnitsInside
    BY <1>0, <1>1, <1>2, <2>1, <2>2 DEF UnitsInside
  <2>5. PastEnd = {}
    BY <1>0, <2>1 DEF PastEnd, VbaUnits
  <2>. QED
    BY <1>3, <2>1, <2>3, <2>4, <2>5 DEF VbaInv, BlocksAreRuns, BlocksApart, BitsAreOwned
<1>5. CASE vba \in init_aligned(r.raw, r.size, r.unit, r.align)
  <2> DEFINE al == r.align
             ptr == AlignUp(r.raw, al)
             left == r.size - (ptr - r.raw)
             unit == IF r.unit = 0 THEN AlignDown(left \div VbaBits, al) ELSE r.unit
             nunits == left \div unit
             n == IF nunits > VbaBits THEN VbaBits ELSE nunits
             regsz == IF nunits > VbaBits THEN VbaBits * unit ELSE left
  <2>1. /\ al # 0 /\ ~(ptr - r.raw >= r.size) /\ unit # 0 /\ ~(unit < al)
        /\ ~(unit % al # 0) /\ nunits # 0
        /\ vba = [unit |-> unit, nunits |-> n, regsz |-> regsz,
                  ptr |-> ptr, align |-> al, bits |-> {b \in VbaUnits : b >= nunits}]
    BY <1>5 DEF init_aligned
  <2>2. al \in Nat \ {0}
    BY <1>2, <2>1
  <2>3. ptr \in Nat /\ ptr % al = 0 /\ r.raw <= ptr
    <3> DEFINE v == r.raw + al - 1
               q == v \div al
    <3> HIDE DEF al
    <3>1. v \in Nat /\ ptr = q * al
      BY <1>2, <2>2 DEF AlignUp
    <3> HIDE DEF ptr
    <3>2. q \in Nat /\ v < al * q + al
      <4> HIDE DEF v
      <4>. QED
        BY <2>2, <3>1, Quotient
    <3> HIDE DEF q
    <3>3. al * q \in Nat /\ q * al = al * q
      BY <2>2, <3>2
    <3>4. (al * q) % al = 0
      BY <2>2, <3>2, Multiples
    <3>. QED
      BY <1>2, <2>2, <3>1, <3>2, <3>3, <3>4
  <2> HIDE DEF ptr
  <2>4. left \in Nat /\ ptr + left = end
    BY <1>1, <1>2, <2>1, <2>3
  <2> HIDE DEF left
  <2>5. unit \in Nat \ {0}
    <3>1. CASE r.unit # 0
      BY <1>2, <3>1
    <3>2. CASE r.unit = 0
      <4> DEFINE l == left \div VbaBits
      <4>1. l \in Nat
        BY <1>0, <2>4, Quotient
      <4>2. unit = (l \div al) * al
        BY <3>2 DEF AlignDown
      <4> HIDE DEF l, al
      <4>3. l \div al \in Nat
        BY <2>2, <4>1, Quotient
      <4>4. unit \in Nat
        BY <2>2, <4>2, <4>3
      <4>. QED
        BY <2>1, <4>4
    <3>. QED
      BY <3>1, <3>2
  <2>6. unit % al = 0
    BY <2>1
  <2> HIDE DEF unit
  <2>7. nunits \in Nat \ {0} /\ unit * nunits <= left
    BY <2>1, <2>4, <2>5, Quotient
  <2> HIDE DEF nunits
  <2>8. n \in 1..VbaBits /\ n <= nunits
    BY <1>0, <2>7
  <2>9. n * unit <= nunits * unit /\ n * unit \in Nat /\ nunits * unit = unit * nunits
    BY <2>5, <2>7, <2>8, Products
  <2>10. regsz \in Nat /\ n * unit <= regsz
    BY <1>0, <2>4, <2>5, <2>7, <2>9
  <2>11. {b \in VbaUnits : b >= nunits} = {b \in VbaUnits : b >= n}
    BY <1>0, <2>7 DEF VbaUnits
  <2> HIDE DEF n, regsz, al
  <2>12. VbaTypes
    BY <1>2, <2>1, <2>2, <2>3, <2>5, <2>8, <2>10 DEF VbaTypes
  <2>13. UnitsInside
    <3>1. n * unit <= left /\ left \in Nat /\ n * unit \in Nat
      BY <2>4, <2>5, <2>7, <2>9
    <3>2. ptr + n * unit <= end
      BY <2>3, <2>4, <3>1
    <3>. QED
      BY <2>1, <2>3, <2>6, <2>10, <3>2 DEF UnitsInside
  <2>14. vba.bits = PastEnd
    BY <2>1, <2>11 DEF PastEnd
  <2>. QED
    BY <1>3, <2>12, <2>13, <2>14 DEF VbaInv, BlocksAreRuns, BlocksApart, BitsAreOwned
<1>. QED
  BY <1>1, <1>4, <1>5

\* When no free run is long enough, every run of that length meets a block.
LEMMA NoRoomLeft ==
    ASSUME VbaInv, NEW n \in Nat \ {0}, n > VbaBits \/ avail_offset(vba.bits, n, 0) = VbaBits,
           NEW k \in VbaUnits
    PROVE  \/ k + n > vba.nunits
           \/ \E x \in blocks : /\ x[1] < vba.ptr + (k + n) * vba.unit
                                /\ vba.ptr + k * vba.unit < x[1] + NUnits(x[2]) * vba.unit
<1>0. VbaBits \in Nat \ {0} /\ vba.nunits \in 1..VbaBits /\ vba.unit \in Nat \ {0} /\ vba.ptr \in Nat
  BY VbaAssumption DEF VbaInv, VbaTypes
<1>1. SUFFICES ASSUME ~(k + n > vba.nunits)
               PROVE  \E x \in blocks : /\ x[1] < vba.ptr + (k + n) * vba.unit
                                        /\ vba.ptr + k * vba.unit < x[1] + NUnits(x[2]) * vba.unit
  OBVIOUS
<1>2. k \in Nat /\ k + n <= vba.nunits /\ k + n <= VbaBits
  BY <1>0, <1>1 DEF VbaUnits
<1>3. ~NoneIn(vba.bits, n, k)
  <2> DEFINE r == avail_offset(vba.bits, n, 0)
  <2>1. ~(r < VbaBits) => \A i \in Nat : 0 <= i /\ i + n <= VbaBits => ~NoneIn(vba.bits, n, i)
    BY AvailOffset
  <2>2. r = VbaBits
    BY <1>0, <1>2
  <2>. QED
    BY <1>0, <1>2, <2>1, <2>2
<1>4. PICK b \in k..(k + n - 1) : b \in vba.bits
  BY <1>3 DEF NoneIn
<1>5. PICK x \in blocks : b \in Span(x)
  BY <1>0, <1>2, <1>4 DEF VbaInv, BitsAreOwned, PastEnd
<1> DEFINE at == At(x)
           w == NUnits(x[2])
           u == vba.unit
<1>6. at \in Nat /\ x[1] = vba.ptr + at * u /\ x[2] \in Nat \ {0}
  BY DEF VbaInv, BlocksAreRuns
<1>7. w \in Nat \ {0}
  BY <1>0, <1>6, UnitsEnough
<1>8. b \in Nat /\ at <= b /\ b < at + w /\ k <= b /\ b < k + n
  BY <1>2, <1>4, <1>5, <1>6, <1>7 DEF Span
<1> HIDE DEF at, w, u
<1>9. at < k + n /\ k < at + w
  BY <1>2, <1>6, <1>7, <1>8
<1>10. u \in Nat \ {0}
  BY <1>0 DEF u
<1>11. at * u + u <= (k + n) * u /\ at * u \in Int /\ (k + n) * u \in Int
  <2>1. at + 1 <= k + n /\ (at + 1) * u = at * u + u
    BY <1>2, <1>6, <1>9, <1>10
  <2>. QED
    BY <1>2, <1>6, <1>10, <2>1, Products
<1>12. k * u + u <= at * u + w * u /\ k * u \in Int /\ w * u \in Int
  <2>1. k + 1 <= at + w /\ (k + 1) * u = k * u + u /\ (at + w) * u = at * u + w * u
    BY <1>2, <1>6, <1>7, <1>9, <1>10
  <2>. QED
    BY <1>2, <1>6, <1>7, <1>10, <2>1, Products
<1>13. x[1] < vba.ptr + (k + n) * u /\ vba.ptr + k * u < x[1] + w * u
  BY <1>0, <1>6, <1>10, <1>11, <1>12
<1>. QED
  BY <1>13 DEF w, u

\* An allocation takes a run that nobody owns.
LEMMA MallocInv ==
    ASSUME VbaInv, NEW bytes \in AllocSizes, Malloc(bytes)
    PROVE  VbaInv'
<1> DEFINE n == NUnits(bytes)
           i == avail_offset(vba.bits, n, 0)
           u == vba.unit
<1>0. VbaBits \in Nat \ {0} /\ bytes \in Nat \ {0}
  BY VbaAssumption
<1>1. /\ vba = [unit |-> u, nunits |-> vba.nunits, regsz |-> vba.regsz,
                ptr |-> vba.ptr, align |-> vba.align, bits |-> vba.bits]
      /\ vba.nunits \in 1..VbaBits /\ u \in Nat \ {0} /\ vba.ptr \in Nat
  BY DEF VbaInv, VbaTypes
<1>2. n \in Nat \ {0} /\ bytes <= n * u
  BY <1>0, <1>1, UnitsEnough
<1>3. CASE n > VbaBits \/ i = VbaBits
  <2>1. UNCHANGED <<vba, end, blocks>> /\
        vbaOk' = \A k \in VbaUnits :
                    \/ k + n > vba.nunits
                    \/ \E x \in blocks : /\ x[1] < vba.ptr + (k + n) * vba.unit
                                         /\ vba.ptr + k * vba.unit < x[1] + NUnits(x[2]) * vba.unit
    BY <1>3 DEF Malloc
  <2>2. \A k \in VbaUnits :
           \/ k + n > vba.nunits
           \/ \E x \in blocks : /\ x[1] < vba.ptr + (k + n) * vba.unit
                                /\ vba.ptr + k * vba.unit < x[1] + NUnits(x[2]) * vba.unit
    <3> HIDE DEF n
    <3>1. n > VbaBits \/ avail_offset(vba.bits, n, 0) = VbaBits
      BY <1>3
    <3>. QED
      BY <1>2, <3>1, NoRoomLeft
  <2>3. vbaOk' = TRUE
    BY <2>1, <2>2
  <2>. QED
    BY <2>1, <2>3 DEF VbaInv, VbaTypes, UnitsInside, BlocksAreRuns, BlocksApart, BitsAreOwned,
                      At, Span, PastEnd, NUnits
<1>4. CASE ~(n > VbaBits \/ i = VbaBits)
  <2> DEFINE run == i..(i + n - 1)
             new == <<vba.ptr + i * u, bytes>>
  <2>1. /\ vba' = [vba EXCEPT !.bits = vba.bits \cup run]
        /\ blocks' = blocks \cup {new} /\ vbaOk' = TRUE /\ end' = end
    BY <1>4 DEF Malloc, assign_bits
  <2>2. /\ vba' = [unit |-> u, nunits |-> vba.nunits, regsz |-> vba.regsz,
                   ptr |-> vba.ptr, align |-> vba.align, bits |-> vba.bits \cup run]
    <3> HIDE DEF run
    <3>. QED
      BY <1>1, <2>1
  <2>3. i \in Nat /\ i + n <= VbaBits /\ NoneIn(vba.bits, n, i)
    <3> HIDE DEF n
    <3>. QED
      BY <1>0, <1>2, <1>4, AvailOffset
  <2> HIDE DEF i, n
  <2>4. \A b \in run : b \in Nat /\ b < vba.nunits /\ b \notin vba.bits
    <3>1. \A b \in run : b \in Nat /\ b \notin vba.bits /\ b < VbaBits
      BY <1>0, <1>2, <2>3 DEF NoneIn
    <3>2. \A b \in VbaUnits : b >= vba.nunits => b \in vba.bits
      BY DEF VbaInv, BitsAreOwned, PastEnd
    <3>. QED
      BY <1>0, <1>1, <3>1, <3>2 DEF VbaUnits
  <2>5. i + n <= vba.nunits
    <3>1. i + n - 1 \in run
      BY <1>2, <2>3
    <3>. QED
      BY <1>1, <1>2, <2>3, <2>4, <3>1
  <2>6. At(new) = i /\ new[1] = vba.ptr + i * u /\ new[2] = bytes /\ Span(new) = run
    <3>1. At(new) = i
      BY <1>1, <2>3, AtOf
    <3>. QED
      BY <3>1 DEF Span, n
  <2>7. new \in Nat \X (Nat \ {0})
    BY <1>0, <1>1, <2>3
  <2> HIDE DEF new, run
  <2>8. \A x : At(x)' = At(x) /\ NUnits(x[2])' = NUnits(x[2]) /\ Span(x)' = Span(x)
    BY <2>2 DEF At, NUnits, Span
  <2>9. VbaTypes'
    BY <2>1, <2>2 DEF VbaInv, VbaTypes
  <2>10. UnitsInside'
    BY <2>1, <2>2 DEF VbaInv, UnitsInside
  <2>11. BlocksAreRuns'
    <3>1. ASSUME NEW x \in blocks'
          PROVE  /\ x \in Nat \X (Nat \ {0})
                 /\ At(x) \in Nat /\ x[1] = vba.ptr + At(x) * u
                 /\ At(x) + NUnits(x[2]) <= vba.nunits
      <4>1. CASE x \in blocks
        BY <4>1 DEF VbaInv, BlocksAreRuns
      <4>2. CASE x = new
        BY <2>3, <2>5, <2>6, <2>7, <4>2 DEF n
      <4>. QED
        BY <2>1, <4>1, <4>2
    <3>2. vba'.ptr = vba.ptr /\ vba'.unit = u /\ vba'.nunits = vba.nunits
      BY <2>2
    <3> HIDE DEF u
    <3>. QED
      BY <2>8, <3>1, <3>2 DEF BlocksAreRuns
  <2>12. BlocksApart'
    <3>1. \A x \in blocks : Span(x) \cap Span(new) = {}
      BY <2>4, <2>6 DEF VbaInv, BitsAreOwned
    <3>2. \A x, y \in blocks : x # y => Span(x) \cap Span(y) = {}
      BY DEF VbaInv, BlocksApart
    <3>3. \A x, y \in blocks' : x # y => Span(x) \cap Span(y) = {}
      BY <2>1, <3>1, <3>2
    <3>. QED
      BY <2>8, <3>3 DEF BlocksApart
  <2>13. BitsAreOwned'
    <3>1. PastEnd' = PastEnd
      BY <2>2 DEF PastEnd
    <3>2. vba'.bits = PastEnd \cup UNION {Span(x) : x \in blocks'}
      <4>1. vba.bits = PastEnd \cup UNION {Span(x) : x \in blocks}
        BY DEF VbaInv, BitsAreOwned
      <4>2. vba'.bits = vba.bits \cup Span(new)
        BY <2>2, <2>6
      <4>. QED
        BY <2>1, <4>1, <4>2
    <3>3. {Span(x)' : x \in blocks'} = {Span(x) : x \in blocks'}
      BY <2>8
    <3>. QED
      BY <3>1, <3>2, <3>3 DEF BitsAreOwned
  <2>. QED
    BY <2>1, <2>9, <2>10, <2>11, <2>12, <2>13 DEF VbaInv
<1>. QED
  BY <1>3, <1>4

\* The release of a held block is never refused, and gives back its units only.
LEMMA FreeInv ==
    ASSUME VbaInv, NEW z \in blocks, Free(z)
    PROVE  VbaInv'
<1> DEFINE u == vba.unit
           i == At(z)
           n == NUnits(z[2])
<1>0. VbaBits \in Nat \ {0}
  BY VbaAssumption
<1>1. /\ vba = [unit |-> u, nunits |-> vba.nunits, regsz |-> vba.regsz,
                ptr |-> vba.ptr, align |-> vba.align, bits |-> vba.bits]
      /\ vba.nunits \in 1..VbaBits /\ u \in Nat \ {0} /\ vba.ptr \in Nat /\ vba.regsz \in Nat
      /\ vba.nunits * u <= vba.regsz
  BY DEF VbaInv, VbaTypes, UnitsInside
<1>2. z[2] \in Nat \ {0} /\ i \in Nat /\ z[1] = vba.ptr + i * u /\ i + n <= vba.nunits
  BY DEF VbaInv, BlocksAreRuns
<1>3. n \in Nat \ {0}
  BY <1>1, <1>2, UnitsEnough
<1>4. Span(z) = i..(i + n - 1) /\ Span(z) \subseteq vba.bits
  BY DEF VbaInv, BitsAreOwned, Span
<1>5. /\ z[1] >= vba.ptr /\ z[1] < vba.ptr + vba.regsz
      /\ (z[1] - vba.ptr) % u = 0
  <2> HIDE DEF u, i, n
  <2>1. i * u + u <= vba.nunits * u /\ i * u \in Nat /\ vba.nunits * u \in Nat
    <3> DEFINE w == vba.nunits
    <3>1. i \in Nat /\ u \in Nat /\ w \in Nat /\ i + 1 <= w
      <4>1. i \in Nat /\ n \in Nat \ {0} /\ i + n <= w
        BY <1>2, <1>3
      <4>2. u \in Nat /\ w \in Nat
        BY <1>0, <1>1
      <4> HIDE DEF w
      <4>. QED
        BY <4>1, <4>2
    <3> HIDE DEF w
    <3>2. (i + 1) * u = i * u + u
      BY <3>1
    <3>3. (i + 1) * u <= w * u
      BY <3>1, Products
    <3>4. i * u \in Nat /\ w * u \in Nat
      BY <3>1
    <3>. QED
      BY <3>2, <3>3, <3>4 DEF w
  <2>2. z[1] - vba.ptr = u * i
    BY <1>1, <1>2, <2>1
  <2>3. (u * i) % u = 0
    BY <1>1, <1>2, Multiples
  <2>. QED
    BY <1>1, <1>2, <2>1, <2>2, <2>3
<1>6. /\ vba' = [vba EXCEPT !.bits = vba.bits \ (i..(i + n - 1))]
      /\ blocks' = blocks \ {z} /\ vbaOk' = TRUE /\ end' = end
  <2>1. ~(i >= VbaBits) /\ ~(i + n > VbaBits)
    <3> HIDE DEF i, n
    <3>. QED
      BY <1>0, <1>1, <1>2, <1>3
  <2>2. ~(z[1] < vba.ptr \/ z[1] >= vba.ptr + vba.regsz)
    <3> HIDE DEF i, u
    <3>1. z[1] \in Int
      <4>1. i * u \in Nat
        BY <1>1, <1>2
      <4>. QED
        BY <1>1, <1>2, <4>1
    <3>. QED
      BY <1>1, <1>5, <3>1
  <2>3. i = (z[1] - vba.ptr) \div vba.unit
    BY DEF At
  <2>. QED
    BY <1>4, <1>5, <2>1, <2>2, <2>3 DEF Free, release_bits
<1> HIDE DEF i, n
<1>7. vba' = [unit |-> u, nunits |-> vba.nunits, regsz |-> vba.regsz,
              ptr |-> vba.ptr, align |-> vba.align, bits |-> vba.bits \ Span(z)]
  BY <1>1, <1>4, <1>6
<1>8. \A x : At(x)' = At(x) /\ NUnits(x[2])' = NUnits(x[2]) /\ Span(x)' = Span(x)
  BY <1>7 DEF At, NUnits, Span
<1>9. VbaTypes' /\ UnitsInside'
  BY <1>6, <1>7 DEF VbaInv, VbaTypes, UnitsInside
<1>10. BlocksAreRuns'
  BY <1>6, <1>7, <1>8 DEF VbaInv, BlocksAreRuns
<1>11. BlocksApart'
  BY <1>6, <1>8 DEF VbaInv, BlocksApart
<1>12. BitsAreOwned'
  <2>1. PastEnd' = PastEnd
    BY <1>7 DEF PastEnd
  <2>2. vba'.bits = PastEnd \cup UNION {Span(x) : x \in blocks'}
    <3>1. vba.bits = PastEnd \cup UNION {Span(x) : x \in blocks}
      BY DEF VbaInv, BitsAreOwned
    <3>2. \A x \in blocks' : Span(x) \cap Span(z) = {}
      BY <1>6 DEF VbaInv, BlocksApart
    <3>3. PastEnd \cap Span(z) = {}
      <4>1. \A b \in Span(z) : b < vba.nunits
        BY <1>0, <1>1, <1>2, <1>3, <1>4
      <4>. QED
        BY <1>0, <1>1, <4>1 DEF PastEnd, VbaUnits
    <3>4. vba'.bits = vba.bits \ Span(z)
      BY <1>7
    <3>. QED
      BY <1>6, <3>1, <3>2, <3>3, <3>4
  <2>3. {Span(x)' : x \in blocks'} = {Span(x) : x \in blocks'}
    BY <1>8
  <2>. QED
    BY <2>1, <2>2, <2>3 DEF BitsAreOwned
<1>. QED
  BY <1>6, <1>9, <1>10, <1>11, <1>12 DEF VbaInv

LEMMA VbaInvNext == VbaInv /\ [VbaNext]_vbaVars => VbaInv'
<1> SUFFICES ASSUME VbaInv, [VbaNext]_vbaVars PROVE VbaInv'
  OBVIOUS
<1>1. ASSUME NEW b \in AllocSizes, Malloc(b) PROVE VbaInv'
  BY <1>1, MallocInv
<1>2. ASSUME NEW x \in blocks, Free(x) PROVE VbaInv'
  BY <1>2, FreeInv
<1>3. CASE UNCHANGED vbaVars
  BY <1>3 DEF vbaVars, VbaInv, VbaTypes, UnitsInside, BlocksAreRuns, BlocksApart, BitsAreOwned,
              At, Span, PastEnd, NUnits
<1>. QED
  BY <1>1, <1>2, <1>3 DEF VbaNext

LEMMA VbaInvSound == VbaInv => VbaSound
<1> SUFFICES ASSUME VbaInv PROVE VbaSound
  OBVIOUS
<1>0. /\ VbaBits \in Nat \ {0} /\ vba.nunits \in 1..VbaBits /\ vba.unit \in Nat \ {0}
      /\ vba.ptr \in Nat /\ vba.align \in Nat /\ end \in Nat
  BY VbaAssumption DEF VbaInv, VbaTypes
<1> DEFINE u == vba.unit
<1>1. ASSUME NEW x \in blocks
      PROVE  /\ At(x) \in Nat /\ x[1] = vba.ptr + At(x) * u /\ x[2] \in Nat \ {0}
             /\ NUnits(x[2]) \in Nat \ {0} /\ x[2] <= NUnits(x[2]) * u
             /\ At(x) + NUnits(x[2]) <= vba.nunits
             /\ At(x) * u + NUnits(x[2]) * u <= vba.nunits * u
             /\ At(x) * u \in Nat /\ NUnits(x[2]) * u \in Nat /\ vba.nunits * u \in Nat
  <2> DEFINE at == At(x)
             w == NUnits(x[2])
  <2>1. /\ at \in Nat /\ x[1] = vba.ptr + at * u /\ x[2] \in Nat \ {0}
        /\ at + w <= vba.nunits
    BY DEF VbaInv, BlocksAreRuns
  <2>2. w \in Nat \ {0} /\ x[2] <= w * u
    BY <1>0, <2>1, UnitsEnough
  <2> HIDE DEF at, w, u
  <2>3. u \in Nat \ {0}
    BY <1>0 DEF u
  <2>4. (at + w) * u <= vba.nunits * u /\ (at + w) * u = at * u + w * u
    <3>1. (at + w) * u <= vba.nunits * u
      BY <1>0, <2>1, <2>2, <2>3, Products
    <3>. QED
      BY <2>1, <2>2, <2>3, <3>1
  <2>5. at * u \in Nat /\ w * u \in Nat /\ vba.nunits * u \in Nat
    BY <1>0, <2>1, <2>2, <2>3
  <2>. QED
    BY <2>1, <2>2, <2>4, <2>5 DEF at, w
<1>2. ASSUME NEW x \in blocks
      PROVE  /\ vba.ptr <= x[1] /\ x[1] + x[2] <= end
             /\ vba.align # 0 => x[1] % vba.align = 0
  <2> DEFINE c == At(x) * u
             d == NUnits(x[2]) * u
             e == vba.nunits * u
  <2>1. /\ x[1] = vba.ptr + c /\ x[2] \in Nat /\ x[2] <= d /\ c + d <= e
        /\ c \in Nat /\ d \in Nat /\ e \in Nat /\ vba.ptr + e <= end
    BY <1>1 DEF VbaInv, UnitsInside
  <2>2. vba.ptr <= x[1] /\ x[1] + x[2] <= end
    <3> HIDE DEF c, d, e
    <3>. QED
      BY <1>0, <2>1
  <2>3. ASSUME vba.align # 0 PROVE x[1] % vba.align = 0
    <3>1. vba.ptr % vba.align = 0 /\ vba.unit % vba.align = 0 /\ vba.align \in Nat \ {0}
      BY <1>0, <2>3 DEF VbaInv, UnitsInside
    <3>2. (vba.ptr + At(x) * vba.unit) % vba.align = 0
      <4> DEFINE m == vba.align
                 p == vba.ptr
                 w == vba.unit
                 k == At(x)
      <4>1. m \in Nat \ {0} /\ p \in Nat /\ w \in Nat /\ k \in Nat /\ p % m = 0 /\ w % m = 0
        BY <1>0, <1>1, <3>1
      <4> HIDE DEF m, p, w, k
      <4>2. (p + k * w) % m = 0
        BY <4>1, SumOfMultiples
      <4>. QED
        BY <4>2 DEF m, p, w, k
    <3>. QED
      BY <1>1, <3>2
  <2>. QED
    BY <2>2, <2>3
<1>3. ASSUME NEW x \in blocks, NEW y \in blocks \ {x}
      PROVE  x[1] + x[2] <= y[1] \/ y[1] + y[2] <= x[1]
  <2> DEFINE atx == At(x)
             aty == At(y)
             wx == NUnits(x[2])
             wy == NUnits(y[2])
  <2>1. Span(x) \cap Span(y) = {}
    BY DEF VbaInv, BlocksApart
  <2>2. /\ atx \in Nat /\ wx \in Nat \ {0} /\ x[1] = vba.ptr + atx * u /\ x[2] <= wx * u
        /\ aty \in Nat /\ wy \in Nat \ {0} /\ y[1] = vba.ptr + aty * u /\ y[2] <= wy * u
        /\ x[2] \in Nat /\ y[2] \in Nat /\ u \in Nat
        /\ atx * u \in Nat /\ aty * u \in Nat /\ wx * u \in Nat /\ wy * u \in Nat
    BY <1>0, <1>1
  <2>3. (atx..(atx + wx - 1)) \cap (aty..(aty + wy - 1)) = {}
    BY <2>1 DEF Span
  <2> HIDE DEF atx, aty, wx, wy, u
  <2>4. atx + wx <= aty \/ aty + wy <= atx
    <3>1. SUFFICES ASSUME ~(atx + wx <= aty), ~(aty + wy <= atx) PROVE FALSE
      OBVIOUS
    <3>2. CASE atx <= aty
      <4>1. aty \in atx..(atx + wx - 1) /\ aty \in aty..(aty + wy - 1)
        BY <2>2, <3>1, <3>2
      <4>. QED
        BY <2>3, <4>1
    <3>3. CASE ~(atx <= aty)
      <4>1. atx \in atx..(atx + wx - 1) /\ atx \in aty..(aty + wy - 1)
        BY <2>2, <3>1, <3>3
      <4>. QED
        BY <2>3, <4>1
    <3>. QED
      BY <3>2, <3>3
  <2>5. CASE atx + wx <= aty
    <3>1. (atx + wx) * u <= aty * u /\ (atx + wx) * u = atx * u + wx * u
      <4>1. (atx + wx) * u <= aty * u
        BY <2>2, <2>5, Products
      <4>. QED
        BY <2>2, <4>1
    <3>. QED
      BY <1>0, <2>2, <3>1
  <2>6. CASE aty + wy <= atx
    <3>1. (aty + wy) * u <= atx * u /\ (aty + wy) * u = aty * u + wy * u
      <4>1. (aty + wy) * u <= atx * u
        BY <2>2, <2>6, Products
      <4>. QED
        BY <2>2, <4>1
    <3>. QED
      BY <1>0, <2>2, <3>1
  <2>. QED
    BY <2>4, <2>5, <2>6
<1>4. blocks = {} => vba.bits = {b \in VbaUnits : b >= vba.nunits}
  BY DEF VbaInv, BitsAreOwned, PastEnd
<1>5. ASSUME NEW b \in AllocSizes, NEW items \in 1..VbaBits, space_avail_nitems(b, items)
      PROVE  Fit(vba.bits, NUnits(b), items)
  <2>1. NUnits(b) \in Nat \ {0} /\ items \in Nat
    BY <1>0, VbaAssumption, UnitsEnough
  <2>. QED
    BY <1>5, <2>1, SpaceFits
<1>. QED
  BY <1>2, <1>3, <1>4, <1>5 DEF VbaSound, VbaInv

\* alloc.h: whatever the region, its alignment and the sizes asked for, blocks
\* are aligned, inside the caller's memory and apart, and the space that
\* niova_vbasic_space_avail_nitems() promises is there.
THEOREM VbaCorrect == VbaSpec => []VbaSound
<1>. QED
  BY VbaInvInit, VbaInvNext, VbaInvSound, PTL DEF VbaSpec

-------------------------------------------------------------------------------
(***************************************************************************)
(* The allocation bitmap, for any word size, any length and any limit.     *)
(***************************************************************************)
Words == 0..NWords-1
Agrees(map, now) == \A w \in Words, b \in AllOnes : b \in map[w] <=> w * WordBits + b \in now

BitmapInv ==
    /\ nb = [max |-> nb.max, hint |-> nb.hint, map |-> nb.map]
    /\ nb.max \in 1..NWords * WordBits /\ nb.hint \in Nat
    /\ nb.map \in [Words -> Word] /\ src \in [Words -> Word]
    /\ \A w \in Words : \A b \in src[w] : w * WordBits + b < nb.max
    /\ used \in SUBSET (0..nb.max-1)
    /\ Agrees(nb.map, used)
    /\ last.ok = TRUE

\* A bit's number, and its word and place.
LEMMA BitPlace ==
    ASSUME NEW w \in Nat, NEW b \in AllOnes
    PROVE  /\ w * WordBits + b \in Nat
           /\ WordIdx(w * WordBits + b) = w /\ (w * WordBits + b) % WordBits = b
<1> DEFINE m == WordBits
           v == w * m + b
           q == v \div m
<1>1. m \in Nat \ {0} /\ b \in Nat /\ b < m
  BY BitmapAssumption DEF AllOnes
<1> HIDE DEF m
<1>2. w * m \in Nat /\ w * m = m * w
  BY <1>1
<1>3. v \in Nat
  BY <1>1, <1>2
<1>4. v = m * q + (v % m) /\ q \in Nat /\ v % m \in 0..(m - 1)
  <2> HIDE DEF v
  <2>. QED
    BY <1>1, <1>3, Quotient
<1> HIDE DEF q
<1>5. ~(q < w)
  <2>1. SUFFICES ASSUME q + 1 <= w PROVE FALSE
    BY <1>4
  <2>2. (q + 1) * m <= w * m /\ (q + 1) * m = m * q + m
    <3>1. (q + 1) * m <= w * m
      BY <1>1, <1>4, <2>1, Products
    <3>. QED
      BY <1>1, <1>4, <3>1
  <2>. QED
    BY <1>1, <1>2, <1>4, <2>2
<1>6. ~(w < q)
  <2>1. SUFFICES ASSUME w + 1 <= q PROVE FALSE
    BY <1>4
  <2>2. (w + 1) * m <= q * m /\ (w + 1) * m = m * w + m /\ q * m = m * q
    <3>1. (w + 1) * m <= q * m
      BY <1>1, <1>4, <2>1, Products
    <3>. QED
      BY <1>1, <1>4, <3>1
  <2>. QED
    BY <1>1, <1>2, <1>4, <2>2
<1>7. q = w
  BY <1>4, <1>5, <1>6
<1>. QED
  BY <1>1, <1>2, <1>3, <1>4, <1>7 DEF WordIdx, m, q

LEMMA BitNumber ==
    ASSUME NEW i \in Nat
    PROVE  /\ WordIdx(i) \in Nat /\ i % WordBits \in AllOnes
           /\ i = WordIdx(i) * WordBits + (i % WordBits)
           /\ i < NWords * WordBits => WordIdx(i) \in Words
<1> DEFINE m == WordBits
           q == i \div m
<1>1. m \in Nat \ {0} /\ NWords \in Nat \ {0}
  BY BitmapAssumption
<1> HIDE DEF m
<1>2. i = m * q + (i % m) /\ q \in Nat /\ i % m \in 0..(m - 1)
  BY <1>1, Quotient
<1>3. q < NWords <=> i < NWords * m
  BY <1>1, Quotient
<1>4. m * q = q * m
  BY <1>1, <1>2
<1> HIDE DEF q
<1>5. i < NWords * m => q \in Words
  BY <1>1, <1>2, <1>3 DEF Words
<1>6. q \in Nat /\ i % m \in 0..(m - 1) /\ i = q * m + (i % m)
  BY <1>2, <1>4 DEF q
<1>. QED
  BY <1>5, <1>6 DEF WordIdx, AllOnes, m, q

\* A bit of the map is a number below its length.
LEMMA BitBelow ==
    ASSUME NEW w \in Words, NEW b \in AllOnes
    PROVE  w * WordBits + b \in 0..NWords * WordBits - 1
<1> DEFINE m == WordBits
<1>1. m \in Nat \ {0} /\ b \in Nat /\ b < m /\ w \in Nat /\ w + 1 <= NWords /\ NWords \in Nat
  BY BitmapAssumption DEF AllOnes, Words
<1> HIDE DEF m
<1>2. (w + 1) * m <= NWords * m /\ (w + 1) * m = w * m + m /\ w * m \in Nat /\ NWords * m \in Nat
  <2>1. (w + 1) * m <= NWords * m
    BY <1>1, Products
  <2>. QED
    BY <1>1, <2>1
<1>. QED
  BY <1>1, <1>2 DEF m

\* A map agrees with a set of bits when Bits says so.
LEMMA BitsAgree ==
    ASSUME NEW map, NEW now \in SUBSET (0..NWords * WordBits - 1), Agrees(map, now)
    PROVE  Bits(map, NWords * WordBits) = now
<1> DEFINE top == NWords * WordBits
<1>0. top \in Nat
  BY BitmapAssumption
<1> HIDE DEF top
<1>1. ASSUME NEW i \in 0..top-1 PROVE i % WordBits \in map[WordIdx(i)] <=> i \in now
  <2>1. i \in Nat /\ i < NWords * WordBits
    BY <1>0 DEF top
  <2>2. WordIdx(i) \in Words /\ i % WordBits \in AllOnes /\ i = WordIdx(i) * WordBits + (i % WordBits)
    BY <2>1, BitNumber
  <2> DEFINE w == WordIdx(i)
             b == i % WordBits
  <2>3. w \in Words /\ b \in AllOnes /\ i = w * WordBits + b
    BY <2>2
  <2> HIDE DEF w, b
  <2>4. b \in map[w] <=> i \in now
    BY <2>3 DEF Agrees
  <2>. QED
    BY <2>4 DEF w, b
<1>. QED
  BY <1>1 DEF Bits, top

\* What an operation leaves behind when the new map agrees with the new bits.
LEMMA BitmapKeeps ==
    ASSUME BitmapInv, NEW M \in [Words -> Word], NEW h \in Nat, NEW now \in SUBSET (0..nb.max-1),
           Agrees(M, now), nb' = [max |-> nb.max, hint |-> h, map |-> M],
           used' = now, src' = src, last'.ok = TRUE
    PROVE  BitmapInv'
<1>1. nb'.max = nb.max /\ nb'.hint = h /\ nb'.map = M
  OBVIOUS
<1>2. Agrees(nb'.map, used')
  BY <1>1
<1>. QED
  BY <1>1, <1>2 DEF BitmapInv, Agrees, Words, Word, AllOnes

\* ... and when only one word changed.
LEMMA OneWord ==
    ASSUME BitmapInv, NEW w \in Words, NEW X \in SUBSET AllOnes, NEW now \in SUBSET (0..nb.max-1),
           \A b \in AllOnes : b \in X <=> w * WordBits + b \in now,
           \A i \in 0..nb.max-1 : WordIdx(i) # w => (i \in now <=> i \in used)
    PROVE  [nb.map EXCEPT ![w] = X] \in [Words -> Word] /\ Agrees([nb.map EXCEPT ![w] = X], now)
<1> DEFINE M == [nb.map EXCEPT ![w] = X]
<1>0. nb.map \in [Words -> Word] /\ Agrees(nb.map, used) /\ used \in SUBSET (0..nb.max-1)
  BY DEF BitmapInv
<1>1. M \in [Words -> Word]
  BY <1>0 DEF Word, AllOnes
<1>2. ASSUME NEW v \in Words, NEW b \in AllOnes
      PROVE  b \in M[v] <=> v * WordBits + b \in now
  <2>1. CASE v = w
    BY <1>0, <2>1
  <2>2. CASE v # w
    <3> DEFINE i == v * WordBits + b
    <3>1. v \in Nat
      BY DEF Words
    <3>2. WordIdx(i) = v
      BY <3>1, BitPlace
    <3>3. b \in M[v] <=> i \in used
      BY <1>0, <2>2 DEF Agrees
    <3> HIDE DEF i
    <3>4. i \in used <=> i \in now
      BY <1>0, <2>2, <3>2
    <3>. QED
      BY <3>3, <3>4 DEF i
  <2>. QED
    BY <2>1, <2>2
<1>. QED
  BY <1>1, <1>2 DEF Agrees

LEMMA BitmapFacts ==
    ASSUME BitmapInv
    PROVE  /\ WordBits \in Nat \ {0} /\ NWords \in Nat \ {0}
           /\ nb = [max |-> nb.max, hint |-> nb.hint, map |-> nb.map]
           /\ nb.max \in Nat \ {0} /\ nb.max <= NWords * WordBits /\ NWords * WordBits \in Nat
           /\ nb.hint \in Nat /\ nb.map \in [Words -> Word] /\ src \in [Words -> Word]
           /\ used \in SUBSET (0..nb.max-1) /\ last.ok = TRUE
           /\ \A w \in Words, b \in AllOnes : b \in nb.map[w] <=> w * WordBits + b \in used
           /\ \A w \in Words : nb.map[w] \subseteq AllOnes /\ src[w] \subseteq AllOnes
<1>1. WordBits \in Nat \ {0} /\ NWords \in Nat \ {0}
  BY BitmapAssumption
<1>2. NWords * WordBits \in Nat
  BY <1>1
<1> DEFINE top == NWords * WordBits
<1>3. nb.max \in 1..top
  BY DEF BitmapInv
<1> HIDE DEF top
<1>4. nb.max \in Nat \ {0} /\ nb.max <= top
  BY <1>2, <1>3 DEF top
<1>. QED
  BY <1>1, <1>2, <1>4 DEF BitmapInv, Agrees, Word, AllOnes, top

\* An operation that fails.
LEMMA FailKeeps ==
    ASSUME BitmapInv, NEW op, NEW code, NEW ok, Fails(op, code, ok), ok
    PROVE  BitmapInv'
<1>1. nb' = nb /\ src' = src /\ used' = used /\ last'.ok = ok
  BY DEF Fails
<1>2. ok = TRUE
  <2>1. last'.ok = ok
    BY <1>1
  <2>. QED
    OBVIOUS
<1>. QED
  BY <1>1, <1>2 DEF BitmapInv, Agrees

\* An operation that changes one word.
LEMMA WordKeeps ==
    ASSUME BitmapInv, NEW w \in Words, NEW X \in SUBSET AllOnes, NEW now \in SUBSET (0..nb.max-1),
           \A b \in AllOnes : b \in X <=> w * WordBits + b \in now,
           \A i \in 0..nb.max-1 : WordIdx(i) # w => (i \in now <=> i \in used),
           NEW h \in Nat, nb' = [max |-> nb.max, hint |-> h, map |-> [nb.map EXCEPT ![w] = X]],
           used' = now, src' = src, last'.ok = TRUE
    PROVE  BitmapInv'
<1> DEFINE M == [nb.map EXCEPT ![w] = X]
<1>1. M \in [Words -> Word] /\ Agrees(M, now)
  BY OneWord
<1>2. nb' = [max |-> nb.max, hint |-> h, map |-> M]
  OBVIOUS
<1> HIDE DEF M
<1>. QED
  BY <1>1, <1>2, BitmapKeeps

\* Other bits of the word are at other numbers.
LEMMA SameWord ==
    ASSUME NEW w \in Words, NEW i \in Nat, WordIdx(i) = w, NEW b \in AllOnes
    PROVE  w * WordBits + b = i <=> b = i % WordBits
<1>1. i = w * WordBits + (i % WordBits) /\ i % WordBits \in AllOnes
  BY BitNumber
<1>2. (w * WordBits + b) % WordBits = b
  BY BitPlace DEF Words
<1>. QED
  BY <1>1, <1>2

LEMMA SucceedFacts ==
    ASSUME BitmapInv, NEW op, NEW map, NEW now, NEW ok, Succeeds(op, map, now, ok), ok
    PROVE  /\ nb' = [max |-> nb.max, hint |-> nb.hint, map |-> map]
           /\ used' = now /\ src' = src /\ last'.ok = TRUE
<1>1. nb' = [nb EXCEPT !.map = map] /\ used' = now /\ last'.ok = ok /\ src' = src
  BY DEF Succeeds
<1>2. ok = TRUE
  <2>1. last'.ok = ok
    BY <1>1
  <2>. QED
    OBVIOUS
<1>3. nb = [max |-> nb.max, hint |-> nb.hint, map |-> nb.map]
  BY BitmapFacts
<1>. QED
  BY <1>1, <1>2, <1>3

LEMMA SetKept ==
    ASSUME BitmapInv, NEW i \in 0..NWords * WordBits, Set(i)
    PROVE  BitmapInv'
<1> DEFINE w == WordIdx(i)
           b == i % WordBits
<1>0. /\ WordBits \in Nat \ {0} /\ NWords \in Nat \ {0} /\ i \in Nat /\ nb.max \in Nat
      /\ nb.max <= NWords * WordBits /\ NWords * WordBits \in Nat /\ used \in SUBSET (0..nb.max-1)
  BY BitmapFacts
<1>1. CASE i >= nb.max
  <2>1. Fails("set", "ERANGE", TRUE)
    BY <1>1 DEF Set
  <2>. QED
    BY <2>1, FailKeeps
<1>2. CASE ~(i >= nb.max)
  <2>1. w \in Words /\ b \in AllOnes /\ i = w * WordBits + b
    <3> DEFINE top == NWords * WordBits
    <3>1. i < top
      <4> HIDE DEF top
      <4>1. nb.max <= top
        BY <1>0 DEF top
      <4>2. top \in Nat
        BY <1>0 DEF top
      <4>. QED
        BY <1>0, <1>2, <4>1, <4>2
    <3>. QED
      BY <1>0, <3>1, BitNumber
  <2>2. b \in nb.map[w] <=> i \in used
    <3> HIDE DEF w, b
    <3>. QED
      BY <2>1, BitmapFacts
  <2>3. CASE b \in nb.map[w]
    <3>1. Fails("set", "EBUSY", i \in used)
      BY <1>2, <2>3 DEF Set
    <3>. QED
      BY <2>2, <2>3, <3>1, FailKeeps
  <2>4. CASE b \notin nb.map[w]
    <3> DEFINE X == nb.map[w] \cup {b}
               now == used \cup {i}
               M == [nb.map EXCEPT ![w] = X]
    <3>1. Succeeds("set", M, now, i \notin used)
      BY <1>2, <2>4 DEF Set
    <3>2. /\ nb' = [max |-> nb.max, hint |-> nb.hint, map |-> M]
          /\ used' = now /\ src' = src /\ last'.ok = TRUE
      <4> HIDE DEF M, now
      <4>. QED
        BY <2>2, <2>4, <3>1, SucceedFacts
    <3>3. X \in SUBSET AllOnes /\ now \in SUBSET (0..nb.max-1)
      <4>1. i \in 0..nb.max-1
        BY <1>0, <1>2
      <4>2. nb.map[w] \subseteq AllOnes
        BY <2>1, BitmapFacts
      <4> HIDE DEF w, b
      <4>. QED
        BY <1>0, <2>1, <4>1, <4>2
    <3>4. \A c \in AllOnes : c \in X <=> w * WordBits + c \in now
      <4>1. ASSUME NEW c \in AllOnes PROVE c \in X <=> w * WordBits + c \in now
        <5>1. w * WordBits + c = i <=> c = b
          BY <1>0, <2>1, SameWord
        <5>2. c \in nb.map[w] <=> w * WordBits + c \in used
          <6> HIDE DEF w
          <6>. QED
            BY <2>1, BitmapFacts
        <5> HIDE DEF w, b
        <5>. QED
          BY <5>1, <5>2
      <4>. QED
        BY <4>1
    <3>5. \A j \in 0..nb.max-1 : WordIdx(j) # w => (j \in now <=> j \in used)
      OBVIOUS
    <3>6. nb.hint \in Nat /\ nb' = [max |-> nb.max, hint |-> nb.hint, map |-> [nb.map EXCEPT ![w] = X]]
      BY <3>2, BitmapFacts
    <3> HIDE DEF w, b, X, now, M
    <3>. QED
      BY <2>1, <3>2, <3>3, <3>4, <3>5, <3>6, WordKeeps
  <2>. QED
    BY <2>3, <2>4
<1>. QED
  BY <1>1, <1>2

\* A number below the limit is that of a bit of the map.
LEMMA PlaceOf ==
    ASSUME BitmapInv, NEW i \in 0..nb.max-1
    PROVE  /\ WordIdx(i) \in Words /\ (i % WordBits) \in AllOnes /\ i \in Nat
           /\ i = WordIdx(i) * WordBits + (i % WordBits)
           /\ (i % WordBits) \in nb.map[WordIdx(i)] <=> i \in used
<1> DEFINE top == NWords * WordBits
           w == WordIdx(i)
           b == i % WordBits
<1>1. top \in Nat /\ nb.max \in Nat /\ nb.max <= top
  BY BitmapFacts
<1>2. i \in Nat /\ i < top
  <2> HIDE DEF top
  <2>. QED
    BY <1>1
<1>3. w \in Words /\ b \in AllOnes /\ i = w * WordBits + b
  BY <1>2, BitNumber
<1> HIDE DEF w, b
<1>4. b \in nb.map[w] <=> i \in used
  BY <1>3, BitmapFacts
<1>. QED
  BY <1>2, <1>3, <1>4 DEF w, b

LEMMA UnsetInv ==
    ASSUME BitmapInv, NEW i \in 0..NWords * WordBits, Unset(i)
    PROVE  BitmapInv'
<1> DEFINE w == WordIdx(i)
           b == i % WordBits
<1>0. i \in Nat /\ nb.max \in Nat /\ used \in SUBSET (0..nb.max-1)
  <2> DEFINE top == NWords * WordBits
  <2>1. top \in Nat /\ i \in 0..top
    BY BitmapFacts
  <2> HIDE DEF top
  <2>2. i \in Nat
    BY <2>1
  <2>. QED
    BY <2>2, BitmapFacts
<1>1. CASE i >= nb.max
  <2>1. Fails("unset", "ERANGE", TRUE)
    BY <1>1 DEF Unset
  <2>. QED
    BY <2>1, FailKeeps
<1>2. CASE ~(i >= nb.max)
  <2>1. w \in Words /\ b \in AllOnes /\ (b \in nb.map[w] <=> i \in used)
    <3>1. i \in 0..nb.max-1
      BY <1>0, <1>2
    <3>. QED
      BY <3>1, PlaceOf
  <2>3. CASE b \notin nb.map[w]
    <3>1. Fails("unset", "EALREADY", i \notin used)
      BY <1>2, <2>3 DEF Unset
    <3>. QED
      BY <2>1, <2>3, <3>1, FailKeeps
  <2>4. CASE b \in nb.map[w]
    <3> DEFINE X == nb.map[w] \ {b}
               now == used \ {i}
               M == [nb.map EXCEPT ![w] = X]
    <3>1. Succeeds("unset", M, now, i \in used)
      BY <1>2, <2>4 DEF Unset
    <3>2. /\ nb' = [max |-> nb.max, hint |-> nb.hint, map |-> M]
          /\ used' = now /\ src' = src /\ last'.ok = TRUE
      <4> HIDE DEF M, now
      <4>. QED
        BY <2>1, <2>4, <3>1, SucceedFacts
    <3>3. X \in SUBSET AllOnes /\ now \in SUBSET (0..nb.max-1)
      BY <1>0, <2>1, BitmapFacts
    <3>4. \A c \in AllOnes : c \in X <=> w * WordBits + c \in now
      <4>1. ASSUME NEW c \in AllOnes PROVE c \in X <=> w * WordBits + c \in now
        <5>1. w * WordBits + c = i <=> c = b
          BY <1>0, <2>1, SameWord
        <5>2. c \in nb.map[w] <=> w * WordBits + c \in used
          <6> HIDE DEF w
          <6>. QED
            BY <2>1, BitmapFacts
        <5> HIDE DEF w, b
        <5>. QED
          BY <5>1, <5>2
      <4>. QED
        BY <4>1
    <3>5. \A j \in 0..nb.max-1 : WordIdx(j) # w => (j \in now <=> j \in used)
      OBVIOUS
    <3>6. nb.hint \in Nat /\ nb' = [max |-> nb.max, hint |-> nb.hint, map |-> [nb.map EXCEPT ![w] = X]]
      BY <3>2, BitmapFacts
    <3> HIDE DEF w, b, X, now, M
    <3>. QED
      BY <2>1, <3>2, <3>3, <3>4, <3>5, <3>6, WordKeeps
  <2>. QED
    BY <2>3, <2>4
<1>. QED
  BY <1>1, <1>2

\* The mask of a range is the range's bits within its word.
LEMMA MaskIsRange ==
    ASSUME BitmapInv, NEW i \in 0..nb.max-1, NEW width \in Nat \ {0}, RangeValid(i, width),
           NEW w, w = WordIdx(i), NEW mask, mask = RangeMask(i, width),
           NEW range, range = i..(i + width - 1)
    PROVE  /\ w \in Words /\ mask \in SUBSET AllOnes /\ range \in SUBSET (0..nb.max-1)
           /\ \A b \in AllOnes : b \in mask <=> w * WordBits + b \in range
           /\ \A j \in range : WordIdx(j) = w /\ (j % WordBits) \in mask
<1> DEFINE m == WordBits
           o == i % m
           p == w * m
<1>1. /\ w \in Words /\ o \in AllOnes /\ i = p + o /\ i \in Nat
      /\ m \in Nat \ {0} /\ nb.max \in Nat
  BY PlaceOf, BitmapFacts
<1>2. w \in Nat /\ p \in Nat /\ o \in Nat /\ o < m
  BY <1>1 DEF Words, AllOnes
<1>3. o + width <= m /\ i + width <= nb.max
  BY DEF RangeValid
<1>4. mask = {b \in AllOnes : o <= b /\ b < o + width}
  BY DEF RangeMask
<1> HIDE DEF o, p
<1>5. range \in SUBSET (0..nb.max-1)
  BY <1>1, <1>3
<1>6. ASSUME NEW b \in AllOnes PROVE b \in mask <=> p + b \in range
  <2>1. b \in Nat /\ b < m
    BY <1>1 DEF AllOnes
  <2>2. b \in mask <=> o <= b /\ b < o + width
    BY <1>4
  <2>. QED
    BY <1>1, <1>2, <2>1, <2>2
<1>7. ASSUME NEW j \in range PROVE WordIdx(j) = w /\ (j % m) \in mask
  <2> DEFINE c == j - p
  <2>1. c \in Nat /\ c < m /\ p + c = j
    BY <1>1, <1>2, <1>3
  <2>2. c \in AllOnes
    <3> HIDE DEF c
    <3>. QED
      BY <1>1, <2>1 DEF AllOnes
  <2> HIDE DEF c
  <2>3. WordIdx(p + c) = w /\ ((p + c) % m) = c
    BY <1>2, <2>2, BitPlace DEF p
  <2>. QED
    BY <1>6, <2>1, <2>2, <2>3
<1>. QED
  BY <1>1, <1>4, <1>5, <1>6, <1>7 DEF p

\* The bits of the word that the mask picks out are those of the range in use.
LEMMA MaskedBits ==
    ASSUME BitmapInv, NEW i \in 0..nb.max-1, NEW width \in Nat \ {0}, RangeValid(i, width),
           NEW w, w = WordIdx(i), NEW mask, mask = RangeMask(i, width),
           NEW range, range = i..(i + width - 1)
    PROVE  /\ nb.map[w] \cap mask = {} <=> range \cap used = {}
           /\ mask \subseteq nb.map[w] <=> range \subseteq used
           /\ \A b \in AllOnes : b \in nb.map[w] <=> w * WordBits + b \in used
<1>1. /\ w \in Words /\ mask \in SUBSET AllOnes /\ range \in SUBSET (0..nb.max-1)
      /\ \A b \in AllOnes : b \in mask <=> w * WordBits + b \in range
      /\ \A j \in range : WordIdx(j) = w /\ (j % WordBits) \in mask
  BY MaskIsRange
<1>2. \A b \in AllOnes : b \in nb.map[w] <=> w * WordBits + b \in used
  BY <1>1, BitmapFacts
<1>3. ASSUME NEW j \in range
      PROVE  /\ (j % WordBits) \in mask
             /\ (j % WordBits) \in nb.map[w] <=> j \in used
  BY <1>1, PlaceOf
<1>. QED
  BY <1>1, <1>2, <1>3

LEMMA RangeInv ==
    ASSUME BitmapInv, NEW i \in 0..nb.max-1, NEW width \in Widths, NEW e \in BOOLEAN,
           RangeSet(i, width, e) \/ RangeUnset(i, width)
    PROVE  BitmapInv'
<1> DEFINE w == WordIdx(i)
           mask == RangeMask(i, width)
           range == i..(i + width - 1)
<1>0. width \in Nat \ {0} /\ RangeValid(i, width)
  BY BitmapAssumption DEF RangeSet, RangeUnset
<1>1. /\ w \in Words /\ mask \in SUBSET AllOnes /\ range \in SUBSET (0..nb.max-1)
      /\ \A b \in AllOnes : b \in mask <=> w * WordBits + b \in range
      /\ \A j \in range : WordIdx(j) = w
  <2> HIDE DEF w, mask, range
  <2>1. w = WordIdx(i) /\ mask = RangeMask(i, width) /\ range = i..(i + width - 1)
    BY DEF w, mask, range
  <2>. QED
    BY <1>0, <2>1, MaskIsRange
<1>2. /\ nb.map[w] \cap mask = {} <=> range \cap used = {}
      /\ mask \subseteq nb.map[w] <=> range \subseteq used
      /\ \A b \in AllOnes : b \in nb.map[w] <=> w * WordBits + b \in used
  <2> HIDE DEF w, mask, range
  <2>1. w = WordIdx(i) /\ mask = RangeMask(i, width) /\ range = i..(i + width - 1)
    BY DEF w, mask, range
  <2>. QED
    BY <1>0, <2>1, MaskedBits
<1>3. used \in SUBSET (0..nb.max-1) /\ nb.map[w] \subseteq AllOnes /\ nb.hint \in Nat
  BY <1>1, BitmapFacts
<1>4. CASE RangeSet(i, width, e)
  <2>1. CASE ~e /\ nb.map[w] \cap mask # {}
    <3>1. Fails("range_set", "EBUSY", range \cap used # {})
      BY <1>4, <2>1 DEF RangeSet
    <3>. QED
      BY <1>2, <2>1, <3>1, FailKeeps
  <2>2. CASE ~(~e /\ nb.map[w] \cap mask # {})
    <3> DEFINE X == nb.map[w] \cup mask
               now == used \cup range
               M == [nb.map EXCEPT ![w] = X]
    <3>1. Succeeds("range_set", M, now, e \/ range \cap used = {})
      BY <1>4, <2>2 DEF RangeSet
    <3>2. /\ nb' = [max |-> nb.max, hint |-> nb.hint, map |-> M]
          /\ used' = now /\ src' = src /\ last'.ok = TRUE
      <4>1. e \/ range \cap used = {}
        BY <1>2, <2>2
      <4> HIDE DEF M, now, range
      <4>. QED
        BY <3>1, <4>1, SucceedFacts
    <3>3. /\ X \in SUBSET AllOnes /\ now \in SUBSET (0..nb.max-1)
          /\ \A c \in AllOnes : c \in X <=> w * WordBits + c \in now
          /\ \A j \in 0..nb.max-1 : WordIdx(j) # w => (j \in now <=> j \in used)
      <4> HIDE DEF w, mask, range
      <4>. QED
        BY <1>1, <1>2, <1>3
    <3>4. nb' = [max |-> nb.max, hint |-> nb.hint, map |-> [nb.map EXCEPT ![w] = X]]
      BY <3>2
    <3> HIDE DEF w, X, now, M
    <3>. QED
      BY <1>1, <1>3, <3>2, <3>3, <3>4, WordKeeps
  <2>. QED
    BY <2>1, <2>2
<1>5. CASE RangeUnset(i, width)
  <2>1. CASE ~(mask \subseteq nb.map[w])
    <3>1. Fails("range_unset", "EALREADY", ~(range \subseteq used))
      BY <1>5, <2>1 DEF RangeUnset
    <3>. QED
      BY <1>2, <2>1, <3>1, FailKeeps
  <2>2. CASE mask \subseteq nb.map[w]
    <3> DEFINE X == nb.map[w] \ mask
               now == used \ range
               M == [nb.map EXCEPT ![w] = X]
    <3>1. Succeeds("range_unset", M, now, range \subseteq used)
      BY <1>5, <2>2 DEF RangeUnset
    <3>2. /\ nb' = [max |-> nb.max, hint |-> nb.hint, map |-> M]
          /\ used' = now /\ src' = src /\ last'.ok = TRUE
      <4>1. range \subseteq used
        BY <1>2, <2>2
      <4> HIDE DEF M, now, range
      <4>. QED
        BY <3>1, <4>1, SucceedFacts
    <3>3. /\ X \in SUBSET AllOnes /\ now \in SUBSET (0..nb.max-1)
          /\ \A c \in AllOnes : c \in X <=> w * WordBits + c \in now
          /\ \A j \in 0..nb.max-1 : WordIdx(j) # w => (j \in now <=> j \in used)
      <4> HIDE DEF w, mask, range
      <4>. QED
        BY <1>1, <1>2, <1>3
    <3>4. nb' = [max |-> nb.max, hint |-> nb.hint, map |-> [nb.map EXCEPT ![w] = X]]
      BY <3>2
    <3> HIDE DEF w, X, now, M
    <3>. QED
      BY <1>1, <1>3, <3>2, <3>3, <3>4, WordKeeps
  <2>. QED
    BY <2>1, <2>2
<1>. QED
  BY <1>4, <1>5

\* The bits of the other map.
LEMMA SourceBits ==
    ASSUME BitmapInv, NEW s, s = Bits(src, nb.max)
    PROVE  /\ s \in SUBSET (0..nb.max-1)
           /\ \A w \in Words, b \in AllOnes : b \in src[w] <=> w * WordBits + b \in s
<1>1. s = {i \in 0..nb.max-1 : (i % WordBits) \in src[WordIdx(i)]}
  BY DEF Bits
<1>2. ASSUME NEW w \in Words, NEW b \in AllOnes PROVE b \in src[w] <=> w * WordBits + b \in s
  <2> DEFINE i == w * WordBits + b
  <2>1. i \in Nat /\ WordIdx(i) = w /\ (i % WordBits) = b
    BY BitPlace DEF Words
  <2>2. b \in src[w] => i < nb.max
    BY DEF BitmapInv
  <2>3. nb.max \in Nat
    BY BitmapFacts
  <2> HIDE DEF i
  <2>4. b \in src[w] => i \in 0..nb.max-1
    BY <2>1, <2>2, <2>3
  <2>5. b \in src[w] <=> i \in s
    BY <1>1, <2>1, <2>4
  <2>. QED
    BY <2>5 DEF i
<1>. QED
  BY <1>1, <1>2

LEMMA WholeInv ==
    ASSUME BitmapInv, Merge \/ BulkUnset \/ Copy
    PROVE  BitmapInv'
<1> DEFINE s == Bits(src, nb.max)
           W == 0..NWords-1
<1>1. /\ s \in SUBSET (0..nb.max-1)
      /\ \A w \in Words, b \in AllOnes : b \in src[w] <=> w * WordBits + b \in s
  <2> HIDE DEF s
  <2>1. s = Bits(src, nb.max)
    BY DEF s
  <2>. QED
    BY <2>1, SourceBits
<1>2. /\ used \in SUBSET (0..nb.max-1) /\ nb.hint \in Nat
      /\ nb.map \in [Words -> Word] /\ src \in [Words -> Word]
      /\ \A w \in Words, b \in AllOnes : b \in nb.map[w] <=> w * WordBits + b \in used
      /\ \A w \in Words : nb.map[w] \subseteq AllOnes /\ src[w] \subseteq AllOnes
  BY BitmapFacts
<1>3. \A i \in 0..nb.max-1 : \E w \in Words, b \in AllOnes : i = w * WordBits + b
  BY PlaceOf
<1>4. Exclusive <=> used \cap s = {}
  <2>1. Exclusive <=> \A w \in Words : \A b \in AllOnes : ~(b \in nb.map[w] /\ b \in src[w])
    <3>1. ASSUME NEW w \in Words
          PROVE  (SymDiff(nb.map[w], src[w]) \cap src[w]) = src[w]
                   <=> \A b \in AllOnes : ~(b \in nb.map[w] /\ b \in src[w])
      BY <1>2 DEF SymDiff
    <3>. QED
      BY <3>1 DEF Exclusive, Words
  <2>2. used \cap s = {} <=> \A w \in Words : \A b \in AllOnes : ~(b \in nb.map[w] /\ b \in src[w])
    <3> HIDE DEF s
    <3>1. ASSUME NEW i \in used \cap s
          PROVE  \E w \in Words, b \in AllOnes : b \in nb.map[w] /\ b \in src[w]
      BY <1>1, <1>2, <1>3
    <3>2. ASSUME NEW w \in Words, NEW b \in AllOnes, b \in nb.map[w], b \in src[w]
          PROVE  w * WordBits + b \in used \cap s
      BY <1>1, <1>2, <3>2
    <3>. QED
      BY <3>1, <3>2
  <2>. QED
    BY <2>1, <2>2
<1>5. Shared <=> s \subseteq used
  <2>1. Shared <=> \A w \in Words : \A b \in AllOnes : b \in src[w] => b \in nb.map[w]
    <3>1. ASSUME NEW w \in Words
          PROVE  (nb.map[w] \cap src[w]) = src[w]
                   <=> \A b \in AllOnes : b \in src[w] => b \in nb.map[w]
      BY <1>2
    <3>. QED
      BY <3>1 DEF Shared, Words
  <2>2. s \subseteq used <=> \A w \in Words : \A b \in AllOnes : b \in src[w] => b \in nb.map[w]
    <3> HIDE DEF s
    <3>1. ASSUME NEW i \in s, i \notin used
          PROVE  \E w \in Words, b \in AllOnes : b \notin nb.map[w] /\ b \in src[w]
      <4>1. PICK w \in Words, b \in AllOnes : i = w * WordBits + b
        BY <1>1, <1>3
      <4>. QED
        BY <1>1, <1>2, <3>1, <4>1
    <3>2. ASSUME NEW w \in Words, NEW b \in AllOnes, b \notin nb.map[w], b \in src[w]
          PROVE  w * WordBits + b \in s /\ w * WordBits + b \notin used
      BY <1>1, <1>2, <3>2
    <3>. QED
      BY <3>1, <3>2
  <2>. QED
    BY <2>1, <2>2
<1>6. CASE Merge
  <2>1. CASE Exclusive
    <3> DEFINE M == [w \in 0..NWords-1 |-> nb.map[w] \cup src[w]]
               now == used \cup s
    <3>1. Succeeds("merge", M, now, used \cap s = {})
      BY <1>6, <2>1 DEF Merge
    <3>2. /\ nb' = [max |-> nb.max, hint |-> nb.hint, map |-> M]
          /\ used' = now /\ src' = src /\ last'.ok = TRUE
      <4> HIDE DEF M, now, s
      <4>. QED
        BY <1>4, <2>1, <3>1, SucceedFacts
    <3>3. M \in [Words -> Word] /\ now \in SUBSET (0..nb.max-1) /\ Agrees(M, now)
      <4> HIDE DEF s
      <4>. QED
        BY <1>1, <1>2 DEF Words, Word, AllOnes, Agrees
    <3> HIDE DEF M, now, s
    <3>. QED
      BY <1>2, <3>2, <3>3, BitmapKeeps
  <2>2. CASE ~Exclusive
    <3>1. Fails("merge", "EALREADY", used \cap s # {})
      BY <1>6, <2>2 DEF Merge
    <3>. QED
      BY <1>4, <2>2, <3>1, FailKeeps
  <2>. QED
    BY <2>1, <2>2
<1>7. CASE BulkUnset
  <2>1. CASE Shared
    <3> DEFINE M == [w \in 0..NWords-1 |-> nb.map[w] \ src[w]]
               now == used \ s
    <3>1. Succeeds("bulk_unset", M, now, s \subseteq used)
      BY <1>7, <2>1 DEF BulkUnset
    <3>2. /\ nb' = [max |-> nb.max, hint |-> nb.hint, map |-> M]
          /\ used' = now /\ src' = src /\ last'.ok = TRUE
      <4> HIDE DEF M, now, s
      <4>. QED
        BY <1>5, <2>1, <3>1, SucceedFacts
    <3>3. M \in [Words -> Word] /\ now \in SUBSET (0..nb.max-1) /\ Agrees(M, now)
      <4> HIDE DEF s
      <4>. QED
        BY <1>1, <1>2 DEF Words, Word, AllOnes, Agrees
    <3> HIDE DEF M, now, s
    <3>. QED
      BY <1>2, <3>2, <3>3, BitmapKeeps
  <2>2. CASE ~Shared
    <3>1. Fails("bulk_unset", "ENOENT", ~(s \subseteq used))
      BY <1>7, <2>2 DEF BulkUnset
    <3>. QED
      BY <1>5, <2>2, <3>1, FailKeeps
  <2>. QED
    BY <2>1, <2>2
<1>8. CASE Copy
  <2>1. Succeeds("copy", src, s, TRUE)
    BY <1>8 DEF Copy
  <2> HIDE DEF s
  <2>2. /\ nb' = [max |-> nb.max, hint |-> nb.hint, map |-> src]
        /\ used' = s /\ src' = src /\ last'.ok = TRUE
    BY <2>1, SucceedFacts
  <2>3. Agrees(src, s)
    BY <1>1 DEF Agrees
  <2>. QED
    BY <1>1, <1>2, <2>2, <2>3, BitmapKeeps
<1>. QED
  BY <1>6, <1>7, <1>8

\* Which bits are below the limit: those of the words in use, less the bits of
\* the last one past it.
LEMMA InLimit ==
    ASSUME BitmapInv
    PROVE  /\ max_word \in 1..NWords
           /\ \A w \in Words, b \in AllOnes :
                w * WordBits + b < nb.max <=> w < max_word /\ b \notin PastLimit(w)
<1> DEFINE m == WordBits
           x == nb.max
           v == x + m - 1
           mw == v \div m
           q == x \div m
           r == x % m
<1>0. /\ m \in Nat \ {0} /\ NWords \in Nat \ {0} /\ x \in Nat \ {0} /\ x <= NWords * m
      /\ NWords * m \in Nat
  BY BitmapFacts
<1>1. max_word = mw
  BY DEF max_word, NumWords
<1>2. /\ x = q * m + r /\ q \in Nat /\ r \in 0..(m - 1)
  <2> HIDE DEF x, m
  <2>1. x = m * q + r /\ q \in Nat /\ r \in 0..(m - 1)
    BY <1>0, Quotient
  <2>2. m * q = q * m
    BY <1>0, <2>1
  <2>. QED
    BY <2>1, <2>2
<1> HIDE DEF m, x, q, r
<1>3. v \in Nat
  BY <1>0
<1>4. mw \in Nat /\ \A a \in Nat : mw < a <=> v < a * m
  <2> HIDE DEF v
  <2>. QED
    BY <1>0, <1>3, Quotient
<1>5. ASSUME NEW w \in Nat PROVE w < mw <=> w * m < x
  <2>1. mw < w + 1 <=> v < (w + 1) * m
    BY <1>4
  <2>2. (w + 1) * m = w * m + m /\ w * m \in Nat
    BY <1>0
  <2> HIDE DEF mw
  <2>. QED
    BY <1>0, <1>4, <2>1, <2>2 DEF v
<1> HIDE DEF mw, v
<1>6. mw \in 1..NWords
  <2>1. 0 < mw
    BY <1>0, <1>5
  <2>2. ~(NWords < mw)
    BY <1>0, <1>5
  <2>. QED
    BY <1>0, <1>4, <2>1, <2>2
<1>7. ASSUME NEW w \in Words, NEW b \in AllOnes
      PROVE  w * m + b < x <=> w < mw /\ b \notin PastLimit(w)
  <2> DEFINE p == w * m
  <2>0. w \in Nat /\ b \in Nat /\ b < m /\ p \in Nat
    BY <1>0 DEF Words, AllOnes, m
  <2>1. w < mw <=> p < x
    BY <1>5, <2>0
  <2>2. w + 1 < mw <=> p + m < x
    <3>1. w + 1 < mw <=> (w + 1) * m < x
      BY <1>5, <2>0
    <3>2. (w + 1) * m = p + m
      BY <1>0, <2>0
    <3>. QED
      BY <3>1, <3>2
  <2>3. PastLimit(w) = IF w = mw - 1 /\ r # 0 THEN {c \in AllOnes : c >= r} ELSE {}
    BY <1>1 DEF PastLimit, m, x, r
  <2>4. CASE ~(w < mw)
    <3> HIDE DEF p
    <3>. QED
      BY <1>0, <2>0, <2>1, <2>4 DEF p
  <2>5. CASE w + 1 < mw
    <3>1. PastLimit(w) = {}
      BY <1>4, <2>0, <2>3, <2>5
    <3>2. p + b < x /\ w < mw
      <4> HIDE DEF p
      <4>. QED
        BY <1>0, <1>4, <2>0, <2>2, <2>5
    <3>. QED
      BY <3>1, <3>2
  <2>6. CASE w < mw /\ ~(w + 1 < mw)
    <3>1. w = mw - 1
      BY <1>4, <2>0, <2>6
    <3>2. p < x /\ x <= p + m
      <4> HIDE DEF p
      <4>. QED
        BY <1>0, <2>0, <2>1, <2>2, <2>6
    <3>3. CASE r = 0
      <4>1. PastLimit(w) = {}
        BY <2>3, <3>3
      <4>2. x = p + m
        <5>1. x = q * m /\ w < q
          <6>1. x = q * m /\ q * m \in Nat
            BY <1>0, <1>2, <3>3
          <6>2. ~(q <= w)
            <7>1. q <= w => q * m <= w * m
              BY <1>0, <1>2, <2>0, Products
            <7>. QED
              BY <1>0, <2>0, <3>2, <6>1, <7>1
          <6>. QED
            BY <1>2, <2>0, <6>1, <6>2
        <5>2. (w + 1) * m <= q * m /\ (w + 1) * m = p + m
          <6>1. (w + 1) * m <= q * m
            BY <1>0, <1>2, <2>0, <5>1, Products
          <6>. QED
            BY <1>0, <2>0, <6>1
        <5> HIDE DEF p
        <5>. QED
          BY <1>0, <2>0, <3>2, <5>1, <5>2
      <4> HIDE DEF p
      <4>3. p + b < x
        BY <1>0, <2>0, <4>2
      <4>. QED
        BY <2>6, <4>1, <4>3 DEF p
    <3>4. CASE r # 0
      <4>1. PastLimit(w) = {c \in AllOnes : c >= r}
        BY <2>3, <3>1, <3>4
      <4>2. q = w
        <5>1. ~(w < q)
          <6>1. SUFFICES ASSUME w + 1 <= q PROVE FALSE
            BY <1>2, <2>0
          <6>2. (w + 1) * m <= q * m /\ (w + 1) * m = p + m /\ q * m \in Nat
            <7>1. (w + 1) * m <= q * m
              BY <1>0, <1>2, <2>0, <6>1, Products
            <7>. QED
              BY <1>0, <1>2, <2>0, <7>1
          <6> HIDE DEF p
          <6>. QED
            BY <1>0, <1>2, <2>0, <3>2, <3>4, <6>2
        <5>2. ~(q < w)
          <6>1. SUFFICES ASSUME q + 1 <= w PROVE FALSE
            BY <1>2, <2>0
          <6>2. (q + 1) * m <= w * m /\ (q + 1) * m = q * m + m /\ q * m \in Nat
            <7>1. (q + 1) * m <= w * m
              BY <1>0, <1>2, <2>0, <6>1, Products
            <7>. QED
              BY <1>0, <1>2, <7>1
          <6>. QED
            BY <1>0, <1>2, <2>0, <3>2, <6>2
        <5>. QED
          BY <1>2, <2>0, <5>1, <5>2
      <4>3. x = p + r
        BY <1>2, <4>2
      <4> HIDE DEF p
      <4>4. p + b < x <=> ~(b >= r)
        BY <1>0, <1>2, <2>0, <4>3
      <4>. QED
        BY <2>6, <4>1, <4>4 DEF p
    <3>. QED
      BY <3>3, <3>4
  <2>. QED
    BY <2>4, <2>5, <2>6
<1>. QED
  BY <1>1, <1>6, <1>7 DEF m, x

\* Every word in use is looked at, wherever the search starts.
LEMMA SearchReaches ==
    ASSUME NEW M \in Nat \ {0}, NEW start \in 0..M-1, NEW w \in 0..M-1
    PROVE  /\ \E k \in 0..M-1 : (start + k) % M = w
           /\ \A k \in 0..M-1 : (start + k) % M \in 0..M-1
<1>1. CASE start <= w
  <2>1. w - start \in 0..M-1 /\ start + (w - start) = w
    BY <1>1
  <2>2. w % M = w
    BY SMT
  <2>. QED
    BY <2>1, <2>2
<1>2. CASE ~(start <= w)
  <2> DEFINE k == w - start + M
             s == start + k
  <2>1. k \in 0..M-1 /\ s = w + M
    BY <1>2
  <2>2. (w + M) % M = w
    BY SMT
  <2> HIDE DEF s
  <2>3. s % M = w
    BY <2>1, <2>2
  <2> HIDE DEF k
  <2>4. (start + k) % M = w
    BY <2>3 DEF s
  <2>. QED
    BY <2>1, <2>4
<1>3. \A k \in 0..M-1 : (start + k) % M \in 0..M-1
  OBVIOUS
<1>. QED
  BY <1>1, <1>2, <1>3

LEMMA NbExcept ==
    ASSUME BitmapInv, NEW w \in Words, NEW X, NEW h
    PROVE  /\ [nb EXCEPT !.map[w] = X, !.hint = h] =
                [max |-> nb.max, hint |-> h, map |-> [nb.map EXCEPT ![w] = X]]
           /\ [nb EXCEPT !.map[w] = X] =
                [max |-> nb.max, hint |-> nb.hint, map |-> [nb.map EXCEPT ![w] = X]]
<1> DEFINE A == nb.max
           B == nb.hint
           C == nb.map
           D == [C EXCEPT ![w] = X]
           s == [nb EXCEPT !.map[w] = X]
<1>1. nb = [max |-> A, hint |-> B, map |-> C]
  BY BitmapFacts
<1> HIDE DEF A, B, C
<1>2. s = [max |-> A, hint |-> B, map |-> D]
  BY <1>1, SMT
<1>3. [nb EXCEPT !.map[w] = X, !.hint = h] = [s EXCEPT !.hint = h]
  BY <1>1, SMT
<1> HIDE DEF s, D
<1>4. [s EXCEPT !.hint = h] = [max |-> A, hint |-> h, map |-> D]
  BY <1>2, SMT
<1>5. [nb EXCEPT !.map[w] = X, !.hint = h] = [max |-> A, hint |-> h, map |-> D]
  BY <1>3, <1>4
<1>. QED
  BY <1>2, <1>5 DEF s, A, B, C, D

LEMMA AssignInv ==
    ASSUME BitmapInv, LowestFreeBitAssign
    PROVE  BitmapInv'
<1> DEFINE M == max_word
           start == IF max_word > nb.hint THEN nb.hint ELSE 0
           at(k) == (start + k) % max_word
           Hit(k) == nb.map[at(k)] \cup PastLimit(at(k)) # AllOnes
           hits == {k \in 0..max_word-1 : nb.map[at(k)] \cup PastLimit(at(k)) # AllOnes}
           k0 == CHOOSE k \in hits : \A j \in hits : k <= j
           w == at(k0)
           b == LowestFree(w)
           i == w * WordBits + b
<1>0. /\ M \in 1..NWords /\ NWords \in Nat /\ nb.hint \in Nat /\ nb.max \in Nat
      /\ \A v \in Words, c \in AllOnes :
            v * WordBits + c < nb.max <=> v < M /\ c \notin PastLimit(v)
  BY InLimit, BitmapFacts
<1>1. M \in Nat \ {0} /\ start \in 0..M-1
  BY <1>0
<1>2. /\ used \in SUBSET (0..nb.max-1)
      /\ \A v \in Words, c \in AllOnes : c \in nb.map[v] <=> v * WordBits + c \in used
      /\ \A v \in Words : nb.map[v] \subseteq AllOnes
  BY BitmapFacts
<1>3. \A v : PastLimit(v) \subseteq AllOnes
  BY DEF PastLimit
<1>4. CASE hits = {}
  <2>1. Fails("assign", "ENOSPC", used = 0..nb.max-1)
    BY <1>4 DEF LowestFreeBitAssign
  <2>2. ASSUME NEW j \in 0..nb.max-1 PROVE j \in used
    <3> DEFINE v == WordIdx(j)
               c == j % WordBits
    <3>1. v \in Words /\ c \in AllOnes /\ j = v * WordBits + c /\ j < nb.max
      BY <1>0, PlaceOf
    <3> HIDE DEF v, c
    <3>2. v < M /\ c \notin PastLimit(v) /\ v \in 0..M-1
      BY <1>0, <3>1 DEF Words
    <3>3. PICK k \in 0..M-1 : (start + k) % M = v
      <4> HIDE DEF M, start
      <4>. QED
        BY <1>1, <3>2, SearchReaches
    <3>4. nb.map[v] \cup PastLimit(v) = AllOnes
      BY <1>4, <3>3
    <3>5. c \in nb.map[v]
      BY <3>1, <3>2, <3>4
    <3>. QED
      BY <1>2, <3>1, <3>5
  <2>3. used = 0..nb.max-1
    BY <1>2, <2>2
  <2>. QED
    BY <2>1, <2>3, FailKeeps
<1>5. CASE hits # {}
  <2>1. /\ nb' = [nb EXCEPT !.map[w] = AssignWord(w, b), !.hint = w]
        /\ used' = used \cup {i} /\ src' = src
        /\ last'.ok = (i < nb.max /\ i \notin used)
    <3>1. /\ nb' = [nb EXCEPT !.map[w] = AssignWord(w, LowestFree(w)), !.hint = w]
          /\ used' = used \cup {i}
          /\ last' = [op |-> "assign", rc |-> "ok", idx |-> i,
                      ok |-> i < nb.max /\ i \notin used]
          /\ UNCHANGED src
      BY <1>5, Zenon DEF LowestFreeBitAssign
    <3> DEFINE isnew == i < nb.max /\ i \notin used
               at_bit == i
    <3>2. last' = [op |-> "assign", rc |-> "ok", idx |-> at_bit, ok |-> isnew]
      BY <3>1
    <3> HIDE DEF isnew, at_bit
    <3>3. last'.ok = isnew
      BY <3>2
    <3>. QED
      BY <3>1, <3>3, Zenon DEF isnew
  <2>2. k0 \in hits
    <3>1. hits \in SUBSET Nat
      BY <1>1
    <3> HIDE DEF hits
    <3>2. \E k \in hits : \A j \in hits : k <= j
      BY <1>5, <3>1, SmallestMember
    <3>. QED
      BY <3>2
  <2>3. k0 \in 0..M-1 /\ Hit(k0)
    <3> HIDE DEF k0
    <3>. QED
      BY <2>2
  <2> HIDE DEF k0
  <2>4. w \in 0..M-1 /\ w \in Words /\ w \in Nat /\ nb.map[w] \cup PastLimit(w) # AllOnes
    <3>1. w \in 0..M-1
      BY <1>1, <2>3
    <3> HIDE DEF w
    <3>2. w \in Words /\ w \in Nat
      BY <1>0, <3>1 DEF Words
    <3>. QED
      BY <2>3, <3>1, <3>2 DEF w
  <2> HIDE DEF w
  <2>5. b \in AllOnes /\ b \notin nb.map[w] /\ b \notin PastLimit(w)
    <3> DEFINE free == AllOnes \ (nb.map[w] \cup PastLimit(w))
    <3>1. free # {} /\ free \in SUBSET Nat
      <4>1. AllOnes \subseteq Nat
        BY DEF AllOnes
      <4>. QED
        BY <1>2, <1>3, <2>4, <4>1
    <3>2. b = CHOOSE c \in free : \A d \in free : c <= d
      BY DEF LowestFree
    <3> HIDE DEF free
    <3>3. \E c \in free : \A d \in free : c <= d
      BY <3>1, SmallestMember
    <3>4. b \in free
      BY <3>2, <3>3
    <3>. QED
      BY <3>4 DEF free
  <2> HIDE DEF b
  <2>6. i \in Nat /\ i < nb.max /\ i \notin used /\ WordIdx(i) = w
    <3>1. w < M
      BY <1>1, <2>4
    <3>2. i \in Nat /\ WordIdx(i) = w
      BY <2>4, <2>5, BitPlace
    <3>. QED
      BY <1>0, <1>2, <2>4, <2>5, <3>1, <3>2
  <2> DEFINE X == AssignWord(w, b)
             now == used \cup {i}
  <2>7. X = nb.map[w] \cup {b}
    <3>1. nb.map[w] \cap PastLimit(w) = {}
      <4>1. ASSUME NEW c \in AllOnes, c \in nb.map[w] PROVE c \notin PastLimit(w)
        <5>1. w * WordBits + c \in used
          BY <1>2, <2>4, <4>1
        <5>2. \A j \in used : j < nb.max
          BY <1>0, <1>2
        <5>. QED
          BY <1>0, <2>4, <5>1, <5>2
      <4>. QED
        BY <1>3, <4>1
    <3>. QED
      BY <2>5, <3>1 DEF AssignWord
  <2>8. X \in SUBSET AllOnes /\ now \in SUBSET (0..nb.max-1)
    <3> HIDE DEF X, i
    <3>. QED
      BY <1>0, <1>2, <2>4, <2>5, <2>6, <2>7
  <2>9. \A c \in AllOnes : c \in X <=> w * WordBits + c \in now
    <3>1. ASSUME NEW c \in AllOnes PROVE c \in X <=> w * WordBits + c \in now
      <4>1. w * WordBits + c = i <=> c = b
        <5>1. ((w * WordBits + c) % WordBits) = c /\ (i % WordBits) = b
          BY <2>4, <2>5, BitPlace
        <5>. QED
          BY <5>1
      <4>2. c \in nb.map[w] <=> w * WordBits + c \in used
        BY <1>2, <2>4
      <4> HIDE DEF i, X
      <4>. QED
        BY <2>7, <4>1, <4>2
    <3>. QED
      BY <3>1
  <2> HIDE DEF i, X
  <2>10. \A j \in 0..nb.max-1 : WordIdx(j) # w => (j \in now <=> j \in used)
    BY <2>6
  <2>11. last'.ok = TRUE
    BY <2>1, <2>6
  <2>12. nb' = [max |-> nb.max, hint |-> w, map |-> [nb.map EXCEPT ![w] = X]]
    BY <2>1, <2>4, NbExcept DEF X
  <2>13. used' = now /\ src' = src
    BY <2>1
  <2> HIDE DEF now
  <2>. QED
    BY <2>4, <2>8, <2>9, <2>10, <2>11, <2>12, <2>13, WordKeeps
<1>. QED
  BY <1>4, <1>5

LEMMA ReleaseInv ==
    ASSUME BitmapInv, LowestUsedBitRelease
    PROVE  BitmapInv'
<1> DEFINE ws == {w \in 0..NWords-1 : nb.map[w] # {}}
           w == CHOOSE x \in ws : \A y \in ws : x <= y
           b == CHOOSE x \in nb.map[w] : \A y \in nb.map[w] : x <= y
           i == w * WordBits + b
<1>0. /\ NWords \in Nat /\ WordBits \in Nat \ {0}
      /\ used \in SUBSET (0..nb.max-1) /\ nb.max \in Nat /\ nb.hint \in Nat
      /\ \A v \in Words, c \in AllOnes : c \in nb.map[v] <=> v * WordBits + c \in used
      /\ \A v \in Words : nb.map[v] \subseteq AllOnes
  BY BitmapFacts
<1>1. ASSUME NEW j \in used
      PROVE  \E v \in ws : \E c \in nb.map[v] : j = v * WordBits + c
  <2>1. j \in 0..nb.max-1
    BY <1>0
  <2>2. /\ WordIdx(j) \in Words /\ j = WordIdx(j) * WordBits + (j % WordBits)
        /\ (j % WordBits) \in nb.map[WordIdx(j)]
    BY <2>1, PlaceOf
  <2>3. WordIdx(j) \in ws
    BY <2>2 DEF Words
  <2>. QED
    BY <2>2, <2>3
<1>4. CASE ws = {}
  <2>1. Fails("release", "ENOENT", used = {})
    BY <1>4 DEF LowestUsedBitRelease
  <2>2. used = {}
    BY <1>1, <1>4
  <2>. QED
    BY <2>1, <2>2, FailKeeps
<1>5. CASE ws # {}
  <2>1. /\ nb' = [nb EXCEPT !.map[w] = nb.map[w] \ {b}]
        /\ used' = used \ {i} /\ src' = src
        /\ last'.ok = (i \in used /\ \A j \in used : i <= j)
    <3>1. /\ nb' = [nb EXCEPT !.map[w] = @ \ {b}]
          /\ used' = used \ {i}
          /\ last' = [op |-> "release", rc |-> "ok", idx |-> i,
                      ok |-> i \in used /\ \A j \in used : i <= j]
          /\ UNCHANGED src
      BY <1>5, Zenon DEF LowestUsedBitRelease
    <3> DEFINE lowest == i \in used /\ \A j \in used : i <= j
               at_bit == i
    <3>2. last' = [op |-> "release", rc |-> "ok", idx |-> at_bit, ok |-> lowest]
      BY <3>1
    <3> HIDE DEF lowest, at_bit
    <3>3. last'.ok = lowest
      BY <3>2
    <3>. QED
      BY <3>1, <3>3, Zenon DEF lowest
  <2>2. w \in ws /\ \A y \in ws : w <= y
    <3>1. ws \in SUBSET Nat
      BY <1>0
    <3> HIDE DEF ws
    <3>2. \E k \in ws : \A j \in ws : k <= j
      BY <1>5, <3>1, SmallestMember
    <3>. QED
      BY <3>2
  <2> HIDE DEF w
  <2>3. w \in Words /\ nb.map[w] # {} /\ w \in Nat /\ \A v \in ws : v \in Nat /\ v \in Words
    BY <1>0, <2>2 DEF Words
  <2>4. b \in nb.map[w] /\ b \in AllOnes /\ \A y \in nb.map[w] : b <= y
    <3> DEFINE S == nb.map[w]
    <3>1. S \in SUBSET Nat /\ S # {} /\ S \subseteq AllOnes
      BY <1>0, <2>3 DEF AllOnes
    <3> HIDE DEF S
    <3>2. \E k \in S : \A j \in S : k <= j
      BY <3>1, SmallestMember
    <3>3. b = CHOOSE x \in S : \A y \in S : x <= y
      BY DEF S
    <3>4. b \in S /\ \A y \in S : b <= y
      <4> HIDE DEF b
      <4>. QED
        BY <3>2, <3>3
    <3>. QED
      BY <3>1, <3>4 DEF S
  <2> HIDE DEF b
  <2>5. i \in used /\ i \in Nat /\ WordIdx(i) = w
    BY <1>0, <2>3, <2>4, BitPlace
  <2>6. ASSUME NEW j \in used PROVE i <= j
    <3>0. PICK v \in ws : \E c \in nb.map[v] : j = v * WordBits + c
      BY <1>1
    <3>1. PICK c \in nb.map[v] : j = v * WordBits + c
      BY <3>0
    <3> DEFINE m == WordBits
    <3>2. /\ v \in Nat /\ w \in Nat /\ w <= v /\ c \in Nat /\ b \in Nat /\ b < m /\ m \in Nat \ {0}
          /\ c \in AllOnes
      BY <1>0, <2>2, <2>3, <2>4 DEF AllOnes
    <3> HIDE DEF m
    <3>3. CASE v = w
      <4>1. b <= c
        BY <2>4, <3>3
      <4>2. w * m \in Nat
        BY <3>2
      <4>. QED
        BY <3>1, <3>2, <3>3, <4>1, <4>2 DEF m
    <3>4. CASE v # w
      <4>1. w + 1 <= v
        BY <3>2, <3>4
      <4>2. (w + 1) * m <= v * m /\ (w + 1) * m = w * m + m /\ w * m \in Nat /\ v * m \in Nat
        <5>1. (w + 1) * m <= v * m
          BY <3>2, <4>1, Products
        <5>. QED
          BY <3>2, <5>1
      <4>3. w * m + b <= v * m + c
        BY <3>2, <4>2
      <4>. QED
        BY <3>1, <4>3 DEF m
    <3>. QED
      BY <3>3, <3>4
  <2>7. last'.ok = TRUE
    BY <2>1, <2>5, <2>6
  <2> DEFINE X == nb.map[w] \ {b}
             now == used \ {i}
  <2>8. X \in SUBSET AllOnes /\ now \in SUBSET (0..nb.max-1)
    BY <1>0, <2>3
  <2>9. \A c \in AllOnes : c \in X <=> w * WordBits + c \in now
    <3>1. ASSUME NEW c \in AllOnes PROVE c \in X <=> w * WordBits + c \in now
      <4>1. w * WordBits + c = i <=> c = b
        <5>1. ((w * WordBits + c) % WordBits) = c /\ (i % WordBits) = b
          BY <2>3, <2>4, BitPlace
        <5>. QED
          BY <5>1
      <4>2. c \in nb.map[w] <=> w * WordBits + c \in used
        BY <1>0, <2>3
      <4> HIDE DEF i
      <4>. QED
        BY <4>1, <4>2
    <3>. QED
      BY <3>1
  <2> HIDE DEF i
  <2>10. \A j \in 0..nb.max-1 : WordIdx(j) # w => (j \in now <=> j \in used)
    BY <2>5
  <2>12. nb' = [max |-> nb.max, hint |-> nb.hint, map |-> [nb.map EXCEPT ![w] = X]]
    BY <2>1, <2>3, NbExcept
  <2>13. used' = now /\ src' = src
    BY <2>1
  <2> HIDE DEF now, X
  <2>. QED
    BY <1>0, <2>3, <2>7, <2>8, <2>9, <2>10, <2>12, <2>13, WordKeeps
<1>. QED
  BY <1>4, <1>5

LEMMA BitmapInvInit == BitmapInit => BitmapInv
<1> SUFFICES ASSUME BitmapInit PROVE BitmapInv
  OBVIOUS
<1>1. PICK n \in BitmapSizes :
        /\ nb = [max |-> n, hint |-> 0, map |-> [w \in 0..NWords-1 |-> {}]]
        /\ src \in [0..NWords-1 -> Word]
        /\ \A w \in 0..NWords-1 : \A b \in src[w] : w * WordBits + b < n
  BY DEF BitmapInit
<1>2. n \in 1..NWords * WordBits
  BY BitmapAssumption
<1>3. used = {} /\ last.ok = TRUE
  BY DEF BitmapInit, Nop
<1>. QED
  BY <1>1, <1>2, <1>3 DEF BitmapInv, Agrees, Words, Word

LEMMA BitmapInvNext == BitmapInv /\ [BitmapNext]_bitmapVars => BitmapInv'
<1> SUFFICES ASSUME BitmapInv, [BitmapNext]_bitmapVars PROVE BitmapInv'
  OBVIOUS
<1>1. ASSUME NEW i \in 0..NWords * WordBits, Set(i) PROVE BitmapInv'
  BY <1>1, SetKept
<1>2. ASSUME NEW i \in 0..NWords * WordBits, Unset(i) PROVE BitmapInv'
  BY <1>2, UnsetInv
<1>3. ASSUME NEW i \in 0..nb.max-1, NEW width \in Widths, NEW e \in BOOLEAN, RangeSet(i, width, e)
      PROVE  BitmapInv'
  BY <1>3, RangeInv
<1>4. ASSUME NEW i \in 0..nb.max-1, NEW width \in Widths, RangeUnset(i, width) PROVE BitmapInv'
  BY <1>4, RangeInv
<1>5. ASSUME Merge \/ BulkUnset \/ Copy PROVE BitmapInv'
  BY <1>5, WholeInv
<1>6. CASE LowestFreeBitAssign
  BY <1>6, AssignInv
<1>7. CASE LowestUsedBitRelease
  BY <1>7, ReleaseInv
<1>8. CASE UNCHANGED bitmapVars
  BY <1>8 DEF bitmapVars, BitmapInv, Agrees
<1>. QED
  BY <1>1, <1>2, <1>3, <1>4, <1>5, <1>6, <1>7, <1>8 DEF BitmapNext

\* The bits of a word are as many as the bits given out that lie in it.
LEMMA WordCount ==
    ASSUME BitmapInv, NEW w \in Words, NEW T, T = {i \in used : WordIdx(i) = w}
    PROVE  IsFiniteSet(T) /\ Cardinality(T) = Cardinality(nb.map[w]) /\ Cardinality(T) \in Nat
<1> DEFINE S == nb.map[w]
           F == [b \in S |-> w * WordBits + b]
<1>0. /\ used \in SUBSET (0..nb.max-1)
      /\ \A v \in Words, c \in AllOnes : c \in nb.map[v] <=> v * WordBits + c \in used
      /\ S \subseteq AllOnes /\ w \in Nat /\ WordBits \in Nat
  BY BitmapFacts DEF Words
<1>1. IsFiniteSet(S)
  <2>1. IsFiniteSet(AllOnes)
    <3> DEFINE m == WordBits - 1
               zero == 0
    <3>1. m \in Int /\ zero \in Int
      BY <1>0
    <3> HIDE DEF m, zero
    <3>2. IsFiniteSet(zero..m)
      BY <3>1, FS_Interval
    <3>. QED
      BY <3>2 DEF m, zero, AllOnes
  <2> HIDE DEF S
  <2>. QED
    BY <1>0, <2>1, FS_Subset
<1>2. \A b \in S : w * WordBits + b \in T /\ (w * WordBits + b) % WordBits = b
  BY <1>0, BitPlace
<1>3. ASSUME NEW i \in T PROVE \E b \in S : w * WordBits + b = i
  <2>1. i \in 0..nb.max-1 /\ WordIdx(i) = w /\ i \in used
    BY <1>0
  <2>2. (i % WordBits) \in S /\ i = w * WordBits + (i % WordBits)
    BY <2>1, PlaceOf
  <2>. QED
    BY <2>2
<1>4. F \in [S -> T] /\ (\A b \in S : F[b] = w * WordBits + b)
  <2> HIDE DEF S
  <2>. QED
    BY <1>2
<1>5. \A b, c \in S : F[b] = F[c] => b = c
  <2> HIDE DEF S, F
  <2>. QED
    BY <1>2, <1>4
<1>6. \A i \in T : \E b \in S : F[b] = i
  <2> HIDE DEF S, F
  <2>. QED
    BY <1>3, <1>4
<1>7. ExistsBijection(S, T)
  <2> HIDE DEF S, F
  <2>. QED
    BY <1>4, <1>5, <1>6 DEF ExistsBijection, Bijection, Injection, Surjection, IsInjective
<1> HIDE DEF S
<1>8. IsFiniteSet(T) /\ Cardinality(T) = Cardinality(S)
  BY <1>1, <1>7, FS_Bijection
<1>9. Cardinality(S) \in Nat
  BY <1>1, FS_CardinalityType
<1>. QED
  BY <1>8, <1>9 DEF S

\* niova_bitmap_inuse() is the number of bits given out.
LEMMA InUseCount ==
    ASSUME BitmapInv
    PROVE  inuse = Cardinality(used) /\ IsFiniteSet(used) /\ Cardinality(used) \in Nat
<1> DEFINE D == 0..max_word-1
           N == Nat
           zero == 0
           g == [w \in D |-> [b \in N |-> Cardinality(nb.map[w]) + b]]
           c == [t \in SUBSET D |-> CHOOSE x \in t : TRUE]
           IsFold(it) == it = [t \in SUBSET D |->
                                 IF t = {} THEN 0
                                 ELSE Cardinality(nb.map[CHOOSE x \in t : TRUE])
                                        + it[t \ {CHOOSE x \in t : TRUE}]]
           jt == CHOOSE it : IsFold(it)
           In(t) == {i \in used : WordIdx(i) \in t}
<1>1. /\ max_word \in 1..NWords /\ NWords \in Nat /\ D \subseteq Words /\ IsFiniteSet(D)
      /\ used \in SUBSET (0..nb.max-1) /\ nb.max \in Nat
  <2>1. max_word \in 1..NWords /\ NWords \in Nat
    BY InLimit, BitmapFacts
  <2>2. D \subseteq Words
    <3> HIDE DEF max_word
    <3>. QED
      BY <2>1 DEF Words
  <2>3. IsFiniteSet(D)
    BY <2>1, FS_Interval
  <2>. QED
    BY <2>1, <2>2, <2>3, BitmapFacts
<1> HIDE DEF D
<1>2. \A w \in D : Cardinality(nb.map[w]) \in Nat
  BY <1>1, WordCount
<1>3. Steps(g, D, N)
  <2>1. \A w \in D : \A b \in N : Cardinality(nb.map[w]) + b \in N
    BY <1>2
  <2>. QED
    BY <2>1 DEF Steps
<1>4. Chooses(c, D) /\ \A t \in SUBSET D : c[t] = CHOOSE x \in t : TRUE
  BY DEF Chooses
<1>5. PICK it \in [SUBSET D -> N] : TakesOut(it, zero, g, c, D)
  <2>1. zero \in N
    OBVIOUS
  <2> HIDE DEF g, c, N, zero
  <2>. QED
    BY <1>1, <1>3, <1>4, <2>1, SetRecursionExists
<1>6. \A t \in SUBSET D :
         it[t] = IF t = {} THEN 0 ELSE Cardinality(nb.map[CHOOSE x \in t : TRUE])
                                         + it[t \ {CHOOSE x \in t : TRUE}]
  <2>1. it[{}] = 0
    BY <1>5 DEF TakesOut
  <2>2. ASSUME NEW t \in SUBSET D, t # {}
        PROVE  it[t] = Cardinality(nb.map[c[t]]) + it[t \ {c[t]}]
    <3>1. it[t] = g[c[t]][it[t \ {c[t]}]]
      BY <1>5, <2>2 DEF TakesOut
    <3>2. c[t] \in D /\ it[t \ {c[t]}] \in N
      <4> HIDE DEF c, N
      <4>. QED
        BY <1>4, <1>5, <2>2 DEF Chooses
    <3> HIDE DEF c
    <3>. QED
      BY <3>1, <3>2
  <2> HIDE DEF c
  <2>. QED
    BY <1>4, <2>1, <2>2
<1>7. IsFold(it)
  BY <1>5, <1>6
<1>8. IsFold(jt)
  <2> HIDE DEF IsFold
  <2>. QED
    BY <1>7
<1>9. inuse = jt[D]
  BY DEF inuse, MapThenSumSet, MapThenFoldSet, D
<1>10. /\ jt[{}] = 0
       /\ \A t \in SUBSET D : t # {} =>
            \E x \in t : jt[t] = Cardinality(nb.map[x]) + jt[t \ {x}]
  <2>1. \A t \in SUBSET D :
           jt[t] = IF t = {} THEN 0 ELSE Cardinality(nb.map[CHOOSE x \in t : TRUE])
                                         + jt[t \ {CHOOSE x \in t : TRUE}]
    <3> HIDE DEF jt
    <3>. QED
      BY <1>8
  <2> HIDE DEF jt
  <2>2. \A t \in SUBSET D : t # {} => (CHOOSE x \in t : TRUE) \in t
    OBVIOUS
  <2>. QED
    BY <2>1, <2>2
<1> HIDE DEF jt
<1> DEFINE Good == {k \in Nat : \A t \in SUBSET D : Cardinality(t) = k =>
                       /\ IsFiniteSet(In(t)) /\ Cardinality(In(t)) \in Nat
                       /\ jt[t] = Cardinality(In(t))}
<1>11. 0 \in Good
  <2>1. SUFFICES ASSUME NEW t \in SUBSET D, Cardinality(t) = 0
                 PROVE  IsFiniteSet(In(t)) /\ Cardinality(In(t)) = 0 /\ jt[t] = 0
    OBVIOUS
  <2>2. t = {}
    BY <1>1, <2>1, FS_Subset, FS_EmptySet
  <2>3. In(t) = {}
    BY <2>2
  <2>. QED
    BY <1>10, <2>2, <2>3, FS_EmptySet
<1>12. ASSUME NEW k \in Nat, k \in Good PROVE k + 1 \in Good
  <2>1. SUFFICES ASSUME NEW t \in SUBSET D, Cardinality(t) = k + 1
                 PROVE  /\ IsFiniteSet(In(t)) /\ Cardinality(In(t)) \in Nat
                        /\ jt[t] = Cardinality(In(t))
    OBVIOUS
  <2>2. IsFiniteSet(t) /\ t # {}
    BY <1>1, <2>1, FS_Subset, FS_EmptySet
  <2>3. PICK x \in t : jt[t] = Cardinality(nb.map[x]) + jt[t \ {x}]
    BY <1>10, <2>2
  <2> DEFINE r == t \ {x}
             A == In(r)
             B == {i \in used : WordIdx(i) = x}
  <2>4. r \in SUBSET D /\ Cardinality(r) = k
    BY <2>1, <2>2, FS_RemoveElement, SMTT(20)
  <2>5. IsFiniteSet(A) /\ Cardinality(A) \in Nat /\ jt[r] = Cardinality(A)
    <3> HIDE DEF r, A
    <3>1. IsFiniteSet(In(r)) /\ Cardinality(In(r)) \in Nat /\ jt[r] = Cardinality(In(r))
      BY <1>12, <2>4
    <3>. QED
      BY <3>1 DEF A
  <2>6. IsFiniteSet(B) /\ Cardinality(B) = Cardinality(nb.map[x]) /\ Cardinality(B) \in Nat
    <3>1. x \in Words
      BY <1>1
    <3>. QED
      BY <3>1, WordCount
  <2>7. In(t) = A \cup B /\ A \cap B = {}
    OBVIOUS
  <2>8. jt[t] = Cardinality(B) + Cardinality(A)
    BY <2>3, <2>5, <2>6
  <2> HIDE DEF A, B, In
  <2>9. IsFiniteSet(A \cup B) /\ Cardinality(A \cup B) = Cardinality(A) + Cardinality(B)
    <3>1. Cardinality(A \cap B) = 0
      BY <2>7, FS_EmptySet
    <3>2. /\ IsFiniteSet(A \cup B)
          /\ Cardinality(A \cup B) = Cardinality(A) + Cardinality(B) - Cardinality(A \cap B)
      BY <2>5, <2>6, FS_Union
    <3>. QED
      BY <2>5, <2>6, <3>1, <3>2
  <2>. QED
    BY <2>5, <2>6, <2>7, <2>8, <2>9
<1>13. Cardinality(D) \in Nat
  BY <1>1, FS_CardinalityType
<1>14. Cardinality(D) \in Good
  <2> DEFINE n == Cardinality(D)
  <2> HIDE DEF Good, n
  <2>1. n \in Nat
    BY <1>13 DEF n
  <2>2. \A k \in 0..(n - 1) : k \in Good => k + 1 \in Good
    BY <1>12, <2>1
  <2>3. n \in Good
    BY <1>11, <2>1, <2>2, Induction
  <2>. QED
    BY <2>3 DEF n
<1>15. IsFiniteSet(In(D)) /\ Cardinality(In(D)) \in Nat /\ jt[D] = Cardinality(In(D))
  BY <1>14
<1>16. In(D) = used
  <2>1. ASSUME NEW i \in used PROVE WordIdx(i) \in D
    <3>1. /\ WordIdx(i) \in Words /\ (i % WordBits) \in AllOnes
          /\ i = WordIdx(i) * WordBits + (i % WordBits) /\ i < nb.max
      BY <1>1, PlaceOf
    <3> DEFINE w == WordIdx(i)
               b == i % WordBits
    <3>2. w < max_word
      <4>1. \A v \in Words, d \in AllOnes : v * WordBits + d < nb.max => v < max_word
        BY InLimit
      <4>2. w \in Words /\ b \in AllOnes /\ w * WordBits + b < nb.max
        BY <3>1
      <4> HIDE DEF w, b
      <4>. QED
        BY <4>1, <4>2
    <3> HIDE DEF w, max_word
    <3>3. w \in Words
      BY <3>1 DEF w
    <3>4. w \in D
      BY <1>1, <3>2, <3>3 DEF D, Words
    <3>. QED
      BY <3>4 DEF w
  <2>. QED
    BY <2>1
<1>. QED
  BY <1>9, <1>15, <1>16

\* The maximal runs that end below bit k, and the calls that report them.
Runs(k) == {r \in used \X (1..nb.max) :
              /\ r[1]..(r[1] + r[2] - 1) \subseteq used
              /\ r[1] - 1 \notin used /\ r[1] + r[2] \notin used
              /\ r[1] + r[2] < k}
Calls == Seq(Nat \X Nat)
IterStates == [idx : Int, len : Nat, calls : Calls]
Reports(calls, k) ==
    Range(calls) = Runs(k) /\ IsFiniteSet(Runs(k)) /\ Len(calls) = Cardinality(Runs(k))
InRun(r, k) ==
    /\ r.idx \in 0..k-1 /\ r.len \in 1..k /\ r.idx + r.len = k
    /\ r.idx..(k - 1) \subseteq used /\ r.idx - 1 \notin used
Iterated(r, k) ==
    /\ Reports(r.calls, k)
    /\ \/ r.idx = -1 /\ k - 1 \notin used
       \/ InRun(r, k)

LEMMA RunFacts ==
    ASSUME BitmapInv, NEW r \in used \X (1..nb.max)
    PROVE  /\ r = <<r[1], r[2]>> /\ r[1] \in used /\ r[1] \in Nat
           /\ r[2] \in 1..nb.max /\ r[1] + r[2] \in Nat
<1>0. used \subseteq Nat /\ nb.max \in Nat
  BY BitmapFacts
<1> DEFINE n == nb.max
<1> HIDE DEF n
<1>1. r \in used \X (1..n) /\ n \in Nat
  BY <1>0 DEF n
<1>2. r = <<r[1], r[2]>> /\ r[1] \in used /\ r[2] \in 1..n
  BY <1>1
<1> DEFINE a == r[1]
           b == r[2]
<1>3. a \in Nat /\ b \in 1..n
  BY <1>0, <1>2
<1> HIDE DEF a, b
<1>4. a + b \in Nat
  BY <1>1, <1>3
<1>. QED
  BY <1>2, <1>3, <1>4 DEF n, a, b

LEMMA NoRunEnds ==
    ASSUME BitmapInv, NEW k \in Nat, k - 1 \notin used \/ k \in used
    PROVE  Runs(k + 1) = Runs(k)
<1>0. used \subseteq Nat
  BY BitmapFacts
<1>1. ASSUME NEW r \in Runs(k + 1) PROVE r[1] + r[2] # k
  <2>1. /\ r[1] \in Nat /\ r[2] \in 1..nb.max /\ r[1]..(r[1] + r[2] - 1) \subseteq used
        /\ r[1] + r[2] \notin used
    BY <1>0, <1>1 DEF Runs
  <2>2. r[1] + r[2] - 1 \in used
    BY <2>1
  <2>. QED
    BY <2>1, <2>2
<1>2. ASSUME NEW r \in used \X (1..nb.max) PROVE r[1] + r[2] \in Nat
  BY RunFacts
<1>. QED
  BY <1>1, <1>2 DEF Runs

LEMMA RunEnds ==
    ASSUME BitmapInv, NEW k \in 1..nb.max, k \notin used, NEW a \in 0..k-1, NEW l \in 1..k,
           a + l = k, a..(k - 1) \subseteq used, a - 1 \notin used
    PROVE  Runs(k + 1) = Runs(k) \cup {<<a, l>>} /\ <<a, l>> \notin Runs(k)
<1>0. used \subseteq Nat /\ a \in used /\ l \in 1..nb.max /\ nb.max \in Nat
  BY BitmapFacts
<1>1. ASSUME NEW r \in Runs(k + 1), r[1] + r[2] = k PROVE r = <<a, l>>
  <2>1. /\ r = <<r[1], r[2]>> /\ r[1] \in Nat /\ r[2] \in 1..nb.max
        /\ r[1]..(r[1] + r[2] - 1) \subseteq used /\ r[1] - 1 \notin used
    <3>1. r \in used \X (1..nb.max)
      BY <1>1 DEF Runs
    <3>2. r[1]..(r[1] + r[2] - 1) \subseteq used /\ r[1] - 1 \notin used
      BY <1>1 DEF Runs
    <3>. QED
      BY <3>1, <3>2, RunFacts
  <2>2. ~(r[1] < a)
    <3>1. r[1] < a => a - 1 \in r[1]..(r[1] + r[2] - 1)
      BY <1>0, <1>1, <2>1
    <3>. QED
      BY <2>1, <3>1
  <2>3. ~(a < r[1])
    <3>1. a < r[1] => r[1] - 1 \in a..(k - 1)
      BY <1>0, <1>1, <2>1
    <3>. QED
      BY <2>1, <3>1
  <2>4. r[1] = a /\ r[2] = l
    BY <1>0, <1>1, <2>1, <2>2, <2>3
  <2>. QED
    BY <2>1, <2>4
<1>2. <<a, l>> \in Runs(k + 1)
  BY <1>0 DEF Runs
<1>3. ASSUME NEW r \in used \X (1..nb.max) PROVE r[1] + r[2] \in Nat
  BY RunFacts
<1>4. \A r : r \in Runs(k + 1) <=> r \in Runs(k) \/ (r \in Runs(k + 1) /\ r[1] + r[2] = k)
  BY <1>3 DEF Runs
<1>5. <<a, l>> \notin Runs(k)
  BY DEF Runs
<1>. QED
  BY <1>1, <1>2, <1>4, <1>5

\* Reporting the run that ends at k.
LEMMA ReportsAppend ==
    ASSUME BitmapInv, NEW k \in 1..nb.max, k \notin used, NEW a \in 0..k-1, NEW l \in 1..k,
           a + l = k, a..(k - 1) \subseteq used, a - 1 \notin used,
           NEW calls \in Calls, Reports(calls, k)
    PROVE  Append(calls, <<a, l>>) \in Calls /\ Reports(Append(calls, <<a, l>>), k + 1)
<1> DEFINE x == <<a, l>>
           c == Append(calls, x)
           n == Len(calls)
<1>1. Runs(k + 1) = Runs(k) \cup {x} /\ x \notin Runs(k)
  BY RunEnds
<1>2. x \in Nat \X Nat
  OBVIOUS
<1> HIDE DEF x
<1>3. /\ c \in Calls /\ n \in Nat /\ Len(c) = n + 1 /\ DOMAIN c = 1..n+1 /\ DOMAIN calls = 1..n
      /\ \A i \in 1..n : c[i] = calls[i]
      /\ c[n + 1] = x
  BY <1>2, AppendProperties, LenProperties DEF Calls
<1> HIDE DEF c, n
<1>4. Range(c) = Range(calls) \cup {x}
  <2>1. ASSUME NEW y \in Range(c) PROVE y \in Range(calls) \cup {x}
    <3>1. PICK i \in 1..n+1 : y = c[i]
      BY <1>3 DEF Range
    <3>2. CASE i \in 1..n
      BY <1>3, <3>1, <3>2 DEF Range
    <3>3. CASE i = n + 1
      BY <1>3, <3>1, <3>3
    <3>. QED
      BY <1>3, <3>2, <3>3
  <2>2. ASSUME NEW y \in Range(calls) PROVE y \in Range(c)
    <3>1. PICK i \in 1..n : y = calls[i]
      BY <1>3 DEF Range
    <3>2. i \in 1..n+1 /\ c[i] = y
      BY <1>3, <3>1
    <3>. QED
      BY <1>3, <3>2 DEF Range
  <2>3. x \in Range(c)
    <3>1. n + 1 \in 1..n+1
      BY <1>3
    <3>. QED
      BY <1>3, <3>1 DEF Range
  <2>. QED
    BY <2>1, <2>2, <2>3
<1>5. IsFiniteSet(Runs(k)) /\ Range(calls) = Runs(k) /\ n = Cardinality(Runs(k))
  BY DEF Reports, n
<1>6. IsFiniteSet(Runs(k + 1)) /\ Cardinality(Runs(k + 1)) = n + 1
  <2> DEFINE S == Runs(k)
  <2> HIDE DEF S
  <2>1. IsFiniteSet(S) /\ x \notin S /\ n = Cardinality(S)
    BY <1>1, <1>5 DEF S
  <2>2. IsFiniteSet(S \cup {x}) /\ Cardinality(S \cup {x}) = n + 1
    BY <2>1, FS_AddElement
  <2>. QED
    BY <1>1, <2>2 DEF S
<1>7. Reports(c, k + 1)
  BY <1>1, <1>3, <1>4, <1>5, <1>6 DEF Reports
<1>. QED
  BY <1>3, <1>7 DEF c, x

\* One bit of the iteration.
LEMMA IterateStep ==
    ASSUME BitmapInv, NEW k \in 0..nb.max-1, NEW r \in IterStates
    PROVE  /\ IterateBit(r, k) \in IterStates
           /\ Iterated(r, k) => Iterated(IterateBit(r, k), k + 1)
<1>0. /\ used \subseteq Nat /\ nb.max \in Nat /\ k \in Nat
      /\ (k % WordBits) \in nb.map[WordIdx(k)] <=> k \in used
  BY PlaceOf, BitmapFacts
<1> DEFINE a == r.idx
           l == r.len
           c == r.calls
<1>1. r = [idx |-> a, len |-> l, calls |-> c] /\ a \in Int /\ l \in Nat /\ c \in Calls
  BY DEF IterStates
<1>2. r.idx = a /\ r.len = l /\ r.calls = c
  OBVIOUS
<1> HIDE DEF a, l, c
<1>3. CASE k \in used /\ a < 0
  <2>1. IterateBit(r, k) = [idx |-> k, len |-> 1, calls |-> c]
    BY <1>0, <1>1, <1>3 DEF IterateBit
  <2>2. [idx |-> k, len |-> 1, calls |-> c] \in IterStates
    BY <1>0, <1>1 DEF IterStates
  <2>3. ASSUME Iterated(r, k) PROVE Iterated([idx |-> k, len |-> 1, calls |-> c], k + 1)
    <3>1. Reports(c, k) /\ k - 1 \notin used
      BY <1>0, <1>1, <1>2, <1>3, <2>3 DEF Iterated, InRun
    <3>2. Reports(c, k + 1)
      BY <1>0, <3>1, NoRunEnds DEF Reports
    <3>3. InRun([idx |-> k, len |-> 1, calls |-> c], k + 1)
      BY <1>0, <1>3, <3>1 DEF InRun
    <3>. QED
      BY <3>2, <3>3 DEF Iterated
  <2>. QED
    BY <2>1, <2>2, <2>3
<1>4. CASE k \in used /\ ~(a < 0)
  <2>1. IterateBit(r, k) = [idx |-> a, len |-> l + 1, calls |-> c]
    BY <1>0, <1>1, <1>4 DEF IterateBit
  <2>2. [idx |-> a, len |-> l + 1, calls |-> c] \in IterStates
    BY <1>0, <1>1 DEF IterStates
  <2>3. ASSUME Iterated(r, k) PROVE Iterated([idx |-> a, len |-> l + 1, calls |-> c], k + 1)
    <3>1. Reports(c, k) /\ InRun(r, k)
      BY <1>1, <1>2, <1>4, <2>3 DEF Iterated
    <3>2. Reports(c, k + 1)
      BY <1>0, <1>4, <3>1, NoRunEnds DEF Reports
    <3>3. /\ a \in 0..k-1 /\ l \in 1..k /\ a + l = k /\ a..(k - 1) \subseteq used
          /\ a - 1 \notin used
      BY <1>2, <3>1 DEF InRun
    <3>4. a..(k + 1 - 1) \subseteq used
      <4>1. \A j \in a..(k + 1 - 1) : j \in a..(k - 1) \/ j = k
        BY <1>0, <1>1
      <4>. QED
        BY <1>4, <3>3, <4>1
    <3>5. InRun([idx |-> a, len |-> l + 1, calls |-> c], k + 1)
      BY <1>0, <3>3, <3>4 DEF InRun
    <3>. QED
      BY <3>2, <3>5 DEF Iterated
  <2>. QED
    BY <2>1, <2>2, <2>3
<1>5. CASE k \notin used /\ a >= 0
  <2> DEFINE d == Append(c, <<a, l>>)
  <2>1. IterateBit(r, k) = [idx |-> -1, len |-> l, calls |-> d]
    BY <1>0, <1>1, <1>5 DEF IterateBit
  <2>2. d \in Calls
    <3>1. <<a, l>> \in Nat \X Nat
      BY <1>1, <1>5
    <3>. QED
      BY <1>1, <3>1, AppendProperties DEF Calls
  <2> HIDE DEF d
  <2>3. [idx |-> -1, len |-> l, calls |-> d] \in IterStates
    BY <1>1, <2>2 DEF IterStates
  <2>4. ASSUME Iterated(r, k) PROVE Iterated([idx |-> -1, len |-> l, calls |-> d], k + 1)
    <3>1. Reports(c, k) /\ InRun(r, k)
      BY <1>1, <1>2, <1>5, <2>4 DEF Iterated
    <3>2. /\ a \in 0..k-1 /\ l \in 1..k /\ a + l = k /\ a..(k - 1) \subseteq used
          /\ a - 1 \notin used
      BY <1>2, <3>1 DEF InRun
    <3>3. k \in 1..nb.max
      BY <1>0, <3>2
    <3>4. Reports(d, k + 1)
      BY <1>1, <1>5, <3>1, <3>2, <3>3, ReportsAppend DEF d
    <3>5. k + 1 - 1 \notin used
      BY <1>0, <1>5
    <3>. QED
      BY <3>4, <3>5 DEF Iterated
  <2>. QED
    BY <2>1, <2>3, <2>4
<1>6. CASE k \notin used /\ ~(a >= 0)
  <2>1. IterateBit(r, k) = r
    BY <1>0, <1>1, <1>6 DEF IterateBit
  <2>2. ASSUME Iterated(r, k) PROVE Iterated(r, k + 1)
    <3>1. Reports(c, k) /\ a = -1 /\ k - 1 \notin used
      BY <1>0, <1>1, <1>2, <1>6, <2>2 DEF Iterated, InRun
    <3>2. Reports(c, k + 1)
      BY <1>0, <3>1, NoRunEnds DEF Reports
    <3>3. k + 1 - 1 \notin used
      BY <1>0, <1>6
    <3>. QED
      BY <1>2, <3>1, <3>2, <3>3 DEF Iterated
  <2>. QED
    BY <2>1, <2>2
<1>. QED
  BY <1>3, <1>4, <1>5, <1>6

\* r is the state behind the last bit, f the states behind each.
FoldsBits(r) ==
    r = FoldLeft(IterateBit, [idx |-> -1, len |-> 0, calls |-> <<>>],
                 [k \in 1..nb.max |-> k - 1])
Iteration(f, n, r) ==
    /\ f \in [0..n -> IterStates]
    /\ f[0] = [idx |-> -1, len |-> 0, calls |-> <<>>]
    /\ \A k \in 1..n : f[k] = IterateBit(f[k - 1], k - 1)
    /\ f[n] = r

\* The states of the iteration behind each bit.
LEMMA IterateStates ==
    ASSUME BitmapInv, NEW n, n = nb.max, NEW r, FoldsBits(r)
    PROVE  \E f : Iteration(f, n, r)
<1> DEFINE s == [k \in 1..nb.max |-> k - 1]
           zero == [idx |-> -1, len |-> 0, calls |-> <<>>]
           D == 1..n
           B == IterStates
           g == [k \in D |-> [b \in B |-> IterateBit(b, k - 1)]]
           c == [t \in SUBSET D |-> Max(t)]
           IsFold(it) == it = [t \in SUBSET (DOMAIN s) |->
                                 IF t = {} THEN zero ELSE IterateBit(it[t \ {Max(t)}], s[Max(t)])]
           jt == CHOOSE it : IsFold(it)
<1>1. n \in Nat /\ DOMAIN s = D /\ \A k \in D : s[k] = k - 1
  BY BitmapFacts
<1>2. zero \in B
  <2>1. <<>> \in Calls
    BY DEF Calls
  <2>. QED
    BY <2>1 DEF IterStates
<1>3. \A k \in D : \A b \in B : IterateBit(b, k - 1) \in B
  <2>1. ASSUME NEW k \in D PROVE k - 1 \in 0..nb.max-1
    BY <1>1
  <2>. QED
    BY <2>1, IterateStep
<1>4. Steps(g, D, B) /\ IsFiniteSet(D)
  <2>1. IsFiniteSet(D)
    BY <1>1, FS_Interval
  <2> HIDE DEF D, B
  <2>2. Steps(g, D, B)
    BY <1>3 DEF Steps
  <2>. QED
    BY <2>1, <2>2
<1>5. Chooses(c, D) /\ \A t \in SUBSET D : t # {} => c[t] = Max(t) /\ Max(t) \in D /\ Max(t) \in t
  <2>1. \A t \in SUBSET D : t # {} => Max(t) \in t
    BY <1>1, MaxOfPositions
  <2> HIDE DEF D
  <2>. QED
    BY <2>1 DEF Chooses
<1>6. PICK it \in [SUBSET D -> B] : TakesOut(it, zero, g, c, D)
  <2> HIDE DEF g, c, B, D, zero
  <2>. QED
    BY <1>2, <1>4, <1>5, SetRecursionExists
<1>7. \A t \in SUBSET D :
         it[t] = IF t = {} THEN zero ELSE IterateBit(it[t \ {Max(t)}], s[Max(t)])
  <2>1. it[{}] = zero
    BY <1>6 DEF TakesOut
  <2>2. ASSUME NEW t \in SUBSET D, t # {}
        PROVE  it[t] = IterateBit(it[t \ {Max(t)}], s[Max(t)])
    <3>1. it[t] = g[c[t]][it[t \ {c[t]}]]
      BY <1>6, <2>2 DEF TakesOut
    <3>2. c[t] = Max(t) /\ Max(t) \in D /\ s[Max(t)] = Max(t) - 1
      <4> HIDE DEF c, s, D
      <4>. QED
        BY <1>1, <1>5, <2>2
    <3>3. it[t \ {Max(t)}] \in B
      <4> HIDE DEF B, D
      <4>. QED
        BY <1>6
    <3> HIDE DEF c, s, B, D
    <3>. QED
      BY <3>1, <3>2, <3>3
  <2> HIDE DEF s, D
  <2>. QED
    BY <2>1, <2>2
<1>8. IsFold(it)
  <2> HIDE DEF zero, s, D
  <2>. QED
    BY <1>1, <1>6, <1>7
<1>9. IsFold(jt)
  <2> HIDE DEF IsFold
  <2>. QED
    BY <1>8
<1>10. r = jt[D]
  <2>1. r = jt[DOMAIN s]
    BY Zenon DEF FoldLeft, MapThenFoldSet, FoldsBits
  <2>. QED
    BY <1>1, <2>1
<1>11. FoldsUp(jt, zero, g, n, B)
  <2>1. \A t \in SUBSET D :
           jt[t] = IF t = {} THEN zero ELSE IterateBit(jt[t \ {Max(t)}], s[Max(t)])
    <3> HIDE DEF jt, zero, s, D
    <3>. QED
      BY <1>1, <1>9
  <2>2. ASSUME NEW k \in 1..n
        PROVE  jt[1..k] = IterateBit(jt[1..(k - 1)], k - 1)
    <3>1. Max(1..k) = k /\ (1..k) \ {k} = 1..(k - 1) /\ 1..k \in SUBSET D /\ 1..k # {}
      BY <1>1, MaxOfInterval
    <3>2. jt[1..k] = IterateBit(jt[(1..k) \ {Max(1..k)}], s[Max(1..k)])
      <4> DEFINE t == 1..k
      <4> HIDE DEF jt, zero, s, D, t
      <4>1. t \in SUBSET D /\ t # {}
        BY <3>1 DEF t
      <4>2. jt[t] = IterateBit(jt[t \ {Max(t)}], s[Max(t)])
        BY <2>1, <4>1
      <4>. QED
        BY <4>2 DEF t
    <3> HIDE DEF jt, s
    <3>3. s[k] = k - 1
      BY <1>1
    <3>. QED
      BY <3>1, <3>2, <3>3
  <2>3. jt[{}] = zero
    <3> HIDE DEF jt, zero, s, D
    <3>. QED
      BY <2>1
  <2> HIDE DEF jt, zero, s
  <2>4. ASSUME NEW k \in 1..n, jt[1..(k - 1)] \in B
        PROVE  jt[1..k] = g[k][jt[1..(k - 1)]]
    <3> HIDE DEF B
    <3>. QED
      BY <2>2, <2>4
  <2> HIDE DEF g, B, D
  <2>. QED
    BY <2>3, <2>4 DEF FoldsUp
<1>12. PICK f : ValuesUpTo(f, zero, g, n, B) /\ f[n] = jt[D]
  <2>1. Steps(g, 1..n, B)
    BY <1>4 DEF D
  <2>2. \E f : ValuesUpTo(f, zero, g, n, B) /\ f[n] = jt[1..n]
    <3> HIDE DEF g, jt, B, zero, D
    <3>. QED
      BY <1>1, <1>2, <1>11, <2>1, FoldPrefixes
  <2>. QED
    BY <2>2 DEF D
<1>13. \A k \in 1..n : f[k] = IterateBit(f[k - 1], k - 1)
  <2>1. \A k \in 1..n : f[k - 1] \in B /\ f[k] = g[k][f[k - 1]]
    <3> HIDE DEF B, g, zero, jt
    <3>1. f \in [0..n -> B] /\ \A k \in 1..n : f[k] = g[k][f[k - 1]]
      BY <1>12 DEF ValuesUpTo
    <3>. QED
      BY <1>1, <3>1
  <2> HIDE DEF B
  <2>. QED
    BY <2>1
<1>14. f \in [0..n -> IterStates] /\ f[0] = zero
  BY <1>12 DEF ValuesUpTo
<1>15. Iteration(f, n, r)
  <2> HIDE DEF jt, g
  <2>. QED
    BY <1>10, <1>12, <1>13, <1>14 DEF Iteration
<1>. QED
  BY <1>15

\* niova_bitmap_iterate() calls back once for each maximal run.
LEMMA IterateExact ==
    ASSUME BitmapInv
    PROVE  Reports(iterate, nb.max + 1)
<1> DEFINE n == nb.max
           r == FoldLeft(IterateBit, [idx |-> -1, len |-> 0, calls |-> <<>>],
                         [k \in 1..nb.max |-> k - 1])
<1>1. n \in Nat \ {0} /\ used \subseteq 0..n-1
  BY BitmapFacts
<1>2. PICK f : /\ f \in [0..n -> IterStates]
               /\ f[0] = [idx |-> -1, len |-> 0, calls |-> <<>>]
               /\ \A k \in 1..n : f[k] = IterateBit(f[k - 1], k - 1)
               /\ f[n] = r
  <2> DEFINE m == n
             q == r
  <2>1. m = nb.max /\ FoldsBits(q)
    BY Zenon DEF FoldsBits
  <2> HIDE DEF m, q
  <2>2. \E f : Iteration(f, m, q)
    BY <2>1, IterateStates
  <2>. QED
    BY <2>2, Zenon DEF m, q, Iteration
<1>3. iterate = IF r.idx >= 0 THEN Append(r.calls, <<r.idx, r.len>>) ELSE r.calls
  BY Zenon DEF iterate
<1> HIDE DEF r
<1> DEFINE Good == {k \in 0..n : Iterated(f[k], k)}
<1>4. 0 \in Good
  <2>1. Runs(0) = {}
    <3>1. \A q \in Runs(0) : q \in used \X (1..nb.max) /\ q[1] + q[2] < 0
      BY DEF Runs
    <3>. QED
      BY <3>1, RunFacts
  <2>2. Range(<<>>) = {} /\ Len(<<>>) = 0
    BY DEF Range
  <2>3. Reports(<<>>, 0)
    BY <2>1, <2>2, FS_EmptySet DEF Reports
  <2>4. 0 - 1 \notin used
    BY <1>1
  <2>5. f[0].idx = -1 /\ f[0].calls = <<>>
    BY <1>2
  <2>6. Iterated(f[0], 0)
    BY <2>3, <2>4, <2>5 DEF Iterated
  <2> HIDE DEF n
  <2>. QED
    BY <1>1, <2>6
<1>5. ASSUME NEW k \in 0..(n - 1), k \in Good PROVE k + 1 \in Good
  <2>1. f[k] \in IterStates /\ f[k + 1] = IterateBit(f[k], k)
    <3>1. k + 1 \in 1..n /\ k \in 0..n /\ (k + 1) - 1 = k
      BY <1>1
    <3> HIDE DEF n
    <3>. QED
      BY <1>2, <3>1
  <2>2. Iterated(f[k], k)
    BY <1>5
  <2>3. Iterated(f[k + 1], k + 1)
    BY <2>1, <2>2, IterateStep
  <2>. QED
    BY <1>1, <2>3
<1>6. n \in Good
  <2> HIDE DEF n, Good
  <2>. QED
    BY <1>1, <1>4, <1>5, Induction
<1>7. Iterated(r, n) /\ r \in IterStates
  <2>1. Iterated(f[n], n) /\ f[n] \in IterStates
    <3> HIDE DEF n
    <3>. QED
      BY <1>1, <1>2, <1>6
  <2>. QED
    BY <1>2, <2>1
<1>8. n \notin used
  BY <1>1
<1>9. CASE r.idx = -1 /\ n - 1 \notin used
  <2>1. iterate = r.calls
    BY <1>3, <1>9
  <2>2. Runs(n + 1) = Runs(n)
    <3> HIDE DEF n
    <3>. QED
      BY <1>1, <1>9, NoRunEnds
  <2>3. Reports(r.calls, n)
    BY <1>7 DEF Iterated
  <2>4. Reports(r.calls, n + 1)
    BY <2>2, <2>3 DEF Reports
  <2>. QED
    BY <2>1, <2>4
<1>10. CASE InRun(r, n)
  <2> DEFINE a == r.idx
             l == r.len
             c == r.calls
  <2>1. /\ a \in 0..n-1 /\ l \in 1..n /\ a + l = n /\ a..(n - 1) \subseteq used
        /\ a - 1 \notin used
    BY <1>10 DEF InRun
  <2>2. iterate = Append(c, <<a, l>>)
    BY <1>1, <1>3, <2>1
  <2>3. c \in Calls /\ Reports(c, n)
    BY <1>7 DEF Iterated, IterStates
  <2>4. n \in 1..nb.max
    BY <1>1
  <2> HIDE DEF a, l, c, n
  <2>5. Reports(Append(c, <<a, l>>), n + 1)
    BY <1>8, <2>1, <2>3, <2>4, ReportsAppend
  <2>. QED
    BY <2>2, <2>5 DEF n
<1>. QED
  BY <1>7, <1>9, <1>10 DEF Iterated

\* bitmap.h, for any word size, any length and any limit: through any sequence of
\* operations no bit has two owners and none is lost, a full map is one of which
\* every bit is given out, and an iteration reports the maximal runs.
THEOREM BitmapCorrect == BitmapSpec => []BitmapExact
<1>1. BitmapInv => BitmapExact
  <2> SUFFICES ASSUME BitmapInv PROVE BitmapExact
    OBVIOUS
  <2>1. last.ok
    BY BitmapFacts
  <2>2. Bits(nb.map, NWords * WordBits) = used
    <3>1. used \in SUBSET (0..NWords * WordBits - 1) /\ Agrees(nb.map, used)
      BY BitmapFacts DEF Agrees
    <3>. QED
      BY <3>1, BitsAgree
  <2>3. inuse = Cardinality(used) /\ IsFiniteSet(used)
    BY InUseCount
  <2>4. full = (used = 0..nb.max-1)
    <3> DEFINE n == nb.max
               S == 0..n-1
    <3>1. n \in Nat /\ used \subseteq S
      BY BitmapFacts
    <3> HIDE DEF n
    <3>2. IsFiniteSet(S) /\ Cardinality(S) = n
      BY <3>1, FS_Interval
    <3> HIDE DEF S
    <3>3. Cardinality(used) = n <=> used = S
      BY <3>1, <3>2, FS_Subset
    <3>4. full <=> inuse = n
      BY DEF full, n
    <3>. QED
      BY <2>3, <3>3, <3>4 DEF S, n, full
  <2>5. Runs(nb.max + 1) =
          {r \in used \X (1..nb.max) :
             /\ r[1]..(r[1] + r[2] - 1) \subseteq used
             /\ r[1] - 1 \notin used /\ r[1] + r[2] \notin used}
    <3>1. ASSUME NEW r \in used \X (1..nb.max), r[1]..(r[1] + r[2] - 1) \subseteq used
          PROVE  r[1] + r[2] < nb.max + 1
      <4>1. r[1] \in Nat /\ r[2] \in 1..nb.max /\ nb.max \in Nat /\ used \subseteq 0..nb.max-1
        BY RunFacts, BitmapFacts
      <4>2. r[1] + r[2] - 1 \in used
        BY <3>1, <4>1
      <4>. QED
        BY <4>1, <4>2
    <3>. QED
      BY <3>1 DEF Runs
  <2>6. Reports(iterate, nb.max + 1)
    BY IterateExact
  <2>. QED
    BY <2>1, <2>2, <2>3, <2>4, <2>5, <2>6 DEF BitmapExact, Reports
<1>. QED
  BY <1>1, BitmapInvInit, BitmapInvNext, PTL DEF BitmapSpec

-------------------------------------------------------------------------------
(***************************************************************************)
(* The vectored i/o helpers and the transfer loops, whatever the arrays,   *)
(* the counts and the interruptions.                                       *)
(***************************************************************************)

\* FlattenSeq, one sequence after the other.
Flattens(f, ss, n, S) ==
    /\ f \in [1..n -> S] /\ f[1] = ss[1] /\ f[n] = FlattenSeq(ss)
    /\ \A i \in 2..n : f[i] = f[i - 1] \o ss[i]

LEMMA FlattenValues ==
    ASSUME NEW X, NEW ss \in Seq(Seq(X)), NEW n, n = Len(ss), n # 0
    PROVE  \E f : Flattens(f, ss, n, Seq(X))
<1> DEFINE S == Seq(X)
           g == [i \in Nat |-> [b \in S |-> IF i \in 2..n THEN b \o ss[i] ELSE b]]
           IsFlat(f) == f = [i \in 1..Len(ss) |-> IF i = 1 THEN ss[i] ELSE f[i - 1] \o ss[i]]
           jf == CHOOSE f : IsFlat(f)
<1>1. n \in Nat /\ \A i \in 1..n : ss[i] \in S
  BY LenProperties, ElementOfSeq
<1>2. Steps(g, Nat, S)
  <2>1. \A i \in Nat, b \in S : (IF i \in 2..n THEN b \o ss[i] ELSE b) \in S
    <3>1. ASSUME NEW i \in Nat, NEW b \in S, i \in 2..n PROVE b \o ss[i] \in S
      <4>1. ss[i] \in S
        BY <1>1, <3>1
      <4>. QED
        BY <4>1, ConcatProperties
    <3> HIDE DEF S
    <3>. QED
      BY <3>1
  <2> HIDE DEF S
  <2>. QED
    BY <2>1 DEF Steps
<1> DEFINE first == ss[1]
<1>3. first \in S
  BY <1>1
<1>4. PICK h \in [Nat -> S] : h[0] = first /\ \A i \in Nat \ {0} : h[i] = g[i][h[i - 1]]
  <2> HIDE DEF g, S, first
  <2>. QED
    BY <1>2, <1>3, RecursionExists, SMTT(20)
<1> DEFINE f1 == [i \in 1..n |-> h[i]]
<1>5. h[1] = ss[1] /\ \A i \in 2..n : h[i] = h[i - 1] \o ss[i]
  <2>1. ASSUME NEW i \in 1..n
        PROVE  h[i] = IF i \in 2..n THEN h[i - 1] \o ss[i] ELSE h[i - 1]
    <3>1. h[i - 1] \in S /\ i \in Nat \ {0}
      <4> HIDE DEF S
      <4>. QED
        BY <1>1, <1>4, <2>1
    <3> HIDE DEF S
    <3>. QED
      BY <1>4, <3>1
  <2> HIDE DEF g, S
  <2>2. h[1] = h[1 - 1]
    <3>1. 1 \in 1..n /\ 1 \notin 2..n
      BY <1>1
    <3>. QED
      BY <2>1, <3>1
  <2>3. h[1] = ss[1]
    BY <1>4, <2>2
  <2>4. ASSUME NEW i \in 2..n PROVE h[i] = h[i - 1] \o ss[i]
    <3>1. i \in 1..n
      BY <1>1
    <3>. QED
      BY <2>1, <3>1
  <2>. QED
    BY <2>3, <2>4
<1>6. IsFlat(f1)
  <2>1. ASSUME NEW i \in 1..n PROVE f1[i] = IF i = 1 THEN ss[i] ELSE f1[i - 1] \o ss[i]
    <3> HIDE DEF g, S
    <3>1. CASE i = 1
      BY <1>5, <3>1
    <3>2. CASE i # 1
      <4>1. i \in 2..n /\ i - 1 \in 1..n
        BY <1>1, <3>2
      <4>2. f1[i] = h[i] /\ f1[i - 1] = h[i - 1]
        BY <4>1
      <4>. QED
        BY <1>5, <3>2, <4>1, <4>2
    <3>. QED
      BY <3>1, <3>2
  <2> HIDE DEF f1
  <2>2. f1 = [i \in 1..n |-> f1[i]]
    BY DEF f1
  <2>. QED
    BY <2>1, <2>2
<1>7. IsFlat(jf)
  <2> HIDE DEF IsFlat
  <2>. QED
    BY <1>6
<1>8. FlattenSeq(ss) = jf[n]
  BY Zenon DEF FlattenSeq
<1> HIDE DEF jf
<1>9. /\ jf[1] = ss[1] /\ DOMAIN jf = 1..n /\ jf = [i \in 1..n |-> jf[i]]
      /\ \A i \in 2..n : jf[i] = jf[i - 1] \o ss[i]
  <2>1. \A i \in 1..n : jf[i] = IF i = 1 THEN ss[i] ELSE jf[i - 1] \o ss[i]
    BY <1>7
  <2>2. DOMAIN jf = 1..n /\ jf = [i \in 1..n |-> jf[i]]
    BY <1>7
  <2> HIDE DEF IsFlat
  <2>3. jf[1] = ss[1]
    <3>1. 1 \in 1..n
      BY <1>1
    <3>. QED
      BY <2>1, <3>1
  <2>4. ASSUME NEW i \in 2..n PROVE jf[i] = jf[i - 1] \o ss[i]
    <3>1. i \in 1..n /\ i # 1
      BY <1>1
    <3>. QED
      BY <2>1, <3>1
  <2>. QED
    BY <2>2, <2>3, <2>4
<1>10. \A i \in 1..n : jf[i] \in S
  <2> DEFINE m == n - 1
             Good == {k \in 0..m : jf[k + 1] \in S}
  <2>1. m \in Nat /\ 0 \in Good
    BY <1>1, <1>3, <1>9
  <2>2. ASSUME NEW k \in 0..(m - 1), k \in Good PROVE k + 1 \in Good
    <3>1. k + 2 \in 2..n /\ (k + 2) - 1 = k + 1 /\ k + 2 \in 1..n /\ k + 1 \in 0..m
      BY <1>1
    <3>2. jf[k + 2] = jf[k + 1] \o ss[k + 2]
      <4> HIDE DEF S
      <4>. QED
        BY <1>9, <3>1
    <3>3. jf[k + 1] \in S /\ ss[k + 2] \in S
      <4> HIDE DEF S
      <4>. QED
        BY <1>1, <2>2, <3>1
    <3>4. jf[k + 2] \in S
      BY <3>2, <3>3, ConcatProperties
    <3>5. (k + 1) + 1 = k + 2
      OBVIOUS
    <3> HIDE DEF S
    <3>. QED
      BY <3>1, <3>4, <3>5
  <2>3. \A k \in 0..m : k \in Good
    <3> HIDE DEF m, Good
    <3>. QED
      BY <2>1, <2>2, Induction
  <2>4. ASSUME NEW i \in 1..n PROVE jf[i] \in S
    <3>1. i - 1 \in 0..m /\ (i - 1) + 1 = i
      BY <1>1
    <3>2. i - 1 \in Good
      <4> HIDE DEF Good, m
      <4>. QED
        BY <2>3, <3>1
    <3>. QED
      BY <3>1, <3>2
  <2>. QED
    BY <2>4
<1>11. jf \in [1..n -> S]
  <2> HIDE DEF S
  <2>. QED
    BY <1>9, <1>10
<1>. QED
  BY <1>8, <1>9, <1>11 DEF Flattens

LEMMA FlattenAppend ==
    ASSUME NEW X, NEW ss \in Seq(Seq(X)), NEW t \in Seq(X)
    PROVE  FlattenSeq(Append(ss, t)) = FlattenSeq(ss) \o t /\ FlattenSeq(ss) \in Seq(X)
<1> DEFINE n == Len(ss)
           sa == Append(ss, t)
           S == Seq(X)
<1>1. /\ n \in Nat /\ sa \in Seq(S) /\ Len(sa) = n + 1
      /\ \A i \in 1..n : sa[i] = ss[i] /\ ss[i] \in S
      /\ sa[n + 1] = t
  BY AppendProperties, LenProperties, ElementOfSeq
<1>2. PICK h : /\ h \in [1..n+1 -> S] /\ h[1] = sa[1] /\ h[n + 1] = FlattenSeq(sa)
               /\ \A i \in 2..n+1 : h[i] = h[i - 1] \o sa[i]
  <2> DEFINE m == n + 1
  <2>1. m = Len(sa) /\ m # 0
    BY <1>1
  <2> HIDE DEF m, sa
  <2>2. \E h : Flattens(h, sa, m, S)
    BY <1>1, <2>1, FlattenValues
  <2> HIDE DEF S
  <2>. QED
    BY <2>2 DEF m, Flattens
<1>3. CASE n = 0
  <2>1. FlattenSeq(ss) = ss /\ ss = <<>>
    <3>1. ss = <<>>
      BY <1>3, EmptySeq
    <3>. QED
      BY <1>3, <3>1 DEF FlattenSeq
  <2>2. FlattenSeq(sa) = t
    <3> HIDE DEF n, sa
    <3>. QED
      BY <1>1, <1>2, <1>3
  <2>3. <<>> \o t = t /\ <<>> \in Seq(X)
    BY ConcatEmptySeq, EmptySeq
  <2>. QED
    BY <2>1, <2>2, <2>3
<1>4. CASE n # 0
  <2>1. PICK f : /\ f \in [1..n -> S] /\ f[1] = ss[1] /\ f[n] = FlattenSeq(ss)
                 /\ \A i \in 2..n : f[i] = f[i - 1] \o ss[i]
    <3> DEFINE m == n
    <3>1. m = Len(ss) /\ m # 0
      BY <1>4
    <3> HIDE DEF m
    <3>2. \E f : Flattens(f, ss, m, S)
      BY <3>1, FlattenValues
    <3> HIDE DEF S
    <3>. QED
      BY <3>2 DEF m, Flattens
  <2> DEFINE m == n - 1
             Good == {k \in 0..m : h[k + 1] = f[k + 1]}
  <2> HIDE DEF n, sa, S
  <2>2. m \in Nat /\ 0 \in Good
    BY <1>1, <1>2, <1>4, <2>1
  <2>3. ASSUME NEW k \in 0..(m - 1), k \in Good PROVE k + 1 \in Good
    <3>1. k + 2 \in 2..n /\ (k + 2) - 1 = k + 1 /\ k + 2 \in 1..n /\ k + 1 \in 0..m
          /\ k + 2 \in 2..n+1 /\ (k + 1) + 1 = k + 2
      BY <1>1
    <3>2. h[k + 2] = h[k + 1] \o sa[k + 2] /\ f[k + 2] = f[k + 1] \o ss[k + 2]
      BY <1>2, <2>1, <3>1
    <3>3. h[k + 1] = f[k + 1] /\ sa[k + 2] = ss[k + 2]
      BY <1>1, <2>3, <3>1
    <3>. QED
      BY <3>1, <3>2, <3>3
  <2>4. m \in Good
    <3> HIDE DEF m, Good
    <3>1. \A k \in 0..m : k \in Good
      BY <2>2, <2>3, Induction
    <3>. QED
      BY <2>2, <3>1
  <2>5. h[n] = f[n]
    <3>1. m + 1 = n
      BY <1>1
    <3>. QED
      BY <2>4, <3>1
  <2>6. h[n + 1] = h[n] \o sa[n + 1]
    <3>1. n + 1 \in 2..n+1 /\ (n + 1) - 1 = n
      BY <1>1, <1>4
    <3>. QED
      BY <1>2, <3>1
  <2>7. f[n] \in S
    BY <1>1, <1>4, <2>1
  <2>. QED
    BY <1>1, <1>2, <2>1, <2>5, <2>6, <2>7 DEF sa, S
<1>. QED
  BY <1>3, <1>4

LEMMA TakeFacts ==
    ASSUME NEW X, NEW s \in Seq(X), NEW n \in Nat
    PROVE  /\ Take(s, n) \in Seq(X) /\ Len(s) \in Nat
           /\ Len(Take(s, n)) = IF n <= Len(s) THEN n ELSE Len(s)
           /\ \A i \in 1..Len(s) : i <= n => Take(s, n)[i] = s[i]
<1> DEFINE m == MinOf(n, Len(s))
           one == 1
<1>1. Len(s) \in Nat /\ \A i \in 1..Len(s) : s[i] \in X
  BY LenProperties, ElementOfSeq
<1>2. m \in Nat /\ m <= Len(s) /\ m = IF n <= Len(s) THEN n ELSE Len(s)
  BY <1>1 DEF MinOf
<1>3. Take(s, n) = SubSeq(s, one, m)
  BY DEF Take
<1> HIDE DEF m
<1>4. one \in Int /\ m \in Int /\ \A i \in one..m : s[i] \in X
  BY <1>1, <1>2
<1> HIDE DEF one
<1>5. /\ SubSeq(s, one, m) \in Seq(X)
      /\ Len(SubSeq(s, one, m)) = IF one <= m THEN m - one + 1 ELSE 0
      /\ \A i \in 1..m - one + 1 : SubSeq(s, one, m)[i] = s[one + i - 1]
  BY <1>4, SubSeqProperties
<1> DEFINE T == SubSeq(s, one, m)
<1> HIDE DEF T
<1>6. /\ T \in Seq(X) /\ Len(T) = m
      /\ \A i \in 1..m : T[i] = s[i]
  BY <1>2, <1>5 DEF T, one
<1>. QED
  BY <1>1, <1>2, <1>3, <1>6 DEF T

LEMMA DropFacts ==
    ASSUME NEW X, NEW s \in Seq(X), NEW n \in Nat
    PROVE  /\ Drop(s, n) \in Seq(X) /\ Len(s) \in Nat
           /\ Len(Drop(s, n)) = IF n <= Len(s) THEN Len(s) - n ELSE 0
           /\ \A i \in Nat : 1 <= i /\ n + i <= Len(s) => Drop(s, n)[i] = s[n + i]
<1> DEFINE m == Len(s)
           a == n + 1
           T == SubSeq(s, a, m)
<1>1. m \in Nat /\ \A i \in 1..m : s[i] \in X
  BY LenProperties, ElementOfSeq
<1>2. Drop(s, n) = T
  BY DEF Drop
<1> HIDE DEF m
<1>3. a \in Int /\ m \in Int /\ \A i \in a..m : s[i] \in X
  BY <1>1
<1> HIDE DEF a
<1>4. /\ T \in Seq(X)
      /\ Len(T) = IF a <= m THEN m - a + 1 ELSE 0
      /\ \A i \in 1..m - a + 1 : T[i] = s[a + i - 1]
  BY <1>3, SubSeqProperties
<1> HIDE DEF T
<1>5. ASSUME NEW i \in Nat, 1 <= i, n + i <= m PROVE T[i] = s[n + i]
  <2>1. i \in 1..m - a + 1 /\ a + i - 1 = n + i
    BY <1>1, <1>5 DEF a
  <2>. QED
    BY <1>4, <2>1
<1>6. Len(T) = IF n <= m THEN m - n ELSE 0
  BY <1>1, <1>4 DEF a
<1>. QED
  BY <1>1, <1>2, <1>4, <1>5, <1>6 DEF m

LEMMA TakeConcat ==
    ASSUME NEW X, NEW s \in Seq(X), NEW t \in Seq(X), NEW n \in Nat
    PROVE  Take(s \o t, n) = IF n <= Len(s) THEN Take(s, n) ELSE s \o Take(t, n - Len(s))
<1> DEFINE c == s \o t
           L == Len(s)
           M == Len(t)
<1>1. /\ c \in Seq(X) /\ Len(c) = L + M /\ L \in Nat /\ M \in Nat
      /\ \A i \in 1..L + M : c[i] = IF i <= L THEN s[i] ELSE t[i - L]
  BY ConcatProperties, LenProperties
<1> HIDE DEF c, L, M
<1>2. /\ Take(c, n) \in Seq(X)
      /\ Len(Take(c, n)) = IF n <= L + M THEN n ELSE L + M
      /\ \A i \in 1..L + M : i <= n => Take(c, n)[i] = c[i]
  BY <1>1, TakeFacts
<1>3. CASE n <= L
  <2>1. /\ Take(s, n) \in Seq(X) /\ Len(Take(s, n)) = n
        /\ \A i \in 1..n : Take(s, n)[i] = s[i]
    <3>1. /\ Take(s, n) \in Seq(X) /\ Len(Take(s, n)) = IF n <= L THEN n ELSE L
          /\ \A i \in 1..L : i <= n => Take(s, n)[i] = s[i]
      BY TakeFacts DEF L
    <3>. QED
      BY <1>1, <1>3, <3>1
  <2>2. Len(Take(c, n)) = n /\ \A i \in 1..n : Take(c, n)[i] = s[i]
    BY <1>1, <1>2, <1>3
  <2>3. Take(c, n) = Take(s, n)
    <3> DEFINE A == Take(c, n)
               B == Take(s, n)
    <3>1. /\ A \in Seq(X) /\ B \in Seq(X) /\ Len(A) = n /\ Len(B) = n
          /\ \A i \in 1..n : A[i] = B[i]
      BY <1>2, <2>1, <2>2
    <3> HIDE DEF A, B
    <3>2. A = B
      BY <3>1, SeqEqual
    <3>. QED
      BY <3>2 DEF A, B
  <2>. QED
    BY <1>3, <2>3 DEF c, L
<1>4. CASE ~(n <= L)
  <2> DEFINE k == n - L
             u == Take(t, k)
             A == Take(c, n)
             B == s \o u
             m == IF k <= M THEN k ELSE M
  <2>1. k \in Nat /\ n = L + k /\ m \in Nat /\ m <= M /\ m <= k
    BY <1>1, <1>4
  <2> HIDE DEF k
  <2>2. u \in Seq(X) /\ Len(u) = m /\ \A i \in 1..M : i <= k => u[i] = t[i]
    <3>1. /\ Take(t, k) \in Seq(X) /\ Len(Take(t, k)) = IF k <= M THEN k ELSE M
          /\ \A i \in 1..M : i <= k => Take(t, k)[i] = t[i]
      BY <2>1, TakeFacts DEF M
    <3>. QED
      BY <3>1
  <2>3. Len(A) = L + m
    BY <1>1, <1>2, <2>1
  <2> HIDE DEF u, m
  <2>4. /\ B \in Seq(X) /\ Len(B) = L + m
        /\ \A i \in 1..L + m : B[i] = IF i <= L THEN s[i] ELSE u[i - L]
    <3>1. /\ s \o u \in Seq(X) /\ Len(s \o u) = L + Len(u)
          /\ \A i \in 1..L + Len(u) : (s \o u)[i] = IF i <= L THEN s[i] ELSE u[i - L]
      BY <2>2, ConcatProperties DEF L
    <3>. QED
      BY <2>2, <3>1
  <2>5. A \in Seq(X) /\ \A i \in 1..L + M : i <= n => A[i] = c[i]
    BY <1>2
  <2> HIDE DEF A, B
  <2>6. ASSUME NEW i \in 1..L + m PROVE A[i] = B[i]
    <3>1. i \in 1..L + M /\ i <= n
      BY <1>1, <2>1
    <3>2. A[i] = IF i <= L THEN s[i] ELSE t[i - L]
      BY <1>1, <2>5, <3>1
    <3>3. CASE i <= L
      BY <2>4, <3>2, <3>3
    <3>4. CASE ~(i <= L)
      <4>1. i - L \in 1..M /\ i - L <= k
        BY <1>1, <2>1, <3>4
      <4>2. u[i - L] = t[i - L]
        BY <2>2, <4>1
      <4>. QED
        BY <2>4, <3>2, <3>4, <4>2
    <3>. QED
      BY <3>3, <3>4
  <2>7. A = B
    BY <2>3, <2>4, <2>5, <2>6, SeqEqual
  <2>. QED
    BY <1>4, <2>7 DEF A, B, u, k, c, L
<1>. QED
  BY <1>3, <1>4

LEMMA DropConcat ==
    ASSUME NEW X, NEW s \in Seq(X), NEW t \in Seq(X), NEW n \in Nat
    PROVE  Drop(s \o t, n) = IF n <= Len(s) THEN Drop(s, n) \o t ELSE Drop(t, n - Len(s))
<1> DEFINE c == s \o t
           L == Len(s)
           M == Len(t)
           A == Drop(c, n)
<1>1. /\ c \in Seq(X) /\ Len(c) = L + M /\ L \in Nat /\ M \in Nat
      /\ \A i \in 1..L + M : c[i] = IF i <= L THEN s[i] ELSE t[i - L]
  BY ConcatProperties, LenProperties
<1> HIDE DEF c, L, M
<1>2. /\ A \in Seq(X)
      /\ Len(A) = IF n <= L + M THEN L + M - n ELSE 0
      /\ \A i \in Nat : 1 <= i /\ n + i <= L + M => A[i] = c[n + i]
  <2>1. /\ Drop(c, n) \in Seq(X)
        /\ Len(Drop(c, n)) = IF n <= Len(c) THEN Len(c) - n ELSE 0
        /\ \A i \in Nat : 1 <= i /\ n + i <= Len(c) => Drop(c, n)[i] = c[n + i]
    BY <1>1, DropFacts
  <2>. QED
    BY <1>1, <2>1
<1> HIDE DEF A
<1>3. CASE n <= L
  <2> DEFINE d == Drop(s, n)
             B == d \o t
             k == L - n
  <2>1. /\ d \in Seq(X) /\ Len(d) = k /\ k \in Nat
        /\ \A i \in Nat : 1 <= i /\ n + i <= L => d[i] = s[n + i]
    <3>1. /\ Drop(s, n) \in Seq(X) /\ Len(Drop(s, n)) = IF n <= L THEN L - n ELSE 0
          /\ \A i \in Nat : 1 <= i /\ n + i <= L => Drop(s, n)[i] = s[n + i]
      BY DropFacts DEF L
    <3>2. L \in Nat
      BY <1>1
    <3> HIDE DEF L
    <3>. QED
      BY <1>3, <3>1, <3>2
  <2> HIDE DEF d
  <2>2. /\ B \in Seq(X) /\ Len(B) = k + M
        /\ \A i \in 1..k + M : B[i] = IF i <= k THEN d[i] ELSE t[i - k]
    <3>1. /\ d \o t \in Seq(X) /\ Len(d \o t) = Len(d) + M
          /\ \A i \in 1..Len(d) + M : (d \o t)[i] = IF i <= Len(d) THEN d[i] ELSE t[i - Len(d)]
      BY <2>1, ConcatProperties DEF M
    <3>. QED
      BY <2>1, <3>1
  <2> HIDE DEF B
  <2>3. Len(A) = k + M
    BY <1>1, <1>2, <1>3
  <2>4. k \in Nat /\ n + k = L
    BY <1>1, <1>3
  <2> HIDE DEF k
  <2>5. ASSUME NEW i \in 1..k + M PROVE A[i] = B[i]
    <3>1. i \in Nat /\ 1 <= i /\ n + i <= L + M /\ n + i \in 1..L + M
      BY <1>1, <2>4
    <3>2. A[i] = IF n + i <= L THEN s[n + i] ELSE t[n + i - L]
      BY <1>1, <1>2, <3>1
    <3>3. CASE i <= k
      BY <1>1, <2>1, <2>2, <2>4, <3>1, <3>2, <3>3
    <3>4. CASE ~(i <= k)
      <4>1. n + i - L = i - k /\ ~(n + i <= L)
        BY <1>1, <2>4, <3>1, <3>4
      <4>. QED
        BY <2>2, <3>2, <3>4, <4>1
    <3>. QED
      BY <3>3, <3>4
  <2>6. A = B
    BY <1>2, <2>2, <2>3, <2>5, SeqEqual
  <2>. QED
    BY <1>3, <2>6 DEF A, B, d, c, L
<1>4. CASE ~(n <= L)
  <2> DEFINE k == n - L
             B == Drop(t, k)
  <2>1. k \in Nat /\ n = L + k
    BY <1>1, <1>4
  <2> HIDE DEF k
  <2>2. /\ B \in Seq(X) /\ Len(B) = IF k <= M THEN M - k ELSE 0
        /\ \A i \in Nat : 1 <= i /\ k + i <= M => B[i] = t[k + i]
    BY <2>1, DropFacts DEF M
  <2> HIDE DEF B
  <2>3. Len(A) = Len(B)
    BY <1>1, <1>2, <2>1, <2>2
  <2>4. ASSUME NEW i \in 1..Len(A) PROVE A[i] = B[i]
    <3>1. i \in Nat /\ 1 <= i /\ n + i <= L + M /\ n + i \in 1..L + M /\ k + i <= M
      BY <1>1, <1>2, <2>1
    <3>2. A[i] = t[n + i - L]
      BY <1>1, <1>2, <1>4, <3>1
    <3>3. n + i - L = k + i
      BY <1>1, <2>1, <3>1
    <3>. QED
      BY <2>2, <3>1, <3>2, <3>3
  <2>5. A = B
    BY <1>2, <2>2, <2>3, <2>4, SeqEqual
  <2>. QED
    BY <1>4, <2>5 DEF A, B, k, c, L
<1>. QED
  BY <1>3, <1>4

\* A prefix of a sequence and the next one.
LEMMA PrefixesGrow ==
    ASSUME NEW X, NEW s \in Seq(X)
    PROVE  /\ SubSeq(s, 1, 0) = <<>> /\ SubSeq(s, 1, Len(s)) = s
           /\ \A k \in 0..Len(s) : SubSeq(s, 1, k) \in Seq(X) /\ Len(SubSeq(s, 1, k)) = k
           /\ \A k \in 1..Len(s) : /\ SubSeq(s, 1, k) = Append(SubSeq(s, 1, k - 1), s[k])
                                   /\ s[k] \in X
           /\ \A k \in 0..Len(s)-1 : /\ SubSeq(s, 1, k + 1) = Append(SubSeq(s, 1, k), s[k + 1])
                                     /\ s[k + 1] \in X
<1>1. SubSeq(s, 1, 0) = <<>> /\ SubSeq(s, 1, Len(s)) = s
  BY SubSeqEmpty, SubSeqFull
<1>2. Len(s) \in Nat /\ \A i \in 1..Len(s) : s[i] \in X
  BY LenProperties, ElementOfSeq
<1>3. ASSUME NEW k \in 0..Len(s) PROVE SubSeq(s, 1, k) \in Seq(X) /\ Len(SubSeq(s, 1, k)) = k
  <2>1. k \in Nat /\ k <= Len(s)
    BY <1>2
  <2>2. Take(s, k) = SubSeq(s, 1, k)
    BY <2>1 DEF Take, MinOf
  <2>3. Take(s, k) \in Seq(X) /\ Len(Take(s, k)) = k
    BY <2>1, TakeFacts
  <2>. QED
    BY <2>2, <2>3
<1>4. ASSUME NEW k \in 1..Len(s) PROVE SubSeq(s, 1, k) = Append(SubSeq(s, 1, k - 1), s[k])
  <2>1. SubSeq(s, 1, k) = SubSeq(s, 1, k - 1) \o <<s[k]>>
    <3> DEFINE one == 1
    <3>1. one \in 1..Len(s) /\ k \in one..Len(s)
      BY <1>2
    <3> HIDE DEF one
    <3>2. SubSeq(s, one, k) = SubSeq(s, one, k - 1) \o <<s[k]>>
      BY <3>1, SubSeqRecursiveSecond
    <3>. QED
      BY <3>2 DEF one
  <2>2. k - 1 \in 0..Len(s) /\ s[k] \in X
    BY <1>2
  <2>3. SubSeq(s, 1, k - 1) \in Seq(X)
    BY <1>3, <2>2
  <2>. QED
    BY <2>1, <2>2, <2>3, AppendIsConcat
<1>5. ASSUME NEW k \in 0..Len(s)-1
      PROVE  SubSeq(s, 1, k + 1) = Append(SubSeq(s, 1, k), s[k + 1]) /\ s[k + 1] \in X
  <2> DEFINE j == k + 1
  <2>1. j \in 1..Len(s) /\ j - 1 = k
    BY <1>2
  <2> HIDE DEF j
  <2>2. SubSeq(s, 1, j) = Append(SubSeq(s, 1, j - 1), s[j]) /\ s[j] \in X
    BY <1>2, <1>4, <2>1
  <2>. QED
    BY <2>1, <2>2 DEF j
<1>. QED
  BY <1>1, <1>2, <1>3, <1>4, <1>5

\* The bytes of one iov.
RunOf(v) == [k \in 1..v.len |-> v.base + k - 1]

LEMMA RunOfFacts ==
    ASSUME NEW v \in Iov
    PROVE  /\ RunOf(v) \in Seq(Nat) /\ Len(RunOf(v)) = v.len /\ v.len \in Nat /\ v.base \in Nat
           /\ \A k \in 1..v.len : RunOf(v)[k] = v.base + k - 1
<1> DEFINE b == v.base
           n == v.len
           f == [k \in 1..n |-> b + k - 1]
<1>1. b \in Nat /\ n \in Nat
  BY DEF Iov
<1>2. RunOf(v) = f
  BY DEF RunOf
<1> HIDE DEF b, n
<1>3. f \in [1..n -> Nat]
  <2>1. \A k \in 1..n : b + k - 1 \in Nat
    BY <1>1
  <2>. QED
    BY <2>1
<1>4. f \in Seq(Nat) /\ Len(f) = n
  <2>1. DOMAIN f = 1..n
    OBVIOUS
  <2> HIDE DEF f
  <2>2. f \in Seq(Nat)
    BY <1>1, <1>3, SeqDef
  <2>3. Len(f) = n
    BY <1>1, <2>1, <2>2, LenProperties
  <2>. QED
    BY <2>2, <2>3
<1>5. \A k \in 1..n : f[k] = b + k - 1
  OBVIOUS
<1> HIDE DEF f
<1>. QED
  BY <1>1, <1>2, <1>4, <1>5 DEF b, n

RunsOf(v) == [i \in DOMAIN v |-> [k \in 1..v[i].len |-> v[i].base + k - 1]]

LEMMA RunsFacts ==
    ASSUME NEW v \in Seq(Iov)
    PROVE  /\ RunsOf(v) \in Seq(Seq(Nat)) /\ Len(RunsOf(v)) = Len(v)
           /\ \A i \in 1..Len(v) : RunsOf(v)[i] = RunOf(v[i]) /\ v[i] \in Iov
           /\ Bytes(v) = FlattenSeq(RunsOf(v))
<1> DEFINE n == Len(v)
           f == [i \in 1..n |-> RunOf(v[i])]
           S == Seq(Nat)
<1>1. n \in Nat /\ DOMAIN v = 1..n /\ \A i \in 1..n : v[i] \in Iov
  BY LenProperties, ElementOfSeq
<1>2. RunsOf(v) = f
  BY <1>1 DEF RunsOf, RunOf
<1>3. \A i \in 1..n : RunOf(v[i]) \in S
  BY <1>1, RunOfFacts
<1> HIDE DEF n, S
<1>4. f \in [1..n -> S] /\ DOMAIN f = 1..n
  BY <1>3
<1>5. \A i \in 1..n : f[i] = RunOf(v[i])
  OBVIOUS
<1> HIDE DEF f
<1>6. f \in Seq(S)
  BY <1>1, <1>4, SeqDef
<1>7. Len(f) = n
  BY <1>1, <1>4, <1>6, LenProperties
<1>8. Bytes(v) = FlattenSeq(RunsOf(v))
  BY DEF Bytes, RunsOf
<1>. QED
  BY <1>1, <1>2, <1>5, <1>6, <1>7, <1>8 DEF n, S

LEMMA BytesAppend ==
    ASSUME NEW v \in Seq(Iov), NEW x \in Iov
    PROVE  /\ Bytes(v) \in Seq(Nat) /\ Bytes(Append(v, x)) = Bytes(v) \o RunOf(x)
           /\ Len(Bytes(Append(v, x))) = Len(Bytes(v)) + x.len /\ Len(Bytes(v)) \in Nat
<1> DEFINE va == Append(v, x)
           r == RunsOf(v)
           S == Seq(Nat)
           n == Len(v)
           rx == RunOf(x)
<1>1. /\ va \in Seq(Iov) /\ Len(va) = n + 1 /\ n \in Nat
      /\ (\A i \in 1..n : va[i] = v[i]) /\ va[n + 1] = x
  BY AppendProperties, LenProperties
<1> HIDE DEF va
<1>2. /\ r \in Seq(S) /\ Len(r) = n /\ \A i \in 1..n : r[i] = RunOf(v[i])
      /\ Bytes(v) = FlattenSeq(r)
  BY RunsFacts
<1>3. /\ RunsOf(va) \in Seq(S) /\ Len(RunsOf(va)) = n + 1
      /\ \A i \in 1..n+1 : RunsOf(va)[i] = RunOf(va[i])
      /\ Bytes(va) = FlattenSeq(RunsOf(va))
  <2>1. /\ RunsOf(va) \in Seq(S) /\ Len(RunsOf(va)) = Len(va)
        /\ \A i \in 1..Len(va) : RunsOf(va)[i] = RunOf(va[i])
        /\ Bytes(va) = FlattenSeq(RunsOf(va))
    BY <1>1, RunsFacts
  <2>. QED
    BY <1>1, <2>1
<1>4. rx \in S /\ Len(rx) = x.len
  BY RunOfFacts
<1> DEFINE ra == RunsOf(va)
           rb == Append(r, rx)
<1> HIDE DEF r, ra, rx, n, S
<1>5. /\ rb \in Seq(S) /\ Len(rb) = n + 1
      /\ (\A i \in 1..n : rb[i] = r[i]) /\ rb[n + 1] = rx
  <2>1. /\ rb \in Seq(S) /\ Len(rb) = Len(r) + 1
        /\ (\A i \in 1..Len(r) : rb[i] = r[i]) /\ rb[Len(r) + 1] = rx
    BY <1>2, <1>4, AppendProperties
  <2> HIDE DEF rb
  <2>. QED
    BY <1>2, <2>1
<1> HIDE DEF rb
<1>6. \A i \in 1..n+1 : ra[i] = rb[i]
  <2>1. ASSUME NEW i \in 1..n+1 PROVE ra[i] = rb[i]
    <3>1. CASE i \in 1..n
      BY <1>1, <1>2, <1>3, <1>5, <2>1, <3>1 DEF ra
    <3>2. CASE i = n + 1
      BY <1>1, <1>3, <1>5, <2>1, <3>2 DEF ra, rx
    <3>. QED
      BY <1>1, <3>1, <3>2
  <2>. QED
    BY <2>1
<1>7. ra = rb
  <2>1. ra \in Seq(S) /\ Len(ra) = n + 1
    BY <1>3 DEF ra
  <2>. QED
    BY <1>5, <1>6, <2>1, SeqEqual
<1>8. FlattenSeq(rb) = FlattenSeq(r) \o rx /\ FlattenSeq(r) \in S
  <2>1. FlattenSeq(Append(r, rx)) = FlattenSeq(r) \o rx /\ FlattenSeq(r) \in Seq(Nat)
    BY <1>2, <1>4, FlattenAppend DEF S
  <2>. QED
    BY <2>1 DEF rb, S
<1>9. Bytes(va) = Bytes(v) \o rx /\ Bytes(v) \in Seq(Nat)
  BY <1>2, <1>3, <1>7, <1>8 DEF ra, S
<1>10. Len(Bytes(v) \o rx) = Len(Bytes(v)) + x.len /\ Len(Bytes(v)) \in Nat
  <2> DEFINE bv == Bytes(v)
  <2> HIDE DEF bv
  <2>1. bv \in Seq(Nat) /\ rx \in Seq(Nat)
    BY <1>4, <1>9 DEF S, bv
  <2>2. Len(bv \o rx) = Len(bv) + Len(rx) /\ Len(bv) \in Nat
    BY <2>1, ConcatProperties, LenProperties
  <2>. QED
    BY <1>4, <2>2 DEF bv
<1>. QED
  BY <1>9, <1>10 DEF va, rx

LEMMA BytesEmpty == Bytes(<<>>) = <<>>
<1>1. Len(<<>>) = 0 /\ DOMAIN <<>> = {}
  OBVIOUS
<1>2. RunsOf(<<>>) = <<>>
  BY <1>1 DEF RunsOf
<1>3. Bytes(<<>>) = FlattenSeq(RunsOf(<<>>))
  BY DEF Bytes, RunsOf
<1>4. FlattenSeq(<<>>) = <<>>
  BY <1>1 DEF FlattenSeq
<1>. QED
  BY <1>2, <1>3, <1>4

LEMMA BytesConcat ==
    ASSUME NEW v \in Seq(Iov), NEW u \in Seq(Iov)
    PROVE  Bytes(v \o u) = Bytes(v) \o Bytes(u)
<1> DEFINE n == Len(u)
           p(k) == SubSeq(u, 1, k)
           Good == {k \in 0..n : Bytes(v \o p(k)) = Bytes(v) \o Bytes(p(k))}
<1>0. /\ n \in Nat /\ p(0) = <<>> /\ p(n) = u
      /\ \A k \in 0..n : p(k) \in Seq(Iov)
      /\ \A k \in 0..n-1 : p(k + 1) = Append(p(k), u[k + 1]) /\ u[k + 1] \in Iov
  BY PrefixesGrow, LenProperties
<1>1. 0 \in Good
  <2>1. v \o <<>> = v /\ Bytes(v) \o <<>> = Bytes(v)
    <3>1. Bytes(v) \in Seq(Nat)
      <4>1. [base |-> 0, len |-> 0] \in Iov
        BY DEF Iov
      <4>. QED
        BY <4>1, BytesAppend
    <3>. QED
      BY <3>1, ConcatEmptySeq
  <2>2. Bytes(v \o p(0)) = Bytes(v) \o Bytes(p(0))
    <3> HIDE DEF p
    <3>. QED
      BY <1>0, <2>1, BytesEmpty
  <2>. QED
    BY <1>0, <2>2
<1>2. ASSUME NEW k \in 0..(n - 1), k \in Good PROVE k + 1 \in Good
  <2> DEFINE a == p(k)
             x == u[k + 1]
  <2>1. p(k + 1) = Append(a, x) /\ x \in Iov /\ a \in Seq(Iov) /\ k + 1 \in 0..n
    <3>1. k \in 0..n-1 /\ k \in 0..n /\ k + 1 \in 0..n
      BY <1>0
    <3> HIDE DEF p, n
    <3>. QED
      BY <1>0, <3>1
  <2>2. Bytes(v \o a) = Bytes(v) \o Bytes(a)
    BY <1>2
  <2> HIDE DEF a, x, n
  <2>3. v \o Append(a, x) = Append(v \o a, x) /\ v \o a \in Seq(Iov)
    <3>1. <<x>> \in Seq(Iov) /\ v \o a \in Seq(Iov)
      BY <2>1, ConcatProperties
    <3>2. Append(a, x) = a \o <<x>> /\ Append(v \o a, x) = (v \o a) \o <<x>>
      BY <2>1, <3>1, AppendIsConcat
    <3>. QED
      BY <2>1, <3>1, <3>2, ConcatAssociative
  <2>4. Bytes(Append(v \o a, x)) = Bytes(v \o a) \o RunOf(x)
    BY <2>1, <2>3, BytesAppend
  <2>5. Bytes(Append(a, x)) = Bytes(a) \o RunOf(x) /\ Bytes(a) \in Seq(Nat) /\ Bytes(v) \in Seq(Nat)
    BY <2>1, BytesAppend
  <2>6. RunOf(x) \in Seq(Nat)
    BY <2>1, RunOfFacts
  <2>7. (Bytes(v) \o Bytes(a)) \o RunOf(x) = Bytes(v) \o (Bytes(a) \o RunOf(x))
    <3> DEFINE bv == Bytes(v)
               ba == Bytes(a)
               rx == RunOf(x)
    <3>1. bv \in Seq(Nat) /\ ba \in Seq(Nat) /\ rx \in Seq(Nat)
      BY <2>5, <2>6
    <3> HIDE DEF bv, ba, rx
    <3>2. (bv \o ba) \o rx = bv \o (ba \o rx)
      BY <3>1, ConcatAssociative, SMTT(20)
    <3>. QED
      BY <3>2 DEF bv, ba, rx
  <2>8. Bytes(v \o p(k + 1)) = Bytes(v) \o Bytes(p(k + 1))
    <3> HIDE DEF p
    <3>. QED
      BY <2>1, <2>2, <2>3, <2>4, <2>5, <2>7
  <2>. QED
    BY <2>1, <2>8
<1>3. n \in Good
  <2> HIDE DEF n, Good, p
  <2>1. \A k \in 0..n : k \in Good
    BY <1>0, <1>1, <1>2, Induction
  <2>. QED
    BY <1>0, <2>1
<1>. QED
  BY <1>0, <1>3

\* niova_io_iovs_total_size_get().
LEMMA TotalValues ==
    ASSUME NEW v \in Seq(Iov), NEW n, n = Len(v)
    PROVE  \E f : /\ f \in [0..n -> Nat] /\ f[0] = 0 /\ f[n] = total_size(v)
                  /\ \A k \in 1..n : f[k] = f[k - 1] + v[k].len
<1> DEFINE N == Nat
           zero == 0
           D == 1..n
           g == [k \in D |-> [b \in N |-> b + v[k].len]]
           IsFold(it) == it = [t \in SUBSET (DOMAIN v) |->
                                 IF t = {} THEN 0 ELSE it[t \ {Max(t)}] + v[Max(t)].len]
           jt == CHOOSE it : IsFold(it)
<1>1. n \in Nat /\ DOMAIN v = D /\ \A k \in D : v[k].len \in Nat
  <2>1. n \in Nat /\ DOMAIN v = D /\ \A k \in D : v[k] \in Iov
    BY LenProperties, ElementOfSeq
  <2>. QED
    BY <2>1 DEF Iov
<1>2. Steps(g, D, N) /\ zero \in N
  <2> HIDE DEF D
  <2>1. \A k \in D : \A b \in N : b + v[k].len \in N
    BY <1>1
  <2>. QED
    BY <2>1 DEF Steps
<1>3. \A t \in SUBSET D : t # {} => Max(t) \in D
  <2>1. \A t \in SUBSET D : t # {} => Max(t) \in t
    BY <1>1, MaxOfPositions
  <2> HIDE DEF D
  <2>. QED
    BY <2>1
<1>4. \A k \in D : \A b \in N : g[k][b] = b + v[k].len
  <2> HIDE DEF D, N
  <2>. QED
    OBVIOUS
<1>5. PICK it \in [SUBSET D -> N] : FoldsBack(it, zero, g, n, N)
  <2>1. \E it \in [SUBSET (1..n) -> N] : FoldsBack(it, zero, g, n, N)
    <3>1. Steps(g, 1..n, N)
      BY <1>2 DEF D
    <3> HIDE DEF g, N, zero, D
    <3>. QED
      BY <1>1, <1>2, <3>1, FoldExists
  <2>. QED
    BY <2>1 DEF D
<1>6. \A t \in SUBSET D :
         it[t] = IF t = {} THEN 0 ELSE it[t \ {Max(t)}] + v[Max(t)].len
  <2>1. ASSUME NEW t \in SUBSET D, t # {} PROVE it[t] = it[t \ {Max(t)}] + v[Max(t)].len
    <3>1. it[t \ {Max(t)}] \in N
      <4> HIDE DEF D, N
      <4>. QED
        BY <1>5
    <3>2. it[t] = g[Max(t)][it[t \ {Max(t)}]]
      BY <1>5, <2>1, <3>1 DEF FoldsBack, D
    <3> HIDE DEF g, D, N
    <3>. QED
      BY <1>3, <1>4, <2>1, <3>1, <3>2
  <2>2. it[{}] = 0
    BY <1>5 DEF FoldsBack
  <2> HIDE DEF D
  <2>. QED
    BY <2>1, <2>2
<1>7. IsFold(it)
  <2> HIDE DEF D
  <2>. QED
    BY <1>1, <1>5, <1>6
<1>8. IsFold(jt)
  <2> HIDE DEF IsFold
  <2>. QED
    BY <1>7
<1>9. total_size(v) = jt[D]
  <2>1. total_size(v) = jt[DOMAIN v]
    BY DEF total_size, FoldLeft, MapThenFoldSet
  <2>. QED
    BY <1>1, <2>1
<1>10. FoldsBack(jt, zero, g, n, N)
  <2>1. \A t \in SUBSET D :
           jt[t] = IF t = {} THEN 0 ELSE jt[t \ {Max(t)}] + v[Max(t)].len
    <3> HIDE DEF jt, D
    <3>. QED
      BY <1>1, <1>8
  <2> HIDE DEF jt, g, D, N
  <2>2. ASSUME NEW t \in SUBSET D, t # {}, jt[t \ {Max(t)}] \in N
        PROVE  jt[t] = g[Max(t)][jt[t \ {Max(t)}]]
    BY <1>3, <1>4, <2>1, <2>2
  <2>3. jt[{}] = 0
    BY <2>1
  <2>. QED
    BY <2>2, <2>3 DEF FoldsBack, D
<1>11. PICK f : ValuesUpTo(f, zero, g, n, N) /\ f[n] = jt[1..n]
  <2>1. Steps(g, 1..n, N)
    BY <1>2 DEF D
  <2> HIDE DEF jt, g, D, N, zero
  <2>. QED
    BY <1>1, <1>2, <1>10, <2>1, FoldValues
<1>12. f \in [0..n -> Nat] /\ f[0] = 0
  BY <1>11 DEF ValuesUpTo
<1>13. \A k \in 1..n : f[k] = f[k - 1] + v[k].len
  <2>1. \A k \in 1..n : f[k - 1] \in Nat /\ f[k] = g[k][f[k - 1]]
    <3> HIDE DEF g, jt
    <3>1. \A k \in 1..n : k - 1 \in 0..n /\ f[k] = g[k][f[k - 1]]
      BY <1>1, <1>11 DEF ValuesUpTo
    <3>. QED
      BY <1>12, <3>1
  <2> HIDE DEF g, jt
  <2>. QED
    BY <1>4, <2>1 DEF D
<1>. QED
  BY <1>9, <1>11, <1>12, <1>13 DEF D

LEMMA TotalIsLen ==
    ASSUME NEW v \in Seq(Iov)
    PROVE  total_size(v) = Len(Bytes(v)) /\ total_size(v) \in Nat /\ Bytes(v) \in Seq(Nat)
<1> DEFINE n == Len(v)
           p(k) == SubSeq(v, 1, k)
<1>0. /\ n \in Nat /\ p(0) = <<>> /\ p(n) = v
      /\ \A k \in 0..n : p(k) \in Seq(Iov)
      /\ \A k \in 0..n-1 : p(k + 1) = Append(p(k), v[k + 1]) /\ v[k + 1] \in Iov
  BY PrefixesGrow, LenProperties
<1>1. PICK f : /\ f \in [0..n -> Nat] /\ f[0] = 0 /\ f[n] = total_size(v)
               /\ \A k \in 1..n : f[k] = f[k - 1] + v[k].len
  <2> DEFINE m == n
  <2>1. m = Len(v)
    OBVIOUS
  <2> HIDE DEF m
  <2>2. \E f : /\ f \in [0..m -> Nat] /\ f[0] = 0 /\ f[m] = total_size(v)
               /\ \A k \in 1..m : f[k] = f[k - 1] + v[k].len
    BY <2>1, TotalValues
  <2>. QED
    BY <2>2 DEF m
<1> DEFINE Good == {k \in 0..n : f[k] = Len(Bytes(p(k)))}
<1>2. 0 \in Good
  <2>1. Len(Bytes(<<>>)) = 0
    BY BytesEmpty
  <2>2. f[0] = Len(Bytes(p(0)))
    <3> HIDE DEF p
    <3>. QED
      BY <1>0, <1>1, <2>1
  <2>. QED
    BY <1>0, <2>2
<1>3. ASSUME NEW k \in 0..(n - 1), k \in Good PROVE k + 1 \in Good
  <2>1. /\ k + 1 \in 1..n /\ k + 1 - 1 = k /\ k + 1 \in 0..n /\ k \in 0..n /\ k \in 0..n-1
    BY <1>0
  <2>2. f[k] = Len(Bytes(p(k)))
    BY <1>3
  <2> HIDE DEF p, n, Good
  <2>3. Len(Bytes(p(k + 1))) = Len(Bytes(p(k))) + v[k + 1].len
    <3>1. p(k + 1) = Append(p(k), v[k + 1]) /\ v[k + 1] \in Iov /\ p(k) \in Seq(Iov)
      BY <1>0, <2>1
    <3>. QED
      BY <3>1, BytesAppend
  <2>4. f[k + 1] = f[k] + v[k + 1].len
    BY <1>1, <2>1
  <2>5. f[k + 1] = Len(Bytes(p(k + 1)))
    BY <2>2, <2>3, <2>4
  <2>. QED
    BY <2>1, <2>5 DEF Good
<1>4. n \in Good
  <2> HIDE DEF n, Good, p
  <2>1. \A k \in 0..n : k \in Good
    BY <1>0, <1>2, <1>3, Induction
  <2>. QED
    BY <1>0, <2>1
<1>5. Bytes(v) \in Seq(Nat)
  <2>1. [base |-> 0, len |-> 0] \in Iov
    BY DEF Iov
  <2>. QED
    BY <2>1, BytesAppend
<1>6. total_size(v) = Len(Bytes(v))
  <2>1. f[n] = Len(Bytes(p(n)))
    BY <1>4
  <2> HIDE DEF p, n
  <2>. QED
    BY <1>0, <1>1, <2>1
<1>. QED
  BY <1>5, <1>6, LenProperties

\* A part of an iov.
LEMMA PartRun ==
    ASSUME NEW v \in Iov, NEW a \in Nat, NEW b \in Nat, a + b <= v.len
    PROVE  /\ Part(v, a, b) \in Iov /\ Part(v, a, b).len = b
           /\ RunOf(Part(v, a, b)) = Take(Drop(RunOf(v), a), b)
           /\ a + b = v.len => RunOf(Part(v, a, b)) = Drop(RunOf(v), a)
<1> DEFINE p == Part(v, a, b)
           R == RunOf(v)
           d == Drop(R, a)
           t == Take(d, b)
           q == RunOf(p)
           n == v.len
           w == v.base
<1>1. n \in Nat /\ w \in Nat
  BY DEF Iov
<1>2. p \in Iov /\ p.len = b /\ p.base = w + a
  BY <1>1 DEF Part, Iov
<1> HIDE DEF p
<1>3. R \in Seq(Nat) /\ Len(R) = n /\ \A k \in 1..n : R[k] = w + k - 1
  BY RunOfFacts
<1> HIDE DEF R, n, w
<1>4. /\ d \in Seq(Nat) /\ Len(d) = n - a
      /\ \A i \in Nat : 1 <= i /\ a + i <= n => d[i] = R[a + i]
  <2>1. /\ Drop(R, a) \in Seq(Nat) /\ Len(Drop(R, a)) = IF a <= Len(R) THEN Len(R) - a ELSE 0
        /\ \A i \in Nat : 1 <= i /\ a + i <= Len(R) => Drop(R, a)[i] = R[a + i]
    BY <1>3, DropFacts
  <2>2. a <= n
    BY <1>1 DEF n
  <2>. QED
    BY <1>1, <1>3, <2>1, <2>2
<1>5. /\ q \in Seq(Nat) /\ Len(q) = b /\ \A k \in 1..b : q[k] = w + a + k - 1
  <2>1. /\ RunOf(p) \in Seq(Nat) /\ Len(RunOf(p)) = p.len
        /\ \A k \in 1..p.len : RunOf(p)[k] = p.base + k - 1
    BY <1>2, RunOfFacts
  <2>. QED
    BY <1>2, <2>1
<1>0. a + b <= n
  BY DEF n
<1> HIDE DEF d, q
<1>6. t \in Seq(Nat) /\ Len(t) = b /\ \A i \in 1..b : t[i] = d[i]
  <2>1. /\ Take(d, b) \in Seq(Nat) /\ Len(Take(d, b)) = IF b <= Len(d) THEN b ELSE Len(d)
        /\ \A i \in 1..Len(d) : i <= b => Take(d, b)[i] = d[i]
    BY <1>4, TakeFacts
  <2>2. b <= n - a /\ \A i \in 1..b : i \in 1..n - a /\ i <= b
    BY <1>0, <1>1
  <2>3. b <= Len(d) /\ \A i \in 1..b : i \in 1..Len(d) /\ i <= b
    BY <1>4, <2>2
  <2>. QED
    BY <2>1, <2>3
<1> HIDE DEF t
<1>7. \A i \in 1..b : q[i] = d[i]
  <2>1. ASSUME NEW i \in 1..b PROVE q[i] = d[i]
    <3>1. i \in Nat /\ 1 <= i /\ a + i <= n /\ a + i \in 1..n
      BY <1>0, <1>1
    <3>2. d[i] = w + (a + i) - 1
      BY <1>3, <1>4, <3>1
    <3>. QED
      BY <1>1, <1>5, <2>1, <3>1, <3>2
  <2>. QED
    BY <2>1
<1>8. q = t
  BY <1>5, <1>6, <1>7, SeqEqual
<1>9. a + b = n => q = d
  <2> SUFFICES ASSUME a + b = n PROVE q = d
    OBVIOUS
  <2>1. Len(d) = b
    BY <1>1, <1>4
  <2>. QED
    BY <1>4, <1>5, <1>7, <2>1, SeqEqual
<1>. QED
  BY <1>2, <1>8, <1>9 DEF p, q, t, d, R, n

\* The prefixes of an array, one iov after the other.
Prefix(v, k) == SubSeq(v, 1, k)

LEMMA PrefixBytes ==
    ASSUME NEW v \in Seq(Iov)
    PROVE  /\ Len(v) \in Nat /\ Bytes(Prefix(v, 0)) = <<>> /\ Bytes(Prefix(v, Len(v))) = Bytes(v)
           /\ \A k \in 0..Len(v) : Prefix(v, k) \in Seq(Iov) /\ Bytes(Prefix(v, k)) \in Seq(Nat)
           /\ \A k \in 0..Len(v)-1 :
                 v[k + 1] \in Iov
                 /\ Bytes(Prefix(v, k + 1)) = Bytes(Prefix(v, k)) \o RunOf(v[k + 1])
<1>1. /\ Len(v) \in Nat /\ Prefix(v, 0) = <<>> /\ Prefix(v, Len(v)) = v
      /\ \A k \in 0..Len(v) : Prefix(v, k) \in Seq(Iov)
      /\ \A k \in 0..Len(v)-1 : Prefix(v, k + 1) = Append(Prefix(v, k), v[k + 1]) /\ v[k + 1] \in Iov
  BY PrefixesGrow, LenProperties DEF Prefix
<1>2. \A k \in 0..Len(v) : Bytes(Prefix(v, k)) \in Seq(Nat)
  BY <1>1, TotalIsLen
<1>3. ASSUME NEW k \in 0..Len(v)-1
      PROVE  Bytes(Prefix(v, k + 1)) = Bytes(Prefix(v, k)) \o RunOf(v[k + 1])
  <2>1. Prefix(v, k) \in Seq(Iov) /\ v[k + 1] \in Iov /\ Prefix(v, k + 1) = Append(Prefix(v, k), v[k + 1])
    BY <1>1
  <2>. QED
    BY <2>1, BytesAppend
<1>. QED
  BY <1>1, <1>2, <1>3, BytesEmpty

-------------------------------------------------------------------------------
\* niova_io_iovs_map_consumed2().

MapStates(max) ==
    {m \in [done : Nat, left : Int, dest : Seq(Iov), n : Nat, stop : BOOLEAN] :
       max > 0 /\ ~m.stop => m.left > 0}
MapStart(done, max) == [done |-> done, left |-> max, dest |-> <<>>, n |-> 0, stop |-> FALSE]

LEMMA MapStep ==
    ASSUME NEW max \in Int, NEW nd \in Nat, NEW m \in MapStates(max), NEW v \in Iov
    PROVE  MapIov(m, v, max, nd) \in MapStates(max)
<1>1. /\ m = [done |-> m.done, left |-> m.left, dest |-> m.dest, n |-> m.n, stop |-> m.stop]
      /\ m.done \in Nat /\ m.left \in Int /\ m.dest \in Seq(Iov) /\ m.n \in Nat
      /\ m.stop \in BOOLEAN /\ (max > 0 /\ ~m.stop => m.left > 0)
  BY DEF MapStates
<1>2. v.len \in Nat
  BY DEF Iov
<1> DEFINE len == v.len - m.done
           left == m.left - len
           over == max > 0 /\ left <= 0
           part == Part(v, m.done, IF over THEN len + left ELSE len)
<1>3. CASE m.stop
  BY <1>3 DEF MapIov
<1>4. CASE ~m.stop /\ m.done >= v.len
  <2>1. MapIov(m, v, max, nd) =
          [done |-> m.done - v.len, left |-> m.left, dest |-> m.dest, n |-> m.n, stop |-> m.stop]
    BY <1>1, <1>4 DEF MapIov
  <2>. QED
    BY <1>1, <1>2, <1>4, <2>1 DEF MapStates
<1>5. CASE ~m.stop /\ ~(m.done >= v.len) /\ m.n = nd
  <2>1. MapIov(m, v, max, nd) =
          [done |-> m.done, left |-> m.left, dest |-> m.dest, n |-> m.n + 1, stop |-> TRUE]
    BY <1>1, <1>5 DEF MapIov
  <2>. QED
    BY <1>1, <1>2, <1>5, <2>1 DEF MapStates
<1>6. CASE ~m.stop /\ ~(m.done >= v.len) /\ m.n # nd
  <2>1. MapIov(m, v, max, nd) =
          [done |-> 0, left |-> left, n |-> m.n + 1, stop |-> over,
           dest |-> Append(m.dest, part)]
    BY <1>6 DEF MapIov
  <2>2. len \in Nat /\ left \in Int /\ over \in BOOLEAN
        /\ (over => len + left = m.left /\ m.left \in Nat /\ m.left <= len)
    BY <1>1, <1>2, <1>6
  <2>3. part \in Iov
    <3> DEFINE b == IF over THEN len + left ELSE len
    <3>0. m.done + len = v.len /\ m.done \in Nat /\ len \in Nat
      BY <1>1, <1>2, <2>2
    <3>1. b \in Nat /\ m.done + b <= v.len
      <4> DEFINE d == m.done
                 l == m.left
      <4>1. d + len = v.len /\ d \in Nat /\ len \in Nat
        BY <3>0
      <4>2. over => len + left = l /\ l \in Nat /\ l <= len
        BY <2>2
      <4> HIDE DEF d, l, len, left, over
      <4>3. b \in Nat /\ d + b <= v.len
        BY <4>1, <4>2
      <4>. QED
        BY <4>3 DEF d
    <3> HIDE DEF b
    <3>2. Part(v, m.done, b) \in Iov
      BY <1>1, <3>1, PartRun
    <3>. QED
      BY <3>2 DEF b
  <2>4. Append(m.dest, part) \in Seq(Iov)
    <3> HIDE DEF part
    <3>. QED
      BY <1>1, <2>3, AppendProperties
  <2> HIDE DEF part, len
  <2>5. max > 0 /\ ~over => left > 0
    BY <2>2
  <2> HIDE DEF left, over
  <2>. QED
    BY <1>1, <2>1, <2>2, <2>4, <2>5 DEF MapStates
<1>. QED
  BY <1>3, <1>4, <1>5, <1>6

MapFold(v, done, max, nd) ==
    FoldLeft(LAMBDA a, x : MapIov(a, x, max, nd),
             [done |-> done, left |-> max, dest |-> <<>>, n |-> 0, stop |-> FALSE], v)
MapValuesOf(f, v, n, done, max, nd, r) ==
    /\ f \in [0..n -> MapStates(max)] /\ f[0] = MapStart(done, max) /\ f[n] = r
    /\ \A k \in 1..n : f[k] = MapIov(f[k - 1], v[k], max, nd)

LEMMA MapValues ==
    ASSUME NEW v \in Seq(Iov), NEW n, n = Len(v), NEW max \in Int, NEW nd \in Nat,
           NEW done \in Nat, NEW r, r = MapFold(v, done, max, nd)
    PROVE  \E f : MapValuesOf(f, v, n, done, max, nd, r)
<1> DEFINE B == MapStates(max)
           zero == [done |-> done, left |-> max, dest |-> <<>>, n |-> 0, stop |-> FALSE]
           D == 1..n
           g == [k \in D |-> [b \in B |-> MapIov(b, v[k], max, nd)]]
           IsFold(it) == it = [t \in SUBSET (DOMAIN v) |->
                                 IF t = {} THEN zero
                                 ELSE MapIov(it[t \ {Max(t)}], v[Max(t)], max, nd)]
           jt == CHOOSE it : IsFold(it)
<1>1. n \in Nat /\ DOMAIN v = D /\ \A k \in D : v[k] \in Iov
  BY LenProperties, ElementOfSeq
<1>2. Steps(g, D, B) /\ zero \in B
  <2>1. zero \in B
    <3>1. <<>> \in Seq(Iov)
      BY EmptySeq
    <3>. QED
      BY <3>1 DEF MapStates
  <2>2. \A k \in D : \A b \in B : MapIov(b, v[k], max, nd) \in B
    <3> HIDE DEF D
    <3>. QED
      BY <1>1, MapStep
  <2> HIDE DEF D, B
  <2>3. Steps(g, D, B)
    BY <2>2 DEF Steps
  <2>. QED
    BY <2>1, <2>3
<1>3. \A t \in SUBSET D : t # {} => Max(t) \in D
  <2>1. \A t \in SUBSET D : t # {} => Max(t) \in t
    BY <1>1, MaxOfPositions
  <2> HIDE DEF D
  <2>. QED
    BY <2>1
<1>4. \A k \in D : \A b \in B : g[k][b] = MapIov(b, v[k], max, nd)
  <2> HIDE DEF D, B
  <2>. QED
    OBVIOUS
<1>5. PICK it \in [SUBSET D -> B] : FoldsBack(it, zero, g, n, B)
  <2>1. \E it \in [SUBSET (1..n) -> B] : FoldsBack(it, zero, g, n, B)
    <3>1. Steps(g, 1..n, B)
      BY <1>2 DEF D
    <3> HIDE DEF g, B, zero, D
    <3>. QED
      BY <1>1, <1>2, <3>1, FoldExists
  <2>. QED
    BY <2>1 DEF D
<1>6. \A t \in SUBSET D :
         it[t] = IF t = {} THEN zero ELSE MapIov(it[t \ {Max(t)}], v[Max(t)], max, nd)
  <2>1. ASSUME NEW t \in SUBSET D, t # {}
        PROVE  it[t] = MapIov(it[t \ {Max(t)}], v[Max(t)], max, nd)
    <3>1. it[t \ {Max(t)}] \in B
      <4> HIDE DEF D, B
      <4>. QED
        BY <1>5
    <3>2. it[t] = g[Max(t)][it[t \ {Max(t)}]]
      BY <1>5, <2>1, <3>1 DEF FoldsBack, D
    <3> HIDE DEF g, D, B
    <3>. QED
      BY <1>3, <1>4, <2>1, <3>1, <3>2
  <2>2. it[{}] = zero
    BY <1>5 DEF FoldsBack
  <2> HIDE DEF D, zero
  <2>. QED
    BY <2>1, <2>2
<1>7. IsFold(it)
  <2> HIDE DEF D, zero
  <2>. QED
    BY <1>1, <1>5, <1>6
<1>8. IsFold(jt)
  <2> HIDE DEF IsFold
  <2>. QED
    BY <1>7
<1>9. r = jt[D]
  <2>1. r = jt[DOMAIN v]
    BY DEF MapFold, FoldLeft, MapThenFoldSet
  <2>. QED
    BY <1>1, <2>1
<1>10. FoldsBack(jt, zero, g, n, B)
  <2>1. \A t \in SUBSET D :
           jt[t] = IF t = {} THEN zero ELSE MapIov(jt[t \ {Max(t)}], v[Max(t)], max, nd)
    <3> HIDE DEF jt, D, zero
    <3>. QED
      BY <1>1, <1>8
  <2> HIDE DEF jt, g, D, B, zero
  <2>2. ASSUME NEW t \in SUBSET D, t # {}, jt[t \ {Max(t)}] \in B
        PROVE  jt[t] = g[Max(t)][jt[t \ {Max(t)}]]
    BY <1>3, <1>4, <2>1, <2>2
  <2>3. jt[{}] = zero
    BY <2>1
  <2>. QED
    BY <2>2, <2>3 DEF FoldsBack, D
<1>11. PICK f : ValuesUpTo(f, zero, g, n, B) /\ f[n] = jt[1..n]
  <2>1. Steps(g, 1..n, B)
    BY <1>2 DEF D
  <2> HIDE DEF jt, g, D, B, zero
  <2>. QED
    BY <1>1, <1>2, <1>10, <2>1, FoldValues
<1>12. f \in [0..n -> B] /\ f[0] = zero
  BY <1>11 DEF ValuesUpTo
<1>13. \A k \in 1..n : f[k] = MapIov(f[k - 1], v[k], max, nd)
  <2>1. \A k \in 1..n : f[k - 1] \in B /\ f[k] = g[k][f[k - 1]]
    <3> HIDE DEF g, jt, B
    <3>1. \A k \in 1..n : k - 1 \in 0..n /\ f[k] = g[k][f[k - 1]]
      BY <1>1, <1>11 DEF ValuesUpTo
    <3>. QED
      BY <1>12, <3>1
  <2> HIDE DEF g, jt, B
  <2>. QED
    BY <1>4, <2>1 DEF D
<1>. QED
  BY <1>9, <1>11, <1>12, <1>13 DEF D, MapValuesOf, MapStart

\* Behind k iovs whose bytes are S: what is mapped of the bytes past done.
MapRunning(m, S, done, max, nd, k) ==
    /\ ~m.stop /\ m.n = Len(m.dest) /\ m.n <= nd /\ m.n <= k
    /\ Bytes(m.dest) = Drop(S, done) /\ m.left = max - Len(Drop(S, done))
    /\ m.done = IF done <= Len(S) THEN 0 ELSE done - Len(S)
MapFilled(m, S, done, max, nd) ==
    /\ m.stop /\ max > 0 /\ m.left <= 0 /\ m.n = Len(m.dest) /\ m.n <= nd
    /\ max <= Len(Drop(S, done)) /\ Bytes(m.dest) = Take(Drop(S, done), max)
MapNoRoom(m, max, nd, k) ==
    /\ m.stop /\ m.n = nd + 1 /\ nd < k /\ (max > 0 => m.left > 0)
Mapped(m, S, done, max, nd, k) ==
    MapRunning(m, S, done, max, nd, k) \/ MapFilled(m, S, done, max, nd) \/ MapNoRoom(m, max, nd, k)

\* The bytes past a count that one more iov brings.
LEMMA DropNext ==
    ASSUME NEW S \in Seq(Nat), NEW R \in Seq(Nat), NEW done \in Nat, NEW d,
           done <= Len(S) => d = 0, ~(done <= Len(S)) => d = done - Len(S)
    PROVE  /\ d \in Nat /\ Drop(S \o R, done) = Drop(S, done) \o Drop(R, d)
           /\ Len(Drop(S \o R, done)) = Len(Drop(S, done)) + Len(Drop(R, d))
           /\ Drop(S, done) \in Seq(Nat) /\ Drop(R, d) \in Seq(Nat)
           /\ Len(S \o R) = Len(S) + Len(R) /\ Len(S) \in Nat /\ Len(R) \in Nat
<1>1. Len(S) \in Nat /\ Len(R) \in Nat /\ Len(S \o R) = Len(S) + Len(R) /\ d \in Nat
  BY LenProperties, ConcatProperties
<1>2. Drop(S, done) \in Seq(Nat) /\ Drop(R, d) \in Seq(Nat)
  BY <1>1, DropFacts
<1>3. Drop(S \o R, done) = Drop(S, done) \o Drop(R, d)
  <2>1. Drop(S \o R, done) =
           IF done <= Len(S) THEN Drop(S, done) \o R ELSE Drop(R, done - Len(S))
    BY DropConcat
  <2>2. CASE done <= Len(S)
    <3>1. d = 0 /\ Drop(R, 0) = R
      <4>1. Drop(R, 0) = SubSeq(R, 1, Len(R))
        BY DEF Drop
      <4>. QED
        BY <2>2, <4>1, SubSeqFull
    <3>. QED
      BY <2>1, <2>2, <3>1
  <2>3. CASE ~(done <= Len(S))
    <3>1. Drop(S, done) = <<>>
      <4> DEFINE a == done + 1
                 b == Len(S)
      <4>1. a \in Int /\ b \in Int /\ b < a
        BY <1>1, <2>3
      <4> HIDE DEF a, b
      <4>2. SubSeq(S, a, b) = <<>>
        BY <4>1, SubSeqEmpty
      <4>. QED
        BY <4>2 DEF a, b, Drop
    <3>2. <<>> \o Drop(R, d) = Drop(R, d)
      BY <1>2, ConcatEmptySeq
    <3>. QED
      BY <2>1, <2>3, <3>1, <3>2
  <2>. QED
    BY <2>2, <2>3
<1> DEFINE A == Drop(S, done)
           B == Drop(R, d)
<1>4. Len(A \o B) = Len(A) + Len(B)
  <2>1. A \in Seq(Nat) /\ B \in Seq(Nat)
    BY <1>2
  <2> HIDE DEF A, B
  <2>. QED
    BY <2>1, ConcatProperties
<1>. QED
  BY <1>1, <1>2, <1>3, <1>4

LEMMA MapKeeps ==
    ASSUME NEW max \in Int, NEW nd \in Nat, NEW m \in MapStates(max), NEW v \in Iov,
           NEW S \in Seq(Nat), NEW done \in Nat, NEW k \in Nat,
           Mapped(m, S, done, max, nd, k)
    PROVE  Mapped(MapIov(m, v, max, nd), S \o RunOf(v), done, max, nd, k + 1)
<1> DEFINE R == RunOf(v)
           d == IF done <= Len(S) THEN 0 ELSE done - Len(S)
           A == Drop(S, done)
           B == Drop(R, d)
           T == S \o R
           C == Drop(T, done)
           n == v.len
<1>1. /\ m = [done |-> m.done, left |-> m.left, dest |-> m.dest, n |-> m.n, stop |-> m.stop]
      /\ m.done \in Nat /\ m.left \in Int /\ m.dest \in Seq(Iov) /\ m.n \in Nat
      /\ m.stop \in BOOLEAN /\ (max > 0 /\ ~m.stop => m.left > 0)
  BY DEF MapStates
<1>2. R \in Seq(Nat) /\ Len(R) = n /\ n \in Nat
  BY RunOfFacts
<1> HIDE DEF R
<1>3. /\ d \in Nat /\ C = A \o B /\ Len(C) = Len(A) + Len(B)
      /\ A \in Seq(Nat) /\ B \in Seq(Nat)
      /\ Len(T) = Len(S) + n /\ Len(S) \in Nat /\ Len(A) \in Nat
  <2> DEFINE e == d
  <2>1. (done <= Len(S) => e = 0) /\ (~(done <= Len(S)) => e = done - Len(S))
    OBVIOUS
  <2> HIDE DEF e
  <2>2. /\ e \in Nat /\ Drop(S \o R, done) = Drop(S, done) \o Drop(R, e)
        /\ Len(Drop(S \o R, done)) = Len(Drop(S, done)) + Len(Drop(R, e))
        /\ Drop(S, done) \in Seq(Nat) /\ Drop(R, e) \in Seq(Nat)
        /\ Len(S \o R) = Len(S) + Len(R) /\ Len(S) \in Nat /\ Len(R) \in Nat
    <3>1. R \in Seq(Nat)
      BY <1>2
    <3>. QED
      BY <2>1, <3>1, DropNext
  <2>3. Len(Drop(S, done)) \in Nat
    BY <2>2, LenProperties
  <2>. QED
    BY <1>2, <2>2, <2>3 DEF e
<1>4. Len(B) = IF d <= n THEN n - d ELSE 0
  <2>1. d \in Nat /\ R \in Seq(Nat)
    BY <1>2, <1>3
  <2> HIDE DEF d
  <2>2. Len(Drop(R, d)) = IF d <= Len(R) THEN Len(R) - d ELSE 0
    BY <2>1, DropFacts
  <2>. QED
    BY <1>2, <2>2
<1> HIDE DEF A, B, C, T, n
<1>5. CASE m.stop
  <2>1. MapIov(m, v, max, nd) = m
    BY <1>5 DEF MapIov
  <2>2. CASE MapFilled(m, S, done, max, nd)
    <3>1. max <= Len(A) /\ max \in Nat /\ Bytes(m.dest) = Take(A, max)
      BY <2>2 DEF MapFilled, A
    <3>2. Take(A \o B, max) = Take(A, max)
      BY <1>3, <3>1, TakeConcat
    <3>3. max <= Len(C) /\ Bytes(m.dest) = Take(C, max)
      <4>1. Len(B) \in Nat
        BY <1>3, LenProperties
      <4>. QED
        BY <1>3, <3>1, <3>2, <4>1
    <3>4. MapFilled(m, T, done, max, nd)
      BY <2>2, <3>3 DEF MapFilled, C
    <3>. QED
      BY <2>1, <3>4 DEF Mapped, T, R
  <2>3. CASE MapNoRoom(m, max, nd, k)
    <3>1. MapNoRoom(m, max, nd, k + 1)
      BY <2>3 DEF MapNoRoom
    <3>. QED
      BY <2>1, <3>1 DEF Mapped
  <2>4. ~MapRunning(m, S, done, max, nd, k)
    BY <1>5 DEF MapRunning
  <2>. QED
    BY <2>2, <2>3, <2>4 DEF Mapped
<1>6. ASSUME ~m.stop
      PROVE  /\ m.n = Len(m.dest) /\ m.n <= nd /\ m.n <= k
             /\ Bytes(m.dest) = A /\ m.left = max - Len(A) /\ m.done = d
  BY <1>6 DEF Mapped, MapRunning, MapFilled, MapNoRoom, A
<1>7. CASE ~m.stop /\ m.done >= v.len
  <2> DEFINE m1 == [done |-> m.done - v.len, left |-> m.left, dest |-> m.dest, n |-> m.n, stop |-> m.stop]
  <2>1. MapIov(m, v, max, nd) = m1
    BY <1>1, <1>7 DEF MapIov
  <2>2. B = <<>> /\ C = A
    <3>1. Len(B) = 0
      <4> HIDE DEF d
      <4>1. m.done = d /\ d \in Nat
        BY <1>3, <1>6, <1>7
      <4>2. n <= d /\ n \in Nat
        BY <1>2, <1>7, <4>1 DEF n
      <4>. QED
        BY <1>4, <4>1, <4>2
    <3>2. B = <<>>
      BY <1>3, <3>1, EmptySeq
    <3>. QED
      BY <1>3, <3>2, ConcatEmptySeq
  <2>3. m.done - v.len = IF done <= Len(T) THEN 0 ELSE done - Len(T)
    <3> DEFINE s == Len(S)
    <3>1. s \in Nat /\ Len(T) = s + n /\ m.done = IF done <= s THEN 0 ELSE done - s
      BY <1>3, <1>6, <1>7
    <3> HIDE DEF s
    <3>. QED
      BY <1>2, <1>7, <3>1 DEF n
  <2>4. MapRunning(m1, T, done, max, nd, k + 1)
    BY <1>1, <1>6, <1>7, <2>2, <2>3 DEF MapRunning, C
  <2>. QED
    BY <2>1, <2>4 DEF Mapped, T, R
<1>8. CASE ~m.stop /\ ~(m.done >= v.len) /\ m.n = nd
  <2> DEFINE m1 == [done |-> m.done, left |-> m.left, dest |-> m.dest, n |-> m.n + 1, stop |-> TRUE]
  <2>1. MapIov(m, v, max, nd) = m1
    BY <1>1, <1>8 DEF MapIov
  <2>2. MapNoRoom(m1, max, nd, k + 1)
    BY <1>1, <1>6, <1>8 DEF MapNoRoom
  <2>. QED
    BY <2>1, <2>2 DEF Mapped
<1>9. CASE ~m.stop /\ ~(m.done >= v.len) /\ m.n # nd
  <2> DEFINE len == v.len - m.done
             left == m.left - len
             over == max > 0 /\ left <= 0
             part == Part(v, m.done, IF over THEN len + left ELSE len)
             m1 == [done |-> 0, left |-> left, n |-> m.n + 1, stop |-> over,
                    dest |-> Append(m.dest, part)]
             X == RunOf(part)
  <2>1. MapIov(m, v, max, nd) = m1
    BY <1>9 DEF MapIov
  <2>2. /\ m.done = d /\ m.n <= k /\ m.n < nd /\ Bytes(m.dest) = A /\ m.left = max - Len(A)
        /\ m.n = Len(m.dest) /\ d < n
    <3> HIDE DEF d
    <3>1. /\ m.n = Len(m.dest) /\ m.n <= nd /\ m.n <= k
          /\ Bytes(m.dest) = A /\ m.left = max - Len(A) /\ m.done = d
      BY <1>6, <1>9
    <3>2. m.n < nd
      BY <1>1, <1>9, <3>1
    <3>3. d < n
      BY <1>1, <1>2, <1>9, <3>1 DEF n
    <3>. QED
      BY <3>1, <3>2, <3>3
  <2>9. done <= Len(T)
    BY <1>2, <1>3, <2>2
  <2> HIDE DEF d
  <2>3. len \in Nat /\ len = n - d /\ Len(B) = len /\ left = max - Len(C) /\ left \in Int
        /\ over \in BOOLEAN
    <3>1. len = n - d /\ len \in Nat
      BY <1>2, <1>3, <2>2, SMTT(20) DEF n
    <3>2. Len(B) = len
      BY <1>2, <1>3, <1>4, <2>2, <3>1
    <3> HIDE DEF len
    <3>3. left = max - Len(C) /\ left \in Int
      BY <1>3, <2>2, <3>1, <3>2
    <3>. QED
      BY <3>1, <3>2, <3>3
  <2>4. CASE ~over
    <3>1. part \in Iov /\ X = B
      <4>1. part = Part(v, d, len) /\ d + len = v.len
        BY <1>2, <1>3, <2>2, <2>3, <2>4, SMTT(20) DEF n
      <4> HIDE DEF part, len
      <4>2. Part(v, d, len) \in Iov /\ RunOf(Part(v, d, len)) = Drop(RunOf(v), d)
        BY <1>3, <2>3, <4>1, PartRun, SMTT(20)
      <4>. QED
        BY <4>1, <4>2 DEF B, R
    <3> HIDE DEF part, X, over
    <3>2. /\ Append(m.dest, part) \in Seq(Iov) /\ Len(Append(m.dest, part)) = m.n + 1
          /\ Bytes(Append(m.dest, part)) = Bytes(m.dest) \o X
      <4>1. Append(m.dest, part) \in Seq(Iov) /\ Len(Append(m.dest, part)) = Len(m.dest) + 1
        BY <1>1, <3>1, AppendProperties
      <4>2. Bytes(Append(m.dest, part)) = Bytes(m.dest) \o RunOf(part)
        BY <1>1, <3>1, BytesAppend
      <4>. QED
        BY <2>2, <4>1, <4>2 DEF X
    <3> DEFINE dest1 == Append(m.dest, part)
    <3>3. Bytes(dest1) = C
      BY <1>3, <2>2, <3>1, <3>2
    <3> HIDE DEF dest1, left
    <3>4. MapRunning(m1, T, done, max, nd, k + 1)
      <4>1. /\ ~m1.stop /\ m1.n = m.n + 1 /\ m1.dest = dest1 /\ m1.left = left /\ m1.done = 0
        BY <2>4 DEF dest1
      <4> HIDE DEF m1
      <4>2. Len(dest1) = m.n + 1
        BY <3>2 DEF dest1
      <4>3. /\ m1.n = Len(m1.dest) /\ m1.n <= nd /\ m1.n <= k + 1
        BY <1>1, <2>2, <4>1, <4>2
      <4>. QED
        BY <2>3, <2>9, <3>3, <4>1, <4>3 DEF MapRunning, C
    <3>. QED
      BY <2>1, <3>4 DEF Mapped, T, R
  <2>5. CASE over
    <3>0. max > 0 /\ left <= 0 /\ max \in Nat
      BY <2>5
    <3>1. /\ m.left \in Nat /\ m.left <= len /\ len + left = m.left /\ m.left > 0
      <4> DEFINE l == m.left
      <4>1. l > 0 /\ l \in Int /\ len \in Nat /\ left = l - len
        BY <1>1, <1>9, <2>3, <3>0
      <4> HIDE DEF l, len, left
      <4>2. l \in Nat /\ l <= len /\ len + left = l /\ l > 0
        BY <3>0, <4>1
      <4>. QED
        BY <4>2 DEF l
    <3> DEFINE b == m.left
    <3>2. part \in Iov /\ X = Take(B, b)
      <4>1. part = Part(v, d, b) /\ d + b <= v.len /\ b \in Nat
        <5>1. part = Part(v, d, b)
          BY <2>2, <2>5, <3>1
        <5> HIDE DEF len
        <5>2. d + len = v.len /\ d \in Nat /\ len \in Nat
          <6>1. d \in Nat /\ n \in Nat /\ len \in Nat /\ len = n - d
            BY <1>2, <1>3, <2>3
          <6>2. d + len = n
            BY <6>1
          <6>. QED
            BY <6>1, <6>2 DEF n
        <5>. QED
          BY <3>1, <5>1, <5>2
      <4> HIDE DEF part, len, b
      <4>2. Part(v, d, b) \in Iov /\ RunOf(Part(v, d, b)) = Take(Drop(RunOf(v), d), b)
        BY <1>3, <4>1, PartRun
      <4>. QED
        BY <4>1, <4>2 DEF B, R
    <3> HIDE DEF part, X, over
    <3>3. /\ Append(m.dest, part) \in Seq(Iov) /\ Len(Append(m.dest, part)) = m.n + 1
          /\ Bytes(Append(m.dest, part)) = Bytes(m.dest) \o X
      <4>1. Append(m.dest, part) \in Seq(Iov) /\ Len(Append(m.dest, part)) = Len(m.dest) + 1
        BY <1>1, <3>2, AppendProperties
      <4>2. Bytes(Append(m.dest, part)) = Bytes(m.dest) \o RunOf(part)
        BY <1>1, <3>2, BytesAppend
      <4>. QED
        BY <2>2, <4>1, <4>2 DEF X
    <3> DEFINE dest1 == Append(m.dest, part)
    <3>4. Bytes(dest1) = Take(C, max) /\ max <= Len(C)
      <4>1. Take(A \o B, max) = IF max <= Len(A) THEN Take(A, max) ELSE A \o Take(B, max - Len(A))
        BY <1>3, <3>0, TakeConcat
      <4>2. ~(max <= Len(A)) /\ max - Len(A) = b
        BY <1>3, <2>2, <3>1
      <4>3. max <= Len(C)
        BY <1>3, <2>3, <3>0
      <4>. QED
        BY <1>3, <2>2, <3>2, <3>3, <4>1, <4>2, <4>3
    <3> HIDE DEF dest1, left
    <3>5. MapFilled(m1, T, done, max, nd)
      <4>1. /\ m1.stop /\ m1.n = m.n + 1 /\ m1.dest = dest1 /\ m1.left = left
        BY <2>5 DEF dest1
      <4> HIDE DEF m1
      <4>2. Len(dest1) = m.n + 1
        BY <3>3 DEF dest1
      <4>3. /\ m1.n = Len(m1.dest) /\ m1.n <= nd
        BY <1>1, <2>2, <4>1, <4>2
      <4>. QED
        BY <3>0, <3>4, <4>1, <4>3 DEF MapFilled, C
    <3>. QED
      BY <2>1, <3>5 DEF Mapped, T, R
  <2>. QED
    BY <2>4, <2>5
<1>. QED
  BY <1>1, <1>5, <1>7, <1>8, <1>9

LEMMA MapResult ==
    ASSUME NEW v \in Seq(Iov), NEW max \in Int, NEW nd \in Nat, NEW done \in Nat,
           NEW m, m = MapFold(v, done, max, nd)
    PROVE  Mapped(m, Bytes(v), done, max, nd, Len(v)) /\ m \in MapStates(max)
<1> DEFINE n == Len(v)
           S(k) == Bytes(Prefix(v, k))
<1>0. /\ n \in Nat /\ S(0) = <<>> /\ S(n) = Bytes(v)
      /\ \A k \in 0..n : S(k) \in Seq(Nat)
      /\ \A k \in 0..n-1 : v[k + 1] \in Iov /\ S(k + 1) = S(k) \o RunOf(v[k + 1])
  BY PrefixBytes
<1>1. PICK f : MapValuesOf(f, v, n, done, max, nd, m)
  <2>1. n = Len(v)
    OBVIOUS
  <2> HIDE DEF n
  <2>. QED
    BY <2>1, MapValues
<1>2. /\ f \in [0..n -> MapStates(max)] /\ f[0] = MapStart(done, max) /\ f[n] = m
      /\ \A k \in 1..n : f[k] = MapIov(f[k - 1], v[k], max, nd)
  <2> HIDE DEF n
  <2>. QED
    BY <1>1 DEF MapValuesOf
<1> HIDE DEF S
<1> DEFINE Good == {k \in 0..n : Mapped(f[k], S(k), done, max, nd, k)}
<1>3. 0 \in Good
  <2>1. /\ f[0].stop = FALSE /\ f[0].n = 0 /\ f[0].dest = <<>> /\ f[0].left = max
        /\ f[0].done = done
    BY <1>2 DEF MapStart
  <2>2. Len(<<>>) = 0 /\ Drop(<<>>, done) = <<>> /\ Bytes(<<>>) = <<>>
    <3> DEFINE a == done + 1
               b == 0
    <3>1. a \in Int /\ b \in Int /\ b < a /\ Len(<<>>) = b
      OBVIOUS
    <3> HIDE DEF a, b
    <3>2. SubSeq(<<>>, a, b) = <<>>
      BY <3>1, SubSeqEmpty
    <3>3. Drop(<<>>, done) = <<>>
      BY <3>1, <3>2 DEF Drop, a
    <3>. QED
      BY <3>1, <3>3, BytesEmpty DEF b
  <2>3. MapRunning(f[0], <<>>, done, max, nd, 0)
    BY <2>1, <2>2 DEF MapRunning
  <2>4. Mapped(f[0], S(0), done, max, nd, 0)
    BY <1>0, <2>3 DEF Mapped
  <2>. QED
    BY <1>0, <2>4
<1>4. ASSUME NEW k \in 0..(n - 1), k \in Good PROVE k + 1 \in Good
  <2>1. k + 1 \in 1..n /\ k + 1 - 1 = k /\ k \in 0..n /\ k + 1 \in 0..n /\ k \in Nat
    BY <1>0
  <2>2. Mapped(f[k], S(k), done, max, nd, k)
    BY <1>4
  <2> HIDE DEF n, Good
  <2>3. f[k] \in MapStates(max) /\ f[k + 1] = MapIov(f[k], v[k + 1], max, nd)
    BY <1>2, <2>1
  <2>4. S(k) \in Seq(Nat) /\ v[k + 1] \in Iov /\ S(k + 1) = S(k) \o RunOf(v[k + 1])
    BY <1>0, <2>1
  <2>5. Mapped(f[k + 1], S(k + 1), done, max, nd, k + 1)
    BY <2>1, <2>2, <2>3, <2>4, MapKeeps
  <2>. QED
    BY <2>1, <2>5 DEF Good
<1>5. n \in Good
  <2> HIDE DEF n, Good
  <2>1. \A k \in 0..n : k \in Good
    BY <1>0, <1>3, <1>4, Induction
  <2>. QED
    BY <1>0, <2>1
<1>6. Mapped(f[n], S(n), done, max, nd, n)
  BY <1>5
<1>7. f[n] \in MapStates(max)
  <2> HIDE DEF n
  <2>. QED
    BY <1>0, <1>2
<1>. QED
  BY <1>0, <1>2, <1>6, <1>7

\* What niova_io_iovs_map_consumed2() maps.
MapsBytes(q, v, nd, done, max) ==
    /\ q.rc >= 0 =>
         /\ q.rc = Len(q.dest) /\ q.rc <= nd
         /\ Bytes(q.dest) = IF max > 0 THEN Take(Drop(Bytes(v), done), max) ELSE Drop(Bytes(v), done)
         /\ max > 0 => Len(Bytes(q.dest)) = max
    /\ q.rc < 0 /\ nd >= Len(v) => max > Len(Drop(Bytes(v), done))
    /\ max <= 0 /\ nd >= Len(v) => q.rc >= 0

LEMMA MapConsumed ==
    ASSUME NEW v \in Seq(Iov), NEW max \in Int, NEW nd \in Nat, NEW done \in Nat
    PROVE  MapsBytes(map_consumed(v, nd, done, max), v, nd, done, max)
<1> DEFINE m == MapFold(v, done, max, nd)
           S == Bytes(v)
           D == Drop(S, done)
           n == Len(v)
           over == (max <= 0 /\ n > nd) \/ (max > 0 /\ m.left > 0)
           q == map_consumed(v, nd, done, max)
<1>1. q = IF over THEN [rc |-> EOVERFLOW, dest |-> <<>>] ELSE [rc |-> m.n, dest |-> m.dest]
  BY Zenon DEF map_consumed, MapFold
<1>2. Mapped(m, S, done, max, nd, n) /\ m \in MapStates(max)
  <2>1. m = MapFold(v, done, max, nd)
    OBVIOUS
  <2> HIDE DEF m
  <2>. QED
    BY <2>1, MapResult
<1> HIDE DEF m, q
<1>3. m.n \in Nat /\ m.left \in Int /\ (max > 0 /\ ~m.stop => m.left > 0) /\ n \in Nat
  BY <1>2, LenProperties DEF MapStates
<1>4. D \in Seq(Nat) /\ Len(D) \in Nat
  <2>1. S \in Seq(Nat)
    BY TotalIsLen
  <2> HIDE DEF S
  <2>2. D \in Seq(Nat)
    BY <2>1, DropFacts
  <2> HIDE DEF D
  <2>. QED
    BY <2>2, LenProperties
<1> HIDE DEF D, S, n
<1>5. CASE over
  <2>1. q.rc = -75
    BY <1>1, <1>5 DEF EOVERFLOW
  <2>2. nd >= n => max > 0 /\ m.left > 0
    BY <1>3, <1>5
  <2>3. nd >= n => max > Len(D)
    <3> SUFFICES ASSUME nd >= n PROVE max > Len(D)
      OBVIOUS
    <3>1. MapRunning(m, S, done, max, nd, n)
      BY <1>2, <1>3, <2>2 DEF Mapped, MapFilled, MapNoRoom
    <3>2. m.left = max - Len(D)
      BY <3>1 DEF MapRunning, D
    <3>. QED
      BY <1>4, <2>2, <3>2
  <2>. QED
    BY <1>3, <2>1, <2>2, <2>3 DEF MapsBytes, D, S, n, q
<1>6. CASE ~over
  <2>1. q.rc = m.n /\ q.dest = m.dest
    BY <1>1, <1>6
  <2>2. max > 0 => m.left <= 0
    BY <1>3, <1>6
  <2>3. CASE MapRunning(m, S, done, max, nd, n)
    <3>1. max <= 0
      BY <1>3, <2>2, <2>3 DEF MapRunning
    <3>2. /\ m.n = Len(m.dest) /\ m.n <= nd /\ Bytes(m.dest) = D
      BY <2>3 DEF MapRunning, D
    <3>. QED
      BY <1>3, <2>1, <3>1, <3>2 DEF MapsBytes, D, S, q
  <2>4. CASE MapFilled(m, S, done, max, nd)
    <3>1. /\ max > 0 /\ m.n = Len(m.dest) /\ m.n <= nd /\ max <= Len(D)
          /\ Bytes(m.dest) = Take(D, max)
      BY <2>4 DEF MapFilled, D
    <3>2. Len(Take(D, max)) = max
      BY <1>4, <3>1, TakeFacts
    <3>. QED
      BY <1>3, <2>1, <3>1, <3>2 DEF MapsBytes, D, S, q
  <2>5. ~MapNoRoom(m, max, nd, n)
    BY <1>3, <1>6, <2>2 DEF MapNoRoom
  <2>. QED
    BY <1>2, <2>3, <2>4, <2>5 DEF Mapped
<1>. QED
  BY <1>5, <1>6

-------------------------------------------------------------------------------
\* niova_io_copy_to_iovs() and the others that walk the array.

TouchStates == [left : Nat, parts : Seq(Iov)]
TouchFold(v, n) == FoldLeft(TouchIov, [left |-> n, parts |-> <<>>], v)
TouchedTo(t, S, n) ==
    /\ t.left = IF n <= Len(S) THEN 0 ELSE n - Len(S)
    /\ Bytes(t.parts) = Take(S, n)

LEMMA TouchStep ==
    ASSUME NEW t \in TouchStates, NEW v \in Iov
    PROVE  /\ TouchIov(t, v) \in TouchStates
           /\ \A S \in Seq(Nat), n \in Nat :
                 TouchedTo(t, S, n) => TouchedTo(TouchIov(t, v), S \o RunOf(v), n)
<1> DEFINE n0 == MinOf(v.len, t.left)
           part == Part(v, 0, n0)
           R == RunOf(v)
           t1 == [left |-> t.left - n0, parts |-> Append(t.parts, part)]
<1>1. /\ t = [left |-> t.left, parts |-> t.parts] /\ t.left \in Nat /\ t.parts \in Seq(Iov)
      /\ v.len \in Nat /\ n0 \in Nat /\ n0 <= v.len /\ n0 <= t.left
      /\ n0 = IF v.len < t.left THEN v.len ELSE t.left
  BY DEF TouchStates, Iov, MinOf
<1> HIDE DEF n0
<1>2. R \in Seq(Nat) /\ Len(R) = v.len
  BY RunOfFacts
<1>3. part \in Iov /\ RunOf(part) = Take(R, n0)
  <2> DEFINE zero == 0
  <2>1. zero \in Nat /\ zero + n0 <= v.len
    BY <1>1
  <2> HIDE DEF zero
  <2>2. Part(v, zero, n0) \in Iov /\ RunOf(Part(v, zero, n0)) = Take(Drop(RunOf(v), zero), n0)
    BY <1>1, <2>1, PartRun
  <2>3. Drop(R, 0) = R
    <3> HIDE DEF R
    <3>. QED
      BY <1>2, SubSeqFull DEF Drop
  <2>. QED
    BY <2>2, <2>3 DEF zero
<1> HIDE DEF part, R
<1>4. /\ Append(t.parts, part) \in Seq(Iov)
      /\ Bytes(Append(t.parts, part)) = Bytes(t.parts) \o RunOf(part)
      /\ Bytes(t.parts) \in Seq(Nat)
  BY <1>1, <1>3, AppendProperties, BytesAppend
<1>5. CASE t.left = 0
  <2>1. TouchIov(t, v) = t
    BY <1>5 DEF TouchIov
  <2>2. ASSUME NEW S \in Seq(Nat), NEW n \in Nat, TouchedTo(t, S, n)
        PROVE  TouchedTo(t, S \o R, n)
    <3> DEFINE L == Len(S)
    <3>0. L \in Nat /\ Len(S \o R) = L + v.len
      BY <1>2, LenProperties, ConcatProperties
    <3>a. t.left = IF n <= L THEN 0 ELSE n - L
      BY <2>2 DEF TouchedTo
    <3>1. n <= Len(S) /\ Len(S) \in Nat /\ Len(S \o R) = Len(S) + v.len
      <4>1. n <= L
        <5> HIDE DEF L
        <5>. QED
          BY <1>5, <3>0, <3>a
      <4>. QED
        BY <3>0, <4>1
    <3>2. Take(S \o R, n) = Take(S, n)
      BY <1>2, <3>1, TakeConcat
    <3>3. n <= Len(S \o R)
      BY <1>1, <3>1
    <3>. QED
      BY <1>5, <2>2, <3>2, <3>3 DEF TouchedTo
  <2>. QED
    BY <2>1, <2>2 DEF R
<1>6. CASE t.left # 0
  <2>1. TouchIov(t, v) = t1
    BY <1>6 DEF TouchIov, n0, part
  <2>2. t1 \in TouchStates
    BY <1>1, <1>4 DEF TouchStates
  <2>3. ASSUME NEW S \in Seq(Nat), NEW n \in Nat, TouchedTo(t, S, n)
        PROVE  TouchedTo(t1, S \o R, n)
    <3> DEFINE L == Len(S)
    <3>1. /\ L \in Nat /\ Len(S \o R) = L + v.len
          /\ t.left = IF n <= L THEN 0 ELSE n - L
          /\ Bytes(t.parts) = Take(S, n)
      <4>1. L \in Nat /\ Len(S \o R) = L + v.len
        BY <1>2, LenProperties, ConcatProperties
      <4>2. t.left = (IF n <= L THEN 0 ELSE n - L) /\ Bytes(t.parts) = Take(S, n)
        BY <2>3 DEF TouchedTo
      <4>. QED
        BY <4>1, <4>2
    <3>2. ~(n <= L) /\ t.left = n - L
      BY <1>6, <3>1
    <3>3. Take(S \o R, n) = S \o Take(R, t.left)
      <4>1. Take(S \o R, n) = IF n <= L THEN Take(S, n) ELSE S \o Take(R, n - L)
        BY <1>2, TakeConcat
      <4>. QED
        BY <3>2, <4>1
    <3>4. Take(S, n) = S
      <4>1. MinOf(n, Len(S)) = Len(S)
        BY <3>1, <3>2 DEF MinOf
      <4>. QED
        BY <4>1, SubSeqFull DEF Take
    <3>5. Take(R, n0) = Take(R, t.left)
      <4>1. MinOf(n0, Len(R)) = MinOf(t.left, Len(R))
        BY <1>1, <1>2 DEF MinOf
      <4>. QED
        BY <4>1 DEF Take
    <3>6. Bytes(t1.parts) = Take(S \o R, n)
      BY <1>3, <1>4, <3>1, <3>3, <3>4, <3>5
    <3>7. t1.left = IF n <= Len(S \o R) THEN 0 ELSE n - Len(S \o R)
      <4> HIDE DEF L
      <4>. QED
        BY <1>1, <3>1, <3>2
    <3>. QED
      BY <3>6, <3>7 DEF TouchedTo
  <2>. QED
    BY <2>1, <2>2, <2>3 DEF R
<1>. QED
  BY <1>5, <1>6

TouchValuesOf(f, v, n, n0, r) ==
    /\ f \in [0..n -> TouchStates] /\ f[0] = [left |-> n0, parts |-> <<>>] /\ f[n] = r
    /\ \A k \in 1..n : f[k] = TouchIov(f[k - 1], v[k])

LEMMA TouchValues ==
    ASSUME NEW v \in Seq(Iov), NEW n, n = Len(v), NEW n0 \in Nat, NEW r, r = TouchFold(v, n0)
    PROVE  \E f : TouchValuesOf(f, v, n, n0, r)
<1> DEFINE B == TouchStates
           zero == [left |-> n0, parts |-> <<>>]
           D == 1..n
           g == [k \in D |-> [b \in B |-> TouchIov(b, v[k])]]
           IsFold(it) == it = [t \in SUBSET (DOMAIN v) |->
                                 IF t = {} THEN zero ELSE TouchIov(it[t \ {Max(t)}], v[Max(t)])]
           jt == CHOOSE it : IsFold(it)
<1>1. n \in Nat /\ DOMAIN v = D /\ \A k \in D : v[k] \in Iov
  BY LenProperties, ElementOfSeq
<1>2. Steps(g, D, B) /\ zero \in B
  <2>1. zero \in B
    <3>1. <<>> \in Seq(Iov)
      BY EmptySeq
    <3>. QED
      BY <3>1 DEF TouchStates
  <2>2. \A k \in D : \A b \in B : TouchIov(b, v[k]) \in B
    <3> HIDE DEF D
    <3>. QED
      BY <1>1, TouchStep
  <2> HIDE DEF D, B
  <2>3. Steps(g, D, B)
    BY <2>2 DEF Steps
  <2>. QED
    BY <2>1, <2>3
<1>3. \A t \in SUBSET D : t # {} => Max(t) \in D
  <2>1. \A t \in SUBSET D : t # {} => Max(t) \in t
    BY <1>1, MaxOfPositions
  <2> HIDE DEF D
  <2>. QED
    BY <2>1
<1>4. \A k \in D : \A b \in B : g[k][b] = TouchIov(b, v[k])
  <2> HIDE DEF D, B
  <2>. QED
    OBVIOUS
<1>5. PICK it \in [SUBSET D -> B] : FoldsBack(it, zero, g, n, B)
  <2>1. \E it \in [SUBSET (1..n) -> B] : FoldsBack(it, zero, g, n, B)
    <3>1. Steps(g, 1..n, B)
      BY <1>2 DEF D
    <3> HIDE DEF g, B, zero, D
    <3>. QED
      BY <1>1, <1>2, <3>1, FoldExists
  <2>. QED
    BY <2>1 DEF D
<1>6. \A t \in SUBSET D :
         it[t] = IF t = {} THEN zero ELSE TouchIov(it[t \ {Max(t)}], v[Max(t)])
  <2>1. ASSUME NEW t \in SUBSET D, t # {}
        PROVE  it[t] = TouchIov(it[t \ {Max(t)}], v[Max(t)])
    <3>1. it[t \ {Max(t)}] \in B
      <4> HIDE DEF D, B
      <4>. QED
        BY <1>5
    <3>2. it[t] = g[Max(t)][it[t \ {Max(t)}]]
      BY <1>5, <2>1, <3>1 DEF FoldsBack, D
    <3> HIDE DEF g, D, B
    <3>. QED
      BY <1>3, <1>4, <2>1, <3>1, <3>2
  <2>2. it[{}] = zero
    BY <1>5 DEF FoldsBack
  <2> HIDE DEF D, zero
  <2>. QED
    BY <2>1, <2>2
<1>7. IsFold(it)
  <2> HIDE DEF D, zero
  <2>. QED
    BY <1>1, <1>5, <1>6
<1>8. IsFold(jt)
  <2> HIDE DEF IsFold
  <2>. QED
    BY <1>7
<1>9. r = jt[D]
  <2>1. r = jt[DOMAIN v]
    BY DEF TouchFold, FoldLeft, MapThenFoldSet
  <2>. QED
    BY <1>1, <2>1
<1>10. FoldsBack(jt, zero, g, n, B)
  <2>1. \A t \in SUBSET D :
           jt[t] = IF t = {} THEN zero ELSE TouchIov(jt[t \ {Max(t)}], v[Max(t)])
    <3> HIDE DEF jt, D, zero
    <3>. QED
      BY <1>1, <1>8
  <2> HIDE DEF jt, g, D, B, zero
  <2>2. ASSUME NEW t \in SUBSET D, t # {}, jt[t \ {Max(t)}] \in B
        PROVE  jt[t] = g[Max(t)][jt[t \ {Max(t)}]]
    BY <1>3, <1>4, <2>1, <2>2
  <2>3. jt[{}] = zero
    BY <2>1
  <2>. QED
    BY <2>2, <2>3 DEF FoldsBack, D
<1>11. PICK f : ValuesUpTo(f, zero, g, n, B) /\ f[n] = jt[1..n]
  <2>1. Steps(g, 1..n, B)
    BY <1>2 DEF D
  <2> HIDE DEF jt, g, D, B, zero
  <2>. QED
    BY <1>1, <1>2, <1>10, <2>1, FoldValues
<1>12. f \in [0..n -> B] /\ f[0] = zero
  BY <1>11 DEF ValuesUpTo
<1>13. \A k \in 1..n : f[k] = TouchIov(f[k - 1], v[k])
  <2>1. \A k \in 1..n : f[k - 1] \in B /\ f[k] = g[k][f[k - 1]]
    <3> HIDE DEF g, jt, B
    <3>1. \A k \in 1..n : k - 1 \in 0..n /\ f[k] = g[k][f[k - 1]]
      BY <1>1, <1>11 DEF ValuesUpTo
    <3>. QED
      BY <1>12, <3>1
  <2> HIDE DEF g, jt, B
  <2>. QED
    BY <1>4, <2>1 DEF D
<1>. QED
  BY <1>9, <1>11, <1>12, <1>13 DEF D, TouchValuesOf

LEMMA Touches ==
    ASSUME NEW v \in Seq(Iov), NEW n0 \in Nat
    PROVE  Bytes(touched(v, n0).parts) = Take(Bytes(v), n0)
<1> DEFINE n == Len(v)
           S(k) == Bytes(Prefix(v, k))
           r == TouchFold(v, n0)
<1>0. /\ n \in Nat /\ S(0) = <<>> /\ S(n) = Bytes(v)
      /\ \A k \in 0..n : S(k) \in Seq(Nat)
      /\ \A k \in 0..n-1 : v[k + 1] \in Iov /\ S(k + 1) = S(k) \o RunOf(v[k + 1])
  BY PrefixBytes
<1>1. touched(v, n0) = r
  BY Zenon DEF touched, TouchFold
<1>2. PICK f : TouchValuesOf(f, v, n, n0, r)
  <2>1. n = Len(v) /\ r = TouchFold(v, n0)
    OBVIOUS
  <2> HIDE DEF n, r
  <2>. QED
    BY <2>1, TouchValues
<1> HIDE DEF r
<1>3. /\ f \in [0..n -> TouchStates] /\ f[0] = [left |-> n0, parts |-> <<>>] /\ f[n] = r
      /\ \A k \in 1..n : f[k] = TouchIov(f[k - 1], v[k])
  <2> HIDE DEF n
  <2>. QED
    BY <1>2 DEF TouchValuesOf
<1> HIDE DEF S
<1> DEFINE Good == {k \in 0..n : TouchedTo(f[k], S(k), n0)}
<1>4. 0 \in Good
  <2>1. f[0].left = n0 /\ f[0].parts = <<>>
    BY <1>3
  <2>2. Len(<<>>) = 0 /\ Take(<<>>, n0) = <<>>
    <3>1. Len(<<>>) = 0 /\ MinOf(n0, 0) = 0
      BY DEF MinOf
    <3>2. SubSeq(<<>>, 1, 0) = <<>>
      BY SubSeqEmpty
    <3>. QED
      BY <3>1, <3>2 DEF Take
  <2>3. TouchedTo(f[0], <<>>, n0)
    BY <2>1, <2>2, BytesEmpty DEF TouchedTo
  <2>. QED
    BY <1>0, <2>3
<1>5. ASSUME NEW k \in 0..(n - 1), k \in Good PROVE k + 1 \in Good
  <2>1. k + 1 \in 1..n /\ k + 1 - 1 = k /\ k \in 0..n /\ k + 1 \in 0..n
    BY <1>0
  <2>2. TouchedTo(f[k], S(k), n0)
    BY <1>5
  <2> HIDE DEF n, Good
  <2>3. f[k] \in TouchStates /\ f[k + 1] = TouchIov(f[k], v[k + 1])
    BY <1>3, <2>1
  <2>4. S(k) \in Seq(Nat) /\ v[k + 1] \in Iov /\ S(k + 1) = S(k) \o RunOf(v[k + 1])
    BY <1>0, <2>1
  <2>5. TouchedTo(f[k + 1], S(k + 1), n0)
    BY <2>2, <2>3, <2>4, TouchStep
  <2>. QED
    BY <2>1, <2>5 DEF Good
<1>6. n \in Good
  <2> HIDE DEF n, Good
  <2>1. \A k \in 0..n : k \in Good
    BY <1>0, <1>4, <1>5, Induction
  <2>. QED
    BY <1>0, <2>1
<1>7. TouchedTo(f[n], S(n), n0)
  BY <1>6
<1>. QED
  BY <1>0, <1>1, <1>3, <1>7 DEF TouchedTo

\* Bytes of d put where they belong in its first bytes give more of its first bytes.
Overlays(d, a, mid, p, n, w) ==
    /\ d \in Seq(Nat) /\ a \in Seq(Nat) /\ mid \in Seq(Nat) /\ p \in Nat /\ n \in Nat
    /\ a = Take(d, Len(a)) /\ Len(a) <= Len(d) /\ p <= Len(a) /\ p + n <= Len(d)
    /\ Len(mid) = n /\ \A i \in 1..n : mid[i] = d[p + i]
    /\ w = Take(a, p) \o mid \o Drop(a, p + n)

LEMMA Overwrite ==
    ASSUME NEW d, NEW a, NEW mid, NEW p, NEW n, NEW w, Overlays(d, a, mid, p, n, w)
    PROVE  /\ w \in Seq(Nat) /\ w = Take(d, Len(w)) /\ Len(w) <= Len(d) /\ p + n <= Len(w)
           /\ Len(w) = IF p + n <= Len(a) THEN Len(a) ELSE p + n
<1> DEFINE X == Nat
<1>0. /\ d \in Seq(X) /\ a \in Seq(X) /\ mid \in Seq(X) /\ p \in Nat /\ n \in Nat
      /\ a = Take(d, Len(a)) /\ Len(a) <= Len(d) /\ p <= Len(a) /\ p + n <= Len(d)
      /\ Len(mid) = n /\ \A i \in 1..n : mid[i] = d[p + i]
      /\ w = Take(a, p) \o mid \o Drop(a, p + n)
  BY DEF Overlays
<1> HIDE DEF X
<1> DEFINE L == Len(a)
           T == Len(d)
           q == p + n
           b == Take(a, p)
           c == b \o mid
           e == Drop(a, q)
           r == IF q <= L THEN L - q ELSE 0
           M == IF q <= L THEN L ELSE q
<1>1. L \in Nat /\ T \in Nat /\ q \in Nat /\ L <= T /\ p <= L /\ q <= T /\ q = p + n
      /\ p \in Nat /\ n \in Nat
  BY <1>0, LenProperties
<1>2. b \in Seq(X) /\ Len(b) = p /\ \A i \in 1..p : b[i] = a[i]
  <2>1. /\ Take(a, p) \in Seq(X) /\ Len(Take(a, p)) = IF p <= Len(a) THEN p ELSE Len(a)
        /\ \A i \in 1..Len(a) : i <= p => Take(a, p)[i] = a[i]
    BY <1>0, TakeFacts
  <2>2. Len(b) = p
    BY <1>0, <1>1, <2>1
  <2>3. \A i \in 1..p : i \in 1..Len(a) /\ i <= p
    BY <1>1
  <2>. QED
    BY <2>1, <2>2, <2>3
<1>3. e \in Seq(X) /\ Len(e) = r /\ \A i \in Nat : 1 <= i /\ q + i <= L => e[i] = a[q + i]
  BY <1>0, <1>1, DropFacts
<1>4. \A i \in 1..L : a[i] = d[i]
  <2>1. \A i \in 1..T : i <= L => Take(d, L)[i] = d[i]
    BY <1>0, <1>1, TakeFacts
  <2>2. a = Take(d, L)
    BY <1>0
  <2> HIDE DEF L, T
  <2>3. \A i \in 1..L : i \in 1..T /\ i <= L
    BY <1>1
  <2>. QED
    BY <2>1, <2>2, <2>3
<1> HIDE DEF b, e
<1>5. c \in Seq(X) /\ Len(c) = q /\ \A i \in 1..q : c[i] = IF i <= p THEN b[i] ELSE mid[i - p]
  <2>1. /\ b \o mid \in Seq(X) /\ Len(b \o mid) = Len(b) + Len(mid)
        /\ \A i \in 1..Len(b) + Len(mid) :
              (b \o mid)[i] = IF i <= Len(b) THEN b[i] ELSE mid[i - Len(b)]
    BY <1>0, <1>2, ConcatProperties
  <2>2. Len(mid) = n
    BY <1>0
  <2>. QED
    BY <1>1, <1>2, <2>1, <2>2
<1>6. w = c \o e
  BY <1>0 DEF b, e
<1> HIDE DEF c
<1>7. w \in Seq(X) /\ Len(w) = q + r /\ \A i \in 1..q + r : w[i] = IF i <= q THEN c[i] ELSE e[i - q]
  <2>1. /\ c \o e \in Seq(X) /\ Len(c \o e) = Len(c) + Len(e)
        /\ \A i \in 1..Len(c) + Len(e) :
              (c \o e)[i] = IF i <= Len(c) THEN c[i] ELSE e[i - Len(c)]
    <3>1. c \in Seq(X) /\ e \in Seq(X)
      BY <1>3, <1>5
    <3>. QED
      BY <3>1, ConcatProperties
  <2>2. Len(c) = q /\ Len(e) = r
    BY <1>3, <1>5
  <2> HIDE DEF q, r
  <2>. QED
    BY <1>6, <2>1, <2>2
<1> HIDE DEF L, T, q, X
<1>8. q + r = M /\ r \in Nat /\ M \in Nat /\ q <= M /\ M <= T
  BY <1>1
<1>9. Len(w) = M
  BY <1>7, <1>8
<1>10. Take(d, M) \in Seq(X) /\ Len(Take(d, M)) = M /\ \A i \in 1..M : Take(d, M)[i] = d[i]
  <2> HIDE DEF M
  <2>1. /\ Take(d, M) \in Seq(X) /\ Len(Take(d, M)) = IF M <= T THEN M ELSE T
        /\ \A i \in 1..T : i <= M => Take(d, M)[i] = d[i]
    BY <1>0, <1>8, TakeFacts DEF T
  <2>. QED
    BY <1>0, <1>1, <1>8, <2>1
<1>11. ASSUME NEW i \in 1..M PROVE w[i] = d[i]
  <2>1. i \in 1..q + r /\ i \in Nat /\ 1 <= i
    BY <1>8
  <2>2. CASE i <= p
    <3>1. i \in 1..q /\ i \in 1..p /\ i \in 1..L
      BY <1>0, <1>1, <2>1, <2>2
    <3>2. w[i] = c[i]
      BY <1>7, <2>1, <3>1
    <3>3. c[i] = b[i] /\ b[i] = a[i] /\ a[i] = d[i]
      BY <1>2, <1>4, <1>5, <2>2, <3>1
    <3>. QED
      BY <3>2, <3>3
  <2>3. CASE ~(i <= p) /\ i <= q
    <3>1. i \in 1..q /\ i - p \in 1..n /\ p + (i - p) = i
      BY <1>1, <2>1, <2>3
    <3>2. w[i] = mid[i - p]
      BY <1>5, <1>7, <2>1, <2>3, <3>1
    <3>3. mid[i - p] = d[p + (i - p)]
      BY <1>0, <3>1
    <3>. QED
      BY <3>1, <3>2, <3>3
  <2>4. CASE ~(i <= q)
    <3>1. q <= L /\ i \in 1..L
      BY <1>0, <1>1, <1>8, <2>1, <2>4
    <3>2. i - q \in Nat /\ 1 <= i - q /\ q + (i - q) <= L /\ q + (i - q) = i
      BY <1>0, <1>1, <2>1, <2>4, <3>1
    <3>3. w[i] = e[i - q]
      BY <1>7, <2>1, <2>4
    <3>4. e[i - q] = a[q + (i - q)]
      BY <1>3, <3>2
    <3>. QED
      BY <1>4, <3>1, <3>2, <3>3, <3>4
  <2>. QED
    BY <2>2, <2>3, <2>4
<1>12. w = Take(d, M)
  <2> DEFINE u == Take(d, M)
  <2>1. u \in Seq(X) /\ Len(u) = M /\ \A i \in 1..M : w[i] = u[i]
    BY <1>10, <1>11
  <2> HIDE DEF u, M
  <2>2. w = u
    BY <1>7, <1>9, <2>1, SeqEqual
  <2>. QED
    BY <2>2 DEF u
<1>. QED
  BY <1>7, <1>8, <1>9, <1>12 DEF L, T, q, X

\* The numbers 1..n in order: the bytes of a file or wire, each by its place.
Places(n) == [k \in 1..n |-> k]

LEMMA PlacesFacts ==
    ASSUME NEW n \in Nat
    PROVE  /\ Places(n) \in Seq(Nat) /\ Len(Places(n)) = n
           /\ \A k \in 1..n : Places(n)[k] = k
           /\ \A m \in 0..n : Take(Places(n), m) = Places(m)
           /\ Places(0) = <<>>
<1>1. ASSUME NEW m \in Nat
      PROVE  Places(m) \in Seq(Nat) /\ Len(Places(m)) = m /\ \A k \in 1..m : Places(m)[k] = k
  <2> DEFINE f == Places(m)
  <2>1. f \in [1..m -> Nat] /\ DOMAIN f = 1..m /\ \A k \in 1..m : f[k] = k
    BY DEF Places
  <2> HIDE DEF f
  <2>2. f \in Seq(Nat)
    BY <2>1, SeqDef
  <2>3. Len(f) = m
    BY <2>1, <2>2, LenProperties
  <2>. QED
    BY <2>1, <2>2, <2>3 DEF f
<1>2. ASSUME NEW m \in 0..n PROVE Take(Places(n), m) = Places(m)
  <2> DEFINE a == Take(Places(n), m)
             b == Places(m)
  <2>0. m \in Nat /\ m <= n
    OBVIOUS
  <2>1. /\ Places(n) \in Seq(Nat) /\ Len(Places(n)) = n
        /\ \A k \in 1..n : Places(n)[k] = k
    BY <1>1
  <2>2. /\ a \in Seq(Nat) /\ Len(a) = IF m <= n THEN m ELSE n
        /\ \A i \in 1..n : i <= m => a[i] = Places(n)[i]
    <3>1. /\ a \in Seq(Nat) /\ Len(a) = IF m <= Len(Places(n)) THEN m ELSE Len(Places(n))
          /\ \A i \in 1..Len(Places(n)) : i <= m => a[i] = Places(n)[i]
      BY <2>0, <2>1, TakeFacts
    <3>. QED
      BY <2>1, <3>1
  <2>3. b \in Seq(Nat) /\ Len(b) = m /\ \A k \in 1..m : b[k] = k
    BY <1>1, <2>0
  <2> HIDE DEF a, b
  <2>4. Len(a) = m /\ \A i \in 1..m : a[i] = b[i]
    BY <2>0, <2>1, <2>2, <2>3
  <2>5. a = b
    BY <2>2, <2>3, <2>4, SeqEqual
  <2>. QED
    BY <2>5 DEF a, b
<1>3. Places(0) = <<>>
  <2>1. Places(0) \in Seq(Nat) /\ Len(Places(0)) = 0
    BY <1>1
  <2>. QED
    BY <2>1, EmptySeq
<1>. QED
  BY <1>1, <1>2, <1>3

\* A transfer in progress: the file or wire holds the first bytes of the data,
\* each in its place, the count does not run past them and falls behind by the
\* interruptions at most.  A plain read appends, each byte behind its place by
\* some of the interruptions.
XferShape ==
    /\ xfer = [op |-> xfer.op, iovs |-> xfer.iovs, pos |-> xfer.pos, rc |-> xfer.rc,
               wire |-> xfer.wire, at |-> xfer.at, intr |-> xfer.intr, tries |-> xfer.tries]
    /\ xfer.op \in {"tcp_send", "udp_send", "recv_all", "read", "pread", "pwrite"}
    /\ xfer.iovs \in IoVecs /\ xfer.intr \in Nat
XferPlaced ==
    /\ xfer.at \in Seq(Nat) /\ xfer.at = Take(Data, Len(xfer.at)) /\ Len(xfer.at) <= Total
    /\ xfer.wire = Places(Len(xfer.at))
XferCounts ==
    /\ xfer.pos \in Int /\ xfer.pos <= Len(xfer.at)
    /\ xfer.rc # "EPERM" => xfer.pos \in Nat
    /\ xfer.op \notin {"pread", "pwrite"} => xfer.pos = Len(xfer.at)
    /\ Len(xfer.at) <= xfer.pos + xfer.intr
    /\ xfer.rc = "done" /\ xfer.op \in {"tcp_send", "udp_send", "pwrite"} => Len(xfer.at) = Total
ReadPlaced ==
    /\ xfer.at \in Seq(Nat) /\ xfer.wire = Places(Len(xfer.at))
    /\ xfer.pos \in Int /\ xfer.pos + xfer.intr = Len(xfer.at)
    /\ xfer.rc # "EPERM" => xfer.pos \in Nat
    /\ \A k \in 1..Len(xfer.at) : \E d \in 0..xfer.intr :
          k - d \in 1..Total /\ xfer.at[k] = Data[k - d]
XferInv == XferShape /\ IF xfer.op = "read" THEN ReadPlaced ELSE XferPlaced /\ XferCounts

LEMMA DataFacts ==
    ASSUME XferShape
    PROVE  /\ Data \in Seq(Nat) /\ Total = Len(Data) /\ Total \in Nat
           /\ xfer.iovs \in Seq(Iov) /\ Len(xfer.iovs) \in Nat
<1>1. xfer.iovs \in Seq(Iov)
  BY IoVecAssumption DEF XferShape
<1>. QED
  BY <1>1, TotalIsLen, LenProperties DEF Data, Total

\* What a call offers is what was not moved yet.
LEMMA OfferedRest ==
    ASSUME XferShape, xfer.pos \in Nat
    PROVE  Offered = Drop(Data, xfer.pos)
<1>1. CASE xfer.op \in {"tcp_send", "udp_send"}
  <2> DEFINE v == xfer.iovs
             nd == Len(v)
             p == xfer.pos
             max == -1
             q == map_consumed(v, nd, p, max)
  <2>1. v \in Seq(Iov) /\ nd \in Nat /\ p \in Nat /\ max \in Int /\ max <= 0
    BY DataFacts
  <2>2. Offered = Bytes(q.dest)
    BY <1>1 DEF Offered
  <2>3. nd >= Len(v)
    BY <2>1
  <2>4. Data = Bytes(v)
    BY DEF Data
  <2> HIDE DEF v, nd, p, max
  <2>5. MapsBytes(q, v, nd, p, max)
    BY <2>1, MapConsumed
  <2> HIDE DEF q
  <2>6. Bytes(q.dest) = Drop(Bytes(v), p)
    BY <2>1, <2>3, <2>5 DEF MapsBytes
  <2>. QED
    BY <2>2, <2>4, <2>6 DEF p
<1>2. CASE xfer.op \notin {"tcp_send", "udp_send"}
  BY <1>2, DataFacts DEF Offered, Drop
<1>. QED
  BY <1>1, <1>2

LEMMA XferStarts == XferInit => XferInv
<1> SUFFICES ASSUME XferInit PROVE XferInv
  OBVIOUS
<1>1. /\ XferShape /\ xfer.pos = 0 /\ xfer.rc = "run" /\ xfer.wire = <<>> /\ xfer.at = <<>>
      /\ xfer.intr = 0
  BY DEF XferInit, XferShape
<1>2. <<>> \in Seq(Nat) /\ Len(<<>>) = 0
  BY EmptySeq
<1>3. Take(Data, 0) = <<>>
  <2>1. Take(Data, 0) \in Seq(Nat) /\ Len(Take(Data, 0)) = 0
    <3>1. /\ Take(Data, 0) \in Seq(Nat) /\ Len(Data) \in Nat
          /\ Len(Take(Data, 0)) = IF 0 <= Len(Data) THEN 0 ELSE Len(Data)
      BY <1>1, DataFacts, TakeFacts
    <3>. QED
      BY <3>1
  <2>. QED
    BY <2>1, EmptySeq
<1>4. Places(0) = <<>>
  BY PlacesFacts
<1>5. XferPlaced
  BY <1>1, <1>2, <1>3, <1>4, DataFacts DEF XferPlaced
<1>6. XferCounts
  BY <1>1, <1>2 DEF XferCounts
<1>7. ReadPlaced
  BY <1>1, <1>2, <1>4 DEF ReadPlaced
<1>. QED
  BY <1>1, <1>5, <1>6, <1>7 DEF XferInv

\* A call that moves bytes puts the next ones where they belong.
LEMMA XferMoves ==
    ASSUME XferShape, XferPlaced, XferCounts, xfer.rc = "run", xfer.op # "read",
           NEW n \in 1..Len(Offered), Moves(n)
    PROVE  XferInv'
<1> DEFINE d == Data
           a == xfer.at
           p == xfer.pos
           L == Len(a)
           T == Len(d)
           next == IF xfer.op \in {"pread", "pwrite"} THEN xfer.pos ELSE Len(xfer.wire)
           off == Take(Drop(d, p), n)
           nums == [k \in 1..n |-> p + k]
           a1 == Take(a, p) \o off \o Drop(a, p + n)
           w1 == Take(Places(L), p) \o nums \o Drop(Places(L), p + n)
<1>1. /\ d \in Seq(Nat) /\ T \in Nat /\ Total = T /\ a \in Seq(Nat) /\ L \in Nat /\ a = Take(d, L)
      /\ L <= T /\ xfer.wire = Places(L) /\ p \in Nat /\ p <= L
  <2>1. d \in Seq(Nat) /\ T \in Nat /\ Total = T
    BY DataFacts
  <2>. QED
    BY <2>1, LenProperties DEF XferPlaced, XferCounts
<1>2. Offered = Drop(d, p)
  BY <1>1, OfferedRest
<1>3. n \in Nat /\ n >= 1 /\ p + n <= T
  <2>1. Len(Drop(d, p)) = IF p <= T THEN T - p ELSE 0
    BY <1>1, DropFacts
  <2> HIDE DEF d, p, T
  <2>2. p <= T
    BY <1>1
  <2>3. n \in 1..(T - p)
    BY <1>2, <2>1, <2>2
  <2>. QED
    BY <1>1, <2>3
<1>4. next = p
  <2>1. Len(xfer.wire) = L
    BY <1>1, PlacesFacts
  <2>. QED
    BY <2>1 DEF XferCounts, XferShape
<1>5. /\ off \in Seq(Nat) /\ Len(off) = n /\ \A i \in 1..n : off[i] = d[p + i]
  <2> DEFINE e == Drop(d, p)
  <2>1. /\ e \in Seq(Nat) /\ Len(e) = T - p
        /\ \A i \in Nat : 1 <= i /\ p + i <= T => e[i] = d[p + i]
    <3>1. /\ e \in Seq(Nat) /\ Len(e) = IF p <= T THEN T - p ELSE 0
          /\ \A i \in Nat : 1 <= i /\ p + i <= T => e[i] = d[p + i]
      BY <1>1, DropFacts
    <3> HIDE DEF e, d, p, T
    <3>. QED
      BY <1>1, <1>3, <3>1
  <2> HIDE DEF e, d, p, T
  <2>2. /\ Take(e, n) \in Seq(Nat) /\ Len(Take(e, n)) = IF n <= Len(e) THEN n ELSE Len(e)
        /\ \A i \in 1..Len(e) : i <= n => Take(e, n)[i] = e[i]
    BY <1>3, <2>1, TakeFacts
  <2>3. n <= Len(e) /\ \A i \in 1..n : i \in Nat /\ 1 <= i /\ p + i <= T /\ i \in 1..Len(e)
    BY <1>1, <1>3, <2>1
  <2>4. off = Take(e, n)
    BY DEF e
  <2>. QED
    BY <2>1, <2>2, <2>3, <2>4
<1>6. /\ nums \in Seq(Nat) /\ Len(nums) = n /\ \A i \in 1..n : nums[i] = p + i
  <2> HIDE DEF p
  <2>1. nums \in [1..n -> Nat] /\ DOMAIN nums = 1..n /\ \A i \in 1..n : nums[i] = p + i
    BY <1>1, <1>3
  <2> HIDE DEF nums
  <2>2. nums \in Seq(Nat)
    BY <1>3, <2>1, SeqDef
  <2>3. Len(nums) = n
    BY <1>3, <2>1, <2>2, LenProperties
  <2>. QED
    BY <2>1, <2>2, <2>3
<1>7. xfer' = [xfer EXCEPT !.pos = p + n, !.tries = @ + 1, !.wire = w1, !.at = a1]
  <2>1. xfer' = [xfer EXCEPT !.pos = @ + n, !.tries = @ + 1,
                   !.wire = Take(@, next) \o [k \in 1..n |-> next + k] \o Drop(@, next + n),
                   !.at = Take(@, next) \o Take(Offered, n) \o Drop(@, next + n)]
    BY Zenon DEF Moves
  <2> HIDE DEF next
  <2>. QED
    BY <1>1, <1>2, <1>4, <2>1
<1> HIDE DEF d, p, L, T, off, nums, next
<1>8. /\ a1 \in Seq(Nat) /\ a1 = Take(d, Len(a1)) /\ Len(a1) <= T /\ p + n <= Len(a1)
      /\ Len(a1) = IF p + n <= L THEN L ELSE p + n
  <2>1. a = Take(d, Len(a)) /\ Len(a) <= Len(d) /\ p <= Len(a) /\ p + n <= Len(d)
    BY <1>1, <1>3 DEF L, T
  <2>2. a1 = Take(a, p) \o off \o Drop(a, p + n)
    OBVIOUS
  <2> HIDE DEF a, a1
  <2>3. /\ d \in Seq(Nat) /\ a \in Seq(Nat) /\ off \in Seq(Nat) /\ p \in Nat /\ n \in Nat
        /\ Len(off) = n /\ \A i \in 1..n : off[i] = d[p + i]
    BY <1>1, <1>3, <1>5
  <2>4. /\ a1 \in Seq(Nat) /\ a1 = Take(d, Len(a1)) /\ Len(a1) <= Len(d) /\ p + n <= Len(a1)
        /\ Len(a1) = IF p + n <= Len(a) THEN Len(a) ELSE p + n
    <3>1. Overlays(d, a, off, p, n, a1)
      BY <2>1, <2>2, <2>3, Zenon DEF Overlays
    <3>. QED
      BY <3>1, Overwrite
  <2>. QED
    BY <2>4 DEF L, T
<1>9. w1 = Places(Len(a1))
  <2> DEFINE e == Places(T)
             b == Places(L)
  <2>1. /\ e \in Seq(Nat) /\ Len(e) = T /\ \A k \in 1..T : e[k] = k
        /\ \A m \in 0..T : Take(e, m) = Places(m)
    BY <1>1, PlacesFacts
  <2>2. b \in Seq(Nat) /\ Len(b) = L
    BY <1>1, PlacesFacts
  <2>3. b = Take(e, Len(b)) /\ Len(b) <= Len(e) /\ p <= Len(b) /\ p + n <= Len(e)
    <3>1. L \in 0..T
      BY <1>1
    <3>. QED
      BY <1>1, <1>3, <2>1, <2>2, <3>1
  <2>4. \A i \in 1..n : nums[i] = e[p + i]
    <3>1. \A i \in 1..n : p + i \in 1..T
      BY <1>1, <1>3
    <3>. QED
      BY <1>6, <2>1, <3>1
  <2>5. w1 = Take(b, p) \o nums \o Drop(b, p + n)
    OBVIOUS
  <2> HIDE DEF e, b, w1, a1
  <2>6. /\ w1 = Take(e, Len(w1)) /\ Len(w1) <= Len(e)
        /\ Len(w1) = IF p + n <= Len(b) THEN Len(b) ELSE p + n
    <3>1. /\ e \in Seq(Nat) /\ b \in Seq(Nat) /\ nums \in Seq(Nat) /\ p \in Nat /\ n \in Nat
          /\ Len(nums) = n /\ \A i \in 1..n : nums[i] = e[p + i]
      BY <1>1, <1>3, <1>6, <2>1, <2>2, <2>4
    <3>. QED
      <4>1. Overlays(e, b, nums, p, n, w1)
        BY <2>3, <2>5, <3>1, Zenon DEF Overlays
      <4>. QED
        BY <4>1, Overwrite
  <2>7. Len(w1) = Len(a1) /\ Len(w1) \in 0..T
    BY <1>1, <1>3, <1>8, <2>1, <2>2, <2>6
  <2>. QED
    BY <2>1, <2>6, <2>7
<1> HIDE DEF a, a1, w1
<1>10. /\ xfer' = [op |-> xfer.op, iovs |-> xfer.iovs, pos |-> p + n, rc |-> xfer.rc,
                   wire |-> w1, at |-> a1, intr |-> xfer.intr, tries |-> xfer.tries + 1]
  BY <1>7 DEF XferShape
<1>11. XferShape' /\ Data' = d /\ Total' = T
  BY <1>1, <1>10 DEF XferShape, Data, Total, d
<1>12. XferPlaced'
  BY <1>8, <1>9, <1>10, <1>11 DEF XferPlaced
<1>13. xfer.op \notin {"pread", "pwrite"} => p + n = Len(a1)
  <2> SUFFICES ASSUME xfer.op \notin {"pread", "pwrite"} PROVE p + n = Len(a1)
    OBVIOUS
  <2>1. p = L
    BY DEF XferCounts, p, L, a
  <2>. QED
    BY <1>1, <1>3, <1>8, <2>1
<1>14. Len(a1) <= p + n + xfer.intr
  <2>1. L <= p + xfer.intr /\ xfer.intr \in Nat
    BY DEF XferCounts, XferShape, p, L, a
  <2>. QED
    BY <1>1, <1>3, <1>8, <2>1
<1>15. XferCounts'
  <2>1. /\ xfer'.op = xfer.op /\ xfer'.pos = p + n /\ xfer'.rc = "run" /\ xfer'.at = a1
        /\ xfer'.intr = xfer.intr
    BY <1>10
  <2>2. p + n \in Nat /\ p + n \in Int /\ p + n <= Len(a1)
    BY <1>1, <1>3, <1>8
  <2>. QED
    BY <1>13, <1>14, <2>1, <2>2 DEF XferCounts
<1>16. xfer'.op # "read"
  BY <1>10
<1>. QED
  BY <1>11, <1>12, <1>15, <1>16 DEF XferInv

\* What is put behind the end of a sequence.
AppendsTo(a, mid, m, n, w) ==
    /\ a \in Seq(Nat) /\ mid \in Seq(Nat) /\ m = Len(a) /\ n = Len(mid)
    /\ w = Take(a, m) \o mid \o Drop(a, m + n)

LEMMA Appends ==
    ASSUME NEW a, NEW mid, NEW m, NEW n, NEW w, AppendsTo(a, mid, m, n, w)
    PROVE  /\ w \in Seq(Nat) /\ Len(w) = m + n
           /\ \A i \in 1..m : w[i] = a[i]
           /\ \A i \in 1..n : w[m + i] = mid[i]
<1> DEFINE b == Take(a, m)
           e == Drop(a, m + n)
           c == b \o mid
<1>0. /\ a \in Seq(Nat) /\ mid \in Seq(Nat) /\ m = Len(a) /\ n = Len(mid) /\ w = c \o e
  BY DEF AppendsTo
<1>1. m \in Nat /\ n \in Nat /\ m + n \in Nat
  BY <1>0, LenProperties
<1>2. b \in Seq(Nat) /\ Len(b) = m /\ \A i \in 1..m : b[i] = a[i]
  <2>1. /\ b \in Seq(Nat) /\ Len(b) = IF m <= Len(a) THEN m ELSE Len(a)
        /\ \A i \in 1..Len(a) : i <= m => b[i] = a[i]
    BY <1>0, <1>1, TakeFacts
  <2> HIDE DEF b
  <2>. QED
    BY <1>0, <1>1, <2>1
<1>3. e = <<>>
  <2>1. e \in Seq(Nat) /\ Len(e) = IF m + n <= Len(a) THEN Len(a) - (m + n) ELSE 0
    BY <1>0, <1>1, DropFacts
  <2> HIDE DEF e
  <2>2. Len(e) = 0
    BY <1>0, <1>1, <2>1
  <2>. QED
    BY <2>1, <2>2, EmptySeq
<1> HIDE DEF b, e
<1>4. /\ c \in Seq(Nat) /\ Len(c) = m + n
      /\ \A i \in 1..(m + n) : c[i] = IF i <= m THEN b[i] ELSE mid[i - m]
  <2>1. /\ c \in Seq(Nat) /\ Len(c) = Len(b) + Len(mid)
        /\ \A i \in 1..(Len(b) + Len(mid)) :
              c[i] = IF i <= Len(b) THEN b[i] ELSE mid[i - Len(b)]
    BY <1>0, <1>2, ConcatProperties
  <2>2. Len(b) = m /\ Len(mid) = n
    BY <1>0, <1>2
  <2> HIDE DEF c
  <2>. QED
    BY <2>1, <2>2
<1> HIDE DEF c
<1>5. w = c
  <2>1. c \o <<>> = c
    BY <1>4, ConcatEmptySeq
  <2>. QED
    BY <1>0, <1>3, <2>1
<1>6. ASSUME NEW i \in 1..m PROVE w[i] = a[i]
  <2>1. i \in 1..(m + n) /\ i <= m
    BY <1>1
  <2>. QED
    BY <1>2, <1>4, <1>5, <2>1
<1>7. ASSUME NEW i \in 1..n PROVE w[m + i] = mid[i]
  <2>1. ASSUME NEW j, j = m + i PROVE w[j] = mid[i]
    <3>1. j \in 1..(m + n) /\ ~(j <= m) /\ j - m = i
      BY <1>1, <2>1
    <3>2. c[j] = IF j <= m THEN b[j] ELSE mid[j - m]
      BY <1>4, <3>1, Zenon
    <3>. QED
      BY <1>5, <3>1, <3>2
  <2>. QED
    BY <2>1
<1>. QED
  BY <1>4, <1>5, <1>6, <1>7

\* A plain read puts the next bytes where its count says.
LEMMA ReadMoves ==
    ASSUME XferShape, ReadPlaced, xfer.rc = "run", xfer.op = "read",
           NEW n \in 1..Len(Offered), Moves(n)
    PROVE  XferInv'
<1> DEFINE d == Data
           a == xfer.at
           p == xfer.pos
           r == xfer.intr
           L == Len(a)
           T == Len(d)
           off == Take(Drop(d, p), n)
           nums == [k \in 1..n |-> L + k]
           a1 == Take(a, L) \o off \o Drop(a, L + n)
           w1 == Take(Places(L), L) \o nums \o Drop(Places(L), L + n)
<1>1. /\ d \in Seq(Nat) /\ T \in Nat /\ Total = T /\ a \in Seq(Nat) /\ L \in Nat
      /\ xfer.wire = Places(L) /\ p \in Nat /\ r \in Nat /\ p + r = L
      /\ \A k \in 1..L : \E e \in 0..r : k - e \in 1..T /\ a[k] = d[k - e]
  <2>1. d \in Seq(Nat) /\ T \in Nat /\ Total = T
    BY DataFacts
  <2>. QED
    BY <2>1, LenProperties DEF ReadPlaced, XferShape
<1>2. Offered = Drop(d, p)
  BY <1>1, OfferedRest
<1>3. n \in Nat /\ n >= 1 /\ p + n <= T
  <2>1. Len(Drop(d, p)) = IF p <= T THEN T - p ELSE 0
    BY <1>1, DropFacts
  <2> HIDE DEF d, p, T
  <2>2. n \in 1..(IF p <= T THEN T - p ELSE 0)
    BY <1>2, <2>1
  <2>. QED
    BY <1>1, <2>2
<1>4. Len(xfer.wire) = L
  BY <1>1, PlacesFacts
<1>5. /\ off \in Seq(Nat) /\ Len(off) = n /\ \A i \in 1..n : off[i] = d[p + i]
  <2> DEFINE e == Drop(d, p)
  <2>1. /\ e \in Seq(Nat) /\ Len(e) = T - p
        /\ \A i \in Nat : 1 <= i /\ p + i <= T => e[i] = d[p + i]
    <3>1. /\ e \in Seq(Nat) /\ Len(e) = IF p <= T THEN T - p ELSE 0
          /\ \A i \in Nat : 1 <= i /\ p + i <= T => e[i] = d[p + i]
      BY <1>1, DropFacts
    <3> HIDE DEF e, d, p, T
    <3>. QED
      BY <1>1, <1>3, <3>1
  <2> HIDE DEF e, d, p, T
  <2>2. /\ Take(e, n) \in Seq(Nat) /\ Len(Take(e, n)) = IF n <= Len(e) THEN n ELSE Len(e)
        /\ \A i \in 1..Len(e) : i <= n => Take(e, n)[i] = e[i]
    BY <1>3, <2>1, TakeFacts
  <2>3. n <= Len(e) /\ \A i \in 1..n : i \in Nat /\ 1 <= i /\ p + i <= T /\ i \in 1..Len(e)
    BY <1>1, <1>3, <2>1
  <2>4. off = Take(e, n)
    BY DEF e
  <2>. QED
    BY <2>1, <2>2, <2>3, <2>4
<1>6. /\ nums \in Seq(Nat) /\ Len(nums) = n /\ \A i \in 1..n : nums[i] = L + i
  <2> HIDE DEF L
  <2>1. nums \in [1..n -> Nat] /\ DOMAIN nums = 1..n /\ \A i \in 1..n : nums[i] = L + i
    BY <1>1, <1>3
  <2> HIDE DEF nums
  <2>2. nums \in Seq(Nat)
    BY <1>3, <2>1, SeqDef
  <2>3. Len(nums) = n
    BY <1>3, <2>1, <2>2, LenProperties
  <2>. QED
    BY <2>1, <2>2, <2>3
<1>7. xfer' = [xfer EXCEPT !.pos = p + n, !.tries = @ + 1, !.wire = w1, !.at = a1]
  <2> DEFINE next == IF xfer.op \in {"pread", "pwrite"} THEN xfer.pos ELSE Len(xfer.wire)
  <2>1. xfer' = [xfer EXCEPT !.pos = @ + n, !.tries = @ + 1,
                   !.wire = Take(@, next) \o [k \in 1..n |-> next + k] \o Drop(@, next + n),
                   !.at = Take(@, next) \o Take(Offered, n) \o Drop(@, next + n)]
    BY Zenon DEF Moves
  <2>2. next = L
    BY <1>4
  <2> HIDE DEF next
  <2>. QED
    BY <1>1, <1>2, <2>1, <2>2
<1>8. /\ a1 \in Seq(Nat) /\ Len(a1) = L + n
      /\ \A i \in 1..L : a1[i] = a[i]
      /\ \A i \in 1..n : a1[L + i] = off[i]
  <2>1. a1 = Take(a, L) \o off \o Drop(a, L + n)
    OBVIOUS
  <2>2. L = Len(a) /\ n = Len(off)
    BY <1>5
  <2> HIDE DEF a1, off, a, L
  <2>3. AppendsTo(a, off, L, n, a1)
    BY <1>1, <1>5, <2>1, <2>2, Zenon DEF AppendsTo
  <2>. QED
    BY <2>3, Appends
<1>9. w1 = Places(L + n)
  <2> DEFINE b == Places(L)
  <2>1. b \in Seq(Nat) /\ Len(b) = L /\ \A k \in 1..L : b[k] = k
    BY <1>1, PlacesFacts
  <2>2. w1 = Take(b, L) \o nums \o Drop(b, L + n)
    OBVIOUS
  <2> HIDE DEF b, w1, nums, L
  <2>3. /\ w1 \in Seq(Nat) /\ Len(w1) = L + n
        /\ \A i \in 1..L : w1[i] = b[i]
        /\ \A i \in 1..n : w1[L + i] = nums[i]
    <3>1. AppendsTo(b, nums, L, n, w1)
      BY <1>6, <2>1, <2>2, Zenon DEF AppendsTo
    <3>. QED
      BY <3>1, Appends
  <2> DEFINE e == Places(L + n)
  <2>4. e \in Seq(Nat) /\ Len(e) = L + n /\ \A k \in 1..(L + n) : e[k] = k
    <3>1. L + n \in Nat
      BY <1>1, <1>3
    <3>. QED
      BY <3>1, PlacesFacts
  <2> HIDE DEF e
  <2>5. ASSUME NEW i \in 1..(L + n) PROVE w1[i] = e[i]
    <3>1. CASE i <= L
      BY <1>1, <2>1, <2>3, <2>4, <3>1
    <3>2. CASE ~(i <= L)
      <4>1. i - L \in 1..n /\ L + (i - L) = i
        BY <1>1, <1>3, <3>2
      <4>2. w1[L + (i - L)] = nums[i - L] /\ nums[i - L] = L + (i - L)
        BY <1>6, <2>3, <4>1
      <4>. QED
        BY <2>4, <4>1, <4>2
    <3>. QED
      BY <3>1, <3>2
  <2>6. w1 = e
    BY <2>3, <2>4, <2>5, SeqEqual
  <2>. QED
    BY <2>6 DEF e
<1> HIDE DEF d, p, r, T, off, nums, a, a1, w1, L
<1>10. ASSUME NEW k \in 1..(L + n)
       PROVE  \E e \in 0..r : k - e \in 1..T /\ a1[k] = d[k - e]
  <2>0. L \in Nat /\ n \in Nat /\ p \in Nat /\ r \in Nat /\ T \in Nat /\ p + r = L
    BY <1>1, <1>3
  <2>1. CASE k <= L
    <3>1. k \in 1..L
      BY <2>0, <2>1
    <3>. QED
      BY <1>1, <1>8, <3>1
  <2>2. CASE ~(k <= L)
    <3>1. k - L \in 1..n /\ L + (k - L) = k
      BY <2>0, <2>2
    <3>2. a1[L + (k - L)] = off[k - L] /\ off[k - L] = d[p + (k - L)]
      BY <1>5, <1>8, <3>1
    <3>3. p + (k - L) = k - r /\ k - r \in 1..T /\ r \in 0..r
      BY <1>3, <2>0, <3>1
    <3>. QED
      BY <3>1, <3>2, <3>3
  <2>. QED
    BY <2>1, <2>2
<1>11. xfer' = [op |-> xfer.op, iovs |-> xfer.iovs, pos |-> p + n, rc |-> xfer.rc,
                wire |-> w1, at |-> a1, intr |-> r, tries |-> xfer.tries + 1]
  BY <1>7 DEF XferShape, r
<1>12. XferShape' /\ Data' = d /\ Total' = T /\ xfer'.op = "read"
  BY <1>1, <1>11 DEF XferShape, Data, Total, d
<1>13. /\ xfer'.at = a1 /\ xfer'.wire = w1 /\ xfer'.pos = p + n /\ xfer'.intr = r
  BY <1>11
<1>14. p + n \in Nat /\ p + n + r = L + n
  BY <1>1, <1>3
<1>15. ReadPlaced'
  <2>1. Len(a1) = L + n /\ a1 \in Seq(Nat) /\ w1 = Places(Len(a1))
    BY <1>8, <1>9
  <2>2. \A k \in 1..Len(a1) : \E e \in 0..r : k - e \in 1..T /\ a1[k] = d[k - e]
    BY <1>10, <2>1
  <2>3. p + n \in Int /\ p + n \in Nat /\ p + n + r = Len(a1)
    BY <1>14, <2>1
  <2>. QED
    BY <1>12, <1>13, <2>1, <2>2, <2>3 DEF ReadPlaced
<1>. QED
  BY <1>12, <1>15 DEF XferInv

\* The other steps move nothing.
LEMMA XferStays ==
    ASSUME XferShape, XferPlaced, XferCounts, XferShape', xfer.op # "read", xfer'.op = xfer.op,
           xfer'.iovs = xfer.iovs,
           xfer'.at = xfer.at, xfer'.wire = xfer.wire, XferCounts'
    PROVE  XferInv'
<1>1. Data' = Data /\ Total' = Total
  BY DEF Data, Total
<1>2. XferPlaced'
  BY <1>1 DEF XferPlaced
<1>. QED
  BY <1>2 DEF XferInv

LEMMA XferKeeps == XferInv /\ [XferNext]_xferVars => XferInv'
<1> SUFFICES ASSUME XferInv, [XferNext]_xferVars PROVE XferInv'
  OBVIOUS
<1> DEFINE L == Len(xfer.at)
<1>1. XferShape
  BY DEF XferInv
<1>2. Total \in Nat
  BY <1>1, DataFacts
<1>3. CASE UNCHANGED xfer
  BY <1>3 DEF XferInv, ReadPlaced, XferShape, XferPlaced, XferCounts, Data, Total
<1>4. CASE XferNext /\ xfer.op = "read"
  <2>1. ReadPlaced /\ xfer.intr \in Nat
    BY <1>1, <1>4 DEF XferInv, XferShape
  <2>2. xfer.rc = "run" /\ xfer.pos \in Nat /\ xfer.pos \in Int
    BY <1>4, <2>1 DEF XferNext, MovePart, Interrupted, NoRoom, EndOfInput, Broken, Complete,
                      InTransfer, ReadPlaced
  <2>3. CASE MovePart
    <3>1. PICK n \in 1..Len(Offered) : Moves(n)
      BY <2>3 DEF MovePart
    <3>. QED
      BY <1>1, <1>4, <2>1, <2>2, <3>1, ReadMoves
  <2>4. ASSUME NEW q \in {0, 1}, NEW c, c # "EPERM" \/ xfer.pos = 0, q = 1 \/ c # "EPERM",
               c = "EPERM" \/ xfer.pos - q \in Nat,
               xfer' = [xfer EXCEPT !.intr = @ + q, !.pos = @ - q, !.rc = c]
        PROVE  XferInv'
    <3>1. xfer' = [op |-> xfer.op, iovs |-> xfer.iovs, pos |-> xfer.pos - q, rc |-> c,
                   wire |-> xfer.wire, at |-> xfer.at, intr |-> xfer.intr + q,
                   tries |-> xfer.tries]
      BY <1>1, <2>4 DEF XferShape
    <3>2. xfer.intr + q \in Nat /\ xfer.pos - q \in Int
          /\ xfer.pos - q + (xfer.intr + q) = xfer.pos + xfer.intr
      BY <2>1, <2>2
    <3>3. XferShape' /\ Data' = Data /\ Total' = Total /\ xfer'.op = "read"
      BY <1>1, <1>4, <3>1, <3>2 DEF XferShape, Data, Total
    <3>4. /\ xfer'.pos = xfer.pos - q /\ xfer'.rc = c /\ xfer'.wire = xfer.wire
          /\ xfer'.at = xfer.at /\ xfer'.intr = xfer.intr + q
      BY <3>1
    <3>5. \A e \in 0..xfer.intr : e \in 0..(xfer.intr + q)
      BY <2>1
    <3>6. ReadPlaced'
      BY <2>1, <2>4, <3>2, <3>3, <3>4, <3>5 DEF ReadPlaced
    <3>. QED
      BY <3>3, <3>6 DEF XferInv
  <2>5. CASE Interrupted
    <3> DEFINE c == IF xfer.pos = 0 THEN "EPERM" ELSE "run"
    <3>1. xfer' = [xfer EXCEPT !.intr = @ + 1, !.pos = @ - 1, !.rc = c]
      BY <1>4, <2>5 DEF Interrupted
    <3>2. c # "EPERM" \/ xfer.pos = 0
      OBVIOUS
    <3>3. c = "EPERM" \/ xfer.pos - 1 \in Nat
      BY <2>2
    <3> HIDE DEF c
    <3>. QED
      BY <2>4, <3>1, <3>2, <3>3
  <2>6. CASE NoRoom \/ EndOfInput \/ Broken \/ Complete
    <3>1. PICK c \in {"done", "EIO"} : xfer' = [xfer EXCEPT !.rc = c]
      BY <1>4, <2>6 DEF NoRoom, EndOfInput, Broken, Complete
    <3>2. xfer' = [op |-> xfer.op, iovs |-> xfer.iovs, pos |-> xfer.pos, rc |-> c,
                   wire |-> xfer.wire, at |-> xfer.at, intr |-> xfer.intr, tries |-> xfer.tries]
      BY <1>1, <3>1 DEF XferShape
    <3>3. XferShape' /\ Data' = Data /\ Total' = Total /\ xfer'.op = "read"
      BY <1>1, <1>4, <3>2 DEF XferShape, Data, Total
    <3>4. ReadPlaced'
      BY <2>1, <2>2, <3>2, <3>3 DEF ReadPlaced
    <3>. QED
      BY <3>3, <3>4 DEF XferInv
  <2>. QED
    BY <1>4, <2>3, <2>5, <2>6 DEF XferNext
<1>5. CASE XferNext /\ xfer.op # "read"
  <2>1. XferPlaced /\ XferCounts /\ xfer.intr \in Nat
    BY <1>1, <1>5 DEF XferInv, XferShape
  <2>2. xfer.rc = "run"
    BY <1>5 DEF XferNext, MovePart, Interrupted, NoRoom, EndOfInput, Broken, Complete, InTransfer
  <2>3. L \in Nat /\ L <= Total /\ xfer.pos \in Nat /\ xfer.pos <= L
    BY <2>1, <2>2, LenProperties DEF XferPlaced, XferCounts
  <2>4. CASE MovePart
    <3>1. PICK n \in 1..Len(Offered) : Moves(n)
      BY <2>4 DEF MovePart
    <3>. QED
      BY <1>1, <1>5, <2>1, <2>2, <3>1, XferMoves
  <2>5. CASE Interrupted
    <3>1. CASE xfer.op \in {"tcp_send", "udp_send"}
      <4>1. xfer' = [xfer EXCEPT !.intr = @ + 1]
        BY <2>5, <3>1 DEF Interrupted
      <4>2. XferShape' /\ xfer'.pos = xfer.pos /\ xfer'.rc = xfer.rc /\ xfer'.op = xfer.op
            /\ xfer'.iovs = xfer.iovs /\ xfer'.at = xfer.at /\ xfer'.wire = xfer.wire
            /\ xfer'.intr = xfer.intr + 1
        BY <1>1, <4>1 DEF XferShape
      <4>3. XferCounts'
        BY <2>1, <2>2, <2>3, <3>1, <4>2 DEF XferCounts
      <4>. QED
        BY <1>1, <1>5, <2>1, <4>2, <4>3, XferStays
    <3>2. CASE xfer.op = "recv_all"
      <4>1. xfer' = [xfer EXCEPT !.rc = "EINTR"]
        BY <2>5, <3>2 DEF Interrupted
      <4>2. XferShape' /\ xfer'.pos = xfer.pos /\ xfer'.rc = "EINTR" /\ xfer'.op = xfer.op
            /\ xfer'.iovs = xfer.iovs /\ xfer'.at = xfer.at /\ xfer'.wire = xfer.wire
            /\ xfer'.intr = xfer.intr
        BY <1>1, <4>1 DEF XferShape
      <4>3. XferCounts'
        BY <2>1, <2>2, <4>2 DEF XferCounts
      <4>. QED
        BY <1>1, <1>5, <2>1, <4>2, <4>3, XferStays
    <3>3. CASE xfer.op \in {"pread", "pwrite"}
      <4>1. xfer' = [xfer EXCEPT !.intr = @ + 1, !.pos = @ - 1,
                        !.rc = IF xfer.pos = 0 THEN "EPERM" ELSE "run"]
        BY <2>5, <3>3 DEF Interrupted
      <4>2. /\ XferShape' /\ xfer'.pos = xfer.pos - 1 /\ xfer'.op = xfer.op
            /\ xfer'.iovs = xfer.iovs /\ xfer'.at = xfer.at /\ xfer'.wire = xfer.wire
            /\ xfer'.intr = xfer.intr + 1 /\ xfer'.intr > 0 /\ xfer.intr \in Nat
            /\ xfer'.rc = IF xfer.pos = 0 THEN "EPERM" ELSE "run"
        <5>1. xfer' = [op |-> xfer.op, iovs |-> xfer.iovs, pos |-> xfer.pos - 1,
                       rc |-> IF xfer.pos = 0 THEN "EPERM" ELSE "run",
                       wire |-> xfer.wire, at |-> xfer.at, intr |-> xfer.intr + 1,
                       tries |-> xfer.tries]
          BY <1>1, <4>1 DEF XferShape
        <5>2. xfer.intr \in Nat /\ xfer.intr + 1 \in Nat /\ xfer.intr + 1 > 0
          BY <1>1 DEF XferShape
        <5>3. XferShape'
          BY <1>1, <5>1, <5>2 DEF XferShape
        <5>. QED
          BY <5>1, <5>2, <5>3
      <4>3. XferCounts'
        BY <2>1, <2>2, <2>3, <3>3, <4>2 DEF XferCounts
      <4>. QED
        BY <1>1, <1>5, <2>1, <4>2, <4>3, XferStays
    <3>. QED
      BY <1>1, <1>5, <3>1, <3>2, <3>3 DEF XferShape
  <2>6. CASE NoRoom \/ EndOfInput \/ Broken \/ Complete
    <3>1. /\ XferShape' /\ xfer'.pos = xfer.pos /\ xfer'.op = xfer.op /\ xfer'.iovs = xfer.iovs
          /\ xfer'.at = xfer.at /\ xfer'.wire = xfer.wire
          /\ xfer'.rc # "EPERM"
          /\ xfer'.intr >= xfer.intr /\ xfer'.intr \in Nat
          /\ xfer'.rc = "done" /\ xfer.op \in {"tcp_send", "udp_send", "pwrite"} =>
                xfer.pos = Total
      <4>1. CASE NoRoom
        <5>1. CASE xfer.op = "tcp_send"
          <6>1. xfer' = [op |-> xfer.op, iovs |-> xfer.iovs, pos |-> xfer.pos, rc |-> xfer.rc,
                         wire |-> xfer.wire, at |-> xfer.at, intr |-> xfer.intr + 1,
                         tries |-> xfer.tries]
            BY <1>1, <4>1, <5>1 DEF NoRoom, XferShape
          <6>2. xfer.intr + 1 \in Nat /\ xfer.intr + 1 >= xfer.intr
            BY <2>1
          <6>. QED
            BY <1>1, <2>2, <6>1, <6>2 DEF XferShape
        <5>2. CASE xfer.op # "tcp_send"
          BY <1>1, <2>1, <2>2, <4>1, <5>2 DEF NoRoom, XferShape
        <5>. QED
          BY <5>1, <5>2
      <4>2. CASE EndOfInput
        BY <1>1, <2>1, <2>2, <4>2 DEF EndOfInput, XferShape
      <4>3. CASE Broken
        BY <1>1, <2>1, <2>2, <4>3 DEF Broken, XferShape
      <4>4. CASE Complete
        BY <1>1, <2>1, <2>2, <4>4 DEF Complete, XferShape
      <4>. QED
        BY <2>6, <4>1, <4>2, <4>3, <4>4
    <3>2. XferCounts'
      <4>1. Total' = Total
        BY <3>1 DEF Total
      <4>. QED
        BY <1>2, <2>1, <2>2, <2>3, <3>1, <4>1 DEF XferCounts
    <3>. QED
      BY <1>1, <1>5, <2>1, <3>1, <3>2, XferStays
  <2>. QED
    BY <1>5, <2>4, <2>5, <2>6 DEF XferNext
<1>. QED
  BY <1>3, <1>4, <1>5 DEF xferVars

\* io.c, tcp.c, udp.c: what the caller of a transfer can rely on, for any array
\* and however often a call is cut short or interrupted.
THEOREM TransferCorrect == XferSpec => []TransferExact
<1>1. ASSUME XferInv PROVE TransferExact
  <2> DEFINE L == Len(xfer.at)
  <2>1. /\ XferShape /\ xfer.at \in Seq(Nat) /\ xfer.wire = Places(L) /\ L \in Nat
        /\ xfer.intr \in Nat
    BY <1>1, LenProperties DEF XferInv, XferShape, XferPlaced, ReadPlaced
  <2>2. Len(xfer.wire) = L
    BY <2>1, PlacesFacts
  <2>3. xfer.wire = [k \in 1..L |-> k]
    BY <2>1 DEF Places
  <2>4. CASE xfer.op = "read"
    <3>1. ReadPlaced /\ Behind = xfer.intr
      BY <1>1, <2>4 DEF XferInv, Behind
    <3>. QED
      BY <2>1, <2>2, <2>3, <2>4, <3>1 DEF TransferExact, ReadPlaced
  <2>5. CASE xfer.op # "read"
    <3>1. XferPlaced /\ XferCounts /\ Behind = 0
      BY <1>1, <2>5 DEF XferInv, Behind
    <3>2. ASSUME NEW k \in 1..L
          PROVE  \E d \in 0..Behind : k - d \in 1..Total /\ xfer.at[k] = Data[k - d]
      <4>1. Data \in Seq(Nat) /\ Total = Len(Data) /\ Total \in Nat
        BY <2>1, DataFacts
      <4>2. /\ L <= Total /\ xfer.at = Take(Data, L)
            /\ \A i \in 1..Len(Data) : i <= L => Take(Data, L)[i] = Data[i]
        BY <2>1, <3>1, <4>1, TakeFacts DEF XferPlaced
      <4>3. k \in 1..Total /\ k <= L /\ k - 0 = k
        BY <2>1, <4>1, <4>2
      <4>4. xfer.at[k] = Data[k - 0] /\ k - 0 \in 1..Total /\ 0 \in 0..Behind
        BY <3>1, <4>1, <4>2, <4>3
      <4>. QED
        BY <4>4
    <3>3. /\ xfer.op \in {"pread", "pwrite"} => xfer.pos <= L /\ L <= xfer.pos + xfer.intr
          /\ xfer.op \in {"tcp_send", "udp_send", "recv_all"} => xfer.pos = L
          /\ xfer.rc = "done" /\ xfer.op \in {"tcp_send", "udp_send", "pwrite"} => L = Total
      BY <2>1, <3>1 DEF XferCounts
    <3>. QED
      BY <2>2, <2>3, <2>5, <3>2, <3>3 DEF TransferExact
  <2>. QED
    BY <2>4, <2>5
<1>. QED
  BY <1>1, XferStarts, XferKeeps, PTL DEF XferSpec

\* The bytes before an iov.
Before(v, k) == total_size(SubSeq(v, 1, k))

LEMMA BeforeFacts ==
    ASSUME NEW v \in Seq(Iov), NEW n, n = Len(v), NEW T, T = Len(Bytes(v))
    PROVE  /\ n \in Nat /\ T \in Nat /\ total_size(v) = T /\ Before(v, 0) = 0 /\ Before(v, n) = T
           /\ \A k \in 0..n : Before(v, k) \in Nat /\ Before(v, k) = Len(Bytes(Prefix(v, k)))
           /\ \A k \in 1..n : Before(v, k) = Before(v, k - 1) + v[k].len /\ v[k] \in Iov
<1>1. /\ n \in Nat /\ Bytes(Prefix(v, 0)) = <<>> /\ Bytes(Prefix(v, n)) = Bytes(v)
      /\ \A k \in 0..n : Prefix(v, k) \in Seq(Iov) /\ Bytes(Prefix(v, k)) \in Seq(Nat)
      /\ \A k \in 0..n-1 :
            v[k + 1] \in Iov /\ Bytes(Prefix(v, k + 1)) = Bytes(Prefix(v, k)) \o RunOf(v[k + 1])
  BY PrefixBytes
<1>2. total_size(v) = T /\ T \in Nat
  BY TotalIsLen
<1>3. ASSUME NEW k \in 0..n PROVE Before(v, k) \in Nat /\ Before(v, k) = Len(Bytes(Prefix(v, k)))
  <2>1. Prefix(v, k) \in Seq(Iov)
    BY <1>1
  <2>. QED
    BY <2>1, TotalIsLen DEF Before, Prefix
<1>4. Before(v, 0) = 0 /\ Before(v, n) = T
  <2>1. 0 \in 0..n /\ n \in 0..n
    BY <1>1
  <2>2. Before(v, 0) = Len(<<>>)
    BY <1>1, <1>3, <2>1
  <2>3. Len(<<>>) = 0
    BY EmptySeq
  <2>. QED
    BY <1>1, <1>3, <2>1, <2>2, <2>3
<1>5. ASSUME NEW k \in 1..n PROVE Before(v, k) = Before(v, k - 1) + v[k].len /\ v[k] \in Iov
  <2> DEFINE j == k - 1
             S == Bytes(Prefix(v, j))
             x == v[k]
  <2>1. j \in 0..n-1 /\ j \in 0..n /\ k \in 0..n /\ j + 1 = k
    BY <1>1
  <2> HIDE DEF j
  <2>2. x \in Iov /\ Bytes(Prefix(v, k)) = S \o RunOf(x) /\ S \in Seq(Nat)
    BY <1>1, <2>1
  <2>3. Before(v, k) = Len(Bytes(Prefix(v, k))) /\ Before(v, j) = Len(S)
    BY <1>3, <2>1
  <2> HIDE DEF S, x
  <2>4. RunOf(x) \in Seq(Nat) /\ Len(RunOf(x)) = x.len
    BY <2>2, RunOfFacts
  <2>5. Len(S \o RunOf(x)) = Len(S) + x.len
    <3> DEFINE R == RunOf(x)
    <3>1. S \in Seq(Nat) /\ R \in Seq(Nat) /\ Len(R) = x.len
      BY <2>2, <2>4
    <3> HIDE DEF R
    <3>2. Len(S \o R) = Len(S) + Len(R)
      BY <3>1, ConcatProperties
    <3>. QED
      BY <3>1, <3>2 DEF R
  <2>. QED
    BY <2>2, <2>3, <2>5 DEF j, x
<1>. QED
  BY <1>1, <1>2, <1>3, <1>4, <1>5

\* An array cut in two.
LEMMA SplitBytes ==
    ASSUME NEW v \in Seq(Iov), NEW n, n = Len(v), NEW j \in 0..n, NEW k \in j..n
    PROVE  /\ SubSeq(v, j + 1, k) \in Seq(Iov) /\ Prefix(v, j) \in Seq(Iov)
           /\ Bytes(Prefix(v, k)) = Bytes(Prefix(v, j)) \o Bytes(SubSeq(v, j + 1, k))
<1>1. n \in Nat /\ \A i \in 1..n : v[i] \in Iov
  BY LenProperties, ElementOfSeq
<1>2. j \in Int /\ k \in Int /\ j + 1 \in Int /\ j \in Nat /\ k \in Nat
  BY <1>1
<1> DEFINE u == SubSeq(v, j + 1, k)
           p == Prefix(v, j)
<1>3. u \in Seq(Iov)
  <2>1. \A i \in (j + 1)..k : v[i] \in Iov
    BY <1>1
  <2>. QED
    BY <1>2, <2>1, SubSeqProperties
<1>4. p \in Seq(Iov)
  BY PrefixBytes
<1>5. Prefix(v, k) = p \o u
  <2> DEFINE m == 1
  <2>1. m \in 1..n + 1 /\ j \in m - 1..n /\ k \in j..n
    BY <1>1
  <2>2. 1 \in 1..Len(v)+1 /\ j \in 1-1..Len(v) /\ k \in j..Len(v)
    BY <2>1
  <2>3. SubSeq(v, 1, j) \o SubSeq(v, j + 1, k) = SubSeq(v, 1, k)
    BY <2>2, ConcatAdjacentSubSeq
  <2>. QED
    BY <2>3 DEF Prefix
<1> HIDE DEF u, p
<1>6. Bytes(p \o u) = Bytes(p) \o Bytes(u)
  BY <1>3, <1>4, BytesConcat
<1>. QED
  BY <1>3, <1>4, <1>5, <1>6 DEF u, p

LEMMA BytesOne ==
    ASSUME NEW x \in Iov
    PROVE  <<x>> \in Seq(Iov) /\ Bytes(<<x>>) = RunOf(x)
<1>1. <<>> \in Seq(Iov) /\ <<x>> = Append(<<>>, x) /\ <<x>> \in Seq(Iov)
  BY EmptySeq
<1>2. RunOf(x) \in Seq(Nat)
  BY RunOfFacts
<1> DEFINE e == <<>>
<1>3. e \in Seq(Iov) /\ <<x>> = Append(e, x) /\ Bytes(e) = e
  BY <1>1, BytesEmpty
<1> HIDE DEF e
<1>4. Bytes(Append(e, x)) = Bytes(e) \o RunOf(x)
  BY <1>3, BytesAppend
<1>5. e \o RunOf(x) = RunOf(x)
  BY <1>2, ConcatEmptySeq DEF e
<1>. QED
  BY <1>1, <1>3, <1>4, <1>5

\* What is left once all of a first part is dropped.
LEMMA DropPast ==
    ASSUME NEW S \in Seq(Nat), NEW U \in Seq(Nat), NEW n \in Nat, Len(S) <= n
    PROVE  n - Len(S) \in Nat /\ Drop(S \o U, n) = Drop(U, n - Len(S))
<1> DEFINE L == Len(S)
           d == n - L
<1>1. L \in Nat /\ d \in Nat /\ L <= n
  BY LenProperties
<1>2. Drop(S \o U, n) = IF n <= L THEN Drop(S, n) \o U ELSE Drop(U, d)
  BY DropConcat
<1>3. CASE n = L
  <2>1. Drop(S, n) = <<>>
    <3>1. Drop(S, n) \in Seq(Nat) /\ Len(Drop(S, n)) = IF n <= L THEN L - n ELSE 0
      BY DropFacts
    <3>2. Len(Drop(S, n)) = 0
      BY <1>1, <1>3, <3>1
    <3>. QED
      BY <3>1, <3>2, EmptySeq
  <2>2. <<>> \o U = U
    BY ConcatEmptySeq
  <2>3. Drop(U, 0) = U
    BY SubSeqFull DEF Drop
  <2>4. d = 0 /\ n <= L
    BY <1>1, <1>3
  <2> HIDE DEF d, L
  <2>. QED
    BY <1>1, <1>2, <2>1, <2>2, <2>3, <2>4 DEF d, L
<1>4. CASE n # L
  <2>1. ~(n <= L)
    BY <1>1, <1>4
  <2>. QED
    BY <1>1, <1>2, <2>1
<1>. QED
  BY <1>3, <1>4

-------------------------------------------------------------------------------
\* niova_io_iovs_advance()

\* The positions at which an advance may stop.
StopsOf(v, done) == {i \in 1..Len(v) : Before(v, i) > done} \cup
                    {i \in 1..Len(v) : Before(v, i - 1) = done}

LEMMA AdvanceForms ==
    ASSUME NEW v, NEW done, NEW i, i = Min(StopsOf(v, done)), NEW cut, cut = done - Before(v, i - 1)
    PROVE  advance(v, done) =
              IF done > total_size(v) THEN [rc |-> ERANGE, iovs |-> v, save |-> v[1]]
              ELSE IF StopsOf(v, done) = {} THEN [rc |-> EXFULL, iovs |-> v, save |-> v[1]]
              ELSE [rc |-> i - 1, save |-> v[i],
                    iovs |-> [v EXCEPT ![i] = Part(v[i], cut, v[i].len - cut)]]
BY Zenon DEF advance, StopsOf, Before

\* An advance stops in the iov that the count reaches.
LEMMA StopsWhere ==
    ASSUME NEW v \in Seq(Iov), NEW done \in Nat, NEW T, T = Len(Bytes(v)), NEW n, n = Len(v)
    PROVE  /\ StopsOf(v, done) = {} /\ done <= T => done = T
           /\ StopsOf(v, done) # {} =>
                /\ Min(StopsOf(v, done)) \in 1..n
                /\ Before(v, Min(StopsOf(v, done)) - 1) <= done
                /\ done <= Before(v, Min(StopsOf(v, done)))
<1> DEFINE E == StopsOf(v, done)
           P(k) == Before(v, k)
<1>1. /\ n \in Nat /\ T \in Nat /\ P(0) = 0 /\ P(n) = T /\ \A k \in 0..n : P(k) \in Nat
  BY BeforeFacts
<1>2. \A k \in 1..n : k \in E <=> P(k) > done \/ P(k - 1) = done
  BY DEF StopsOf
<1>3. E \subseteq 1..n
  BY DEF StopsOf
<1> HIDE DEF E, P
<1>4. ASSUME E = {}, done <= T PROVE done = T
  <2>1. CASE n = 0
    BY <1>1, <1>4, <2>1
  <2>2. CASE n # 0
    <3>1. n \in 1..n
      BY <1>1, <2>2
    <3>2. ~(P(n) > done)
      BY <1>2, <1>4, <3>1
    <3>. QED
      BY <1>1, <1>4, <3>2
  <2>. QED
    BY <2>1, <2>2
<1>5. ASSUME E # {}
      PROVE  Min(E) \in 1..n /\ P(Min(E) - 1) <= done /\ done <= P(Min(E))
  <2> DEFINE i == Min(E)
  <2>1. E \in SUBSET Nat
    BY <1>1, <1>3
  <2>2. i \in E /\ \A x \in E : i <= x
    BY <1>5, <2>1, MinOfPositions
  <2> HIDE DEF i
  <2>3. i \in 1..n /\ i - 1 \in 0..n
    BY <1>1, <1>3, <2>2
  <2>4. P(i - 1) <= done
    <3>1. CASE i = 1
      BY <1>1, <3>1
    <3>2. CASE i # 1
      <4>1. i - 1 \in 1..n /\ i - 1 \notin E
        BY <1>1, <2>2, <2>3, <3>2
      <4>2. ~(P(i - 1) > done)
        BY <1>2, <4>1
      <4>. QED
        BY <1>1, <2>3, <4>2
    <3>. QED
      BY <3>1, <3>2
  <2>5. done <= P(i)
    <3>1. i \in 0..n /\ P(i) \in Nat /\ P(i - 1) \in Nat
      BY <1>1, <2>3
    <3>2. CASE P(i) > done
      BY <3>1, <3>2
    <3>3. CASE P(i - 1) = done
      <4>1. P(i) = P(i - 1) + v[i].len /\ v[i].len \in Nat
        BY <2>3, BeforeFacts, RunOfFacts DEF P
      <4>. QED
        BY <3>1, <3>3, <4>1
    <3>. QED
      BY <1>2, <2>2, <2>3, <3>2, <3>3
  <2>. QED
    BY <2>3, <2>4, <2>5 DEF i
<1>. QED
  BY <1>4, <1>5 DEF E, P

\* What niova_io_iovs_advance() leaves.
AdvancesTo(a, v, done) ==
    /\ a.rc >= 0 => /\ Bytes(Drop(a.iovs, a.rc)) = Drop(Bytes(v), done)
                    /\ iov_restore(a.iovs, a.rc, a.save) = v
    /\ a.rc = EXFULL => done = Len(Bytes(v))
    /\ a.rc = ERANGE <=> done > Len(Bytes(v))

\* Iov i shortened at its front: the bytes from there on.
Shortens(v, i, c, x, u) ==
    /\ v \in Seq(Iov) /\ i \in 1..Len(v) /\ c \in Nat /\ x = v[i] /\ c <= x.len
    /\ u = [v EXCEPT ![i] = Part(x, c, x.len - c)]

LEMMA Shortened ==
    ASSUME NEW v, NEW i, NEW c, NEW x, NEW u, Shortens(v, i, c, x, u)
    PROVE  /\ [u EXCEPT ![i] = x] = v /\ Bytes(SubSeq(v, i, Len(v))) \in Seq(Nat)
           /\ Bytes(Drop(u, i - 1)) = Drop(Bytes(SubSeq(v, i, Len(v))), c)
<1> DEFINE n == Len(v)
           b == x.len - c
           p == Part(x, c, b)
           w == SubSeq(v, i + 1, n)
           R == RunOf(x)
           B == Bytes(w)
<1>0. /\ v \in Seq(Iov) /\ i \in 1..Len(v) /\ c \in Nat /\ x = v[i] /\ c <= x.len
      /\ u = [v EXCEPT ![i] = Part(x, c, x.len - c)]
  BY DEF Shortens
<1>1. n \in Nat /\ i \in 1..n /\ DOMAIN v = 1..n /\ x \in Iov /\ i \in Int /\ i + 1 \in Int
  BY <1>0, LenProperties, ElementOfSeq
<1>2. x.len \in Nat /\ b \in Nat /\ c + b = x.len
  BY <1>0, <1>1 DEF Iov
<1>3. p \in Iov /\ RunOf(p) = Drop(R, c)
  <2> HIDE DEF b
  <2>1. c + b <= x.len
    BY <1>2
  <2>. QED
    BY <1>0, <1>1, <1>2, <2>1, PartRun
<1> HIDE DEF p, b
<1>4. u = [v EXCEPT ![i] = p]
  BY <1>0 DEF p, b
<1>5. u \in Seq(Iov) /\ Len(u) = n /\ \A j \in 1..n : u[j] = IF j = i THEN p ELSE v[j]
  BY <1>0, <1>1, <1>3, <1>4, ExceptSeq
<1>6. [u EXCEPT ![i] = x] = v
  <2>1. v = [k \in 1..n |-> v[k]] /\ DOMAIN u = 1..n
    BY <1>0, <1>1, <1>4
  <2> HIDE DEF n
  <2>. QED
    BY <1>0, <1>1, <1>4, <2>1
<1>7. w \in Seq(Iov) /\ B \in Seq(Nat) /\ \A j \in (i + 1)..n : v[j] \in Iov
  <2>1. \A j \in (i + 1)..n : v[j] \in Iov
    BY <1>0, <1>1, ElementOfSeq
  <2>2. w \in Seq(Iov)
    BY <1>1, <2>1, SubSeqProperties
  <2> HIDE DEF w
  <2>. QED
    BY <2>1, <2>2, TotalIsLen
<1>8. SubSeq(u, i + 1, n) = w
  <2> DEFINE y == SubSeq(u, i + 1, n)
             m == i + 1
             r == IF m <= n THEN n - m + 1 ELSE 0
  <2>1. m \in Int /\ n \in Int /\ \A j \in m..n : j \in 1..n /\ u[j] = v[j] /\ v[j] \in Iov
    BY <1>1, <1>5, <1>7
  <2>2. /\ SubSeq(u, m, n) \in Seq(Iov) /\ Len(SubSeq(u, m, n)) = IF m <= n THEN n - m + 1 ELSE 0
        /\ \A j \in 1..n-m+1 : SubSeq(u, m, n)[j] = u[m + j - 1]
    <3> HIDE DEF m, n
    <3>. QED
      BY <2>1, SubSeqProperties
  <2>3. /\ SubSeq(v, m, n) \in Seq(Iov) /\ Len(SubSeq(v, m, n)) = IF m <= n THEN n - m + 1 ELSE 0
        /\ \A j \in 1..n-m+1 : SubSeq(v, m, n)[j] = v[m + j - 1]
    <3> HIDE DEF m, n
    <3>. QED
      BY <2>1, SubSeqProperties
  <2> HIDE DEF m, n
  <2>4. \A j \in 1..r : SubSeq(u, m, n)[j] = SubSeq(v, m, n)[j]
    <3>1. \A j \in 1..r : j \in 1..n-m+1 /\ m + j - 1 \in m..n
      BY <2>1
    <3>. QED
      BY <2>1, <2>2, <2>3, <3>1
  <2>5. SubSeq(u, m, n) = SubSeq(v, m, n)
    BY <2>2, <2>3, <2>4, SeqEqual
  <2>. QED
    BY <2>5 DEF m
<1>9. SubSeq(u, i, n) = <<p>> \o w
  <2>1. SubSeq(u, i, n) = <<u[i]>> \o SubSeq(u, i + 1, n)
    <3>1. i \in 1..Len(u) /\ n \in i..Len(u)
      BY <1>1, <1>5
    <3> HIDE DEF n
    <3>. QED
      BY <1>5, <3>1, SubSeqRecursiveFirst
  <2>. QED
    BY <1>1, <1>5, <1>8, <2>1
<1>10. SubSeq(v, i, n) = <<x>> \o w
  <2>1. n \in i..Len(v)
    BY <1>1
  <2>. QED
    BY <1>0, <2>1, SubSeqRecursiveFirst
<1> HIDE DEF w, n
<1>11. /\ Bytes(<<p>> \o w) = RunOf(p) \o B /\ Bytes(<<x>> \o w) = R \o B
  <2>1. <<p>> \in Seq(Iov) /\ Bytes(<<p>>) = RunOf(p) /\ <<x>> \in Seq(Iov) /\ Bytes(<<x>>) = R
    BY <1>1, <1>3, BytesOne
  <2>2. Bytes(<<p>> \o w) = Bytes(<<p>>) \o B
    BY <1>7, <2>1, BytesConcat
  <2>3. Bytes(<<x>> \o w) = Bytes(<<x>>) \o B
    BY <1>7, <2>1, BytesConcat
  <2>. QED
    BY <2>1, <2>2, <2>3
<1>12. R \in Seq(Nat) /\ Len(R) = x.len
  BY <1>1, RunOfFacts
<1> HIDE DEF R, B
<1>13. Drop(R \o B, c) = Drop(R, c) \o B
  <2>1. Drop(R \o B, c) = IF c <= Len(R) THEN Drop(R, c) \o B ELSE Drop(B, c - Len(R))
    BY <1>0, <1>7, <1>12, DropConcat
  <2>. QED
    BY <1>0, <1>12, <2>1
<1>14. Drop(u, i - 1) = SubSeq(u, i, n)
  BY <1>1, <1>5 DEF Drop
<1>15. R \o B \in Seq(Nat)
  BY <1>7, <1>12, ConcatProperties
<1>. QED
  BY <1>3, <1>6, <1>9, <1>10, <1>11, <1>13, <1>14, <1>15 DEF n

LEMMA Advances ==
    ASSUME NEW v \in Seq(Iov), NEW done \in Nat
    PROVE  AdvancesTo(advance(v, done), v, done)
<1> DEFINE a == advance(v, done)
           n == Len(v)
           T == Len(Bytes(v))
           E == StopsOf(v, done)
           i == Min(E)
           P(k) == Before(v, k)
           cut == done - P(i - 1)
           u == [v EXCEPT ![i] = Part(v[i], cut, v[i].len - cut)]
<1>1. a = IF done > total_size(v) THEN [rc |-> ERANGE, iovs |-> v, save |-> v[1]]
          ELSE IF E = {} THEN [rc |-> EXFULL, iovs |-> v, save |-> v[1]]
          ELSE [rc |-> i - 1, save |-> v[i], iovs |-> u]
  BY AdvanceForms
<1>2. /\ n \in Nat /\ T \in Nat /\ total_size(v) = T
      /\ \A k \in 0..n : P(k) \in Nat /\ P(k) = Len(Bytes(Prefix(v, k)))
      /\ \A k \in 1..n : P(k) = P(k - 1) + v[k].len /\ v[k] \in Iov
  BY BeforeFacts
<1>3. /\ E = {} /\ done <= T => done = T
      /\ E # {} => i \in 1..n /\ P(i - 1) <= done /\ done <= P(i)
  BY StopsWhere
<1>4. Bytes(v) \in Seq(Nat)
  BY TotalIsLen
<1> HIDE DEF a
<1>5. CASE done > T
  <2>1. a.rc = -34
    BY <1>1, <1>2, <1>5 DEF ERANGE
  <2>. QED
    BY <1>5, <2>1 DEF AdvancesTo, ERANGE, EXFULL, a
<1>6. CASE ~(done > T) /\ E = {}
  <2>1. a.rc = -54
    BY <1>1, <1>2, <1>6 DEF EXFULL
  <2>2. done = T
    BY <1>2, <1>3, <1>6
  <2>. QED
    BY <1>6, <2>1, <2>2 DEF AdvancesTo, ERANGE, EXFULL, a
<1>7. CASE ~(done > T) /\ E # {}
  <2>1. a.rc = i - 1 /\ a.save = v[i] /\ a.iovs = u
    BY <1>1, <1>2, <1>7
  <2>2. i \in 1..n /\ P(i - 1) <= done /\ done <= P(i) /\ i - 1 \in 0..n /\ i - 1 + 1 = i
    BY <1>2, <1>3, <1>7
  <2>3. cut \in Nat /\ cut <= v[i].len
    <3>1. P(i) = P(i - 1) + v[i].len /\ P(i - 1) \in Nat /\ P(i) \in Nat /\ v[i].len \in Nat
      BY <1>2, <2>2, SMTT(20) DEF Iov
    <3> HIDE DEF P, i
    <3>. QED
      BY <2>2, <3>1
  <2> DEFINE S == Bytes(Prefix(v, i - 1))
             U == Bytes(SubSeq(v, i, n))
             x == v[i]
  <2>4. u = [v EXCEPT ![i] = Part(x, cut, x.len - cut)]
    OBVIOUS
  <2> HIDE DEF u, i, E, P, cut, n
  <2>5. [u EXCEPT ![i] = x] = v /\ U \in Seq(Nat) /\ Bytes(Drop(u, i - 1)) = Drop(U, cut)
    <3>1. i \in 1..Len(v) /\ x = v[i] /\ cut <= x.len
      BY <2>2, <2>3 DEF n
    <3> HIDE DEF x
    <3>2. Shortens(v, i, cut, x, u)
      BY <2>3, <2>4, <3>1 DEF Shortens
    <3>. QED
      BY <3>2, Shortened DEF n
  <2>6. Bytes(v) = S \o U
    <3> DEFINE j == i - 1
    <3>1. n = Len(v) /\ j \in 0..n /\ n \in j..n /\ j + 1 = i
      BY <1>2, <2>2 DEF n
    <3> HIDE DEF j
    <3>2. Bytes(Prefix(v, n)) = Bytes(Prefix(v, j)) \o Bytes(SubSeq(v, j + 1, n))
      BY <3>1, SplitBytes
    <3>3. Bytes(Prefix(v, n)) = Bytes(v)
      BY <3>1, PrefixBytes
    <3>. QED
      BY <3>1, <3>2, <3>3 DEF j
  <2>7. S \in Seq(Nat) /\ Len(S) = P(i - 1)
    <3>1. Bytes(Prefix(v, i - 1)) \in Seq(Nat)
      BY <2>2, PrefixBytes DEF n
    <3>. QED
      BY <1>2, <2>2, <3>1 DEF P
  <2> HIDE DEF S, U
  <2>8. Drop(S \o U, done) = Drop(U, done - Len(S))
    BY <2>2, <2>5, <2>7, DropPast
  <2>9. Bytes(Drop(a.iovs, a.rc)) = Drop(Bytes(v), done)
    BY <2>1, <2>5, <2>6, <2>7, <2>8 DEF cut
  <2>10. iov_restore(a.iovs, a.rc, a.save) = v
    BY <2>1, <2>2, <2>5 DEF iov_restore
  <2>11. a.rc # ERANGE /\ a.rc # EXFULL
    BY <2>1, <2>2 DEF ERANGE, EXFULL
  <2>. QED
    BY <1>7, <2>9, <2>10, <2>11 DEF AdvancesTo, a
<1>. QED
  BY <1>5, <1>6, <1>7 DEF a

-------------------------------------------------------------------------------
\* niova_io_iovs_num_to_meet_size2()

FirstsOf(v, done) == {i \in DOMAIN v : Before(v, i) - done > 0}
EndsOf(v, want, done) == {i \in DOMAIN v : Before(v, i) - done >= want}

LEMMA MeetForms ==
    ASSUME NEW v, NEW want, NEW done, NEW s, s = Min(FirstsOf(v, done)),
           NEW e, e = Min(EndsOf(v, want, done))
    PROVE  num_to_meet_size(v, want, done) =
              IF want <= 0 THEN [rc |-> EINVAL, idx |-> 0, prune |-> 0]
              ELSE IF EndsOf(v, want, done) = {} THEN [rc |-> EOVERFLOW, idx |-> 0, prune |-> 0]
              ELSE [rc |-> e + 1 - s, idx |-> s - 1, prune |-> Before(v, e) - done - want]
BY Zenon DEF num_to_meet_size, FirstsOf, EndsOf, Before

\* The first iov that has bytes left and the one that completes the size.
LEMMA MeetsWhere ==
    ASSUME NEW v \in Seq(Iov), NEW want \in Nat, want > 0, NEW done \in Nat,
           NEW n, n = Len(v), NEW T, T = Len(Bytes(v)),
           NEW s, s = Min(FirstsOf(v, done)), NEW e, e = Min(EndsOf(v, want, done))
    PROVE  /\ EndsOf(v, want, done) = {} <=> T - done < want
           /\ EndsOf(v, want, done) # {} =>
                /\ s \in 1..n /\ e \in s..n /\ Before(v, s - 1) <= done
                /\ Before(v, e) - done >= want /\ Before(v, e - 1) - done < want
<1> DEFINE F == FirstsOf(v, done)
           E == EndsOf(v, want, done)
           P(k) == Before(v, k)
<1>1. /\ n \in Nat /\ T \in Nat /\ P(0) = 0 /\ P(n) = T /\ \A k \in 0..n : P(k) \in Nat
  BY BeforeFacts
<1>2. DOMAIN v = 1..n
  BY LenProperties
<1>3. /\ \A k \in 1..n : k \in F <=> P(k) - done > 0
      /\ \A k \in 1..n : k \in E <=> P(k) - done >= want
      /\ F \subseteq 1..n /\ E \subseteq 1..n
  BY <1>2 DEF FirstsOf, EndsOf
<1>4. ASSUME NEW k \in 1..n PROVE P(k) <= T
  <2>1. k \in 0..n /\ n \in k..n
    BY <1>1
  <2> DEFINE A == Bytes(Prefix(v, k))
             B == Bytes(SubSeq(v, k + 1, n))
  <2>2. Bytes(Prefix(v, n)) = A \o B /\ A \in Seq(Nat) /\ B \in Seq(Nat)
    <3>1. SubSeq(v, k + 1, n) \in Seq(Iov) /\ Prefix(v, k) \in Seq(Iov)
          /\ Bytes(Prefix(v, n)) = A \o B
      BY <2>1, SplitBytes
    <3>. QED
      BY <3>1, TotalIsLen
  <2>3. P(k) = Len(A) /\ P(n) = Len(Bytes(Prefix(v, n)))
    BY <1>1, <2>1, BeforeFacts
  <2> HIDE DEF A, B, P
  <2>4. Len(A \o B) = Len(A) + Len(B) /\ Len(A) \in Nat /\ Len(B) \in Nat
    BY <2>2, ConcatProperties, LenProperties
  <2>. QED
    BY <1>1, <2>2, <2>3, <2>4
<1> HIDE DEF F, E, P
<1>5. ASSUME E = {} PROVE T - done < want
  <2>1. CASE n = 0
    BY <1>1, <2>1
  <2>2. CASE n # 0
    <3>1. n \in 1..n
      BY <1>1, <2>2
    <3>2. ~(P(n) - done >= want)
      BY <1>3, <1>5, <3>1
    <3>. QED
      BY <1>1, <3>2
  <2>. QED
    BY <2>1, <2>2
<1>6. ASSUME E # {}
      PROVE  /\ s \in 1..n /\ e \in s..n /\ P(s - 1) <= done
             /\ P(e) - done >= want /\ P(e - 1) - done < want /\ ~(T - done < want)
  <2>1. E \in SUBSET Nat /\ F \in SUBSET Nat
    BY <1>1, <1>3
  <2>2. e \in E /\ \A x \in E : e <= x
    BY <1>6, <2>1, MinOfPositions DEF E
  <2>3. e \in 1..n /\ e \in 0..n /\ e - 1 \in 0..n /\ P(e) \in Nat /\ P(e) - done >= want
    BY <1>1, <1>3, <2>2
  <2>4. e \in F
    BY <1>3, <2>3
  <2>5. s \in F /\ \A x \in F : s <= x
    BY <2>1, <2>4, MinOfPositions DEF F
  <2>6. s \in 1..n /\ s - 1 \in 0..n /\ e \in s..n
    BY <1>1, <1>3, <2>3, <2>4, <2>5, SMTT(20)
  <2>7. P(s - 1) <= done
    <3>1. CASE s = 1
      BY <1>1, <3>1
    <3>2. CASE s # 1
      <4>1. s - 1 \in 1..n /\ s - 1 \notin F
        BY <1>1, <2>5, <2>6, <3>2
      <4>2. ~(P(s - 1) - done > 0) /\ P(s - 1) \in Nat
        BY <1>1, <1>3, <2>6, <4>1
      <4>. QED
        BY <4>2
    <3>. QED
      BY <3>1, <3>2
  <2>8. P(e - 1) - done < want
    <3>1. CASE e = 1
      BY <1>1, <3>1
    <3>2. CASE e # 1
      <4>1. e - 1 \in 1..n /\ e - 1 \notin E
        BY <1>1, <2>2, <2>3, <3>2
      <4>2. ~(P(e - 1) - done >= want) /\ P(e - 1) \in Nat
        BY <1>1, <1>3, <2>3, <4>1
      <4>. QED
        BY <4>2
    <3>. QED
      BY <3>1, <3>2
  <2>9. ~(T - done < want)
    BY <1>1, <1>4, <2>3
  <2>. QED
    BY <2>3, <2>6, <2>7, <2>8, <2>9
<1>. QED
  BY <1>5, <1>6 DEF E, F, P

\* The bytes from a count up to the end of an iov, whatever follows.
Windowed(S, U, W, done, b, c) ==
    /\ S \in Seq(Nat) /\ U \in Seq(Nat) /\ W \in Seq(Nat) /\ done \in Nat
    /\ b = Len(S) /\ c = Len(S) + Len(U) /\ b <= done /\ done <= c

LEMMA Window ==
    ASSUME NEW S, NEW U, NEW W, NEW done, NEW b, NEW c, Windowed(S, U, W, done, b, c)
    PROVE  Take(Drop((S \o U) \o W, done), c - done) = Drop(U, done - b)
<1> DEFINE V == S \o U
           d == done - b
           D == Drop(U, d)
           k == c - done
<1>0. /\ S \in Seq(Nat) /\ U \in Seq(Nat) /\ W \in Seq(Nat) /\ done \in Nat
      /\ b = Len(S) /\ c = Len(S) + Len(U) /\ b <= done /\ done <= c
  BY DEF Windowed
<1>1. /\ V \in Seq(Nat) /\ Len(V) = c /\ b \in Nat /\ c \in Nat /\ Len(U) \in Nat
      /\ c = b + Len(U)
  BY <1>0, ConcatProperties, LenProperties
<1>2. Drop(V, done) = D
  <2>1. Len(S) <= done
    BY <1>0
  <2>. QED
    BY <1>0, <2>1, DropPast
<1>3. d \in Nat /\ k \in Nat /\ d <= Len(U) /\ k = Len(U) - d
  BY <1>0, <1>1
<1> HIDE DEF V, d, k
<1>4. D \in Seq(Nat) /\ Len(D) = k
  <2>1. D \in Seq(Nat) /\ Len(D) = IF d <= Len(U) THEN Len(U) - d ELSE 0
    BY <1>0, <1>3, DropFacts
  <2>. QED
    BY <1>3, <2>1
<1>5. Drop(V \o W, done) = D \o W
  <2>1. Drop(V \o W, done) = IF done <= Len(V) THEN Drop(V, done) \o W ELSE Drop(W, done - Len(V))
    BY <1>0, <1>1, DropConcat
  <2>. QED
    BY <1>0, <1>1, <1>2, <2>1
<1> HIDE DEF D
<1>6. Take(D \o W, k) = D
  <2>1. Take(D \o W, k) = IF k <= Len(D) THEN Take(D, k) ELSE D \o Take(W, k - Len(D))
    BY <1>0, <1>3, <1>4, TakeConcat
  <2>2. Take(D, k) = D
    <3>1. MinOf(k, Len(D)) = Len(D)
      BY <1>3, <1>4 DEF MinOf
    <3>. QED
      BY <1>4, <3>1, SubSeqFull DEF Take
  <2>. QED
    BY <1>3, <1>4, <2>1, <2>2
<1>. QED
  BY <1>5, <1>6 DEF V, D, d, k

\* What niova_io_iovs_num_to_meet_size2() finds.
UsedOf(q, v) == SubSeq(v, q.idx + 1, q.idx + q.rc)
MeetsAt(q, v, want, done) ==
    /\ q.rc < 0 <=> Len(Drop(Bytes(v), done)) < want
    /\ q.rc > 0 =>
         /\ Take(Drop(Bytes(v), done), want + q.prune) =
               Drop(Bytes(UsedOf(q, v)), done - Len(Bytes(SubSeq(v, 1, q.idx))))
         /\ q.prune < Last(UsedOf(q, v)).len

LEMMA Meets ==
    ASSUME NEW v \in Seq(Iov), NEW want \in Nat, want > 0, NEW done \in Nat
    PROVE  MeetsAt(num_to_meet_size(v, want, done), v, want, done)
<1> DEFINE q == num_to_meet_size(v, want, done)
           n == Len(v)
           T == Len(Bytes(v))
           E == EndsOf(v, want, done)
           s == Min(FirstsOf(v, done))
           e == Min(E)
           P(k) == Before(v, k)
           D == Drop(Bytes(v), done)
<1>1. q = IF want <= 0 THEN [rc |-> EINVAL, idx |-> 0, prune |-> 0]
          ELSE IF E = {} THEN [rc |-> EOVERFLOW, idx |-> 0, prune |-> 0]
          ELSE [rc |-> e + 1 - s, idx |-> s - 1, prune |-> P(e) - done - want]
  BY MeetForms
<1>2. /\ n \in Nat /\ T \in Nat /\ P(n) = T
      /\ \A k \in 0..n : P(k) \in Nat /\ P(k) = Len(Bytes(Prefix(v, k)))
      /\ \A k \in 1..n : P(k) = P(k - 1) + v[k].len /\ v[k] \in Iov
  BY BeforeFacts
<1>3. /\ E = {} <=> T - done < want
      /\ E # {} => /\ s \in 1..n /\ e \in s..n /\ P(s - 1) <= done
                   /\ P(e) - done >= want /\ P(e - 1) - done < want
  BY MeetsWhere
<1>4. Bytes(v) \in Seq(Nat) /\ Len(D) = IF done <= T THEN T - done ELSE 0
  BY TotalIsLen, DropFacts
<1> HIDE DEF q, E, s, e, D, T
<1>5. E = {} <=> Len(D) < want
  <2>1. T \in Nat /\ (E = {} <=> T - done < want)
    BY <1>2, <1>3
  <2>. QED
    BY <1>4, <2>1
<1> USE DEF T
<1>6. CASE E = {}
  <2>1. q.rc = -75
    BY <1>1, <1>6 DEF EOVERFLOW
  <2>. QED
    BY <1>5, <1>6, <2>1 DEF MeetsAt, q, D
<1>7. CASE E # {}
  <2>1. q.rc = e + 1 - s /\ q.idx = s - 1 /\ q.prune = P(e) - done - want
    BY <1>1, <1>7
  <2> DEFINE j == s - 1
             span == SubSeq(v, s, e)
             S == Bytes(Prefix(v, j))
             U == Bytes(span)
             W == Bytes(SubSeq(v, e + 1, n))
             x == v[e]
  <2>2. /\ s \in 1..n /\ e \in s..n /\ j \in 0..n /\ e \in j..n /\ e \in 0..n /\ e \in 1..n
        /\ n \in e..n /\ n = Len(v) /\ j + 1 = s /\ n \in Nat
        /\ P(j) <= done /\ P(e) - done >= want /\ P(e - 1) - done < want
    BY <1>2, <1>3, <1>7
  <2> HIDE DEF j, n
  <2>3. /\ P(j) \in Nat /\ P(e) \in Nat /\ P(e - 1) \in Nat /\ x \in Iov
        /\ P(e) = P(e - 1) + x.len /\ P(j) = Len(S) /\ P(e) = Len(Bytes(Prefix(v, e)))
    <3>1. e - 1 \in 0..n
      BY <2>2
    <3>. QED
      BY <1>2, <2>2, <3>1
  <2>4. /\ Bytes(Prefix(v, e)) = S \o U /\ S \in Seq(Nat) /\ U \in Seq(Nat)
        /\ span \in Seq(Iov)
    <3>1. /\ SubSeq(v, j + 1, e) \in Seq(Iov) /\ Prefix(v, j) \in Seq(Iov)
          /\ Bytes(Prefix(v, e)) = Bytes(Prefix(v, j)) \o Bytes(SubSeq(v, j + 1, e))
      BY <2>2, SplitBytes
    <3>. QED
      BY <2>2, <3>1, TotalIsLen
  <2>5. Bytes(v) = (S \o U) \o W /\ W \in Seq(Nat)
    <3>1. /\ SubSeq(v, e + 1, n) \in Seq(Iov)
          /\ Bytes(Prefix(v, n)) = Bytes(Prefix(v, e)) \o Bytes(SubSeq(v, e + 1, n))
      BY <2>2, SplitBytes
    <3>2. Bytes(Prefix(v, n)) = Bytes(v)
      BY <2>2, PrefixBytes
    <3>. QED
      BY <2>4, <3>1, <3>2, TotalIsLen
  <2>6. Last(span) = x
    <3>1. \A i \in s..e : v[i] \in Iov
      BY <1>2, <2>2
    <3>2. s \in Int /\ e \in Int /\ s <= e
      BY <2>2
    <3>3. /\ Len(span) = IF s <= e THEN e - s + 1 ELSE 0
          /\ \A i \in 1..e-s+1 : span[i] = v[s + i - 1]
      BY <3>1, <3>2, SubSeqProperties
    <3> HIDE DEF span
    <3> DEFINE m == e - s + 1
    <3>4. Len(span) = m /\ m \in 1..m /\ s + m - 1 = e
      BY <3>2, <3>3
    <3>5. span[m] = v[s + m - 1]
      BY <3>3, <3>4
    <3> HIDE DEF m
    <3>. QED
      BY <3>4, <3>5 DEF Last
  <2>7. UsedOf(q, v) = span /\ SubSeq(v, 1, q.idx) = Prefix(v, j)
    <3>1. q.idx + 1 = s /\ q.idx + q.rc = e /\ q.idx = j
      BY <2>1, <2>2 DEF j
    <3>. QED
      BY <3>1 DEF UsedOf, Prefix
  <2> HIDE DEF S, U, W, span, x, P
  <2>8. Len(S \o U) = Len(S) + Len(U)
    BY <2>4, ConcatProperties
  <2>9. Take(Drop((S \o U) \o W, done), P(e) - done) = Drop(U, done - P(j))
    <3> DEFINE b == P(j)
               c == P(e)
    <3>1. b = Len(S) /\ c = Len(S) + Len(U) /\ b <= done /\ done <= c
      BY <2>2, <2>3, <2>4, <2>8
    <3> HIDE DEF b, c
    <3>2. Take(Drop((S \o U) \o W, done), c - done) = Drop(U, done - b)
      <4>1. Windowed(S, U, W, done, b, c)
        BY <2>4, <2>5, <3>1 DEF Windowed
      <4>. QED
        BY <4>1, Window
    <3>. QED
      BY <3>2 DEF b, c
  <2>10. want + q.prune = P(e) - done
    BY <2>1, <2>3
  <2>11. q.prune < x.len
    <3>1. x.len \in Nat
      BY <2>3 DEF Iov
    <3>. QED
      BY <2>1, <2>2, <2>3, <3>1, SMTT(20)
  <2>12. q.rc > 0
    BY <2>1, <2>2
  <2>13. Take(D, want + q.prune) = Drop(U, done - P(j))
    BY <2>5, <2>9, <2>10 DEF D
  <2>14. Len(Bytes(SubSeq(v, 1, q.idx))) = P(j)
    BY <2>3, <2>7 DEF S
  <2>15. Take(D, want + q.prune) =
            Drop(Bytes(UsedOf(q, v)), done - Len(Bytes(SubSeq(v, 1, q.idx))))
    BY <2>7, <2>13, <2>14 DEF U
  <2>16. q.prune < Last(UsedOf(q, v)).len
    BY <2>6, <2>7, <2>11
  <2>17. ~(q.rc < 0) /\ ~(Len(D) < want)
    BY <1>5, <1>7, <2>12, <2>1, <2>2
  <2>. QED
    BY <2>15, <2>16, <2>17 DEF MeetsAt, q, D
<1>. QED
  BY <1>6, <1>7

-------------------------------------------------------------------------------
\* A call of the helpers returns what they compute, and their arguments stay.
HelpersInv ==
    /\ iojob \in [iovs : IoVecs, done : Counts, max : Counts \cup {-1}, ndest : 1..2]
    /\ ioret # <<>> =>
         ioret[1] = [map |-> map_consumed(iojob.iovs, iojob.ndest, iojob.done, iojob.max),
                     adv |-> advance(iojob.iovs, iojob.done),
                     meet |-> num_to_meet_size(iojob.iovs, iojob.max, iojob.done),
                     parts |-> touched(iojob.iovs, iojob.done).parts]

LEMMA HelpersAgree == HelpersInv => VectorsAreStrings
<1> SUFFICES ASSUME HelpersInv, ioret # <<>> PROVE VectorsAreStrings
  BY DEF VectorsAreStrings
<1> DEFINE v == iojob.iovs
           done == iojob.done
           max == iojob.max
           nd == iojob.ndest
           m == ioret[1].map
           a == ioret[1].adv
           q == ioret[1].meet
           all == Bytes(v)
           rest == Drop(all, done)
           span == SubSeq(v, q.idx + 1, q.idx + q.rc)
           cut == done - Len(Bytes(SubSeq(v, 1, q.idx)))
<1>1. v \in Seq(Iov) /\ done \in Nat /\ max \in Int /\ nd \in Nat
  <2>1. iojob.iovs \in IoVecs /\ iojob.done \in Counts /\ iojob.max \in Counts \cup {-1}
        /\ iojob.ndest \in 1..2
    BY DEF HelpersInv
  <2>2. v \in Seq(Iov) /\ done \in Nat
    BY <2>1, IoVecAssumption, Zenon DEF IoVecAssumption
  <2>3. max = -1 \/ max \in Nat
    BY <2>1, IoVecAssumption, Zenon DEF IoVecAssumption
  <2>. QED
    BY <2>1, <2>2, <2>3
<1>2. /\ m = map_consumed(v, nd, done, max) /\ a = advance(v, done)
      /\ q = num_to_meet_size(v, max, done) /\ ioret[1].parts = touched(v, done).parts
  BY DEF HelpersInv
<1> HIDE DEF v, done, max, nd, m, a, q
<1>3. MapsBytes(m, v, nd, done, max)
  BY <1>1, <1>2, MapConsumed
<1>4. AdvancesTo(a, v, done)
  BY <1>1, <1>2, Advances
<1>5. max > 0 => MeetsAt(q, v, max, done)
  BY <1>1, <1>2, Meets
<1>6. Bytes(ioret[1].parts) = Take(all, done)
  BY <1>1, <1>2, Touches
<1>7. /\ m.rc >= 0 => /\ m.rc = Len(m.dest) /\ m.rc <= nd
                      /\ Bytes(m.dest) = IF max > 0 THEN Take(rest, max) ELSE rest
                      /\ max > 0 => Len(Bytes(m.dest)) = max
      /\ (m.rc < 0 /\ nd >= Len(v)) => max > Len(rest)
  BY <1>3, Zenon DEF MapsBytes
<1>8. /\ a.rc >= 0 => /\ Bytes(Drop(a.iovs, a.rc)) = rest /\ iov_restore(a.iovs, a.rc, a.save) = v
      /\ a.rc = EXFULL => done = Len(all)
      /\ (a.rc = ERANGE) = (done > Len(all))
  <2>1. /\ a.rc >= 0 => /\ Bytes(Drop(a.iovs, a.rc)) = rest
                         /\ iov_restore(a.iovs, a.rc, a.save) = v
        /\ a.rc = EXFULL => done = Len(all)
    BY <1>4, Zenon DEF AdvancesTo
  <2>2. a.rc = ERANGE <=> done > Len(all)
    BY <1>4, Zenon DEF AdvancesTo
  <2> HIDE DEF all
  <2>3. (a.rc = ERANGE) = (done > Len(all))
    BY <2>2
  <2>. QED
    BY <2>1, <2>3
<1>9. max > 0 =>
         /\ (q.rc < 0) = (Len(rest) < max)
         /\ q.rc > 0 => /\ Take(rest, max + q.prune) = Drop(Bytes(span), cut)
                        /\ q.prune < Last(span).len
  <2> SUFFICES ASSUME max > 0
               PROVE  /\ (q.rc < 0) = (Len(rest) < max)
                      /\ q.rc > 0 => /\ Take(rest, max + q.prune) = Drop(Bytes(span), cut)
                                     /\ q.prune < Last(span).len
    OBVIOUS
  <2>1. q.rc > 0 => /\ Take(rest, max + q.prune) = Drop(Bytes(span), cut)
                    /\ q.prune < Last(span).len
    BY <1>5, Zenon DEF MeetsAt, UsedOf
  <2>2. q.rc < 0 <=> Len(rest) < max
    BY <1>5, Zenon DEF MeetsAt
  <2> HIDE DEF rest
  <2>3. (q.rc < 0) = (Len(rest) < max)
    BY <2>2
  <2>. QED
    BY <2>1, <2>3
<1>. QED
  BY <1>6, <1>7, <1>8, <1>9, Zenon DEF VectorsAreStrings, v, done, max, nd, m, a, q

\* io.c: the helpers see an array of vectors as one string of bytes.
THEOREM HelpersCorrect == HelpersSpec => []VectorsAreStrings
<1>1. IovInit => HelpersInv
  BY DEF IovInit, HelpersInv
<1>2. HelpersInv /\ [CallHelpers]_iovVars => HelpersInv'
  <2> SUFFICES ASSUME HelpersInv, [CallHelpers]_iovVars PROVE HelpersInv'
    OBVIOUS
  <2>1. CASE CallHelpers
    <3> DEFINE r == [map |-> map_consumed(iojob.iovs, iojob.ndest, iojob.done, iojob.max),
                     adv |-> advance(iojob.iovs, iojob.done),
                     meet |-> num_to_meet_size(iojob.iovs, iojob.max, iojob.done),
                     parts |-> touched(iojob.iovs, iojob.done).parts]
    <3>1. iojob' = iojob /\ ioret' = <<r>>
      BY <2>1, Zenon DEF CallHelpers
    <3>2. ioret'[1] = r
      <4> HIDE DEF r
      <4>. QED
        BY <3>1
    <3>3. r = [map |-> map_consumed(iojob'.iovs, iojob'.ndest, iojob'.done, iojob'.max),
               adv |-> advance(iojob'.iovs, iojob'.done),
               meet |-> num_to_meet_size(iojob'.iovs, iojob'.max, iojob'.done),
               parts |-> touched(iojob'.iovs, iojob'.done).parts]
      BY <3>1, Zenon
    <3> HIDE DEF r
    <3>. QED
      BY <3>1, <3>2, <3>3, Zenon DEF HelpersInv
  <2>2. CASE UNCHANGED iovVars
    <3>1. iojob' = iojob /\ ioret' = ioret
      BY <2>2 DEF iovVars
    <3>. QED
      BY <3>1, Zenon DEF HelpersInv
  <2>. QED
    BY <2>1, <2>2
<1>. QED
  BY <1>1, <1>2, HelpersAgree, PTL DEF HelpersSpec

-------------------------------------------------------------------------------
\* The reader of configuration documents (ConfigToken), for every document that
\* can be read by lines.  The reader goes character by character; the invariant
\* says where on which line it is and which settings it has handed over.

\* Position i is on the line behind s, which is 0 or the newline before it.
OnLine(d, s, i) ==
    /\ s \in Nat /\ i \in Nat /\ s < i /\ (s = 0 \/ d[s] = "NL")
    /\ \A j \in Nat : s < j /\ j < i => d[j] # "NL"
\* Nothing but white space from a up to b.
Blank(d, a, b) == \A j \in Nat : a <= j /\ j < b => d[j] \in isspace
\* p is the first character on it that is no white space.
FirstInk(d, s, p) == p \in Nat /\ s < p /\ Blank(d, s + 1, p) /\ d[p] \notin isspace

\* The line that ends at e.
LEMMA LineIs ==
    ASSUME NEW d \in Seq(STRING), NEW s, NEW e, OnLine(d, s, e), e \in Ends(d),
           NEW l, l = LineAt(d, e)
    PROVE  /\ l \in Seq(STRING) /\ Len(l) = e - 1 - s /\ DOMAIN l = 1..(e - 1 - s)
           /\ \A j \in 1..(e - 1 - s) : l[j] = d[s + j]
           /\ e \in 1..Len(d) /\ Len(d) \in Nat
<1> DEFINE n == Len(d)
           P == {0} \cup {f \in Ends(d) : f < e}
           m == s + 1
           k == e - 1
<1>1. n \in Nat /\ DOMAIN d = 1..n /\ \A j \in 1..n : d[j] \in STRING
  BY LenProperties, ElementOfSeq
<1>2. e \in 1..n /\ Ends(d) \subseteq 1..n /\ \A f \in 1..n : f \in Ends(d) <=> d[f] = "NL"
  BY <1>1 DEF Ends
<1>3. s \in Nat /\ e \in Nat /\ s < e /\ (s = 0 \/ d[s] = "NL")
      /\ \A j \in Nat : s < j /\ j < e => d[j] # "NL"
  BY DEF OnLine
<1>4. Max(P) = s
  <2>1. s \in P
    BY <1>1, <1>2, <1>3
  <2>2. \A x \in P : x \in Nat /\ x <= s
    <3>1. ASSUME NEW x \in Ends(d), x < e PROVE x \in Nat /\ x <= s
      BY <1>1, <1>2, <1>3, <3>1
    <3>. QED
      BY <1>3, <3>1
  <2> HIDE DEF P
  <2>3. \A x \in P : (\A y \in P : x >= y) => x = s
    BY <1>3, <2>1, <2>2
  <2>4. \A y \in P : s >= y
    BY <1>3, <2>2
  <2>5. Max(P) \in P /\ \A y \in P : Max(P) >= y
    BY <2>1, <2>4 DEF Max
  <2>. QED
    BY <2>3, <2>5
<1>5. l = SubSeq(d, m, k)
  BY <1>4 DEF LineAt
<1>6. m \in Int /\ k \in Int /\ \A j \in m..k : d[j] \in STRING
  BY <1>1, <1>2, <1>3
<1>7. (IF m <= k THEN k - m + 1 ELSE 0) = e - 1 - s /\ k - m + 1 = e - 1 - s
  BY <1>3
<1> HIDE DEF m, k, n
<1>8. /\ l \in Seq(STRING) /\ Len(l) = IF m <= k THEN k - m + 1 ELSE 0
      /\ \A j \in 1..k-m+1 : l[j] = d[m + j - 1]
  BY <1>5, <1>6, SubSeqProperties
<1>9. Len(l) = e - 1 - s /\ DOMAIN l = 1..(e - 1 - s)
  BY <1>7, <1>8, LenProperties
<1>10. \A j \in 1..(e - 1 - s) : l[j] = d[s + j]
  <2>1. \A j \in 1..(e - 1 - s) : m + j - 1 = s + j
    BY <1>3 DEF m
  <2>. QED
    BY <1>7, <1>8, <2>1
<1>. QED
  BY <1>1, <1>2, <1>8, <1>9, <1>10 DEF n

\* Its ink: where it begins and ends, and whether the line says something.
LEMMA InkIs ==
    ASSUME NEW d \in Seq(STRING), NEW s, NEW e, OnLine(d, s, e), e \in Ends(d),
           NEW p, FirstInk(d, s, p), p < e, NEW l, l = LineAt(d, e)
    PROVE  /\ Ink(l) \subseteq 1..(e - 1 - s) /\ Ink(l) # {} /\ Min(Ink(l)) = p - s
           /\ \A j \in 1..(e - 1 - s) : j \in Ink(l) <=> d[s + j] \notin isspace
           /\ Max(Ink(l)) \in Ink(l) /\ \A j \in Ink(l) : j <= Max(Ink(l))
           /\ e \in Says(d) <=> d[p] # "#"
<1> DEFINE w == e - 1 - s
           I == Ink(l)
<1>1. /\ DOMAIN l = 1..w /\ \A j \in 1..w : l[j] = d[s + j]
  BY LineIs
<1>2. /\ s \in Nat /\ e \in Nat /\ s < e /\ w \in Nat /\ p \in Nat /\ s < p /\ p < e
      /\ d[p] \notin isspace
      /\ \A j \in Nat : s < j /\ j < p => d[j] \in isspace
  <2>1. s \in Nat /\ e \in Nat /\ s < e /\ p \in Nat /\ s < p /\ p < e
    BY DEF OnLine, FirstInk
  <2>2. d[p] \notin isspace /\ \A j \in Nat : s + 1 <= j /\ j < p => d[j] \in isspace
    BY DEF FirstInk, Blank
  <2>. QED
    BY <2>1, <2>2
<1>3. I \subseteq 1..w /\ \A j \in 1..w : j \in I <=> d[s + j] \notin isspace
  BY <1>1 DEF Ink
<1>4. p - s \in 1..w /\ s + (p - s) = p
  BY <1>2
<1>5. p - s \in I
  BY <1>2, <1>3, <1>4
<1>6. \A j \in I : p - s <= j
  <2>1. ASSUME NEW j \in 1..w, j < p - s PROVE j \notin I
    <3>1. s + j \in Nat /\ s < s + j /\ s + j < p
      BY <1>2, <2>1
    <3>2. d[s + j] \in isspace
      BY <1>2, <3>1
    <3>. QED
      BY <1>3, <3>2
  <2> HIDE DEF I
  <2>. QED
    BY <1>2, <1>3, <2>1
<1> HIDE DEF I, w
<1>7. Min(I) = p - s
  <2>1. I \in SUBSET Nat
    BY <1>2, <1>3
  <2>2. Min(I) \in I /\ \A x \in I : Min(I) <= x
    BY <1>5, <2>1, MinOfPositions
  <2>3. Min(I) \in Nat /\ Min(I) <= p - s /\ p - s <= Min(I)
    BY <1>5, <1>6, <2>1, <2>2
  <2>. QED
    BY <1>2, <2>3
<1>8. Max(I) \in I /\ \A x \in I : x <= Max(I)
  BY <1>2, <1>3, <1>5, MaxOfPositions
<1>9. e \in Says(d) <=> d[p] # "#"
  <2>1. l[p - s] = d[p]
    BY <1>1, <1>4 DEF w
  <2>2. e \in Says(d) <=> I # {} /\ l[Min(I)] # "#"
    BY DEF Says, I
  <2>. QED
    BY <1>5, <1>7, <2>1, <2>2
<1>. QED
  BY <1>3, <1>5, <1>7, <1>8, <1>9 DEF I, w

\* A line of white space says nothing.
LEMMA BlankSaysNothing ==
    ASSUME NEW d \in Seq(STRING), NEW s, NEW e, OnLine(d, s, e), e \in Ends(d), Blank(d, s + 1, e)
    PROVE  e \notin Says(d)
<1> DEFINE l == LineAt(d, e)
           w == e - 1 - s
<1>1. /\ DOMAIN l = 1..w /\ \A j \in 1..w : l[j] = d[s + j]
  BY LineIs
<1>2. s \in Nat /\ e \in Nat /\ s < e
  BY DEF OnLine
<1>3. \A j \in 1..w : d[s + j] \in isspace
  <2>1. ASSUME NEW j \in 1..w PROVE d[s + j] \in isspace
    <3>1. s + j \in Nat /\ s + 1 <= s + j /\ s + j < e
      BY <1>2
    <3>. QED
      BY <3>1 DEF Blank
  <2>. QED
    BY <2>1
<1> HIDE DEF l, w
<1>4. Ink(l) = {}
  BY <1>1, <1>3 DEF Ink
<1>. QED
  BY <1>4 DEF Says, l

\* The end of the line of a character.
LEMMA LineEnds ==
    ASSUME NEW d \in Seq(STRING), ByLines(d), NEW s, NEW p, OnLine(d, s, p), p <= Len(d)
    PROVE  \E e \in Ends(d) : p <= e /\ OnLine(d, s, e) /\ (d[p] # "NL" => p < e)
<1> DEFINE n == Len(d)
           F == {f \in Ends(d) : p <= f}
           e == Min(F)
<1>1. n \in Nat /\ DOMAIN d = 1..n /\ p \in Nat /\ s \in Nat /\ s < p
  BY LenProperties DEF OnLine
<1>2. d[n] = "NL"
  BY DEF ByLines, Last
<1>3. n \in F /\ F \in SUBSET Nat /\ \A f \in 1..n : f \in F <=> p <= f /\ d[f] = "NL"
  BY <1>1, <1>2 DEF Ends
<1>4. e \in F /\ \A x \in F : e <= x
  <2> HIDE DEF F
  <2>. QED
    BY <1>3, MinOfPositions
<1>5. e \in Ends(d) /\ p <= e /\ e \in 1..n /\ d[e] = "NL"
  <2>1. e \in Ends(d) /\ p <= e
    BY <1>4
  <2> HIDE DEF F, e
  <2>. QED
    BY <1>1, <2>1 DEF Ends
<1> HIDE DEF F, e, n
<1>6. OnLine(d, s, e)
  <2>1. ASSUME NEW j \in Nat, s < j, j < e PROVE d[j] # "NL"
    <3>1. CASE j < p
      BY <2>1, <3>1 DEF OnLine
    <3>2. CASE ~(j < p)
      <4>1. j \in 1..n /\ p <= j
        BY <1>1, <1>5, <2>1, <3>2
      <4>2. j \notin F
        BY <1>4, <1>5, <2>1
      <4>. QED
        BY <1>3, <4>1, <4>2
    <3>. QED
      BY <3>1, <3>2
  <2>. QED
    BY <1>1, <1>5, <2>1 DEF OnLine
<1>7. d[p] # "NL" => p < e
  BY <1>1, <1>5
<1>. QED
  BY <1>5, <1>6, <1>7

\* Token k stands at p, with white space behind it.
StandsAt(d, p, k) ==
    /\ d[p + Len(Tokens[k].name)] = " "
    /\ \A j \in 1..Len(Tokens[k].name) : d[p + j - 1] = Tokens[k].name[j]

\* The shape of the table.
LEMMA TokenNames ==
    ASSUME NEW k \in DOMAIN Tokens, NEW t, t = Tokens[k].name
    PROVE  /\ t \in Seq(STRING) /\ Len(t) \in Nat /\ DOMAIN t = 1..Len(t)
           /\ \A j \in 1..Len(t) : t[j] # "NL"
           /\ DOMAIN Tokens \subseteq Nat \ {0}
<1>1. Tokens \in Seq([name : Seq(STRING), bad : SUBSET Seq(STRING)])
      /\ \A j \in DOMAIN Tokens : "NL" \notin Range(Tokens[j].name)
  BY ConfAssumption
<1>2. Tokens[k] \in [name : Seq(STRING), bad : SUBSET Seq(STRING)]
      /\ DOMAIN Tokens = 1..Len(Tokens) /\ Len(Tokens) \in Nat
  BY <1>1, ElementOfSeq, LenProperties
<1>3. t \in Seq(STRING)
  BY <1>2
<1>4. Len(t) \in Nat /\ DOMAIN t = 1..Len(t)
  BY <1>3, LenProperties
<1>5. \A j \in 1..Len(t) : t[j] # "NL"
  BY <1>1, <1>4 DEF Range
<1>. QED
  BY <1>2, <1>3, <1>4, <1>5

\* The same part of two sequences, character by character.
LEMMA SameParts ==
    ASSUME NEW s \in Seq(STRING), NEW t \in Seq(STRING), NEW b \in Nat, b + Len(t) <= Len(s)
    PROVE  SubSeq(s, b + 1, b + Len(t)) = t <=> \A j \in 1..Len(t) : s[b + j] = t[j]
<1> DEFINE n == Len(t)
           m == b + 1
           k == b + n
           u == SubSeq(s, m, k)
<1>1. /\ n \in Nat /\ Len(s) \in Nat /\ DOMAIN t = 1..n /\ t = [j \in 1..n |-> t[j]]
      /\ \A j \in 1..Len(s) : s[j] \in STRING
  BY LenProperties, ElementOfSeq
<1>2. m \in Int /\ k \in Int /\ \A j \in m..k : s[j] \in STRING
  BY <1>1
<1>3. (IF m <= k THEN k - m + 1 ELSE 0) = n /\ k - m + 1 = n /\ \A j \in 1..n : m + j - 1 = b + j
  BY <1>1
<1> HIDE DEF m, k
<1>4. /\ u \in Seq(STRING) /\ Len(u) = n
      /\ \A j \in 1..n : u[j] = s[b + j]
  BY <1>2, <1>3, SubSeqProperties
<1> HIDE DEF u, n
<1>5. DOMAIN u = 1..n /\ u = [j \in DOMAIN u |-> u[j]]
  BY <1>4, LenProperties
<1>6. u = t <=> \A j \in 1..n : s[b + j] = t[j]
  BY <1>1, <1>4, <1>5
<1>. QED
  BY <1>6 DEF u, m, k, n

\* The tokens that a line begins with.
LEMMA TokensOfLine ==
    ASSUME NEW d \in Seq(STRING), NEW s, NEW e, OnLine(d, s, e), e \in Ends(d),
           NEW p, FirstInk(d, s, p), p < e, NEW l, l = LineAt(d, e), NEW k \in DOMAIN Tokens
    PROVE  k \in LineTokens(l) <=> StandsAt(d, p, k) /\ p + Len(Tokens[k].name) < e
<1> DEFINE t == Tokens[k].name
           w == e - 1 - s
           b == p - s - 1
<1>1. /\ l \in Seq(STRING) /\ Len(l) = w /\ \A j \in 1..w : l[j] = d[s + j]
  BY LineIs
<1>2. Min(Ink(l)) = p - s
  BY InkIs
<1>3. t \in Seq(STRING) /\ Len(t) \in Nat
  BY TokenNames
<1>4. s \in Nat /\ e \in Nat /\ p \in Nat /\ s < p /\ p < e /\ w \in Nat /\ b \in Nat
      /\ Min(Ink(l)) - 1 = b /\ s + b = p - 1
  BY <1>2 DEF OnLine, FirstInk
<1> HIDE DEF t, w, b
<1>5. k \in LineTokens(l) <=> /\ b + Len(t) < w
                              /\ SubSeq(l, b + 1, b + Len(t)) = t
                              /\ l[b + Len(t) + 1] = " "
  BY <1>1, <1>4 DEF LineTokens, t
<1>6. b + Len(t) < w <=> p + Len(t) < e
  BY <1>3, <1>4 DEF b, w
<1>7. ASSUME b + Len(t) < w PROVE k \in LineTokens(l) <=> StandsAt(d, p, k)
  <2>0. b + Len(t) <= Len(l) /\ b \in Nat
    BY <1>1, <1>3, <1>4, <1>7
  <2>1. SubSeq(l, b + 1, b + Len(t)) = t <=> \A j \in 1..Len(t) : l[b + j] = t[j]
    BY <1>1, <1>3, <2>0, SameParts
  <2>2. \A j \in 1..Len(t) : l[b + j] = d[p + j - 1]
    <3>1. ASSUME NEW j \in 1..Len(t) PROVE l[b + j] = d[p + j - 1]
      <4>1. b + j \in 1..w /\ s + (b + j) = p + j - 1
        BY <1>3, <1>4, <1>7, <3>1
      <4>. QED
        BY <1>1, <4>1
    <3>. QED
      BY <3>1
  <2>3. l[b + Len(t) + 1] = d[p + Len(t)]
    <3>1. b + Len(t) + 1 \in 1..w /\ s + (b + Len(t) + 1) = p + Len(t)
      BY <1>3, <1>4, <1>7
    <3>. QED
      BY <1>1, <3>1
  <2>4. StandsAt(d, p, k) <=> /\ d[p + Len(t)] = " "
                              /\ \A j \in 1..Len(t) : d[p + j - 1] = t[j]
    BY DEF StandsAt, t
  <2>. QED
    BY <1>5, <1>7, <2>1, <2>2, <2>3, <2>4
<1>. QED
  BY <1>5, <1>6, <1>7 DEF t

\* The tokens that the rest of the buffer begins with.
LEMMA TokensOfRest ==
    ASSUME NEW d \in Seq(STRING), NEW p \in 1..Len(d), NEW rest, rest = SubSeq(d, p, Len(d)),
           NEW k \in DOMAIN Tokens, Len(Tokens[k].name) <= Len(d) - p
    PROVE  /\ ~(Len(Tokens[k].name) + 1 > Len(rest))
           /\ (IsPrefix(Tokens[k].name, rest) /\ rest[Len(Tokens[k].name) + 1] = " ")
                <=> StandsAt(d, p, k)
<1> DEFINE t == Tokens[k].name
           n == Len(d)
           r == n - p + 1
<1>1. /\ n \in Nat /\ p \in Int /\ n \in Int /\ p <= n /\ 1 <= p
      /\ \A j \in p..n : d[j] \in STRING
  BY LenProperties, ElementOfSeq
<1>2. t \in Seq(STRING) /\ Len(t) \in Nat
  BY TokenNames
<1> HIDE DEF n
<1>3. rest \in Seq(STRING) /\ Len(rest) = IF p <= n THEN n - p + 1 ELSE 0
  BY <1>1, SubSeqProperties DEF n
<1>4. \A j \in 1..n - p + 1 : rest[j] = d[p + j - 1]
  BY <1>1, SubSeqProperties DEF n
<1>5. Len(rest) = r /\ r \in Nat /\ Len(t) + 1 <= r
  BY <1>1, <1>2, <1>3 DEF n
<1>6. \A j \in 1..r : rest[j] = d[p + j - 1]
  BY <1>4
<1> HIDE DEF t, r
<1>7. SubSeq(t, 1, Len(t)) = t
  <2>1. t = [j \in 1..Len(t) |-> t[j]]
    BY <1>2, LenProperties
  <2>2. 1 \in Int /\ Len(t) \in Int /\ \A j \in 1..Len(t) : t[j] \in STRING
    BY <1>2, ElementOfSeq
  <2>3. /\ SubSeq(t, 1, Len(t)) \in Seq(STRING)
        /\ Len(SubSeq(t, 1, Len(t))) = IF 1 <= Len(t) THEN Len(t) - 1 + 1 ELSE 0
        /\ \A j \in 1 .. Len(t) - 1 + 1 : SubSeq(t, 1, Len(t))[j] = t[1 + j - 1]
    BY <2>2, SubSeqProperties
  <2> DEFINE u == SubSeq(t, 1, Len(t))
  <2>4. Len(u) = Len(t) /\ \A j \in 1..Len(t) : u[j] = t[j]
    BY <1>2, <2>3
  <2>5. u = [j \in 1..Len(u) |-> u[j]]
    BY <2>3, LenProperties
  <2> HIDE DEF u
  <2>6. u = t
    BY <2>1, <2>4, <2>5
  <2>. QED
    BY <2>6 DEF u
<1>8. IsPrefix(t, rest) <=> \A j \in 1..Len(t) : rest[j] = t[j]
  <2>1. 0 + Len(t) <= Len(rest) /\ 0 \in Nat
    BY <1>2, <1>5
  <2>2. SubSeq(rest, 0 + 1, 0 + Len(t)) = t <=> \A j \in 1..Len(t) : rest[0 + j] = t[j]
    BY <1>2, <1>3, <2>1, SameParts
  <2>3. 0 + 1 = 1 /\ 0 + Len(t) = Len(t) /\ (\A j \in 1..Len(t) : 0 + j = j) /\ Len(t) <= Len(rest)
    BY <1>2, <1>5
  <2>4. SubSeq(rest, 1, Len(t)) = t <=> \A j \in 1..Len(t) : rest[j] = t[j]
    BY <2>2, <2>3
  <2>. QED
    BY <1>7, <2>3, <2>4 DEF IsPrefix
<1>9. \A j \in 1..Len(t) : rest[j] = d[p + j - 1]
  BY <1>2, <1>5, <1>6
<1>10. rest[Len(t) + 1] = d[p + Len(t)]
  <2>1. Len(t) + 1 \in 1..r /\ p + (Len(t) + 1) - 1 = p + Len(t)
    BY <1>1, <1>2, <1>5
  <2>. QED
    BY <1>6, <2>1
<1>11. StandsAt(d, p, k) <=> /\ d[p + Len(t)] = " "
                             /\ \A j \in 1..Len(t) : d[p + j - 1] = t[j]
  BY DEF StandsAt, t
<1>12. (IsPrefix(t, rest) /\ rest[Len(t) + 1] = " ") <=> StandsAt(d, p, k)
  BY <1>8, <1>9, <1>10, <1>11
<1>13. ~(Len(t) + 1 > Len(rest))
  BY <1>2, <1>5
<1>. QED
  BY <1>12, <1>13 DEF t

\* A token that stands at p ends on the line of p.
LEMMA TokenOnLine ==
    ASSUME NEW d \in Seq(STRING), NEW s, NEW e, OnLine(d, s, e), e \in Ends(d),
           NEW p \in Nat, p < e, NEW k \in DOMAIN Tokens, StandsAt(d, p, k)
    PROVE  p + Len(Tokens[k].name) < e
<1> DEFINE t == Tokens[k].name
<1>1. Len(t) \in Nat /\ \A j \in 1..Len(t) : t[j] # "NL"
  BY TokenNames
<1>2. e \in Nat /\ d[e] = "NL"
  BY DEF OnLine, Ends
<1>3. d[p + Len(t)] = " " /\ \A j \in 1..Len(t) : d[p + j - 1] = t[j]
  BY DEF StandsAt
<1> HIDE DEF t
<1>4. ASSUME e < p + Len(t) PROVE FALSE
  <2>1. e - p + 1 \in 1..Len(t) /\ p + (e - p + 1) - 1 = e
    BY <1>1, <1>2, <1>4
  <2>. QED
    BY <1>1, <1>2, <1>3, <2>1
<1>5. p + Len(t) # e
  BY <1>2, <1>3
<1>6. p + Len(t) < e
  BY <1>1, <1>2, <1>4, <1>5
<1>. QED
  BY <1>6 DEF t

\* The reader finds the token that the line says.
LEMMA TokenFound ==
    ASSUME NEW d \in Seq(STRING), ByLines(d), NEW s, NEW e, OnLine(d, s, e), e \in Ends(d),
           NEW p, FirstInk(d, s, p), p < e, d[p] # "#", NEW l, l = LineAt(d, e),
           NEW K, K = match_token(SubSeq(d, p, Len(d)))
    PROVE  /\ K = 0 <=> LineTokens(l) = {}
           /\ K # 0 => /\ K \in LineTokens(l) /\ K = Min(LineTokens(l))
                       /\ K \in DOMAIN Tokens /\ StandsAt(d, p, K)
                       /\ p + Len(Tokens[K].name) < e
                       /\ Max(Ink(l)) >= Min(Ink(l)) + Len(Tokens[K].name)
<1> DEFINE rest == SubSeq(d, p, Len(d))
           tooLong == {k \in DOMAIN Tokens : Len(Tokens[k].name) + 1 > Len(rest)}
           hits == {k \in DOMAIN Tokens \ tooLong :
                      /\ IsPrefix(Tokens[k].name, rest)
                      /\ rest[Len(Tokens[k].name) + 1] = " "}
<1>1. Len(l) = e - 1 - s /\ e \in 1..Len(d) /\ Len(d) \in Nat
  BY LineIs
<1>2. Min(Ink(l)) = p - s /\ e \in Says(d)
  BY InkIs
<1>3. s \in Nat /\ p \in Nat /\ s < p /\ e \in Nat /\ p \in 1..Len(d)
  BY <1>1 DEF OnLine, FirstInk
<1>4. e - Len(l) + Min(Ink(l)) - 1 = p
  BY <1>1, <1>2, <1>3
<1>5. /\ \A k \in DOMAIN Tokens : Len(Tokens[k].name) <= Len(d) - p
      /\ \A k \in LineTokens(l) : Max(Ink(l)) >= Min(Ink(l)) + Len(Tokens[k].name)
  BY <1>2, <1>4 DEF ByLines
<1>6. \A k \in DOMAIN Tokens : k \in LineTokens(l) <=> StandsAt(d, p, k) /\ p + Len(Tokens[k].name) < e
  BY TokensOfLine
<1>7. \A k \in DOMAIN Tokens : StandsAt(d, p, k) => p + Len(Tokens[k].name) < e
  BY <1>3, TokenOnLine
<1>8. \A k \in DOMAIN Tokens :
         /\ ~(Len(Tokens[k].name) + 1 > Len(rest))
         /\ (IsPrefix(Tokens[k].name, rest) /\ rest[Len(Tokens[k].name) + 1] = " ")
                <=> StandsAt(d, p, k)
  BY <1>3, <1>5, TokensOfRest
<1>9. K = IF hits = {} \/ (\E k \in tooLong : k < Min(hits)) THEN 0 ELSE Min(hits)
  BY Zenon DEF match_token
<1> HIDE DEF rest
<1>10. tooLong = {}
  BY <1>8
<1>11. hits = {k \in DOMAIN Tokens : StandsAt(d, p, k)}
  BY <1>8, <1>10
<1>12. LineTokens(l) \subseteq DOMAIN Tokens
  BY DEF LineTokens
<1>13. hits = LineTokens(l)
  BY <1>6, <1>7, <1>11, <1>12
<1> HIDE DEF hits, tooLong
<1>14. K = IF LineTokens(l) = {} THEN 0 ELSE Min(LineTokens(l))
  BY <1>9, <1>10, <1>13
<1>15. LineTokens(l) # {} => Min(LineTokens(l)) \in LineTokens(l) /\ 0 \notin LineTokens(l)
  <2>1. SUFFICES ASSUME NEW k \in LineTokens(l)
                 PROVE Min(LineTokens(l)) \in LineTokens(l) /\ 0 \notin LineTokens(l)
    OBVIOUS
  <2>2. DOMAIN Tokens \subseteq Nat \ {0}
    BY <1>12, TokenNames
  <2>3. LineTokens(l) \in SUBSET Nat /\ LineTokens(l) # {} /\ 0 \notin LineTokens(l)
    BY <1>12, <2>2
  <2>. QED
    BY <2>3, MinOfPositions
<1>. QED
  BY <1>5, <1>6, <1>12, <1>14, <1>15

\* A part of a document, character by character.
LEMMA PartIs ==
    ASSUME NEW Ch, NEW d \in Seq(Ch), NEW a \in Nat \ {0}, NEW b \in Nat, a <= b + 1, b <= Len(d),
           NEW v, v = SubSeq(d, a, b)
    PROVE  /\ v \in Seq(Ch) /\ Len(v) = b - a + 1 /\ DOMAIN v = 1..(b - a + 1)
           /\ \A j \in 1..(b - a + 1) : v[j] = d[a + j - 1]
<1>1. Len(d) \in Nat /\ \A j \in 1..Len(d) : d[j] \in Ch
  BY LenProperties, ElementOfSeq
<1>2. a \in Int /\ b \in Int /\ \A j \in a..b : d[j] \in Ch
  BY <1>1
<1>3. v \in Seq(Ch) /\ Len(v) = (IF a <= b THEN b - a + 1 ELSE 0)
      /\ \A j \in 1..b - a + 1 : v[j] = d[a + j - 1]
  BY <1>2, SubSeqProperties
<1>4. Len(v) = b - a + 1
  BY <1>3
<1>. QED
  BY <1>3, <1>4, LenProperties

\* One more character of it.
LEMMA PartGrows ==
    ASSUME NEW Ch, NEW d \in Seq(Ch), NEW a \in Nat \ {0}, NEW i \in 1..Len(d), a <= i,
           NEW v, v = SubSeq(d, a, i - 1)
    PROVE  Append(v, d[i]) = SubSeq(d, a, i)
<1> DEFINE u == SubSeq(d, a, i)
           c == d[i]
<1>1. Len(d) \in Nat /\ i \in Nat /\ i - 1 \in Nat /\ c \in Ch
      /\ i <= Len(d) /\ i - 1 <= Len(d) /\ a <= i - 1 + 1 /\ a <= i + 1
  BY LenProperties, ElementOfSeq
<1>2. v \in Seq(Ch) /\ Len(v) = i - 1 - a + 1
      /\ \A j \in 1..(i - 1 - a + 1) : v[j] = d[a + j - 1]
  <2> DEFINE b == i - 1
  <2>1. b \in Nat /\ a <= b + 1 /\ b <= Len(d) /\ v = SubSeq(d, a, b)
    BY <1>1
  <2> HIDE DEF b
  <2>2. v \in Seq(Ch) /\ Len(v) = b - a + 1 /\ \A j \in 1..(b - a + 1) : v[j] = d[a + j - 1]
    BY <2>1, PartIs
  <2>. QED
    BY <2>2 DEF b
<1>3. u \in Seq(Ch) /\ Len(u) = i - a + 1
      /\ \A j \in 1..(i - a + 1) : u[j] = d[a + j - 1]
  BY <1>1, PartIs
<1> DEFINE w == Append(v, c)
<1> HIDE DEF u, c
<1>4. w \in Seq(Ch) /\ Len(w) = Len(v) + 1
      /\ (\A j \in 1..Len(v) : w[j] = v[j]) /\ w[Len(v) + 1] = c
  <2>1. v \in Seq(Ch) /\ c \in Ch
    BY <1>1, <1>2
  <2>. QED
    BY <2>1, AppendProperties
<1>5. Len(w) = Len(u)
  BY <1>1, <1>2, <1>3, <1>4
<1>6. ASSUME NEW j \in 1..Len(w) PROVE w[j] = u[j]
  <2>0. i - 1 - a + 1 = Len(v) /\ Len(w) = i - a + 1 /\ Len(v) \in Nat
    BY <1>1, <1>2, <1>3, <1>5
  <2>1. CASE j \in 1..Len(v)
    BY <1>2, <1>3, <1>4, <2>0, <2>1
  <2>2. CASE j = Len(v) + 1
    <3>1. a + j - 1 = i
      BY <1>1, <2>0, <2>2
    <3>2. w[j] = c
      BY <1>4, <2>2
    <3>3. j \in 1..(i - a + 1) /\ u[j] = d[a + j - 1]
      BY <1>3, <2>0
    <3>. QED
      BY <3>1, <3>2, <3>3 DEF c
  <2>3. j \in 1..Len(v) \/ j = Len(v) + 1
    BY <1>4, <2>0
  <2>. QED
    BY <2>1, <2>2, <2>3
<1>7. w = u
  BY <1>3, <1>4, <1>5, <1>6, SeqEqual
<1>. QED
  BY <1>7 DEF w, u, c

\* val is what stands from v to the end e of the line behind s, and v is the
\* first ink behind token k, which stands at the line's first ink p.
Collected(d, s, e, p, k, v, val) ==
    /\ OnLine(d, s, e) /\ e \in Ends(d) /\ FirstInk(d, s, p) /\ p < e
    /\ v \in Nat /\ p + Len(Tokens[k].name) <= v /\ v < e
    /\ Blank(d, p + Len(Tokens[k].name), v) /\ d[v] \notin isspace
    /\ val = SubSeq(d, v, e - 1)

\* The value that the reader has collected at the end of the line, its white
\* space cleared, is the one that the line says.
LEMMA ValueIs ==
    ASSUME NEW d \in Seq(STRING), NEW l, NEW s, NEW e, l = LineAt(d, e),
           NEW p, NEW k \in DOMAIN Tokens, NEW v, NEW val, Collected(d, s, e, p, k, v, val)
    PROVE  ClearWs(val) = LineValue(l, k) /\ LineValue(l, k) \in Seq(STRING)
<1> DEFINE q == p + Len(Tokens[k].name)
<1>0. /\ OnLine(d, s, e) /\ e \in Ends(d) /\ FirstInk(d, s, p) /\ p < e
      /\ v \in Nat /\ q <= v /\ v < e /\ Blank(d, q, v) /\ d[v] \notin isspace
      /\ val = SubSeq(d, v, e - 1)
  BY DEF Collected
<1> DEFINE w == e - 1 - s
           I == Ink(l)
           M == Max(I)
           a == v - s
           S == {x \in I : x >= p - s + Len(Tokens[k].name)}
           ink == {j \in DOMAIN val : val[j] \notin isspace}
           out == SubSeq(l, a, M)
           got == SubSeq(val, 1, M - a + 1)
<1>1. /\ l \in Seq(STRING) /\ Len(l) = w /\ \A j \in 1..w : l[j] = d[s + j]
  BY <1>0, LineIs
<1>2. e \in 1..Len(d) /\ Len(d) \in Nat
  BY <1>0, LineIs
<1>3. /\ I \subseteq 1..w /\ I # {} /\ Min(I) = p - s
      /\ \A j \in 1..w : j \in I <=> d[s + j] \notin isspace
      /\ M \in I /\ \A j \in I : j <= M
  BY <1>0, InkIs
<1>4. Len(Tokens[k].name) \in Nat
  BY TokenNames
<1>5. s \in Nat /\ p \in Nat /\ e \in Nat /\ s < p /\ p < e /\ w \in Nat
      /\ p <= q /\ q \in Nat /\ p - s + Len(Tokens[k].name) = q - s /\ a \in 1..w /\ s + a = v
  <2>1. s \in Nat /\ s < e
    BY <1>0 DEF OnLine
  <2>2. p \in Nat /\ s < p /\ p < e
    BY <1>0 DEF FirstInk
  <2>3. e \in Nat /\ w \in Nat
    BY <1>2, <2>1
  <2>4. v \in Nat /\ q <= v /\ v < e
    BY <1>0
  <2> DEFINE n == Len(Tokens[k].name)
  <2>5. n \in Nat /\ q = p + n
    BY <1>4
  <2> HIDE DEF q, n
  <2>6. p <= q /\ q \in Nat /\ p - s + n = q - s /\ a \in 1..w /\ s + a = v
    BY <2>1, <2>2, <2>3, <2>4, <2>5
  <2>. QED
    BY <2>1, <2>2, <2>3, <2>6 DEF n
<1> HIDE DEF w, I, M
<1>6. a \in I /\ a <= M /\ M \in 1..w
  BY <1>0, <1>3, <1>5
<1>7. Min(S) = a
  <2>0. a >= q - s /\ a \in Nat /\ \A x \in I : x \in Nat
    BY <1>0, <1>3, <1>5
  <2>1. a \in S /\ S \in SUBSET Nat
    <3>1. a >= p - s + Len(Tokens[k].name)
      BY <1>5, <2>0
    <3>2. a \in S
      BY <1>6, <3>1
    <3>. QED
      BY <2>0, <3>2
  <2>2. ASSUME NEW x \in S PROVE a <= x
    <3>1. x \in 1..w /\ d[s + x] \notin isspace /\ x >= q - s
      BY <1>3, <1>5
    <3>2. ASSUME x < a PROVE FALSE
      <4>1. s + x \in Nat /\ q <= s + x /\ s + x < v
        BY <1>5, <3>1, <3>2
      <4>. QED
        BY <1>0, <3>1, <4>1 DEF Blank
    <3>. QED
      BY <1>5, <3>1, <3>2
  <2> HIDE DEF S
  <2>3. Min(S) \in S /\ \A x \in S : Min(S) <= x
    BY <2>1, MinOfPositions
  <2>4. Min(S) \in Nat /\ a \in Nat /\ Min(S) <= a /\ a <= Min(S)
    BY <2>1, <2>2, <2>3
  <2>. QED
    BY <2>4
<1>8. LineValue(l, k) = out
  <2>1. LineValue(l, k) = SubSeq(l, Min({x \in I : x >= Min(I) + Len(Tokens[k].name)}), M)
    BY Zenon DEF LineValue, I, M
  <2>. QED
    BY <1>3, <1>7, <2>1
<1> HIDE DEF S
<1>9. /\ out \in Seq(STRING) /\ Len(out) = M - a + 1
      /\ \A j \in 1..(M - a + 1) : out[j] = l[a + j - 1]
  <2>1. a \in Nat \ {0} /\ M \in Nat /\ a <= M + 1 /\ M <= Len(l)
    BY <1>1, <1>5, <1>6
  <2>. QED
    BY <1>1, <2>1, PartIs
<1>10. /\ val \in Seq(STRING) /\ Len(val) = e - v /\ DOMAIN val = 1..(e - v)
       /\ \A j \in 1..(e - v) : val[j] = d[v + j - 1]
  <2>1. v \in Nat \ {0} /\ e - 1 \in Nat /\ v <= e - 1 + 1 /\ e - 1 <= Len(d) /\ e - 1 - v + 1 = e - v
    BY <1>0, <1>2, <1>5
  <2>. QED
    BY <1>0, <2>1, PartIs
<1>11. ink \subseteq 1..(e - v) /\ \A j \in 1..(e - v) : j \in ink <=> a + j - 1 \in I
  <2>1. ASSUME NEW j \in 1..(e - v) PROVE a + j - 1 \in 1..w /\ s + (a + j - 1) = v + j - 1
    BY <1>0, <1>5 DEF w
  <2>2. \A j \in 1..(e - v) : j \in ink <=> d[v + j - 1] \notin isspace
    BY <1>10
  <2>. QED
    BY <1>3, <1>10, <2>1, <2>2
<1>12. Max(ink) = M - a + 1 /\ ink # {} /\ M - a + 1 \in 1..(e - v)
  <2>1. M - a + 1 \in 1..(e - v) /\ a + (M - a + 1) - 1 = M
    BY <1>0, <1>5, <1>6 DEF w
  <2>2. M - a + 1 \in ink
    BY <1>3, <1>11, <2>1
  <2>n. a \in Nat /\ M \in Nat /\ e - v \in Nat
    BY <1>0, <1>5, <1>6
  <2> HIDE DEF ink, a
  <2>3. ASSUME NEW j \in ink PROVE j \in Nat /\ j <= M - a + 1
    <3>1. j \in 1..(e - v) /\ a + j - 1 \in I
      BY <1>11
    <3>2. a + j - 1 <= M
      BY <1>3, <3>1
    <3>. QED
      BY <2>n, <3>1, <3>2
  <2>4. Max(ink) \in ink /\ \A j \in ink : j <= Max(ink)
    <3>1. ink \subseteq 1..(e - v)
      BY <1>11
    <3>2. ink # {}
      BY <2>2
    <3>. QED
      BY <2>n, <3>1, <3>2, MaxOfPositions
  <2>5. Max(ink) \in Nat /\ M - a + 1 \in Nat /\ Max(ink) <= M - a + 1 /\ M - a + 1 <= Max(ink)
    BY <2>1, <2>2, <2>3, <2>4
  <2>. QED
    BY <2>1, <2>2, <2>5
<1>13. ClearWs(val) = got
  <2>1. ClearWs(val) = IF ink = {} THEN <<>> ELSE SubSeq(val, 1, Max(ink))
    BY Zenon DEF ClearWs
  <2>. QED
    BY <1>12, <2>1
<1> HIDE DEF ink
<1>14. /\ got \in Seq(STRING) /\ Len(got) = M - a + 1
       /\ \A j \in 1..(M - a + 1) : got[j] = val[j]
  <2> DEFINE c == M - a + 1
  <2>1. 1 \in Nat \ {0} /\ c \in Nat /\ 1 <= c + 1 /\ c <= Len(val) /\ c - 1 + 1 = c
        /\ \A j \in 1..c : 1 + j - 1 = j
    BY <1>5, <1>10, <1>12
  <2>2. got = SubSeq(val, 1, c)
    OBVIOUS
  <2> HIDE DEF c, got
  <2>3. got \in Seq(STRING) /\ Len(got) = c - 1 + 1 /\ \A j \in 1..(c - 1 + 1) : got[j] = val[1 + j - 1]
    BY <1>10, <2>1, <2>2, PartIs
  <2>4. got \in Seq(STRING) /\ Len(got) = c /\ \A j \in 1..c : got[j] = val[j]
    BY <2>1, <2>3
  <2>. QED
    BY <2>4 DEF c
<1> HIDE DEF out, got
<1>15. ASSUME NEW j \in 1..(M - a + 1) PROVE got[j] = out[j]
  <2>1. j \in 1..(e - v) /\ a + j - 1 \in 1..w /\ s + (a + j - 1) = v + j - 1
    BY <1>0, <1>5, <1>6, <1>12 DEF w
  <2>2. val[j] = d[v + j - 1] /\ l[a + j - 1] = d[v + j - 1]
    BY <1>1, <1>10, <2>1
  <2>. QED
    BY <1>9, <1>14, <2>2
<1>16. got = out
  BY <1>9, <1>14, <1>15, SeqEqual
<1>. QED
  BY <1>8, <1>9, <1>13, <1>16

ItemsOf == Nat \X Seq(STRING)
Place(d, e) == Cardinality({f \in Says(d) : f <= e})
Known(d, e) == LineTokens(LineAt(d, e))
Item(d, e) == <<Min(Known(d, e)), LineValue(LineAt(d, e), Min(Known(d, e)))>>

\* The items are those of the settings in front of i.
Handed(d, items, i) ==
    /\ items \in Seq(ItemsOf) /\ Len(items) = Cardinality({f \in Says(d) : f < i})
    /\ \A e \in Says(d) : e < i => Known(d, e) # {} /\ items[Place(d, e)] = Item(d, e)

LEMMA SaysFinite ==
    ASSUME NEW d \in Seq(STRING)
    PROVE  /\ Says(d) \subseteq 1..Len(d) /\ IsFiniteSet(Says(d)) /\ Len(d) \in Nat
           /\ \A e \in Says(d) : e \in Ends(d)
<1>1. Says(d) \subseteq 1..Len(d) /\ Len(d) \in Nat /\ \A e \in Says(d) : e \in Ends(d)
  BY LenProperties DEF Says, Ends
<1>2. IsFiniteSet(1..Len(d))
  BY <1>1, FS_Interval
<1>. QED
  BY <1>1, <1>2, FS_Subset

\* A stretch in which no setting ends leaves the items as they are.
LEMMA HandedSkip ==
    ASSUME NEW d \in Seq(STRING), NEW items, NEW i \in Nat, Handed(d, items, i),
           NEW j \in Nat, i <= j, \A f \in Nat : i <= f /\ f < j => f \notin Says(d)
    PROVE  Handed(d, items, j)
<1>1. Says(d) \subseteq 1..Len(d) /\ Len(d) \in Nat
  BY SaysFinite
<1>2. \A f \in Says(d) : f < i <=> f < j
  BY <1>1
<1>3. {f \in Says(d) : f < i} = {f \in Says(d) : f < j}
  BY <1>2
<1>. QED
  BY <1>2, <1>3 DEF Handed

\* A setting that ends at i is handed over.
LEMMA HandedNext ==
    ASSUME NEW d \in Seq(STRING), NEW items, NEW i, Handed(d, items, i), i \in Says(d),
           Known(d, i) # {}, NEW it \in ItemsOf, it = Item(d, i), NEW j, j = i + 1
    PROVE  Handed(d, Append(items, it), j)
<1> DEFINE A == {f \in Says(d) : f < i}
           B == {f \in Says(d) : f < j}
           new == Append(items, it)
           c == Cardinality(A)
<1>1. Says(d) \subseteq 1..Len(d) /\ Len(d) \in Nat /\ IsFiniteSet(Says(d))
  BY SaysFinite
<1>2. /\ items \in Seq(ItemsOf) /\ Len(items) = c
      /\ \A e \in Says(d) : e < i => Known(d, e) # {} /\ items[Place(d, e)] = Item(d, e)
  BY DEF Handed
<1>3. i \in Nat /\ B = A \cup {i} /\ i \notin A
  BY <1>1
<1>4. A \in SUBSET Says(d)
  OBVIOUS
<1> HIDE DEF A, B, c
<1>5. IsFiniteSet(A) /\ Cardinality(A) = c /\ c \in Nat /\ Cardinality(B) = c + 1
  BY <1>1, <1>3, <1>4, FS_Subset, FS_AddElement, FS_CardinalityType DEF c
<1>6. /\ new \in Seq(ItemsOf) /\ Len(new) = c + 1
      /\ (\A k \in 1..c : new[k] = items[k]) /\ new[c + 1] = it
  BY <1>2, AppendProperties
<1> HIDE DEF new
<1>7. ASSUME NEW e \in Says(d), e < i PROVE Place(d, e) \in 1..c
  <2> DEFINE P == {f \in Says(d) : f <= e}
  <2>1. P \in SUBSET A /\ e \in P
    BY <1>1, <1>3, <1>7 DEF A
  <2>2. Place(d, e) = Cardinality(P)
    BY DEF Place
  <2> HIDE DEF P
  <2>3. IsFiniteSet(P) /\ Cardinality(P) <= c /\ Cardinality(P) \in Nat
    BY <1>5, <2>1, FS_Subset, FS_CardinalityType
  <2>4. Cardinality(P) # 0
    BY <2>1, <2>3, FS_EmptySet
  <2>. QED
    BY <2>2, <2>3, <2>4, <1>5
<1>8. Place(d, i) = c + 1
  <2>1. {f \in Says(d) : f <= i} = B
    BY <1>1, <1>3 DEF B
  <2>. QED
    BY <1>5, <2>1 DEF Place
<1>9. ASSUME NEW e \in Says(d), e < j PROVE Known(d, e) # {} /\ new[Place(d, e)] = Item(d, e)
  <2>1. e < i \/ e = i
    BY <1>1, <1>3, <1>9
  <2>2. CASE e < i
    BY <1>2, <1>6, <1>7, <2>2
  <2>3. CASE e = i
    BY <1>6, <1>8, <2>3
  <2>. QED
    BY <2>1, <2>2, <2>3
<1>10. Len(new) = Cardinality(B)
  BY <1>5, <1>6
<1>. QED
  BY <1>6, <1>9, <1>10 DEF Handed, B, new

\* What was handed over is a beginning of the settings.
LEMMA HandedSays ==
    ASSUME NEW d \in Seq(STRING), NEW items, NEW i \in Nat, Handed(d, items, i)
    PROVE  /\ Len(items) <= Cardinality(Says(d))
           /\ \A e \in Says(d) : Place(d, e) <= Len(items) =>
                 Known(d, e) # {} /\ items[Place(d, e)] = Item(d, e)
           /\ i > Len(d) => Len(items) = Cardinality(Says(d))
<1> DEFINE A == {f \in Says(d) : f < i}
           c == Cardinality(A)
<1>1. Says(d) \subseteq 1..Len(d) /\ Len(d) \in Nat /\ IsFiniteSet(Says(d))
  BY SaysFinite
<1>2. /\ Len(items) = c
      /\ \A e \in Says(d) : e < i => Known(d, e) # {} /\ items[Place(d, e)] = Item(d, e)
  BY DEF Handed
<1>3. A \in SUBSET Says(d) /\ (i > Len(d) => A = Says(d)) /\ \A f \in A : f < i
  BY <1>1
<1> HIDE DEF A
<1>4. IsFiniteSet(A) /\ c <= Cardinality(Says(d)) /\ c \in Nat
  BY <1>1, <1>3, FS_Subset, FS_CardinalityType
<1>5. ASSUME NEW e \in Says(d), Place(d, e) <= c PROVE e < i
  <2> DEFINE P == {f \in Says(d) : f <= e}
             Q == A \cup {e}
  <2>1. SUFFICES ASSUME ~(e < i) PROVE FALSE
    OBVIOUS
  <2>2. P \in SUBSET Says(d) /\ Q \in SUBSET P /\ e \notin A
    BY <1>1, <1>3, <2>1
  <2>3. Place(d, e) = Cardinality(P)
    BY DEF Place
  <2>4. Cardinality(Q) = c + 1
    BY <1>4, <2>2, FS_AddElement
  <2> HIDE DEF P, Q
  <2>5. IsFiniteSet(P) /\ Cardinality(Q) <= Cardinality(P)
    BY <1>1, <2>2, FS_Subset
  <2>6. Cardinality(P) \in Nat
    BY <2>5, FS_CardinalityType
  <2>. QED
    BY <1>4, <1>5, <2>3, <2>4, <2>5, <2>6
<1>. QED
  BY <1>2, <1>3, <1>4, <1>5 DEF c

\* The reader is in front of the first character that is no white space of the
\* line behind s, in a comment, or in a setting.
FreshAt(x, s) ==
    x.ct = 0 /\ ~x.comment /\ x.val = <<>> /\ Blank(x.doc, s + 1, x.i)
CommentAt(x, s) ==
    /\ x.ct = 0 /\ x.comment /\ x.val = <<>>
    /\ \E p : FirstInk(x.doc, s, p) /\ x.doc[p] = "#" /\ p < x.i
\* The setting's token at p, and the beginning of its value at v.
ValueFrom(x, s, p, v) ==
    /\ FirstInk(x.doc, s, p) /\ x.doc[p] # "#" /\ p < x.i
    /\ x.ct = match_token(SubSeq(x.doc, p, Len(x.doc)))
    /\ v \in Nat /\ p + Len(Tokens[x.ct].name) <= v /\ v <= x.i
    /\ Blank(x.doc, p + Len(Tokens[x.ct].name), v)
    /\ x.val = SubSeq(x.doc, v, x.i - 1)
    /\ v < x.i => x.doc[v] \notin isspace
ValueAt(x, s) ==
    /\ x.ct # 0 /\ x.ct \in DOMAIN Tokens /\ ~x.comment
    /\ \E p, v : ValueFrom(x, s, p, v)

ReadSoFar(x) ==
    ByLines(x.doc) =>
      /\ x.i <= Len(x.doc) + 1
      /\ Handed(x.doc, x.items, x.i)
      /\ x.rc = "ok" => x.i = Len(x.doc) + 1
      /\ x.rc = "run" => \E s : /\ OnLine(x.doc, s, x.i)
                                /\ FreshAt(x, s) \/ CommentAt(x, s) \/ ValueAt(x, s)

ParseShape(x) ==
    /\ x = [doc |-> x.doc, i |-> x.i, ct |-> x.ct, val |-> x.val, comment |-> x.comment,
            rc |-> x.rc, items |-> x.items]
    /\ x.doc \in Seq(STRING) /\ x.i \in Nat \ {0}

ConfInv == ParseShape(parse) /\ ReadSoFar(parse)

\* A line goes on until its newline, and behind that the next one begins.
LEMMA LineGoesOn ==
    ASSUME NEW d, NEW s, NEW i, OnLine(d, s, i), NEW k, k = i + 1
    PROVE  /\ d[i] # "NL" => OnLine(d, s, k)
           /\ d[i] = "NL" => OnLine(d, i, k) /\ Blank(d, i + 1, k)
<1>1. s \in Nat /\ i \in Nat /\ s < i /\ (s = 0 \/ d[s] = "NL") /\ k \in Nat
      /\ \A j \in Nat : s < j /\ j < i => d[j] # "NL"
  BY DEF OnLine
<1>2. \A j \in Nat : j < k => j < i \/ j = i
  BY <1>1
<1>3. d[i] # "NL" => OnLine(d, s, k)
  BY <1>1, <1>2 DEF OnLine
<1>4. d[i] = "NL" => OnLine(d, i, k)
  BY <1>1 DEF OnLine
<1>5. Blank(d, i + 1, k)
  BY <1>1 DEF Blank
<1>. QED
  BY <1>3, <1>4, <1>5

LEMMA BlankGrows ==
    ASSUME NEW d, NEW a \in Nat, NEW i \in Nat, Blank(d, a, i), d[i] \in isspace, NEW k, k = i + 1
    PROVE  Blank(d, a, k)
<1>1. \A j \in Nat : j < k => j < i \/ j = i
  OBVIOUS
<1>. QED
  BY <1>1 DEF Blank

\* Where no newline is, no setting ends.
LEMMA HandedOn ==
    ASSUME NEW d \in Seq(STRING), NEW items, NEW i \in Nat, Handed(d, items, i),
           NEW s, NEW k \in Nat, i <= k, OnLine(d, s, k), s < i
    PROVE  Handed(d, items, k)
<1>1. ASSUME NEW f \in Nat, i <= f, f < k PROVE f \notin Says(d)
  <2>1. d[f] # "NL"
    BY <1>1 DEF OnLine
  <2>. QED
    BY <2>1, SaysFinite DEF Ends
<1>. QED
  BY <1>1, HandedSkip

\* A newline that ends no setting.
LEMMA HandedPast ==
    ASSUME NEW d \in Seq(STRING), NEW items, NEW i \in Nat, Handed(d, items, i),
           i \notin Says(d), NEW k, k = i + 1
    PROVE  Handed(d, items, k)
<1>1. k \in Nat /\ i <= k /\ \A f \in Nat : i <= f /\ f < k => f = i
  OBVIOUS
<1>. QED
  BY <1>1, HandedSkip

\* The end of the line that the reader is on.
LEMMA Located ==
    ASSUME NEW x, ParseShape(x), ByLines(x.doc), x.i <= Len(x.doc), NEW s, OnLine(x.doc, s, x.i)
    PROVE  /\ \E e \in Ends(x.doc) : x.i <= e /\ OnLine(x.doc, s, e) /\ (x.doc[x.i] # "NL" => x.i < e)
           /\ x.doc[x.i] = "NL" => x.i \in Ends(x.doc)
<1>1. x.doc \in Seq(STRING) /\ x.i \in Nat \ {0}
  BY DEF ParseShape
<1>2. DOMAIN x.doc = 1..Len(x.doc) /\ Len(x.doc) \in Nat
  BY <1>1, LenProperties
<1>. QED
  BY <1>1, <1>2, LineEnds DEF Ends

\* What is known of a setting whose line ends at e.
LEMMA Setting ==
    ASSUME NEW x, ParseShape(x), ByLines(x.doc), NEW s, NEW p, NEW v, ValueFrom(x, s, p, v),
           x.ct # 0, NEW e \in Ends(x.doc), OnLine(x.doc, s, e), x.i <= e,
           NEW l, l = LineAt(x.doc, e)
    PROVE  /\ e \in Says(x.doc) /\ LineTokens(l) # {} /\ x.ct = Min(LineTokens(l))
           /\ p < e /\ v \in Nat \ {0}
           /\ x.i = e => v < e
<1> DEFINE d == x.doc
           i == x.i
           K == x.ct
           t == Tokens[K].name
<1>1. d \in Seq(STRING) /\ i \in Nat \ {0}
  BY DEF ParseShape
<1>2. /\ FirstInk(d, s, p) /\ d[p] # "#" /\ p < i /\ K = match_token(SubSeq(d, p, Len(d)))
      /\ v \in Nat /\ p + Len(t) <= v /\ v <= i /\ Blank(d, p + Len(t), v) /\ p \in Nat /\ s < p
  BY DEF ValueFrom, FirstInk
<1>3. s \in Nat /\ e \in Nat /\ p < e
  BY <1>1, <1>2 DEF OnLine
<1>4. ByLines(d) /\ OnLine(d, s, e) /\ e \in Ends(d) /\ l = LineAt(d, e) /\ K # 0 /\ i <= e
  OBVIOUS
<1> HIDE DEF d, i, K, t
<1>5. /\ K \in LineTokens(l) /\ K = Min(LineTokens(l)) /\ K \in DOMAIN Tokens
      /\ Max(Ink(l)) >= Min(Ink(l)) + Len(Tokens[K].name)
  BY <1>1, <1>2, <1>3, <1>4, TokenFound
<1>6. /\ Min(Ink(l)) = p - s /\ e \in Says(d)
      /\ Ink(l) \subseteq 1..(e - 1 - s) /\ Max(Ink(l)) \in Ink(l)
      /\ \A j \in 1..(e - 1 - s) : j \in Ink(l) <=> d[s + j] \notin isspace
  BY <1>1, <1>2, <1>3, <1>4, InkIs, SMTT(40)
<1>7. Len(t) \in Nat
  BY <1>5, TokenNames DEF t
<1>8. ASSUME v = e PROVE FALSE
  <2> DEFINE m == Max(Ink(l))
  <2>1. m \in 1..(e - 1 - s) /\ d[s + m] \notin isspace /\ m >= p - s + Len(t)
    BY <1>5, <1>6 DEF t
  <2> HIDE DEF m
  <2>2. s + m \in Nat /\ p + Len(t) <= s + m /\ s + m < v
    BY <1>2, <1>3, <1>7, <1>8, <2>1
  <2>. QED
    BY <1>2, <2>1, <2>2 DEF Blank
<1>9. v \in Nat \ {0} /\ (i = e => v < e)
  BY <1>1, <1>2, <1>3, <1>7, <1>8
<1>. QED
  BY <1>3, <1>5, <1>6, <1>9 DEF d, i, K

\* What the steps of the reader have in common: x before, y after.
ReadingAt(x) ==
    /\ ParseShape(x) /\ ReadSoFar(x) /\ x.rc = "run" /\ x.i <= Len(x.doc)
    /\ x.doc[x.i] # "NUL"

\* The reader stops.
LEMMA StopStep ==
    ASSUME NEW x, ParseShape(x), ReadSoFar(x), NEW c, c # "run", NEW y, y = [x EXCEPT !.rc = c],
           (c = "ok" /\ ByLines(x.doc)) => x.i = Len(x.doc) + 1
    PROVE  ParseShape(y) /\ ReadSoFar(y)
<1>1. /\ x = [doc |-> x.doc, i |-> x.i, ct |-> x.ct, val |-> x.val, comment |-> x.comment,
              rc |-> x.rc, items |-> x.items]
      /\ x.doc \in Seq(STRING) /\ x.i \in Nat \ {0}
  BY DEF ParseShape
<1>2. y = [doc |-> x.doc, i |-> x.i, ct |-> x.ct, val |-> x.val, comment |-> x.comment,
           rc |-> c, items |-> x.items]
  BY <1>1
<1>3. y.doc = x.doc /\ y.i = x.i /\ y.ct = x.ct /\ y.val = x.val /\ y.comment = x.comment
      /\ y.rc = c /\ y.items = x.items
  BY <1>2
<1>4. ParseShape(y)
  BY <1>1, <1>2, <1>3 DEF ParseShape
<1>. QED
  BY <1>3, <1>4 DEF ReadSoFar

\* Where the reader is while it runs.
LEMMA RunningAt ==
    ASSUME NEW x, ReadingAt(x), ByLines(x.doc)
    PROVE  /\ x.doc \in Seq(STRING) /\ x.i \in Nat \ {0} /\ x.i \in 1..Len(x.doc)
           /\ Handed(x.doc, x.items, x.i)
           /\ \E s : /\ OnLine(x.doc, s, x.i)
                     /\ FreshAt(x, s) \/ CommentAt(x, s) \/ ValueAt(x, s)
BY LenProperties DEF ReadingAt, ParseShape, ReadSoFar

\* It goes on.
LEMMA GoesOn ==
    ASSUME NEW y, ParseShape(y), y.rc = "run", NEW s,
           ByLines(y.doc) => /\ y.i <= Len(y.doc) + 1 /\ Handed(y.doc, y.items, y.i)
                             /\ OnLine(y.doc, s, y.i)
                             /\ FreshAt(y, s) \/ CommentAt(y, s) \/ ValueAt(y, s)
    PROVE  ReadSoFar(y)
BY DEF ReadSoFar

\* A character of a comment.
LEMMA CommentStep ==
    ASSUME NEW x, ReadingAt(x), x.ct = 0, x.doc[x.i] = "#" \/ x.comment,
           NEW b, (b = TRUE) <=> (x.doc[x.i] = "#" \/ x.doc[x.i] # "NL"),
           NEW y, y = [x EXCEPT !.i = @ + 1, !.comment = b]
    PROVE  ParseShape(y) /\ ReadSoFar(y)
<1> DEFINE d == x.doc
           i == x.i
           k == i + 1
<1>1. /\ x = [doc |-> d, i |-> i, ct |-> x.ct, val |-> x.val, comment |-> x.comment,
              rc |-> x.rc, items |-> x.items]
      /\ d \in Seq(STRING) /\ i \in Nat \ {0} /\ x.rc = "run"
  BY DEF ReadingAt, ParseShape
<1>2. y = [doc |-> d, i |-> k, ct |-> x.ct, val |-> x.val, comment |-> b,
           rc |-> x.rc, items |-> x.items]
  BY <1>1
<1>3. y.doc = d /\ y.i = k /\ y.ct = x.ct /\ y.val = x.val /\ y.comment = b
      /\ y.rc = "run" /\ y.items = x.items
  BY <1>1, <1>2
<1>4. ParseShape(y)
  <2>1. k \in Nat \ {0}
    BY <1>1
  <2> HIDE DEF d, k
  <2>2. y.doc = d /\ y.i = k /\ y.ct = x.ct /\ y.val = x.val /\ y.comment = b
        /\ y.rc = x.rc /\ y.items = x.items
    BY <1>1, <1>3
  <2>3. y = [doc |-> y.doc, i |-> y.i, ct |-> y.ct, val |-> y.val, comment |-> y.comment,
             rc |-> y.rc, items |-> y.items]
    BY <1>2, <2>2, Zenon
  <2>4. y.doc \in Seq(STRING) /\ y.i \in Nat \ {0}
    BY <1>1, <2>1, <2>2
  <2>. QED
    BY <2>3, <2>4 DEF ParseShape
<1>5. SUFFICES ASSUME ByLines(d) PROVE ReadSoFar(y)
  BY <1>3, <1>4 DEF ReadSoFar
<1>6. PICK s : OnLine(d, s, i) /\ (FreshAt(x, s) \/ CommentAt(x, s) \/ ValueAt(x, s))
  BY <1>5, RunningAt
<1>7. /\ Handed(d, x.items, i) /\ i \in 1..Len(d) /\ Len(d) \in Nat
      /\ s \in Nat /\ s < i /\ i <= Len(d)
  BY <1>1, <1>5, <1>6, RunningAt, LenProperties DEF OnLine
<1>8. \E p : FirstInk(d, s, p) /\ d[p] = "#" /\ p < k /\ (p < i \/ p = i)
  <2>1. CASE CommentAt(x, s)
    BY <1>7, <2>1 DEF CommentAt, FirstInk
  <2>2. CASE FreshAt(x, s)
    <3>1. d[i] = "#" /\ Blank(d, s + 1, i)
      BY <2>2 DEF FreshAt
    <3>2. FirstInk(d, s, i)
      BY <1>7, <3>1 DEF FirstInk, isspace
    <3>3. i < k /\ i = i
      BY <1>7
    <3>. QED
      BY <3>1, <3>2, <3>3
  <2>3. ~ValueAt(x, s)
    BY DEF ValueAt
  <2>. QED
    BY <1>6, <2>1, <2>2, <2>3
<1>9. x.val = <<>>
  BY <1>6 DEF FreshAt, CommentAt, ValueAt
<1>10. k \in Nat /\ i <= k /\ k <= Len(d) + 1
  BY <1>7
<1>11. CASE d[i] # "NL"
  <2>1. OnLine(d, s, k)
    BY <1>6, <1>11, LineGoesOn
  <2>2. Handed(d, x.items, k)
    BY <1>1, <1>7, <1>10, <2>1, HandedOn
  <2>3. CommentAt(y, s)
    <3>1. b = TRUE
      BY <1>11
    <3>. QED
      BY <1>3, <1>8, <1>9, <3>1 DEF CommentAt
  <2>. QED
    BY <1>3, <1>4, <1>10, <2>1, <2>2, <2>3, GoesOn
<1>12. CASE d[i] = "NL"
  <2>1. OnLine(d, i, k) /\ Blank(d, i + 1, k)
    BY <1>6, <1>12, LineGoesOn
  <2>2. i \in Ends(d)
    BY <1>1, <1>7, <1>12, LenProperties DEF Ends
  <2>3. PICK p : FirstInk(d, s, p) /\ d[p] = "#" /\ p < k /\ (p < i \/ p = i)
    BY <1>8
  <2>4. p < i
    BY <1>12, <2>3
  <2>5. i \notin Says(d)
    BY <1>1, <1>6, <2>2, <2>3, <2>4, InkIs
  <2>6. Handed(d, x.items, k)
    BY <1>1, <1>7, <2>5, HandedPast
  <2>7. FreshAt(y, i)
    <3>1. b # TRUE
      BY <1>12
    <3>. QED
      BY <1>3, <1>9, <2>1, <3>1 DEF FreshAt
  <2>. QED
    BY <1>3, <1>4, <1>10, <2>1, <2>6, <2>7, GoesOn
<1>. QED
  BY <1>11, <1>12

\* White space in front of a token or a value.
LEMMA SkipStep ==
    ASSUME NEW x, ReadingAt(x), x.doc[x.i] \in isspace, ~x.comment, x.val = <<>>,
           NEW y, y = [x EXCEPT !.i = @ + 1]
    PROVE  ParseShape(y) /\ ReadSoFar(y)
<1> DEFINE d == x.doc
           i == x.i
           k == i + 1
<1>1. /\ x = [doc |-> d, i |-> i, ct |-> x.ct, val |-> x.val, comment |-> x.comment,
              rc |-> x.rc, items |-> x.items]
      /\ d \in Seq(STRING) /\ i \in Nat \ {0} /\ x.rc = "run"
  BY DEF ReadingAt, ParseShape
<1>2. y = [doc |-> d, i |-> k, ct |-> x.ct, val |-> x.val, comment |-> x.comment,
           rc |-> x.rc, items |-> x.items]
  BY <1>1
<1>3. y.doc = d /\ y.i = k /\ y.ct = x.ct /\ y.val = x.val /\ y.comment = x.comment
      /\ y.rc = "run" /\ y.items = x.items
  BY <1>1, <1>2
<1>4. ParseShape(y)
  BY <1>1, <1>2, <1>3 DEF ParseShape
<1>5. SUFFICES ASSUME ByLines(d) PROVE ReadSoFar(y)
  BY <1>3, <1>4 DEF ReadSoFar
<1>6. PICK s : OnLine(d, s, i) /\ (FreshAt(x, s) \/ CommentAt(x, s) \/ ValueAt(x, s))
  BY <1>5, RunningAt
<1>7. /\ Handed(d, x.items, i) /\ i \in 1..Len(d) /\ Len(d) \in Nat
      /\ s \in Nat /\ s < i /\ i <= Len(d)
  BY <1>1, <1>5, <1>6, RunningAt, LenProperties DEF OnLine
<1>8. ~CommentAt(x, s)
  BY DEF CommentAt
<1>9. k \in Nat /\ i <= k /\ k <= Len(d) + 1 /\ s + 1 \in Nat
  BY <1>7
<1>10. CASE FreshAt(x, s)
  <2>1. x.ct = 0 /\ Blank(d, s + 1, i)
    BY <1>10 DEF FreshAt
  <2>2. Blank(d, s + 1, k)
    BY <1>1, <1>9, <2>1, BlankGrows
  <2>3. CASE d[i] # "NL"
    <3>1. OnLine(d, s, k)
      BY <1>6, <2>3, LineGoesOn
    <3>2. Handed(d, x.items, k)
      BY <1>1, <1>7, <1>9, <3>1, HandedOn
    <3>3. FreshAt(y, s)
      BY <1>3, <2>1, <2>2 DEF FreshAt
    <3>. QED
      BY <1>3, <1>4, <1>9, <3>1, <3>2, <3>3, GoesOn
  <2>4. CASE d[i] = "NL"
    <3>0. OnLine(d, s, i) /\ d[i] = "NL" /\ k = i + 1
      BY <1>6, <2>4
    <3>1. OnLine(d, i, k) /\ Blank(d, i + 1, k)
      <4> HIDE DEF k, i, d
      <4>. QED
        BY <3>0, LineGoesOn
    <3>2. i \in Ends(d)
      BY <1>1, <1>7, <2>4, LenProperties DEF Ends
    <3>3. i \notin Says(d)
      BY <1>1, <1>6, <2>1, <3>2, BlankSaysNothing
    <3>4. Handed(d, x.items, k)
      BY <1>1, <1>7, <3>3, HandedPast
    <3>5. FreshAt(y, i)
      BY <1>3, <2>1, <3>1 DEF FreshAt
    <3>. QED
      BY <1>3, <1>4, <1>9, <3>1, <3>4, <3>5, GoesOn
  <2>. QED
    BY <2>3, <2>4
<1>11. CASE ValueAt(x, s)
  <2>1. PICK p, v : ValueFrom(x, s, p, v)
    BY <1>11 DEF ValueAt
  <2> DEFINE q == p + Len(Tokens[x.ct].name)
  <2>2. /\ FirstInk(d, s, p) /\ d[p] # "#" /\ p < i /\ x.ct = match_token(SubSeq(d, p, Len(d)))
        /\ v \in Nat /\ q <= v /\ v <= i /\ Blank(d, q, v) /\ x.val = SubSeq(d, v, i - 1)
        /\ x.ct # 0 /\ x.ct \in DOMAIN Tokens /\ p \in Nat /\ s < p
    BY <1>11, <2>1 DEF ValueFrom, FirstInk, ValueAt
  <2>3. Len(Tokens[x.ct].name) \in Nat /\ q \in Nat
    BY <2>2, TokenNames
  <2>4. v = i
    <3>1. SUFFICES ASSUME v < i PROVE FALSE
      BY <1>1, <2>2
    <3>2. v \in Nat \ {0} /\ i - 1 \in Nat /\ v <= i - 1 + 1 /\ i - 1 <= Len(d)
      BY <1>1, <1>7, <2>2, <2>3, <3>1
    <3>3. Len(x.val) = i - 1 - v + 1
      BY <1>1, <2>2, <3>2, PartIs
    <3>. QED
      BY <1>1, <2>2, <3>1, <3>3
  <2>5. d[i] # "NL"
    <3>1. SUFFICES ASSUME d[i] = "NL" PROVE FALSE
      OBVIOUS
    <3>2. i \in Ends(d)
      BY <1>1, <1>7, <3>1, LenProperties DEF Ends
    <3>3. x.ct # 0 /\ ParseShape(x) /\ x.i <= i
      BY <1>1, <2>2 DEF ReadingAt
    <3>4. v < i
      BY <1>5, <1>6, <2>1, <3>2, <3>3, Setting
    <3>. QED
      BY <1>1, <2>4, <3>4
  <2>6. OnLine(d, s, k)
    BY <1>6, <2>5, LineGoesOn
  <2>7. Handed(d, x.items, k)
    BY <1>1, <1>7, <1>9, <2>6, HandedOn
  <2>8. Blank(d, q, k)
    BY <1>1, <2>2, <2>3, <2>4, BlankGrows
  <2>9. SubSeq(d, k, k - 1) = <<>>
    <3>1. k \in Int /\ k - 1 \in Int /\ k - 1 < k
      BY <1>9
    <3>. QED
      BY <3>1, SubSeqEmpty
  <2>10. ValueFrom(y, s, p, k)
    <3>1. q <= k /\ p < k /\ ~(k < k)
      <4>1. i \in Nat /\ i < k /\ k \in Nat
        BY <1>1, <1>9
      <4>2. q <= i /\ p < i /\ q \in Nat /\ p \in Nat
        BY <2>2, <2>3, <2>4
      <4> HIDE DEF i, k, q
      <4>. QED
        BY <4>1, <4>2
    <3> HIDE DEF d, i, k
    <3>2. y.doc = d /\ y.i = k /\ y.ct = x.ct /\ y.val = <<>>
      BY <1>3
    <3>. QED
      BY <1>9, <2>2, <2>8, <2>9, <3>1, <3>2 DEF ValueFrom
  <2>11. ValueAt(y, s)
    BY <1>3, <2>2, <2>10 DEF ValueAt
  <2>. QED
    BY <1>3, <1>4, <1>9, <2>6, <2>7, <2>11, GoesOn
<1>. QED
  BY <1>6, <1>8, <1>10, <1>11

\* A token is found.
LEMMA MatchStep ==
    ASSUME NEW x, ReadingAt(x), x.ct = 0, ~x.comment, x.doc[x.i] \notin isspace \cup {"#", "NUL"},
           NEW K, K = match_token(SubSeq(x.doc, x.i, Len(x.doc))), K # 0,
           NEW y, y = [x EXCEPT !.ct = K, !.i = @ + Len(Tokens[K].name)]
    PROVE  ParseShape(y) /\ ReadSoFar(y)
<1> DEFINE d == x.doc
           i == x.i
           t == Tokens[K].name
           k == i + Len(t)
<1>1. /\ x = [doc |-> d, i |-> i, ct |-> x.ct, val |-> x.val, comment |-> x.comment,
              rc |-> x.rc, items |-> x.items]
      /\ d \in Seq(STRING) /\ i \in Nat \ {0} /\ x.rc = "run"
  BY DEF ReadingAt, ParseShape
<1>2. y = [doc |-> d, i |-> k, ct |-> K, val |-> x.val, comment |-> x.comment,
           rc |-> x.rc, items |-> x.items]
  BY <1>1
<1>3. y.doc = d /\ y.i = k /\ y.ct = K /\ y.val = x.val /\ y.comment = x.comment
      /\ y.rc = "run" /\ y.items = x.items
  BY <1>1, <1>2
<1>t. K \in DOMAIN Tokens /\ Len(t) \in Nat
  <2> DEFINE rest == SubSeq(d, i, Len(d))
             tooLong == {j \in DOMAIN Tokens : Len(Tokens[j].name) + 1 > Len(rest)}
             hits == {j \in DOMAIN Tokens \ tooLong :
                        /\ IsPrefix(Tokens[j].name, rest)
                        /\ rest[Len(Tokens[j].name) + 1] = " "}
  <2>1. K = IF hits = {} \/ (\E j \in tooLong : j < Min(hits)) THEN 0 ELSE Min(hits)
    BY Zenon DEF match_token
  <2>2. hits \subseteq DOMAIN Tokens
    OBVIOUS
  <2> HIDE DEF hits, tooLong, rest
  <2>3. hits # {} /\ K = Min(hits)
    BY <2>1
  <2>4. hits \in SUBSET Nat
    BY <2>2, TokenNames
  <2>5. K \in hits
    BY <2>3, <2>4, MinOfPositions
  <2>. QED
    BY <2>2, <2>5, TokenNames
<1>4. ParseShape(y)
  <2>1. k \in Nat \ {0}
    BY <1>1, <1>t
  <2> HIDE DEF d, k
  <2>. QED
    BY <1>1, <1>2, <1>3, <2>1 DEF ParseShape
<1>5. SUFFICES ASSUME ByLines(d) PROVE ReadSoFar(y)
  BY <1>3, <1>4 DEF ReadSoFar
<1>6. PICK s : OnLine(d, s, i) /\ (FreshAt(x, s) \/ CommentAt(x, s) \/ ValueAt(x, s))
  BY <1>5, RunningAt
<1>7. /\ Handed(d, x.items, i) /\ i \in 1..Len(d) /\ Len(d) \in Nat
      /\ s \in Nat /\ s < i /\ i <= Len(d)
  BY <1>1, <1>5, <1>6, RunningAt, LenProperties DEF OnLine
<1>8. FreshAt(x, s)
  BY <1>6 DEF CommentAt, ValueAt
<1>9. x.val = <<>> /\ FirstInk(d, s, i) /\ d[i] # "#" /\ d[i] # "NL"
  <2>1. x.val = <<>> /\ Blank(d, s + 1, i)
    BY <1>8 DEF FreshAt
  <2>2. d[i] \notin isspace /\ d[i] # "#"
    OBVIOUS
  <2>3. d[i] # "NL"
    BY <2>2 DEF isspace
  <2>. QED
    BY <1>7, <2>1, <2>2, <2>3 DEF FirstInk
<1>10. PICK e \in Ends(d) : i < e /\ OnLine(d, s, e)
  <2>1. ParseShape(x) /\ ByLines(x.doc) /\ x.i <= Len(x.doc) /\ OnLine(x.doc, s, x.i)
    BY <1>5, <1>6, <1>7 DEF ReadingAt
  <2>. QED
    BY <1>9, <2>1, Located
<1>11. k < e /\ StandsAt(d, i, K) /\ e \in 1..Len(d)
  <2> DEFINE l == LineAt(d, e)
  <2>1. l = LineAt(d, e)
    OBVIOUS
  <2> HIDE DEF d, i, l, t
  <2>2. StandsAt(d, i, K) /\ i + Len(Tokens[K].name) < e
    BY <1>1, <1>5, <1>9, <1>10, <2>1, TokenFound DEF d, i
  <2>3. e \in 1..Len(d)
    BY <1>1, <1>10, <2>1, LineIs
  <2>. QED
    BY <2>2, <2>3 DEF t
<1>12. Len(t) # 0
  <2>1. d[i + Len(t)] = " "
    BY <1>11 DEF StandsAt
  <2>2. d[i] # " "
    BY DEF isspace
  <2> HIDE DEF d, t
  <2>3. SUFFICES ASSUME Len(t) = 0 PROVE FALSE
    OBVIOUS
  <2>4. i + Len(t) = i
    BY <1>1, <2>3
  <2>. QED
    BY <2>1, <2>2, <2>4
<1>13. k \in Nat /\ i < k /\ i <= k /\ k <= Len(d) + 1
  BY <1>1, <1>7, <1>t, <1>11, <1>12
<1>14. OnLine(d, s, k)
  <2>1. \A j \in Nat : s < j /\ j < k => d[j] # "NL"
    <3>1. \A j \in Nat : s < j /\ j < e => d[j] # "NL"
      BY <1>10 DEF OnLine
    <3>2. e \in Nat
      BY <1>11
    <3>3. \A j \in Nat : j < k => j < e
      BY <1>11, <1>13, <3>2
    <3>. QED
      BY <3>1, <3>3
  <2>2. s < k /\ (s = 0 \/ d[s] = "NL")
    BY <1>6, <1>7, <1>13 DEF OnLine
  <2>. QED
    BY <1>7, <1>13, <2>1, <2>2 DEF OnLine
<1>15. Handed(d, x.items, k)
  BY <1>1, <1>7, <1>13, <1>14, HandedOn
<1>16. SubSeq(d, k, k - 1) = <<>>
  <2>1. k \in Int /\ k - 1 \in Int /\ k - 1 < k
    BY <1>13
  <2>. QED
    BY <2>1, SubSeqEmpty
<1>17. ValueFrom(y, s, i, k)
  <2>1. Blank(d, k, k) /\ k <= k /\ ~(k < k)
    BY <1>13 DEF Blank
  <2>2. k = i + Len(Tokens[K].name) /\ K = match_token(SubSeq(d, i, Len(d)))
    OBVIOUS
  <2> HIDE DEF d, i, k, t
  <2>3. y.doc = d /\ y.i = k /\ y.ct = K /\ y.val = <<>>
    BY <1>3, <1>9
  <2>. QED
    BY <1>9, <1>13, <1>16, <2>1, <2>2, <2>3 DEF ValueFrom
<1>18. ValueAt(y, s)
  BY <1>3, <1>t, <1>17 DEF ValueAt
<1>. QED
  BY <1>3, <1>4, <1>13, <1>14, <1>15, <1>18, GoesOn

\* A character of a value.
LEMMA CharStep ==
    ASSUME NEW x, ReadingAt(x), x.ct # 0, x.doc[x.i] # "NL",
           x.val # <<>> \/ x.doc[x.i] \notin isspace,
           NEW y, y = [x EXCEPT !.i = @ + 1, !.val = Append(@, x.doc[x.i])]
    PROVE  ParseShape(y) /\ ReadSoFar(y)
<1> DEFINE d == x.doc
           i == x.i
           k == i + 1
           u == Append(x.val, d[i])
<1>1. /\ x = [doc |-> d, i |-> i, ct |-> x.ct, val |-> x.val, comment |-> x.comment,
              rc |-> x.rc, items |-> x.items]
      /\ d \in Seq(STRING) /\ i \in Nat \ {0} /\ x.rc = "run"
  BY DEF ReadingAt, ParseShape
<1>2. y = [doc |-> d, i |-> k, ct |-> x.ct, val |-> u, comment |-> x.comment,
           rc |-> x.rc, items |-> x.items]
  BY <1>1
<1>3. y.doc = d /\ y.i = k /\ y.ct = x.ct /\ y.val = u /\ y.comment = x.comment
      /\ y.rc = "run" /\ y.items = x.items
  BY <1>1, <1>2
<1>4. ParseShape(y)
  <2>1. k \in Nat \ {0}
    BY <1>1
  <2> HIDE DEF d, k, u
  <2>. QED
    BY <1>1, <1>2, <1>3, <2>1 DEF ParseShape
<1>5. SUFFICES ASSUME ByLines(d) PROVE ReadSoFar(y)
  BY <1>3, <1>4 DEF ReadSoFar
<1>6. PICK s : OnLine(d, s, i) /\ (FreshAt(x, s) \/ CommentAt(x, s) \/ ValueAt(x, s))
  BY <1>5, RunningAt
<1>7. /\ Handed(d, x.items, i) /\ i \in 1..Len(d) /\ Len(d) \in Nat
      /\ s \in Nat /\ s < i /\ i <= Len(d)
  BY <1>1, <1>5, <1>6, RunningAt, LenProperties DEF OnLine
<1>8. ValueAt(x, s)
  BY <1>6 DEF CommentAt, FreshAt
<1>9. PICK p, v : ValueFrom(x, s, p, v)
  BY <1>8 DEF ValueAt
<1>10. x.ct \in DOMAIN Tokens /\ ~x.comment
  BY <1>8 DEF ValueAt
<1> DEFINE q == p + Len(Tokens[x.ct].name)
<1>11. /\ FirstInk(d, s, p) /\ d[p] # "#" /\ p < i /\ x.ct = match_token(SubSeq(d, p, Len(d)))
       /\ v \in Nat /\ q <= v /\ v <= i /\ Blank(d, q, v) /\ x.val = SubSeq(d, v, i - 1)
       /\ (v < i => d[v] \notin isspace) /\ p \in Nat /\ s < p
  BY <1>9 DEF ValueFrom, FirstInk
<1>12. Len(Tokens[x.ct].name) \in Nat
  BY <1>10, TokenNames
<1>13. k \in Nat /\ i <= k /\ k <= Len(d) + 1 /\ v \in Nat \ {0} /\ p < k /\ v <= k /\ k - 1 = i
  <2>1. p <= q
    BY <1>11, <1>12
  <2>2. v # 0
    BY <1>7, <1>11, <1>12, <2>1
  <2> HIDE DEF d, q
  <2>. QED
    BY <1>1, <1>7, <1>11, <2>2
<1>14. OnLine(d, s, k)
  BY <1>6, LineGoesOn
<1>15. Handed(d, x.items, k)
  BY <1>1, <1>7, <1>13, <1>14, HandedOn
<1>16. u = SubSeq(d, v, i)
  BY <1>1, <1>7, <1>11, <1>13, PartGrows
<1>17. d[v] \notin isspace
  <2>1. CASE v < i
    BY <1>11, <2>1
  <2>2. CASE ~(v < i)
    <3>1. v = i
      BY <1>1, <1>11, <2>2
    <3>2. SubSeq(d, i, i - 1) = <<>>
      <4>1. i \in Int /\ i - 1 \in Int /\ i - 1 < i
        BY <1>1
      <4>. QED
        BY <4>1, SubSeqEmpty
    <3>3. x.val = <<>>
      BY <1>11, <3>1, <3>2
    <3>. QED
      BY <3>1, <3>3
  <2>. QED
    BY <2>1, <2>2
<1>18. ValueFrom(y, s, p, v)
  <2> HIDE DEF d, i, k, u
  <2>. QED
    BY <1>3, <1>11, <1>13, <1>16, <1>17 DEF ValueFrom
<1>19. ValueAt(y, s)
  BY <1>3, <1>10, <1>18 DEF ValueAt
<1>. QED
  BY <1>3, <1>4, <1>13, <1>14, <1>15, <1>19, GoesOn

\* The end of a setting.
LEMMA EndStep ==
    ASSUME NEW x, ReadingAt(x), x.ct # 0, x.val # <<>>, x.doc[x.i] = "NL",
           NEW it, it = <<x.ct, ClearWs(x.val)>>,
           NEW y, y = [x EXCEPT !.i = @ + 1, !.ct = 0, !.val = <<>>, !.items = Append(@, it)]
    PROVE  ParseShape(y) /\ ReadSoFar(y)
<1> DEFINE d == x.doc
           i == x.i
           k == i + 1
           u == Append(x.items, it)
<1>1. /\ x = [doc |-> d, i |-> i, ct |-> x.ct, val |-> x.val, comment |-> x.comment,
              rc |-> x.rc, items |-> x.items]
      /\ d \in Seq(STRING) /\ i \in Nat \ {0} /\ x.rc = "run"
  BY DEF ReadingAt, ParseShape
<1>2. y = [doc |-> d, i |-> k, ct |-> 0, val |-> <<>>, comment |-> x.comment,
           rc |-> x.rc, items |-> u]
  BY <1>1
<1>3. y.doc = d /\ y.i = k /\ y.ct = 0 /\ y.val = <<>> /\ y.comment = x.comment
      /\ y.rc = "run" /\ y.items = u
  BY <1>1, <1>2
<1>4. ParseShape(y)
  <2>1. k \in Nat \ {0}
    BY <1>1
  <2> HIDE DEF d, k, u
  <2>. QED
    BY <1>1, <1>2, <1>3, <2>1 DEF ParseShape
<1>5. SUFFICES ASSUME ByLines(d) PROVE ReadSoFar(y)
  BY <1>3, <1>4 DEF ReadSoFar
<1>6. PICK s : OnLine(d, s, i) /\ (FreshAt(x, s) \/ CommentAt(x, s) \/ ValueAt(x, s))
  BY <1>5, RunningAt
<1>7. /\ Handed(d, x.items, i) /\ i \in 1..Len(d) /\ Len(d) \in Nat
      /\ s \in Nat /\ s < i /\ i <= Len(d)
  BY <1>1, <1>5, <1>6, RunningAt, LenProperties DEF OnLine
<1>8. ValueAt(x, s)
  BY <1>6 DEF CommentAt, FreshAt
<1>9. PICK p, v : ValueFrom(x, s, p, v)
  BY <1>8 DEF ValueAt
<1>10. x.ct \in DOMAIN Tokens /\ ~x.comment
  BY <1>8 DEF ValueAt
<1> DEFINE q == p + Len(Tokens[x.ct].name)
           l == LineAt(d, i)
<1>11. /\ FirstInk(d, s, p) /\ d[p] # "#" /\ p < i /\ x.ct = match_token(SubSeq(d, p, Len(d)))
       /\ v \in Nat /\ q <= v /\ v <= i /\ Blank(d, q, v) /\ x.val = SubSeq(d, v, i - 1)
       /\ (v < i => d[v] \notin isspace) /\ p \in Nat /\ s < p
  BY <1>9 DEF ValueFrom, FirstInk
<1>12. i \in Ends(d)
  BY <1>1, <1>7, LenProperties DEF Ends
<1>13. i \in Says(d) /\ LineTokens(l) # {} /\ x.ct = Min(LineTokens(l)) /\ v < i
  <2>1. ParseShape(x) /\ x.i <= i
    BY <1>1 DEF ReadingAt
  <2>. QED
    BY <1>5, <1>6, <1>9, <1>12, <2>1, Setting
<1>14. ClearWs(x.val) = LineValue(l, x.ct) /\ LineValue(l, x.ct) \in Seq(STRING)
  <2>1. l = LineAt(d, i) /\ OnLine(d, s, i) /\ q = p + Len(Tokens[x.ct].name)
    BY <1>6
  <2>2. Collected(d, s, i, p, x.ct, v, x.val)
    BY <1>6, <1>11, <1>12, <1>13 DEF Collected
  <2> HIDE DEF d, i, l, q
  <2>. QED
    BY <1>1, <1>10, <2>1, <2>2, ValueIs
<1>15. it = Item(d, i) /\ Known(d, i) # {}
  BY <1>13, <1>14 DEF Item, Known
<1>16. it \in ItemsOf
  <2>1. x.ct \in Nat
    BY <1>10, TokenNames
  <2>. QED
    BY <1>14, <2>1 DEF ItemsOf
<1>17. Handed(d, u, k)
  <2> HIDE DEF d, i
  <2>. QED
    BY <1>1, <1>7, <1>13, <1>15, <1>16, HandedNext
<1>18. OnLine(d, i, k) /\ Blank(d, i + 1, k)
  <2>1. OnLine(d, s, i) /\ d[i] = "NL" /\ k = i + 1
    BY <1>6
  <2> HIDE DEF d, i, k
  <2>. QED
    BY <2>1, LineGoesOn
<1>19. FreshAt(y, i)
  BY <1>3, <1>10, <1>18 DEF FreshAt
<1>20. k <= Len(d) + 1
  BY <1>7
<1>. QED
  BY <1>3, <1>4, <1>17, <1>18, <1>19, <1>20, GoesOn

LEMMA ConfSteps ==
    ASSUME ConfInv, [ConfNext]_parse
    PROVE  ConfInv'
<1> DEFINE x == parse
<1>1. ParseShape(x) /\ ReadSoFar(x)
  BY DEF ConfInv
<1>2. ASSUME NEW c, c # "run", parse' = [parse EXCEPT !.rc = c],
             (c = "ok" /\ ByLines(x.doc)) => x.i = Len(x.doc) + 1
      PROVE  ConfInv'
  <2>1. ParseShape(parse') /\ ReadSoFar(parse')
    BY <1>1, <1>2, StopStep
  <2>. QED
    BY <2>1 DEF ConfInv, ParseShape, ReadSoFar, ByLines, Handed, FreshAt, CommentAt, ValueAt, ValueFrom
<1>3. ASSUME ParseShape(parse'), ReadSoFar(parse') PROVE ConfInv'
  BY <1>3 DEF ConfInv, ParseShape, ReadSoFar, ByLines, Handed, FreshAt, CommentAt, ValueAt, ValueFrom
<1>4. ASSUME Reading, Char # "NUL" PROVE ReadingAt(x)
  BY <1>1, <1>4 DEF Reading, Char, ReadingAt
<1>5. x.doc \in Seq(STRING) /\ x.i \in Nat \ {0} /\ Len(x.doc) \in Nat
      /\ DOMAIN x.doc = 1..Len(x.doc)
  BY <1>1, LenProperties DEF ParseShape
<1>6. CASE NulChar
  <2> DEFINE c == IF parse.val = <<>> THEN "ok" ELSE "EBADMSG"
  <2>1. Reading /\ Char = "NUL" /\ parse' = [parse EXCEPT !.rc = c]
    BY <1>6 DEF NulChar, Stop
  <2>2. ~ByLines(x.doc)
    <3>1. x.i \in DOMAIN x.doc /\ x.doc[x.i] = "NUL"
      BY <1>5, <2>1 DEF Reading, Char
    <3>. QED
      BY <3>1 DEF ByLines, Range
  <2>. QED
    BY <1>2, <2>1, <2>2
<1>7. CASE CommentChar
  <2> DEFINE b == Char = "#" \/ Char # "NL"
  <2>1. /\ Reading /\ Char # "NUL" /\ x.ct = 0 /\ (Char = "#" \/ x.comment)
        /\ parse' = [parse EXCEPT !.i = @ + 1, !.comment = b]
    BY <1>7 DEF CommentChar
  <2>2. (b = TRUE) <=> (x.doc[x.i] = "#" \/ x.doc[x.i] # "NL")
    BY DEF Char
  <2>3. x.doc[x.i] = "#" \/ x.comment
    BY <2>1 DEF Char
  <2>4. ReadingAt(x)
    BY <1>4, <2>1
  <2> HIDE DEF b
  <2>5. ParseShape(parse') /\ ReadSoFar(parse')
    BY <2>1, <2>2, <2>3, <2>4, CommentStep
  <2>. QED
    BY <1>3, <2>5
<1>8. CASE SkipSpace
  <2>1. /\ Reading /\ Char \in isspace /\ ~x.comment /\ x.val = <<>>
        /\ parse' = [parse EXCEPT !.i = @ + 1]
    BY <1>8 DEF SkipSpace
  <2>2. ReadingAt(x) /\ x.doc[x.i] \in isspace
    BY <1>4, <2>1 DEF isspace, Char
  <2>3. ParseShape(parse') /\ ReadSoFar(parse')
    BY <2>1, <2>2, SkipStep
  <2>. QED
    BY <1>3, <2>3
<1>9. CASE MatchToken
  <2> DEFINE K == match_token(SubSeq(parse.doc, parse.i, Len(parse.doc)))
  <2>1. /\ Reading /\ x.ct = 0 /\ ~x.comment /\ Char \notin isspace \cup {"#", "NUL"}
        /\ IF K = 0 THEN Stop("EBADMSG")
           ELSE parse' = [parse EXCEPT !.ct = K, !.i = @ + Len(Tokens[K].name)]
    BY <1>9, Zenon DEF MatchToken
  <2>2. ReadingAt(x) /\ x.doc[x.i] \notin isspace \cup {"#", "NUL"}
    BY <1>4, <2>1 DEF Char
  <2>3. CASE K = 0
    BY <1>2, <2>1, <2>3 DEF Stop
  <2>4. CASE K # 0
    <3>1. K = match_token(SubSeq(x.doc, x.i, Len(x.doc)))
      OBVIOUS
    <3> HIDE DEF K
    <3>2. parse' = [parse EXCEPT !.ct = K, !.i = @ + Len(Tokens[K].name)]
      BY <2>1, <2>4
    <3>3. ParseShape(parse') /\ ReadSoFar(parse')
      BY <2>1, <2>2, <2>4, <3>1, <3>2, MatchStep
    <3>. QED
      BY <1>3, <3>3
  <2>. QED
    BY <2>3, <2>4
<1>10. CASE ValueEnd
  <2> DEFINE v == ClearWs(parse.val)
             it == <<parse.ct, v>>
  <2>1. /\ Reading /\ x.ct # 0 /\ x.val # <<>> /\ Char = "NL"
        /\ IF v \in Tokens[parse.ct].bad THEN Stop("EBADMSG")
           ELSE IF Len(parse.items) = MaxItems THEN Stop("E2BIG")
           ELSE parse' = [parse EXCEPT !.i = @ + 1, !.ct = 0, !.val = <<>>,
                            !.items = Append(@, it)]
    BY <1>10, Zenon DEF ValueEnd
  <2>2. ReadingAt(x) /\ x.doc[x.i] = "NL" /\ it = <<x.ct, ClearWs(x.val)>>
    BY <1>4, <2>1 DEF Char
  <2> HIDE DEF v, it
  <2>3. CASE parse' = [parse EXCEPT !.i = @ + 1, !.ct = 0, !.val = <<>>, !.items = Append(@, it)]
    <3>1. ParseShape(parse') /\ ReadSoFar(parse')
      BY <2>1, <2>2, <2>3, EndStep
    <3>. QED
      BY <1>3, <3>1
  <2>4. CASE Stop("EBADMSG") \/ Stop("E2BIG")
    BY <1>2, <2>4 DEF Stop
  <2>. QED
    BY <2>1, <2>3, <2>4
<1>11. CASE ValueChar
  <2>1. /\ Reading /\ x.ct # 0 /\ Char \notin {"NL", "NUL"}
        /\ x.val # <<>> \/ Char \notin isspace
        /\ IF Len(parse.val) = ValueBufSize - 1 THEN Stop("E2BIG")
           ELSE parse' = [parse EXCEPT !.i = @ + 1, !.val = Append(@, Char)]
    BY <1>11 DEF ValueChar
  <2>2. ReadingAt(x) /\ x.doc[x.i] # "NL" /\ (x.val # <<>> \/ x.doc[x.i] \notin isspace)
    BY <1>4, <2>1 DEF Char
  <2>3. CASE parse' = [parse EXCEPT !.i = @ + 1, !.val = Append(@, Char)]
    <3>1. parse' = [parse EXCEPT !.i = @ + 1, !.val = Append(@, x.doc[x.i])]
      BY <2>3 DEF Char
    <3>2. ParseShape(parse') /\ ReadSoFar(parse')
      BY <2>1, <2>2, <3>1, CharStep
    <3>. QED
      BY <1>3, <3>2
  <2>4. CASE Stop("E2BIG")
    BY <1>2, <2>4 DEF Stop
  <2>. QED
    BY <2>1, <2>3, <2>4
<1>12. CASE BufferEnd
  <2> DEFINE c == IF parse.val = <<>> THEN "ok" ELSE "EBADMSG"
  <2>1. parse.rc = "run" /\ parse.i > Len(parse.doc) /\ parse' = [parse EXCEPT !.rc = c]
    BY <1>12 DEF BufferEnd, Stop
  <2>2. ByLines(x.doc) => x.i = Len(x.doc) + 1
    BY <1>1, <1>5, <2>1 DEF ReadSoFar
  <2>3. c # "run"
    OBVIOUS
  <2> HIDE DEF c
  <2>. QED
    BY <1>2, <2>1, <2>2, <2>3
<1>13. CASE UNCHANGED parse
  BY <1>1, <1>3, <1>13
<1>. QED
  BY <1>6, <1>7, <1>8, <1>9, <1>10, <1>11, <1>12, <1>13 DEF ConfNext

\* What the invariant says of a reader that has stopped.
LEMMA ConfSays ==
    ASSUME ConfInv
    PROVE  LinesDelivered
<1> DEFINE d == parse.doc
           items == parse.items
<1>1. SUFFICES ASSUME parse.rc # "run", ByLines(d)
               PROVE /\ Len(items) <= Cardinality(Says(d))
                     /\ \A e \in Says(d) : Place(d, e) <= Len(items) =>
                           Known(d, e) # {} /\ items[Place(d, e)] = Item(d, e)
                     /\ parse.rc = "ok" => Len(items) = Cardinality(Says(d))
  BY Zenon DEF LinesDelivered, Place, Known, Item
<1>2. /\ d \in Seq(STRING) /\ parse.i \in Nat /\ Handed(d, items, parse.i)
      /\ parse.rc = "ok" => parse.i = Len(d) + 1
  BY <1>1 DEF ConfInv, ParseShape, ReadSoFar
<1>3. Len(d) \in Nat
  BY <1>2, LenProperties
<1> HIDE DEF d, items
<1>4. /\ Len(items) <= Cardinality(Says(d))
      /\ \A e \in Says(d) : Place(d, e) <= Len(items) =>
            Known(d, e) # {} /\ items[Place(d, e)] = Item(d, e)
      /\ parse.i > Len(d) => Len(items) = Cardinality(Says(d))
  BY <1>2, HandedSays
<1>. QED
  BY <1>2, <1>3, <1>4

LEMMA ConfStarts ==
    ASSUME ConfInit
    PROVE  ConfInv
<1>1. PICK d \in Documents :
        parse = [doc |-> d, i |-> 1, ct |-> 0, val |-> <<>>, comment |-> FALSE,
                 rc |-> "run", items |-> <<>>]
  BY DEF ConfInit
<1>2. d \in Seq(STRING)
  BY ConfAssumption
<1>3. /\ parse.doc = d /\ parse.i = 1 /\ parse.ct = 0 /\ parse.val = <<>> /\ ~parse.comment
      /\ parse.rc = "run" /\ parse.items = <<>>
  BY <1>1
<1>4. ParseShape(parse)
  <2>1. parse = [doc |-> parse.doc, i |-> parse.i, ct |-> parse.ct, val |-> parse.val,
                 comment |-> parse.comment, rc |-> parse.rc, items |-> parse.items]
    BY <1>1
  <2>. QED
    BY <1>2, <1>3, <2>1 DEF ParseShape
<1>5. OnLine(d, 0, 1) /\ Blank(d, 0 + 1, 1)
  BY DEF OnLine, Blank
<1>6. Handed(d, <<>>, 1)
  <2>1. Says(d) \subseteq 1..Len(d) /\ Len(d) \in Nat
    BY <1>2, SaysFinite
  <2>2. {f \in Says(d) : f < 1} = {}
    BY <2>1
  <2>3. <<>> \in Seq(ItemsOf) /\ Len(<<>>) = 0 /\ Cardinality({}) = 0
    BY EmptySeq, FS_EmptySet
  <2>4. \A e \in Says(d) : ~(e < 1)
    BY <2>1
  <2>. QED
    BY <2>2, <2>3, <2>4 DEF Handed
<1>7. FreshAt(parse, 0)
  BY <1>3, <1>5 DEF FreshAt
<1>8. 1 <= Len(d) + 1
  BY <1>2, LenProperties
<1>9. ReadSoFar(parse)
  BY <1>3, <1>4, <1>5, <1>6, <1>7, <1>8, GoesOn
<1>. QED
  BY <1>4, <1>9 DEF ConfInv

THEOREM LinesCorrect == ConfSpec => []LinesDelivered
<1>1. ConfInit => ConfInv
  BY ConfStarts
<1>2. ConfInv /\ [ConfNext]_parse => ConfInv'
  BY ConfSteps
<1>3. ConfInv => LinesDelivered
  BY ConfSays
<1>. QED
  BY <1>1, <1>2, <1>3, PTL DEF ConfSpec
================================================================================
