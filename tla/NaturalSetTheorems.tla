------------------------- MODULE NaturalSetTheorems -------------------------
(***************************************************************************)
(* Sets of naturals have a least element, finite ones a largest, and a     *)
(* recursion over the first N numbers has a value; with the products and   *)
(* remainders of a walk in rounds.  The induction theorems of the library  *)
(* take an operator; these take sets and functions.                        *)
(***************************************************************************)
EXTENDS Integers, FiniteSets, FiniteSetsExt, FiniteSetTheorems, WellFoundedInduction, TLAPS

\* Every nonempty set of naturals has a least element.
LEMMA LeastElement ==
    ASSUME NEW N \in SUBSET Nat, N # {}
    PROVE  \E n \in N : \A m \in N : n <= m
<1> DEFINE below == {p \in Nat \X Nat : p[1] < p[2]}
<1>1. IsWellFoundedOn(below, Nat)
  BY NatLessThanWellFounded DEF OpToRel
<1>2. \A m, n \in N : <<m, n>> \in below <=> m < n
  OBVIOUS
<1> HIDE DEF below
<1>3. PICK n \in N : \A m \in N : ~(<<m, n>> \in below)
  BY <1>1, WFMin
<1>4. \A m \in N : ~(m < n)
  BY <1>2, <1>3
<1>5. \A m \in N : m \in Nat /\ n \in Nat
  OBVIOUS
<1> QED BY <1>4, <1>5

\* A finite set of naturals has a largest: the one the fewest are above.
LEMMA LargestElement ==
    ASSUME NEW N \in SUBSET Nat, IsFiniteSet(N), N # {}
    PROVE  Max(N) \in N /\ \A m \in N : Max(N) >= m
<1> DEFINE Above(n) == {m \in N : m > n}
           size == [n \in N |-> Cardinality(Above(n))]
           sizes == {size[n] : n \in N}
<1>1. \A n \in N : IsFiniteSet(Above(n)) /\ size[n] \in Nat
  BY FS_Subset, FS_CardinalityType
<1>2. sizes \in SUBSET Nat /\ sizes # {}
  BY <1>1
<1> HIDE DEF size
<1>3. PICK c \in sizes : \A d \in sizes : c <= d
  BY <1>2, LeastElement
<1>4. PICK n \in N : c = size[n]
  BY <1>3
<1>5. ASSUME NEW m \in N, m > n PROVE FALSE
  <2>1. Above(m) \in SUBSET Above(n) /\ Above(m) # Above(n) /\ IsFiniteSet(Above(n))
    <3>1. m \in Above(n) /\ m \notin Above(m)
      BY <1>5
    <3>2. \A k \in N : k > m => k > n
      BY <1>5
    <3>3. Above(m) \subseteq Above(n)
      BY <3>2
    <3>4. IsFiniteSet(Above(n))
      BY <1>1
    <3> HIDE DEF Above
    <3> QED BY <3>1, <3>3, <3>4
  <2>2. /\ Cardinality(Above(m)) <= Cardinality(Above(n))
        /\ Cardinality(Above(m)) # Cardinality(Above(n))
    <3> HIDE DEF Above
    <3> QED BY <2>1, FS_Subset
  <2>3. size[m] = Cardinality(Above(m)) /\ size[n] = Cardinality(Above(n))
        /\ size[m] \in Nat /\ size[n] \in Nat /\ size[m] \in sizes
    BY <1>1 DEF size
  <2> HIDE DEF Above, sizes
  <2>4. size[m] < size[n] /\ c <= size[m]
    BY <1>3, <2>2, <2>3
  <2> QED BY <1>4, <2>3, <2>4
<1>6. \A m \in N : n >= m
  <2> SUFFICES ASSUME NEW m \in N PROVE n >= m
    OBVIOUS
  <2>1. m \in Nat /\ n \in Nat /\ ~(m > n)
    BY <1>5
  <2> QED BY <2>1
<1> QED BY <1>6 DEF Max

\* Induction up to N over a set.
LEMMA Stepwise ==
    ASSUME NEW N \in Nat, NEW S, 0 \in S, \A n \in 1..N : n - 1 \in S => n \in S
    PROVE  0..N \subseteq S
<1> DEFINE bad == (0..N) \ S
<1>1. SUFFICES ASSUME bad # {} PROVE FALSE
  BY <1>1
<1>2. PICK m \in bad : \A k \in bad : m <= k
  <2>1. bad \in SUBSET Nat
    OBVIOUS
  <2> HIDE DEF bad
  <2> QED BY <1>1, <2>1, LeastElement
<1>3. m \in 1..N /\ m \notin S /\ m - 1 \in 0..N /\ ~(m <= m - 1)
  BY <1>2
<1>4. m - 1 \notin bad
  <2> HIDE DEF bad
  <2> QED BY <1>2, <1>3
<1> QED BY <1>3, <1>4

\* A recursion over the first N numbers has its value: otherwise take the
\* shortest prefix that has none.
LEMMA FoldExists ==
    ASSUME NEW A, NEW base \in A, NEW N \in Nat, NEW step \in [1..N -> [A -> A]]
    PROVE  \E f \in [0..N -> A] : f[0] = base /\ \A n \in 1..N : f[n] = step[n][f[n - 1]]
<1> DEFINE Folds(m, f) == /\ f \in [0..m -> A] /\ f[0] = base
                          /\ \A n \in 1..m : f[n] = step[n][f[n - 1]]
           bad == {m \in 0..N : ~\E f : Folds(m, f)}
<1>1. SUFFICES ASSUME bad # {} PROVE FALSE
  <2>1. N \notin bad => \E f : Folds(N, f)
    OBVIOUS
  <2> QED BY <1>1, <2>1
<1>2. PICK m \in bad : \A k \in bad : m <= k
  <2>1. bad \in SUBSET Nat
    OBVIOUS
  <2> HIDE DEF bad
  <2> QED BY <1>1, <2>1, LeastElement
<1>3. m # 0
  <2> SUFFICES \E f : Folds(0, f)
    OBVIOUS
  <2> DEFINE f == [n \in 0..0 |-> base]
  <2>1. Folds(0, f)
    OBVIOUS
  <2> QED BY <2>1
<1>4. m - 1 \in 0..N /\ m \in 1..N /\ m - 1 \notin bad
  <2>1. m \in 0..N
    BY <1>2
  <2>2. m - 1 \in 0..N /\ m \in 1..N /\ ~(m <= m - 1)
    BY <1>3, <2>1
  <2> HIDE DEF bad
  <2> QED BY <1>2, <2>2
<1>5. PICK f : Folds(m - 1, f)
  <2> HIDE DEF Folds
  <2> QED BY <1>4
<1> DEFINE g == [n \in 0..m |-> IF n = m THEN step[m][f[m - 1]] ELSE f[n]]
<1>6. f[m - 1] \in A /\ step[m] \in [A -> A]
  BY <1>4, <1>5
<1>7. g \in [0..m -> A] /\ g[0] = base /\ g[m] = step[m][f[m - 1]] /\ g[m - 1] = f[m - 1]
  BY <1>4, <1>5, <1>6
<1>8. ASSUME NEW n \in 1..m PROVE g[n] = step[n][g[n - 1]]
  <2>1. CASE n = m
    BY <1>7, <2>1
  <2>2. CASE n # m
    <3>1. n \in 1..(m - 1) /\ n - 1 \in 0..m /\ n \in 0..m /\ n - 1 # m
      BY <1>4, <2>2
    <3>2. g[n] = f[n] /\ g[n - 1] = f[n - 1]
      BY <2>2, <3>1
    <3> QED BY <1>5, <3>1, <3>2
  <2> QED BY <2>1, <2>2
<1> HIDE DEF g
<1>9. Folds(m, g)
  BY <1>7, <1>8
<1> QED BY <1>2, <1>9

\* A larger number times the same is no smaller.
LEMMA MoreTimes ==
    ASSUME NEW x \in Nat, NEW y \in Nat, x <= y, NEW size \in Nat
    PROVE  x * size <= y * size /\ x * size \in Nat /\ y * size \in Nat
<1>1. PICK d \in Nat : y = x + d
  <2>1. y - x \in Nat /\ y = x + (y - x)
    OBVIOUS
  <2> QED BY <2>1
<1>2. y * size = x * size + d * size /\ d * size \in Nat /\ x * size \in Nat
  BY <1>1
<1> QED BY <1>1, <1>2

\* What remains of d times a size and less than one more.
LEMMA Remainder ==
    ASSUME NEW size \in Nat \ {0}, NEW d \in Nat, NEW r \in 0..(size - 1)
    PROVE  (d * size + r) % size = r
<1> DEFINE a == d * size + r
           q == a \div size
<1>1. a \in Nat
  OBVIOUS
<1>2. a % size \in 0..(size - 1) /\ a = (q * size) + (a % size) /\ q \in Int
  BY <1>1
<1> HIDE DEF a, q
<1>3. (d - q) * size = (a % size) - r /\ (q - d) * size = r - (a % size)
  <2>1. PICK m \in 0..(size - 1) : m = a % size
    BY <1>2
  <2>2. (d * size) + r = (q * size) + m
    BY <1>2, <2>1 DEF a
  <2>3. (d - q) * size = (d * size) - (q * size) /\ (q - d) * size = (q * size) - (d * size)
    BY <1>2
  <2>4. d * size \in Int /\ q * size \in Int
    BY <1>2
  <2> QED BY <2>1, <2>2, <2>3, <2>4
<1>4. ASSUME NEW k \in Int, k >= 1 PROVE k * size >= size
  <2>1. 1 * size <= k * size /\ 1 * size = size
    BY <1>4, MoreTimes
  <2> QED BY <2>1
<1>5. ~(d > q)
  <2>1. d > q => d - q \in Int /\ d - q >= 1
    BY <1>2
  <2> QED BY <1>2, <1>3, <1>4, <2>1
<1>6. ~(d < q)
  <2>1. d < q => q - d \in Int /\ q - d >= 1
    BY <1>2
  <2> QED BY <1>2, <1>3, <1>4, <2>1
<1>7. d = q
  BY <1>2, <1>5, <1>6
<1> QED BY <1>2, <1>3, <1>7
=============================================================================
