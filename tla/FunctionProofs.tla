--------------------------- MODULE FunctionProofs ---------------------------
(***************************************************************************)
(* What the pure algorithms compute, for every input.                      *)
(***************************************************************************)
EXTENDS Algorithms, LoopProofs

(* An evaluation keeps its input and answers what the function returns.    *)
Evaluated ==
  /\ input \in Inputs
  /\ output \in {None, [fn |-> input.fn, value |-> Result(input)]}

LEMMA EvaluatedHolds == Spec => []Evaluated
<1>1. Init => Evaluated
  BY DEF Init, Evaluated
<1>2. Evaluated /\ [Next]_vars => Evaluated'
  <2>1. CASE Evaluate
    BY Zenon, <2>1 DEF Evaluate, Evaluated
  <2>2. CASE UNCHANGED vars
    BY Zenon, <2>2 DEF vars, Evaluated
  <2> QED
    BY <2>1, <2>2 DEF Next
<1> QED
  BY <1>1, <1>2, PTL DEF Spec

-----------------------------------------------------------------------------
(* Powers of two, as the number of subsets of 1 .. n. *)
LEMMA Doubling ==
  ASSUME NEW n \in Nat
  PROVE  2 ^ n \in Nat \ {0} /\ 2 ^ (n + 1) = 2 * 2 ^ n
<1> DEFINE A == SUBSET (1 .. n)
           B == {a \cup {n + 1} : a \in A}
           add == [a \in A |-> a \cup {n + 1}]
<1>1. ASSUME NEW m \in Nat
      PROVE  /\ IsFiniteSet(SUBSET (1 .. m)) /\ Cardinality(SUBSET (1 .. m)) = 2 ^ m
             /\ 2 ^ m \in Nat
  <2>1. IsFiniteSet(1 .. m) /\ Cardinality(1 .. m) = m
    BY FS_Interval
  <2>2. IsFiniteSet(SUBSET (1 .. m)) /\ Cardinality(SUBSET (1 .. m)) = 2 ^ m
    BY <2>1, FS_SUBSET
  <2> QED
    BY <2>2, FS_CardinalityType
<1>2. SUBSET (1 .. n + 1) = A \cup B
  <2>1. \A k : k \in 1 .. n + 1 <=> k \in 1 .. n \/ k = n + 1
    OBVIOUS
  <2>2. ASSUME NEW s \in SUBSET (1 .. n + 1), s \notin A
        PROVE  s \in B
    <3>1. n + 1 \in s /\ s \ {n + 1} \in A
      BY <2>1, <2>2
    <3>2. s = (s \ {n + 1}) \cup {n + 1}
      BY <3>1
    <3> QED
      BY <3>1, <3>2
  <2>3. \A s \in A \cup B : s \in SUBSET (1 .. n + 1)
    BY <2>1
  <2> QED
    BY <2>2, <2>3
<1>3. A \cap B = {}
  OBVIOUS
<1>4. ExistsBijection(A, B)
  <2>1. \A a \in A : add[a] \in B
    OBVIOUS
  <2>2. \A a, b \in A : add[a] = add[b] => a = b
    <3>1. \A a \in A : add[a] \ {n + 1} = a
      OBVIOUS
    <3> HIDE DEF add, A
    <3> QED
      BY <3>1
  <2>3. \A b \in B : \E a \in A : add[a] = b
    OBVIOUS
  <2>4. add \in [A -> B]
    BY <2>1
  <2> HIDE DEF add, A, B
  <2> QED
    BY <2>2, <2>3, <2>4 DEF ExistsBijection, Bijection, Injection, Surjection, IsInjective
<1> HIDE DEF A, B, add
<1>5. IsFiniteSet(A) /\ Cardinality(A) = 2 ^ n /\ 2 ^ n \in Nat
  BY <1>1 DEF A
<1>6. IsFiniteSet(B) /\ Cardinality(B) = 2 ^ n
  BY <1>4, <1>5, FS_Bijection
<1>7. Cardinality(A \cup B) = Cardinality(A) + Cardinality(B) - Cardinality(A \cap B)
  BY <1>5, <1>6, FS_Union
<1>8. 2 ^ (n + 1) = Cardinality(A \cup B)
  <2>1. n + 1 \in Nat
    OBVIOUS
  <2>2. Cardinality(SUBSET (1 .. n + 1)) = 2 ^ (n + 1)
    BY <1>1, <2>1
  <2> QED
    BY <1>2, <2>2
<1>9. Cardinality(A \cap B) = 0
  BY <1>3, FS_EmptySet
<1>10. 2 ^ n # 0
  <2>1. A # {}
    BY DEF A
  <2> QED
    BY <1>5, <2>1, FS_EmptySet
<1> QED
  BY <1>5, <1>6, <1>7, <1>8, <1>9, <1>10

LEMMA PowersGrow ==
  ASSUME NEW m \in Nat, NEW n \in Nat
  PROVE  /\ m <= n => 2 ^ m <= 2 ^ n
         /\ m < n => 2 * 2 ^ m <= 2 ^ n
<1>1. ASSUME NEW a \in Nat, NEW d \in Nat
      PROVE  2 ^ a <= 2 ^ (a + d)
  <2> DEFINE P == {k \in 0 .. d : 2 ^ a <= 2 ^ (a + k)}
  <2>1. 0 \in P
    BY Doubling
  <2>2. ASSUME NEW k \in 1 .. d, k - 1 \in P
        PROVE  k \in P
    <3>1. a + (k - 1) \in Nat /\ (a + (k - 1)) + 1 = a + k
      OBVIOUS
    <3>2. 2 ^ (a + (k - 1)) \in Nat /\ 2 ^ (a + k) = 2 * 2 ^ (a + (k - 1))
      BY <3>1, Doubling
    <3>3. 2 ^ a \in Nat
      BY Doubling
    <3> QED
      BY <2>2, <3>2, <3>3
  <2>3. \A k \in 0 .. d : k \in P
    <3> HIDE DEF P
    <3> QED
      BY <2>1, <2>2, EveryRound
  <2> QED
    BY <2>3
<1>2. ASSUME m <= n
      PROVE  2 ^ m <= 2 ^ n
  <2>1. n - m \in Nat /\ m + (n - m) = n
    BY <1>2
  <2> QED
    BY <1>1, <2>1
<1>3. ASSUME m < n
      PROVE  2 * 2 ^ m <= 2 ^ n
  <2>1. n - (m + 1) \in Nat /\ m + 1 \in Nat /\ (m + 1) + (n - (m + 1)) = n
    BY <1>3
  <2>2. 2 ^ (m + 1) <= 2 ^ n
    BY <1>1, <2>1
  <2> QED
    BY <2>2, Doubling
<1> QED
  BY <1>2, <1>3

LEMMA Halves ==
  ASSUME NEW a \in Nat, NEW b \in Nat \ {0}
  PROVE  /\ a \div b \in Nat
         /\ a \div (2 * b) = (a \div b) \div 2
OBVIOUS

-----------------------------------------------------------------------------
(* The tree's layout. *)
LEMMA Levels ==
  ASSUME NEW i, LayoutOK(i), W \in Nat
  PROVE  /\ Tree!TreeLevels(i.n) \in 1 .. W - 1
         /\ i.n <= 2 ^ (Tree!TreeLevels(i.n) - 1)
<1> DEFINE n == i.n
           x == n - 1
           Bits == {e \in Nat : x < 2 ^ e}
<1>1. n \in Nat \ {0} /\ 2 <= W /\ n <= 2 ^ (W - 2) /\ W - 2 \in Nat
  BY DEF LayoutOK
<1> HIDE DEF n
<1>2. CASE n = 1
  BY <1>1, <1>2 DEF Tree!TreeLevels, n
<1>3. CASE n # 1
  <2>1. x \in Nat /\ 1 <= x /\ x < 2 ^ (W - 2)
    <3>1. 2 ^ (W - 2) \in Nat
      BY <1>1, Doubling
    <3> QED
      BY <1>1, <1>3, <3>1
  <2> HIDE DEF x
  <2>2. W - 2 \in Bits
    BY <1>1, <2>1
  <2>3. PICK e \in Bits : \A f \in Bits : ~(f < e)
    <3> HIDE DEF Bits
    <3>1. Bits \in SUBSET Nat
      BY DEF Bits
    <3> QED
      BY <2>2, <3>1, LeastNat
  <2>4. e \in Nat /\ x < 2 ^ e /\ e <= W - 2 /\ e # 0
    <3>1. e # 0
      <4>1. 2 ^ 0 = 1 /\ ~(x < 1)
        BY <2>1
      <4>2. x < 2 ^ e
        OBVIOUS
      <4> QED
        BY <4>1, <4>2
    <3> QED
      BY <1>1, <2>2, <2>3, <3>1
  <2>5. e - 1 \in Nat /\ e - 1 \notin Bits
    BY <2>3, <2>4
  <2>6. 2 ^ (e - 1) <= x
    <3>1. 2 ^ (e - 1) \in Nat
      BY <2>5, Doubling
    <3> QED
      BY <2>1, <2>5, <3>1
  <2> DEFINE Z(z) == x < 2 ^ (W - z) /\ (z < W => x >= 2 ^ (W - z - 1))
  <2>7. W - e \in 0 .. W /\ Z(W - e)
    <3>1. W - (W - e) = e /\ W - e \in 0 .. W
      BY <1>1, <2>4
    <3>2. W - (W - e) - 1 = e - 1
      BY <3>1
    <3> QED
      BY <2>4, <2>6, <3>1, <3>2
  <2> DEFINE z == CHOOSE y \in 0 .. W : Z(y)
  <2>8. z \in 0 .. W /\ Z(z)
    <3> HIDE DEF Z
    <3> QED
      BY <2>7
  <2>9. z >= 2
    <3>1. CASE z < 2
      <4>1. z < W /\ W - z - 1 \in Nat /\ W - 2 <= W - z - 1
        BY <1>1, <2>8, <3>1
      <4>2. 2 ^ (W - 2) <= 2 ^ (W - z - 1)
        BY <1>1, <4>1, PowersGrow
      <4>3. 2 ^ (W - 2) \in Nat /\ 2 ^ (W - z - 1) \in Nat /\ 2 ^ (W - z - 1) <= x
        BY <1>1, <2>8, <4>1, Doubling
      <4> HIDE DEF z
      <4> QED
        BY <2>1, <4>2, <4>3
    <3> HIDE DEF z
    <3> QED
      BY <2>8, <3>1
  <2>10. Tree!TreeLevels(n) = W - z + 1
    BY <1>1, <1>3 DEF Tree!TreeLevels, Tree!LeadingZeros, x
  <2>11. W - z \in Nat /\ x < 2 ^ (W - z) /\ (W - z + 1) - 1 = W - z
    <3> HIDE DEF z
    <3> QED
      BY <1>1, <2>8
  <2>12. n <= 2 ^ (W - z)
    <3>1. 2 ^ (W - z) \in Nat
      BY <2>11, Doubling
    <3> HIDE DEF z
    <3> QED
      BY <1>1, <2>11, <3>1 DEF x
  <2> HIDE DEF z
  <2>13. W - z + 1 \in 1 .. W - 1
    BY <1>1, <2>8, <2>9
  <2> QED
    BY <2>10, <2>11, <2>12, <2>13 DEF n
<1> QED
  BY <1>2, <1>3

LEMMA Shifted ==
  ASSUME W \in Nat, NEW k \in 0 .. W - 1
  PROVE  Tree!Shl(k) = 2 ^ k
<1>1. k % W = k
  OBVIOUS
<1> QED
  BY <1>1 DEF Tree!Shl

(* Walking up through the parents gives the path in closed form. *)
LEMMA ParentsAreThePath ==
  ASSUME NEW n, NEW leaf \in Nat, W \in Nat, Tree!TreeLevels(n) \in 1 .. W - 1
  PROVE  Tree!PathByParents(leaf, n) = Tree!PathBuckets(leaf, n)
<1> DEFINE L == Tree!TreeLevels(n)
           At(k) == 2 ^ (L - 1 - k) - 1 + leaf \div 2 ^ k
           Walks(up) == up = [k \in 0 .. L - 1 |->
                               IF k = 0 THEN Tree!LeafBucket(leaf, n) ELSE (up[k - 1] - 1) \div 2]
           up == CHOOSE u : Walks(u)
           f == [k \in 0 .. L - 1 |-> At(k)]
<1>1. L \in Nat \ {0} /\ L - 1 \in 0 .. W - 1
  OBVIOUS
<1> HIDE DEF L
<1>2. At(0) = Tree!LeafBucket(leaf, n)
  <2>1. Tree!Shl(L - 1) = 2 ^ (L - 1)
    BY <1>1, Shifted
  <2>2. 2 ^ 0 = 1 /\ leaf \div 1 = leaf /\ L - 1 - 0 = L - 1
    BY <1>1
  <2> QED
    BY <2>1, <2>2 DEF Tree!LeafBucket, L
<1>3. ASSUME NEW k \in 1 .. L - 1
      PROVE  At(k) = (At(k - 1) - 1) \div 2
  <2> DEFINE p == 2 ^ (L - 1 - k)
             b == 2 ^ (k - 1)
  <2>1. p \in Nat \ {0} /\ 2 ^ (L - 1 - (k - 1)) = 2 * p
    <3>1. L - 1 - k \in Nat /\ (L - 1 - k) + 1 = L - 1 - (k - 1)
      BY <1>1
    <3> QED
      BY <3>1, Doubling
  <2>2. b \in Nat \ {0} /\ 2 ^ k = 2 * b
    <3>1. k - 1 \in Nat /\ (k - 1) + 1 = k
      BY <1>1
    <3> QED
      BY <3>1, Doubling
  <2> HIDE DEF p, b
  <2>3. leaf \div b \in Nat /\ leaf \div (2 * b) = (leaf \div b) \div 2
    BY <2>2, Halves
  <2> DEFINE y == leaf \div b
  <2> HIDE DEF y
  <2>4. y \in Nat /\ ((2 * p - 1 + y) - 1) \div 2 = p - 1 + (y \div 2)
    BY <2>1, <2>3 DEF y
  <2> QED
    BY <2>1, <2>2, <2>3, <2>4 DEF p, b, y
<1>4. Walks(f)
  <2>1. ASSUME NEW k \in 0 .. L - 1
        PROVE  At(k) = IF k = 0 THEN Tree!LeafBucket(leaf, n) ELSE (f[k - 1] - 1) \div 2
    <3>1. CASE k = 0
      BY <1>2, <3>1
    <3>2. CASE k # 0
      <4>1. k \in 1 .. L - 1 /\ k - 1 \in 0 .. L - 1
        BY <1>1, <3>2
      <4>2. f[k - 1] = At(k - 1)
        BY <4>1
      <4>3. At(k) = (At(k - 1) - 1) \div 2
        BY <1>3, <4>1
      <4> HIDE DEF f, At
      <4> QED
        BY <3>2, <4>2, <4>3
    <3> QED
      BY <3>1, <3>2
  <2> HIDE DEF At
  <2> QED
    BY <2>1
<1>5. Walks(up)
  <2> HIDE DEF Walks, f
  <2> QED
    BY <1>4
<1> HIDE DEF up
<1>6. \A k \in 0 .. L - 1 : up[k] = At(k)
  <2> DEFINE P == {k \in 0 .. L - 1 : up[k] = At(k)}
  <2>0. /\ up[0] = Tree!LeafBucket(leaf, n)
        /\ \A k \in 1 .. L - 1 : up[k] = (up[k - 1] - 1) \div 2
    <3>1. 0 \in 0 .. L - 1 /\ \A k \in 1 .. L - 1 : k \in 0 .. L - 1 /\ k # 0
      BY <1>1
    <3> QED
      BY <1>5, <3>1
  <2> HIDE DEF At
  <2>1. 0 \in P
    BY <1>1, <1>2, <2>0
  <2>2. ASSUME NEW k \in 1 .. L - 1, k - 1 \in P
        PROVE  k \in P
    <3>1. up[k] = (up[k - 1] - 1) \div 2 /\ up[k - 1] = At(k - 1)
      BY <2>0, <2>2
    <3>2. At(k) = (At(k - 1) - 1) \div 2
      BY <1>3
    <3> QED
      BY <1>1, <3>1, <3>2
  <2>3. \A k \in 0 .. L - 1 : k \in P
    <3> HIDE DEF P
    <3> QED
      BY <1>1, <2>1, <2>2, EveryRound
  <2> QED
    BY <2>3
<1>7. Tree!PathByParents(leaf, n) = [i \in 1 .. L |-> up[L - i]]
  BY DEF Tree!PathByParents, L, up
<1>8. Tree!PathBuckets(leaf, n) = [i \in 1 .. L |-> 2 ^ (i - 1) - 1 + leaf \div 2 ^ (L - i)]
  BY DEF Tree!PathBuckets, L
<1>9. ASSUME NEW i \in 1 .. L
      PROVE  up[L - i] = 2 ^ (i - 1) - 1 + leaf \div 2 ^ (L - i)
  <2>1. L - i \in 0 .. L - 1 /\ L - 1 - (L - i) = i - 1
    BY <1>1
  <2>2. up[L - i] = At(L - i)
    BY <1>6, <2>1
  <2> QED
    BY <2>1, <2>2
<1> QED
  BY <1>7, <1>8, <1>9

(* The bucket of each level, by its place among those of its level. *)
Place(leaf, L, k) == leaf \div 2 ^ (L - k)

LEMMA Places ==
  ASSUME NEW L \in Nat \ {0}, NEW leaf \in Nat, leaf < 2 ^ (L - 1)
  PROVE  /\ Place(leaf, L, 1) = 0
         /\ \A k \in 1 .. L : Place(leaf, L, k) \in 0 .. 2 ^ (k - 1) - 1
         /\ \A k \in 1 .. L - 1 :
              Place(leaf, L, k) = Place(leaf, L, k + 1) \div 2
<1>0. ASSUME NEW k \in 1 .. L
      PROVE  Place(leaf, L, k) \in Nat
  <2>1. L - k \in Nat
    OBVIOUS
  <2>2. 2 ^ (L - k) \in Nat \ {0}
    BY <2>1, Doubling
  <2> QED
    BY <2>2, Halves DEF Place
<1>1. Place(leaf, L, 1) = 0
  <2>1. L - 1 \in Nat
    OBVIOUS
  <2> DEFINE b == 2 ^ (L - 1)
  <2>2. b \in Nat \ {0} /\ leaf < b
    BY <2>1, Doubling
  <2> HIDE DEF b
  <2>3. leaf \div b = 0
    BY <2>2
  <2> QED
    BY <2>3 DEF Place, b
<1>2. ASSUME NEW k \in 1 .. L - 1
      PROVE  Place(leaf, L, k) = Place(leaf, L, k + 1) \div 2
  <2>1. L - (k + 1) \in Nat /\ (L - (k + 1)) + 1 = L - k
    OBVIOUS
  <2>2. 2 ^ (L - (k + 1)) \in Nat \ {0} /\ 2 ^ (L - k) = 2 * 2 ^ (L - (k + 1))
    BY <2>1, Doubling
  <2> DEFINE b == 2 ^ (L - (k + 1))
  <2> HIDE DEF b
  <2>3. b \in Nat \ {0}
    BY <2>2 DEF b
  <2>4. leaf \div (2 * b) = (leaf \div b) \div 2
    BY <2>3, Halves
  <2> QED
    BY <2>2, <2>4 DEF Place, b
<1>3. \A k \in 1 .. L : Place(leaf, L, k) \in 0 .. 2 ^ (k - 1) - 1
  <2> DEFINE P == {k \in 0 .. L - 1 : Place(leaf, L, k + 1) < 2 ^ k}
  <2>1. 0 \in P
    <3>1. 2 ^ 0 = 1 /\ Place(leaf, L, 0 + 1) = 0 /\ 0 \in 0 .. L - 1
      BY <1>1
    <3> QED
      BY <3>1
  <2>2. ASSUME NEW k \in 1 .. L - 1, k - 1 \in P
        PROVE  k \in P
    <3>1. k \in 1 .. L /\ k + 1 \in 1 .. L /\ k - 1 \in Nat /\ (k - 1) + 1 = k
      OBVIOUS
    <3>2. 2 ^ (k - 1) \in Nat /\ 2 ^ k = 2 * 2 ^ (k - 1)
      BY <3>1, Doubling
    <3>3. Place(leaf, L, k) \in Nat /\ Place(leaf, L, k + 1) \in Nat
      BY <1>0, <3>1
    <3>4. Place(leaf, L, k) < 2 ^ (k - 1) /\ Place(leaf, L, k) = Place(leaf, L, k + 1) \div 2
      BY <1>2, <2>2, <3>1
    <3> DEFINE a == Place(leaf, L, k + 1)
               b == 2 ^ (k - 1)
    <3> HIDE DEF a, b
    <3>5. a < 2 * b
      BY <3>2, <3>3, <3>4 DEF a, b
    <3>6. k \in 0 .. L - 1
      OBVIOUS
    <3> QED
      BY <3>2, <3>5, <3>6 DEF a, b
  <2>3. \A k \in 0 .. L - 1 : k \in P
    <3> HIDE DEF P
    <3>1. L - 1 \in Nat
      OBVIOUS
    <3> QED
      BY <2>1, <2>2, <3>1, EveryRound
  <2>4. ASSUME NEW k \in 1 .. L
        PROVE  Place(leaf, L, k) \in 0 .. 2 ^ (k - 1) - 1
    <3>1. k - 1 \in 0 .. L - 1 /\ k - 1 \in Nat /\ (k - 1) + 1 = k
      OBVIOUS
    <3>2. Place(leaf, L, (k - 1) + 1) < 2 ^ (k - 1)
      BY <2>3, <3>1
    <3>3. Place(leaf, L, k) < 2 ^ (k - 1) /\ Place(leaf, L, k) \in Nat /\ 2 ^ (k - 1) \in Nat
      BY <1>0, <3>1, <3>2, Doubling
    <3> QED
      BY <3>3
  <2> QED
    BY <2>4
<1> QED
  BY <1>1, <1>2, <1>3

(* Buckets of different levels differ, those of one level by their place. *)
LEMMA Numbering ==
  ASSUME NEW k \in Nat \ {0}, NEW l \in Nat \ {0},
         NEW c \in 0 .. 2 ^ (k - 1) - 1, NEW d \in 0 .. 2 ^ (l - 1) - 1
  PROVE  /\ 2 ^ (k - 1) - 1 + c \in 2 ^ (k - 1) - 1 .. 2 ^ k - 2
         /\ 2 ^ (k - 1) - 1 + c = 2 ^ (l - 1) - 1 + d => k = l /\ c = d
<1>1. ASSUME NEW m \in Nat \ {0}
      PROVE  2 ^ (m - 1) \in Nat \ {0} /\ 2 ^ m = 2 * 2 ^ (m - 1)
  <2>1. m - 1 \in Nat /\ (m - 1) + 1 = m
    OBVIOUS
  <2> QED
    BY <2>1, Doubling
<1>2. 2 ^ (k - 1) \in Nat \ {0} /\ 2 ^ k = 2 * 2 ^ (k - 1)
  BY <1>1
<1>3. 2 ^ (l - 1) \in Nat \ {0} /\ 2 ^ l = 2 * 2 ^ (l - 1)
  BY <1>1
<1>4. k < l => 2 ^ k <= 2 ^ (l - 1)
  <2>1. k < l => k <= l - 1 /\ l - 1 \in Nat
    OBVIOUS
  <2> QED
    BY <2>1, PowersGrow
<1>5. l < k => 2 ^ l <= 2 ^ (k - 1)
  <2>1. l < k => l <= k - 1 /\ k - 1 \in Nat
    OBVIOUS
  <2> QED
    BY <2>1, PowersGrow
<1>6. k < l \/ l < k \/ k = l
  OBVIOUS
<1> DEFINE K == 2 ^ (k - 1)
           M == 2 ^ (l - 1)
<1>7. /\ K \in Nat /\ M \in Nat /\ c \in 0 .. K - 1 /\ d \in 0 .. M - 1 /\ 2 ^ k = 2 * K
      /\ k < l => 2 * K <= M
      /\ l < k => 2 * M <= K
      /\ k = l => K = M
  BY <1>2, <1>3, <1>4, <1>5
<1> HIDE DEF K, M
<1>8. K - 1 + c \in K - 1 .. 2 * K - 2 /\ (K - 1 + c = M - 1 + d => k = l /\ c = d)
  BY <1>6, <1>7
<1> QED
  BY <1>7, <1>8 DEF K, M

PathIsRight(i, out) ==
  LET n == i.n
  IN /\ out = Tree!PathBuckets(i.leaf, n)
     /\ Len(out) = Tree!TreeLevels(n) /\ out[1] = 0
     /\ \A k \in 1 .. Len(out) - 1 : out[k + 1] \in {2 * out[k] + 1, 2 * out[k] + 2}
     /\ ToSet(out) \subseteq 0 .. Tree!TotalBuckets(n) - 1
     /\ \A leaf \in 0 .. n - 1, k, l \in DOMAIN out :
          LET other == Tree!PathByParents(leaf, n)
          IN out[k] = other[l] => k = l /\ \A j \in 1 .. k : out[j] = other[j]
     /\ \A t \in 0 .. Len(out) - 1, k \in DOMAIN out : Tree!BucketInTreetop(out[k], t) <=> k <= t

(* path_buckets lists a path of the tree, whatever the layout and the leaf. *)
LEMMA PathsAreRight ==
  ASSUME W \in Nat \ {0}, NEW i, LayoutOK(i)
  PROVE  PathIsRight(i, Tree!PathByParents(i.leaf, i.n))
<1> DEFINE n == i.n
           L == Tree!TreeLevels(n)
           path(leaf) == [k \in 1 .. L |-> 2 ^ (k - 1) - 1 + Place(leaf, L, k)]
           out == Tree!PathByParents(i.leaf, n)
<1>1. n \in Nat \ {0} /\ i.leaf \in 0 .. n - 1 /\ 2 <= W
  BY DEF LayoutOK
<1>2. L \in 1 .. W - 1 /\ n <= 2 ^ (L - 1)
  BY Levels
<1>3. L \in Nat \ {0} /\ L - 1 \in Nat /\ 2 ^ (L - 1) \in Nat
  <2>1. L \in Nat \ {0} /\ L - 1 \in Nat
    BY <1>1, <1>2
  <2> HIDE DEF L
  <2> QED
    BY <2>1, Doubling
<1>4. ASSUME NEW leaf \in 0 .. n - 1
      PROVE  /\ leaf \in Nat /\ leaf < 2 ^ (L - 1)
             /\ Tree!PathByParents(leaf, n) = path(leaf)
             /\ Tree!PathByParents(leaf, n) = Tree!PathBuckets(leaf, n)
  <2>1. leaf \in Nat /\ leaf < 2 ^ (L - 1)
    <3> HIDE DEF L
    <3> QED
      BY <1>1, <1>2, <1>3
  <2>2. Tree!PathByParents(leaf, n) = Tree!PathBuckets(leaf, n)
    BY <1>2, <2>1, ParentsAreThePath
  <2>3. Tree!PathBuckets(leaf, n) = path(leaf)
    BY DEF Tree!PathBuckets, Place
  <2> QED
    BY <2>1, <2>2, <2>3
<1> HIDE DEF L, n
<1>5. ASSUME NEW leaf \in 0 .. n - 1
      PROVE  /\ Place(leaf, L, 1) = 0
             /\ \A k \in 1 .. L : Place(leaf, L, k) \in 0 .. 2 ^ (k - 1) - 1
             /\ \A k \in 1 .. L - 1 : Place(leaf, L, k) = Place(leaf, L, k + 1) \div 2
  BY <1>3, <1>4, Places
<1>6. ASSUME NEW leaf \in 0 .. n - 1, NEW k \in 1 .. L
      PROVE  path(leaf)[k] \in 2 ^ (k - 1) - 1 .. 2 ^ k - 2
  <2>1. k \in Nat \ {0} /\ Place(leaf, L, k) \in 0 .. 2 ^ (k - 1) - 1
    BY <1>3, <1>5
  <2> QED
    BY <2>1, Numbering
<1>7. i.leaf \in 0 .. n - 1 /\ out = path(i.leaf)
  BY <1>1, <1>4
<1>8. path(i.leaf)[1] = 0
  <2>1. 1 \in 1 .. L /\ 2 ^ (1 - 1) = 1
    BY <1>3
  <2> QED
    BY <1>5, <1>7, <2>1
<1>9. ASSUME NEW k \in 1 .. L - 1
      PROVE  path(i.leaf)[k + 1] \in {2 * path(i.leaf)[k] + 1, 2 * path(i.leaf)[k] + 2}
  <2>1. k \in 1 .. L /\ k + 1 \in 1 .. L /\ k - 1 \in Nat /\ (k - 1) + 1 = k /\ (k + 1) - 1 = k
    BY <1>3
  <2> DEFINE b == 2 ^ (k - 1)
             c == Place(i.leaf, L, k)
             d == Place(i.leaf, L, k + 1)
  <2>2. b \in Nat /\ 2 ^ k = 2 * b
    BY <2>1, Doubling
  <2>3. d \in 0 .. 2 ^ ((k + 1) - 1) - 1 /\ c = d \div 2
    BY <1>5, <1>7, <2>1
  <2>4. d \in Nat
    BY <2>1, <2>2, <2>3
  <2>5. path(i.leaf)[k] = b - 1 + c /\ path(i.leaf)[k + 1] = 2 * b - 1 + d
    BY <2>1, <2>2
  <2> HIDE DEF b, c, d
  <2>6. 2 * b - 1 + d \in {2 * (b - 1 + c) + 1, 2 * (b - 1 + c) + 2}
    BY <2>2, <2>3, <2>4
  <2> QED
    BY <2>5, <2>6
<1>10. ToSet(path(i.leaf)) \subseteq 0 .. Tree!TotalBuckets(n) - 1
  <2>1. Tree!TotalBuckets(n) = 2 ^ L - 1
    <3>1. L \in 0 .. W - 1
      BY <1>2, <1>3
    <3>2. Tree!Shl(L) = 2 ^ L
      BY <3>1, Shifted
    <3> QED
      BY <3>2 DEF Tree!TotalBuckets, L
  <2>2. ASSUME NEW k \in 1 .. L
        PROVE  path(i.leaf)[k] \in 0 .. 2 ^ L - 1 - 1
    <3>1. k \in Nat /\ k - 1 \in Nat /\ k <= L
      BY <1>3
    <3>2. 2 ^ k <= 2 ^ L /\ 2 ^ k \in Nat /\ 2 ^ L \in Nat /\ 2 ^ (k - 1) \in Nat \ {0}
      BY <1>3, <3>1, Doubling, PowersGrow
    <3>3. path(i.leaf)[k] \in 2 ^ (k - 1) - 1 .. 2 ^ k - 2
      BY <1>6, <1>7
    <3> QED
      BY <3>2, <3>3
  <2>3. \A x \in ToSet(path(i.leaf)) : \E k \in 1 .. L : x = path(i.leaf)[k]
    BY DEF ToSet
  <2> HIDE DEF path
  <2> QED
    BY <2>1, <2>2, <2>3
<1>11. ASSUME NEW leaf \in 0 .. n - 1, NEW k \in 1 .. L, NEW l \in 1 .. L,
              path(i.leaf)[k] = path(leaf)[l]
       PROVE  k = l /\ \A j \in 1 .. k : path(i.leaf)[j] = path(leaf)[j]
  <2>1. k \in Nat \ {0} /\ l \in Nat \ {0} /\ L - 1 \in Nat
    BY <1>3
  <2>2. /\ Place(i.leaf, L, k) \in 0 .. 2 ^ (k - 1) - 1
        /\ Place(leaf, L, l) \in 0 .. 2 ^ (l - 1) - 1
    BY <1>5, <1>7
  <2>3. 2 ^ (k - 1) - 1 + Place(i.leaf, L, k) = 2 ^ (l - 1) - 1 + Place(leaf, L, l)
    BY <1>11
  <2>4. k = l /\ Place(i.leaf, L, k) = Place(leaf, L, k)
    <3>1. k = l /\ Place(i.leaf, L, k) = Place(leaf, L, l)
      <4> DEFINE c == Place(i.leaf, L, k)
                 d == Place(leaf, L, l)
      <4> HIDE DEF c, d
      <4>1. /\ c \in 0 .. 2 ^ (k - 1) - 1 /\ d \in 0 .. 2 ^ (l - 1) - 1
            /\ 2 ^ (k - 1) - 1 + c = 2 ^ (l - 1) - 1 + d
        BY <2>2, <2>3 DEF c, d
      <4>2. \A x \in 0 .. 2 ^ (k - 1) - 1, y \in 0 .. 2 ^ (l - 1) - 1 :
              2 ^ (k - 1) - 1 + x = 2 ^ (l - 1) - 1 + y => k = l /\ x = y
        BY <2>1, Numbering
      <4>3. k = l /\ c = d
        BY Zenon, <4>1, <4>2
      <4> QED
        BY <4>3 DEF c, d
    <3> QED
      BY Zenon, <3>1
  <2> DEFINE P == {m \in 0 .. k - 1 : Place(i.leaf, L, k - m) = Place(leaf, L, k - m)}
  <2>5. 0 \in P
    BY <2>1, <2>4
  <2>6. ASSUME NEW m \in 1 .. k - 1, m - 1 \in P
        PROVE  m \in P
    <3>1. k - m \in 1 .. L - 1 /\ (k - m) + 1 = k - (m - 1) /\ m \in 0 .. k - 1
      BY <1>3, <2>1
    <3>2. Place(i.leaf, L, k - (m - 1)) = Place(leaf, L, k - (m - 1))
      BY <2>6
    <3>3. Place(i.leaf, L, k - m) = Place(i.leaf, L, (k - m) + 1) \div 2
      BY <1>5, <1>7, <3>1
    <3>4. Place(leaf, L, k - m) = Place(leaf, L, (k - m) + 1) \div 2
      BY <1>5, <3>1
    <3>5. Place(i.leaf, L, k - m) = Place(leaf, L, k - m)
      BY <3>1, <3>2, <3>3, <3>4
    <3> QED
      BY <3>1, <3>5
  <2>7. \A m \in 0 .. k - 1 : m \in P
    <3> HIDE DEF P
    <3>1. k - 1 \in Nat
      BY <2>1
    <3> QED
      BY <2>5, <2>6, <3>1, EveryRound
  <2>8. ASSUME NEW j \in 1 .. k
        PROVE  path(i.leaf)[j] = path(leaf)[j]
    <3>1. k - j \in 0 .. k - 1 /\ k - (k - j) = j /\ j \in 1 .. L
      BY <1>3, <2>1
    <3>2. Place(i.leaf, L, j) = Place(leaf, L, j)
      BY <2>7, <3>1
    <3> QED
      BY <3>1, <3>2
  <2> QED
    BY <2>4, <2>8
<1>12. ASSUME NEW t \in 0 .. L - 1, NEW k \in 1 .. L
       PROVE  Tree!BucketInTreetop(path(i.leaf)[k], t) <=> k <= t
  <2> DEFINE b == path(i.leaf)[k]
  <2>1. k \in Nat \ {0} /\ k - 1 \in Nat /\ t \in Nat /\ t \in 0 .. W - 1
    BY <1>2, <1>3
  <2>2. b \in 2 ^ (k - 1) - 1 .. 2 ^ k - 2
    BY <1>6, <1>7
  <2>3. 2 ^ (k - 1) \in Nat \ {0} /\ 2 ^ k \in Nat /\ 2 ^ t \in Nat
    BY <2>1, Doubling
  <2> HIDE DEF b
  <2>4. CASE t = 0
    <3>1. Tree!TreetopBucketCount(t) = 0
      BY <2>4 DEF Tree!TreetopBucketCount
    <3> QED
      BY <2>1, <2>2, <2>3, <2>4, <3>1 DEF Tree!BucketInTreetop, b
  <2>5. CASE t # 0
    <3>1. Tree!TreetopBucketCount(t) = 2 ^ t - 1
      BY <2>1, <2>5, Shifted DEF Tree!TreetopBucketCount
    <3>2. k <= t => 2 ^ k <= 2 ^ t
      BY <2>1, PowersGrow
    <3>3. t <= k - 1 => 2 ^ t <= 2 ^ (k - 1)
      BY <2>1, PowersGrow
    <3>4. b < 2 ^ t - 1 <=> k <= t
      BY <2>1, <2>2, <2>3, <3>2, <3>3
    <3> QED
      BY <3>1, <3>4 DEF Tree!BucketInTreetop, b
  <2> QED
    BY <2>4, <2>5
<1>13. Len(out) = L /\ DOMAIN out = 1 .. L
  BY <1>3, <1>7
<1>14. \A leaf \in 0 .. n - 1 : Tree!PathByParents(leaf, n) = path(leaf)
  BY <1>4
<1>15. out = Tree!PathBuckets(i.leaf, n)
  BY <1>4, <1>7
<1> HIDE DEF path, out
<1>16. out[1] = 0 /\ \A k \in 1 .. Len(out) - 1 : out[k + 1] \in {2 * out[k] + 1, 2 * out[k] + 2}
  BY <1>7, <1>8, <1>9, <1>13
<1>17. ToSet(out) \subseteq 0 .. Tree!TotalBuckets(n) - 1
  BY <1>7, <1>10
<1>18. \A leaf \in 0 .. n - 1, k, l \in DOMAIN out :
         LET other == Tree!PathByParents(leaf, n)
         IN out[k] = other[l] => k = l /\ \A j \in 1 .. k : out[j] = other[j]
  BY <1>7, <1>11, <1>13, <1>14
<1>19. \A t \in 0 .. Len(out) - 1, k \in DOMAIN out : Tree!BucketInTreetop(out[k], t) <=> k <= t
  BY <1>7, <1>12, <1>13
<1> QED
  BY Zenon, <1>13, <1>15, <1>16, <1>17, <1>18, <1>19 DEF PathIsRight, out, n, L

(* What path_buckets returns is the path of the tree to the leaf, for any   *)
(* number of leaves the word has room for.                                 *)
THEOREM PathsFormTheTreeHolds == Spec => []PathsFormTheTree
<1>1. Evaluated => PathsFormTheTree
  <2> SUFFICES ASSUME Evaluated, output.fn = "layout"
               PROVE  PathsFormTheTree
    BY DEF PathsFormTheTree
  <2>1. input \in Inputs /\ input.fn = "layout" /\ output.value = Result(input)
    BY DEF Evaluated, None
  <2>2. LayoutOK(input) /\ W \in Nat \ {0}
    BY <2>1, InputsAssumption
  <2>3. Result(input) = Tree!PathByParents(input.leaf, input.n)
    BY <2>1 DEF Result
  <2> QED
    <3>1. PathIsRight(input, output.value)
      BY <2>1, <2>2, <2>3, PathsAreRight
    <3> QED
      BY Zenon, <3>1 DEF PathIsRight, PathsFormTheTree
<1> QED
  BY <1>1, EvaluatedHolds, PTL

(* A client that lays its tree out with path_buckets meets what RingOram   *)
(* assumes of its paths: they list buckets of the tree, none twice.        *)
THEOREM LayoutMeetsPathAssumption ==
  ASSUME NEW n \in Nat \ {0}, 2 <= W, n <= 2 ^ (W - 2)
  PROVE  LET Buckets == 0 .. Tree!TotalBuckets(n) - 1
             Path == [leaf \in 0 .. n - 1 |-> Tree!PathByParents(leaf, n)]
         IN /\ Path \in [0 .. n - 1 -> Seq(Buckets)]
            /\ \A leaf \in 0 .. n - 1 : \A i, j \in DOMAIN Path[leaf] :
                 Path[leaf][i] = Path[leaf][j] => i = j
<1> DEFINE Buckets == 0 .. Tree!TotalBuckets(n) - 1
<1>1. ASSUME NEW leaf \in 0 .. n - 1
      PROVE  /\ Tree!PathByParents(leaf, n) \in Seq(Buckets)
             /\ \A i, j \in DOMAIN Tree!PathByParents(leaf, n) :
                  Tree!PathByParents(leaf, n)[i] = Tree!PathByParents(leaf, n)[j] => i = j
  <2> DEFINE call == [n |-> n, leaf |-> leaf]
             out == Tree!PathByParents(leaf, n)
             L == Tree!TreeLevels(n)
  <2>1. LayoutOK(call) /\ W \in Nat \ {0} /\ call.n = n /\ call.leaf = leaf
    BY InputsAssumption DEF LayoutOK
  <2> HIDE DEF call
  <2>2. PathIsRight(call, Tree!PathByParents(call.leaf, call.n))
    BY <2>1, PathsAreRight
  <2>3. PathIsRight(call, out)
    BY Zenon, <2>1, <2>2
  <2> HIDE DEF out, L
  <2>4. /\ out = Tree!PathBuckets(leaf, n)
        /\ ToSet(out) \subseteq Buckets
        /\ \A k, l \in DOMAIN out : out[k] = out[l] => k = l
    BY <2>1, <2>3 DEF PathIsRight, out
  <2>5. L \in Nat
    <3>1. Tree!TreeLevels(call.n) \in 1 .. W - 1
      BY <2>1, Levels
    <3> QED
      BY <2>1, <3>1 DEF L
  <2>6. out = [k \in 1 .. L |-> out[k]]
    <3>1. Tree!PathBuckets(leaf, n) = [k \in 1 .. L |-> 2 ^ (k - 1) - 1 + leaf \div 2 ^ (L - k)]
      BY Zenon DEF Tree!PathBuckets, L
    <3> QED
      BY <2>4, <3>1
  <2>7. DOMAIN out = 1 .. L
    BY <2>6
  <2>8. \A k \in 1 .. L : out[k] \in Buckets
    BY <2>4, <2>7 DEF ToSet
  <2>9. out \in Seq(Buckets)
    <3> HIDE DEF Buckets
    <3> QED
      BY <2>5, <2>6, <2>8
  <2> QED
    BY Zenon, <2>4, <2>9 DEF out
<1> HIDE DEF Buckets
<1> QED
  BY <1>1 DEF Buckets

-----------------------------------------------------------------------------
(* Chunks.  Where a position is moved to a boundary.                       *)
Bytes == STRING

LEMMA FloorIs ==
  ASSUME NEW s \in Seq(Bytes), NEW k \in Nat
  PROVE  LET f == Chk!FloorCharBoundary(s, k)
         IN /\ f \in 0 .. Len(s) /\ f <= k /\ Chk!IsCharBoundary(s, f)
            /\ \A j \in f + 1 .. k : j <= Len(s) => ~Chk!IsCharBoundary(s, j)
            /\ k >= Len(s) => f = Len(s)
<1> DEFINE f == Chk!FloorCharBoundary(s, k)
           T == {i \in 0 .. k : Chk!IsCharBoundary(s, i)}
<1>0. Len(s) \in Nat
  OBVIOUS
<1>1. CASE k >= Len(s)
  <2>1. f = Len(s)
    BY <1>1 DEF Chk!FloorCharBoundary
  <2> QED
    BY <1>0, <1>1, <2>1 DEF Chk!IsCharBoundary
<1>2. CASE k < Len(s)
  <2>1. T # {} /\ T \in SUBSET (0 .. k)
    BY DEF Chk!IsCharBoundary
  <2>2. PICK x \in T : \A y \in T : y <= x
    <3> HIDE DEF T
    <3> QED
      BY <2>1, GreatestNat
  <2>3. x \in 0 .. k /\ Chk!IsCharBoundary(s, x) /\ \A j \in x + 1 .. k : ~Chk!IsCharBoundary(s, j)
    <3>1. \A j \in x + 1 .. k : j \in 0 .. k /\ ~(j <= x)
      OBVIOUS
    <3> QED
      BY <2>2, <3>1
  <2>4. f = CHOOSE i \in 0 .. k : Chk!IsCharBoundary(s, i) /\ \A j \in i + 1 .. k : ~Chk!IsCharBoundary(s, j)
    BY <1>0, <1>2 DEF Chk!FloorCharBoundary
  <2>5. f \in 0 .. k /\ Chk!IsCharBoundary(s, f) /\ \A j \in f + 1 .. k : ~Chk!IsCharBoundary(s, j)
    <3> HIDE DEF f
    <3> QED
      BY <2>3, <2>4
  <2> HIDE DEF f
  <2>6. f \in 0 .. Len(s) /\ f <= k
    BY <1>0, <1>2, <2>5
  <2> QED
    BY <1>0, <1>2, <2>5, <2>6 DEF f
<1> QED
  BY <1>0, <1>1, <1>2

LEMMA CeilIs ==
  ASSUME NEW s \in Seq(Bytes), NEW k \in Nat
  PROVE  LET c == Chk!CeilCharBoundary(s, k)
         IN /\ c \in 0 .. Len(s) /\ Chk!IsCharBoundary(s, c)
            /\ k <= Len(s) => k <= c
            /\ k <= Len(s) /\ Chk!IsCharBoundary(s, k) => c = k
<1> DEFINE c == Chk!CeilCharBoundary(s, k)
           T == {i \in k .. Len(s) : Chk!IsCharBoundary(s, i)}
<1>0. Len(s) \in Nat
  OBVIOUS
<1>1. CASE k >= Len(s)
  <2>1. c = Len(s)
    BY <1>1 DEF Chk!CeilCharBoundary
  <2> QED
    BY <1>0, <1>1, <2>1 DEF Chk!IsCharBoundary
<1>2. CASE k < Len(s)
  <2>1. T # {} /\ T \in SUBSET Nat
    <3>1. Len(s) \in T
      BY <1>0, <1>2 DEF Chk!IsCharBoundary
    <3> QED
      BY <1>0, <3>1
  <2>2. PICK x \in T : \A y \in T : ~(y < x)
    <3> HIDE DEF T
    <3> QED
      BY <2>1, LeastNat
  <2>3. x \in k .. Len(s) /\ Chk!IsCharBoundary(s, x) /\ \A j \in k .. x - 1 : ~Chk!IsCharBoundary(s, j)
    <3>1. \A j \in k .. x - 1 : j \in k .. Len(s) /\ j < x
      BY <1>0
    <3> QED
      BY <2>2, <3>1
  <2>4. c = CHOOSE i \in k .. Len(s) : Chk!IsCharBoundary(s, i) /\ \A j \in k .. i - 1 : ~Chk!IsCharBoundary(s, j)
    BY <1>0, <1>2 DEF Chk!CeilCharBoundary
  <2>5. c \in k .. Len(s) /\ Chk!IsCharBoundary(s, c) /\ \A j \in k .. c - 1 : ~Chk!IsCharBoundary(s, j)
    <3> HIDE DEF c
    <3> QED
      BY <2>3, <2>4
  <2> HIDE DEF c
  <2>6. c \in 0 .. Len(s) /\ k <= c
    BY <1>0, <1>2, <2>5
  <2>7. ASSUME Chk!IsCharBoundary(s, k)
        PROVE  c = k
    <3>1. k \notin k .. c - 1
      BY <2>5, <2>7
    <3> QED
      BY <1>0, <2>5, <2>6, <3>1
  <2> QED
    BY <2>5, <2>6, <2>7 DEF c
<1> QED
  BY <1>0, <1>1, <1>2

(* A slice between two boundaries has the boundaries of the text. *)
LEMMA SliceIs ==
  ASSUME NEW s \in Seq(Bytes), NEW a \in 0 .. Len(s), NEW b \in a .. Len(s)
  PROVE  /\ Chk!Slice(s, a, b) \in Seq(Bytes)
         /\ Len(Chk!Slice(s, a, b)) = b - a
         /\ \A j \in 1 .. b - a : Chk!Slice(s, a, b)[j] = s[a + j]
<1>1. Len(s) \in Nat /\ a \in Nat /\ b \in Nat /\ a <= b
  OBVIOUS
<1>2. \A j \in a + 1 .. b : s[j] \in Bytes
  BY <1>1
<1>3. SubSeq(s, a + 1, b) \in Seq(Bytes)
  BY <1>1, <1>2, SubSeqProperties
<1>4. Len(SubSeq(s, a + 1, b)) = b - a
  BY <1>1, <1>2, SubSeqProperties
<1>5. ASSUME NEW j \in 1 .. b - a
      PROVE  SubSeq(s, a + 1, b)[j] = s[a + j]
  <2>1. j \in 1 .. b - (a + 1) + 1 /\ (a + 1) + j - 1 = a + j
    BY <1>1
  <2> QED
    BY <1>1, <1>2, <2>1, SubSeqProperties
<1> QED
  BY <1>3, <1>4, <1>5 DEF Chk!Slice

LEMMA SliceBoundaries ==
  ASSUME NEW s \in Seq(Bytes), NEW a \in 0 .. Len(s), NEW b \in a .. Len(s),
         Chk!IsCharBoundary(s, a), Chk!IsCharBoundary(s, b), NEW j \in 0 .. b - a
  PROVE  Chk!IsCharBoundary(Chk!Slice(s, a, b), j) <=> Chk!IsCharBoundary(s, a + j)
<1>1. Len(s) \in Nat /\ a \in Nat /\ b \in Nat /\ a <= b
  OBVIOUS
<1> DEFINE u == Chk!Slice(s, a, b)
<1>2. Len(u) = b - a /\ \A k \in 1 .. b - a : u[k] = s[a + k]
  BY SliceIs
<1> HIDE DEF u
<1>3. CASE j = 0 \/ j = b - a
  <2>1. a + j = a \/ a + j = b
    BY <1>1, <1>3
  <2> QED
    BY <1>2, <1>3, <2>1 DEF Chk!IsCharBoundary, u
<1>4. CASE j # 0 /\ j # b - a
  <2>1. j + 1 \in 1 .. b - a /\ a + (j + 1) = a + j + 1 /\ a + j # 0 /\ a + j # Len(s)
    BY <1>1, <1>4
  <2>2. u[j + 1] = s[a + j + 1]
    BY <1>2, <2>1
  <2> QED
    BY <1>2, <1>4, <2>1, <2>2 DEF Chk!IsCharBoundary, u
<1> QED
  BY <1>3, <1>4

LEMMA SliceOfSlice ==
  ASSUME NEW s \in Seq(Bytes), NEW a \in 0 .. Len(s), NEW b \in a .. Len(s),
         NEW p \in 0 .. b - a, NEW q \in p .. b - a
  PROVE  Chk!Slice(Chk!Slice(s, a, b), p, q) = Chk!Slice(s, a + p, a + q)
<1>1. Len(s) \in Nat /\ a \in Nat /\ b \in Nat /\ a <= b /\ p \in Nat /\ q \in Nat
  OBVIOUS
<1> DEFINE u == Chk!Slice(s, a, b)
           x == Chk!Slice(u, p, q)
           y == Chk!Slice(s, a + p, a + q)
<1>2. u \in Seq(Bytes) /\ Len(u) = b - a /\ \A k \in 1 .. b - a : u[k] = s[a + k]
  BY SliceIs
<1> HIDE DEF u
<1>3. x \in Seq(Bytes) /\ Len(x) = q - p /\ \A k \in 1 .. q - p : x[k] = u[p + k]
  <2>1. p \in 0 .. Len(u) /\ q \in p .. Len(u)
    BY <1>1, <1>2
  <2> QED
    BY <1>2, <2>1, SliceIs
<1>4. y \in Seq(Bytes) /\ Len(y) = q - p /\ \A k \in 1 .. q - p : y[k] = s[(a + p) + k]
  <2>1. a + p \in 0 .. Len(s) /\ a + q \in a + p .. Len(s) /\ (a + q) - (a + p) = q - p
    BY <1>1
  <2> QED
    BY <2>1, SliceIs
<1> HIDE DEF x, y
<1>5. \A k \in 1 .. q - p : x[k] = y[k]
  <2> SUFFICES ASSUME NEW k \in 1 .. q - p
               PROVE  x[k] = y[k]
    OBVIOUS
  <2>1. p + k \in 1 .. b - a /\ a + (p + k) = (a + p) + k
    BY <1>1
  <2> QED
    BY <1>2, <1>3, <1>4, <2>1
<1>6. x = y
  BY <1>1, <1>3, <1>4, <1>5
<1> QED
  BY <1>6 DEF x, y, u

(* A cut is the end of the slice, or follows a separator of its last part. *)
LEMMA SplitIs ==
  ASSUME NEW u \in Seq(Bytes), NEW c \in Nat, Len(u) <= 4 * c,
         NEW seps \in Seq(Seq(Bytes) \ {<<>>})
  PROVE  LET cut == Chk!FindSplitPoint(u, 4 * c, seps)
         IN \/ cut = Len(u)
            \/ \E k \in DOMAIN seps : \E p \in 0 .. Len(u) - Len(seps[k]) :
                 /\ Chk!Slice(u, p, p + Len(seps[k])) = seps[k]
                 /\ Len(seps[k]) \in Nat \ {0}
                 /\ cut = p + Len(seps[k])
                 /\ Chk!FloorCharBoundary(u, 3 * c) <= p
<1> DEFINE cut == Chk!FindSplitPoint(u, 4 * c, seps)
           from == Chk!FloorCharBoundary(u, 3 * c)
           d == Len(u)
           Occ(k) == Chk!Occurrences(u, from, d, seps[k])
           found == {k \in DOMAIN seps : Occ(k) # {}}
           first == CHOOSE k \in found : \A l \in found : k <= l
<1>1. d \in Nat /\ from \in 0 .. d
  <2>1. 3 * c \in Nat /\ Len(u) \in Nat
    OBVIOUS
  <2>2. Chk!FloorCharBoundary(u, 3 * c) \in 0 .. Len(u)
    BY <2>1, FloorIs
  <2> QED
    BY <2>1, <2>2
<1>2. Chk!Minus(4 * c, (4 * c) \div 4) = 3 * c
  BY DEF Chk!Minus
<1>3. Chk!FloorCharBoundary(u, 4 * c) = d
  <2>1. 4 * c \in Nat /\ 4 * c >= Len(u)
    OBVIOUS
  <2> QED
    BY <2>1, FloorIs
<1>4. cut = IF from >= d \/ found = {} THEN d ELSE Chk!Latest(Occ(first)) + Len(seps[first])
  <2>1. cut = IF from >= d THEN d ELSE Chk!SplitWithin(u, from, d, seps)
    BY Zenon, <1>2, <1>3 DEF Chk!FindSplitPoint
  <2>2. Chk!SplitWithin(u, from, d, seps) =
          IF found = {} THEN d ELSE Chk!Latest(Occ(first)) + Len(seps[first])
    BY DEF Chk!SplitWithin
  <2> QED
    BY Zenon, <2>1, <2>2
<1> HIDE DEF cut, d, from
<1>5. CASE from >= d \/ found = {}
  BY Zenon, <1>4, <1>5 DEF cut, d
<1>6. CASE ~(from >= d \/ found = {})
  <2>1. found # {} /\ found \in SUBSET Nat
    <3>1. DOMAIN seps \in SUBSET Nat
      OBVIOUS
    <3> QED
      BY Zenon, <1>6, <3>1
  <2>2. first \in found
    <3> HIDE DEF found
    <3>1. PICK k \in found : \A l \in found : ~(l < k)
      BY <2>1, LeastNat
    <3>2. k \in found /\ \A l \in found : k <= l
      BY <2>1, <3>1
    <3> QED
      BY <3>2
  <2> HIDE DEF first
  <2>3. first \in DOMAIN seps /\ Occ(first) # {}
    BY Zenon, <2>2
  <2>4. seps[first] \in Seq(Bytes) /\ Len(seps[first]) \in Nat \ {0}
    <3>1. seps[first] \in Seq(Bytes) /\ seps[first] # <<>>
      BY <2>3
    <3> QED
      BY <3>1, EmptySeq
  <2> DEFINE n == Len(seps[first])
             S == Occ(first)
             p == Chk!Latest(S)
  <2>5. S # {} /\ S \in SUBSET (0 .. d)
        /\ \A q \in S : q \in from .. d - n /\ Chk!Slice(u, q, q + n) = seps[first]
    <3>1. S = {q \in from .. d - n : Chk!Slice(u, q, q + n) = seps[first]}
      BY Zenon DEF Chk!Occurrences
    <3>2. n \in Nat /\ \A q \in from .. d - n : q \in 0 .. d
      BY <1>1, <2>4
    <3> HIDE DEF S, n
    <3> QED
      BY Zenon, <2>3, <3>1, <3>2 DEF S
  <2>6. p \in S
    <3> HIDE DEF S
    <3>1. \E x \in S : \A y \in S : y <= x
      BY <1>1, <2>5, GreatestNat
    <3> QED
      BY <3>1 DEF Chk!Latest
  <2>7. cut = p + n
    BY Zenon, <1>4, <1>6
  <2> HIDE DEF p, S
  <2>8. p \in from .. d - n /\ Chk!Slice(u, p, p + n) = seps[first]
    BY <2>5, <2>6
  <2>9. p \in 0 .. d - n /\ from <= p
    BY <1>1, <2>4, <2>8
  <2> QED
    BY <2>3, <2>4, <2>7, <2>8, <2>9 DEF cut, d, from
<1> QED
  BY <1>5, <1>6

EndOf(i, pos) == Chk!FloorCharBoundary(i.text, pos + (4 * i.cfg.chunk_size))
CutOf(i, pos) ==
  Chk!FindSplitPoint(Chk!Slice(i.text, pos, EndOf(i, pos)), 4 * i.cfg.chunk_size, i.cfg.separators)
ActualEnd(i, pos) == Chk!FloorCharBoundary(i.text, pos + CutOf(i, pos))

(* A chunk that is not the tail takes more than three quarters of the       *)
(* target, or all of it but part of a character.                           *)
LEMMA CutIs ==
  ASSUME NEW i, ChunkOK(i), NEW pos \in Nat, Chk!IsCharBoundary(i.text, pos),
         pos + 4 * i.cfg.chunk_size < Len(i.text)
  PROVE  LET end == ActualEnd(i, pos)  c == i.cfg.chunk_size
         IN /\ end \in pos .. pos + 4 * c
            /\ Chk!IsCharBoundary(i.text, end)
            /\ c # 0 => end > pos /\ (end - pos > 3 * c \/ end - pos >= 4 * c - 3)
<1> DEFINE text == i.text
           c == i.cfg.chunk_size
           N == Len(text)
           end == EndOf(i, pos)
           u == Chk!Slice(text, pos, end)
           cut == CutOf(i, pos)
           seps == i.cfg.separators
<1>1. /\ text \in Seq(Bytes) /\ c \in Nat /\ N \in Nat
      /\ seps \in Seq(Seq(Bytes) \ {<<>>})
      /\ \A p \in 1 .. N - 3 : \E q \in p .. p + 3 : text[q] # "~"
      /\ \A k \in DOMAIN seps : \A p \in 0 .. N - Len(seps[k]) :
           Chk!Slice(text, p, p + Len(seps[k])) = seps[k] => Chk!IsCharBoundary(text, p + Len(seps[k]))
  <2>1. text \in Seq(Bytes) /\ c \in Nat /\ seps \in Seq(Seq(Bytes) \ {<<>>})
    BY Zenon DEF ChunkOK, Bytes
  <2>2. \A p \in 1 .. N - 3 : \E q \in p .. p + 3 : text[q] # "~"
    BY Zenon DEF ChunkOK
  <2>3. \A k \in DOMAIN seps : \A p \in 0 .. N - Len(seps[k]) :
          Chk!Slice(text, p, p + Len(seps[k])) = seps[k] => Chk!IsCharBoundary(text, p + Len(seps[k]))
    BY Zenon DEF ChunkOK
  <2> HIDE DEF text, c, seps
  <2> QED
    BY <2>1, <2>2, <2>3
<1>2. pos + 4 * c < N /\ pos + 4 * c \in Nat /\ Chk!IsCharBoundary(text, pos)
  BY <1>1
<1>3. /\ end \in 0 .. N /\ end <= pos + 4 * c /\ Chk!IsCharBoundary(text, end)
      /\ \A j \in end + 1 .. pos + 4 * c : j <= N => ~Chk!IsCharBoundary(text, j)
  <2> HIDE DEF text, c, N
  <2>1. end = Chk!FloorCharBoundary(text, pos + 4 * c)
    BY DEF EndOf, text, c
  <2> QED
    BY <1>1, <1>2, <2>1, FloorIs DEF N
<1>4. end >= pos
  <2>1. pos \in end + 1 .. pos + 4 * c => pos > N
    BY <1>2, <1>3
  <2> HIDE DEF end, text, N, c
  <2> QED
    BY <1>1, <1>2, <1>3, <2>1
<1>5. c # 0 => end - pos >= 4 * c - 3
  <2> SUFFICES ASSUME c # 0
               PROVE  end - pos >= 4 * c - 3
    OBVIOUS
  <2>1. pos + 4 * c - 2 \in 1 .. N - 3
    <3> HIDE DEF text, N, c
    <3> QED
      BY <1>1, <1>2
  <2>2. PICK q \in pos + 4 * c - 2 .. pos + 4 * c - 2 + 3 : text[q] # "~"
    BY <1>1, <2>1
  <2>3. q - 1 \in 0 .. N /\ (q - 1) + 1 = q /\ q - 1 <= pos + 4 * c /\ q - 1 >= pos + 4 * c - 3
    <3> HIDE DEF text, N, c
    <3> QED
      BY <1>1, <1>2, <2>1
  <2>4. Chk!IsCharBoundary(text, q - 1)
    BY <2>2, <2>3 DEF Chk!IsCharBoundary
  <2>5. ~(q - 1 \in end + 1 .. pos + 4 * c)
    BY <1>3, <2>3, <2>4
  <2> HIDE DEF end, text, N, c
  <2> QED
    BY <1>1, <1>2, <1>3, <2>3, <2>5
<1>6. u \in Seq(Bytes) /\ Len(u) = end - pos /\ pos \in 0 .. N /\ end \in pos .. N /\ Len(u) <= 4 * c
  <2>1. pos \in 0 .. N /\ end \in pos .. N
    BY <1>1, <1>2, <1>3, <1>4
  <2> HIDE DEF end
  <2>2. u \in Seq(Bytes) /\ Len(u) = end - pos
    BY <1>1, <2>1, SliceIs
  <2> QED
    BY <1>1, <1>3, <2>1, <2>2
<1>7. cut = Chk!FindSplitPoint(u, 4 * c, seps)
  BY DEF CutOf
<1> HIDE DEF u, end, cut, seps, N, text, c
<1>8. /\ cut \in 0 .. end - pos /\ Chk!IsCharBoundary(text, pos + cut)
      /\ cut = end - pos \/ cut > 3 * c
  <2>1. \/ cut = Len(u)
        \/ \E k \in DOMAIN seps : \E p \in 0 .. Len(u) - Len(seps[k]) :
             /\ Chk!Slice(u, p, p + Len(seps[k])) = seps[k]
             /\ Len(seps[k]) \in Nat \ {0}
             /\ cut = p + Len(seps[k])
             /\ Chk!FloorCharBoundary(u, 3 * c) <= p
    BY <1>1, <1>6, <1>7, SplitIs
  <2>2. CASE cut = Len(u)
    <3>1. pos + cut = end /\ cut = end - pos /\ cut \in 0 .. end - pos
      BY <1>1, <1>3, <1>6, <2>2
    <3> QED
      BY <1>3, <3>1
  <2>3. ASSUME NEW k \in DOMAIN seps, NEW p \in 0 .. Len(u) - Len(seps[k]),
               Chk!Slice(u, p, p + Len(seps[k])) = seps[k],
               Len(seps[k]) \in Nat \ {0},
               cut = p + Len(seps[k]),
               Chk!FloorCharBoundary(u, 3 * c) <= p
        PROVE  /\ cut \in 0 .. end - pos /\ Chk!IsCharBoundary(text, pos + cut)
               /\ cut = end - pos \/ cut > 3 * c
    <3> DEFINE n == Len(seps[k])
               f == Chk!FloorCharBoundary(u, 3 * c)
    <3>1. n \in Nat \ {0} /\ p \in 0 .. end - pos - n /\ cut = p + n
      BY <1>6, <2>3
    <3> HIDE DEF n
    <3>2. /\ p \in 0 .. end - pos /\ cut \in p .. end - pos /\ cut \in 0 .. end - pos
          /\ pos + p \in 0 .. N - n /\ (pos + p) + n = pos + cut
      BY <1>1, <1>3, <1>6, <3>1
    <3>3. Chk!Slice(u, p, cut) = Chk!Slice(text, pos + p, pos + cut)
      BY <1>1, <1>6, <3>2, SliceOfSlice DEF u, N
    <3>4. Chk!Slice(text, pos + p, (pos + p) + n) = seps[k]
      BY Zenon, <2>3, <3>1, <3>2, <3>3 DEF n
    <3>5. Chk!IsCharBoundary(text, pos + cut)
      BY <1>1, <3>2, <3>4 DEF n
    <3>6. Chk!IsCharBoundary(u, cut)
      BY <1>1, <1>2, <1>3, <1>6, <3>2, <3>5, SliceBoundaries DEF u, N
    <3>7. /\ f \in 0 .. end - pos
          /\ \A j \in f + 1 .. 3 * c : j <= end - pos => ~Chk!IsCharBoundary(u, j)
      <4>1. 3 * c \in Nat
        BY <1>1
      <4> QED
        BY <1>6, <4>1, FloorIs
    <3> HIDE DEF f
    <3>8. f <= p
      BY <2>3 DEF f
    <3>9. cut > 3 * c
      <4>1. ~(cut \in f + 1 .. 3 * c)
        BY <1>1, <1>3, <1>6, <3>2, <3>6, <3>7
      <4>2. cut \in Nat /\ f \in Nat /\ p \in Nat /\ cut >= f + 1
        BY <3>1, <3>2, <3>7, <3>8
      <4> QED
        BY <1>1, <4>1, <4>2
    <3> QED
      BY <3>2, <3>5, <3>9
  <2> QED
    BY <2>1, <2>2, <2>3
<1>9. ActualEnd(i, pos) = pos + cut
  <2>1. pos + cut \in Nat /\ pos + cut <= N
    BY <1>1, <1>3, <1>6, <1>8
  <2> DEFINE f == Chk!FloorCharBoundary(text, pos + cut)
  <2>2. /\ f \in 0 .. N /\ f <= pos + cut
        /\ \A j \in f + 1 .. pos + cut : j <= N => ~Chk!IsCharBoundary(text, j)
    BY <1>1, <2>1, FloorIs DEF N
  <2>3. f = ActualEnd(i, pos)
    BY DEF ActualEnd, text, cut
  <2> HIDE DEF f
  <2>4. ~(pos + cut \in f + 1 .. pos + cut)
    BY <1>8, <2>1, <2>2
  <2> QED
    BY <2>1, <2>2, <2>3, <2>4
<1>10. /\ pos + cut \in pos .. pos + 4 * c
       /\ c # 0 => pos + cut > pos /\ ((pos + cut) - pos > 3 * c \/ (pos + cut) - pos >= 4 * c - 3)
  BY <1>1, <1>3, <1>4, <1>5, <1>6, <1>8
<1> QED
  BY <1>8, <1>9, <1>10 DEF text, c

-----------------------------------------------------------------------------
(* The chunking loop. *)
States == [pos : Nat, done : BOOLEAN, chunks : Seq(Nat \X Nat)]
Target(i) == 4 * i.cfg.chunk_size
Overlap(i) == 4 * i.cfg.chunk_overlap
Minimum(i) == 4 * i.cfg.min_chunk_size

LEMMA RoundIs ==
  ASSUME NEW i, ChunkOK(i), NEW s \in States
  PROVE  LET r == Chk!Round(i.text, s, i.cfg)
             pos == Chk!CeilCharBoundary(i.text, s.pos)
             end == ActualEnd(i, pos)
         IN /\ s.done \/ s.pos >= Len(i.text) => r = [pos |-> s.pos, done |-> TRUE, chunks |-> s.chunks]
            /\ ~s.done /\ s.pos < Len(i.text) /\ Len(i.text) - pos <= Target(i) =>
                 r = [pos |-> s.pos, done |-> TRUE, chunks |-> Append(s.chunks, <<pos, Len(i.text)>>)]
            /\ ~s.done /\ s.pos < Len(i.text) /\ ~(Len(i.text) - pos <= Target(i)) =>
                 r = [pos |-> Chk!NextPos(i.text, pos, end, i.cfg), done |-> FALSE,
                      chunks |-> IF end - pos >= Minimum(i) THEN Append(s.chunks, <<pos, end>>) ELSE s.chunks]
<1> DEFINE text == i.text
           pos == Chk!CeilCharBoundary(text, s.pos)
           end == ActualEnd(i, pos)
<1>2. Chk!Round(text, s, i.cfg) =
        IF s.done \/ s.pos >= Len(text) THEN [pos |-> s.pos, done |-> TRUE, chunks |-> s.chunks]
        ELSE IF Len(text) - pos <= 4 * i.cfg.chunk_size
        THEN [pos |-> s.pos, done |-> TRUE, chunks |-> Append(s.chunks, <<pos, Len(text)>>)]
        ELSE [pos |-> Chk!NextPos(text, pos, end, i.cfg), done |-> FALSE,
              chunks |-> IF end - pos >= 4 * i.cfg.min_chunk_size THEN Append(s.chunks, <<pos, end>>) ELSE s.chunks]
  BY Zenon DEF Chk!Round, ActualEnd, CutOf, EndOf
<1>4. s.pos \in Nat /\ Len(text) \in Nat
  <2>1. text \in Seq(Bytes)
    BY Zenon DEF ChunkOK, Bytes
  <2> QED
    BY <2>1 DEF States
<1> HIDE DEF text, pos, end
<1>5. s.pos < Len(text) => ~(s.pos >= Len(text))
  BY <1>4
<1> QED
  BY Zenon, <1>2, <1>5 DEF text, pos, end, Target, Minimum

LEMMA NextIs ==
  ASSUME NEW i, ChunkOK(i), NEW pos, NEW end \in 0 .. Len(i.text), Chk!IsCharBoundary(i.text, end)
  PROVE  LET next == Chk!NextPos(i.text, pos, end, i.cfg)
         IN /\ next \in 0 .. end /\ next + Overlap(i) >= end
            /\ Chk!IsCharBoundary(i.text, next)
            /\ end <= Overlap(i) => next = 0
<1> DEFINE text == i.text
           N == Len(text)
           v == Overlap(i)
           back == Chk!Minus(end, v)
           next == Chk!CeilCharBoundary(text, back)
<1>1. text \in Seq(Bytes) /\ N \in Nat /\ v \in Nat /\ end \in 0 .. N
  <2>1. text \in Seq(Bytes) /\ i.cfg.chunk_overlap \in Nat
    BY Zenon DEF ChunkOK, Bytes
  <2> QED
    BY <2>1 DEF Overlap
<1>2. Chk!NextPos(text, pos, end, i.cfg) = IF next >= end THEN end ELSE next
  BY Zenon DEF Chk!NextPos, Overlap
<1> HIDE DEF N, v
<1>3. back \in 0 .. N /\ back + v >= end /\ back <= end /\ (end <= v => back = 0)
  BY <1>1 DEF Chk!Minus
<1> HIDE DEF back, text
<1>4. /\ next \in 0 .. N /\ Chk!IsCharBoundary(text, next) /\ back <= next
      /\ Chk!IsCharBoundary(text, back) => next = back
  <2>1. back \in Nat /\ back <= Len(text)
    BY <1>1, <1>3 DEF N
  <2> QED
    BY <1>1, <2>1, CeilIs DEF N
<1>5. back = 0 => Chk!IsCharBoundary(text, back)
  BY DEF Chk!IsCharBoundary
<1> HIDE DEF next
<1> DEFINE r == Chk!NextPos(text, pos, end, i.cfg)
<1> HIDE DEF r
<1>6. r = IF next >= end THEN end ELSE next
  BY <1>2 DEF r
<1>7. r \in 0 .. end /\ r + v >= end
  BY <1>1, <1>3, <1>4, <1>6
<1>8. Chk!IsCharBoundary(text, r)
  BY Zenon, <1>4, <1>6 DEF text
<1>9. end <= v => r = 0
  BY <1>1, <1>3, <1>4, <1>5, <1>6
<1> QED
  BY <1>7, <1>8, <1>9 DEF r, v, text

LEMMA RoundType ==
  ASSUME NEW i, ChunkOK(i), NEW s \in States
  PROVE  Chk!Round(i.text, s, i.cfg) \in States
<1> DEFINE pos == Chk!CeilCharBoundary(i.text, s.pos)
           end == ActualEnd(i, pos)
           N == Len(i.text)
<1>1. s.pos \in Nat /\ s.chunks \in Seq(Nat \X Nat) /\ i.text \in Seq(Bytes) /\ i.cfg.chunk_size \in Nat
  <2>1. s.pos \in Nat /\ s.chunks \in Seq(Nat \X Nat)
    BY DEF States
  <2> QED
    BY Zenon, <2>1 DEF ChunkOK, Bytes
<1>2. pos \in 0 .. N /\ Chk!IsCharBoundary(i.text, pos) /\ N \in Nat /\ pos \in Nat
  BY <1>1, CeilIs
<1> HIDE DEF pos
<1>3. CASE s.done \/ s.pos >= N
  <2>1. Chk!Round(i.text, s, i.cfg) = [pos |-> s.pos, done |-> TRUE, chunks |-> s.chunks]
    BY <1>3, RoundIs
  <2> QED
    BY <1>1, <2>1 DEF States
<1>4. CASE ~s.done /\ s.pos < N /\ N - pos <= Target(i)
  <2>1. <<pos, N>> \in Nat \X Nat
    BY <1>2
  <2>2. Append(s.chunks, <<pos, N>>) \in Seq(Nat \X Nat)
    BY <1>1, <2>1, AppendProperties
  <2>3. Chk!Round(i.text, s, i.cfg) = [pos |-> s.pos, done |-> TRUE, chunks |-> Append(s.chunks, <<pos, N>>)]
    BY <1>4, RoundIs DEF pos
  <2> HIDE DEF N
  <2> QED
    BY <1>1, <2>2, <2>3 DEF States
<1>5. CASE ~s.done /\ s.pos < N /\ ~(N - pos <= Target(i))
  <2>1. pos + 4 * i.cfg.chunk_size < N
    BY <1>1, <1>2, <1>5 DEF Target
  <2>2. end \in pos .. pos + 4 * i.cfg.chunk_size /\ Chk!IsCharBoundary(i.text, end)
    BY <1>2, <2>1, CutIs
  <2>3. end \in 0 .. Len(i.text)
    BY <1>1, <1>2, <2>1, <2>2
  <2> HIDE DEF end
  <2>4. Chk!NextPos(i.text, pos, end, i.cfg) \in Nat
    <3>1. Chk!NextPos(i.text, pos, end, i.cfg) \in 0 .. end
      BY <2>2, <2>3, NextIs
    <3> QED
      BY <2>3, <3>1
  <2>5. <<pos, end>> \in Nat \X Nat
    BY <1>2, <2>3
  <2>6. Append(s.chunks, <<pos, end>>) \in Seq(Nat \X Nat)
    BY <1>1, <2>5, AppendProperties
  <2>7. Chk!Round(i.text, s, i.cfg) =
          [pos |-> Chk!NextPos(i.text, pos, end, i.cfg), done |-> FALSE,
           chunks |-> IF end - pos >= Minimum(i) THEN Append(s.chunks, <<pos, end>>) ELSE s.chunks]
    BY <1>5, RoundIs DEF pos, end
  <2> QED
    BY <1>1, <2>4, <2>6, <2>7 DEF States
<1> QED
  BY <1>1, <1>2, <1>3, <1>4, <1>5

(* The states after each round. *)
LEMMA ChunkingRuns ==
  ASSUME NEW i, ChunkOK(i), Fuel \in Nat, Len(i.text) > Target(i)
  PROVE  \E after \in [0 .. Fuel -> States] :
           /\ after[0] = [pos |-> 0, done |-> FALSE, chunks |-> <<>>]
           /\ \A n \in 1 .. Fuel : after[n] = Chk!Round(i.text, after[n - 1], i.cfg)
           /\ Chk!SplitText(i.text, i.cfg) = after[Fuel]
<1> DEFINE start == [pos |-> 0, done |-> FALSE, chunks |-> <<>>]
           Solves(f) == f = [n \in 0 .. Fuel |->
                              IF n = 0 THEN [pos |-> 0, done |-> FALSE, chunks |-> <<>>]
                              ELSE Chk!Round(i.text, f[n - 1], i.cfg)]
           after == CHOOSE f : Solves(f)
           g == [n \in 1 .. Fuel |-> [s \in States |-> Chk!Round(i.text, s, i.cfg)]]
<1>1. start \in States
  BY DEF States
<1>2. g \in [1 .. Fuel -> [States -> States]]
  BY RoundType
<1> HIDE DEF start, g
<1>3. PICK f \in [0 .. Fuel -> States] : Runs(f, start, g, Fuel)
  BY <1>1, <1>2, LoopExists
<1>4. /\ f[0] = start
      /\ \A n \in 1 .. Fuel : f[n - 1] \in States /\ f[n] = Chk!Round(i.text, f[n - 1], i.cfg)
  <2>1. f[0] = start /\ \A n \in 1 .. Fuel : f[n] = g[n][f[n - 1]]
    BY <1>3 DEF Runs
  <2>2. \A n \in 1 .. Fuel : f[n - 1] \in States
    BY <1>3
  <2>3. \A n \in 1 .. Fuel : \A s \in States : g[n][s] = Chk!Round(i.text, s, i.cfg)
    BY DEF g
  <2> QED
    BY <2>1, <2>2, <2>3
<1>5. Solves(f)
  <2>1. \A n \in 0 .. Fuel :
          f[n] = IF n = 0 THEN [pos |-> 0, done |-> FALSE, chunks |-> <<>>]
                 ELSE Chk!Round(i.text, f[n - 1], i.cfg)
    <3>1. \A n \in 0 .. Fuel : n = 0 \/ n \in 1 .. Fuel
      OBVIOUS
    <3> QED
      BY Zenon, <1>4, <3>1 DEF start
  <2>2. f = [n \in 0 .. Fuel |-> f[n]]
    OBVIOUS
  <2> QED
    BY Zenon, <2>1, <2>2
<1>6. Solves(after)
  <2> HIDE DEF Solves
  <2> QED
    BY Zenon, <1>5
<1>7. \A n \in 0 .. Fuel : after[n] = f[n]
  <2> HIDE DEF after
  <2>1. /\ after[0] = start
        /\ \A n \in 1 .. Fuel : after[n] = Chk!Round(i.text, after[n - 1], i.cfg)
    <3>1. \A n \in 0 .. Fuel :
            after[n] = IF n = 0 THEN [pos |-> 0, done |-> FALSE, chunks |-> <<>>]
                       ELSE Chk!Round(i.text, after[n - 1], i.cfg)
      BY Zenon, <1>6
    <3>2. 0 \in 0 .. Fuel /\ \A n \in 1 .. Fuel : n \in 0 .. Fuel /\ n # 0
      OBVIOUS
    <3> QED
      BY Zenon, <3>1, <3>2 DEF start
  <2> DEFINE P == {n \in 0 .. Fuel : after[n] = f[n]}
  <2>2. 0 \in P
    BY <1>4, <2>1
  <2>3. ASSUME NEW n \in 1 .. Fuel, n - 1 \in P
        PROVE  n \in P
    <3>1. after[n] = Chk!Round(i.text, after[n - 1], i.cfg) /\ after[n - 1] = f[n - 1]
      BY <2>1, <2>3
    <3>2. f[n] = Chk!Round(i.text, f[n - 1], i.cfg) /\ n \in 0 .. Fuel
      BY <1>4
    <3>3. after[n] = f[n]
      BY Zenon, <3>1, <3>2
    <3> QED
      BY <3>2, <3>3
  <2>4. \A n \in 0 .. Fuel : n \in P
    <3> HIDE DEF P
    <3> QED
      BY <2>2, <2>3, EveryRound
  <2> QED
    BY <2>4
<1>8. Chk!SplitText(i.text, i.cfg) = after[Fuel]
  <2>1. ~(Len(i.text) <= 4 * i.cfg.chunk_size)
    <3>1. i.text \in Seq(Bytes) /\ i.cfg.chunk_size \in Nat
      BY Zenon DEF ChunkOK, Bytes
    <3> QED
      BY <3>1 DEF Target
  <2> QED
    BY Zenon, <2>1 DEF Chk!SplitText, after
<1>9. Chk!SplitText(i.text, i.cfg) = f[Fuel]
  <2> HIDE DEF after
  <2> QED
    BY <1>7, <1>8
<1> QED
  BY <1>4, <1>9 DEF start

(* What the chunks satisfy at any time, and where an unfinished loop is.   *)
Cuts(i, ch) ==
  /\ ch \in Seq(Nat \X Nat)
  /\ \A k \in 1 .. Len(ch) : Chk!IsCharBoundary(i.text, ch[k][1]) /\ Chk!IsCharBoundary(i.text, ch[k][2])
  /\ \A k \in 1 .. Len(ch) - 1 :
       /\ ch[k][1] < ch[k + 1][1] /\ ch[k][2] < ch[k + 1][2]
       /\ ch[k][2] - ch[k][1] \in Minimum(i) .. Target(i)
  /\ 2 * Minimum(i) <= Target(i) =>
       /\ Len(ch) # 0 => ch[1][1] = 0
       /\ \A k \in 1 .. Len(ch) - 1 : ch[k + 1][1] <= ch[k][2] /\ ch[k][2] - ch[k + 1][1] <= Overlap(i)

Reached(i, n, pos, ch) ==
  /\ pos \in n .. Len(i.text) - 1 /\ Chk!IsCharBoundary(i.text, pos)
  /\ \A k \in 1 .. Len(ch) :
       /\ ch[k][1] < pos /\ ch[k][2] <= pos + Overlap(i) /\ ch[k][2] < Len(i.text)
       /\ ch[k][2] - ch[k][1] \in Minimum(i) .. Target(i)
  /\ 2 * Minimum(i) <= Target(i) => IF Len(ch) = 0 THEN pos = 0 ELSE pos <= ch[Len(ch)][2]

Sound(i, n, s) ==
  /\ Cuts(i, s.chunks)
  /\ ~s.done => Reached(i, n, s.pos, s.chunks)
  /\ s.done => Len(s.chunks) # 0 /\ s.chunks[Len(s.chunks)][2] = Len(i.text)

LEMMA AppendIs ==
  ASSUME NEW ch \in Seq(Nat \X Nat), NEW x \in Nat \X Nat
  PROVE  /\ Append(ch, x) \in Seq(Nat \X Nat)
         /\ Len(Append(ch, x)) = Len(ch) + 1
         /\ \A k \in 1 .. Len(ch) : Append(ch, x)[k] = ch[k]
         /\ Append(ch, x)[Len(ch) + 1] = x
BY AppendProperties

LEMMA Extended ==
  ASSUME NEW i, NEW ch, Cuts(i, ch), NEW a \in Nat, NEW b \in Nat,
         Chk!IsCharBoundary(i.text, a), Chk!IsCharBoundary(i.text, b),
         \A k \in 1 .. Len(ch) :
           /\ ch[k][1] < a /\ ch[k][2] < b
           /\ ch[k][2] - ch[k][1] \in Minimum(i) .. Target(i),
         2 * Minimum(i) <= Target(i) =>
           IF Len(ch) = 0 THEN a = 0
           ELSE a <= ch[Len(ch)][2] /\ ch[Len(ch)][2] - a <= Overlap(i)
  PROVE  Cuts(i, Append(ch, <<a, b>>))
<1> DEFINE x == <<a, b>>
           new == Append(ch, x)
           n == Len(ch)
<1>1. /\ new \in Seq(Nat \X Nat) /\ Len(new) = n + 1 /\ n \in Nat
      /\ \A k \in 1 .. n : new[k] = ch[k]
      /\ new[n + 1] = x /\ x[1] = a /\ x[2] = b
  <2>1. ch \in Seq(Nat \X Nat)
    BY DEF Cuts
  <2>2. x \in Nat \X Nat /\ x[1] = a /\ x[2] = b
    OBVIOUS
  <2> HIDE DEF x
  <2> QED
    BY <2>1, <2>2, AppendIs
<1> HIDE DEF x, new, n
<1>2. \A k \in 1 .. n + 1 : k \in 1 .. n \/ k = n + 1
  BY <1>1
<1>3. \A k \in 1 .. n + 1 : Chk!IsCharBoundary(i.text, new[k][1]) /\ Chk!IsCharBoundary(i.text, new[k][2])
  BY Zenon, <1>1, <1>2 DEF Cuts, n
<1>4. ASSUME NEW k \in 1 .. n
      PROVE  /\ new[k][1] < new[k + 1][1] /\ new[k][2] < new[k + 1][2]
             /\ new[k][2] - new[k][1] \in Minimum(i) .. Target(i)
  <2>1. new[k] = ch[k]
    BY <1>1
  <2>2. CASE k = n
    <3>1. new[k + 1] = x
      BY Zenon, <1>1, <2>2
    <3> QED
      BY Zenon, <1>1, <2>1, <3>1 DEF n
  <2>3. CASE k # n
    <3>1. k \in 1 .. n - 1 /\ k + 1 \in 1 .. n
      BY <1>1, <2>3
    <3>2. new[k + 1] = ch[k + 1]
      BY <1>1, <3>1
    <3> QED
      BY Zenon, <2>1, <3>1, <3>2 DEF Cuts, n
  <2> QED
    BY <2>2, <2>3
<1>5. ASSUME 2 * Minimum(i) <= Target(i)
      PROVE  /\ new[1][1] = 0
             /\ \A k \in 1 .. n : new[k + 1][1] <= new[k][2] /\ new[k][2] - new[k + 1][1] <= Overlap(i)
  <2>1. new[1][1] = 0
    <3>1. CASE n = 0
      <4>1. n + 1 = 1
        BY <3>1
      <4> QED
        BY Zenon, <1>1, <1>5, <3>1, <4>1 DEF n
    <3>2. CASE n # 0
      <4>1. 1 \in 1 .. n
        BY <1>1, <3>2
      <4> QED
        BY Zenon, <1>1, <1>5, <3>2, <4>1 DEF Cuts, n
    <3> QED
      BY <3>1, <3>2
  <2>2. ASSUME NEW k \in 1 .. n
        PROVE  new[k + 1][1] <= new[k][2] /\ new[k][2] - new[k + 1][1] <= Overlap(i)
    <3>1. new[k] = ch[k] /\ n # 0
      BY <1>1
    <3>2. CASE k = n
      <4>1. new[k + 1] = x /\ new[k] = ch[n]
        BY Zenon, <1>1, <3>1, <3>2
      <4> QED
        BY Zenon, <1>1, <1>5, <3>1, <4>1 DEF n
    <3>3. CASE k # n
      <4>1. k \in 1 .. n - 1 /\ k + 1 \in 1 .. n
        BY <1>1, <3>3
      <4>2. new[k + 1] = ch[k + 1]
        BY <1>1, <4>1
      <4> QED
        BY Zenon, <1>5, <3>1, <4>1, <4>2 DEF Cuts, n
    <3> QED
      BY <3>2, <3>3
  <2> QED
    BY <2>1, <2>2
<1>6. (n + 1) - 1 = n
  BY <1>1
<1> QED
  BY Zenon, <1>1, <1>3, <1>4, <1>5, <1>6 DEF Cuts, new, x

(* A cut passes everything that an overlap of half the target repeats.     *)
LEMMA CutPasses ==
  ASSUME NEW c \in Nat \ {0}, NEW w \in Nat, 2 * (4 * w) <= 4 * c,
         NEW d \in Int, d > 3 * c \/ d >= 4 * c - 3
  PROVE  d > 4 * w
OBVIOUS

LEMMA BelowBoth ==
  ASSUME NEW a \in Nat, NEW b \in Nat, NEW pos \in Nat, NEW overlap \in Nat, NEW next \in Nat, NEW end \in Nat,
         a < pos, b <= pos + overlap, next > pos, end > pos + overlap
  PROVE  a < next /\ b <= next + overlap /\ b < end
OBVIOUS

LEMMA Sizes ==
  ASSUME NEW i, ChunkOK(i)
  PROVE  Target(i) \in Nat /\ Overlap(i) \in Nat /\ Minimum(i) \in Nat
<1>1. i.cfg.chunk_size \in Nat /\ i.cfg.chunk_overlap \in Nat /\ i.cfg.min_chunk_size \in Nat
  BY Zenon DEF ChunkOK, Bytes
<1> QED
  BY <1>1 DEF Target, Overlap, Minimum

LEMMA RoundKeepsSound ==
  ASSUME NEW i, ChunkOK(i), NEW n \in Nat \ {0}, NEW s \in States, Sound(i, n - 1, s),
         0 < Target(i), 2 * Overlap(i) <= Target(i)
  PROVE  Sound(i, n, Chk!Round(i.text, s, i.cfg))
<1> DEFINE r == Chk!Round(i.text, s, i.cfg)
           N == Len(i.text)
           T == Target(i)
           O == Overlap(i)
           M == Minimum(i)
           pos == s.pos
           ch == s.chunks
           end == ActualEnd(i, pos)
           next == Chk!NextPos(i.text, pos, end, i.cfg)
<1>1. /\ i.text \in Seq(Bytes) /\ N \in Nat
      /\ T \in Nat /\ O \in Nat /\ M \in Nat /\ pos \in Nat
  <2>1. /\ i.text \in Seq(Bytes)
        /\ i.cfg.chunk_size \in Nat /\ i.cfg.chunk_overlap \in Nat /\ i.cfg.min_chunk_size \in Nat
    BY Zenon DEF ChunkOK, Bytes
  <2>2. pos \in Nat
    BY DEF States
  <2>3. N \in Nat
    BY <2>1
  <2>4. T \in Nat /\ O \in Nat /\ M \in Nat
    BY Sizes
  <2> QED
    BY Zenon, <2>1, <2>2, <2>3, <2>4
<1>2. CASE s.done
  <2>1. r = [pos |-> s.pos, done |-> TRUE, chunks |-> s.chunks]
    BY <1>2, RoundIs
  <2>2. r.done /\ r.chunks = s.chunks
    BY <2>1
  <2> QED
    BY Zenon, <1>2, <2>2 DEF Sound
<1>3. CASE ~s.done
  <2>1. /\ Cuts(i, ch) /\ pos \in n - 1 .. N - 1 /\ Chk!IsCharBoundary(i.text, pos)
        /\ \A k \in 1 .. Len(ch) :
             /\ ch[k][1] < pos /\ ch[k][2] <= pos + O /\ ch[k][2] < N
             /\ ch[k][2] - ch[k][1] \in M .. T
        /\ 2 * M <= T => IF Len(ch) = 0 THEN pos = 0 ELSE pos <= ch[Len(ch)][2]
    BY Zenon, <1>3 DEF Sound, Reached
  <2>2. ch \in Seq(Nat \X Nat) /\ Len(ch) \in Nat /\ pos < N
        /\ \A k \in 1 .. Len(ch) : ch[k][1] \in Nat /\ ch[k][2] \in Nat
    <3>1. ch \in Seq(Nat \X Nat) /\ Len(ch) \in Nat
      BY DEF States
    <3>2. \A k \in 1 .. Len(ch) : ch[k] \in Nat \X Nat
      BY <3>1
    <3>3. pos < N
      <4> HIDE DEF pos, N
      <4> QED
        BY <1>1, <2>1
    <3> QED
      BY <3>1, <3>2, <3>3
  <2>3. Chk!CeilCharBoundary(i.text, s.pos) = pos
    BY <1>1, <2>1, <2>2, CeilIs
  <2>4. CASE N - pos <= T
    <3>1. r = [pos |-> pos, done |-> TRUE, chunks |-> Append(ch, <<pos, N>>)]
      BY <1>3, <2>2, <2>3, <2>4, RoundIs
    <3>2. r.done /\ r.chunks = Append(ch, <<pos, N>>)
      BY <3>1
    <3>3. Chk!IsCharBoundary(i.text, N)
      BY DEF Chk!IsCharBoundary
    <3> HIDE DEF r, N, T, O, M, ch, pos
    <3>4. ASSUME 2 * M <= T
          PROVE  IF Len(ch) = 0 THEN pos = 0
                 ELSE pos <= ch[Len(ch)][2] /\ ch[Len(ch)][2] - pos <= O
      <4>1. CASE Len(ch) = 0
        BY <2>1, <3>4, <4>1
      <4>2. CASE Len(ch) # 0
        <5>1. Len(ch) \in 1 .. Len(ch)
          BY <2>2, <4>2
        <5>2. pos <= ch[Len(ch)][2] /\ ch[Len(ch)][2] <= pos + O /\ ch[Len(ch)][2] \in Nat
          BY <2>1, <2>2, <3>4, <4>2, <5>1
        <5> QED
          BY <1>1, <4>2, <5>2
      <4> QED
        BY <4>1, <4>2
    <3>5. Cuts(i, Append(ch, <<pos, N>>))
      BY <1>1, <2>1, <3>3, <3>4, Extended DEF N, T, O, M
    <3>6. /\ Len(Append(ch, <<pos, N>>)) = Len(ch) + 1
          /\ Append(ch, <<pos, N>>)[Len(ch) + 1] = <<pos, N>>
      <4>1. <<pos, N>> \in Nat \X Nat
        BY <1>1
      <4> QED
        BY <2>2, <4>1, AppendIs
    <3>7. Len(r.chunks) # 0 /\ r.chunks[Len(r.chunks)][2] = N
      BY <2>2, <3>2, <3>6
    <3> QED
      BY Zenon, <3>2, <3>5, <3>7 DEF Sound, r, N
  <2>5. CASE ~(N - pos <= T)
    <3>1. r = [pos |-> next, done |-> FALSE,
               chunks |-> IF end - pos >= M THEN Append(ch, <<pos, end>>) ELSE ch]
      <4> HIDE DEF T, M
      <4> QED
        BY <1>3, <2>2, <2>3, <2>5, RoundIs DEF T, M
    <3>2. ~r.done /\ r.pos = next /\ r.chunks = IF end - pos >= M THEN Append(ch, <<pos, end>>) ELSE ch
      BY <3>1
    <3>3. /\ end \in pos .. pos + T /\ Chk!IsCharBoundary(i.text, end)
          /\ end < N /\ end \in Nat /\ end > pos + O
          /\ 2 * M <= T => end - pos >= M
      <4> DEFINE c == i.cfg.chunk_size
      <4>1. /\ c \in Nat \ {0} /\ T = 4 * c
            /\ i.cfg.chunk_overlap \in Nat /\ i.cfg.min_chunk_size \in Nat
            /\ O = 4 * i.cfg.chunk_overlap /\ M = 4 * i.cfg.min_chunk_size
        <5>1. c \in Nat /\ i.cfg.chunk_overlap \in Nat /\ i.cfg.min_chunk_size \in Nat
          BY Zenon DEF ChunkOK, Bytes
        <5> QED
          BY <5>1 DEF Target, Overlap, Minimum
      <4>2. pos + T < N
        <5> HIDE DEF pos, T, N
        <5> QED
          BY <1>1, <2>5
      <4>3. /\ end \in pos .. pos + T /\ Chk!IsCharBoundary(i.text, end)
            /\ end - pos > 3 * c \/ end - pos >= 4 * c - 3
        <5>1. pos + 4 * i.cfg.chunk_size < Len(i.text)
          BY <4>1, <4>2
        <5>2. /\ end \in pos .. pos + 4 * c /\ Chk!IsCharBoundary(i.text, end)
              /\ c # 0 => end > pos /\ (end - pos > 3 * c \/ end - pos >= 4 * c - 3)
          BY <1>1, <2>1, <5>1, CutIs
        <5> QED
          BY Zenon, <4>1, <5>2
      <4> HIDE DEF pos, end, T, O, M, N, c
      <4>4. end \in Nat /\ end - pos \in Int /\ end < N
        BY <1>1, <4>2, <4>3
      <4>5. end - pos > O
        <5>1. 2 * (4 * i.cfg.chunk_overlap) <= 4 * c
          BY <4>1 DEF T, O
        <5> QED
          BY <4>1, <4>3, <4>4, <5>1, CutPasses
      <4>6. 2 * M <= T => end - pos > M
        <5>1. 2 * M <= T => 2 * (4 * i.cfg.min_chunk_size) <= 4 * c
          BY <4>1
        <5> QED
          BY <4>1, <4>3, <4>4, <5>1, CutPasses
      <4> QED
        BY <1>1, <4>3, <4>4, <4>5, <4>6
    <3>4. next \in 0 .. end /\ next + O >= end /\ Chk!IsCharBoundary(i.text, next)
      <4>1. end \in 0 .. Len(i.text)
        <5> HIDE DEF end
        <5> QED
          BY <1>1, <3>3
      <4> HIDE DEF end
      <4> QED
        BY <3>3, <4>1, NextIs
    <3> HIDE DEF r, N, T, O, M, ch, pos, end, next
    <3>5. next \in n .. N - 1 /\ next > pos /\ next <= end /\ next \in Nat
      BY <1>1, <2>1, <3>3, <3>4
    <3>6. ASSUME NEW k \in 1 .. Len(ch)
          PROVE  /\ ch[k][1] < next /\ ch[k][2] <= next + O /\ ch[k][2] < N /\ ch[k][2] < end
                 /\ ch[k][2] - ch[k][1] \in M .. T
      <4>1. /\ ch[k][1] < pos /\ ch[k][2] <= pos + O /\ ch[k][2] < N
            /\ ch[k][2] - ch[k][1] \in M .. T
        BY Zenon, <2>1
      <4>2. ch[k][1] \in Nat /\ ch[k][2] \in Nat
        BY Zenon, <2>2
      <4>3. ch[k][1] < next /\ ch[k][2] <= next + O /\ ch[k][2] < end
        <5> DEFINE a == ch[k][1]
                   b == ch[k][2]
        <5>1. next \in Nat /\ end \in Nat /\ next > pos /\ end > pos + O
          BY Zenon, <3>3, <3>5
        <5>2. a \in Nat /\ b \in Nat /\ a < pos /\ b <= pos + O
          BY Zenon, <4>1, <4>2
        <5>3. pos \in Nat /\ O \in Nat
          BY Zenon, <1>1
        <5> HIDE DEF a, b
        <5>4. a < next /\ b <= next + O /\ b < end
          BY <5>1, <5>2, <5>3, BelowBoth
        <5> QED
          BY Zenon, <5>4 DEF a, b
      <4> QED
        BY Zenon, <4>1, <4>3
    <3>7. CASE end - pos >= M
      <4> DEFINE new == Append(ch, <<pos, end>>)
      <4>1. r.chunks = new
        BY <3>2, <3>7
      <4>2. /\ Len(new) = Len(ch) + 1
            /\ \A k \in 1 .. Len(ch) : new[k] = ch[k]
            /\ new[Len(ch) + 1] = <<pos, end>>
        <5>1. <<pos, end>> \in Nat \X Nat
          BY <1>1, <3>3
        <5> QED
          BY <2>2, <5>1, AppendIs
      <4>3. ASSUME 2 * M <= T
            PROVE  IF Len(ch) = 0 THEN pos = 0
                   ELSE pos <= ch[Len(ch)][2] /\ ch[Len(ch)][2] - pos <= O
        <5>1. CASE Len(ch) = 0
          BY <2>1, <4>3, <5>1
        <5>2. CASE Len(ch) # 0
          <6>1. Len(ch) \in 1 .. Len(ch)
            BY <2>2, <5>2
          <6>2. pos <= ch[Len(ch)][2] /\ ch[Len(ch)][2] <= pos + O /\ ch[Len(ch)][2] \in Nat
            BY <2>1, <2>2, <4>3, <5>2, <6>1
          <6> QED
            BY <1>1, <5>2, <6>2
        <5> QED
          BY <5>1, <5>2
      <4>4. Cuts(i, new)
        <5>1. \A k \in 1 .. Len(ch) :
                /\ ch[k][1] < pos /\ ch[k][2] < end
                /\ ch[k][2] - ch[k][1] \in M .. T
          BY <2>1, <3>6
        <5> QED
          BY <1>1, <2>1, <3>3, <4>3, <5>1, Extended DEF T, O, M
      <4> HIDE DEF new
      <4>5. ASSUME NEW k \in 1 .. Len(new)
            PROVE  /\ new[k][1] < next /\ new[k][2] <= next + O /\ new[k][2] < N
                   /\ new[k][2] - new[k][1] \in M .. T
        <5>1. CASE k \in 1 .. Len(ch)
          BY <3>6, <4>2, <5>1
        <5>2. CASE k = Len(ch) + 1
          <6>1. new[k] = <<pos, end>>
            BY <4>2, <5>2
          <6>2. new[k][1] = pos /\ new[k][2] = end
            BY <6>1
          <6>3. end - pos \in M .. T
            BY <1>1, <3>3, <3>7
          <6> QED
            BY <1>1, <3>3, <3>4, <3>5, <6>2, <6>3
        <5> QED
          BY <2>2, <4>2, <5>1, <5>2
      <4>6. Len(new) # 0 /\ next <= new[Len(new)][2]
        <5>1. new[Len(new)] = <<pos, end>> /\ Len(new) # 0
          BY <2>2, <4>2
        <5> QED
          BY <3>5, <5>1
      <4>7. Reached(i, n, next, new)
        BY Zenon, <3>4, <3>5, <4>5, <4>6 DEF Reached, N, O, M, T
      <4> QED
        BY Zenon, <3>2, <4>1, <4>4, <4>7 DEF Sound, r
    <3>8. CASE ~(end - pos >= M)
      <4>1. r.chunks = ch /\ ~(2 * M <= T)
        BY <3>2, <3>3, <3>8
      <4>2. Reached(i, n, next, ch)
        BY Zenon, <3>4, <3>5, <3>6, <4>1 DEF Reached, N, O, M, T
      <4> QED
        BY Zenon, <2>1, <3>2, <4>1, <4>2 DEF Sound, r
    <3> QED
      BY <3>7, <3>8
  <2> QED
    BY <2>4, <2>5
<1> QED
  BY <1>2, <1>3

(* Every round moves on, so the loop is done before it runs out of rounds. *)
LEMMA ChunkingEnds ==
  ASSUME NEW i, ChunkOK(i), Fuel \in Nat, Len(i.text) > Target(i),
         0 < Target(i), 2 * Overlap(i) <= Target(i)
  PROVE  LET out == Chk!SplitText(i.text, i.cfg)
         IN out.done /\ Sound(i, Fuel, out)
<1>1. PICK after \in [0 .. Fuel -> States] :
        /\ after[0] = [pos |-> 0, done |-> FALSE, chunks |-> <<>>]
        /\ \A n \in 1 .. Fuel : after[n] = Chk!Round(i.text, after[n - 1], i.cfg)
        /\ Chk!SplitText(i.text, i.cfg) = after[Fuel]
  BY ChunkingRuns
<1>2. Len(i.text) \in Nat /\ Len(i.text) < Fuel /\ Target(i) \in Nat /\ Overlap(i) \in Nat
  <2>1. i.text \in Seq(Bytes) /\ Len(i.text) < Fuel
    BY Zenon DEF ChunkOK, Bytes
  <2> QED
    BY <2>1, Sizes
<1> DEFINE P == {n \in 0 .. Fuel : Sound(i, n, after[n])}
<1>3. 0 \in P
  <2> DEFINE none == <<>>
  <2>1. after[0].pos = 0 /\ ~after[0].done /\ after[0].chunks = none
    BY <1>1
  <2>2. none \in Seq(Nat \X Nat) /\ Len(none) = 0
    OBVIOUS
  <2> HIDE DEF none
  <2>3. \A k : k \notin 1 .. Len(none) /\ k \notin 1 .. Len(none) - 1
    BY <2>2
  <2>4. Cuts(i, none)
    BY Zenon, <2>2, <2>3 DEF Cuts
  <2>5. 0 \in 0 .. Len(i.text) - 1
    BY <1>2
  <2>6. Chk!IsCharBoundary(i.text, 0)
    BY DEF Chk!IsCharBoundary
  <2>7. Reached(i, 0, 0, none)
    BY Zenon, <2>2, <2>3, <2>5, <2>6 DEF Reached
  <2>8. Sound(i, 0, after[0])
    BY Zenon, <2>1, <2>4, <2>7 DEF Sound
  <2> QED
    BY <2>8
<1>4. ASSUME NEW n \in 1 .. Fuel, n - 1 \in P
      PROVE  n \in P
  <2>1. n \in Nat \ {0} /\ n \in 0 .. Fuel /\ after[n - 1] \in States /\ Sound(i, n - 1, after[n - 1])
    BY <1>1, <1>4
  <2>2. Sound(i, n, Chk!Round(i.text, after[n - 1], i.cfg))
    BY <2>1, RoundKeepsSound
  <2>3. Sound(i, n, after[n])
    BY Zenon, <1>1, <2>2
  <2> QED
    BY <2>1, <2>3
<1>5. \A n \in 0 .. Fuel : n \in P
  <2> HIDE DEF P
  <2> QED
    BY <1>3, <1>4, EveryRound
<1>6. Sound(i, Fuel, after[Fuel])
  BY <1>5
<1>7. after[Fuel].done
  <2>1. ~after[Fuel].done => after[Fuel].pos \in Fuel .. Len(i.text) - 1
    BY Zenon, <1>6 DEF Sound, Reached
  <2>2. \A x \in Fuel .. Len(i.text) - 1 : FALSE
    BY <1>2
  <2> QED
    BY Zenon, <2>1, <2>2
<1> QED
  BY Zenon, <1>1, <1>6, <1>7

(* An overlap of the target or more brings every round back to the start.  *)
LEMMA ChunkingGoesOn ==
  ASSUME NEW i, ChunkOK(i), Fuel \in Nat, Len(i.text) > Target(i), Overlap(i) >= Target(i)
  PROVE  ~Chk!SplitText(i.text, i.cfg).done
<1>1. PICK after \in [0 .. Fuel -> States] :
        /\ after[0] = [pos |-> 0, done |-> FALSE, chunks |-> <<>>]
        /\ \A n \in 1 .. Fuel : after[n] = Chk!Round(i.text, after[n - 1], i.cfg)
        /\ Chk!SplitText(i.text, i.cfg) = after[Fuel]
  BY ChunkingRuns
<1>2. /\ i.text \in Seq(Bytes) /\ Len(i.text) \in Nat
      /\ Target(i) \in Nat /\ Overlap(i) \in Nat
  <2>1. i.text \in Seq(Bytes)
    BY Zenon DEF ChunkOK, Bytes
  <2> QED
    BY <2>1, Sizes
<1>3. Chk!IsCharBoundary(i.text, 0)
  BY DEF Chk!IsCharBoundary
<1>4. Chk!CeilCharBoundary(i.text, 0) = 0
  BY <1>2, <1>3, CeilIs
<1> DEFINE end == ActualEnd(i, 0)
           P == {n \in 0 .. Fuel : after[n].pos = 0 /\ ~after[n].done}
<1>5. Chk!NextPos(i.text, 0, end, i.cfg) = 0
  <2>1. 0 + 4 * i.cfg.chunk_size < Len(i.text) /\ Target(i) = 4 * i.cfg.chunk_size
    <3>1. i.cfg.chunk_size \in Nat
      BY Zenon DEF ChunkOK
    <3> QED
      BY <1>2, <3>1 DEF Target
  <2>2. end \in 0 .. 0 + 4 * i.cfg.chunk_size /\ Chk!IsCharBoundary(i.text, end)
    BY <1>3, <2>1, CutIs
  <2> HIDE DEF end
  <2>3. end \in 0 .. Len(i.text) /\ end <= Overlap(i)
    BY <1>2, <2>1, <2>2
  <2> QED
    BY <2>2, <2>3, NextIs
<1> HIDE DEF end
<1>6. 0 \in P
  BY <1>1
<1>7. ASSUME NEW n \in 1 .. Fuel, n - 1 \in P
      PROVE  n \in P
  <2> DEFINE s == after[n - 1]
  <2>1. n \in 0 .. Fuel /\ s \in States /\ s.pos = 0 /\ ~s.done
    BY <1>1, <1>7
  <2> HIDE DEF s
  <2>2. s.pos < Len(i.text) /\ ~(Len(i.text) - 0 <= Target(i))
    BY <1>2, <2>1
  <2> DEFINE kept == IF end - 0 >= Minimum(i) THEN Append(s.chunks, <<0, end>>) ELSE s.chunks
  <2>3. Chk!Round(i.text, s, i.cfg) =
          [pos |-> Chk!NextPos(i.text, 0, end, i.cfg), done |-> FALSE, chunks |-> kept]
    BY <1>4, <2>1, <2>2, RoundIs DEF end
  <2>4. after[n] = [pos |-> 0, done |-> FALSE, chunks |-> kept]
    BY Zenon, <1>1, <1>5, <2>3 DEF s
  <2> HIDE DEF kept
  <2>5. after[n].pos = 0 /\ ~after[n].done
    BY <2>4
  <2> QED
    BY <2>1, <2>5
<1>8. \A n \in 0 .. Fuel : n \in P
  <2> HIDE DEF P
  <2> QED
    BY <1>6, <1>7, EveryRound
<1>9. ~after[Fuel].done
  BY <1>8
<1> QED
  BY Zenon, <1>1, <1>9

(* What ChunksCoverText says of the chunks of a text. *)
ChunksAreRight(i, out) ==
  LET text == i.text  cfg == i.cfg
      target == 4 * cfg.chunk_size  overlap == 4 * cfg.chunk_overlap  min == 4 * cfg.min_chunk_size
      blank == \A k \in DOMAIN text : text[k] = "_"
      chunks == out.chunks
  IN /\ blank => out.done /\ chunks = <<>>
     /\ ~blank /\ overlap >= target => (out.done <=> Len(text) <= target)
     /\ ~blank /\ 0 < target /\ 2 * overlap <= target =>
          /\ out.done
          /\ \A k \in DOMAIN chunks : \A e \in 1 .. 2 : Chk!IsCharBoundary(text, chunks[k][e])
          /\ chunks[Len(chunks)][2] = Len(text)
          /\ \A k \in 1 .. Len(chunks) - 1 :
               /\ chunks[k][1] < chunks[k + 1][1] /\ chunks[k][2] < chunks[k + 1][2]
               /\ chunks[k][2] - chunks[k][1] \in min .. target
          /\ 2 * min <= target =>
               /\ chunks[1][1] = 0
               /\ \A k \in 1 .. Len(chunks) - 1 : chunks[k + 1][1] <= chunks[k][2]
                                                  /\ chunks[k][2] - chunks[k + 1][1] <= overlap

LEMMA TextIsChunked ==
  ASSUME NEW i, ChunkOK(i), Fuel \in Nat
  PROVE  ChunksAreRight(i, Chk!Chunk(i.text, i.cfg))
<1> DEFINE out == Chk!Chunk(i.text, i.cfg)
           ch == out.chunks
           N == Len(i.text)
           blank == \A k \in DOMAIN i.text : i.text[k] = "_"
<1>1. N \in Nat /\ Target(i) \in Nat /\ Overlap(i) \in Nat /\ Minimum(i) \in Nat
  <2>1. i.text \in Seq(Bytes)
    BY Zenon DEF ChunkOK, Bytes
  <2> QED
    BY <2>1, Sizes
<1>2. out = IF blank THEN [pos |-> 0, done |-> TRUE, chunks |-> <<>>]
            ELSE Chk!SplitText(i.text, i.cfg)
  BY Zenon DEF Chk!Chunk
<1>3. N <= Target(i) => Chk!SplitText(i.text, i.cfg) = [pos |-> 0, done |-> TRUE, chunks |-> <<<<0, N>>>>]
  BY Zenon DEF Chk!SplitText, Target
<1> HIDE DEF out, N, blank
<1>4. blank => out.done /\ ch = <<>>
  BY <1>2
<1>5. ASSUME ~blank, Overlap(i) >= Target(i)
      PROVE  out.done <=> N <= Target(i)
  <2>1. CASE N <= Target(i)
    BY <1>2, <1>3, <1>5, <2>1
  <2>2. CASE ~(N <= Target(i))
    <3>1. Len(i.text) > Target(i)
      BY <1>1, <2>2 DEF N
    <3>2. ~Chk!SplitText(i.text, i.cfg).done
      BY <1>5, <3>1, InputsAssumption, ChunkingGoesOn
    <3> QED
      BY Zenon, <1>2, <1>5, <2>2, <3>2
  <2> QED
    BY <2>1, <2>2
<1>6. ASSUME ~blank, 0 < Target(i), 2 * Overlap(i) <= Target(i)
      PROVE  out.done /\ Cuts(i, ch) /\ Len(ch) # 0 /\ ch[Len(ch)][2] = N
  <2>1. CASE N <= Target(i)
    <3> DEFINE x == <<0, N>>
    <3>1. out = [pos |-> 0, done |-> TRUE, chunks |-> <<x>>]
      BY Zenon, <1>2, <1>3, <1>6, <2>1
    <3>2. x \in Nat \X Nat /\ x[1] = 0 /\ x[2] = N
      BY <1>1
    <3> HIDE DEF x
    <3>3. out.done /\ ch = <<x>>
      BY <3>1
    <3>4. ch \in Seq(Nat \X Nat) /\ Len(ch) = 1 /\ ch[1] = x
      BY <3>2, <3>3
    <3> HIDE DEF ch
    <3>5. /\ \A k \in 1 .. Len(ch) : k = 1
          /\ \A k : k \notin 1 .. Len(ch) - 1
      BY <3>4
    <3>6. Chk!IsCharBoundary(i.text, 0) /\ Chk!IsCharBoundary(i.text, N)
      BY DEF Chk!IsCharBoundary, N
    <3>7. Cuts(i, ch)
      BY Zenon, <3>2, <3>4, <3>5, <3>6 DEF Cuts
    <3>8. Len(ch) # 0 /\ ch[Len(ch)][2] = N
      BY <3>2, <3>4
    <3> QED
      BY Zenon, <3>3, <3>7, <3>8
  <2>2. CASE ~(N <= Target(i))
    <3>1. Len(i.text) > Target(i)
      BY <1>1, <2>2 DEF N
    <3>2. /\ Chk!SplitText(i.text, i.cfg).done
          /\ Sound(i, Fuel, Chk!SplitText(i.text, i.cfg))
      BY <1>6, <3>1, ChunkingEnds
    <3>3. out.done /\ Sound(i, Fuel, out)
      BY Zenon, <1>2, <1>6, <3>2
    <3> QED
      BY Zenon, <3>3 DEF Sound, N
  <2> QED
    BY <2>1, <2>2
<1>7. ASSUME Cuts(i, ch), Len(ch) # 0
      PROVE  /\ \A k \in DOMAIN ch : \A e \in 1 .. 2 : Chk!IsCharBoundary(i.text, ch[k][e])
             /\ 2 * Minimum(i) <= Target(i) => ch[1][1] = 0
  <2>1. ch \in Seq(Nat \X Nat)
    BY Zenon, <1>7 DEF Cuts
  <2>2. DOMAIN ch = 1 .. Len(ch)
    BY <2>1
  <2>3. \A e \in 1 .. 2 : e = 1 \/ e = 2
    OBVIOUS
  <2> QED
    BY Zenon, <1>7, <2>2, <2>3 DEF Cuts
<1> QED
  BY Zenon, <1>4, <1>5, <1>6, <1>7 DEF ChunksAreRight, Cuts, Target, Overlap, Minimum, out, N, blank

(* The chunker ends on every text and configuration with an overlap of at   *)
(* most half the target, and its chunks are cut between characters, of the *)
(* sizes and overlaps asked for; it never ends when the overlap reaches the *)
(* target and the text does not fit one chunk.                             *)
THEOREM ChunksCoverTextHolds == Spec => []ChunksCoverText
<1>1. Evaluated => ChunksCoverText
  <2> SUFFICES ASSUME Evaluated, output.fn = "chunk"
               PROVE  ChunksCoverText
    BY DEF ChunksCoverText
  <2>1. input \in Inputs /\ input.fn = "chunk" /\ output.value = Result(input)
    BY DEF Evaluated, None
  <2>2. ChunkOK(input) /\ Fuel \in Nat
    BY <2>1, InputsAssumption
  <2>3. Result(input) = Chk!Chunk(input.text, input.cfg)
    BY <2>1 DEF Result
  <2>4. ChunksAreRight(input, output.value)
    <3>1. ChunksAreRight(input, Chk!Chunk(input.text, input.cfg))
      BY <2>2, TextIsChunked
    <3> QED
      BY Zenon, <2>1, <2>3, <3>1
  <2> QED
    BY Zenon, <2>4 DEF ChunksAreRight, ChunksCoverText
<1> QED
  BY <1>1, EvaluatedHolds, PTL

-----------------------------------------------------------------------------
(* Keys and evidence.  What a fragment fixes. *)
LEMMA Cancel ==
  ASSUME NEW S, NEW a \in Seq(S), NEW b \in Seq(S), NEW c \in Seq(S), a \o b = a \o c
  PROVE  b = c
<1> DEFINE x == a \o b
           y == a \o c
<1>1. Len(x) = Len(a) + Len(b) /\ Len(y) = Len(a) + Len(c) /\ x = y
  OBVIOUS
<1>2. Len(a) \in Nat /\ Len(b) \in Nat /\ Len(b) = Len(c)
  BY <1>1
<1>3. \A k \in 1 .. Len(b) : x[Len(a) + k] = b[k]
  OBVIOUS
<1>4. \A k \in 1 .. Len(c) : y[Len(a) + k] = c[k]
  OBVIOUS
<1> HIDE DEF x, y
<1>5. \A k \in 1 .. Len(b) : b[k] = c[k]
  BY <1>1, <1>2, <1>3, <1>4
<1> QED
  BY <1>2, <1>5

LEMMA Spelled ==
  ASSUME NEW s, NEW n \in Nat, s = [i \in 1 .. n |-> s[i]]
  PROVE  s \in Seq(ToSet(s))
BY DEF ToSet

LEMMA Joined ==
  ASSUME NEW S, NEW T, NEW s \in Seq(S), NEW t \in Seq(T)
  PROVE  s \o t \in Seq(S \cup T)
OBVIOUS

LEMMA Tuples ==
  ASSUME NEW S, NEW x \in S, NEW y \in S
  PROVE  <<x>> \in Seq(S) /\ <<x, y>> \in Seq(S)
OBVIOUS

LEMMA Concatenated ==
  ASSUME NEW S, NEW a \in Seq(S), NEW b \in Seq(S)
  PROVE  /\ a \o b \in Seq(S) /\ Len(a \o b) = Len(a) + Len(b) /\ Len(a) \in Nat /\ Len(b) \in Nat
         /\ \A k \in 1 .. Len(a) : (a \o b)[k] = a[k]
<1>1. a \o b \in Seq(S) /\ Len(a \o b) = Len(a) + Len(b) /\ Len(a) \in Nat /\ Len(b) \in Nat
  OBVIOUS
<1>2. \A k \in 1 .. Len(a) : (a \o b)[k] = a[k]
  OBVIOUS
<1> QED
  BY <1>1, <1>2

LEMMA SameElements ==
  ASSUME NEW S, NEW a \in Seq(S), NEW b \in Seq(S), Len(a) = Len(b),
         \A k \in 1 .. Len(a) : a[k] = b[k]
  PROVE  a = b
OBVIOUS

LEMMA EqualLengths ==
  ASSUME NEW S, NEW a \in Seq(S), NEW b \in Seq(S), NEW c \in Seq(S), NEW d \in Seq(S),
         Len(a) = Len(b), a \o c = b \o d
  PROVE  a = b /\ c = d
<1> DEFINE x == a \o c
           y == b \o d
           n == Len(a)
<1>1. n \in Nat /\ \A k \in 1 .. n : x[k] = a[k] /\ y[k] = b[k]
  <2>1. n \in Nat /\ \A k \in 1 .. n : x[k] = a[k]
    BY Concatenated
  <2>2. \A k \in 1 .. Len(b) : y[k] = b[k]
    BY Concatenated
  <2> QED
    BY Zenon, <2>1, <2>2
<1>2. x = y
  OBVIOUS
<1>3. a = b
  <2> HIDE DEF x, y, n
  <2>1. \A k \in 1 .. n : a[k] = b[k]
    BY <1>1, <1>2
  <2>2. Len(a) \in Nat /\ \A k \in 1 .. Len(a) : a[k] = b[k]
    BY Zenon, <1>1, <2>1 DEF n
  <2> QED
    BY Zenon, <2>2, SameElements
<1>4. c = d
  <2>1. a \o c = a \o d => c = d
    BY Cancel
  <2> QED
    BY Zenon, <1>3, <2>1
<1> QED
  BY <1>3, <1>4

LEMMA FragmentFixes ==
  ASSUME NEW policy, NEW C, NEW children \in Seq(C), NEW L, NEW labels \in Seq(L), NEW p, NEW q
  PROVE  LET lines == Keys!PolicyLines(policy, children)
         IN lines \o Keys!Lines(labels, p) = lines \o Keys!Lines(labels, q) <=>
              \A l \in ToSet(labels) : p[l] = q[l]
<1> DEFINE lines == Keys!PolicyLines(policy, children)
           P == Keys!Lines(labels, p)
           Q == Keys!Lines(labels, q)
           head == <<<<"version", policy.version>>, <<"kdf", "hkdf-sha256">>>>
           infos == [i \in DOMAIN children |-> <<"kdf-info", children[i], policy.info[children[i]]>>]
           last == <<<<"kdf-salt", policy.salt>>>>
           S == {head[1], head[2], last[1]} \cup {infos[i] : i \in DOMAIN children}
                  \cup {P[i] : i \in DOMAIN labels} \cup {Q[i] : i \in DOMAIN labels}
<1>1. P = [i \in DOMAIN labels |-> <<labels[i], p[labels[i]]>>]
      /\ Q = [i \in DOMAIN labels |-> <<labels[i], q[labels[i]]>>]
  BY Zenon DEF Keys!Lines
<1>2. lines = head \o infos \o last
  BY Zenon DEF Keys!PolicyLines
<1>3. infos \in Seq(S) /\ P \in Seq(S) /\ Q \in Seq(S)
  <2>1. /\ \A i \in DOMAIN children : infos[i] \in S
        /\ \A i \in DOMAIN labels : P[i] \in S /\ Q[i] \in S
    BY Zenon
  <2>2. DOMAIN children = 1 .. Len(children) /\ DOMAIN labels = 1 .. Len(labels)
        /\ Len(children) \in Nat /\ Len(labels) \in Nat
    OBVIOUS
  <2>3. infos = [i \in 1 .. Len(children) |-> infos[i]]
        /\ P = [i \in 1 .. Len(labels) |-> P[i]] /\ Q = [i \in 1 .. Len(labels) |-> Q[i]]
    BY Zenon, <1>1, <2>2
  <2> HIDE DEF infos, P, Q, S
  <2> QED
    BY <2>1, <2>2, <2>3
<1>4. head \in Seq(S) /\ last \in Seq(S)
  <2> DEFINE h1 == head[1]
             h2 == head[2]
             l1 == last[1]
  <2>1. h1 \in S /\ h2 \in S /\ l1 \in S
    BY Zenon
  <2>2. head = <<h1, h2>> /\ last = <<l1>>
    OBVIOUS
  <2> HIDE DEF h1, h2, l1, S, head, last
  <2>3. <<h1, h2>> \in Seq(S) /\ <<l1>> \in Seq(S)
    BY <2>1, Tuples
  <2> QED
    BY Zenon, <2>2, <2>3
<1> HIDE DEF head, infos, last, S
<1>5. lines \in Seq(S)
  <2>1. head \o infos \in Seq(S)
    BY <1>3, <1>4
  <2> QED
    BY <1>2, <1>4, <2>1
<1> HIDE DEF lines, P, Q
<1>6. lines \o P = lines \o Q <=> P = Q
  BY <1>3, <1>5, Cancel
<1>7. ASSUME P = Q, NEW l \in ToSet(labels)
      PROVE  p[l] = q[l]
  <2>1. PICK i \in DOMAIN labels : l = labels[i]
    BY DEF ToSet
  <2>2. <<labels[i], p[labels[i]]>> = <<labels[i], q[labels[i]]>>
    BY <1>1, <1>7
  <2> QED
    BY <2>1, <2>2
<1>8. ASSUME \A l \in ToSet(labels) : p[l] = q[l]
      PROVE  P = Q
  <2>1. \A i \in DOMAIN labels : <<labels[i], p[labels[i]]>> = <<labels[i], q[labels[i]]>>
    BY Zenon, <1>8 DEF ToSet
  <2> QED
    BY <1>1, <2>1
<1> QED
  BY <1>6, <1>7, <1>8 DEF lines, P, Q

AllLabels ==
  (ToSet(Keys!SchemeParams) \cup ToSet(Keys!CompassParams)) \cup ToSet(Keys!XorMmParams) \cup ToSet(Keys!LightRagParams)

LEMMA Labels ==
  /\ Keys!SchemeParams \in Seq(ToSet(Keys!SchemeParams)) /\ Keys!SchemeParamsV2 \in Seq(AllLabels)
  /\ ToSet(Keys!SchemeParams) = {"caprise-scale-bits", "caprise-beta-bits"}
<1>1. Keys!SchemeParams \in Seq(ToSet(Keys!SchemeParams))
  <2>1. Keys!SchemeParams = [i \in 1 .. 2 |-> Keys!SchemeParams[i]]
    BY DEF Keys!SchemeParams
  <2> QED
    BY <2>1, Spelled
<1>2. Keys!CompassParams \in Seq(ToSet(Keys!CompassParams))
  <2>1. Keys!CompassParams = [i \in 1 .. 16 |-> Keys!CompassParams[i]]
    BY DEF Keys!CompassParams
  <2> QED
    BY <2>1, Spelled
<1>3. Keys!XorMmParams \in Seq(ToSet(Keys!XorMmParams))
  <2>1. Keys!XorMmParams = [i \in 1 .. 2 |-> Keys!XorMmParams[i]]
    BY DEF Keys!XorMmParams
  <2> QED
    BY <2>1, Spelled
<1>4. Keys!LightRagParams \in Seq(ToSet(Keys!LightRagParams))
  <2>1. Keys!LightRagParams = [i \in 1 .. 6 |-> Keys!LightRagParams[i]]
    BY DEF Keys!LightRagParams
  <2> QED
    BY <2>1, Spelled
<1>5. Keys!SchemeParamsV2 \in Seq(AllLabels)
  <2>1. Keys!SchemeParams \o Keys!CompassParams \in Seq(ToSet(Keys!SchemeParams) \cup ToSet(Keys!CompassParams))
    BY <1>1, <1>2, Joined
  <2>2. Keys!SchemeParams \o Keys!CompassParams \o Keys!XorMmParams
          \in Seq((ToSet(Keys!SchemeParams) \cup ToSet(Keys!CompassParams)) \cup ToSet(Keys!XorMmParams))
    BY <1>3, <2>1, Joined
  <2>3. Keys!SchemeParams \o Keys!CompassParams \o Keys!XorMmParams \o Keys!LightRagParams \in Seq(AllLabels)
    BY <1>4, <2>2, Joined DEF AllLabels
  <2> QED
    BY Zenon, <2>3 DEF Keys!SchemeParamsV2
<1>6. DOMAIN Keys!SchemeParams = {1, 2} /\ Keys!SchemeParams[1] = "caprise-scale-bits"
      /\ Keys!SchemeParams[2] = "caprise-beta-bits"
  BY DEF Keys!SchemeParams
<1> QED
  BY <1>1, <1>5, <1>6 DEF ToSet

LEMMA DigestsFix ==
  ASSUME NEW p, NEW q
  PROVE  /\ Keys!DigestV1(p) = Keys!DigestV1(q) <=>
              \A l \in {"caprise-scale-bits", "caprise-beta-bits"} : p[l] = q[l]
         /\ Keys!DigestV2(p) = Keys!DigestV2(q) <=>
              \A l \in ToSet(Keys!SchemeParamsV2) : p[l] = q[l]
<1> DEFINE two == <<"caprise", "aes">>
           eight == <<"caprise", "aes", "oram_entities", "oram_relations", "oram_chunks",
                      "emm_adjacency", "emm_src_chunks", "search_pattern">>
<1>1. two \in Seq(ToSet(two)) /\ eight \in Seq(ToSet(eight))
  <2>1. two = [i \in 1 .. 2 |-> two[i]] /\ eight = [i \in 1 .. 8 |-> eight[i]]
    OBVIOUS
  <2> HIDE DEF two, eight
  <2> QED
    BY <2>1, Spelled
<1>2. /\ Keys!FragmentV1(p) = Keys!PolicyLines(Keys!HkdfPolicyV1, two) \o Keys!Lines(Keys!SchemeParams, p)
      /\ Keys!FragmentV1(q) = Keys!PolicyLines(Keys!HkdfPolicyV1, two) \o Keys!Lines(Keys!SchemeParams, q)
  BY Zenon DEF Keys!FragmentV1
<1>3. /\ Keys!FragmentV2(p) = Keys!PolicyLines(Keys!HkdfPolicyV2, eight) \o Keys!Lines(Keys!SchemeParamsV2, p)
      /\ Keys!FragmentV2(q) = Keys!PolicyLines(Keys!HkdfPolicyV2, eight) \o Keys!Lines(Keys!SchemeParamsV2, q)
  BY Zenon DEF Keys!FragmentV2
<1> HIDE DEF two, eight
<1>4. Keys!FragmentV1(p) = Keys!FragmentV1(q) <=> \A l \in ToSet(Keys!SchemeParams) : p[l] = q[l]
  <2> DEFINE lines == Keys!PolicyLines(Keys!HkdfPolicyV1, two)
  <2>1. lines \o Keys!Lines(Keys!SchemeParams, p) = lines \o Keys!Lines(Keys!SchemeParams, q) <=> \A l \in ToSet(Keys!SchemeParams) : p[l] = q[l]
    <3>1. Keys!SchemeParams \in Seq(ToSet(Keys!SchemeParams))
      BY Zenon, Labels
    <3> QED
      BY <1>1, <3>1, FragmentFixes
  <2> QED
    BY Zenon, <1>2, <2>1
<1>5. Keys!FragmentV2(p) = Keys!FragmentV2(q) <=> \A l \in ToSet(Keys!SchemeParamsV2) : p[l] = q[l]
  <2> DEFINE lines == Keys!PolicyLines(Keys!HkdfPolicyV2, eight)
  <2>1. lines \o Keys!Lines(Keys!SchemeParamsV2, p) = lines \o Keys!Lines(Keys!SchemeParamsV2, q) <=> \A l \in ToSet(Keys!SchemeParamsV2) : p[l] = q[l]
    <3>1. Keys!SchemeParamsV2 \in Seq(AllLabels)
      BY Zenon, Labels
    <3> QED
      BY <1>1, <3>1, FragmentFixes
  <2> QED
    BY Zenon, <1>3, <2>1
<1>6. /\ Keys!DigestV1(p) = Keys!DigestV1(q) <=> Keys!FragmentV1(p) = Keys!FragmentV1(q)
      /\ Keys!DigestV2(p) = Keys!DigestV2(q) <=> Keys!FragmentV2(p) = Keys!FragmentV2(q)
  BY DEF Keys!DigestV1, Keys!DigestV2
<1> QED
  BY Zenon, <1>4, <1>5, <1>6, Labels

(* What a key is for: its policy and child. *)
Purposes == ({"v1"} \X DOMAIN Keys!HkdfPolicyV1.info) \cup ({"v2"} \X DOMAIN Keys!HkdfPolicyV2.info)
InfoOf(k) == IF k[1] = "v1" THEN Keys!HkdfPolicyV1.info[k[2]] ELSE Keys!HkdfPolicyV2.info[k[2]]
PrkOf(x) == <<"extract", x.tenant, <<x.user, x.tee>>>>

LEMMA InfosDiffer ==
  ASSUME NEW k \in Purposes, NEW l \in Purposes, InfoOf(k) = InfoOf(l)
  PROVE  k = l
<1> DEFINE v1 == Keys!HkdfPolicyV1.info
           v2 == Keys!HkdfPolicyV2.info
<1>1. /\ DOMAIN v1 = {"caprise", "aes"}
      /\ v1["caprise"] = "v1.caprise.seed" /\ v1["aes"] = "v1.aes-chunks"
  BY DEF Keys!HkdfPolicyV1
<1>2. /\ DOMAIN v2 = {"caprise", "aes", "oram_entities", "oram_relations", "oram_chunks",
                      "emm_adjacency", "emm_src_chunks", "search_pattern"}
      /\ v2["caprise"] = "v2.caprise.seed" /\ v2["aes"] = "v2.aes-chunks" /\ v2["oram_entities"] = "v2.oram-entities"
      /\ v2["oram_relations"] = "v2.oram-relations" /\ v2["oram_chunks"] = "v2.oram-chunks"
      /\ v2["emm_adjacency"] = "v2.emm-adjacency" /\ v2["emm_src_chunks"] = "v2.emm-src-chunks"
      /\ v2["search_pattern"] = "v2.search-pattern"
  BY DEF Keys!HkdfPolicyV2
<1> HIDE DEF v1, v2
<1>3. /\ \A c, d \in DOMAIN v1 : v1[c] = v1[d] => c = d
      /\ \A c, d \in DOMAIN v2 : v2[c] = v2[d] => c = d
      /\ \A c \in DOMAIN v1 : \A d \in DOMAIN v2 : v1[c] # v2[d]
  BY <1>1, <1>2
<1>4. /\ k = <<k[1], k[2]>> /\ l = <<l[1], l[2]>>
      /\ \/ k[1] = "v1" /\ k[2] \in DOMAIN v1
         \/ k[1] = "v2" /\ k[2] \in DOMAIN v2
      /\ \/ l[1] = "v1" /\ l[2] \in DOMAIN v1
         \/ l[1] = "v2" /\ l[2] \in DOMAIN v2
  BY DEF Purposes, v1, v2
<1>5. k[1] = l[1] /\ k[2] = l[2]
  BY <1>3, <1>4 DEF InfoOf, v1, v2
<1> QED
  BY Zenon, <1>4, <1>5

LEMMA KeysOfIs ==
  ASSUME NEW x
  PROVE  KeysOf(x) = [k \in Purposes |-> <<"expand", PrkOf(x), InfoOf(k)>>]
<1> DEFINE v1 == Keys!Derive(Keys!HkdfPolicyV1, x.user, x.tee, x.tenant)
           v2 == Keys!DeriveV2(x.user, x.tee, x.tenant)
           i1 == Keys!HkdfPolicyV1.info
           i2 == Keys!HkdfPolicyV2.info
<1>1. v1 = [c \in DOMAIN i1 |-> <<"expand", PrkOf(x), i1[c]>>]
  BY Zenon DEF Keys!Derive, Keys!HkdfExpand, Keys!HkdfExtract, PrkOf
<1>2. v2 = [c \in DOMAIN i2 |-> <<"expand", PrkOf(x), i2[c]>>]
  BY Zenon DEF Keys!DeriveV2, Keys!Derive, Keys!HkdfExpand, Keys!HkdfExtract, PrkOf
<1>3. KeysOf(x) = [k \in ({"v1"} \X DOMAIN v1) \cup ({"v2"} \X DOMAIN v2) |-> IF k[1] = "v1" THEN v1[k[2]] ELSE v2[k[2]]]
  BY Zenon DEF KeysOf
<1> HIDE DEF v1, v2, i1, i2
<1>4. DOMAIN v1 = DOMAIN i1 /\ DOMAIN v2 = DOMAIN i2
  BY <1>1, <1>2
<1>5. KeysOf(x) = [k \in Purposes |-> IF k[1] = "v1" THEN v1[k[2]] ELSE v2[k[2]]]
  BY Zenon, <1>3, <1>4 DEF Purposes, i1, i2
<1>6. ASSUME NEW k \in Purposes
      PROVE  (IF k[1] = "v1" THEN v1[k[2]] ELSE v2[k[2]]) = <<"expand", PrkOf(x), InfoOf(k)>>
  <2>1. \/ k[1] = "v1" /\ k[2] \in DOMAIN i1
        \/ k[1] = "v2" /\ k[2] \in DOMAIN i2
    BY DEF Purposes, i1, i2
  <2>2. CASE k[1] = "v1" /\ k[2] \in DOMAIN i1
    <3>1. v1[k[2]] = <<"expand", PrkOf(x), i1[k[2]]>>
      BY Zenon, <1>1, <2>2
    <3> QED
      BY Zenon, <2>2, <3>1 DEF InfoOf, i1
  <2>3. CASE k[1] = "v2" /\ k[2] \in DOMAIN i2
    <3>1. v2[k[2]] = <<"expand", PrkOf(x), i2[k[2]]>> /\ k[1] # "v1"
      BY <1>2, <2>3
    <3> QED
      BY Zenon, <3>1 DEF InfoOf, i2
  <2> QED
    BY <2>1, <2>2, <2>3
<1> QED
  BY Zenon, <1>5, <1>6

(* What EvidencePinsWhatRuns says of keys. *)
KeysAreRight(i, keys) ==
  LET a == i.a  b == i.b
      pinned == {"caprise-scale-bits", "caprise-beta-bits"}
      samePrk == a.user = b.user /\ a.tee = b.tee /\ a.tenant = b.tenant
  IN /\ keys.same_v2 <=> a.params = b.params
     /\ keys.same_v1 <=> \A l \in pinned : a.params[l] = b.params[l]
     /\ \A k, l \in DOMAIN keys.a : keys.a[k] = keys.b[l] <=> k = l /\ samePrk

LEMMA KeysPinTheirInputs ==
  ASSUME NEW i, KeysOK(i)
  PROVE  KeysAreRight(i, KeysResult(i))
<1> DEFINE a == i.a
           b == i.b
           keys == KeysResult(i)
           labels == ToSet(Keys!SchemeParamsV2)
<1>1. /\ keys.same_v1 = (Keys!DigestV1(a.params) = Keys!DigestV1(b.params))
      /\ keys.same_v2 = (Keys!DigestV2(a.params) = Keys!DigestV2(b.params))
      /\ keys.a = KeysOf(a) /\ keys.b = KeysOf(b)
  BY DEF KeysResult
<1>2. a.params = [l \in labels |-> a.params[l]] /\ b.params = [l \in labels |-> b.params[l]]
  BY Zenon DEF KeysOK
<1> HIDE DEF keys, labels
<1>3. keys.same_v2 <=> a.params = b.params
  <2>1. (\A l \in labels : a.params[l] = b.params[l]) => a.params = b.params
    BY <1>2
  <2>2. Keys!DigestV2(a.params) = Keys!DigestV2(b.params) <=> \A l \in labels : a.params[l] = b.params[l]
    BY Zenon, DigestsFix DEF labels
  <2> QED
    BY <1>1, <2>1, <2>2
<1>4. keys.same_v1 <=> \A l \in {"caprise-scale-bits", "caprise-beta-bits"} : a.params[l] = b.params[l]
  BY Zenon, <1>1, DigestsFix
<1>5. DOMAIN keys.a = Purposes
  <2>1. KeysOf(a) = [k \in Purposes |-> <<"expand", PrkOf(a), InfoOf(k)>>]
    BY KeysOfIs
  <2> QED
    BY <1>1, <2>1
<1>6. ASSUME NEW k \in Purposes, NEW l \in Purposes
      PROVE  keys.a[k] = keys.b[l] <=> k = l /\ a.user = b.user /\ a.tee = b.tee /\ a.tenant = b.tenant
  <2>1. keys.a[k] = <<"expand", PrkOf(a), InfoOf(k)>> /\ keys.b[l] = <<"expand", PrkOf(b), InfoOf(l)>>
    <3>1. /\ KeysOf(a) = [m \in Purposes |-> <<"expand", PrkOf(a), InfoOf(m)>>]
          /\ KeysOf(b) = [m \in Purposes |-> <<"expand", PrkOf(b), InfoOf(m)>>]
      BY KeysOfIs
    <3> QED
      BY <1>1, <3>1
  <2>2. keys.a[k] = keys.b[l] <=> PrkOf(a) = PrkOf(b) /\ InfoOf(k) = InfoOf(l)
    BY <2>1
  <2>3. PrkOf(a) = PrkOf(b) <=> a.user = b.user /\ a.tee = b.tee /\ a.tenant = b.tenant
    BY DEF PrkOf
  <2>4. InfoOf(k) = InfoOf(l) <=> k = l
    BY InfosDiffer
  <2> QED
    BY Zenon, <2>2, <2>3, <2>4
<1> QED
  BY Zenon, <1>3, <1>4, <1>5, <1>6 DEF KeysAreRight, keys

-----------------------------------------------------------------------------
(* What a report binds. *)
LEMMA ComposeFixes ==
  ASSUME NEW a \in Seq(Symbols), NEW b \in Seq(Symbols), NEW d, NEW e
  PROVE  Att!ComposeSchemeIdentity(a, <<d>>) = Att!ComposeSchemeIdentity(b, <<e>>) <=> a = b /\ d = e
<1> DEFINE S == Symbols \cup {<<0>>, d, e}
           zero == <<<<0>>>>
           u == <<d>>
           v == <<e>>
           p == a \o zero
           q == b \o zero
<1>1. a \in Seq(S) /\ b \in Seq(S)
  OBVIOUS
<1>2. zero \in Seq(S) /\ u \in Seq(S) /\ v \in Seq(S) /\ Len(zero) = 1 /\ Len(u) = 1 /\ Len(v) = 1
  <2>1. <<0>> \in S /\ d \in S /\ e \in S
    BY Zenon
  <2> HIDE DEF S
  <2> QED
    BY <2>1, Tuples
<1>3. Att!ComposeSchemeIdentity(a, <<d>>) = Att!ComposeSchemeIdentity(b, <<e>>) <=> p \o u = q \o v
  BY DEF Att!ComposeSchemeIdentity, Att!Sha256
<1>6. u = v => d = e
  OBVIOUS
<1> HIDE DEF S, zero, u, v
<1>4. p \in Seq(S) /\ q \in Seq(S) /\ Len(p) = Len(a) + 1 /\ Len(q) = Len(b) + 1
  <2>1. p \in Seq(S) /\ Len(p) = Len(a) + Len(zero)
    BY <1>1, <1>2, Concatenated
  <2>2. q \in Seq(S) /\ Len(q) = Len(b) + Len(zero)
    BY <1>1, <1>2, Concatenated
  <2> QED
    BY Zenon, <1>2, <2>1, <2>2
<1>5. ASSUME p \o u = q \o v
      PROVE  a = b /\ d = e
  <2> HIDE DEF p, q
  <2>1. Len(p \o u) = Len(p) + 1 /\ Len(q \o v) = Len(q) + 1 /\ Len(p) \in Nat /\ Len(q) \in Nat
    <3>1. Len(p \o u) = Len(p) + Len(u) /\ Len(p) \in Nat
      BY <1>2, <1>4, Concatenated
    <3>2. Len(q \o v) = Len(q) + Len(v) /\ Len(q) \in Nat
      BY <1>2, <1>4, Concatenated
    <3> QED
      BY Zenon, <1>2, <3>1, <3>2
  <2>2. Len(p) = Len(q)
    BY <1>5, <2>1
  <2>3. p = q /\ u = v
    <3>1. p \in Seq(S) /\ q \in Seq(S) /\ u \in Seq(S) /\ v \in Seq(S)
      BY Zenon, <1>2, <1>4
    <3>2. p \o u = q \o v => p = q /\ u = v
      BY <2>2, <3>1, EqualLengths
    <3> QED
      BY Zenon, <1>5, <3>2
  <2>4. Len(a) = Len(b)
    <3>1. Len(a) \in Nat /\ Len(b) \in Nat
      OBVIOUS
    <3> QED
      BY <1>4, <2>2, <3>1
  <2>5. a \o zero = b \o zero
    BY Zenon, <2>3 DEF p, q
  <2>6. a = b
    BY Zenon, <1>1, <1>2, <2>4, <2>5, EqualLengths
  <2> QED
    BY <1>6, <2>3, <2>6
<1> QED
  BY Zenon, <1>3, <1>5

LEMMA BindingFixes ==
  ASSUME NEW m, NEW k, NEW a \in Seq(Symbols), NEW b \in Seq(Symbols), NEW d, NEW e,
         NEW n, NEW o, Att!BytesOf(n) \in Seq(Symbols), Att!BytesOf(o) \in Seq(Symbols)
  PROVE  Att!Build(m, Att!ComposeSchemeIdentity(a, <<d>>), n) = Att!Build(k, Att!ComposeSchemeIdentity(b, <<e>>), o) <=>
           m = k /\ a = b /\ d = e /\ Att!BytesOf(n) = Att!BytesOf(o)
<1> DEFINE s == <<"sha256", a \o <<<<0>>>> \o <<d>>>>
           t == <<"sha256", b \o <<<<0>>>> \o <<e>>>>
           x == Att!BytesOf(n)
           y == Att!BytesOf(o)
           S == Symbols \cup {s, t}
<1>1. Att!ComposeSchemeIdentity(a, <<d>>) = <<s>> /\ Att!ComposeSchemeIdentity(b, <<e>>) = <<t>>
  BY DEF Att!ComposeSchemeIdentity, Att!Sha256
<1> HIDE DEF s, t
<1>2. Att!Build(m, <<s>>, n) = Att!Build(k, <<t>>, o) <=> m = k /\ <<s>> \o x = <<t>> \o y
  BY DEF Att!Build, Att!Sha256
<1>3. <<s>> = <<t>> <=> a = b /\ d = e
  <2>1. Att!ComposeSchemeIdentity(a, <<d>>) = Att!ComposeSchemeIdentity(b, <<e>>) <=> a = b /\ d = e
    BY ComposeFixes
  <2> QED
    BY <1>1, <2>1
<1>4. <<s>> \in Seq(S) /\ <<t>> \in Seq(S) /\ Len(<<s>>) = Len(<<t>>)
  <2>1. s \in S /\ t \in S
    BY Zenon
  <2> HIDE DEF S
  <2> QED
    BY <2>1, Tuples
<1>5. x \in Seq(S) /\ y \in Seq(S)
  OBVIOUS
<1> HIDE DEF S, x, y
<1>6. <<s>> \o x = <<t>> \o y <=> <<s>> = <<t>> /\ x = y
  <2> DEFINE u == <<s>>
             v == <<t>>
  <2> HIDE DEF u, v
  <2>1. u \in Seq(S) /\ v \in Seq(S) /\ Len(u) = Len(v)
    BY Zenon, <1>4 DEF u, v
  <2>2. u \o x = v \o y <=> u = v /\ x = y
    <3>1. u \o x = v \o y => u = v /\ x = y
      BY <1>5, <2>1, EqualLengths
    <3> QED
      BY Zenon, <3>1
  <2> QED
    BY Zenon, <2>2 DEF u, v
<1> QED
  BY Zenon, <1>1, <1>2, <1>3, <1>6 DEF x, y

-----------------------------------------------------------------------------
(* What a runner that comes up holds. *)
IsMock(i) == i.env.snp_mode = {"mock"}

ComesUp(i) ==
  LET env == i.env
  IN /\ ConfigOf(i.file).parses
     /\ \/ IsMock(i) /\ "mock" \in env.features
        \/ env.snp_mode = {"production"} /\ env.device /\ "snp" \in env.features

StateOf(i) ==
  LET cfg == ConfigOf(i.file)
  IN [issuer |-> [hardware |-> ~IsMock(i)], model |-> cfg.model,
      scheme |-> Att!ComposeSchemeIdentity(cfg.scheme, i.env.service_digest),
      extraction |-> cfg.decoder # {} /\ cfg.embedder # {}]

LEMMA LoadIs ==
  ASSUME NEW file, ConfigOf(file).parses \in BOOLEAN
  PROVE  /\ Att!LoadConfig(file).ok <=> ConfigOf(file).parses
         /\ Att!LoadConfig(file).ok => Att!LoadConfig(file).value = ConfigOf(file)
<1>1. CASE file = {}
  BY <1>1 DEF Att!LoadConfig, ConfigOf, Att!Ok, Att!DefaultConfig
<1>2. CASE file # {}
  <2> DEFINE cfg == CHOOSE c \in file : TRUE
  <2>1. /\ ConfigOf(file) = cfg
        /\ Att!LoadConfig(file) = IF cfg.parses THEN Att!Ok(cfg) ELSE Att!Err("parsing config")
    BY Zenon, <1>2 DEF Att!LoadConfig, ConfigOf
  <2> HIDE DEF cfg
  <2>2. Att!Ok(cfg).ok /\ Att!Ok(cfg).value = cfg /\ ~Att!Err("parsing config").ok
    BY DEF Att!Ok, Att!Err
  <2> QED
    BY Zenon, <2>1, <2>2
<1> QED
  BY Zenon, <1>1, <1>2

LEMMA ModeIs ==
  ASSUME NEW env
  PROVE  /\ env.snp_mode = {"mock"} => Att!ModeFromEnv(env) = Att!Ok("mock")
         /\ env.snp_mode = {"production"} /\ env.device => Att!ModeFromEnv(env) = Att!Ok("production")
         /\ env.snp_mode # {"mock"} /\ ~(env.snp_mode = {"production"} /\ env.device) =>
              ~Att!ModeFromEnv(env).ok
<1>1. {"mock"} # {} /\ {"production"} # {} /\ {"mock"} # {"production"}
  OBVIOUS
<1>2. ~Att!Err("unset").ok /\ ~Att!Err("missing device").ok /\ ~Att!Err("unrecognised").ok
  BY DEF Att!Err
<1>3. CASE env.snp_mode = {"mock"}
  BY <1>1, <1>3 DEF Att!ModeFromEnv
<1>4. CASE env.snp_mode = {"production"}
  <2>1. Att!ModeFromEnv(env) = IF env.device THEN Att!Ok("production") ELSE Att!Err("missing device")
    <3>1. {"production"} # {} /\ env.snp_mode = {"production"}
      BY Zenon, <1>1, <1>4
    <3> QED
      BY Zenon, <3>1 DEF Att!ModeFromEnv
  <2> QED
    BY Zenon, <1>1, <1>2, <1>4, <2>1
<1>5. CASE env.snp_mode = {}
  <2>1. Att!ModeFromEnv(env) = Att!Err("unset")
    BY Zenon, <1>5 DEF Att!ModeFromEnv
  <2> QED
    BY Zenon, <1>1, <1>2, <1>5, <2>1
<1>6. CASE env.snp_mode # {} /\ env.snp_mode # {"mock"} /\ env.snp_mode # {"production"}
  <2>1. Att!ModeFromEnv(env) = Att!Err("unrecognised")
    BY <1>6 DEF Att!ModeFromEnv
  <2> QED
    BY Zenon, <1>2, <1>6, <2>1
<1> QED
  BY Zenon, <1>3, <1>4, <1>5, <1>6

LEMMA IssuerIs ==
  ASSUME NEW env
  PROVE  /\ Att!ForMode("mock", env).ok <=> "mock" \in env.features
         /\ Att!ForMode("mock", env).ok => Att!ForMode("mock", env).value = [hardware |-> FALSE]
         /\ env.device => (Att!ForMode("production", env).ok <=> "snp" \in env.features)
         /\ env.device /\ Att!ForMode("production", env).ok =>
              Att!ForMode("production", env).value = [hardware |-> TRUE]
<1>1. Att!ForMode("mock", env) = IF "mock" \notin env.features THEN Att!Err("built without mock")
                                 ELSE Att!Ok([hardware |-> FALSE])
  BY DEF Att!ForMode
<1>2. env.device => Att!ForMode("production", env) = IF "snp" \notin env.features THEN Att!Err("built without snp")
                                                     ELSE Att!Ok([hardware |-> TRUE])
  BY Zenon DEF Att!ForMode, Att!HardwareNew
<1> DEFINE mock == [hardware |-> FALSE]
           snp == [hardware |-> TRUE]
<1>3. /\ ~Att!Err("built without mock").ok /\ ~Att!Err("built without snp").ok
      /\ Att!Ok(mock).ok /\ Att!Ok(snp).ok /\ Att!Ok(mock).value = mock /\ Att!Ok(snp).value = snp
  <2> HIDE DEF mock, snp
  <2> QED
    BY DEF Att!Ok, Att!Err
<1> HIDE DEF mock, snp
<1> QED
  BY Zenon, <1>1, <1>2, <1>3 DEF mock, snp

LEMMA RunIs ==
  ASSUME NEW i, AttestOK(i)
  PROVE  LET state == Att!Run(i.env, i.file)
         IN /\ state.ok \in BOOLEAN
            /\ state.ok <=> ComesUp(i)
            /\ state.ok => state.value = StateOf(i)
<1> DEFINE env == i.env
           cfg == ConfigOf(i.file)
           mode == Att!ModeFromEnv(env)
           load == Att!LoadConfig(i.file)
           issuer == Att!ForMode(mode.value, env)
           state == Att!Run(env, i.file)
           value == [issuer |-> issuer.value, model |-> load.value.model,
                     scheme |-> Att!ComposeSchemeIdentity(load.value.scheme, env.service_digest),
                     extraction |-> load.value.decoder # {} /\ load.value.embedder # {}]
<1>1. state = IF ~mode.ok THEN mode ELSE IF ~load.ok THEN load ELSE IF ~issuer.ok THEN issuer ELSE Att!Ok(value)
  BY Zenon DEF Att!Run
<1>2. (load.ok <=> cfg.parses) /\ (load.ok => load.value = cfg)
  BY LoadIs DEF AttestOK
<1>3. Att!Ok(value).ok /\ Att!Ok(value).value = value
  BY DEF Att!Ok
<1>4. IsMock(i) => mode.ok /\ mode.value = "mock"
  BY ModeIs DEF IsMock, Att!Ok
<1>5. env.snp_mode = {"production"} /\ env.device => mode.ok /\ mode.value = "production"
  BY ModeIs DEF Att!Ok
<1>6. ~IsMock(i) /\ ~(env.snp_mode = {"production"} /\ env.device) => ~mode.ok
  BY Zenon, ModeIs DEF IsMock
<1>7. IsMock(i) => env.snp_mode # {"production"}
  BY DEF IsMock
<1>8. IsMock(i) => (issuer.ok <=> "mock" \in env.features)
                  /\ (issuer.ok => issuer.value = [hardware |-> ~IsMock(i)])
  <2>1. [hardware |-> FALSE] = [hardware |-> ~IsMock(i)] \/ ~IsMock(i)
    OBVIOUS
  <2> QED
    BY Zenon, <1>4, <2>1, IssuerIs
<1>9. env.snp_mode = {"production"} /\ env.device =>
        (issuer.ok <=> "snp" \in env.features) /\ (issuer.ok => issuer.value = [hardware |-> ~IsMock(i)])
  <2>1. [hardware |-> TRUE] = [hardware |-> ~IsMock(i)] \/ IsMock(i)
    OBVIOUS
  <2> QED
    BY Zenon, <1>5, <1>7, <2>1, IssuerIs
<1> HIDE DEF mode, load, issuer, state, cfg
<1>10. load.ok /\ issuer.ok /\ issuer.value = [hardware |-> ~IsMock(i)] => value = StateOf(i)
  BY Zenon, <1>2 DEF StateOf, cfg
<1> HIDE DEF value
<1>11. state.ok <=> ComesUp(i)
  <2>1. state.ok <=> mode.ok /\ load.ok /\ issuer.ok
    BY <1>1, <1>3
  <2>2. mode.ok <=> IsMock(i) \/ (env.snp_mode = {"production"} /\ env.device)
    BY Zenon, <1>4, <1>5, <1>6
  <2> QED
    BY Zenon, <1>2, <1>7, <1>8, <1>9, <2>1, <2>2 DEF ComesUp, cfg
<1>12. state.ok => state.value = StateOf(i)
  <2>1. ASSUME state.ok
        PROVE  mode.ok /\ load.ok /\ issuer.ok /\ state.value = value
    BY <1>1, <1>3, <2>1
  <2>2. mode.ok => IsMock(i) \/ (env.snp_mode = {"production"} /\ env.device)
    BY Zenon, <1>6
  <2> QED
    BY Zenon, <1>8, <1>9, <1>10, <2>1, <2>2
<1>13. state.ok \in BOOLEAN
  <2>1. mode.ok \in BOOLEAN
    BY DEF mode, Att!ModeFromEnv, Att!Ok, Att!Err
  <2>2. load.ok \in BOOLEAN
    BY DEF load, Att!LoadConfig, Att!Ok, Att!Err
  <2>3. mode.ok => issuer.ok \in BOOLEAN
    BY DEF issuer, Att!ForMode, Att!HardwareNew, Att!Ok, Att!Err
  <2> QED
    BY <1>1, <1>3, <2>1, <2>2, <2>3
<1> QED
  BY Zenon, <1>11, <1>12, <1>13 DEF state

LEMMA StateIs ==
  ASSUME NEW i
  PROVE  /\ StateOf(i).issuer.hardware <=> ~IsMock(i)
         /\ StateOf(i).model = ConfigOf(i.file).model
         /\ StateOf(i).scheme = Att!ComposeSchemeIdentity(ConfigOf(i.file).scheme, i.env.service_digest)
         /\ StateOf(i).extraction <=> ConfigOf(i.file).decoder # {} /\ ConfigOf(i.file).embedder # {}
BY DEF StateOf

LEMMA Answers == \A x : ~Att!Err(x).ok /\ Att!Ok(x).ok /\ Att!Ok(x).value = x
BY DEF Att!Ok, Att!Err

-----------------------------------------------------------------------------
(* What an issuer issues. *)
HasVcek(env) == ~env.poisoned /\ env.ioctl /\ \E k \in DOMAIN env.certs : env.certs[k].type = "VCEK"

Body(data, measurement, policy) == [data |-> data, measurement |-> measurement, policy |-> policy]

LEMMA HardwareIs ==
  ASSUME NEW env, NEW data, NEW T, env.certs \in Seq(T)
  PROVE  LET issue == Att!HardwareIssue(env, data)
         IN /\ issue.ok <=> HasVcek(env)
            /\ issue.ok => \E k \in DOMAIN env.certs :
                 issue.value = [report |-> Att!Report(Body(data, 7, 3), "chip"), vcek_cert |-> env.certs[k].cert]
<1> DEFINE vceks == {k \in DOMAIN env.certs : env.certs[k].type = "VCEK"}
           first == CHOOSE k \in vceks : \A l \in vceks : k <= l
           value == [report |-> Att!Report(Body(data, 7, 3), "chip"), vcek_cert |-> env.certs[first].cert]
           issue == Att!HardwareIssue(env, data)
<1>1. issue = IF env.poisoned THEN Att!Err("mutex poisoned")
              ELSE IF ~env.ioctl THEN Att!Err("SNP_GET_EXT_REPORT failed")
              ELSE IF env.certs = <<>> THEN Att!Err("no cert table")
              ELSE IF vceks = {} THEN Att!Err("no VCEK entry")
              ELSE Att!Ok(value)
  BY Zenon DEF Att!HardwareIssue, Body
<1>2. vceks # {} <=> \E k \in DOMAIN env.certs : env.certs[k].type = "VCEK"
  BY Zenon
<1>3. env.certs = <<>> => vceks = {}
  <2>1. env.certs = <<>> => DOMAIN env.certs = {}
    BY DOMAIN <<>> = {}
  <2> QED
    BY Zenon, <2>1
<1>4. vceks # {} => first \in DOMAIN env.certs
  <2>1. vceks \in SUBSET Nat /\ vceks \subseteq DOMAIN env.certs
    <3>1. DOMAIN env.certs = 1 .. Len(env.certs) /\ Len(env.certs) \in Nat
      OBVIOUS
    <3> QED
      BY <3>1
  <2> HIDE DEF vceks
  <2>2. vceks # {} => \E x \in vceks : \A y \in vceks : ~(y < x)
    BY <2>1, LeastNat
  <2>3. vceks # {} => \E x \in vceks : \A y \in vceks : x <= y
    BY <2>1, <2>2
  <2>4. vceks # {} => first \in vceks
    BY Zenon, <2>3
  <2> QED
    BY Zenon, <2>1, <2>4
<1> HIDE DEF vceks, first, value, issue
<1>5. issue.ok <=> HasVcek(env)
  BY Zenon, <1>1, <1>2, <1>3, Answers DEF HasVcek
<1>6. issue.ok => vceks # {} /\ issue.value = value
  BY Zenon, <1>1, Answers
<1> QED
  BY Zenon, <1>4, <1>5, <1>6 DEF issue, value

LEMMA IssueIs ==
  ASSUME NEW i, AttestOK(i), NEW data
  PROVE  LET issue == Att!IssueBy(StateOf(i).issuer, i.env, data)
         IN /\ issue.ok <=> IsMock(i) \/ HasVcek(i.env)
            /\ IsMock(i) => issue.value = [report |-> Att!Report(Body(data, 0, 0), "vcek"), vcek_cert |-> Att!Vcek]
            /\ ~IsMock(i) /\ issue.ok => \E k \in DOMAIN i.env.certs :
                 issue.value = [report |-> Att!Report(Body(data, 7, 3), "chip"), vcek_cert |-> i.env.certs[k].cert]
<1> DEFINE issue == Att!IssueBy(StateOf(i).issuer, i.env, data)
           value == [report |-> Att!Report(Body(data, 0, 0), "vcek"), vcek_cert |-> Att!Vcek]
<1>1. i.env.certs \in Seq(ToSet(i.env.certs))
  BY Zenon DEF AttestOK
<1>2. CASE IsMock(i)
  <2>1. issue = Att!Ok(value)
    BY Zenon, <1>2, StateIs DEF Att!IssueBy, Att!MockIssue, Body
  <2> HIDE DEF value, issue
  <2>2. issue.ok /\ issue.value = value
    BY Zenon, <2>1, Answers
  <2> QED
    BY Zenon, <1>2, <2>2 DEF issue, value
<1>3. CASE ~IsMock(i)
  <2>1. issue = Att!HardwareIssue(i.env, data)
    BY Zenon, <1>3, StateIs DEF Att!IssueBy
  <2> DEFINE from == Att!HardwareIssue(i.env, data)
  <2>2. /\ from.ok <=> HasVcek(i.env)
        /\ from.ok => \E k \in DOMAIN i.env.certs :
             from.value = [report |-> Att!Report(Body(data, 7, 3), "chip"), vcek_cert |-> i.env.certs[k].cert]
    BY Zenon, <1>1, HardwareIs
  <2> HIDE DEF from, issue
  <2> QED
    BY Zenon, <1>3, <2>1, <2>2 DEF from, issue
<1> QED
  BY Zenon, <1>2, <1>3

Attesting(i) == IF IsMock(i) \/ HasVcek(i.env) THEN 200 ELSE 500
Extracting(i) == IF ConfigOf(i.file).decoder = {} \/ ConfigOf(i.file).embedder = {} THEN 503 ELSE 200

LEMMA AttestRouteIs ==
  ASSUME NEW i, AttestOK(i)
  PROVE  Att!AttestRoute(StateOf(i), i.env).status = Attesting(i) /\ Att!ExtractStatus(StateOf(i)) = Extracting(i)
<1> DEFINE state == StateOf(i)
           issued == Att!IssueBy(state.issuer, i.env, Att!Build(state.model, state.scheme, {}))
           evidence == Att!BuildEvidence(state, i.env)
           answer == [model_identity |-> Att!FromUtf8Lossy(state.model), scheme_identity |-> Att!FromUtf8Lossy(state.scheme),
                      report |-> {issued.value.report}, vcek_cert |-> {issued.value.vcek_cert}]
<1>1. evidence = IF ~issued.ok THEN issued ELSE Att!Ok(answer)
  BY Zenon DEF Att!BuildEvidence
<1>2. issued.ok <=> IsMock(i) \/ HasVcek(i.env)
  BY IssueIs
<1>3. Att!AttestRoute(state, i.env).status = IF evidence.ok THEN 200 ELSE 500
  BY DEF Att!AttestRoute
<1> HIDE DEF issued, evidence, answer
<1>4. evidence.ok <=> IsMock(i) \/ HasVcek(i.env)
  BY Zenon, <1>1, <1>2, Answers
<1>5. Att!ExtractStatus(state) =
        (IF ConfigOf(i.file).decoder = {} \/ ConfigOf(i.file).embedder = {} THEN 503 ELSE 200)
  <2>1. Att!ExtractStatus(state) = IF state.extraction THEN 200 ELSE 503
    BY Zenon DEF Att!ExtractStatus
  <2>2. state.extraction <=> ConfigOf(i.file).decoder # {} /\ ConfigOf(i.file).embedder # {}
    BY Zenon, StateIs
  <2> HIDE DEF state
  <2> QED
    BY Zenon, <2>1, <2>2
<1> QED
  BY Zenon, <1>3, <1>4, <1>5 DEF Attesting, Extracting

-----------------------------------------------------------------------------
(* What a relying party accepts. *)
Accepts(v, report, cert, expected) ==
  /\ report.parses
  /\ "mock" \in v.features /\ v.use_mock_chain
  /\ Att!VerifyMockChain(v.ark, v.ask, cert) /\ v.now \in Att!ValidityWindow(cert)
  /\ Att!VerifyReportSignature(report, cert)
  /\ report.data = expected
  /\ v.measurement \in {{}, {report.measurement}}
  /\ v.policy \in {{}, {report.policy}}
  /\ v.model_id \in {{}, {report.data.model}}

LEMMA VerifyIs ==
  ASSUME NEW v, NEW report, NEW cert, NEW binding
  PROVE  Att!Verify(v, report, cert, binding).ok <=>
           Accepts(v, report, cert, Att!Build(binding.model, binding.scheme, binding.nonce))
<1> DEFINE chain == Att!ValidateChainAndWindow(v, cert)
           expected == Att!Build(binding.model, binding.scheme, binding.nonce)
           verdict == Att!Verify(v, report, cert, binding)
<1>1. chain.ok <=> /\ "mock" \in v.features /\ v.use_mock_chain
                   /\ Att!VerifyMockChain(v.ark, v.ask, cert) /\ v.now \in Att!ValidityWindow(cert)
  BY Zenon, Answers DEF Att!ValidateChainAndWindow
<1>2. verdict =
        IF ~report.parses THEN Att!Err("parse")
        ELSE IF ~chain.ok THEN chain
        ELSE IF ~Att!VerifyReportSignature(report, cert) THEN Att!Err("signature")
        ELSE IF report.data # expected THEN Att!Err("report data")
        ELSE IF v.measurement \notin {{}, {report.measurement}} THEN Att!Err("measurement")
        ELSE IF v.policy \notin {{}, {report.policy}} THEN Att!Err("policy")
        ELSE IF v.model_id \notin {{}, {report.data.model}} THEN Att!Err("model id")
        ELSE Att!Ok(report)
  BY Zenon DEF Att!Verify
<1> HIDE DEF chain, expected, verdict
<1>3. verdict.ok <=>
        /\ report.parses /\ chain.ok /\ Att!VerifyReportSignature(report, cert) /\ report.data = expected
        /\ v.measurement \in {{}, {report.measurement}} /\ v.policy \in {{}, {report.policy}}
        /\ v.model_id \in {{}, {report.data.model}}
  BY Zenon, <1>2, Answers
<1> QED
  BY Zenon, <1>1, <1>3 DEF Accepts, expected, verdict

(* The authority a relying party pins is the mock one. *)
PinsAuthority(v) ==
  /\ v.ask.key = "ask"
  /\ \A c \in {v.ark, v.ask} : /\ c.pem /\ c.alg = "ecdsa-with-SHA384"
                               /\ c.sig = Att!Sign(v.ark.key, Att!CertBody(c))

LEMMA SignaturesDiffer ==
  ASSUME NEW k, NEW l, NEW x, NEW y
  PROVE  Att!Sign(k, x) = Att!Sign(l, y) => k = l /\ x = y
BY DEF Att!Sign

LEMMA ChainIs ==
  ASSUME NEW v, NEW issuer
  PROVE  LET cert == Att!Certificate("vcek", issuer, 2, 5)
         IN /\ cert.key = "vcek" /\ Att!ValidityWindow(cert) = 2 .. 5
            /\ Att!VerifyMockChain(v.ark, v.ask, cert) <=>
                 /\ v.ask.key = issuer
                 /\ \A c \in {v.ark, v.ask} : /\ c.pem /\ c.alg = "ecdsa-with-SHA384"
                                              /\ c.sig = Att!Sign(v.ark.key, Att!CertBody(c))
<1> DEFINE cert == Att!Certificate("vcek", issuer, 2, 5)
           body == [key |-> "vcek", not_before |-> 2, not_after |-> 5]
<1>1. /\ cert.key = "vcek" /\ cert.not_before = 2 /\ cert.not_after = 5 /\ cert.pem
      /\ cert.alg = "ecdsa-with-SHA384" /\ cert.sig = Att!Sign(issuer, body)
  BY DEF Att!Certificate
<1> HIDE DEF cert, body
<1>2. Att!CertBody(cert) = body
  BY Zenon, <1>1 DEF Att!CertBody, body
<1>3. Att!ValidityWindow(cert) = 2 .. 5
  BY Zenon, <1>1 DEF Att!ValidityWindow
<1>4. Att!VerifySignedBy(v.ask, cert) <=> v.ask.key = issuer
  <2>1. Att!Sign(issuer, body) = Att!Sign(v.ask.key, body) => v.ask.key = issuer
    BY DEF Att!Sign
  <2> QED
    BY Zenon, <1>1, <1>2, <2>1 DEF Att!VerifySignedBy
<1>5. Att!VerifyMockChain(v.ark, v.ask, cert) <=>
        /\ v.ask.key = issuer
        /\ \A c \in {v.ark, v.ask} : /\ c.pem /\ c.alg = "ecdsa-with-SHA384"
                                     /\ c.sig = Att!Sign(v.ark.key, Att!CertBody(c))
  BY Zenon, <1>1, <1>4 DEF Att!VerifyMockChain, Att!VerifySignedBy
<1> QED
  BY Zenon, <1>1, <1>3, <1>5 DEF cert

LEMMA OtherIdentity ==
  ASSUME NEW m, NEW a \in Seq(Symbols), NEW d, NEW n, Att!BytesOf(n) \in Seq(Symbols)
  PROVE  Att!Build(<<<<3>>>>, <<<<2>>>>, {}) # Att!Build(m, Att!ComposeSchemeIdentity(a, <<d>>), n)
<1> DEFINE s == <<"sha256", a \o <<<<0>>>> \o <<d>>>>
           x == Att!BytesOf(n)
           S == Symbols \cup {s, <<2>>}
           u == <<<<2>>>>
           t == <<s>>
           none == <<>>
<1>1. Att!ComposeSchemeIdentity(a, <<d>>) = t
  BY DEF Att!ComposeSchemeIdentity, Att!Sha256
<1>2. Att!BytesOf({}) = none
  BY Zenon DEF Att!BytesOf
<1>3. Len(s) = 2 /\ Len(<<2>>) = 1
  OBVIOUS
<1>4. u = t => <<2>> = s
  <2> HIDE DEF s
  <2> QED
    OBVIOUS
<1> HIDE DEF s
<1>5. u \in Seq(S) /\ t \in Seq(S) /\ none \in Seq(S) /\ x \in Seq(S) /\ Len(u) = Len(t)
  <2>1. s \in S /\ <<2>> \in S
    BY Zenon
  <2>2. x \in Seq(S)
    OBVIOUS
  <2>3. Len(u) = Len(t)
    OBVIOUS
  <2>4. none \in Seq(S)
    OBVIOUS
  <2> HIDE DEF S
  <2>5. u \in Seq(S) /\ t \in Seq(S)
    BY <2>1, Tuples
  <2> QED
    BY Zenon, <2>2, <2>3, <2>4, <2>5
<1> HIDE DEF S, x, u, t, none
<1>6. u \o none = t \o x => u = t
  BY <1>5, EqualLengths
<1>7. Att!Build(<<<<3>>>>, u, {}) = Att!Build(m, t, n) => u \o none = t \o x
  <2> DEFINE three == <<<<3>>>>
  <2> HIDE DEF three
  <2>1. Att!Build(three, u, {}).scheme = Att!Sha256(u \o none) /\ Att!Build(m, t, n).scheme = Att!Sha256(t \o x)
    BY <1>2 DEF Att!Build, x
  <2>2. Att!Sha256(u \o none) = Att!Sha256(t \o x) => u \o none = t \o x
    BY DEF Att!Sha256
  <2> QED
    BY Zenon, <2>1, <2>2 DEF three
<1>8. u # t
  BY <1>3, <1>4
<1> QED
  BY Zenon, <1>1, <1>6, <1>7, <1>8 DEF u

(* What the relying party may expect of a runner's report. *)
AsExpected(i) ==
  LET cfg == ConfigOf(i.file)
  IN /\ i.expected.model = cfg.model /\ i.expected.scheme = cfg.scheme
     /\ i.expected.digest = i.env.service_digest
     /\ Att!BytesOf(i.expected.nonce) = Att!BytesOf(i.nonce)

Pinned(i) ==
  LET v == i.verifier
  IN /\ "mock" \in v.features /\ v.use_mock_chain /\ v.now \in 2 .. 5
     /\ PinsAuthority(v)
     /\ v.measurement \in {{}, {0}} /\ v.policy \in {{}, {0}}
     /\ v.model_id \in {{}, {Att!Sha256(ConfigOf(i.file).model)}}

Issued(i) == Att!ExecutorEvidence(StateOf(i), i.env, i.nonce)

Verdict(i, issue) ==
  LET got == Arriving(issue, i.arrives)
  IN Att!Verify(i.verifier, got.report, got.vcek_cert, Binding(i.expected)).ok

DataOf(i) == Att!Build(StateOf(i).model, StateOf(i).scheme, i.nonce)
ExpectedData(i) ==
  Att!Build(i.expected.model, Att!ComposeSchemeIdentity(i.expected.scheme, i.expected.digest), i.expected.nonce)

LEMMA DataIs ==
  ASSUME NEW i, AttestOK(i)
  PROVE  /\ DataOf(i) = ExpectedData(i) <=> AsExpected(i)
         /\ DataOf(i) # Att!Build(<<<<3>>>>, <<<<2>>>>, {})
         /\ DataOf(i).model = Att!Sha256(ConfigOf(i.file).model)
<1> DEFINE cfg == ConfigOf(i.file)
           d == i.env.service_digest[1]
           e == i.expected.digest[1]
<1>1. /\ cfg.scheme \in Seq(Symbols) /\ i.expected.scheme \in Seq(Symbols)
      /\ Att!BytesOf(i.nonce) \in Seq(Symbols) /\ Att!BytesOf(i.expected.nonce) \in Seq(Symbols)
  <2>1. /\ {cfg.model, cfg.scheme, i.expected.model, i.expected.scheme} \subseteq Seq(Symbols)
        /\ Att!BytesOf(i.nonce) \in Seq(Symbols) /\ Att!BytesOf(i.expected.nonce) \in Seq(Symbols)
    BY Zenon DEF AttestOK
  <2> QED
    BY Zenon, <2>1
<1>2. i.env.service_digest = <<d>> /\ i.expected.digest = <<e>>
  BY Zenon DEF AttestOK
<1>3. DataOf(i) = Att!Build(cfg.model, Att!ComposeSchemeIdentity(cfg.scheme, <<d>>), i.nonce)
  <2>1. DataOf(i) = Att!Build(cfg.model, Att!ComposeSchemeIdentity(cfg.scheme, i.env.service_digest), i.nonce)
    BY Zenon, StateIs DEF DataOf
  <2> QED
    BY Zenon, <1>2, <2>1
<1>4. ExpectedData(i) =
        Att!Build(i.expected.model, Att!ComposeSchemeIdentity(i.expected.scheme, <<e>>), i.expected.nonce)
  BY Zenon, <1>2 DEF ExpectedData
<1> HIDE DEF d, e, cfg
<1>5. DataOf(i) = ExpectedData(i) <=>
        /\ cfg.model = i.expected.model /\ cfg.scheme = i.expected.scheme /\ d = e
        /\ Att!BytesOf(i.nonce) = Att!BytesOf(i.expected.nonce)
  <2>1. Att!Build(cfg.model, Att!ComposeSchemeIdentity(cfg.scheme, <<d>>), i.nonce) =
        Att!Build(i.expected.model, Att!ComposeSchemeIdentity(i.expected.scheme, <<e>>), i.expected.nonce) <=>
          cfg.model = i.expected.model /\ cfg.scheme = i.expected.scheme /\ d = e
          /\ Att!BytesOf(i.nonce) = Att!BytesOf(i.expected.nonce)
    BY <1>1, BindingFixes
  <2> QED
    BY Zenon, <1>3, <1>4, <2>1
<1>6. d = e <=> i.expected.digest = i.env.service_digest
  <2>1. <<d>> = <<e>> => d = e
    OBVIOUS
  <2> QED
    BY Zenon, <1>2, <2>1
<1>7. DataOf(i) = ExpectedData(i) <=> AsExpected(i)
  BY Zenon, <1>5, <1>6 DEF AsExpected, cfg
<1>8. DataOf(i) # Att!Build(<<<<3>>>>, <<<<2>>>>, {})
  <2>1. Att!Build(<<<<3>>>>, <<<<2>>>>, {}) # Att!Build(cfg.model, Att!ComposeSchemeIdentity(cfg.scheme, <<d>>), i.nonce)
    BY <1>1, OtherIdentity
  <2> QED
    BY Zenon, <1>3, <2>1
<1>9. DataOf(i).model = Att!Sha256(cfg.model)
  <2>1. \A m, x, n : Att!Build(m, x, n).model = Att!Sha256(m)
    BY DEF Att!Build
  <2> QED
    BY <1>3, <2>1
<1> QED
  BY Zenon, <1>7, <1>8, <1>9 DEF cfg

Arrived(got, body, key, cert, a) ==
  /\ got.report.data = (IF a = "identity" THEN Att!Build(<<<<3>>>>, <<<<2>>>>, {}) ELSE body.data)
  /\ got.report.measurement = (IF a = "measurement" THEN 1 ELSE body.measurement)
  /\ got.report.policy = body.policy
  /\ got.report.parses <=> a # "cut"
  /\ got.report.sig = Att!Sign(key, body)
  /\ a = "certificate" => got.vcek_cert = Att!Certificate("vcek", "vcek", 2, 5)
  /\ a # "certificate" => got.vcek_cert = cert

LEMMA ArrivingIs ==
  ASSUME NEW body, NEW key, NEW cert, NEW a
  PROVE  Arrived(Arriving([report |-> Att!Report(body, key), vcek_cert |-> cert], a), body, key, cert, a)
<1> DEFINE other == Att!Build(<<<<3>>>>, <<<<2>>>>, {})
           self == Att!Certificate("vcek", "vcek", 2, 5)
           sig == Att!Sign(key, body)
           report == Att!Report(body, key)
           issued == [report |-> report, vcek_cert |-> cert]
           got == Arriving(issued, a)
<1>1. got = [report |-> [data |-> IF a = "identity" THEN other ELSE issued.report.data,
                         measurement |-> IF a = "measurement" THEN 1 ELSE issued.report.measurement,
                         policy |-> issued.report.policy, parses |-> a # "cut", sig |-> issued.report.sig],
             vcek_cert |-> IF a = "certificate" THEN self ELSE issued.vcek_cert]
  BY Zenon DEF Arriving
<1>2. /\ report.data = body.data /\ report.measurement = body.measurement /\ report.policy = body.policy
      /\ report.sig = sig
  BY DEF Att!Report
<1> HIDE DEF other, self, sig, report
<1>3. issued.report = report /\ issued.vcek_cert = cert
  OBVIOUS
<1> HIDE DEF issued, got
<1>4. /\ got.report.data = (IF a = "identity" THEN other ELSE issued.report.data)
      /\ got.report.measurement = (IF a = "measurement" THEN 1 ELSE issued.report.measurement)
      /\ got.report.policy = issued.report.policy
      /\ got.report.parses <=> a # "cut"
      /\ got.report.sig = issued.report.sig
      /\ got.vcek_cert = IF a = "certificate" THEN self ELSE issued.vcek_cert
  BY <1>1
<1>5. /\ got.report.data = (IF a = "identity" THEN other ELSE body.data)
      /\ got.report.measurement = (IF a = "measurement" THEN 1 ELSE body.measurement)
      /\ got.report.policy = body.policy /\ got.report.sig = sig
      /\ a = "certificate" => got.vcek_cert = self
      /\ a # "certificate" => got.vcek_cert = cert
  BY Zenon, <1>2, <1>3, <1>4
<1> QED
  BY Zenon, <1>4, <1>5 DEF Arrived, got, issued, report, other, self, sig

LEMMA MockVerdict ==
  ASSUME NEW i, AttestOK(i), IsMock(i)
  PROVE  Issued(i).ok /\ (Verdict(i, Issued(i).value) <=> AsExpected(i) /\ i.arrives = "intact" /\ Pinned(i))
<1> DEFINE v == i.verifier
           a == i.arrives
           data == DataOf(i)
           issue == [report |-> Att!Report(Body(data, 0, 0), "vcek"), vcek_cert |-> Att!Vcek]
           got == Arriving(issue, a)
           report == got.report
           cert == got.vcek_cert
           other == Att!Build(<<<<3>>>>, <<<<2>>>>, {})
           Chain == \A c \in {v.ark, v.ask} : /\ c.pem /\ c.alg = "ecdsa-with-SHA384"
                                              /\ c.sig = Att!Sign(v.ark.key, Att!CertBody(c))
<1>1. Issued(i).ok /\ Issued(i).value = issue
  BY Zenon, IssueIs DEF Issued, Att!ExecutorEvidence, DataOf
<1>2. a \in Ways /\ v.ask.key # "vcek"
  BY Zenon DEF AttestOK
<1>3. /\ report.data = (IF a = "identity" THEN other ELSE data)
      /\ report.measurement = (IF a = "measurement" THEN 1 ELSE 0) /\ report.policy = 0
      /\ report.parses <=> a # "cut"
      /\ report.sig = Att!Sign("vcek", Body(data, 0, 0))
      /\ cert = Att!Certificate("vcek", IF a = "certificate" THEN "vcek" ELSE "ask", 2, 5)
  <2>1. Body(data, 0, 0).data = data /\ Body(data, 0, 0).measurement = 0 /\ Body(data, 0, 0).policy = 0
    <3> HIDE DEF data
    <3> QED
      BY DEF Body
  <2>2. /\ report.data = (IF a = "identity" THEN other ELSE Body(data, 0, 0).data)
        /\ report.measurement = (IF a = "measurement" THEN 1 ELSE Body(data, 0, 0).measurement)
        /\ report.policy = Body(data, 0, 0).policy
        /\ report.parses <=> a # "cut"
        /\ report.sig = Att!Sign("vcek", Body(data, 0, 0))
        /\ a = "certificate" => cert = Att!Certificate("vcek", "vcek", 2, 5)
        /\ a # "certificate" => cert = Att!Vcek
    <3>1. Arrived(got, Body(data, 0, 0), "vcek", Att!Vcek, a)
      BY Zenon, ArrivingIs
    <3> HIDE DEF data, got, a, v
    <3> QED
      BY Zenon, <3>1 DEF Arrived
  <2> HIDE DEF data, report, cert, other, a, v
  <2> QED
    BY Zenon, <2>1, <2>2 DEF Att!Vcek
<1>4. /\ cert.key = "vcek" /\ Att!ValidityWindow(cert) = 2 .. 5
      /\ Att!VerifyMockChain(v.ark, v.ask, cert) <=> a # "certificate" /\ v.ask.key = "ask" /\ Chain
  <2> DEFINE issuer == IF a = "certificate" THEN "vcek" ELSE "ask"
             made == Att!Certificate("vcek", issuer, 2, 5)
  <2>1. cert = made
    BY Zenon, <1>3
  <2>2. /\ made.key = "vcek" /\ Att!ValidityWindow(made) = 2 .. 5
        /\ Att!VerifyMockChain(v.ark, v.ask, made) <=> v.ask.key = issuer /\ Chain
    BY Zenon, ChainIs
  <2> HIDE DEF made, cert, Chain, v, a
  <2> QED
    BY Zenon, <1>2, <2>1, <2>2
<1>5. AsExpected(i) <=> data = ExpectedData(i)
  BY Zenon, DataIs
<1>6. data # other /\ data.model = Att!Sha256(ConfigOf(i.file).model)
  BY Zenon, DataIs
<1>7. Verdict(i, issue) <=> Accepts(v, report, cert, ExpectedData(i))
  <2>1. Binding(i.expected).model = i.expected.model
        /\ Binding(i.expected).scheme = Att!ComposeSchemeIdentity(i.expected.scheme, i.expected.digest)
        /\ Binding(i.expected).nonce = i.expected.nonce
    BY DEF Binding
  <2>2. Att!Verify(v, report, cert, Binding(i.expected)).ok <=>
          Accepts(v, report, cert, Att!Build(Binding(i.expected).model, Binding(i.expected).scheme, Binding(i.expected).nonce))
    BY Zenon, VerifyIs
  <2> HIDE DEF issue, v, a
  <2> QED
    BY Zenon, <2>1, <2>2 DEF Verdict, ExpectedData, v, a
<1> HIDE DEF v, a, data, issue, got, report, cert, other, Chain
<1>8. Att!VerifyReportSignature(report, cert) <=> a # "identity" /\ a # "measurement"
  <2> DEFINE m == report.measurement
  <2>1. Att!VerifyReportSignature(report, cert) <=>
          Att!Sign("vcek", Body(data, 0, 0)) = Att!Sign("vcek", Body(report.data, m, report.policy))
    BY Zenon, <1>3, <1>4 DEF Att!VerifyReportSignature, Att!Measurable, Body
  <2> HIDE DEF m
  <2>2. Att!Sign("vcek", Body(data, 0, 0)) = Att!Sign("vcek", Body(report.data, m, report.policy)) <=>
          data = report.data /\ m = 0 /\ report.policy = 0
    BY DEF Att!Sign, Body
  <2>3. data = report.data <=> a # "identity"
    BY Zenon, <1>3, <1>6
  <2>4. m = 0 <=> a # "measurement"
    <3>1. m = IF a = "measurement" THEN 1 ELSE 0
      BY Zenon, <1>3 DEF m
    <3> QED
      BY <3>1
  <2> QED
    BY Zenon, <1>3, <2>1, <2>2, <2>3, <2>4
<1>9. a = "intact" => /\ report.data = data /\ report.measurement = 0 /\ report.policy = 0 /\ report.parses
                      /\ a # "identity" /\ a # "measurement" /\ a # "certificate"
  BY <1>3
<1>10. a # "intact" => a = "cut" \/ a = "measurement" \/ a = "identity" \/ a = "certificate"
  BY <1>2 DEF Ways
<1>11. Accepts(v, report, cert, ExpectedData(i)) => a = "intact"
  BY Zenon, <1>3, <1>4, <1>8, <1>10 DEF Accepts
<1>12. ASSUME a = "intact"
       PROVE  Accepts(v, report, cert, ExpectedData(i)) <=> AsExpected(i) /\ Pinned(i)
  <2>1. /\ report.data = data /\ report.measurement = 0 /\ report.policy = 0 /\ report.parses
        /\ Att!VerifyReportSignature(report, cert)
        /\ Att!VerifyMockChain(v.ark, v.ask, cert) <=> v.ask.key = "ask" /\ Chain
    BY Zenon, <1>4, <1>8, <1>9, <1>12
  <2>2. Accepts(v, report, cert, ExpectedData(i)) <=>
          /\ "mock" \in v.features /\ v.use_mock_chain /\ v.ask.key = "ask" /\ Chain
          /\ v.now \in 2 .. 5 /\ data = ExpectedData(i)
          /\ v.measurement \in {{}, {0}} /\ v.policy \in {{}, {0}}
          /\ v.model_id \in {{}, {Att!Sha256(ConfigOf(i.file).model)}}
    BY Zenon, <1>4, <1>6, <2>1 DEF Accepts
  <2> QED
    BY Zenon, <1>5, <2>2 DEF Pinned, PinsAuthority, Chain, v
<1> QED
  BY Zenon, <1>1, <1>7, <1>11, <1>12 DEF a

LEMMA HardwareVerdict ==
  ASSUME NEW i, AttestOK(i), ~IsMock(i), Issued(i).ok
  PROVE  ~Verdict(i, Issued(i).value)
<1> DEFINE v == i.verifier
           a == i.arrives
           body == Body(DataOf(i), 7, 3)
<1>1. PICK k \in DOMAIN i.env.certs :
        Issued(i).value = [report |-> Att!Report(body, "chip"), vcek_cert |-> i.env.certs[k].cert]
  BY Zenon, IssueIs DEF Issued, Att!ExecutorEvidence, DataOf
<1> DEFINE entry == i.env.certs[k].cert
           issue == [report |-> Att!Report(body, "chip"), vcek_cert |-> entry]
           got == Arriving(issue, a)
           report == got.report
           cert == got.vcek_cert
<1>2. a \in Ways /\ (entry.key = "chip" => entry.sig # Att!Sign(v.ask.key, Att!CertBody(entry)))
  BY Zenon DEF AttestOK
<1>3. /\ report.sig = Att!Sign("chip", body)
      /\ a = "certificate" => cert = Att!Certificate("vcek", "vcek", 2, 5)
      /\ a # "certificate" => cert = entry
  <2>1. Arrived(got, body, "chip", entry, a)
    BY Zenon, ArrivingIs
  <2> HIDE DEF body, a, entry, got
  <2> QED
    BY Zenon, <2>1 DEF Arrived
<1>4. Verdict(i, issue) => Att!VerifyReportSignature(report, cert) /\ Att!VerifyMockChain(v.ark, v.ask, cert)
  <2> DEFINE b == Binding(i.expected)
             verdict == Att!Verify(v, report, cert, b)
  <2>1. Verdict(i, issue) <=> verdict.ok
    BY Zenon DEF Verdict
  <2>2. verdict.ok <=> Accepts(v, report, cert, Att!Build(b.model, b.scheme, b.nonce))
    BY Zenon, VerifyIs
  <2> HIDE DEF verdict, b, v, a, report, cert, issue
  <2> QED
    BY Zenon, <2>1, <2>2 DEF Accepts
<1> HIDE DEF report, cert, got, issue, entry, a, v, body
<1>5. Att!VerifyReportSignature(report, cert) => cert.key = "chip"
  <2>1. Att!Sign("chip", body) = Att!Sign(cert.key, Att!Measurable(report)) => cert.key = "chip"
    BY DEF Att!Sign
  <2> QED
    BY Zenon, <1>3, <2>1 DEF Att!VerifyReportSignature
<1>6. Att!Certificate("vcek", "vcek", 2, 5).key # "chip"
  BY DEF Att!Certificate
<1>7. Att!VerifyMockChain(v.ark, v.ask, cert) => cert.sig = Att!Sign(v.ask.key, Att!CertBody(cert))
  BY Zenon DEF Att!VerifyMockChain, Att!VerifySignedBy
<1>8. ~Verdict(i, issue)
  BY Zenon, <1>2, <1>3, <1>4, <1>5, <1>6, <1>7
<1> QED
  BY Zenon, <1>1, <1>8 DEF issue, entry

(* What EvidencePinsWhatRuns says of evidence. *)
EvidenceIsRight(i, out) ==
  LET v == i.verifier  env == i.env
      cfg == ConfigOf(i.file)
      mock == env.snp_mode = {"mock"}
      hardware == ~env.poisoned /\ env.ioctl /\ \E k \in DOMAIN env.certs : env.certs[k].type = "VCEK"
  IN /\ out.up <=> /\ cfg.parses
                   /\ \/ mock /\ "mock" \in env.features
                      \/ env.snp_mode = {"production"} /\ env.device /\ "snp" \in env.features
     /\ out.up => /\ out.extract = (IF cfg.decoder = {} \/ cfg.embedder = {} THEN 503 ELSE 200)
                  /\ out.attest = (IF mock \/ hardware THEN 200 ELSE 500)
     /\ out.verdict <=>
          /\ out.up /\ mock
          /\ i.expected.model = cfg.model /\ i.expected.scheme = cfg.scheme
          /\ i.expected.digest = env.service_digest
          /\ Att!BytesOf(i.expected.nonce) = Att!BytesOf(i.nonce)
          /\ i.arrives = "intact"
          /\ "mock" \in v.features /\ v.use_mock_chain /\ v.now \in 2 .. 5
          /\ v.ask.key = "ask"
          /\ \A c \in {v.ark, v.ask} : /\ c.pem /\ c.alg = "ecdsa-with-SHA384"
                                       /\ c.sig = Att!Sign(v.ark.key, Att!CertBody(c))
          /\ v.measurement \in {{}, {0}} /\ v.policy \in {{}, {0}} /\ v.model_id \in {{}, {Att!Sha256(cfg.model)}}

LEMMA EvidencePinsItsInputs ==
  ASSUME NEW i, AttestOK(i)
  PROVE  EvidenceIsRight(i, AttestResult(i))
<1> DEFINE out == AttestResult(i)
           state == Att!Run(i.env, i.file)
           extract == Att!ExtractStatus(state.value)
           attest == Att!AttestRoute(state.value, i.env).status
           issued == Att!ExecutorEvidence(state.value, i.env, i.nonce)
           verdict == Verdict(i, issued.value)
<1>1. /\ out.up <=> state.ok
      /\ out.extract = (IF state.ok THEN extract ELSE 0)
      /\ out.attest = (IF state.ok THEN attest ELSE 0)
      /\ out.verdict <=> state.ok /\ issued.ok /\ verdict
  BY DEF AttestResult, Verdict
<1>2. (state.ok <=> ComesUp(i)) /\ (state.ok => state.value = StateOf(i))
  BY Zenon, RunIs
<1> HIDE DEF out, state
<1>3. state.ok => extract = Extracting(i) /\ attest = Attesting(i)
  BY Zenon, <1>2, AttestRouteIs
<1>4. state.ok => issued = Issued(i)
  BY Zenon, <1>2 DEF Issued
<1> HIDE DEF extract, attest
<1>5. IsMock(i) => Issued(i).ok /\ (Verdict(i, Issued(i).value) <=> AsExpected(i) /\ i.arrives = "intact" /\ Pinned(i))
  BY Zenon, MockVerdict
<1>6. ~IsMock(i) => ~(Issued(i).ok /\ Verdict(i, Issued(i).value))
  BY Zenon, HardwareVerdict
<1> HIDE DEF issued
<1>7. out.verdict <=> state.ok /\ IsMock(i) /\ AsExpected(i) /\ i.arrives = "intact" /\ Pinned(i)
  BY Zenon, <1>1, <1>4, <1>5, <1>6
<1>8. out.up <=> ComesUp(i)
  BY Zenon, <1>1, <1>2
<1>9. out.up => out.extract = Extracting(i) /\ out.attest = Attesting(i)
  BY Zenon, <1>1, <1>3
<1> DEFINE Half == /\ out.up <=> ComesUp(i)
                   /\ out.up => out.extract = Extracting(i) /\ out.attest = Attesting(i)
           Rest == out.verdict <=> out.up /\ IsMock(i) /\ AsExpected(i) /\ i.arrives = "intact" /\ Pinned(i)
<1>10. Half /\ Rest
  BY Zenon, <1>1, <1>7, <1>8, <1>9
<1>11. Half /\ Rest => EvidenceIsRight(i, out)
  BY Zenon DEF EvidenceIsRight, Attesting, Extracting, ComesUp, IsMock, HasVcek, AsExpected, Pinned, PinsAuthority
<1> QED
  BY Zenon, <1>10, <1>11 DEF out

(* EvidencePinsWhatRuns for every configuration, environment, verifier and *)
(* pair of sessions: each part of what a report binds determines it, and   *)
(* each label of what a key is derived from.                               *)
THEOREM EvidencePinsWhatRunsHolds == Spec => []EvidencePinsWhatRuns
<1>1. Evaluated => EvidencePinsWhatRuns
  <2> SUFFICES ASSUME Evaluated
               PROVE  EvidencePinsWhatRuns
    OBVIOUS
  <2>1. ASSUME output.fn = "attest"
        PROVE  EvidenceIsRight(input, output.value)
    <3>1. input \in Inputs /\ input.fn = "attest" /\ output.value = Result(input)
      BY <2>1 DEF Evaluated, None
    <3>2. AttestOK(input)
      BY Zenon, <3>1, InputsAssumption
    <3>3. Result(input) = AttestResult(input)
      BY <3>1 DEF Result
    <3> QED
      BY Zenon, <3>1, <3>2, <3>3, EvidencePinsItsInputs
  <2>2. ASSUME output.fn = "keys"
        PROVE  KeysAreRight(input, output.value)
    <3>1. input \in Inputs /\ input.fn = "keys" /\ output.value = Result(input)
      BY <2>2 DEF Evaluated, None
    <3>2. KeysOK(input)
      BY Zenon, <3>1, InputsAssumption
    <3>3. Result(input) = KeysResult(input)
      BY <3>1 DEF Result
    <3> QED
      BY Zenon, <3>1, <3>2, <3>3, KeysPinTheirInputs
  <2> QED
    BY Zenon, <2>1, <2>2 DEF EvidenceIsRight, KeysAreRight, EvidencePinsWhatRuns
<1> QED
  BY <1>1, EvaluatedHolds, PTL

-----------------------------------------------------------------------------
(* Embedding.  What a shard of a checkpoint holds under the name of a      *)
(* tensor.                                                                 *)
AreTensors(keys) == \A k \in keys : k = <<k[1], k[2]>> /\ k[2] # "position_ids"

Kept(keys, damage) == {k \in keys : k # damage.at \/ damage.what # "missing"}
Stored(k, dtype, damage) == IF k = damage.at THEN Damaged(Tensor(k, dtype), damage) ELSE Tensor(k, dtype)

Listed(keys, prefix, damage) ==
  {<<prefix, k[1], k[2]>> : k \in Kept(keys, damage)} \cup {<<"", 0, "position_ids">>}

LEMMA ShardNames ==
  ASSUME NEW keys, NEW prefix, NEW dtype, NEW damage, NEW bytes
  PROVE  DOMAIN Shard(keys, prefix, dtype, damage, bytes).tensors = Listed(keys, prefix, damage)
BY Zenon DEF Shard, Kept, Listed

RootsOf(keys, prefix, damage) == {""} \cup {root \in {prefix} : Kept(keys, damage) # {}}

LEMMA ShardRoots ==
  ASSUME NEW keys, NEW prefix, NEW dtype, NEW damage, NEW bytes
  PROVE  E!Roots(Shard(keys, prefix, dtype, damage, bytes)) = RootsOf(keys, prefix, damage)
<1> DEFINE names == Listed(keys, prefix, damage)
<1>1. E!Roots(Shard(keys, prefix, dtype, damage, bytes)) = {name[1] : name \in names}
  BY ShardNames DEF E!Roots
<1>2. \A a, b, c : <<a, b, c>>[1] = a
  OBVIOUS
<1>3. ASSUME NEW name \in names
      PROVE  name[1] = "" \/ (name[1] = prefix /\ Kept(keys, damage) # {})
  <2>1. CASE name = <<"", 0, "position_ids">>
    BY Zenon, <1>2, <2>1
  <2>2. CASE \E k \in Kept(keys, damage) : name = <<prefix, k[1], k[2]>>
    <3>1. PICK k \in Kept(keys, damage) : name = <<prefix, k[1], k[2]>>
      BY Zenon, <2>2
    <3>2. name[1] = prefix
      BY <3>1
    <3> QED
      BY Zenon, <3>1, <3>2
  <2> QED
    BY Zenon, <2>1, <2>2 DEF Listed
<1>4. \A k \in Kept(keys, damage) : <<prefix, k[1], k[2]>> \in names
  BY Zenon DEF Listed
<1>5. <<"", 0, "position_ids">> \in names
  BY Zenon DEF Listed
<1> HIDE DEF names
<1> QED
  BY Zenon, <1>1, <1>2, <1>3, <1>4, <1>5 DEF RootsOf

LEMMA ShardHas ==
  ASSUME NEW keys, AreTensors(keys), NEW prefix, NEW dtype, NEW damage, NEW bytes,
         NEW a, NEW b, b # "position_ids"
  PROVE  <<prefix, a, b>> \in DOMAIN Shard(keys, prefix, dtype, damage, bytes).tensors
           <=> <<a, b>> \in Kept(keys, damage)
<1>1. <<prefix, a, b>> # <<"", 0, "position_ids">>
  <2>1. \A x : x # b => <<prefix, a, b>> # <<"", 0, x>>
    <3>1. \A x, y : x # b => <<prefix, a, b>> # <<y, 0, x>>
      OBVIOUS
    <3> QED
      BY Zenon, <3>1
  <2> QED
    BY Zenon, <2>1
<1>2. \A k \in Kept(keys, damage) : k = <<k[1], k[2]>>
  BY Zenon DEF Kept, AreTensors
<1>3. \A k \in Kept(keys, damage) : <<prefix, a, b>> = <<prefix, k[1], k[2]>> <=> k = <<a, b>>
  <2>1. \A c, d : <<prefix, a, b>> = <<prefix, c, d>> <=> <<c, d>> = <<a, b>>
    OBVIOUS
  <2> QED
    BY Zenon, <1>2, <2>1
<1>4. \A k \in Kept(keys, damage) : k = <<a, b>> => <<prefix, a, b>> = <<prefix, k[1], k[2]>>
  BY Zenon, <1>3
<1> DEFINE other == <<"", 0, "position_ids">>
<1>5. Listed(keys, prefix, damage) = {<<prefix, k[1], k[2]>> : k \in Kept(keys, damage)} \cup {other}
  BY Zenon DEF Listed
<1>6. <<prefix, a, b>> # other
  BY Zenon, <1>1
<1> HIDE DEF other
<1> QED
  BY <1>3, <1>5, <1>6, ShardNames

LEMMA ShardGives ==
  ASSUME NEW keys, AreTensors(keys), NEW prefix, NEW dtype, NEW damage, NEW bytes,
         NEW k \in Kept(keys, damage)
  PROVE  Shard(keys, prefix, dtype, damage, bytes).tensors[<<prefix, k[1], k[2]>>] = Stored(k, dtype, damage)
<1> DEFINE name == <<prefix, k[1], k[2]>>
           at(n) == <<n[2], n[3]>>
           names == {<<prefix, l[1], l[2]>> : l \in Kept(keys, damage)} \cup {<<"", 0, "position_ids">>}
           tensors == [n \in names |->
                         IF at(n) = damage.at THEN Damaged(Tensor(at(n), dtype), damage) ELSE Tensor(at(n), dtype)]
<1>1. Shard(keys, prefix, dtype, damage, bytes).tensors = tensors
  BY Zenon DEF Shard, Kept
<1>2. at(name) = k
  <2>1. k = <<k[1], k[2]>>
    BY Zenon DEF Kept, AreTensors
  <2>2. at(name) = <<k[1], k[2]>>
    OBVIOUS
  <2> QED
    BY Zenon, <2>1, <2>2
<1>3. name \in names
  BY Zenon
<1> HIDE DEF names, at, name
<1> QED
  BY Zenon, <1>1, <1>2, <1>3 DEF Stored, name

(* The names of tensors are all different. *)
LEMMA BertNames ==
  /\ DOMAIN E!BertKinds = {"Q", "K", "V", "O", "FfnUp", "FfnDown"}
  /\ E!BertMatrices = {"wq", "wk", "wv", "wo", "w_ffn_up", "w_ffn_down"}
  /\ E!BertKinds["Q"] = "wq" /\ E!BertKinds["K"] = "wk" /\ E!BertKinds["V"] = "wv" /\ E!BertKinds["O"] = "wo"
  /\ E!BertKinds["FfnUp"] = "w_ffn_up" /\ E!BertKinds["FfnDown"] = "w_ffn_down"
<1>1. DOMAIN E!BertKinds = {"Q", "K", "V", "O", "FfnUp", "FfnDown"}
  BY DEF E!BertKinds
<1>2. /\ E!BertKinds["Q"] = "wq" /\ E!BertKinds["K"] = "wk" /\ E!BertKinds["V"] = "wv" /\ E!BertKinds["O"] = "wo"
      /\ E!BertKinds["FfnUp"] = "w_ffn_up" /\ E!BertKinds["FfnDown"] = "w_ffn_down"
  BY DEF E!BertKinds
<1> QED
  BY <1>1, <1>2 DEF E!BertMatrices

LEMMA Names ==
  /\ DOMAIN E!Kinds = {"Q", "K", "V", "O", "FfnGate", "FfnUp", "FfnDown"}
  /\ E!Matrices = {"wq", "wk", "wv", "wo", "w_gate", "w_up", "w_down"}
  /\ E!Kinds["Q"] = "wq" /\ E!Kinds["K"] = "wk" /\ E!Kinds["V"] = "wv" /\ E!Kinds["O"] = "wo"
  /\ E!Kinds["FfnGate"] = "w_gate" /\ E!Kinds["FfnUp"] = "w_up" /\ E!Kinds["FfnDown"] = "w_down"
<1>1. DOMAIN E!Kinds = {"Q", "K", "V", "O", "FfnGate", "FfnUp", "FfnDown"}
  BY DEF E!Kinds
<1>2. /\ E!Kinds["Q"] = "wq" /\ E!Kinds["K"] = "wk" /\ E!Kinds["V"] = "wv" /\ E!Kinds["O"] = "wo"
      /\ E!Kinds["FfnGate"] = "w_gate" /\ E!Kinds["FfnUp"] = "w_up" /\ E!Kinds["FfnDown"] = "w_down"
  BY DEF E!Kinds
<1> QED
  BY <1>1, <1>2 DEF E!Matrices

LEMMA BertTensorsAre ==
  ASSUME NEW cfg
  PROVE  /\ AreTensors(E!BertTensors(cfg))
         /\ \A k \in E!BertTensors(cfg) :
              /\ k[2] \in E!BertMatrices \cup E!BertTables <=> k[2] \in Matrix2d
              /\ k[2] \in E!BertMatrices => k[1] \in E!Layers(cfg)
         /\ <<0, "word_embeddings">> \in E!BertTensors(cfg) /\ <<0, "position_embeddings">> \in E!BertTensors(cfg)
<1>1. E!BertTensors(cfg) =
        ({0} \X {"word_embeddings", "position_embeddings", "token_type_embeddings", "LayerNorm.weight", "LayerNorm.bias"})
        \cup (E!Layers(cfg) \X ({"wq", "wk", "wv", "wo", "w_ffn_up", "w_ffn_down"}
                \cup {"bq", "bk", "bv", "bo", "attn_ln_w", "attn_ln_b", "b_ffn_up", "b_ffn_down", "ffn_ln_w", "ffn_ln_b"}))
  BY BertNames DEF E!BertTensors, E!BertTables, E!BertVectors
<1>2. Matrix2d = {"wq", "wk", "wv", "wo", "w_ffn_up", "w_ffn_down", "word_embeddings", "position_embeddings",
                  "token_type_embeddings", "w_gate", "w_up", "w_down", "embed_tokens"}
  BY BertNames, Names DEF Matrix2d, E!BertTables
<1>3. E!BertMatrices \cup E!BertTables =
        {"wq", "wk", "wv", "wo", "w_ffn_up", "w_ffn_down", "word_embeddings", "position_embeddings", "token_type_embeddings"}
  BY BertNames DEF E!BertTables
<1>4. AreTensors(E!BertTensors(cfg))
  BY <1>1 DEF AreTensors
<1>5. ASSUME NEW k \in E!BertTensors(cfg)
      PROVE  /\ k[2] \in E!BertMatrices \cup E!BertTables <=> k[2] \in Matrix2d
             /\ k[2] \in E!BertMatrices => k[1] \in E!Layers(cfg)
  BY <1>1, <1>2, <1>3, BertNames
<1> QED
  BY <1>1, <1>4, <1>5

LEMMA DecoderTensorsAre ==
  ASSUME NEW cfg
  PROVE  /\ AreTensors(E!DecoderTensors(cfg))
         /\ \A k \in E!DecoderTensors(cfg) :
              /\ k[2] \in E!Matrices \cup {"embed_tokens"} <=> k[2] \in Matrix2d
              /\ k[2] \in E!Matrices => k[1] \in E!Layers(cfg)
         /\ <<0, "embed_tokens">> \in E!DecoderTensors(cfg) /\ <<0, "norm">> \in E!DecoderTensors(cfg)
<1>1. E!DecoderTensors(cfg) =
        ({0} \X {"embed_tokens", "norm"})
        \cup (E!Layers(cfg) \X ({"wq", "wk", "wv", "wo", "w_gate", "w_up", "w_down"}
                                \cup {"norm_attn", "norm_ffn", "q_norm", "k_norm"}))
  BY Names DEF E!DecoderTensors
<1>2. Matrix2d = {"wq", "wk", "wv", "wo", "w_ffn_up", "w_ffn_down", "word_embeddings", "position_embeddings",
                  "token_type_embeddings", "w_gate", "w_up", "w_down", "embed_tokens"}
  BY BertNames, Names DEF Matrix2d, E!BertTables
<1>4. AreTensors(E!DecoderTensors(cfg))
  BY <1>1 DEF AreTensors
<1>5. ASSUME NEW k \in E!DecoderTensors(cfg)
      PROVE  /\ k[2] \in E!Matrices \cup {"embed_tokens"} <=> k[2] \in Matrix2d
             /\ k[2] \in E!Matrices => k[1] \in E!Layers(cfg)
  BY <1>1, <1>2, Names
<1> QED
  BY <1>1, <1>4, <1>5

LEMMA LookupOne ==
  ASSUME NEW s, NEW name
  PROVE  E!LookupView(<<s>>, name) =
           IF name \in DOMAIN s.tensors THEN E!Good(s.tensors[name]) ELSE E!Bad("missing")
<1> DEFINE having == {l \in DOMAIN <<s>> : name \in DOMAIN <<s>>[l].tensors}
           first == CHOOSE l \in having : \A r \in having : l <= r
<1>1. DOMAIN <<s>> = {1} /\ <<s>>[1] = s
  OBVIOUS
<1>2. having = IF name \in DOMAIN s.tensors THEN {1} ELSE {}
  BY <1>1
<1>3. name \in DOMAIN s.tensors => first = 1
  <2> HIDE DEF having
  <2> QED
    BY <1>2
<1>4. E!LookupView(<<s>>, name) = IF having = {} THEN E!Bad("missing") ELSE E!Good(<<s>>[first].tensors[name])
  BY Zenon DEF E!LookupView
<1> HIDE DEF having, first
<1> QED
  BY <1>1, <1>2, <1>3, <1>4

LEMMA LookupTwo ==
  ASSUME NEW s, NEW r, NEW name
  PROVE  E!LookupView(<<s, r>>, name) =
           IF name \in DOMAIN s.tensors THEN E!Good(s.tensors[name])
           ELSE IF name \in DOMAIN r.tensors THEN E!Good(r.tensors[name]) ELSE E!Bad("missing")
<1> DEFINE having == {l \in DOMAIN <<s, r>> : name \in DOMAIN <<s, r>>[l].tensors}
           first == CHOOSE l \in having : \A k \in having : l <= k
<1>1. DOMAIN <<s, r>> = {1, 2} /\ <<s, r>>[1] = s /\ <<s, r>>[2] = r
  OBVIOUS
<1>2. \A l : l \in having <=> \/ l = 1 /\ name \in DOMAIN s.tensors
                              \/ l = 2 /\ name \in DOMAIN r.tensors
  BY <1>1
<1>3. /\ name \in DOMAIN s.tensors => first = 1
      /\ name \notin DOMAIN s.tensors /\ name \in DOMAIN r.tensors => first = 2
  <2> HIDE DEF having
  <2> QED
    BY <1>2
<1>4. E!LookupView(<<s, r>>, name) = IF having = {} THEN E!Bad("missing") ELSE E!Good(<<s, r>>[first].tensors[name])
  BY Zenon DEF E!LookupView
<1> HIDE DEF having, first
<1> QED
  BY <1>1, <1>2, <1>3, <1>4

(* The value a tensor is read as. *)
WeightOf(i, k) ==
  IF i.family = "bert"
  THEN IF k[2] \in E!BertMatrices THEN <<"t", <<"f32", i.dtype, k>>>> ELSE <<"f32", i.dtype, k>>
  ELSE IF k[2] \in E!Matrices THEN <<"t", <<"bf16", i.dtype, k>>>>
  ELSE IF k[2] = "embed_tokens" THEN <<"bf16", i.dtype, k>> ELSE <<"f32", i.dtype, k>>

LEMMA Sane ==
  ASSUME NEW k, NEW dtype
  PROVE  /\ k[2] \in Matrix2d => Tensor(k, dtype).rank = 2
         /\ k[2] \notin Matrix2d => Tensor(k, dtype).rank = 1
         /\ Tensor(k, dtype).dtype = dtype /\ Tensor(k, dtype).data = k
BY DEF Tensor

LEMMA Hurt ==
  ASSUME NEW k, NEW dtype, NEW damage
  PROVE  /\ damage.what = "rank" /\ k[2] \in Matrix2d => Damaged(Tensor(k, dtype), damage).rank = 1
         /\ damage.what = "rank" /\ k[2] \notin Matrix2d => Damaged(Tensor(k, dtype), damage).rank = 2
         /\ damage.what = "dtype" => Damaged(Tensor(k, dtype), damage).dtype = "I8"
BY DEF Tensor, Damaged

LEMMA BertReads ==
  ASSUME NEW i, EmbedOK(i), i.family = "bert", NEW k \in E!BertTensors(i.cfg),
         NEW view, view = Stored(k, i.dtype, i.damage), ~(k = i.damage.at /\ i.damage.what = "missing")
  PROVE  LET read == IF k[2] \in E!BertMatrices THEN E!Transposed(E!BertTensorTo2d(view))
                     ELSE IF k[2] \in E!BertTables THEN E!BertTensorTo2d(view) ELSE E!BertTensorTo1d(view)
         IN /\ read.ok <=> k # i.damage.at /\ i.dtype # "BF16"
            /\ read.ok => read.value = WeightOf(i, k)
<1> DEFINE two == E!BertTensorTo2d(view)
           one == E!BertTensorTo1d(view)
<1>1. i.damage.what \in {"missing", "rank", "dtype"} /\ i.dtype \in {"F32", "F16", "BF16"}
  BY Zenon DEF EmbedOK
<1>2. k[2] \in E!BertMatrices \cup E!BertTables <=> k[2] \in Matrix2d
  BY Zenon, BertTensorsAre
<1>3. CASE k = i.damage.at
  <2>1. view = Damaged(Tensor(k, i.dtype), i.damage) /\ i.damage.what \in {"rank", "dtype"}
    BY Zenon, <1>1, <1>3 DEF Stored
  <2>2. i.damage.what = "rank" => (k[2] \in Matrix2d => view.rank = 1) /\ (k[2] \notin Matrix2d => view.rank = 2)
    BY <2>1, Hurt
  <2>3. i.damage.what = "dtype" => view.dtype = "I8"
    BY <2>1, Hurt
  <2>4. view.dtype \in {"F32", "F16"} => i.damage.what # "dtype"
    BY <2>3
  <2>5. k[2] \in Matrix2d => ~two.ok
    BY <2>1, <2>2, <2>4 DEF E!BertTensorTo2d, E!BertViewToF32, E!Converted, E!Bad, E!Good
  <2>6. k[2] \notin Matrix2d => ~one.ok
    BY <2>1, <2>2, <2>4 DEF E!BertTensorTo1d, E!BertViewToF32, E!Converted, E!Bad, E!Good
  <2>7. ~two.ok => ~E!Transposed(two).ok
    BY Zenon DEF E!Transposed
  <2> HIDE DEF two, one
  <2> QED
    BY Zenon, <1>2, <1>3, <2>5, <2>6, <2>7 DEF two, one
<1>4. CASE k # i.damage.at
  <2>1. view = Tensor(k, i.dtype)
    BY Zenon, <1>4 DEF Stored
  <2>2. /\ k[2] \in Matrix2d => view.rank = 2
        /\ k[2] \notin Matrix2d => view.rank = 1
        /\ view.dtype = i.dtype /\ view.data = k
    BY <2>1, Sane
  <2>3. k[2] \in Matrix2d => (two.ok <=> i.dtype # "BF16") /\ (two.ok => two.value = <<"f32", i.dtype, k>>)
    BY <1>1, <2>2 DEF E!BertTensorTo2d, E!BertViewToF32, E!Converted, E!Bad, E!Good
  <2>4. k[2] \notin Matrix2d => (one.ok <=> i.dtype # "BF16") /\ (one.ok => one.value = <<"f32", i.dtype, k>>)
    BY <1>1, <2>2 DEF E!BertTensorTo1d, E!BertViewToF32, E!Converted, E!Bad, E!Good
  <2>5. (two.ok <=> E!Transposed(two).ok) /\ (two.ok => E!Transposed(two).value = <<"t", two.value>>)
    BY DEF E!Transposed, E!Good
  <2> HIDE DEF two, one
  <2> QED
    BY Zenon, <1>2, <1>4, <2>3, <2>4, <2>5 DEF two, one, WeightOf
<1> QED
  BY Zenon, <1>3, <1>4

LEMMA LoadedIs ==
  ASSUME NEW read, NEW shards
  PROVE  /\ E!Loaded(read, shards).ok <=> \A k \in DOMAIN read : read[k].ok
         /\ E!Loaded(read, shards).ok => E!Loaded(read, shards).value.t = [k \in DOMAIN read |-> read[k].value]
BY DEF E!Loaded, E!Good, E!Bad

BertShard(i) == Shard(E!BertTensors(i.cfg), i.prefix, i.dtype, i.damage, "a")

LEMMA BertPrefix ==
  ASSUME NEW i, EmbedOK(i), i.family = "bert"
  PROVE  E!BertDetectPrefix(BertShard(i)) = i.prefix
<1> DEFINE keys == E!BertTensors(i.cfg)
<1>1. i.prefix \in {"bert.", "roberta.", ""}
  BY Zenon DEF EmbedOK
<1>2. AreTensors(keys) /\ <<0, "word_embeddings">> \in keys /\ <<0, "position_embeddings">> \in keys
  BY Zenon, BertTensorsAre
<1>3. Kept(keys, i.damage) # {}
  <2>1. <<0, "word_embeddings">> # <<0, "position_embeddings">>
    OBVIOUS
  <2> HIDE DEF keys
  <2> QED
    BY <1>2, <2>1 DEF Kept
<1>4. \A root : root \in E!Roots(BertShard(i)) <=> root \in {i.prefix, ""}
  <2>1. \A root : root \in E!Roots(BertShard(i)) <=> root = "" \/ (root = i.prefix /\ Kept(keys, i.damage) # {})
    <3>1. E!Roots(BertShard(i)) = RootsOf(keys, i.prefix, i.damage)
      BY ShardRoots DEF BertShard
    <3> QED
      BY Zenon, <3>1 DEF RootsOf
  <2> QED
    BY Zenon, <1>3, <2>1
<1>5. "bert." # "" /\ "roberta." # "" /\ "bert." # "roberta."
  BY Zenon
<1>6. CASE i.prefix = "bert."
  BY Zenon, <1>4, <1>6 DEF E!BertDetectPrefix
<1>7. CASE i.prefix = "roberta."
  BY Zenon, <1>4, <1>5, <1>7 DEF E!BertDetectPrefix
<1>8. CASE i.prefix = ""
  BY Zenon, <1>4, <1>5, <1>8 DEF E!BertDetectPrefix
<1> QED
  BY Zenon, <1>1, <1>6, <1>7, <1>8

(* A checkpoint is read whole or not at all. *)
LEMMA BertLoads ==
  ASSUME NEW i, EmbedOK(i), i.family = "bert"
  PROVE  LET w == E!BertFromSafetensors(BertShard(i), i.cfg)
         IN /\ w.ok <=> i.damage.at \notin E!BertTensors(i.cfg) /\ i.dtype # "BF16"
            /\ w.ok => w.value.t = [k \in E!BertTensors(i.cfg) |-> WeightOf(i, k)]
<1> DEFINE s == BertShard(i)
           keys == E!BertTensors(i.cfg)
           View(k) == E!LookupView(<<s>>, <<E!BertDetectPrefix(s), k[1], k[2]>>)
           Read(k) == IF ~View(k).ok THEN View(k)
                      ELSE IF k[2] \in E!BertMatrices THEN E!Transposed(E!BertTensorTo2d(View(k).value))
                      ELSE IF k[2] \in E!BertTables THEN E!BertTensorTo2d(View(k).value)
                      ELSE E!BertTensorTo1d(View(k).value)
           read == [k \in keys |-> Read(k)]
<1>1. E!BertFromSafetensors(s, i.cfg) = E!Loaded(read, <<s>>)
  BY Zenon DEF E!BertFromSafetensors
<1>2. AreTensors(keys) /\ <<0, "word_embeddings">> \in keys
  BY Zenon, BertTensorsAre
<1>3. E!BertDetectPrefix(s) = i.prefix
  BY Zenon, BertPrefix
<1>4. ASSUME NEW k \in keys
      PROVE  /\ Read(k).ok <=> k # i.damage.at /\ i.dtype # "BF16"
             /\ Read(k).ok => Read(k).value = WeightOf(i, k)
  <2> DEFINE name == <<i.prefix, k[1], k[2]>>
  <2>1. View(k) = IF name \in DOMAIN s.tensors THEN E!Good(s.tensors[name]) ELSE E!Bad("missing")
    <3> HIDE DEF s
    <3> QED
      BY Zenon, <1>3, LookupOne
  <2>2. k = <<k[1], k[2]>> /\ k[2] # "position_ids"
    BY Zenon, <1>2 DEF AreTensors
  <2>3. name \in DOMAIN s.tensors <=> k \in Kept(keys, i.damage)
    <3>1. <<k[1], k[2]>> \in Kept(keys, i.damage) <=> name \in DOMAIN s.tensors
      BY Zenon, <1>2, <2>2, ShardHas DEF BertShard
    <3> QED
      BY Zenon, <2>2, <3>1
  <2>4. ASSUME k \in Kept(keys, i.damage)
        PROVE  s.tensors[name] = Stored(k, i.dtype, i.damage)
    BY <1>2, <2>4, ShardGives DEF BertShard
  <2>5. k \in Kept(keys, i.damage) <=> ~(k = i.damage.at /\ i.damage.what = "missing")
    BY Zenon DEF Kept
  <2>6. \A v : E!Good(v).ok /\ E!Good(v).value = v /\ ~E!Bad(v).ok
    BY DEF E!Good, E!Bad
  <2>7. CASE k = i.damage.at /\ i.damage.what = "missing"
    <3>1. ~View(k).ok
      BY Zenon, <2>1, <2>3, <2>5, <2>6, <2>7
    <3> HIDE DEF View
    <3> QED
      BY Zenon, <2>7, <3>1
  <2>8. CASE ~(k = i.damage.at /\ i.damage.what = "missing")
    <3>1. View(k).ok /\ View(k).value = Stored(k, i.dtype, i.damage)
      BY Zenon, <2>1, <2>3, <2>4, <2>5, <2>6, <2>8
    <3>2. Read(k) = IF k[2] \in E!BertMatrices THEN E!Transposed(E!BertTensorTo2d(View(k).value))
                    ELSE IF k[2] \in E!BertTables THEN E!BertTensorTo2d(View(k).value)
                    ELSE E!BertTensorTo1d(View(k).value)
      <4> HIDE DEF View
      <4> QED
        BY Zenon, <3>1
    <3> HIDE DEF View, Read
    <3> QED
      BY <2>8, <3>1, <3>2, BertReads
  <2> HIDE DEF View, Read
  <2> QED
    BY Zenon, <2>7, <2>8
<1> HIDE DEF Read, View, s
<1>5. DOMAIN read = keys /\ \A k \in keys : read[k] = Read(k)
  BY Zenon
<1> HIDE DEF read
<1>6. /\ E!Loaded(read, <<s>>).ok <=> \A k \in keys : read[k].ok
      /\ E!Loaded(read, <<s>>).ok => E!Loaded(read, <<s>>).value.t = [k \in keys |-> read[k].value]
  BY <1>5, LoadedIs
<1>7. E!Loaded(read, <<s>>).ok <=> i.damage.at \notin keys /\ i.dtype # "BF16"
  <2> HIDE DEF keys
  <2> QED
    BY Zenon, <1>2, <1>4, <1>5, <1>6
<1>8. ASSUME E!Loaded(read, <<s>>).ok
      PROVE  E!Loaded(read, <<s>>).value.t = [k \in keys |-> WeightOf(i, k)]
  <2>1. \A k \in keys : read[k].value = WeightOf(i, k)
    BY Zenon, <1>4, <1>5, <1>6, <1>8
  <2> HIDE DEF keys
  <2> QED
    BY Zenon, <1>6, <1>8, <2>1
<1> QED
  BY Zenon, <1>1, <1>7, <1>8 DEF s

LEMMA DecoderReads ==
  ASSUME NEW i, EmbedOK(i), i.family = "decoder", NEW k \in E!DecoderTensors(i.cfg),
         NEW view, view = Stored(k, i.dtype, i.damage), ~(k = i.damage.at /\ i.damage.what = "missing")
  PROVE  LET read == IF k[2] \in E!Matrices THEN E!Transposed(E!TensorTo2dBf16(view))
                     ELSE IF k[2] = "embed_tokens" THEN E!TensorTo2dBf16(view) ELSE E!TensorTo1d(view)
         IN /\ read.ok <=> k # i.damage.at
            /\ read.ok => read.value = WeightOf(i, k)
<1> DEFINE two == E!TensorTo2dBf16(view)
           one == E!TensorTo1d(view)
<1>1. i.damage.what \in {"missing", "rank", "dtype"} /\ i.dtype \in {"F32", "F16", "BF16"}
  BY Zenon DEF EmbedOK
<1>2. k[2] \in E!Matrices \cup {"embed_tokens"} <=> k[2] \in Matrix2d
  BY Zenon, DecoderTensorsAre
<1>3. CASE k = i.damage.at
  <2>1. view = Damaged(Tensor(k, i.dtype), i.damage) /\ i.damage.what \in {"rank", "dtype"}
    BY Zenon, <1>1, <1>3 DEF Stored
  <2>2. i.damage.what = "rank" => (k[2] \in Matrix2d => view.rank = 1) /\ (k[2] \notin Matrix2d => view.rank = 2)
    BY <2>1, Hurt
  <2>3. i.damage.what = "dtype" => view.dtype = "I8"
    BY <2>1, Hurt
  <2>4. view.dtype \in {"F32", "F16", "BF16"} => i.damage.what # "dtype"
    BY <2>3
  <2>5. k[2] \in Matrix2d => ~two.ok
    BY <2>1, <2>2, <2>4 DEF E!TensorTo2dBf16, E!ViewToBf16, E!Converted, E!Bad, E!Good
  <2>6. k[2] \notin Matrix2d => ~one.ok
    BY <2>1, <2>2, <2>4 DEF E!TensorTo1d, E!ViewToF32, E!Converted, E!Bad, E!Good
  <2>7. ~two.ok => ~E!Transposed(two).ok
    BY Zenon DEF E!Transposed
  <2> HIDE DEF two, one
  <2> QED
    BY Zenon, <1>2, <1>3, <2>5, <2>6, <2>7 DEF two, one
<1>4. CASE k # i.damage.at
  <2>1. view = Tensor(k, i.dtype)
    BY Zenon, <1>4 DEF Stored
  <2>2. /\ k[2] \in Matrix2d => view.rank = 2
        /\ k[2] \notin Matrix2d => view.rank = 1
        /\ view.dtype = i.dtype /\ view.data = k
    BY <2>1, Sane
  <2>3. k[2] \in Matrix2d => two.ok /\ two.value = <<"bf16", i.dtype, k>>
    BY <1>1, <2>2 DEF E!TensorTo2dBf16, E!ViewToBf16, E!Converted, E!Bad, E!Good
  <2>4. k[2] \notin Matrix2d => one.ok /\ one.value = <<"f32", i.dtype, k>>
    BY <1>1, <2>2 DEF E!TensorTo1d, E!ViewToF32, E!Converted, E!Bad, E!Good
  <2>5. two.ok => E!Transposed(two).ok /\ E!Transposed(two).value = <<"t", two.value>>
    BY DEF E!Transposed, E!Good
  <2>6. i.family # "bert"
    OBVIOUS
  <2> HIDE DEF two, one
  <2> QED
    BY Zenon, <1>2, <1>4, <2>3, <2>4, <2>5, <2>6 DEF two, one, WeightOf
<1> QED
  BY Zenon, <1>3, <1>4

(* The tensors a whole checkpoint has; the query and key norms may be      *)
(* missing.                                                                *)
MaybeMissing == {"q_norm", "k_norm"}

Present(i) ==
  IF i.family = "bert" THEN E!BertTensors(i.cfg)
  ELSE {k \in E!DecoderTensors(i.cfg) : ~(k[2] \in MaybeMissing /\ k = i.damage.at /\ i.damage.what = "missing")}

LEMMA DecoderPrefix ==
  ASSUME NEW i, EmbedOK(i), i.family = "decoder"
  PROVE  E!DetectPrefix(DecoderShards(i)) = i.prefix
<1> DEFINE keys == E!DecoderTensors(i.cfg)
           inner == {k \in keys : k[1] = 1}
           s == Shard(inner, i.prefix, i.dtype, i.damage, "a")
           r == Shard(keys \ inner, i.prefix, i.dtype, i.damage, "b")
<1>1. i.prefix \in {"model.", ""}
  <2>1. i.family # "bert"
    OBVIOUS
  <2> QED
    BY Zenon, <2>1 DEF EmbedOK
<1>2. DecoderShards(i) = <<s, r>>
  BY Zenon DEF DecoderShards
<1>3. E!Roots(s) = RootsOf(inner, i.prefix, i.damage) /\ E!Roots(r) = RootsOf(keys \ inner, i.prefix, i.damage)
  BY ShardRoots
<1>4. Kept(keys \ inner, i.damage) # {}
  <2>1. <<0, "embed_tokens">> \in keys /\ <<0, "norm">> \in keys
    BY Zenon, DecoderTensorsAre
  <2>2. <<0, "embed_tokens">>[1] = 0 /\ <<0, "norm">>[1] = 0 /\ <<0, "embed_tokens">> # <<0, "norm">>
    OBVIOUS
  <2> HIDE DEF keys
  <2> QED
    BY <2>1, <2>2 DEF Kept
<1>5. DOMAIN <<s, r>> = {1, 2} /\ <<s, r>>[1] = s /\ <<s, r>>[2] = r
  OBVIOUS
<1> HIDE DEF s, r, keys, inner
<1>6. i.prefix \in E!Roots(r) /\ E!Roots(s) \subseteq {i.prefix, ""} /\ E!Roots(r) \subseteq {i.prefix, ""}
  BY Zenon, <1>3, <1>4 DEF RootsOf
<1>7. CASE i.prefix = "model."
  BY Zenon, <1>2, <1>5, <1>6, <1>7 DEF E!DetectPrefix
<1>8. CASE i.prefix = ""
  <2>1. "model." # ""
    BY Zenon
  <2>2. \A l \in DOMAIN <<s, r>> : "model." \notin E!Roots(<<s, r>>[l])
    BY Zenon, <1>5, <1>6, <1>8, <2>1
  <2> QED
    BY Zenon, <1>2, <1>8, <2>2 DEF E!DetectPrefix
<1> QED
  BY Zenon, <1>1, <1>7, <1>8

LEMMA DecoderLoads ==
  ASSUME NEW i, EmbedOK(i), i.family = "decoder"
  PROVE  LET w == E!FromSafetensors(DecoderShards(i), i.cfg)
         IN /\ w.ok <=> i.damage.at \notin Present(i)
            /\ w.ok => w.value.t = [k \in Present(i) |-> WeightOf(i, k)]
<1> DEFINE keys == E!DecoderTensors(i.cfg)
           inner == {k \in keys : k[1] = 1}
           s == Shard(inner, i.prefix, i.dtype, i.damage, "a")
           r == Shard(keys \ inner, i.prefix, i.dtype, i.damage, "b")
           sh == DecoderShards(i)
           View(k) == E!LookupView(sh, <<E!DetectPrefix(sh), k[1], k[2]>>)
           Optional(k) == k[2] \in {"q_norm", "k_norm"}
           Read(k) == IF ~View(k).ok THEN View(k)
                      ELSE IF k[2] \in E!Matrices THEN E!Transposed(E!TensorTo2dBf16(View(k).value))
                      ELSE IF k[2] = "embed_tokens" THEN E!TensorTo2dBf16(View(k).value)
                      ELSE E!TensorTo1d(View(k).value)
           read == [k \in {k \in keys : ~Optional(k) \/ View(k).ok} |-> Read(k)]
<1>1. E!FromSafetensors(sh, i.cfg) = E!Loaded(read, sh)
  BY Zenon DEF E!FromSafetensors
<1>2. AreTensors(keys) /\ AreTensors(inner) /\ AreTensors(keys \ inner)
  <2>1. AreTensors(keys)
    BY Zenon, DecoderTensorsAre
  <2> QED
    BY <2>1 DEF AreTensors
<1>3. E!DetectPrefix(sh) = i.prefix /\ sh = <<s, r>>
  <2>1. sh = <<s, r>>
    BY Zenon DEF DecoderShards
  <2> QED
    BY Zenon, <2>1, DecoderPrefix
<1>4. ASSUME NEW k \in keys
      PROVE  /\ k = i.damage.at /\ i.damage.what = "missing" => ~View(k).ok
             /\ ~(k = i.damage.at /\ i.damage.what = "missing") =>
                  View(k).ok /\ View(k).value = Stored(k, i.dtype, i.damage)
  <2> DEFINE name == <<i.prefix, k[1], k[2]>>
  <2>1. View(k) = IF name \in DOMAIN s.tensors THEN E!Good(s.tensors[name])
                  ELSE IF name \in DOMAIN r.tensors THEN E!Good(r.tensors[name]) ELSE E!Bad("missing")
    <3>1. View(k) = E!LookupView(<<s, r>>, name)
      BY Zenon, <1>3
    <3> HIDE DEF s, r, View, name
    <3> QED
      BY <3>1, LookupTwo
  <2>2. k = <<k[1], k[2]>> /\ k[2] # "position_ids"
    BY Zenon, <1>2 DEF AreTensors
  <2>3. /\ name \in DOMAIN s.tensors <=> k \in Kept(inner, i.damage)
        /\ name \in DOMAIN r.tensors <=> k \in Kept(keys \ inner, i.damage)
    <3>1. <<k[1], k[2]>> \in Kept(inner, i.damage) <=> name \in DOMAIN s.tensors
      BY Zenon, <1>2, <2>2, ShardHas
    <3>2. <<k[1], k[2]>> \in Kept(keys \ inner, i.damage) <=> name \in DOMAIN r.tensors
      <4> DEFINE outer == keys \ inner
      <4>1. AreTensors(outer) /\ r = Shard(outer, i.prefix, i.dtype, i.damage, "b")
        BY Zenon, <1>2
      <4> HIDE DEF outer, r
      <4>2. <<k[1], k[2]>> \in Kept(outer, i.damage) <=> name \in DOMAIN r.tensors
        BY <2>2, <4>1, ShardHas
      <4> QED
        BY Zenon, <4>2 DEF outer
    <3> QED
      BY Zenon, <2>2, <3>1, <3>2
  <2>4. ASSUME k \in Kept(inner, i.damage)
        PROVE  s.tensors[name] = Stored(k, i.dtype, i.damage)
    BY <1>2, <2>4, ShardGives
  <2>5. ASSUME k \in Kept(keys \ inner, i.damage)
        PROVE  r.tensors[name] = Stored(k, i.dtype, i.damage)
    BY <1>2, <2>5, ShardGives
  <2>6. k \in Kept(inner, i.damage) \/ k \in Kept(keys \ inner, i.damage)
          <=> ~(k = i.damage.at /\ i.damage.what = "missing")
    BY Zenon DEF Kept
  <2>7. \A v : E!Good(v).ok /\ E!Good(v).value = v /\ ~E!Bad(v).ok
    BY DEF E!Good, E!Bad
  <2> HIDE DEF View, s, r, name, inner, keys
  <2> QED
    BY <2>1, <2>3, <2>4, <2>5, <2>6, <2>7
<1>5. ASSUME NEW k \in keys, View(k).ok
      PROVE  /\ Read(k).ok <=> k # i.damage.at
             /\ Read(k).ok => Read(k).value = WeightOf(i, k)
  <2>1. ~(k = i.damage.at /\ i.damage.what = "missing") /\ View(k).value = Stored(k, i.dtype, i.damage)
    BY Zenon, <1>4, <1>5
  <2>2. Read(k) = IF k[2] \in E!Matrices THEN E!Transposed(E!TensorTo2dBf16(View(k).value))
                  ELSE IF k[2] = "embed_tokens" THEN E!TensorTo2dBf16(View(k).value)
                  ELSE E!TensorTo1d(View(k).value)
    <3> HIDE DEF View
    <3> QED
      BY Zenon, <1>5
  <2> HIDE DEF View, Read
  <2> QED
    BY <2>1, <2>2, DecoderReads
<1>6. ASSUME NEW k \in keys, ~View(k).ok
      PROVE  ~Read(k).ok /\ k = i.damage.at /\ i.damage.what = "missing"
  <2>1. Read(k) = View(k)
    BY Zenon, <1>6
  <2> QED
    BY Zenon, <1>4, <1>6, <2>1
<1>7. Present(i) = {k \in keys : ~Optional(k) \/ View(k).ok}
  <2>1. i.family # "bert"
    OBVIOUS
  <2>2. \A k \in keys : ~Optional(k) \/ View(k).ok <=> ~(k[2] \in MaybeMissing /\ k = i.damage.at /\ i.damage.what = "missing")
    BY Zenon, <1>4 DEF MaybeMissing
  <2> HIDE DEF View, Optional
  <2> QED
    BY <2>1, <2>2 DEF Present
<1> HIDE DEF Read, View, s, r, sh, Optional
<1>8. DOMAIN read = Present(i) /\ \A k \in Present(i) : read[k] = Read(k) /\ k \in keys
  BY <1>7
<1> HIDE DEF read
<1>9. /\ E!Loaded(read, sh).ok <=> \A k \in Present(i) : read[k].ok
      /\ E!Loaded(read, sh).ok => E!Loaded(read, sh).value.t = [k \in Present(i) |-> read[k].value]
  BY <1>8, LoadedIs
<1> HIDE DEF keys
<1>10. \A k \in Present(i) : read[k].ok <=> k # i.damage.at
  BY <1>5, <1>6, <1>8
<1>11. \A k \in Present(i) : read[k].ok => read[k].value = WeightOf(i, k)
  BY Zenon, <1>5, <1>6, <1>8
<1>12. E!Loaded(read, sh).ok <=> i.damage.at \notin Present(i)
  BY <1>9, <1>10
<1>13. ASSUME E!Loaded(read, sh).ok
      PROVE  E!Loaded(read, sh).value.t = [k \in Present(i) |-> WeightOf(i, k)]
  <2>1. \A k \in Present(i) : read[k].value = WeightOf(i, k)
    BY Zenon, <1>9, <1>11, <1>13
  <2> QED
    BY Zenon, <1>9, <1>13, <2>1
<1> QED
  BY Zenon, <1>1, <1>12, <1>13 DEF sh

-----------------------------------------------------------------------------
(* Provisioning.  The weights of a checkpoint, or those left when the      *)
(* matrices of offloaded layers were taken.                                *)
KindsOf(i) == IF i.family = "bert" THEN E!BertKinds ELSE E!Kinds
MatricesOf(i) == IF i.family = "bert" THEN E!BertMatrices ELSE E!Matrices

Gone(i, k) == k[1] \in E!Offloaded(i.cfg) /\ k[2] \in MatricesOf(i)

Full(w, i) ==
  /\ "t" \in DOMAIN w /\ DOMAIN w.t = Present(i)
  /\ \A k \in Present(i) : w.t[k] = WeightOf(i, k)

LeftOver(w, i) ==
  /\ "t" \in DOMAIN w /\ DOMAIN w.t = {k \in Present(i) : ~Gone(i, k)}
  /\ \A k \in Present(i) : ~Gone(i, k) => w.t[k] = WeightOf(i, k)

(* An embedder whose every weight is where the forward pass looks for it. *)
Fields == {"family", "cfg", "weights", "exec", "max_len", "close"}

Provides(e, i) ==
  /\ DOMAIN e = Fields
  /\ e.family = i.family /\ e.cfg = i.cfg /\ e.close = (IF i.family = "bert" THEN {102} ELSE {})
  /\ \A li \in E!Layers(i.cfg) :
       /\ E!HasOperands(e, KindsOf(i), li)
       /\ \A kind \in DOMAIN KindsOf(i) : E!Operand(e, KindsOf(i), li, kind) = WeightOf(i, <<li, KindsOf(i)[kind]>>)
  /\ \A k \in Present(i) : k[2] \notin MatricesOf(i) => k \in DOMAIN e.weights.t /\ e.weights.t[k] = WeightOf(i, k)
  /\ DOMAIN e.weights.t \subseteq Present(i)

LEMMA MatricesPresent ==
  ASSUME NEW i, NEW li \in E!Layers(i.cfg), NEW kind \in DOMAIN KindsOf(i)
  PROVE  <<li, KindsOf(i)[kind]>> \in Present(i) /\ KindsOf(i)[kind] \in MatricesOf(i)
<1>1. KindsOf(i)[kind] \in MatricesOf(i)
  BY DEF KindsOf, MatricesOf, E!BertMatrices, E!Matrices
<1>2. CASE i.family = "bert"
  <2>1. <<li, KindsOf(i)[kind]>> \in E!BertTensors(i.cfg)
    BY <1>1, <1>2 DEF E!BertTensors, MatricesOf
  <2> QED
    BY <1>1, <1>2, <2>1 DEF Present
<1>3. CASE i.family # "bert"
  <2>1. <<li, KindsOf(i)[kind]>> \in E!DecoderTensors(i.cfg)
    BY <1>1, <1>3 DEF E!DecoderTensors, MatricesOf
  <2>2. KindsOf(i)[kind] \notin MaybeMissing
    BY <1>1, <1>3, Names DEF MatricesOf, MaybeMissing
  <2>3. <<li, KindsOf(i)[kind]>>[2] = KindsOf(i)[kind]
    OBVIOUS
  <2> QED
    BY <1>1, <1>3, <2>1, <2>2, <2>3 DEF Present
<1> QED
  BY <1>2, <1>3

LEMMA OffloadedIs ==
  ASSUME NEW cfg, NEW li
  PROVE  li \in E!Offloaded(cfg) <=> li \in E!Layers(cfg) /\ E!OffloadLayer(cfg, li)
BY DEF E!Offloaded

LEMMA ProvidesWhatItNeeds ==
  ASSUME NEW i, NEW e, NEW w, Full(w, i), Full(e.weights, i) \/ LeftOver(e.weights, i),
         DOMAIN e = Fields, e.family = i.family, e.cfg = i.cfg, e.close = (IF i.family = "bert" THEN {102} ELSE {}),
         e.exec = E!Provisioned(i.cfg, KindsOf(i), w.t)
  PROVE  Provides(e, i)
<1> DEFINE kinds == KindsOf(i)
<1>1. ASSUME NEW li \in E!Layers(i.cfg), NEW kind \in DOMAIN kinds
      PROVE  /\ IF E!OffloadLayer(e.cfg, li) THEN <<li, kind>> \in DOMAIN e.exec
                ELSE <<li, kinds[kind]>> \in DOMAIN e.weights.t
             /\ E!Operand(e, kinds, li, kind) = WeightOf(i, <<li, kinds[kind]>>)
  <2>1. <<li, kinds[kind]>> \in Present(i)
    BY MatricesPresent
  <2>2. CASE E!OffloadLayer(i.cfg, li)
    <3>1. <<li, kind>> \in E!Handles(i.cfg, kinds)
      BY <2>2 DEF E!Handles, E!Offloaded
    <3>2. DOMAIN e.exec = E!Handles(i.cfg, kinds) /\ e.exec[<<li, kind>>] = w.t[<<li, kinds[kind]>>]
      BY <3>1 DEF E!Provisioned
    <3> HIDE DEF kinds
    <3> QED
      BY <2>1, <2>2, <3>1, <3>2 DEF Full, E!Operand
  <2>3. CASE ~E!OffloadLayer(i.cfg, li)
    <3>1. ~Gone(i, <<li, kinds[kind]>>)
      BY <2>3 DEF Gone, E!Offloaded
    <3> HIDE DEF kinds
    <3> QED
      BY <2>1, <2>3, <3>1 DEF Full, LeftOver, E!Operand
  <2> QED
    BY <2>2, <2>3
<1>2. \A li \in E!Layers(i.cfg) :
        /\ E!HasOperands(e, kinds, li)
        /\ \A kind \in DOMAIN kinds : E!Operand(e, kinds, li, kind) = WeightOf(i, <<li, kinds[kind]>>)
  <2> HIDE DEF kinds
  <2> QED
    BY Zenon, <1>1 DEF E!HasOperands
<1>3. \A k \in Present(i) : k[2] \notin MatricesOf(i) => k \in DOMAIN e.weights.t /\ e.weights.t[k] = WeightOf(i, k)
  BY DEF Full, LeftOver, Gone
<1>4. DOMAIN e.weights.t \subseteq Present(i)
  BY DEF Full, LeftOver
<1> QED
  BY Zenon, <1>2, <1>3, <1>4 DEF Provides

(* What each constructor of the decoder does with the weights it is given. *)
LEMMA QwenWithIs ==
  ASSUME NEW cfg, NEW exec, NEW w
  PROVE  E!QwenWith(cfg, E!Good([exec |-> exec, weights |-> w]))
           = E!Good([family |-> "decoder", cfg |-> cfg, weights |-> w, exec |-> exec,
                     max_len |-> E!MaxLen(cfg), close |-> {}])
<1> DEFINE q == E!Good([exec |-> exec, weights |-> w])
<1>1. q.ok /\ q.value.exec = exec /\ q.value.weights = w
  BY DEF E!Good
<1> HIDE DEF q
<1>2. E!QwenWith(cfg, q) = E!Good([family |-> "decoder", cfg |-> cfg, weights |-> w, exec |-> exec,
                                   max_len |-> E!MaxLen(cfg), close |-> {}])
  BY <1>1 DEF E!QwenWith
<1> QED
  BY Zenon, <1>2 DEF q

LEMMA NothingTaken ==
  ASSUME NEW i, i.family # "bert", NEW w, Full(w, i)
  PROVE  ~E!Taken(w, i.cfg)
<1>1. \A h \in E!Handles(i.cfg, E!Kinds) : <<h[1], E!Kinds[h[2]]>> \in Present(i)
  <2> SUFFICES ASSUME NEW h \in E!Handles(i.cfg, E!Kinds)
               PROVE  <<h[1], E!Kinds[h[2]]>> \in Present(i)
    OBVIOUS
  <2>1. h[1] \in E!Layers(i.cfg) /\ h[2] \in DOMAIN E!Kinds
    BY DEF E!Handles, E!Offloaded
  <2> QED
    BY <2>1, MatricesPresent DEF KindsOf
<1> QED
  BY Zenon, <1>1 DEF E!Taken, Full

LEMMA SharedWeights ==
  ASSUME NEW i, EmbedOK(i), i.family = "decoder", NEW w, Full(w, i)
  PROVE  LET built == E!WithSharedWeights(i.cfg, w)
         IN built.ok /\ Provides(built.value, i) /\ built.value.max_len = E!MaxLen(i.cfg)
<1> DEFINE exec == E!Provisioned(i.cfg, E!Kinds, w.t)
           e == [family |-> "decoder", cfg |-> i.cfg, weights |-> w, exec |-> exec,
                 max_len |-> E!MaxLen(i.cfg), close |-> {}]
<1>1. ~E!Taken(w, i.cfg) /\ i.family # "bert"
  BY NothingTaken
<1>2. E!ProvisionIntoShared(w, i.cfg) = E!Good([exec |-> exec, weights |-> w])
  BY Zenon, <1>1 DEF E!ProvisionIntoShared
<1>3. E!WithSharedWeights(i.cfg, w) = E!Good(e)
  <2> HIDE DEF exec
  <2> QED
    BY <1>2, QwenWithIs DEF E!WithSharedWeights
<1>4. /\ DOMAIN e = Fields
      /\ e.family = i.family /\ e.cfg = i.cfg /\ e.close = (IF i.family = "bert" THEN {102} ELSE {})
      /\ e.weights = w /\ e.exec = exec /\ exec = E!Provisioned(i.cfg, KindsOf(i), w.t)
      /\ e.max_len = E!MaxLen(i.cfg)
  BY <1>1 DEF KindsOf, Fields
<1> HIDE DEF e, exec
<1>5. Provides(e, i)
  BY Zenon, <1>4, ProvidesWhatItNeeds
<1> QED
  BY <1>3, <1>4, <1>5 DEF E!Good

LEMMA TakenWeights ==
  ASSUME NEW i, EmbedOK(i), i.family = "decoder", NEW w, Full(w, i)
  PROVE  LET built == E!QwenNew(i.cfg, w)
         IN /\ built.ok /\ Provides(built.value, i) /\ built.value.max_len = E!MaxLen(i.cfg)
            /\ LeftOver(built.value.weights, i)
<1> DEFINE exec == E!Provisioned(i.cfg, E!Kinds, w.t)
           t == [k \in {k \in DOMAIN w.t : k[1] \notin E!Offloaded(i.cfg) \/ k[2] \notin E!Matrices} |-> w.t[k]]
           left == [w EXCEPT !.t = t]
           e == [family |-> "decoder", cfg |-> i.cfg, weights |-> left, exec |-> exec,
                 max_len |-> E!MaxLen(i.cfg), close |-> {}]
<1>1. ~E!Taken(w, i.cfg) /\ i.family # "bert"
  BY NothingTaken
<1>2. E!ProvisionInto(w, i.cfg) = E!Good([exec |-> exec, weights |-> left])
  BY Zenon, <1>1 DEF E!ProvisionInto
<1>3. E!QwenNew(i.cfg, w) = E!Good(e)
  <2> HIDE DEF exec, left
  <2> QED
    BY <1>2, QwenWithIs DEF E!QwenNew
<1>4. LeftOver(left, i)
  <2>1. "t" \in DOMAIN left /\ left.t = t
    <3> HIDE DEF t
    <3> QED
      BY DEF Full
  <2>2. /\ DOMAIN t = {k \in Present(i) : ~Gone(i, k)}
        /\ \A k \in Present(i) : ~Gone(i, k) => t[k] = WeightOf(i, k)
    BY <1>1 DEF Full, Gone, MatricesOf
  <2> HIDE DEF left, t
  <2> QED
    BY <2>1, <2>2 DEF LeftOver
<1>5. /\ DOMAIN e = Fields
      /\ e.family = i.family /\ e.cfg = i.cfg /\ e.close = (IF i.family = "bert" THEN {102} ELSE {})
      /\ e.weights = left /\ e.exec = exec /\ exec = E!Provisioned(i.cfg, KindsOf(i), w.t)
      /\ e.max_len = E!MaxLen(i.cfg)
  <2> HIDE DEF left
  <2> QED
    BY <1>1 DEF KindsOf, Fields
<1> HIDE DEF e, exec, left
<1>6. Provides(e, i)
  BY Zenon, <1>4, <1>5, ProvidesWhatItNeeds
<1> QED
  BY <1>3, <1>4, <1>5, <1>6 DEF E!Good

LEMMA ConsumedWeights ==
  ASSUME NEW i, EmbedOK(i), i.family = "decoder", NEW w, LeftOver(w, i)
  PROVE  LET built == E!WithSharedWeights(i.cfg, w)
         IN /\ built.ok <=> E!Offloaded(i.cfg) = {}
            /\ built.ok => Provides(built.value, i) /\ built.value.max_len = E!MaxLen(i.cfg)
<1>1. i.family # "bert"
  OBVIOUS
<1>2. CASE E!Offloaded(i.cfg) = {}
  <2>1. Full(w, i)
    BY <1>2 DEF Full, LeftOver, Gone
  <2> QED
    BY <1>2, <2>1, SharedWeights
<1>3. CASE E!Offloaded(i.cfg) # {}
  <2>1. PICK li \in E!Offloaded(i.cfg) : TRUE
    BY <1>3
  <2>2. <<li, "Q">> \in E!Handles(i.cfg, E!Kinds) /\ <<li, "Q">>[1] = li /\ <<li, "Q">>[2] = "Q"
    BY Names DEF E!Handles
  <2>3. <<li, E!Kinds["Q"]>> \notin DOMAIN w.t
    BY <1>1, Names DEF LeftOver, Gone, MatricesOf
  <2>4. E!Taken(w, i.cfg)
    BY <2>2, <2>3 DEF E!Taken
  <2>5. ~E!WithSharedWeights(i.cfg, w).ok
    BY <2>4 DEF E!WithSharedWeights, E!QwenWith, E!ProvisionIntoShared, E!Bad
  <2> QED
    BY <1>3, <2>5
<1> QED
  BY <1>2, <1>3

LEMMA LoadedHas ==
  ASSUME NEW read, NEW shards, E!Loaded(read, shards).ok
  PROVE  "t" \in DOMAIN E!Loaded(read, shards).value
BY DEF E!Loaded, E!Good, E!Bad

LEMMA BertWeights ==
  ASSUME NEW i, EmbedOK(i), i.family = "bert", E!BertFromSafetensors(BertShard(i), i.cfg).ok
  PROVE  Full(E!BertFromSafetensors(BertShard(i), i.cfg).value, i)
<1> DEFINE w == E!BertFromSafetensors(BertShard(i), i.cfg)
<1>1. w.value.t = [k \in E!BertTensors(i.cfg) |-> WeightOf(i, k)]
  BY Zenon, BertLoads
<1>2. "t" \in DOMAIN w.value
  BY Zenon, LoadedHas DEF E!BertFromSafetensors
<1> HIDE DEF w
<1> QED
  BY <1>1, <1>2 DEF Full, Present, w

LEMMA DecoderWeights ==
  ASSUME NEW i, EmbedOK(i), i.family = "decoder", E!FromSafetensors(DecoderShards(i), i.cfg).ok
  PROVE  Full(E!FromSafetensors(DecoderShards(i), i.cfg).value, i)
<1> DEFINE w == E!FromSafetensors(DecoderShards(i), i.cfg)
<1>1. w.value.t = [k \in Present(i) |-> WeightOf(i, k)]
  BY Zenon, DecoderLoads
<1>2. "t" \in DOMAIN w.value
  BY Zenon, LoadedHas DEF E!FromSafetensors
<1> HIDE DEF w
<1> QED
  BY <1>1, <1>2 DEF Full, w

(* The hub's two shards come in the order of their names. *)
LEMMA HubShards ==
  ASSUME NEW i
  PROVE  E!FindSafetensorsShards([single |-> {}, index |-> {1, 2}, files |-> DecoderShards(i)]) = E!Good(DecoderShards(i))
<1> DEFINE keys == E!DecoderTensors(i.cfg)
           inner == {k \in keys : k[1] = 1}
           s == Shard(inner, i.prefix, i.dtype, i.damage, "a")
           r == Shard(keys \ inner, i.prefix, i.dtype, i.damage, "b")
           files == DecoderShards(i)
           repo == [single |-> {}, index |-> {1, 2}, files |-> files]
<1>1. files = <<s, r>>
  BY Zenon DEF DecoderShards
<1> HIDE DEF s, r, files
<1>2. DOMAIN files = {1, 2} /\ files = [l \in 1 .. 2 |-> files[l]]
  BY <1>1
<1>3. E!Cardinality({1, 2}) = 2
  <2>0. E!Cardinality({1, 2}) = Cardinality({1, 2})
    BY Zenon DEF E!Cardinality, Cardinality
  <2>1. Cardinality({1}) = 1 /\ IsFiniteSet({1})
    BY FS_Singleton
  <2>2. {1, 2} = {1} \cup {2} /\ 2 \notin {1}
    OBVIOUS
  <2> QED
    BY <2>0, <2>1, <2>2, FS_AddElement
<1>4. E!Sorted({1, 2})[1] = 1 /\ E!Sorted({1, 2})[2] = 2
  <2> DEFINE n == E!Cardinality({1, 2})
             Increasing(list) == \A k, j \in 1 .. n : k < j => list[k] < list[j]
             id == [l \in 1 .. n |-> l]
             q == CHOOSE list \in [1 .. n -> {1, 2}] : Increasing(list)
  <2>1. E!Sorted({1, 2}) = q
    BY Zenon DEF E!Sorted
  <2>2. n = 2
    BY <1>3
  <2> HIDE DEF n
  <2>3. id \in [1 .. n -> {1, 2}] /\ Increasing(id)
    BY <2>2
  <2>4. q \in [1 .. n -> {1, 2}] /\ Increasing(q)
    <3> HIDE DEF id, Increasing
    <3> QED
      BY Zenon, <2>3
  <2> HIDE DEF q
  <2>5. q[1] < q[2] /\ q[1] \in {1, 2} /\ q[2] \in {1, 2}
    BY <2>2, <2>4
  <2> QED
    BY <2>1, <2>5
<1>5. repo.single = {} /\ repo.index = {1, 2} /\ repo.files = files
  OBVIOUS
<1> HIDE DEF repo
<1>6. E!FindSafetensorsShards(repo) = E!Good([l \in 1 .. 2 |-> files[E!Sorted({1, 2})[l]]])
  <2>1. repo.index # {} /\ repo.index \subseteq DOMAIN repo.files
    BY <1>2, <1>5
  <2>2. E!FindSafetensorsShards(repo)
          = E!Good([l \in 1 .. E!Cardinality(repo.index) |-> repo.files[E!Sorted(repo.index)[l]]])
    BY Zenon, <1>5, <2>1 DEF E!FindSafetensorsShards
  <2> QED
    BY <1>3, <1>5, <2>2
<1>7. [l \in 1 .. 2 |-> files[E!Sorted({1, 2})[l]]] = files
  <2>1. \A l \in 1 .. 2 : E!Sorted({1, 2})[l] = l
    BY <1>4
  <2> QED
    BY Zenon, <1>2, <2>1
<1> QED
  BY Zenon, <1>6, <1>7 DEF repo, files

(* What is built. *)
Whole(i) == i.damage.at \notin Present(i) /\ (i.family = "bert" => i.dtype # "BF16")

LEMMA BuiltIs ==
  ASSUME NEW i, EmbedOK(i)
  PROVE  /\ Built(i).ok <=> Whole(i) /\ (i.build = "consumed" => E!Offloaded(i.cfg) = {})
         /\ Built(i).ok => Provides(Built(i).value, i) /\ Built(i).value.max_len = E!MaxLen(i.cfg)
<1>1. i.family \in {"bert", "decoder"}
      /\ i.build \in (IF i.family = "bert" THEN {"local"} ELSE {"local", "hub", "shared", "consumed"})
  BY Zenon DEF EmbedOK
<1>2. CASE i.family = "bert"
  <2> DEFINE w == E!BertFromSafetensors(BertShard(i), i.cfg)
             exec == E!Provisioned(i.cfg, E!BertKinds, w.value.t)
             e == [family |-> "bert", cfg |-> i.cfg, weights |-> w.value, exec |-> exec,
                   max_len |-> E!MaxLen(i.cfg), close |-> {102}]
  <2>1. w.ok <=> Whole(i)
    <3>1. w.ok <=> i.damage.at \notin E!BertTensors(i.cfg) /\ i.dtype # "BF16"
      BY Zenon, <1>2, BertLoads
    <3> QED
      BY Zenon, <1>2, <3>1 DEF Whole, Present
  <2>2. Built(i) = IF w.ok THEN E!Good(e) ELSE w
    BY Zenon, <1>2 DEF Built, BertShard, E!BertFromLocal, E!BertNew, E!BertProvisionInto
  <2>3. w.ok => Full(w.value, i)
    BY Zenon, <1>2, BertWeights
  <2>4. i.build # "consumed"
    BY <1>1, <1>2
  <2> HIDE DEF w
  <2>5. /\ DOMAIN e = Fields
        /\ e.family = i.family /\ e.cfg = i.cfg /\ e.close = (IF i.family = "bert" THEN {102} ELSE {})
        /\ e.weights = w.value /\ e.exec = exec /\ exec = E!Provisioned(i.cfg, KindsOf(i), w.value.t)
        /\ e.max_len = E!MaxLen(i.cfg)
    BY <1>2 DEF KindsOf, Fields
  <2> HIDE DEF e, exec
  <2>6. w.ok => Provides(e, i)
    BY Zenon, <2>3, <2>5, ProvidesWhatItNeeds
  <2> QED
    BY <2>1, <2>2, <2>4, <2>5, <2>6 DEF E!Good
<1>3. CASE i.family = "decoder"
  <2> DEFINE sh == DecoderShards(i)
             w == E!FromSafetensors(sh, i.cfg)
             hub == [single |-> {}, index |-> {1, 2}, files |-> sh]
             first == E!QwenNew(i.cfg, w.value)
             last == E!WithSharedWeights(i.cfg, IF i.build = "shared" THEN w.value ELSE first.value.weights)
  <2>1. i.family # "bert" /\ i.build \in {"local", "hub", "shared", "consumed"}
    BY <1>1, <1>3
  <2>2. w.ok <=> Whole(i)
    <3>1. w.ok <=> i.damage.at \notin Present(i)
      BY Zenon, <1>3, DecoderLoads
    <3> QED
      BY Zenon, <2>1, <3>1 DEF Whole
  <2>3. w.ok => Full(w.value, i)
    BY Zenon, <1>3, DecoderWeights
  <2>4. E!QwenFromLocal(i.cfg, sh) = IF w.ok THEN first ELSE w
    BY Zenon DEF E!QwenFromLocal
  <2>5. E!QwenFromPretrained(i.cfg, hub) = IF w.ok THEN first ELSE w
    <3>1. E!FindSafetensorsShards(hub) = E!Good(sh)
      BY HubShards
    <3>2. E!Good(sh).ok /\ E!Good(sh).value = sh
      BY DEF E!Good
    <3> HIDE DEF sh, hub
    <3> QED
      BY Zenon, <2>4, <3>1, <3>2 DEF E!QwenFromPretrained
  <2>6. Built(i) = IF ~w.ok THEN w ELSE IF i.build \in {"local", "hub"} THEN first ELSE last
    <3>1. Built(i) = IF i.build = "local" THEN E!QwenFromLocal(i.cfg, sh)
                     ELSE IF i.build = "hub" THEN E!QwenFromPretrained(i.cfg, hub)
                     ELSE IF ~w.ok THEN w ELSE last
      BY Zenon, <2>1 DEF Built
    <3> HIDE DEF w, first, last, sh, hub
    <3> QED
      BY <2>4, <2>5, <3>1
  <2> HIDE DEF w, sh, hub
  <2>7. ASSUME w.ok
        PROVE  first.ok /\ Provides(first.value, i) /\ first.value.max_len = E!MaxLen(i.cfg)
               /\ LeftOver(first.value.weights, i)
    BY Zenon, <1>3, <2>3, <2>7, TakenWeights
  <2> HIDE DEF first
  <2>8. ASSUME w.ok, i.build = "shared"
        PROVE  last.ok /\ Provides(last.value, i) /\ last.value.max_len = E!MaxLen(i.cfg)
    <3>1. last = E!WithSharedWeights(i.cfg, w.value)
      BY Zenon, <2>8
    <3> QED
      BY <1>3, <2>3, <2>8, <3>1, SharedWeights
  <2>9. ASSUME w.ok, i.build = "consumed"
        PROVE  /\ last.ok <=> E!Offloaded(i.cfg) = {}
               /\ last.ok => Provides(last.value, i) /\ last.value.max_len = E!MaxLen(i.cfg)
    <3>1. last = E!WithSharedWeights(i.cfg, first.value.weights)
      BY <2>9
    <3> QED
      BY <1>3, <2>7, <2>9, <3>1, ConsumedWeights
  <2> HIDE DEF last
  <2> QED
    BY <2>1, <2>2, <2>6, <2>7, <2>8, <2>9
<1> QED
  BY Zenon, <1>1, <1>2, <1>3

-----------------------------------------------------------------------------
(* The text of an embedder. *)
Asked(i) == IF i.max_len = {} THEN i.cfg.max_seq_len ELSE CHOOSE n \in i.max_len : TRUE

LEMMA EncodeIs ==
  ASSUME NEW i, EmbedOK(i), NEW e, e.close = (IF i.family = "bert" THEN {102} ELSE {}),
         e.max_len = R!Least(Asked(i), i.cfg.max_position_embeddings), NEW text \in Seq(Nat)
  PROVE  /\ E!Encode(e, text) = Tokens(i, text)
         /\ Tokens(i, text) \in Seq(Nat) /\ Len(Tokens(i, text)) <= i.cfg.max_position_embeddings
<1> DEFINE m == e.max_len
           n == R!Least(Len(text), m)
           bert == i.family = "bert"
           tokens == [k \in 1 .. n |-> IF bert /\ k = n /\ n < Len(text) THEN 102 ELSE text[k]]
           cut == SubSeq(text, 1, m)
<1>1. Asked(i) \in Nat /\ i.cfg.max_position_embeddings \in Nat
  <2>1. /\ i.cfg.max_seq_len \in Nat /\ i.cfg.max_position_embeddings \in Nat
        /\ \A l \in i.max_len : l \in Nat
    BY Zenon DEF EmbedOK
  <2> QED
    BY <2>1 DEF Asked
<1>2. m \in Nat /\ m <= i.cfg.max_position_embeddings
  BY <1>1 DEF R!Least
<1>3. Tokens(i, text) = tokens
  BY Zenon DEF Tokens, Asked
<1>4. n \in Nat /\ n <= m /\ n <= Len(text) /\ Len(text) \in Nat
  BY <1>2 DEF R!Least
<1>5. tokens \in Seq(Nat) /\ Len(tokens) = n
  <2> HIDE DEF n, bert
  <2>1. \A k \in 1 .. n : text[k] \in Nat
    BY <1>4
  <2>2. \A k \in 1 .. n : tokens[k] \in Nat
    BY <2>1
  <2> QED
    BY <1>4, <2>2
<1>6. E!Encode(e, text) = IF Len(text) <= m THEN text
                          ELSE IF cut = <<>> \/ e.close = {} THEN cut
                          ELSE [cut EXCEPT ![Len(cut)] = CHOOSE t \in e.close : TRUE]
  BY Zenon DEF E!Encode
<1> HIDE DEF m, cut
<1>7. CASE Len(text) <= m
  <2>1. n = Len(text)
    BY <1>2, <1>4, <1>7 DEF R!Least
  <2>2. tokens = [k \in 1 .. Len(text) |-> text[k]]
    BY <2>1
  <2>3. text = [k \in 1 .. Len(text) |-> text[k]]
    OBVIOUS
  <2>4. E!Encode(e, text) = text
    BY <1>6, <1>7
  <2> HIDE DEF tokens, n
  <2> QED
    BY <1>1, <1>2, <1>3, <1>4, <1>5, <2>2, <2>3, <2>4
<1>8. CASE m < Len(text)
  <2>1. n = m
    BY <1>2, <1>4, <1>8 DEF R!Least
  <2>2. cut \in Seq(Nat) /\ Len(cut) = m /\ \A k \in 1 .. m : cut[k] = text[k]
    BY <1>2, <1>4, <1>8, SubSeqProperties DEF cut
  <2>3. cut = [k \in 1 .. m |-> text[k]]
    BY <2>2
  <2>4. e.close = {102} => (CHOOSE t \in e.close : TRUE) = 102
    OBVIOUS
  <2>5. E!Encode(e, text) = tokens
    <3>1. CASE m = 0
      <4>1. cut = <<>> /\ tokens = <<>>
        BY <2>1, <2>3, <3>1
      <4> QED
        BY <1>6, <1>8, <1>4, <1>2, <4>1
    <3>2. CASE m # 0 /\ ~bert
      <4>1. tokens = [k \in 1 .. m |-> text[k]]
        BY <2>1, <3>2
      <4> QED
        BY <1>2, <1>4, <1>6, <1>8, <2>3, <3>2, <4>1
    <3>3. CASE m # 0 /\ bert
      <4>1. e.close = {102} /\ cut # <<>>
        BY <2>2, <3>3
      <4>2. E!Encode(e, text) = [cut EXCEPT ![m] = 102]
        <5>1. Len(cut) = m /\ ~(Len(text) <= m) 
          BY <1>2, <1>4, <1>8, <2>2
        <5>2. e.close # {}
          BY <4>1
        <5> QED
          BY <1>6, <2>4, <4>1, <5>1, <5>2
      <4>3. [cut EXCEPT ![m] = 102] = [k \in 1 .. m |-> IF k = m THEN 102 ELSE text[k]]
        BY <1>2, <2>3
      <4>4. tokens = [k \in 1 .. m |-> IF k = m THEN 102 ELSE text[k]]
        BY <1>8, <2>1, <3>3
      <4> QED
        BY <4>2, <4>3, <4>4
    <3> QED
      BY <3>1, <3>2, <3>3
  <2> HIDE DEF tokens, n
  <2> QED
    BY <1>1, <1>2, <1>3, <1>4, <1>5, <2>5
<1> QED
  BY <1>2, <1>4, <1>7, <1>8

(* The key head that serves a query head. *)
Serving(cfg, h) ==
  LET group == cfg.num_attention_heads \div cfg.num_key_value_heads
  IN CHOOSE g \in 1 .. cfg.num_key_value_heads : h \in (g - 1) * group + 1 .. g * group

LEMMA ServingIs ==
  ASSUME NEW cfg, {cfg.num_attention_heads, cfg.num_key_value_heads} \subseteq Nat \ {0},
         cfg.num_attention_heads % cfg.num_key_value_heads = 0, NEW h \in 1 .. cfg.num_attention_heads
  PROVE  Serving(cfg, h) = E!KvHead(cfg, h) /\ E!KvHead(cfg, h) \in 1 .. cfg.num_key_value_heads
<1> DEFINE H == cfg.num_attention_heads
           kv == cfg.num_key_value_heads
           g == H \div kv
           d == (h - 1) \div g
           Serves(s) == h \in (s - 1) * g + 1 .. s * g
<1>1. H \in Nat \ {0} /\ kv \in Nat \ {0} /\ H % kv = 0 /\ h \in 1 .. H
  OBVIOUS
<1>2. E!KvHead(cfg, h) = 1 + d
  BY Zenon DEF E!KvHead
<1>3. Serving(cfg, h) = CHOOSE s \in 1 .. kv : Serves(s)
  BY Zenon DEF Serving
<1> HIDE DEF H, kv
<1>4. g \in Nat /\ H = kv * g
  BY <1>1
<1>5. g >= 1
  <2>1. CASE g = 0
    BY <1>1, <1>4, <2>1
  <2> QED
    BY <1>4, <2>1
<1> HIDE DEF g
<1>6. d \in Nat /\ d * g <= h - 1 /\ h - 1 < (d + 1) * g
  BY <1>1, <1>4, <1>5
<1> HIDE DEF d
<1>7. \A a, b, c \in Nat : a <= b => a * c <= b * c
  OBVIOUS
<1>8. d + 1 \in 1 .. kv
  <2>1. ASSUME d >= kv
        PROVE  FALSE
    <3>1. kv * g <= d * g
      BY <1>1, <1>4, <1>6, <1>7, <2>1
    <3> QED
      BY <1>1, <1>4, <1>6, <3>1
  <2> QED
    BY <1>1, <1>6, <2>1
<1>9. Serves(d + 1)
  BY <1>1, <1>4, <1>6
<1>10. ASSUME NEW s \in 1 .. kv, Serves(s)
       PROVE  s = d + 1
  <2>1. s \in Nat /\ s - 1 \in Nat /\ (s - 1) * g \in Nat /\ s * g \in Nat /\ d * g \in Nat /\ (d + 1) * g \in Nat
        /\ (s - 1) * g + 1 <= h /\ h <= s * g
    BY <1>1, <1>4, <1>6, <1>10
  <2>2. ASSUME s <= d
        PROVE  FALSE
    <3>1. s * g <= d * g
      BY <1>4, <1>6, <1>7, <2>1, <2>2
    <3> QED
      BY <1>1, <1>6, <2>1, <3>1
  <2>3. ASSUME d + 1 <= s - 1
        PROVE  FALSE
    <3>1. (d + 1) * g <= (s - 1) * g
      BY <1>4, <1>6, <1>7, <2>1, <2>3
    <3> QED
      BY <1>1, <1>6, <2>1, <3>1
  <2> QED
    BY <1>6, <2>1, <2>2, <2>3
<1> HIDE DEF Serves
<1>11. (CHOOSE s \in 1 .. kv : Serves(s)) = d + 1
  BY <1>8, <1>9, <1>10
<1> QED
  BY <1>2, <1>3, <1>6, <1>8, <1>11 DEF kv

-----------------------------------------------------------------------------
(* The dispatches of attention agree: scores computed by the engine in a   *)
(* batch, or under its permutation, are those computed in place.           *)
Attended(q, k, v, heads) ==
  [t \in DOMAIN q |-> [h \in 1 .. heads |->
     <<"softmax", [j \in DOMAIN q |-> <<<<"dot", <<"head", h, q[t]>>, <<"head", h, k[j]>>>>, <<"head", h, v[j]>>>>]>>]]

LEMMA BertDispatches ==
  ASSUME NEW q, NEW k, NEW v, NEW heads \in Nat \ {0}, DOMAIN k = DOMAIN q, DOMAIN v = DOMAIN q
  PROVE  /\ E!MultiHeadAttention(q, k, v, heads) = Attended(q, k, v, heads)
         /\ E!MultiHeadAttentionWithOffload(q, k, v, heads) = Attended(q, k, v, heads)
<1> DEFINE Score(h) == E!Dots(E!HeadOf(h, q), E!HeadOf(h, k))
           OfHead(h) == E!SoftmaxAv(Score(h), E!HeadOf(h, v))
           headed == [h \in 1 .. heads |-> OfHead(h)]
           scores == E!OffloadAttentionQktBatched([h \in 1 .. heads |-> E!HeadOf(h, q)], [h \in 1 .. heads |-> E!HeadOf(h, k)])
           Row(h, t) == <<"softmax", [j \in DOMAIN q |-> <<<<"dot", <<"head", h, q[t]>>, <<"head", h, k[j]>>>>, <<"head", h, v[j]>>>>]>>
<1>1. ASSUME NEW h
      PROVE  OfHead(h) = [t \in DOMAIN q |-> Row(h, t)]
  <2>1. Score(h) = [t \in DOMAIN q |-> [j \in DOMAIN q |-> <<"dot", <<"head", h, q[t]>>, <<"head", h, k[j]>>>>]]
    BY DEF E!Dots, E!HeadOf
  <2> HIDE DEF Score
  <2> QED
    BY <2>1 DEF E!SoftmaxAv, E!HeadOf
<1>2. ASSUME NEW h \in 1 .. heads
      PROVE  scores[h] = Score(h)
  BY DEF E!OffloadAttentionQktBatched
<1>3. E!Concat(headed) = Attended(q, k, v, heads)
  <2>1. 1 \in 1 .. heads
    OBVIOUS
  <2>2. headed = [h \in 1 .. heads |-> [t \in DOMAIN q |-> Row(h, t)]]
    <3> HIDE DEF OfHead, Row
    <3> QED
      BY <1>1
  <2>3. Attended(q, k, v, heads) = [t \in DOMAIN q |-> [h \in 1 .. heads |-> Row(h, t)]]
    BY Zenon DEF Attended
  <2> HIDE DEF headed, Row
  <2> QED
    BY <2>1, <2>2, <2>3 DEF E!Concat
<1>4. E!MultiHeadAttention(q, k, v, heads) = E!Concat(headed)
  BY Zenon DEF E!MultiHeadAttention
<1>5. E!MultiHeadAttentionWithOffload(q, k, v, heads) = E!Concat([h \in 1 .. heads |-> E!SoftmaxAv(scores[h], E!HeadOf(h, v))])
  BY Zenon DEF E!MultiHeadAttentionWithOffload
<1>6. [h \in 1 .. heads |-> E!SoftmaxAv(scores[h], E!HeadOf(h, v))] = headed
  <2> HIDE DEF scores, Score
  <2> QED
    BY <1>2
<1> QED
  BY Zenon, <1>3, <1>4, <1>5, <1>6

LEMMA CausalPrefix ==
  ASSUME NEW n \in Nat, NEW s, DOMAIN s = 1 .. n, s = [j \in 1 .. n |-> s[j]], NEW t \in 1 .. n
  PROVE  SubSeq(s, 1, t) = [j \in 1 .. t |-> s[j]]
<1> DEFINE S == {s[j] : j \in 1 .. n}
           p == SubSeq(s, 1, t)
<1>1. s \in Seq(S) /\ Len(s) = n
  <2>1. \A j \in 1 .. n : s[j] \in S
    OBVIOUS
  <2> HIDE DEF S
  <2> QED
    BY <2>1
<1> HIDE DEF S
<1>2. p \in Seq(S) /\ Len(p) = t /\ \A j \in 1 .. t : p[j] = s[j]
  BY <1>1, SubSeqProperties
<1> HIDE DEF p
<1>3. p = [j \in 1 .. t |-> s[j]]
  <2>1. p = [j \in 1 .. Len(p) |-> p[j]]
    BY <1>2
  <2>2. p = [j \in 1 .. t |-> p[j]]
    BY <1>2, <2>1
  <2> QED
    BY <1>2, <2>2
<1> QED
  BY <1>3 DEF p

Caused(cfg, q, k, v, n) ==
  [t \in 1 .. n |-> [h \in 1 .. cfg.num_attention_heads |->
     <<"softmax", [j \in 1 .. t |-> <<<<"dot", q[h][t], k[E!KvHead(cfg, h)][j]>>, v[E!KvHead(cfg, h)][j]>>]>>]]

LEMMA DecoderDispatches ==
  ASSUME NEW cfg, {cfg.num_attention_heads, cfg.num_key_value_heads} \subseteq Nat \ {0},
         cfg.num_attention_heads % cfg.num_key_value_heads = 0,
         NEW n \in Nat, NEW q, NEW k, NEW v,
         DOMAIN q = 1 .. cfg.num_attention_heads, \A h \in DOMAIN q : DOMAIN q[h] = 1 .. n,
         \A g \in 1 .. cfg.num_key_value_heads : DOMAIN k[g] = 1 .. n /\ DOMAIN v[g] = 1 .. n
  PROVE  /\ E!CausalGqaAttention(cfg, q, k, v) = Caused(cfg, q, k, v, n)
         /\ E!CausalGqaAttentionWithOffload(cfg, q, k, v) = Caused(cfg, q, k, v, n)
         /\ E!CausalGqaAttentionPermuted(cfg, q, k, v) = Caused(cfg, q, k, v, n)
<1> DEFINE H == cfg.num_attention_heads
           Kv(h) == E!KvHead(cfg, h)
           Score(h) == E!Dots(q[h], k[Kv(h)])
           OfHead(h) == E!SoftmaxAv(E!ApplyCausalMask(Score(h)), v[Kv(h)])
           headed == [h \in 1 .. H |-> OfHead(h)]
           Row(h, t) == <<"softmax", [j \in 1 .. t |-> <<<<"dot", q[h][t], k[Kv(h)][j]>>, v[Kv(h)][j]>>]>>
           batched == E!OffloadAttentionQktBatched(q, E!Replicated(cfg, k))
<1>0. H \in Nat \ {0} /\ DOMAIN q = 1 .. H
  OBVIOUS
<1>1. \A h \in 1 .. H : Kv(h) \in 1 .. cfg.num_key_value_heads
  BY Zenon, ServingIs
<1> HIDE DEF Kv
<1>2. \A h \in 1 .. H : DOMAIN q[h] = 1 .. n /\ DOMAIN k[Kv(h)] = 1 .. n /\ DOMAIN v[Kv(h)] = 1 .. n
  BY Zenon, <1>1
<1>3. ASSUME NEW h \in 1 .. H
      PROVE  OfHead(h) = [t \in 1 .. n |-> Row(h, t)]
  <2> DEFINE Pair(t, j) == <<"dot", q[h][t], k[Kv(h)][j]>>
             masked == E!ApplyCausalMask(Score(h))
  <2>1. Score(h) = [t \in 1 .. n |-> [j \in 1 .. n |-> Pair(t, j)]]
    <3> HIDE DEF Kv
    <3> QED
      BY <1>2 DEF E!Dots
  <2>2. masked = [t \in 1 .. n |-> SubSeq([j \in 1 .. n |-> Pair(t, j)], 1, t)]
    <3> HIDE DEF Score, Pair
    <3> QED
      BY <2>1 DEF E!ApplyCausalMask
  <2>3. ASSUME NEW t \in 1 .. n
        PROVE  SubSeq([j \in 1 .. n |-> Pair(t, j)], 1, t) = [j \in 1 .. t |-> Pair(t, j)]
    <3> DEFINE s == [j \in 1 .. n |-> Pair(t, j)]
    <3>1. DOMAIN s = 1 .. n /\ s = [j \in 1 .. n |-> s[j]] /\ \A j \in 1 .. t : s[j] = Pair(t, j)
      <4> HIDE DEF Pair
      <4> QED
        OBVIOUS
    <3> HIDE DEF s, Pair
    <3>2. SubSeq(s, 1, t) = [j \in 1 .. t |-> s[j]]
      BY <3>1, CausalPrefix
    <3>3. [j \in 1 .. t |-> s[j]] = [j \in 1 .. t |-> Pair(t, j)]
      BY <3>1
    <3> QED
      BY Zenon, <3>2, <3>3 DEF s
  <2>4. masked = [t \in 1 .. n |-> [j \in 1 .. t |-> Pair(t, j)]]
    <3> HIDE DEF masked, Pair
    <3> QED
      BY <2>2, <2>3
  <2>5. OfHead(h) = [t \in DOMAIN masked |-> <<"softmax", [j \in DOMAIN masked[t] |-> <<masked[t][j], v[Kv(h)][j]>>]>>]
    BY Zenon DEF E!SoftmaxAv
  <2> HIDE DEF masked, OfHead
  <2>6. \A t \in 1 .. n : <<"softmax", [j \in DOMAIN masked[t] |-> <<masked[t][j], v[Kv(h)][j]>>]>> = Row(h, t)
    BY <2>4
  <2> HIDE DEF Row
  <2> QED
    BY <2>4, <2>5, <2>6
<1>4. E!Concat(headed) = Caused(cfg, q, k, v, n)
  <2>1. 1 \in 1 .. H
    BY <1>0
  <2>2. headed = [h \in 1 .. H |-> [t \in 1 .. n |-> Row(h, t)]]
    <3> HIDE DEF OfHead, Row, H
    <3> QED
      BY <1>3
  <2>3. Caused(cfg, q, k, v, n) = [t \in 1 .. n |-> [h \in 1 .. H |-> Row(h, t)]]
    BY Zenon DEF Caused, Kv
  <2> HIDE DEF headed, Row, H
  <2> QED
    BY <2>1, <2>2, <2>3 DEF E!Concat
<1>5. E!CausalGqaAttention(cfg, q, k, v) = E!Concat(headed)
  BY Zenon, <1>0 DEF E!CausalGqaAttention, Kv
<1>6. E!CausalGqaAttentionWithOffload(cfg, q, k, v)
        = E!Concat([h \in 1 .. H |-> E!SoftmaxAv(E!ApplyCausalMask(batched[h]), v[Kv(h)])])
  BY Zenon, <1>0 DEF E!CausalGqaAttentionWithOffload, Kv
<1>7. [h \in 1 .. H |-> E!SoftmaxAv(E!ApplyCausalMask(batched[h]), v[Kv(h)])] = headed
  <2>1. \A h \in 1 .. H : batched[h] = Score(h)
    <3>1. batched = [h \in 1 .. H |-> E!Dots(q[h], E!Replicated(cfg, k)[h])]
      BY Zenon, <1>0 DEF E!OffloadAttentionQktBatched
    <3>2. \A h \in 1 .. H : E!Replicated(cfg, k)[h] = k[Kv(h)]
      BY DEF E!Replicated, Kv
    <3> HIDE DEF batched, H
    <3> QED
      BY <3>1, <3>2
  <2> HIDE DEF batched, Score, H
  <2> QED
    BY <2>1
<1>8. E!CausalGqaAttentionPermuted(cfg, q, k, v) = E!Concat(headed)
  <2> DEFINE kk == E!Replicated(cfg, k)
             vv == E!Replicated(cfg, v)
  <2>1. \A h \in 1 .. H : kk[h] = k[Kv(h)] /\ vv[h] = v[Kv(h)]
    BY DEF E!Replicated, Kv
  <2>2. E!OffloadAttentionPermuted(q, kk, vv) = [h \in 1 .. H |-> E!SoftmaxAv(E!ApplyCausalMask(E!Dots(q[h], kk[h])), vv[h])]
    BY Zenon, <1>0 DEF E!OffloadAttentionPermuted
  <2>3. E!CausalGqaAttentionPermuted(cfg, q, k, v) = E!Concat(E!OffloadAttentionPermuted(q, kk, vv))
    BY Zenon DEF E!CausalGqaAttentionPermuted
  <2>4. [h \in 1 .. H |-> E!SoftmaxAv(E!ApplyCausalMask(E!Dots(q[h], kk[h])), vv[h])] = headed
    <3> HIDE DEF kk, vv, H
    <3> QED
      BY <2>1
  <2> QED
    BY Zenon, <2>2, <2>3, <2>4
<1> QED
  BY Zenon, <1>4, <1>5, <1>6, <1>7, <1>8

-----------------------------------------------------------------------------
(* A layer of an embedder that has its weights is a layer of the model.    *)
LEMMA BertLayerIs ==
  ASSUME NEW i, EmbedOK(i), i.family = "bert", NEW e, Provides(e, i), NEW li \in E!Layers(i.cfg),
         NEW n \in Nat, NEW x, DOMAIN x = 1 .. n
  PROVE  E!EncoderBlock(e, li, x) = BertLayer(i, li, x)
<1> DEFINE T(name) == <<"f32", i.dtype, <<li, name>>>>
           Lin(y, w, b) == <<"plus", <<"times", y, <<"t", T(w)>>>>, T(b)>>
           Norm(y, g, b) == <<"layer_norm", y, T(g), T(b)>>
           S(h, t, w, b) == <<"head", h, Lin(x[t], w, b)>>
           heads == i.cfg.num_attention_heads
           Ctx(t) == [h \in 1 .. heads |-> <<"softmax", [j \in DOMAIN x |->
                       <<<<"dot", S(h, t, "wq", "bq"), S(h, j, "wk", "bk")>>, S(h, j, "wv", "bv")>>]>>]
           A(t) == Norm(<<"plus", x[t], Lin(Ctx(t), "wo", "bo")>>, "attn_ln_w", "attn_ln_b")
           F(y) == Lin(<<"gelu", Lin(y, "w_ffn_up", "b_ffn_up")>>, "w_ffn_down", "b_ffn_down")
           Op(kind) == E!Operand(e, E!BertKinds, li, kind)
           V(name) == e.weights.t[<<li, name>>]
           Project(kind, bias) == [t \in DOMAIN x |-> E!Plus(E!Times(x[t], Op(kind)), V(bias))]
           ctx == E!BertAttention(e, li, x)
<1>1. heads \in Nat \ {0}
  BY DEF EmbedOK
<1>2. e.cfg = i.cfg /\ KindsOf(i) = E!BertKinds /\ MatricesOf(i) = E!BertMatrices /\ Present(i) = E!BertTensors(i.cfg)
  BY DEF Provides, KindsOf, MatricesOf, Present
<1>3. \A kind \in DOMAIN E!BertKinds : Op(kind) = <<"t", T(E!BertKinds[kind])>>
  <2>1. \A kind \in DOMAIN E!BertKinds : Op(kind) = WeightOf(i, <<li, E!BertKinds[kind]>>)
    BY Zenon, <1>2 DEF Provides
  <2>2. ASSUME NEW kind \in DOMAIN E!BertKinds
        PROVE  WeightOf(i, <<li, E!BertKinds[kind]>>) = <<"t", T(E!BertKinds[kind])>>
    <3>1. <<li, E!BertKinds[kind]>>[2] \in E!BertMatrices
      BY DEF E!BertMatrices
    <3> QED
      BY <3>1 DEF WeightOf
  <2> QED
    BY Zenon, <2>1, <2>2
<1>4. /\ Op("Q") = <<"t", T("wq")>> /\ Op("K") = <<"t", T("wk")>> /\ Op("V") = <<"t", T("wv")>> /\ Op("O") = <<"t", T("wo")>>
      /\ Op("FfnUp") = <<"t", T("w_ffn_up")>> /\ Op("FfnDown") = <<"t", T("w_ffn_down")>>
  <2>1. {"Q", "K", "V", "O", "FfnUp", "FfnDown"} = DOMAIN E!BertKinds
    BY BertNames
  <2> HIDE DEF T, Op
  <2> QED
    BY Zenon, <1>3, <2>1, BertNames
<1>5. \A name \in E!BertVectors : V(name) = T(name)
  <2> SUFFICES ASSUME NEW name \in E!BertVectors
               PROVE  V(name) = T(name)
    OBVIOUS
  <2>1. name \notin E!BertMatrices
    BY BertNames DEF E!BertVectors
  <2>2. <<li, name>> \in Present(i) /\ <<li, name>>[2] = name
    BY <1>2 DEF E!BertTensors
  <2>3. V(name) = WeightOf(i, <<li, name>>)
    BY Zenon, <1>2, <2>1, <2>2 DEF Provides
  <2> QED
    BY <2>1, <2>2, <2>3 DEF WeightOf
<1>6. /\ V("bq") = T("bq") /\ V("bk") = T("bk") /\ V("bv") = T("bv") /\ V("bo") = T("bo")
      /\ V("attn_ln_w") = T("attn_ln_w") /\ V("attn_ln_b") = T("attn_ln_b")
      /\ V("b_ffn_up") = T("b_ffn_up") /\ V("b_ffn_down") = T("b_ffn_down")
      /\ V("ffn_ln_w") = T("ffn_ln_w") /\ V("ffn_ln_b") = T("ffn_ln_b")
  <2> HIDE DEF T, V
  <2> QED
    BY Zenon, <1>5 DEF E!BertVectors
<1>7. ctx = Attended(Project("Q", "bq"), Project("K", "bk"), Project("V", "bv"), heads)
  <2> DEFINE q == Project("Q", "bq")
             k == Project("K", "bk")
             v == Project("V", "bv")
  <2>1. DOMAIN k = DOMAIN q /\ DOMAIN v = DOMAIN q
    OBVIOUS
  <2>2. ctx = IF E!OffloadLayer(i.cfg, li) /\ E!OutAttnMultEnabledFor(i.cfg, Len(x))
              THEN E!MultiHeadAttentionWithOffload(q, k, v, heads)
              ELSE E!MultiHeadAttention(q, k, v, heads)
    BY Zenon, <1>2 DEF E!BertAttention
  <2> HIDE DEF q, k, v, ctx, heads
  <2>3. /\ E!MultiHeadAttention(q, k, v, heads) = Attended(q, k, v, heads)
        /\ E!MultiHeadAttentionWithOffload(q, k, v, heads) = Attended(q, k, v, heads)
    BY Zenon, <1>1, <2>1, BertDispatches
  <2>4. ctx = Attended(q, k, v, heads)
    BY <2>2, <2>3
  <2> QED
    BY Zenon, <2>4 DEF q, k, v
<1> HIDE DEF ctx, V, Op
<1>8. \A t \in DOMAIN x : ctx[t] = Ctx(t)
  <2> DEFINE q == Project("Q", "bq")
             k == Project("K", "bk")
             v == Project("V", "bv")
  <2>1. \A t \in DOMAIN x : q[t] = Lin(x[t], "wq", "bq") /\ k[t] = Lin(x[t], "wk", "bk") /\ v[t] = Lin(x[t], "wv", "bv")
    <3> HIDE DEF T
    <3> QED
      BY <1>4, <1>6 DEF E!Plus, E!Times
  <2>2. DOMAIN q = DOMAIN x
    OBVIOUS
  <2>3. ctx = Attended(q, k, v, heads)
    BY Zenon, <1>7
  <2> HIDE DEF q, k, v, heads
  <2>4. ASSUME NEW t \in DOMAIN x
        PROVE  ctx[t] = [h \in 1 .. heads |-> <<"softmax", [j \in DOMAIN x |->
                         <<<<"dot", <<"head", h, q[t]>>, <<"head", h, k[j]>>>>, <<"head", h, v[j]>>>>]>>]
    BY <2>2, <2>3 DEF Attended
  <2> HIDE DEF Lin
  <2> QED
    BY <2>1, <2>4
<1> DEFINE B(t) == E!LayerNorm(E!Plus(x[t], E!Plus(E!Times(ctx[t], Op("O")), V("bo"))), V("attn_ln_w"), V("attn_ln_b"))
           G(y) == E!Plus(E!Times(E!Gelu(E!Plus(E!Times(y, Op("FfnUp")), V("b_ffn_up"))), Op("FfnDown")), V("b_ffn_down"))
<1>9. E!EncoderBlock(e, li, x) = [t \in DOMAIN x |-> E!LayerNorm(E!Plus(B(t), G(B(t))), V("ffn_ln_w"), V("ffn_ln_b"))]
  BY Zenon DEF E!EncoderBlock, ctx, V, Op
<1>10. BertLayer(i, li, x) = [t \in DOMAIN x |-> Norm(<<"plus", A(t), F(A(t))>>, "ffn_ln_w", "ffn_ln_b")]
  BY Zenon DEF BertLayer
<1>11. \A t \in DOMAIN x : B(t) = A(t)
  <2> HIDE DEF T, Ctx
  <2> QED
    BY <1>4, <1>6, <1>8 DEF E!LayerNorm, E!Plus, E!Times
<1>12. \A y : G(y) = F(y)
  <2> HIDE DEF T
  <2> QED
    BY <1>4, <1>6 DEF E!Gelu, E!Plus, E!Times
<1>13. \A y : E!LayerNorm(y, V("ffn_ln_w"), V("ffn_ln_b")) = Norm(y, "ffn_ln_w", "ffn_ln_b")
  <2> HIDE DEF T
  <2> QED
    BY <1>6 DEF E!LayerNorm
<1>14. \A y, z : E!Plus(y, z) = <<"plus", y, z>>
  BY Zenon DEF E!Plus
<1> HIDE DEF A, B, F, G, Norm
<1>15. \A t \in DOMAIN x : E!LayerNorm(E!Plus(B(t), G(B(t))), V("ffn_ln_w"), V("ffn_ln_b"))
                            = Norm(<<"plus", A(t), F(A(t))>>, "ffn_ln_w", "ffn_ln_b")
  BY <1>11, <1>12, <1>13, <1>14
<1> QED
  BY <1>9, <1>10, <1>15

LEMMA DecoderLayerIs ==
  ASSUME NEW i, EmbedOK(i), i.family = "decoder", NEW e, Provides(e, i), NEW li \in E!Layers(i.cfg),
         NEW n \in Nat, NEW x, DOMAIN x = 1 .. n
  PROVE  E!DecoderBlock(e, li, x) = DecoderLayer(i, li, x)
<1> DEFINE cfg == i.cfg
           M(name) == <<"t", <<"bf16", i.dtype, <<li, name>>>>>>
           Vec(name) == <<"f32", i.dtype, <<li, name>>>>
           Norm(y, name) == <<"rms_norm", y, Vec(name)>>
           QkNorm(y, name) == IF i.damage = [at |-> <<li, name>>, what |-> "missing"] THEN y ELSE Norm(y, name)
           S(h, t, w) == <<"head", h, <<"times", Norm(x[t], "norm_attn"), M(w)>>>>
           Q(h, t) == <<"rope", t - 1, QkNorm(S(h, t, "wq"), "q_norm")>>
           K(h, t) == <<"rope", t - 1, QkNorm(S(h, t, "wk"), "k_norm")>>
           Ctx(t) == [h \in 1 .. cfg.num_attention_heads |-> <<"softmax", [j \in 1 .. t |->
                       <<<<"dot", Q(h, t), K(Serving(cfg, h), j)>>, S(Serving(cfg, h), j, "wv")>>]>>]
           A(t) == <<"plus", x[t], <<"times", Ctx(t), M("wo")>>>>
           F(y) == <<"times", <<"swiglu", <<"times", Norm(y, "norm_ffn"), M("w_gate")>>, <<"times", Norm(y, "norm_ffn"), M("w_up")>>>>,
                     M("w_down")>>
           heads == cfg.num_attention_heads
           kv == cfg.num_key_value_heads
           Op(kind) == E!Operand(e, E!Kinds, li, kind)
           V(name) == e.weights.t[<<li, name>>]
           Project(kind, m) ==
             LET projected == [t \in DOMAIN x |-> E!Times(E!RmsNorm(x[t], V("norm_attn")), Op(kind))]
             IN [h \in 1 .. m |-> E!HeadOf(h, projected)]
           q == E!RopeApply(E!ApplyQkNorm(e, li, "q_norm", Project("Q", heads)))
           k == E!RopeApply(E!ApplyQkNorm(e, li, "k_norm", Project("K", kv)))
           v == Project("V", kv)
           ctx == E!DecoderAttention(e, li, x)
<1>1. /\ {heads, kv} \subseteq Nat \ {0} /\ heads % kv = 0
      /\ i.damage = [at |-> i.damage.at, what |-> i.damage.what]
  BY Zenon DEF EmbedOK
<1>2. /\ e.cfg = i.cfg /\ KindsOf(i) = E!Kinds /\ MatricesOf(i) = E!Matrices
      /\ DOMAIN e.weights.t \subseteq Present(i)
      /\ i.family # "bert"
  BY DEF Provides, KindsOf, MatricesOf
<1>3. \A kind \in DOMAIN E!Kinds : Op(kind) = M(E!Kinds[kind])
  <2>1. \A kind \in DOMAIN E!Kinds : Op(kind) = WeightOf(i, <<li, E!Kinds[kind]>>)
    BY Zenon, <1>2 DEF Provides
  <2>2. ASSUME NEW kind \in DOMAIN E!Kinds
        PROVE  WeightOf(i, <<li, E!Kinds[kind]>>) = M(E!Kinds[kind])
    <3>1. <<li, E!Kinds[kind]>>[2] \in E!Matrices
      BY DEF E!Matrices
    <3> QED
      BY <1>2, <3>1 DEF WeightOf
  <2> QED
    BY Zenon, <2>1, <2>2
<1>4. /\ Op("Q") = M("wq") /\ Op("K") = M("wk") /\ Op("V") = M("wv") /\ Op("O") = M("wo")
      /\ Op("FfnGate") = M("w_gate") /\ Op("FfnUp") = M("w_up") /\ Op("FfnDown") = M("w_down")
  <2>1. {"Q", "K", "V", "O", "FfnGate", "FfnUp", "FfnDown"} = DOMAIN E!Kinds
    BY Names
  <2> HIDE DEF M, Op
  <2> QED
    BY Zenon, <1>3, <2>1, Names
<1>5. ASSUME NEW name \in {"norm_attn", "norm_ffn", "q_norm", "k_norm"}, <<li, name>> \in Present(i)
      PROVE  <<li, name>> \in DOMAIN e.weights.t /\ V(name) = Vec(name)
  <2>1. name \notin E!Matrices /\ name # "embed_tokens"
    BY Names
  <2>2. <<li, name>>[2] = name
    OBVIOUS
  <2>3. <<li, name>> \in DOMAIN e.weights.t /\ V(name) = WeightOf(i, <<li, name>>)
    BY Zenon, <1>2, <1>5, <2>1, <2>2 DEF Provides
  <2> QED
    BY <1>2, <2>1, <2>2, <2>3 DEF WeightOf
<1>6. /\ <<li, "norm_attn">> \in Present(i) /\ <<li, "norm_ffn">> \in Present(i)
      /\ \A name \in {"q_norm", "k_norm"} :
           <<li, name>> \in Present(i) <=> ~(i.damage = [at |-> <<li, name>>, what |-> "missing"])
  <2>1. ASSUME NEW name \in {"norm_attn", "norm_ffn", "q_norm", "k_norm"}
        PROVE  <<li, name>> \in E!DecoderTensors(cfg) /\ <<li, name>>[2] = name
    BY <2>1 DEF E!DecoderTensors
  <2>2. \A name \in {"norm_attn", "norm_ffn", "q_norm", "k_norm"} :
          <<li, name>> \in Present(i) <=>
            ~(name \in MaybeMissing /\ <<li, name>> = i.damage.at /\ i.damage.what = "missing")
    BY <1>2, <2>1 DEF Present
  <2>3. \A l : i.damage = [at |-> l, what |-> "missing"] <=> l = i.damage.at /\ i.damage.what = "missing"
    BY <1>1
  <2>4. "norm_attn" \notin MaybeMissing /\ "norm_ffn" \notin MaybeMissing /\ {"q_norm", "k_norm"} = MaybeMissing
    BY DEF MaybeMissing
  <2> QED
    BY Zenon, <2>2, <2>3, <2>4
<1>7. V("norm_attn") = Vec("norm_attn") /\ V("norm_ffn") = Vec("norm_ffn")
  <2> HIDE DEF V, Vec
  <2> QED
    BY Zenon, <1>5, <1>6
<1>8. \A name \in {"q_norm", "k_norm"} :
        IF i.damage = [at |-> <<li, name>>, what |-> "missing"] THEN <<li, name>> \notin DOMAIN e.weights.t
        ELSE <<li, name>> \in DOMAIN e.weights.t /\ V(name) = Vec(name)
  <2> HIDE DEF V, Vec
  <2> QED
    BY Zenon, <1>2, <1>5, <1>6
<1> HIDE DEF Op, V
<1> DEFINE Turned(name, m, p) ==
             E!RopeApply(E!ApplyQkNorm(e, li, name, p))
               = [h \in 1 .. m |-> [t \in 1 .. n |-> <<"rope", t - 1, QkNorm(p[h][t], name)>>]]
<1>9. ASSUME NEW name \in {"q_norm", "k_norm"}, NEW m \in Nat, NEW p, p = [h \in 1 .. m |-> p[h]],
             \A h \in 1 .. m : p[h] = [t \in 1 .. n |-> p[h][t]]
      PROVE  Turned(name, m, p)
  <2> DEFINE normed == E!ApplyQkNorm(e, li, name, p)
  <2>1. normed = [h \in 1 .. m |-> [t \in 1 .. n |-> QkNorm(p[h][t], name)]]
    <3> HIDE DEF Vec
    <3>1. CASE i.damage = [at |-> <<li, name>>, what |-> "missing"]
      <4>1. normed = p
        BY Zenon, <1>8, <3>1 DEF E!ApplyQkNorm
      <4>2. p = [h \in 1 .. m |-> [t \in 1 .. n |-> p[h][t]]]
        BY <1>9
      <4>3. \A y : QkNorm(y, name) = y
        BY Zenon, <3>1
      <4> HIDE DEF normed, QkNorm
      <4> QED
        BY <4>1, <4>2, <4>3
    <3>2. CASE ~(i.damage = [at |-> <<li, name>>, what |-> "missing"])
      <4>1. normed = [h \in DOMAIN p |-> [t \in DOMAIN p[h] |-> E!RmsNorm(p[h][t], V(name))]]
        BY Zenon, <1>8, <3>2 DEF E!ApplyQkNorm, V
      <4>2. \A y : QkNorm(y, name) = E!RmsNorm(y, V(name))
        <5>1. V(name) = Vec(name)
          BY Zenon, <1>8, <3>2
        <5>2. \A y : QkNorm(y, name) = Norm(y, name)
          BY Zenon, <3>2
        <5> QED
          BY Zenon, <5>1, <5>2 DEF E!RmsNorm
      <4>3. DOMAIN p = 1 .. m /\ \A h \in 1 .. m : DOMAIN p[h] = 1 .. n
        BY <1>9
      <4> HIDE DEF normed, QkNorm
      <4> QED
        BY <4>1, <4>2, <4>3
    <3> QED
      BY Zenon, <3>1, <3>2
  <2> HIDE DEF normed, QkNorm
  <2> QED
    BY <2>1 DEF E!RopeApply, normed
<1> HIDE DEF Turned
<1>10. ASSUME NEW kind \in {"Q", "K", "V"}, NEW name \in {"wq", "wk", "wv"}, Op(kind) = M(name), NEW m \in Nat
       PROVE  Project(kind, m) = [h \in 1 .. m |-> [t \in 1 .. n |-> S(h, t, name)]]
  <2> HIDE DEF M, Vec
  <2>1. \A t : E!Times(E!RmsNorm(x[t], V("norm_attn")), Op(kind)) = <<"times", Norm(x[t], "norm_attn"), M(name)>>
    BY Zenon, <1>7, <1>10 DEF E!Times, E!RmsNorm
  <2> DEFINE projected == [t \in DOMAIN x |-> E!Times(E!RmsNorm(x[t], V("norm_attn")), Op(kind))]
  <2>2. projected = [t \in 1 .. n |-> <<"times", Norm(x[t], "norm_attn"), M(name)>>]
    BY <2>1
  <2> HIDE DEF projected, Norm
  <2>3. \A h : E!HeadOf(h, projected) = [t \in 1 .. n |-> S(h, t, name)]
    BY <2>2 DEF E!HeadOf
  <2>4. Project(kind, m) = [h \in 1 .. m |-> E!HeadOf(h, projected)]
    BY Zenon DEF projected
  <2> HIDE DEF S, Project
  <2> QED
    BY <2>3, <2>4
<1>11. /\ q = [h \in 1 .. heads |-> [t \in 1 .. n |-> Q(h, t)]]
       /\ k = [h \in 1 .. kv |-> [t \in 1 .. n |-> K(h, t)]]
       /\ v = [h \in 1 .. kv |-> [t \in 1 .. n |-> S(h, t, "wv")]]
  <2> DEFINE pq == Project("Q", heads)
             pk == Project("K", kv)
  <2>1. heads \in Nat /\ kv \in Nat
    BY <1>1
  <2>2. /\ pq = [h \in 1 .. heads |-> [t \in 1 .. n |-> S(h, t, "wq")]]
        /\ pk = [h \in 1 .. kv |-> [t \in 1 .. n |-> S(h, t, "wk")]]
        /\ v = [h \in 1 .. kv |-> [t \in 1 .. n |-> S(h, t, "wv")]]
    <3> HIDE DEF Project, S, M, heads, kv
    <3> QED
      BY <1>4, <1>10, <2>1
  <2> HIDE DEF pq, pk, S, heads, kv
  <2>3. /\ pq = [h \in 1 .. heads |-> pq[h]] /\ \A h \in 1 .. heads : pq[h] = [t \in 1 .. n |-> pq[h][t]]
        /\ pk = [h \in 1 .. kv |-> pk[h]] /\ \A h \in 1 .. kv : pk[h] = [t \in 1 .. n |-> pk[h][t]]
    BY <2>2
  <2>4. /\ \A h \in 1 .. heads, t \in 1 .. n : pq[h][t] = S(h, t, "wq")
        /\ \A h \in 1 .. kv, t \in 1 .. n : pk[h][t] = S(h, t, "wk")
    BY <2>2
  <2> HIDE DEF QkNorm
  <2>5. Turned("q_norm", heads, pq)
    BY Zenon, <1>9, <2>1, <2>3
  <2>6. Turned("k_norm", kv, pk)
    BY Zenon, <1>9, <2>1, <2>3
  <2>7. q = E!RopeApply(E!ApplyQkNorm(e, li, "q_norm", pq)) /\ k = E!RopeApply(E!ApplyQkNorm(e, li, "k_norm", pk))
    BY Zenon DEF pq, pk
  <2> HIDE DEF q, k, v
  <2>8. q = [h \in 1 .. heads |-> [t \in 1 .. n |-> Q(h, t)]]
    BY <2>4, <2>5, <2>7 DEF Turned
  <2>9. k = [h \in 1 .. kv |-> [t \in 1 .. n |-> K(h, t)]]
    BY <2>4, <2>6, <2>7 DEF Turned
  <2> QED
    BY Zenon, <2>2, <2>8, <2>9
<1>12. ctx = Caused(cfg, q, k, v, n)
  <2>1. ctx = IF E!OffloadLayer(cfg, li) /\ E!OutAttnMultEnabledFor(cfg, Len(x)) THEN E!CausalGqaAttentionWithOffload(cfg, q, k, v)
              ELSE IF E!OffloadLayer(cfg, li) /\ E!PermAttentionEnabledFor(cfg, Len(x)) THEN E!CausalGqaAttentionPermuted(cfg, q, k, v)
              ELSE E!CausalGqaAttention(cfg, q, k, v)
    BY Zenon, <1>2 DEF E!DecoderAttention, V, Op
  <2> HIDE DEF q, k, v, ctx, Q, K, S
  <2>2. /\ DOMAIN q = 1 .. heads /\ \A h \in DOMAIN q : DOMAIN q[h] = 1 .. n
        /\ \A g \in 1 .. kv : DOMAIN k[g] = 1 .. n /\ DOMAIN v[g] = 1 .. n
    BY <1>11
  <2>3. /\ E!CausalGqaAttention(cfg, q, k, v) = Caused(cfg, q, k, v, n)
        /\ E!CausalGqaAttentionWithOffload(cfg, q, k, v) = Caused(cfg, q, k, v, n)
        /\ E!CausalGqaAttentionPermuted(cfg, q, k, v) = Caused(cfg, q, k, v, n)
    BY Zenon, <1>1, <2>2, DecoderDispatches
  <2> QED
    BY <2>1, <2>3
<1>13. \A t \in 1 .. n : ctx[t] = Ctx(t)
  <2>1. \A h \in 1 .. heads : Serving(cfg, h) = E!KvHead(cfg, h) /\ E!KvHead(cfg, h) \in 1 .. kv
    BY Zenon, <1>1, ServingIs
  <2> SUFFICES ASSUME NEW t \in 1 .. n
               PROVE  ctx[t] = Ctx(t)
    BY Zenon
  <2> HIDE DEF q, k, v, ctx, Q, K, S
  <2>2. ctx[t] = [h \in 1 .. heads |->
          <<"softmax", [j \in 1 .. t |-> <<<<"dot", q[h][t], k[E!KvHead(cfg, h)][j]>>, v[E!KvHead(cfg, h)][j]>>]>>]
    BY <1>12 DEF Caused
  <2>3. ASSUME NEW h \in 1 .. heads, NEW j \in 1 .. t
        PROVE  /\ q[h][t] = Q(h, t) /\ k[E!KvHead(cfg, h)][j] = K(Serving(cfg, h), j)
               /\ v[E!KvHead(cfg, h)][j] = S(Serving(cfg, h), j, "wv")
    BY <1>11, <2>1
  <2> QED
    BY <2>2, <2>3
<1> DEFINE B(t) == E!Plus(x[t], E!Times(ctx[t], Op("O")))
           G(y) == LET normed == E!RmsNorm(y, V("norm_ffn"))
                   IN E!Times(E!Swiglu(E!Times(normed, Op("FfnGate")), E!Times(normed, Op("FfnUp"))), Op("FfnDown"))
<1>14. E!DecoderBlock(e, li, x) = [t \in DOMAIN x |-> E!Plus(B(t), G(B(t)))]
  BY Zenon DEF E!DecoderBlock, V, Op
<1>15. DecoderLayer(i, li, x) = [t \in DOMAIN x |-> <<"plus", A(t), F(A(t))>>]
  BY Zenon DEF DecoderLayer, Serving
<1> HIDE DEF M, Vec, ctx
<1>16. \A t \in 1 .. n : B(t) = A(t)
  <2> HIDE DEF Ctx
  <2> QED
    BY <1>4, <1>13 DEF E!Plus, E!Times
<1>17. \A y : G(y) = F(y)
  BY <1>4, <1>7 DEF E!Swiglu, E!Times, E!RmsNorm
<1>18. \A y, z : E!Plus(y, z) = <<"plus", y, z>>
  BY Zenon DEF E!Plus
<1> HIDE DEF A, B, F, G
<1> QED
  BY <1>14, <1>15, <1>16, <1>17, <1>18

-----------------------------------------------------------------------------
(* The rows after every layer.  Recurs says that f holds them: it exists   *)
(* and is unique by induction over the layers, whatever rows are.          *)
Start(i, ids) == IF i.family = "bert" THEN BertStart(i, ids) ELSE DecoderStart(i, ids)
Layer(i, li, x) == IF i.family = "bert" THEN BertLayer(i, li, x) ELSE DecoderLayer(i, li, x)

Recurs(f, i, ids, m) == f = [li \in 0 .. m |-> IF li = 0 THEN Start(i, ids) ELSE Layer(i, li, f[li - 1])]

LEMMA RecursExists ==
  ASSUME NEW i, NEW ids, NEW n \in Nat
  PROVE  \E f : Recurs(f, i, ids, n)
<1> DEFINE P == {m \in 0 .. n : \E f : Recurs(f, i, ids, m)}
<1>1. 0 \in P
  <2> DEFINE f == [li \in 0 .. 0 |-> Start(i, ids)]
  <2>1. f = [li \in 0 .. 0 |-> IF li = 0 THEN Start(i, ids) ELSE Layer(i, li, f[li - 1])]
    OBVIOUS
  <2>2. Recurs(f, i, ids, 0)
    BY Zenon, <2>1 DEF Recurs
  <2>3. 0 \in 0 .. n
    OBVIOUS
  <2> QED
    BY Zenon, <2>2, <2>3
<1>2. ASSUME NEW m \in 1 .. n, m - 1 \in P
      PROVE  m \in P
  <2>1. PICK f : Recurs(f, i, ids, m - 1)
    BY <1>2
  <2> DEFINE g == [li \in 0 .. m |-> IF li = m THEN Layer(i, m, f[m - 1]) ELSE f[li]]
             Value(h, li) == IF li = 0 THEN Start(i, ids) ELSE Layer(i, li, h[li - 1])
  <2>2. f = [li \in 0 .. m - 1 |-> Value(f, li)]
    BY Zenon, <2>1 DEF Recurs
  <2>3. ASSUME NEW li \in 0 .. m
        PROVE  g[li] = Value(g, li)
    <3>1. CASE li = m
      <4>1. m - 1 \in 0 .. m /\ m - 1 # m /\ m # 0
        OBVIOUS
      <4>2. g[m - 1] = f[m - 1]
        BY <4>1
      <4>3. g[li] = Layer(i, m, f[m - 1])
        BY <3>1
      <4> QED
        BY Zenon, <3>1, <4>1, <4>2, <4>3
    <3>2. CASE li # m
      <4>1. li \in 0 .. m - 1 /\ g[li] = f[li]
        BY <3>2
      <4>2. f[li] = Value(f, li)
        <5> HIDE DEF Value, g
        <5> QED
          BY <2>2, <4>1
      <4>3. li # 0 => g[li - 1] = f[li - 1]
        BY <3>2
      <4> QED
        BY Zenon, <4>1, <4>2, <4>3
    <3> QED
      BY <3>1, <3>2
  <2>4. g = [li \in 0 .. m |-> Value(g, li)]
    <3>1. g = [li \in 0 .. m |-> g[li]]
      OBVIOUS
    <3> HIDE DEF g, Value
    <3> QED
      BY <2>3, <3>1
  <2>5. Recurs(g, i, ids, m)
    BY Zenon, <2>4 DEF Recurs
  <2>6. m \in 0 .. n
    OBVIOUS
  <2> QED
    BY Zenon, <2>5, <2>6
<1>3. n \in P
  <2> HIDE DEF P
  <2>1. \A m \in 0 .. n : m \in P
    BY <1>1, <1>2, EveryRound
  <2> QED
    BY <2>1
<1> QED
  BY <1>3

(* Layers keep the number of rows. *)
LEMMA RecursRows ==
  ASSUME NEW i, NEW ids, NEW n \in Nat, NEW f, Recurs(f, i, ids, n)
  PROVE  \A m \in 0 .. n : DOMAIN f[m] = DOMAIN ids
<1> DEFINE P == {m \in 0 .. n : DOMAIN f[m] = DOMAIN ids}
<1>1. \A m \in 0 .. n : f[m] = IF m = 0 THEN Start(i, ids) ELSE Layer(i, m, f[m - 1])
  BY DEF Recurs
<1>2. DOMAIN Start(i, ids) = DOMAIN ids
  BY DEF Start, BertStart, DecoderStart
<1>3. \A li, x : DOMAIN Layer(i, li, x) = DOMAIN x
  <2> SUFFICES ASSUME NEW li, NEW x
               PROVE  DOMAIN Layer(i, li, x) = DOMAIN x
    BY Zenon
  <2>1. DOMAIN BertLayer(i, li, x) = DOMAIN x
    BY Zenon DEF BertLayer
  <2>2. DOMAIN DecoderLayer(i, li, x) = DOMAIN x
    BY Zenon DEF DecoderLayer
  <2> QED
    BY Zenon, <2>1, <2>2 DEF Layer
<1>4. 0 \in P
  BY <1>1, <1>2
<1>5. \A m \in 1 .. n : m - 1 \in P => m \in P
  BY <1>1, <1>3
<1> HIDE DEF P
<1>6. \A m \in 0 .. n : m \in P
  BY <1>4, <1>5, EveryRound
<1> QED
  BY <1>6 DEF P

LEMMA RecursUnique ==
  ASSUME NEW i, NEW ids, NEW n \in Nat, NEW f, Recurs(f, i, ids, n), NEW g, Recurs(g, i, ids, n)
  PROVE  f = g
<1> DEFINE P == {m \in 0 .. n : f[m] = g[m]}
           At(h, m) == IF m = 0 THEN Start(i, ids) ELSE Layer(i, m, h[m - 1])
<1>1. f = [m \in 0 .. n |-> At(f, m)] /\ g = [m \in 0 .. n |-> At(g, m)]
  BY Zenon DEF Recurs
<1>2. 0 \in P
  <2>1. At(f, 0) = At(g, 0)
    BY Zenon
  <2> HIDE DEF At
  <2> QED
    BY <1>1, <2>1
<1>3. ASSUME NEW m \in 1 .. n, m - 1 \in P
      PROVE  m \in P
  <2>1. At(f, m) = At(g, m)
    BY Zenon, <1>3
  <2>2. m \in 0 .. n
    OBVIOUS
  <2> HIDE DEF At
  <2> QED
    BY <1>1, <2>1, <2>2
<1> HIDE DEF At
<1> HIDE DEF P
<1>4. \A m \in 0 .. n : m \in P
  BY <1>2, <1>3, EveryRound
<1>5. \A m \in 0 .. n : f[m] = g[m]
  BY <1>4 DEF P
<1> QED
  BY <1>1, <1>5

HiddenOf(i, ids) == CHOOSE f : Recurs(f, i, ids, i.cfg.num_hidden_layers)

LEMMA HiddenRecurs ==
  ASSUME NEW i, NEW ids, i.cfg.num_hidden_layers \in Nat
  PROVE  /\ Recurs(HiddenOf(i, ids), i, ids, i.cfg.num_hidden_layers)
         /\ Hidden(i, ids) = HiddenOf(i, ids)[i.cfg.num_hidden_layers]
<1> DEFINE n == i.cfg.num_hidden_layers
           Eq(H) == H = [li \in 0 .. n |->
                      IF li = 0 THEN IF i.family = "bert" THEN BertStart(i, ids) ELSE DecoderStart(i, ids)
                      ELSE IF i.family = "bert" THEN BertLayer(i, li, H[li - 1]) ELSE DecoderLayer(i, li, H[li - 1])]
           h == CHOOSE H : Eq(H)
<1>1. \E f : Recurs(f, i, ids, n)
  BY Zenon, RecursExists
<1>2. Recurs(HiddenOf(i, ids), i, ids, n)
  BY Zenon, <1>1 DEF HiddenOf
<1>3. Hidden(i, ids) = h[n]
  BY Zenon DEF Hidden
<1>4. \A f : Eq(f) <=> Recurs(f, i, ids, n)
  BY Zenon DEF Recurs, Start, Layer
<1> HIDE DEF Eq
<1>5. Recurs(h, i, ids, n)
  BY Zenon, <1>1, <1>4
<1>6. h = HiddenOf(i, ids)
  BY Zenon, <1>2, <1>5, RecursUnique
<1> QED
  BY Zenon, <1>2, <1>3, <1>6

(* The forward passes of an embedder with its weights. *)
Block(i, e, li, x) == IF i.family = "bert" THEN E!EncoderBlock(e, li, x) ELSE E!DecoderBlock(e, li, x)

Follows(f, i, e, start) ==
  f = [li \in 0 .. i.cfg.num_hidden_layers |-> IF li = 0 THEN start ELSE Block(i, e, li, f[li - 1])]

LEMMA FollowsIs ==
  ASSUME NEW i, EmbedOK(i), NEW e, Provides(e, i), NEW ids \in Seq(Nat)
  PROVE  /\ \A f : Follows(f, i, e, Start(i, ids)) <=> f = HiddenOf(i, ids)
         /\ Hidden(i, ids) = HiddenOf(i, ids)[i.cfg.num_hidden_layers]
         /\ DOMAIN Hidden(i, ids) = 1 .. Len(ids)
<1> DEFINE n == i.cfg.num_hidden_layers
           H == HiddenOf(i, ids)
           start == Start(i, ids)
<1>0. n \in Nat /\ i.family \in {"bert", "decoder"}
  BY DEF EmbedOK
<1>1. Recurs(H, i, ids, n) /\ Hidden(i, ids) = H[n]
  BY Zenon, <1>0, HiddenRecurs
<1>2. \A m \in 0 .. n : DOMAIN H[m] = 1 .. Len(ids)
  <2>1. \A m \in 0 .. n : DOMAIN H[m] = DOMAIN ids
    <3> HIDE DEF H, n
    <3> QED
      BY <1>0, <1>1, RecursRows DEF n
  <2> QED
    BY <2>1
<1>3. ASSUME NEW li \in 1 .. n
      PROVE  Block(i, e, li, H[li - 1]) = Layer(i, li, H[li - 1])
  <2>1. li \in E!Layers(i.cfg) /\ Len(ids) \in Nat /\ li - 1 \in 0 .. n
    BY <1>0 DEF E!Layers
  <2>2. DOMAIN H[li - 1] = 1 .. Len(ids)
    BY Zenon, <1>2, <2>1
  <2>3. CASE i.family = "bert"
    <3>1. E!EncoderBlock(e, li, H[li - 1]) = BertLayer(i, li, H[li - 1])
      BY Zenon, <2>1, <2>2, <2>3, BertLayerIs
    <3> QED
      BY Zenon, <2>3, <3>1 DEF Block, Layer
  <2>4. CASE i.family # "bert"
    <3>1. i.family = "decoder"
      BY <1>0, <2>4
    <3>2. E!DecoderBlock(e, li, H[li - 1]) = DecoderLayer(i, li, H[li - 1])
      BY Zenon, <2>1, <2>2, <3>1, DecoderLayerIs
    <3> QED
      BY Zenon, <2>4, <3>2 DEF Block, Layer
  <2> QED
    BY Zenon, <2>3, <2>4
<1>4. H = [li \in 0 .. n |-> IF li = 0 THEN start ELSE Layer(i, li, H[li - 1])]
  BY Zenon, <1>1 DEF Recurs
<1> HIDE DEF H, start
<1>5. H = [li \in 0 .. n |-> IF li = 0 THEN start ELSE Block(i, e, li, H[li - 1])]
  <2>1. \A li \in 0 .. n : li # 0 => li \in 1 .. n
    BY <1>0
  <2> QED
    BY <1>3, <1>4, <2>1
<1>6. ASSUME NEW f, Follows(f, i, e, start)
      PROVE  f = H
  <2> DEFINE P == {m \in 0 .. n : f[m] = H[m]}
  <2>1. f = [li \in 0 .. n |-> IF li = 0 THEN start ELSE Block(i, e, li, f[li - 1])]
    BY Zenon, <1>6 DEF Follows
  <2>2. 0 \in P
    BY <1>0, <1>5, <2>1
  <2>3. \A m \in 1 .. n : m - 1 \in P => m \in P
    BY <1>0, <1>5, <2>1
  <2> HIDE DEF P
  <2>4. \A m \in 0 .. n : m \in P
    BY <1>0, <2>2, <2>3, EveryRound
  <2>5. \A m \in 0 .. n : f[m] = H[m]
    BY <2>4 DEF P
  <2>6. f = [m \in 0 .. n |-> f[m]] /\ H = [m \in 0 .. n |-> H[m]]
    BY <1>5, <2>1
  <2> QED
    BY <2>5, <2>6
<1>7. Follows(H, i, e, start)
  BY Zenon, <1>5 DEF Follows
<1>8. n \in 0 .. n
  BY <1>0
<1> QED
  BY Zenon, <1>1, <1>2, <1>6, <1>7, <1>8 DEF H, start

LEMMA BertRunIs ==
  ASSUME NEW i, EmbedOK(i), i.family = "bert", NEW e, Provides(e, i),
         NEW ids \in Seq(Nat), Len(ids) <= i.cfg.max_position_embeddings
  PROVE  E!BertRun(e, ids) = E!Good(Hidden(i, ids))
<1> DEFINE n == i.cfg.num_hidden_layers
           V(name) == e.weights.t[<<0, name>>]
           embedded == [t \in DOMAIN ids |-> E!LayerNorm(E!BuildEmbedding(e, ids)[t], V("LayerNorm.weight"), V("LayerNorm.bias"))]
           Eq(f) == f = [li \in 0 .. e.cfg.num_hidden_layers |-> IF li = 0 THEN embedded ELSE E!EncoderBlock(e, li, f[li - 1])]
           after == CHOOSE f : Eq(f)
<1>1. e.cfg = i.cfg /\ n \in Nat /\ i.cfg.max_position_embeddings \in Nat
  BY DEF Provides, EmbedOK
<1>2. embedded = Start(i, ids)
  <2> DEFINE T(name) == <<"f32", i.dtype, <<0, name>>>>
  <2>1. \A name \in E!BertTables \cup {"LayerNorm.weight", "LayerNorm.bias"} : V(name) = T(name)
    <3> SUFFICES ASSUME NEW name \in E!BertTables \cup {"LayerNorm.weight", "LayerNorm.bias"}
                 PROVE  V(name) = T(name)
      OBVIOUS
    <3>1. name \notin E!BertMatrices
      BY BertNames DEF E!BertTables
    <3>2. <<0, name>> \in Present(i) /\ <<0, name>>[2] = name
      BY DEF Present, E!BertTensors
    <3>3. MatricesOf(i) = E!BertMatrices
      BY DEF MatricesOf
    <3>4. V(name) = WeightOf(i, <<0, name>>)
      BY Zenon, <3>1, <3>2, <3>3 DEF Provides
    <3> QED
      BY <3>1, <3>2, <3>4 DEF WeightOf
  <2>2. /\ V("word_embeddings") = T("word_embeddings") /\ V("position_embeddings") = T("position_embeddings")
        /\ V("token_type_embeddings") = T("token_type_embeddings")
        /\ V("LayerNorm.weight") = T("LayerNorm.weight") /\ V("LayerNorm.bias") = T("LayerNorm.bias")
    <3> HIDE DEF V, T
    <3> QED
      BY Zenon, <2>1 DEF E!BertTables
  <2> HIDE DEF V
  <2>3. E!BuildEmbedding(e, ids) = [t \in DOMAIN ids |->
          <<"plus", <<"plus", <<"row", V("word_embeddings"), ids[t]>>, <<"row", V("position_embeddings"), t - 1>>>>,
                    <<"row", V("token_type_embeddings"), 0>>>>]
    BY Zenon DEF E!BuildEmbedding, E!Plus, V
  <2>4. BertStart(i, ids) = [t \in DOMAIN ids |->
          <<"layer_norm", <<"plus", <<"plus", <<"row", T("word_embeddings"), ids[t]>>, <<"row", T("position_embeddings"), t - 1>>>>,
                                    <<"row", T("token_type_embeddings"), 0>>>>, T("LayerNorm.weight"), T("LayerNorm.bias")>>]
    BY Zenon DEF BertStart
  <2> HIDE DEF T
  <2>5. embedded = BertStart(i, ids)
    BY <2>2, <2>3, <2>4 DEF E!LayerNorm
  <2> QED
    BY Zenon, <2>5 DEF Start
<1> HIDE DEF embedded
<1>3. ASSUME NEW f
      PROVE  Eq(f) <=> Follows(f, i, e, Start(i, ids))
  <2>1. \A li, x : Block(i, e, li, x) = E!EncoderBlock(e, li, x)
    BY Zenon DEF Block
  <2>2. [li \in 0 .. e.cfg.num_hidden_layers |-> IF li = 0 THEN embedded ELSE E!EncoderBlock(e, li, f[li - 1])]
          = [li \in 0 .. n |-> IF li = 0 THEN Start(i, ids) ELSE Block(i, e, li, f[li - 1])]
    BY <1>1, <1>2, <2>1
  <2> QED
    BY Zenon, <2>2 DEF Follows
<1>4. E!BertRun(e, ids) = IF Len(ids) > e.cfg.max_position_embeddings
                             \/ \E li \in E!Layers(e.cfg) : ~E!HasOperands(e, E!BertKinds, li) THEN E!Bad("forward")
                          ELSE E!Good(after[e.cfg.num_hidden_layers])
  BY Zenon DEF E!BertRun, embedded
<1> HIDE DEF Eq
<1>5. \A f : Eq(f) <=> f = HiddenOf(i, ids)
  BY Zenon, <1>3, FollowsIs
<1>6. after = HiddenOf(i, ids)
  BY Zenon, <1>5
<1> HIDE DEF after
<1>7. \A li \in E!Layers(i.cfg) : E!HasOperands(e, E!BertKinds, li)
  BY Zenon DEF Provides, KindsOf
<1>8. ~(Len(ids) > e.cfg.max_position_embeddings)
  BY <1>1
<1>9. Hidden(i, ids) = HiddenOf(i, ids)[n]
  BY Zenon, FollowsIs
<1> QED
  BY Zenon, <1>1, <1>4, <1>6, <1>7, <1>8, <1>9

LEMMA DecoderRunIs ==
  ASSUME NEW i, EmbedOK(i), i.family = "decoder", NEW e, Provides(e, i),
         NEW ids \in Seq(Nat), Len(ids) <= i.cfg.max_position_embeddings
  PROVE  E!DecoderRun(e, ids)
           = E!Good([t \in 1 .. Len(ids) |-> <<"rms_norm", Hidden(i, ids)[t], <<"f32", i.dtype, <<0, "norm">>>>>>])
<1> DEFINE n == i.cfg.num_hidden_layers
           V(name) == e.weights.t[<<0, name>>]
           embedded == E!EmbeddingLookup(e, ids)
           Eq(f) == f = [li \in 0 .. e.cfg.num_hidden_layers |-> IF li = 0 THEN embedded ELSE E!DecoderBlock(e, li, f[li - 1])]
           after == CHOOSE f : Eq(f)
           rows == after[e.cfg.num_hidden_layers]
<1>1. e.cfg = i.cfg /\ n \in Nat /\ i.cfg.max_position_embeddings \in Nat /\ i.family # "bert"
  BY DEF Provides, EmbedOK
<1>2. V("embed_tokens") = <<"bf16", i.dtype, <<0, "embed_tokens">>>> /\ V("norm") = <<"f32", i.dtype, <<0, "norm">>>>
  <2>1. ASSUME NEW name \in {"embed_tokens", "norm"}
        PROVE  V(name) = WeightOf(i, <<0, name>>)
    <3>1. name \notin E!Matrices /\ name \notin MaybeMissing /\ <<0, name>>[2] = name /\ MatricesOf(i) = E!Matrices
      BY <1>1, Names DEF MaybeMissing, MatricesOf
    <3>2. <<0, name>> \in Present(i)
      BY <1>1, <3>1, DecoderTensorsAre DEF Present
    <3> QED
      BY Zenon, <3>1, <3>2 DEF Provides
  <2>2. WeightOf(i, <<0, "embed_tokens">>) = <<"bf16", i.dtype, <<0, "embed_tokens">>>>
    BY <1>1, Names DEF WeightOf
  <2>3. WeightOf(i, <<0, "norm">>) = <<"f32", i.dtype, <<0, "norm">>>>
    BY <1>1, Names DEF WeightOf
  <2> QED
    BY Zenon, <2>1, <2>2, <2>3
<1>3. embedded = Start(i, ids)
  BY <1>1, <1>2 DEF E!EmbeddingLookup, Start, DecoderStart
<1> HIDE DEF embedded
<1>4. ASSUME NEW f
      PROVE  Eq(f) <=> Follows(f, i, e, Start(i, ids))
  <2>1. \A li, x : Block(i, e, li, x) = E!DecoderBlock(e, li, x)
    BY Zenon, <1>1 DEF Block
  <2>2. [li \in 0 .. e.cfg.num_hidden_layers |-> IF li = 0 THEN embedded ELSE E!DecoderBlock(e, li, f[li - 1])]
          = [li \in 0 .. n |-> IF li = 0 THEN Start(i, ids) ELSE Block(i, e, li, f[li - 1])]
    BY <1>1, <1>3, <2>1
  <2> QED
    BY Zenon, <2>2 DEF Follows
<1>5. E!DecoderRun(e, ids) = IF Len(ids) > e.cfg.max_position_embeddings
                                \/ \E li \in E!Layers(e.cfg) : ~E!HasOperands(e, E!Kinds, li) THEN E!Bad("forward")
                             ELSE E!Good([t \in DOMAIN rows |-> E!RmsNorm(rows[t], V("norm"))])
  BY Zenon DEF E!DecoderRun, embedded
<1> HIDE DEF Eq
<1>6. \A f : Eq(f) <=> f = HiddenOf(i, ids)
  BY Zenon, <1>4, FollowsIs
<1>7. after = HiddenOf(i, ids)
  BY Zenon, <1>6
<1> HIDE DEF after, V
<1>8. \A li \in E!Layers(i.cfg) : E!HasOperands(e, E!Kinds, li)
  BY Zenon, <1>1 DEF Provides, KindsOf
<1>9. ~(Len(ids) > e.cfg.max_position_embeddings)
  BY <1>1
<1>10. Hidden(i, ids) = HiddenOf(i, ids)[n] /\ DOMAIN Hidden(i, ids) = 1 .. Len(ids)
  BY Zenon, FollowsIs
<1>11. rows = Hidden(i, ids)
  BY Zenon, <1>1, <1>7, <1>10
<1> HIDE DEF rows
<1>12. E!DecoderRun(e, ids) = E!Good([t \in DOMAIN rows |-> E!RmsNorm(rows[t], V("norm"))])
  BY Zenon, <1>1, <1>5, <1>8, <1>9
<1>13. [t \in DOMAIN rows |-> E!RmsNorm(rows[t], V("norm"))]
         = [t \in 1 .. Len(ids) |-> <<"rms_norm", Hidden(i, ids)[t], <<"f32", i.dtype, <<0, "norm">>>>>>]
  BY <1>2, <1>10, <1>11 DEF E!RmsNorm
<1> QED
  BY Zenon, <1>12, <1>13

-----------------------------------------------------------------------------
(* The embedder of a call. *)
Embedder(i) == IF i.max_len = {} THEN Built(i).value ELSE E!WithMaxLen(Built(i).value, CHOOSE n \in i.max_len : TRUE)

LEMMA EmbedderIs ==
  ASSUME NEW i, EmbedOK(i), Built(i).ok
  PROVE  Provides(Embedder(i), i) /\ Embedder(i).max_len = R!Least(Asked(i), i.cfg.max_position_embeddings)
<1> DEFINE b == Built(i).value
           m == CHOOSE n \in i.max_len : TRUE
           e == E!WithMaxLen(b, m)
<1>1. Provides(b, i) /\ b.max_len = E!MaxLen(i.cfg)
  BY Zenon, BuiltIs
<1> HIDE DEF b
<1>2. CASE i.max_len = {}
  <2>1. Embedder(i) = b /\ Asked(i) = i.cfg.max_seq_len
    BY Zenon, <1>2 DEF Embedder, Asked, b
  <2> QED
    BY Zenon, <1>1, <2>1 DEF E!MaxLen, E!AtMost, R!Least
<1>3. CASE i.max_len # {}
  <2>1. Embedder(i) = e /\ Asked(i) = m
    BY Zenon, <1>3 DEF Embedder, Asked, b
  <2> HIDE DEF m
  <2>2. /\ DOMAIN b = Fields /\ b.cfg = i.cfg
        /\ e = [b EXCEPT !.max_len = E!AtMost(m, b.cfg.max_position_embeddings)]
    BY <1>1 DEF Provides, E!WithMaxLen
  <2> HIDE DEF e
  <2>3. /\ e.max_len = E!AtMost(m, i.cfg.max_position_embeddings) /\ DOMAIN e = Fields
        /\ e.family = b.family /\ e.cfg = b.cfg /\ e.close = b.close /\ e.weights = b.weights /\ e.exec = b.exec
    BY <2>2 DEF Fields
  <2>4. Provides(e, i)
    BY Zenon, <1>1, <2>3 DEF Provides, E!HasOperands, E!Operand
  <2> QED
    BY Zenon, <2>1, <2>3, <2>4 DEF E!AtMost, R!Least
<1> QED
  BY Zenon, <1>2, <1>3

(* The vector of a text. *)
LEMMA BertVectorIs ==
  ASSUME NEW i, EmbedOK(i), i.family = "bert", Built(i).ok, NEW text \in Seq(Nat)
  PROVE  E!BertEmbedOne(Embedder(i), text) = E!Good(Vector(i, Tokens(i, text)))
<1> DEFINE e == Embedder(i)
           ids == Tokens(i, text)
<1>1. Provides(e, i) /\ e.max_len = R!Least(Asked(i), i.cfg.max_position_embeddings)
  BY Zenon, EmbedderIs
<1> HIDE DEF e
<1>2. e.close = IF i.family = "bert" THEN {102} ELSE {}
  BY Zenon, <1>1 DEF Provides
<1>3. E!Encode(e, text) = ids /\ ids \in Seq(Nat) /\ Len(ids) <= i.cfg.max_position_embeddings
  BY Zenon, <1>1, <1>2, EncodeIs
<1>4. E!BertRun(e, ids) = E!Good(Hidden(i, ids))
  BY Zenon, <1>1, <1>3, BertRunIs
<1> DEFINE hidden == E!BertRun(e, E!Encode(e, text))
<1>5. E!BertEmbedOne(e, text) = IF hidden.ok THEN E!MeanL2(hidden.value) ELSE hidden
  BY Zenon DEF E!BertEmbedOne
<1>6. hidden = E!Good(Hidden(i, ids))
  BY Zenon, <1>3, <1>4
<1> HIDE DEF hidden, ids
<1>7. hidden.ok /\ hidden.value = Hidden(i, ids)
  BY <1>6 DEF E!Good
<1> QED
  BY Zenon, <1>5, <1>7 DEF E!MeanL2, Vector, e, ids

LEMMA DecoderVectorIs ==
  ASSUME NEW i, EmbedOK(i), i.family = "decoder", Built(i).ok, NEW text \in Seq(Nat)
  PROVE  E!EmbedOne(Embedder(i), text)
           = IF Tokens(i, text) = <<>> THEN E!Bad("empty") ELSE E!Good(Vector(i, Tokens(i, text)))
<1> DEFINE e == Embedder(i)
           ids == Tokens(i, text)
           norm == <<"f32", i.dtype, <<0, "norm">>>>
           rows == [t \in 1 .. Len(ids) |-> <<"rms_norm", Hidden(i, ids)[t], norm>>]
<1>0. i.family # "bert"
  OBVIOUS
<1>1. Provides(e, i) /\ e.max_len = R!Least(Asked(i), i.cfg.max_position_embeddings)
  BY Zenon, EmbedderIs
<1> HIDE DEF e
<1>2. e.close = IF i.family = "bert" THEN {102} ELSE {}
  BY Zenon, <1>1 DEF Provides
<1>3. E!Encode(e, text) = ids /\ ids \in Seq(Nat) /\ Len(ids) <= i.cfg.max_position_embeddings
  BY Zenon, <1>1, <1>2, EncodeIs
<1>4. E!DecoderRun(e, ids) = E!Good(rows)
  BY Zenon, <1>1, <1>3, DecoderRunIs
<1> DEFINE hidden == E!DecoderRun(e, E!Encode(e, text))
<1>5. E!EmbedOne(e, text) = IF hidden.ok THEN E!LastL2(hidden.value) ELSE hidden
  BY Zenon DEF E!EmbedOne
<1>6. hidden = E!Good(rows)
  BY Zenon, <1>3, <1>4
<1>7. Vector(i, ids) = <<"l2", <<"rms_norm", Hidden(i, ids)[Len(ids)], norm>>>>
  BY Zenon, <1>0 DEF Vector
<1> HIDE DEF hidden, ids, norm
<1>8. E!LastL2(rows) = IF ids = <<>> THEN E!Bad("empty") ELSE E!Good(Vector(i, ids))
  <2>1. ids = <<>> <=> Len(ids) = 0
    BY <1>3
  <2>2. rows = <<>> <=> Len(ids) = 0
    BY <1>3
  <2>3. Len(ids) # 0 => Len(rows) = Len(ids) /\ rows[Len(ids)] = <<"rms_norm", Hidden(i, ids)[Len(ids)], norm>>
    BY <1>3
  <2> HIDE DEF rows
  <2>4. E!LastL2(rows) = IF rows = <<>> THEN E!Bad("empty") ELSE E!Good(<<"l2", rows[Len(rows)]>>)
    BY Zenon DEF E!LastL2
  <2> QED
    BY Zenon, <1>7, <2>1, <2>2, <2>3, <2>4
<1> HIDE DEF rows
<1>9. hidden.ok /\ hidden.value = rows
  BY <1>6 DEF E!Good
<1> QED
  BY Zenon, <1>5, <1>8, <1>9 DEF e, ids

(* A batch answers when every text has a vector. *)
LEMMA EmbedOfIs ==
  ASSUME NEW i, EmbedOK(i)
  PROVE  /\ EmbedOf(i).ok <=>
              Built(i).ok /\ (i.family = "decoder" => \A b \in DOMAIN i.texts : Tokens(i, i.texts[b]) # <<>>)
         /\ EmbedOf(i).ok => EmbedOf(i).value = [b \in DOMAIN i.texts |-> Vector(i, Tokens(i, i.texts[b]))]
<1> DEFINE e == Embedder(i)
           One(b) == IF e.family = "bert" THEN E!BertEmbedOne(e, i.texts[b]) ELSE E!EmbedOne(e, i.texts[b])
           vectors == [b \in DOMAIN i.texts |-> One(b)]
           all == E!EmbedAll(e, i.texts)
           Ids(b) == Tokens(i, i.texts[b])
<1>1. i.texts \in Seq(Seq(Nat)) /\ i.family \in {"bert", "decoder"}
  BY Zenon DEF EmbedOK
<1>2. \A b \in DOMAIN i.texts : i.texts[b] \in Seq(Nat)
  BY <1>1
<1>3. EmbedOf(i) = IF Built(i).ok THEN all ELSE Built(i)
  BY Zenon DEF EmbedOf, Embedder
<1>4. ASSUME Built(i).ok
      PROVE  /\ all.ok <=> (i.family = "decoder" => \A b \in DOMAIN i.texts : Ids(b) # <<>>)
             /\ all.ok => all.value = [b \in DOMAIN i.texts |-> Vector(i, Ids(b))]
  <2>1. e.family = i.family
    BY Zenon, <1>4, EmbedderIs DEF Provides
  <2>2. ASSUME NEW b \in DOMAIN i.texts
        PROVE  One(b) = IF i.family = "decoder" /\ Ids(b) = <<>> THEN E!Bad("empty") ELSE E!Good(Vector(i, Ids(b)))
    <3>1. CASE i.family = "bert"
      <4>1. i.family # "decoder"
        BY <3>1
      <4> QED
        BY Zenon, <1>2, <1>4, <2>1, <3>1, <4>1, BertVectorIs
    <3>2. CASE i.family # "bert"
      <4>1. i.family = "decoder"
        BY <1>1, <3>2
      <4> QED
        BY Zenon, <1>2, <1>4, <2>1, <3>2, <4>1, DecoderVectorIs
    <3> QED
      BY Zenon, <3>1, <3>2
  <2>3. all = IF \E b \in DOMAIN i.texts : ~vectors[b].ok THEN E!Bad("embed")
              ELSE E!Good([b \in DOMAIN i.texts |-> vectors[b].value])
    BY Zenon DEF E!EmbedAll
  <2> HIDE DEF One, Ids
  <2>4. \A b \in DOMAIN i.texts : /\ vectors[b].ok <=> ~(i.family = "decoder" /\ Ids(b) = <<>>)
                                  /\ vectors[b].ok => vectors[b].value = Vector(i, Ids(b))
    BY <2>2 DEF E!Good, E!Bad
  <2> HIDE DEF vectors, all
  <2> QED
    BY <2>3, <2>4 DEF E!Good, E!Bad
<1> HIDE DEF all
<1> QED
  BY Zenon, <1>3, <1>4

(* What EmbeddingsMatchReference says of one call and its answer. *)
EmbedIsRight(i, out) ==
  LET optional == i.family = "decoder" /\ i.damage.at[2] \in {"q_norm", "k_norm"} /\ i.damage.what = "missing"
      offloaded == {li \in 1 .. i.cfg.num_hidden_layers :
                      li > i.cfg.skip_first_layers /\ (li < i.cfg.num_hidden_layers \/ ~i.cfg.skip_last_layer)}
  IN /\ out.ok <=>
          /\ i.damage.at \notin TensorsOf(i) \/ optional
          /\ i.family = "bert" => i.dtype # "BF16"
          /\ i.build = "consumed" => offloaded = {}
          /\ i.family = "decoder" => \A b \in DOMAIN i.texts : Tokens(i, i.texts[b]) # <<>>
     /\ out.ok => out.value = [b \in DOMAIN i.texts |-> Vector(i, Tokens(i, i.texts[b]))]

LEMMA EmbedsRight ==
  ASSUME NEW i, EmbedOK(i)
  PROVE  EmbedIsRight(i, EmbedOf(i))
<1> DEFINE optional == i.family = "decoder" /\ i.damage.at[2] \in {"q_norm", "k_norm"} /\ i.damage.what = "missing"
           offloaded == {li \in 1 .. i.cfg.num_hidden_layers :
                           li > i.cfg.skip_first_layers /\ (li < i.cfg.num_hidden_layers \/ ~i.cfg.skip_last_layer)}
<1>1. offloaded = E!Offloaded(i.cfg)
  <2>1. i.cfg.num_hidden_layers \in Nat /\ i.cfg.skip_first_layers \in Nat /\ i.cfg.skip_last_layer \in BOOLEAN
    BY DEF EmbedOK
  <2> QED
    BY <2>1 DEF E!Offloaded, E!Layers, E!OffloadLayer
<1>2. i.damage.at \notin Present(i) <=> i.damage.at \notin TensorsOf(i) \/ optional
  <2>1. i.family \in {"bert", "decoder"}
    BY Zenon DEF EmbedOK
  <2>2. CASE i.family = "bert"
    BY <2>2 DEF Present, TensorsOf
  <2>3. CASE i.family = "decoder"
    <3>1. i.family # "bert"
      BY <2>3
    <3>2. Present(i) = {k \in E!DecoderTensors(i.cfg) :
                          ~(k[2] \in MaybeMissing /\ k = i.damage.at /\ i.damage.what = "missing")}
      BY Zenon, <3>1 DEF Present
    <3>3. TensorsOf(i) = E!DecoderTensors(i.cfg)
      BY Zenon, <3>1 DEF TensorsOf
    <3> QED
      BY Zenon, <2>3, <3>2, <3>3 DEF MaybeMissing
  <2> QED
    BY Zenon, <2>1, <2>2, <2>3
<1>3. Built(i).ok <=> Whole(i) /\ (i.build = "consumed" => E!Offloaded(i.cfg) = {})
  BY Zenon, BuiltIs
<1> HIDE DEF offloaded, optional
<1>4. Built(i).ok <=> /\ i.damage.at \notin TensorsOf(i) \/ optional
                      /\ i.family = "bert" => i.dtype # "BF16"
                      /\ i.build = "consumed" => offloaded = {}
  BY Zenon, <1>1, <1>2, <1>3 DEF Whole
<1> DEFINE read == i.family = "decoder" => \A b \in DOMAIN i.texts : Tokens(i, i.texts[b]) # <<>>
<1>5. /\ EmbedOf(i).ok <=> Built(i).ok /\ read
      /\ EmbedOf(i).ok => EmbedOf(i).value = [b \in DOMAIN i.texts |-> Vector(i, Tokens(i, i.texts[b]))]
  BY Zenon, EmbedOfIs
<1> HIDE DEF read
<1>6. EmbedOf(i).ok <=> /\ i.damage.at \notin TensorsOf(i) \/ optional
                        /\ i.family = "bert" => i.dtype # "BF16"
                        /\ i.build = "consumed" => offloaded = {}
                        /\ read
  BY Zenon, <1>4, <1>5
<1> QED
  BY Zenon, <1>5, <1>6 DEF EmbedIsRight, optional, offloaded, read

(* GeloBertEmbedder and GeloQwenEmbedder come up on the checkpoints they   *)
(* can read, and embed answers each text with the vector of the model's    *)
(* formulas, for every configuration, offload policy and batch.            *)
THEOREM EmbeddingsMatchReferenceHolds == Spec => []EmbeddingsMatchReference
<1>1. Evaluated => EmbeddingsMatchReference
  <2> SUFFICES ASSUME Evaluated, output.fn = "embed"
               PROVE  EmbedIsRight(input, output.value)
    BY Zenon DEF EmbeddingsMatchReference, EmbedIsRight
  <2>1. input \in Inputs /\ input.fn = "embed" /\ output.value = Result(input)
    BY DEF Evaluated, None
  <2>2. EmbedOK(input)
    BY Zenon, <2>1, InputsAssumption
  <2>3. Result(input) = EmbedOf(input)
    BY <2>1 DEF Result
  <2> QED
    BY Zenon, <2>1, <2>2, <2>3, EmbedsRight
<1> QED
  BY <1>1, EvaluatedHolds, PTL
=============================================================================
