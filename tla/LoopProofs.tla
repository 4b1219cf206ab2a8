----------------------------- MODULE LoopProofs -----------------------------
(***************************************************************************)
(* What the proofs about loops, sorted lists and concatenations share.     *)
(***************************************************************************)
EXTENDS Ranking, SequencesExt, TLAPS, WellFoundedInduction, SequenceTheorems, FiniteSetTheorems

(* Loops.  The rounds of a loop are the numbers 0 .. n; what holds of its  *)
(* state is a set of rounds, and a loop over a set of states has a run.    *)
LEMMA LeastNat ==
  ASSUME NEW T \in SUBSET Nat, T # {}
  PROVE  \E x \in T : \A y \in T : ~(y < x)
<1>1. \E x \in T : \A y \in T : ~(<<y, x>> \in OpToRel(<, Nat))
  BY NatLessThanWellFounded, WFMin, Zenon
<1> QED
  BY <1>1 DEF OpToRel

LEMMA GreatestNat ==
  ASSUME NEW n \in Nat, NEW T \in SUBSET (0 .. n), T # {}
  PROVE  \E x \in T : \A y \in T : y <= x
<1> DEFINE U == {m \in 0 .. n : n - m \in T}
<1>1. \A x \in T : n - x \in U
  <2>1. \A x \in T : n - x \in 0 .. n /\ n - (n - x) = x
    OBVIOUS
  <2> QED
    BY <2>1
<1>2. U \in SUBSET Nat /\ U # {}
  <2>1. PICK x \in T : TRUE
    OBVIOUS
  <2>2. n - x \in U
    BY <1>1
  <2>3. U \in SUBSET Nat
    OBVIOUS
  <2> HIDE DEF U
  <2> QED
    BY <2>2, <2>3
<1>3. PICK m \in U : \A k \in U : ~(k < m)
  <2> HIDE DEF U
  <2> QED
    BY <1>2, LeastNat
<1>4. n - m \in T /\ m \in 0 .. n
  OBVIOUS
<1>5. \A y \in T : y <= n - m
  <2>1. \A y \in T : ~(n - y < m) /\ y \in 0 .. n
    BY <1>1, <1>3
  <2> QED
    BY <1>4, <2>1
<1> QED
  BY <1>4, <1>5

LEMMA EveryRound ==
  ASSUME NEW n \in Nat, NEW P, 0 \in P, \A i \in 1 .. n : i - 1 \in P => i \in P
  PROVE  \A i \in 0 .. n : i \in P
<1> DEFINE Bad == {i \in 0 .. n : i \notin P}
<1>1. ASSUME Bad # {}
      PROVE  FALSE
  <2>1. Bad \in SUBSET Nat
    OBVIOUS
  <2>2. PICK i \in Bad : \A j \in Bad : ~(j < i)
    BY <1>1, <2>1, LeastNat
  <2>3. i \in 1 .. n /\ i - 1 \in 0 .. n /\ i - 1 \notin Bad
    BY <2>2
  <2> QED
    BY <2>2, <2>3
<1> QED
  BY <1>1

Runs(f, a, g, n) == f[0] = a /\ \A i \in 1 .. n : f[i] = g[i][f[i - 1]]

LEMMA LoopExists ==
  ASSUME NEW S, NEW n \in Nat, NEW a \in S, NEW g \in [1 .. n -> [S -> S]]
  PROVE  \E f \in [0 .. n -> S] : Runs(f, a, g, n)
<1> DEFINE P == {m \in 0 .. n : \E f \in [0 .. m -> S] : Runs(f, a, g, m)}
<1>1. 0 \in P
  <2>1. [i \in 0 .. 0 |-> a] \in [0 .. 0 -> S] /\ Runs([i \in 0 .. 0 |-> a], a, g, 0)
    BY DEF Runs
  <2> QED
    BY <2>1
<1>2. ASSUME NEW m \in 1 .. n, m - 1 \in P
      PROVE  m \in P
  <2>1. PICK f \in [0 .. m - 1 -> S] : Runs(f, a, g, m - 1)
    BY <1>2
  <2> DEFINE h == [i \in 0 .. m |-> IF i = m THEN g[m][f[m - 1]] ELSE f[i]]
  <2>2. m - 1 \in 0 .. m - 1 /\ f[m - 1] \in S
    BY <2>1
  <2>3. g[m][f[m - 1]] \in S
    BY <2>2
  <2>4. h \in [0 .. m -> S]
    BY <2>1, <2>3
  <2>5. h[0] = a
    BY <2>1 DEF Runs
  <2>6. ASSUME NEW i \in 1 .. m
        PROVE  h[i] = g[i][h[i - 1]]
    <3>1. CASE i = m
      BY <3>1
    <3>2. CASE i # m
      <4>1. i \in 1 .. m - 1 /\ i - 1 \in 0 .. m - 1
        BY <3>2
      <4>2. f[i] = g[i][f[i - 1]]
        BY <2>1, <4>1 DEF Runs
      <4> QED
        BY <4>1, <4>2, <3>2
    <3> QED
      BY <3>1, <3>2
  <2>7. Runs(h, a, g, m)
    BY <2>5, <2>6 DEF Runs
  <2> QED
    BY <2>4, <2>7
<1>3. n \in P
  <2> HIDE DEF P
  <2>1. \A i \in 0 .. n : i \in P
    BY <1>1, <1>2, EveryRound
  <2> QED
    BY <2>1
<1> QED
  BY <1>3

-----------------------------------------------------------------------------
(* Ranked lists every element of a finite set that R orders totally.       *)
OrdersAll(R, S) ==
  /\ \A x \in S : <<x, x>> \notin R
  /\ \A x, y \in S : x # y => <<x, y>> \in R \/ <<y, x>> \in R
  /\ \A x, y, z \in S : <<x, y>> \in R /\ <<y, z>> \in R => <<x, z>> \in R

Below(S, R, x) == {y \in S : <<y, x>> \in R}

LEMMA BelowGrows ==
  ASSUME NEW S, IsFiniteSet(S), NEW R, OrdersAll(R, S), NEW x \in S
  PROVE  /\ Cardinality(Below(S, R, x)) \in 0 .. Cardinality(S) - 1
         /\ \A y \in S : <<x, y>> \in R =>
              Cardinality(Below(S, R, x)) < Cardinality(Below(S, R, y))
<1>1. ASSUME NEW T \in SUBSET S, NEW U \in SUBSET T, T # U
      PROVE  /\ Cardinality(T) \in Nat /\ Cardinality(U) \in Nat
             /\ Cardinality(U) < Cardinality(T)
  <2>1. IsFiniteSet(T) /\ Cardinality(T) \in Nat
    BY FS_Subset, FS_CardinalityType
  <2>2. IsFiniteSet(U) /\ Cardinality(U) \in Nat
    BY <2>1, FS_Subset, FS_CardinalityType
  <2>3. Cardinality(U) <= Cardinality(T) /\ Cardinality(U) # Cardinality(T)
    BY <1>1, <2>1, FS_Subset
  <2> QED
    BY <2>1, <2>2, <2>3
<1>2. Below(S, R, x) \in SUBSET S /\ x \notin Below(S, R, x)
  BY DEF Below, OrdersAll
<1>3. S \in SUBSET S /\ S # Below(S, R, x)
  BY <1>2
<1>4. /\ Cardinality(S) \in Nat /\ Cardinality(Below(S, R, x)) \in Nat
      /\ Cardinality(Below(S, R, x)) < Cardinality(S)
  BY <1>1, <1>2, <1>3
<1>5. ASSUME NEW y \in S, <<x, y>> \in R
      PROVE  Cardinality(Below(S, R, x)) < Cardinality(Below(S, R, y))
  <2>1. /\ Below(S, R, y) \in SUBSET S
        /\ Below(S, R, x) \in SUBSET Below(S, R, y)
        /\ x \in Below(S, R, y)
    BY <1>5 DEF Below, OrdersAll
  <2> QED
    BY <1>1, <1>2, <2>1
<1> QED
  BY <1>4, <1>5

LEMMA RankedLists ==
  ASSUME NEW S, IsFiniteSet(S), NEW R, OrdersAll(R, S)
  PROVE  /\ Cardinality(S) \in Nat
         /\ Ranked(S, R) \in [1 .. Cardinality(S) -> S]
         /\ \A x \in S : \E k \in 1 .. Cardinality(S) : Ranked(S, R)[k] = x
         /\ \A k \in 1 .. Cardinality(S) :
              Cardinality(Below(S, R, Ranked(S, R)[k])) = k - 1
<1> DEFINE N == Cardinality(S)
           rank == [x \in S |-> Cardinality(Below(S, R, x)) + 1]
<1>0. N \in Nat
  BY FS_CardinalityType
<1>1. rank \in [S -> 1 .. N]
  <2>1. ASSUME NEW x \in S
        PROVE  Cardinality(Below(S, R, x)) + 1 \in 1 .. N
    <3>1. Cardinality(Below(S, R, x)) \in 0 .. N - 1
      BY BelowGrows
    <3> QED
      BY <1>0, <3>1
  <2> QED
    BY <2>1
<1>2. ASSUME NEW x \in S, NEW y \in S, rank[x] = rank[y]
      PROVE  x = y
  <2>1. /\ Cardinality(Below(S, R, x)) \in 0 .. N - 1
        /\ Cardinality(Below(S, R, y)) \in 0 .. N - 1
        /\ <<x, y>> \in R => Cardinality(Below(S, R, x)) < Cardinality(Below(S, R, y))
        /\ <<y, x>> \in R => Cardinality(Below(S, R, y)) < Cardinality(Below(S, R, x))
    BY BelowGrows
  <2>2. Cardinality(Below(S, R, x)) = Cardinality(Below(S, R, y))
    BY <1>0, <1>2, <2>1
  <2>3. <<x, y>> \notin R /\ <<y, x>> \notin R
    BY <1>0, <2>1, <2>2
  <2> QED
    BY <2>3 DEF OrdersAll
<1>3. rank \in Injection(S, 1 .. N)
  BY <1>1, <1>2 DEF Injection, IsInjective
<1>4. IsFiniteSet(1 .. N) /\ Cardinality(1 .. N) = N
  BY <1>0, FS_Interval
<1>5. rank \in Surjection(S, 1 .. N)
  <2> HIDE DEF rank, N
  <2> QED
    BY <1>3, <1>4, FS_Injection DEF N
<1>6. \A k \in 1 .. N : \E x \in S : rank[x] = k
  BY <1>5 DEF Surjection
<1>7. ASSUME NEW k \in 1 .. N
      PROVE  /\ Ranked(S, R)[k] \in S
             /\ Cardinality(Below(S, R, Ranked(S, R)[k])) = k - 1
  <2>1. PICK x \in S : rank[x] = k
    BY <1>6
  <2>2. Cardinality(Below(S, R, x)) \in 0 .. N - 1
    BY BelowGrows
  <2>3. Cardinality(Below(S, R, x)) = k - 1
    BY <1>0, <2>1, <2>2
  <2>4. Ranked(S, R)[k] = CHOOSE z \in S : Cardinality(Below(S, R, z)) = k - 1
    BY DEF Ranked, Below
  <2> QED
    BY <2>3, <2>4
<1>8. ASSUME NEW x \in S
      PROVE  \E k \in 1 .. N : Ranked(S, R)[k] = x
  <2>1. rank[x] \in 1 .. N
    BY <1>1
  <2>2. /\ Ranked(S, R)[rank[x]] \in S
        /\ Cardinality(Below(S, R, Ranked(S, R)[rank[x]])) = rank[x] - 1
    BY <1>7, <2>1
  <2>3. rank[Ranked(S, R)[rank[x]]] = rank[x]
    BY <1>0, <2>1, <2>2
  <2>4. Ranked(S, R)[rank[x]] = x
    BY <1>2, <2>2, <2>3
  <2> QED
    BY <2>1, <2>4
<1>9. Ranked(S, R) = [k \in 1 .. N |-> Ranked(S, R)[k]]
  <2> DEFINE At(k) == CHOOSE z \in S : Cardinality({y \in S : <<y, z>> \in R}) = k - 1
  <2>1. Ranked(S, R) = [k \in 1 .. N |-> At(k)]
    BY Zenon DEF Ranked
  <2> HIDE DEF At, N
  <2> QED
    BY <2>1
<1> QED
  BY <1>0, <1>7, <1>8, <1>9

LEMMA RankedFirst ==
  ASSUME NEW S, IsFiniteSet(S), S # {}, NEW R, OrdersAll(R, S)
  PROVE  \E x \in S : \A y \in S \ {x} : <<x, y>> \in R
<1>1. Cardinality(S) \in Nat /\ Cardinality(S) # 0
  BY FS_CardinalityType, FS_EmptySet
<1>2. 1 \in 1 .. Cardinality(S)
  BY <1>1
<1>3. Ranked(S, R)[1] \in S /\ Cardinality(Below(S, R, Ranked(S, R)[1])) = 0
  BY <1>2, RankedLists
<1>4. Below(S, R, Ranked(S, R)[1]) \in SUBSET S
  BY DEF Below
<1>5. Below(S, R, Ranked(S, R)[1]) = {}
  BY <1>3, <1>4, FS_Subset, FS_EmptySet
<1>6. \A y \in S \ {Ranked(S, R)[1]} : <<Ranked(S, R)[1], y>> \in R
  BY <1>3, <1>5 DEF Below, OrdersAll
<1> QED
  BY <1>3, <1>6

-----------------------------------------------------------------------------
(* A concatenation of lists has the elements of its parts.                 *)
LEMMA ToSetIs ==
  ASSUME NEW S, NEW s \in Seq(S)
  PROVE  /\ ToSet(s) \in SUBSET S
         /\ \A x : x \in ToSet(s) <=> \E i \in 1 .. Len(s) : s[i] = x
BY DEF ToSet

LEMMA JoinedSet ==
  ASSUME NEW S, NEW s \in Seq(S), NEW t \in Seq(S)
  PROVE  s \o t \in Seq(S) /\ ToSet(s \o t) = ToSet(s) \cup ToSet(t)
<1>1. s \o t \in Seq(S) /\ Len(s \o t) = Len(s) + Len(t)
  OBVIOUS
<1>2. ASSUME NEW i \in 1 .. Len(s) + Len(t)
      PROVE  (s \o t)[i] \in ToSet(s) \cup ToSet(t)
  <2>1. (s \o t)[i] = IF i <= Len(s) THEN s[i] ELSE t[i - Len(s)]
    OBVIOUS
  <2> QED
    BY <2>1 DEF ToSet
<1>3. ASSUME NEW i \in 1 .. Len(s)
      PROVE  s[i] \in ToSet(s \o t)
  <2>1. i \in 1 .. Len(s \o t) /\ (s \o t)[i] = s[i]
    BY <1>1
  <2> QED
    BY <1>1, <2>1 DEF ToSet
<1>4. ASSUME NEW i \in 1 .. Len(t)
      PROVE  t[i] \in ToSet(s \o t)
  <2>1. Len(s) + i \in 1 .. Len(s \o t) /\ (s \o t)[Len(s) + i] = t[i]
    BY <1>1
  <2> QED
    BY <1>1, <2>1 DEF ToSet
<1> DEFINE u == s \o t
<1>5. u \in Seq(S) /\ Len(u) = Len(s) + Len(t)
  BY <1>1
<1> HIDE DEF u
<1>6. \A x \in ToSet(u) : \E i \in 1 .. Len(u) : u[i] = x
  BY <1>5, ToSetIs
<1>7. \A x \in ToSet(u) : x \in ToSet(s) \cup ToSet(t)
  BY <1>2, <1>5, <1>6 DEF u
<1>8. \A x \in ToSet(s) \cup ToSet(t) : x \in ToSet(u)
  <2>1. \A x \in ToSet(s) : \E i \in 1 .. Len(s) : s[i] = x
    BY ToSetIs
  <2>2. \A x \in ToSet(t) : \E i \in 1 .. Len(t) : t[i] = x
    BY ToSetIs
  <2> QED
    BY <1>3, <1>4, <2>1, <2>2 DEF u
<1>9. ToSet(u) = ToSet(s) \cup ToSet(t)
  BY <1>7, <1>8, Zenon
<1> QED
  BY <1>5, <1>9 DEF u

LEMMA AppendedSet ==
  ASSUME NEW S, NEW s \in Seq(S), NEW x \in S
  PROVE  /\ Append(s, x) \in Seq(S)
         /\ ToSet(Append(s, x)) = ToSet(s) \cup {x}
<1>1. /\ Append(s, x) \in Seq(S)
      /\ Len(Append(s, x)) = Len(s) + 1
      /\ \A i \in 1 .. Len(s) : Append(s, x)[i] = s[i]
      /\ Append(s, x)[Len(s) + 1] = x
  OBVIOUS
<1> DEFINE u == Append(s, x)
<1> HIDE DEF u
<1>2. u \in Seq(S) /\ Len(u) = Len(s) + 1 /\ u[Len(s) + 1] = x
      /\ \A i \in 1 .. Len(s) : u[i] = s[i]
  BY <1>1 DEF u
<1>3. \A y : y \in ToSet(u) <=> \E i \in 1 .. Len(u) : u[i] = y
  BY <1>2, ToSetIs
<1>4. \A y : y \in ToSet(s) <=> \E i \in 1 .. Len(s) : s[i] = y
  BY ToSetIs
<1>5. \A y : y \in ToSet(u) <=> y \in ToSet(s) \cup {x}
  <2>1. Len(s) \in Nat
    OBVIOUS
  <2>2. \A i \in 1 .. Len(u) : i \in 1 .. Len(s) \/ i = Len(s) + 1
    BY <1>2, <2>1
  <2>3. Len(s) + 1 \in 1 .. Len(u) /\ \A i \in 1 .. Len(s) : i \in 1 .. Len(u)
    BY <1>2, <2>1
  <2> QED
    BY <1>2, <1>3, <1>4, <2>2, <2>3
<1>6. ToSet(u) = ToSet(s) \cup {x}
  BY <1>5, Zenon
<1> QED
  BY <1>2, <1>6 DEF u

(* The elements of the first m parts. *)
Upto(s, m) == UNION { ToSet(s[i]) : i \in 1 .. m }

LEMMA UptoGrows ==
  ASSUME NEW s, NEW m \in Nat \ {0}
  PROVE  Upto(s, 0) = {} /\ Upto(s, m) = Upto(s, m - 1) \cup ToSet(s[m])
<1>1. \A i : i \in 1 .. m <=> i \in 1 .. m - 1 \/ i = m
  OBVIOUS
<1> QED
  BY <1>1 DEF Upto

(* FlattenSeq concatenates the parts one after the other.                  *)
LEMMA Flattening ==
  ASSUME NEW S, NEW s \in Seq(Seq(S))
  PROVE  \E f \in [0 .. Len(s) -> Seq(S)] :
           /\ f[0] = <<>> /\ f[Len(s)] = FlattenSeq(s)
           /\ \A i \in 1 .. Len(s) : f[i] = f[i - 1] \o s[i]
<1> DEFINE n == Len(s)
           Solves(f) == f = [i \in 1 .. n |-> IF i = 1 THEN s[i] ELSE f[i - 1] \o s[i]]
           flat == CHOOSE f : Solves(f)
           g == [i \in 1 .. n |-> [x \in Seq(S) |-> x \o s[i]]]
<1>1. n \in Nat /\ DOMAIN s = 1 .. n /\ \A i \in 1 .. n : s[i] \in Seq(S)
  OBVIOUS
<1> HIDE DEF n
<1>2. <<>> \in Seq(S) /\ g \in [1 .. n -> [Seq(S) -> Seq(S)]]
  BY <1>1
<1>3. PICK f \in [0 .. n -> Seq(S)] : Runs(f, <<>>, g, n)
  <2> HIDE DEF g
  <2> QED
    BY <1>1, <1>2, LoopExists
<1>4. f[0] = <<>> /\ \A i \in 1 .. n : f[i - 1] \in Seq(S) /\ f[i] = f[i - 1] \o s[i]
  <2>1. f[0] = <<>> /\ \A i \in 1 .. n : f[i] = g[i][f[i - 1]]
    BY <1>3 DEF Runs
  <2>2. \A i \in 1 .. n : f[i - 1] \in Seq(S)
    BY <1>1, <1>3
  <2>3. \A i \in 1 .. n : \A x \in Seq(S) : g[i][x] = x \o s[i]
    OBVIOUS
  <2> HIDE DEF g
  <2> QED
    BY <2>1, <2>2, <2>3
<1>5. Solves([i \in 1 .. n |-> f[i]])
  <2>1. ASSUME NEW i \in 1 .. n
        PROVE  f[i] = IF i = 1 THEN s[i] ELSE [k \in 1 .. n |-> f[k]][i - 1] \o s[i]
    <3>1. CASE i = 1
      <4>0. i - 1 = 0
        BY <3>1
      <4>1. f[i] = <<>> \o s[i] /\ s[i] \in Seq(S)
        BY <1>1, <1>4, <4>0
      <4>2. <<>> \o s[i] = s[i]
        BY <4>1, ConcatEmptySeq
      <4> QED
        BY <3>1, <4>1, <4>2
    <3>2. CASE i # 1
      <4>1. i - 1 \in 1 .. n
        BY <1>1, <3>2
      <4> QED
        BY <1>4, <3>2, <4>1
    <3> QED
      BY <3>1, <3>2
  <2> QED
    BY <2>1
<1>6. Solves(flat)
  BY <1>5, Zenon
<1>7. CASE n = 0
  <2>1. s = <<>> /\ f[0] = FlattenSeq(s)
    BY <1>1, <1>4, <1>7 DEF FlattenSeq, n
  <2> QED
    BY <1>3, <1>4, <1>7, <2>1 DEF n
<1>8. CASE n # 0
  <2> DEFINE P == {i \in 0 .. n : i = 0 \/ flat[i] = f[i]}
  <2>a. /\ n \in 1 .. n /\ flat[1] = s[1]
        /\ \A i \in 1 .. n : i # 1 => flat[i] = flat[i - 1] \o s[i]
    <3>1. n \in 1 .. n /\ 1 \in 1 .. n
      BY <1>1, <1>8
    <3>2. \A i \in 1 .. n : flat[i] = IF i = 1 THEN s[i] ELSE flat[i - 1] \o s[i]
      <4> HIDE DEF flat
      <4> QED
        BY <1>6
    <3> HIDE DEF flat
    <3> QED
      BY <3>1, <3>2
  <2> HIDE DEF flat
  <2>1. ASSUME NEW i \in 1 .. n, i - 1 = 0 \/ flat[i - 1] = f[i - 1]
        PROVE  flat[i] = f[i]
    <3>2. CASE i = 1
      <4>0. i - 1 = 0
        BY <3>2
      <4>1. f[i] = <<>> \o s[i] /\ s[i] \in Seq(S)
        BY <1>1, <1>4, <4>0
      <4>2. <<>> \o s[i] = s[i]
        BY <4>1, ConcatEmptySeq
      <4> QED
        BY <2>a, <3>2, <4>1, <4>2
    <3>3. CASE i # 1
      <4>1. flat[i] = flat[i - 1] \o s[i]
        BY <2>a, <3>3
      <4>2. i - 1 # 0
        <5> HIDE DEF n
        <5> QED
          BY <1>1, <3>3
      <4> QED
        BY <1>4, <2>1, <4>1, <4>2
    <3> QED
      BY <3>2, <3>3
  <2>2. \A i \in 0 .. n : i \in P
    <3>1. 0 \in P
      BY <1>1
    <3>2. \A i \in 1 .. n : i - 1 \in P => i \in P
      BY <1>1, <2>1
    <3> HIDE DEF P
    <3> QED
      BY <1>1, <3>1, <3>2, EveryRound
  <2>3. flat[n] = f[n]
    BY <1>1, <1>8, <2>2
  <2>4. FlattenSeq(s) = flat[n]
    BY <1>8 DEF FlattenSeq, flat, n
  <2> QED
    BY <1>3, <1>4, <2>3, <2>4 DEF n
<1> QED
  BY <1>7, <1>8

LEMMA Flattened ==
  ASSUME NEW S, NEW s \in Seq(Seq(S))
  PROVE  /\ FlattenSeq(s) \in Seq(S)
         /\ ToSet(FlattenSeq(s)) = UNION { ToSet(s[i]) : i \in DOMAIN s }
<1> DEFINE n == Len(s)
<1>1. n \in Nat /\ DOMAIN s = 1 .. n /\ \A i \in 1 .. n : s[i] \in Seq(S)
  OBVIOUS
<1> HIDE DEF n
<1>2. PICK f \in [0 .. n -> Seq(S)] :
        /\ f[0] = <<>> /\ f[n] = FlattenSeq(s)
        /\ \A i \in 1 .. n : f[i] = f[i - 1] \o s[i]
  BY Flattening DEF n
<1>a. /\ 0 \in 0 .. n /\ n \in 0 .. n
      /\ \A i \in 1 .. n : i - 1 \in 0 .. n /\ i \in 0 .. n /\ i \in Nat \ {0}
  BY <1>1
<1> DEFINE P == {i \in 0 .. n : ToSet(f[i]) = Upto(s, i)}
<1>3. 0 \in P
  <2>1. Upto(s, 0) = {} /\ ToSet(<<>>) = {}
    BY DEF ToSet, Upto
  <2> QED
    BY <1>a, <1>2, <2>1
<1>4. ASSUME NEW i \in 1 .. n, i - 1 \in P
      PROVE  i \in P
  <2>1. Upto(s, i) = Upto(s, i - 1) \cup ToSet(s[i])
    BY <1>a, UptoGrows
  <2>2. f[i - 1] \in Seq(S) /\ s[i] \in Seq(S) /\ i \in 0 .. n
    BY <1>1, <1>a
  <2>3. ToSet(f[i - 1] \o s[i]) = ToSet(f[i - 1]) \cup ToSet(s[i])
    BY <2>2, JoinedSet
  <2> QED
    BY <1>2, <1>4, <2>1, <2>2, <2>3
<1>5. n \in P
  <2> HIDE DEF P
  <2>1. \A i \in 0 .. n : i \in P
    BY <1>1, <1>3, <1>4, EveryRound
  <2> QED
    BY <1>1, <2>1
<1> QED
  BY <1>1, <1>2, <1>5 DEF Upto
=============================================================================
