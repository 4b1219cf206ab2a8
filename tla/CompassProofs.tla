---------------------------- MODULE CompassProofs ----------------------------
(***************************************************************************)
(* Proofs about Compass, for every corpus, graph and configuration that    *)
(* satisfies the assumptions of PlainHnsw and Compass.                     *)
(***************************************************************************)
EXTENDS Compass, LoopProofs

-----------------------------------------------------------------------------
(* Distances are natural numbers, so they order nodes and list positions.  *)
LEMMA CosineNat ==
  ASSUME NEW a \in Embeddings, NEW b \in Embeddings
  PROVE  CosineDistance(a, b) \in Nat
<1>1. Circle \in Nat /\ Circle > 0 /\ a \in 0 .. Circle /\ b \in 0 .. Circle
  BY HnswAssumption DEF Embeddings
<1>2. Circle \div 4 \in Nat
  BY <1>1
<1> DEFINE e == a + Circle - b
           d == e % Circle
<1>3. e \in Nat
  BY <1>1
<1> HIDE DEF e
<1>4. d \in 0 .. Circle - 1
  BY <1>1, <1>3
<1> HIDE DEF d
<1>5. (IF d <= Circle - d THEN d ELSE Circle - d) \in Nat
  BY <1>1, <1>4
<1> QED
  BY <1>2, <1>5 DEF CosineDistance, d, e

LEMMA DistancesNat ==
  ASSUME NEW emb_ \in [Nodes -> Embeddings], NEW x \in Nodes
  PROVE  DistancesFrom(emb_, x) \in [Nodes -> Nat]
BY CosineNat DEF DistancesFrom

LEMMA NearestIn ==
  ASSUME NEW S \in SUBSET Nodes, S # {}, NEW dist \in [Nodes -> Nat]
  PROVE  Nearest(S, dist) \in S
<1> DEFINE R == {p \in S \X S : Closer(dist, p[1], p[2])}
<1>1. \A x, y \in S : <<x, y>> \in R <=> Closer(dist, x, y)
  OBVIOUS
<1>2. \A x \in S : x \in Nat /\ dist[x] \in Nat
  BY HnswAssumption
<1> HIDE DEF R
<1>3. OrdersAll(R, S)
  <2>1. \A x \in S : ~Closer(dist, x, x)
    BY <1>2 DEF Closer
  <2>2. \A x, y \in S : x # y => Closer(dist, x, y) \/ Closer(dist, y, x)
    BY <1>2 DEF Closer
  <2>3. \A x, y, z \in S : Closer(dist, x, y) /\ Closer(dist, y, z) => Closer(dist, x, z)
    BY <1>2 DEF Closer
  <2> QED
    BY <1>1, <2>1, <2>2, <2>3 DEF OrdersAll
<1>4. IsFiniteSet(S)
  BY HnswAssumption, FS_Subset
<1>5. \E x \in S : \A y \in S \ {x} : Closer(dist, x, y)
  <2>1. PICK x \in S : \A y \in S \ {x} : <<x, y>> \in R
    BY <1>3, <1>4, RankedFirst
  <2> QED
    BY <1>1, <2>1
<1> QED
  BY <1>5 DEF Nearest

(* The pairs of positions that SortedByDistance sorts by. *)
ListOrder(s, dist) ==
  {p \in (DOMAIN s) \X (DOMAIN s) :
     \/ dist[s[p[1]]] < dist[s[p[2]]]
     \/ dist[s[p[1]]] = dist[s[p[2]]] /\ p[1] < p[2]}

LEMMA ListOrdered ==
  ASSUME NEW s \in Seq(Nodes), NEW dist \in [Nodes -> Nat], NEW D \in SUBSET DOMAIN s
  PROVE  /\ OrdersAll(ListOrder(s, dist), D)
         /\ IsFiniteSet(D)
         /\ \A i, j \in DOMAIN s : <<i, j>> \in ListOrder(s, dist) <=>
              dist[s[i]] < dist[s[j]] \/ (dist[s[i]] = dist[s[j]] /\ i < j)
<1>1. DOMAIN s = 1 .. Len(s) /\ Len(s) \in Nat
  OBVIOUS
<1>2. \A i \in D : i \in Nat /\ dist[s[i]] \in Nat
  BY <1>1
<1>3. \A i, j \in DOMAIN s : <<i, j>> \in ListOrder(s, dist) <=>
        dist[s[i]] < dist[s[j]] \/ (dist[s[i]] = dist[s[j]] /\ i < j)
  BY DEF ListOrder
<1>4. OrdersAll(ListOrder(s, dist), D)
  <2>1. \A i \in D : <<i, i>> \notin ListOrder(s, dist)
    BY <1>2, <1>3
  <2>2. \A i, j \in D : i # j => <<i, j>> \in ListOrder(s, dist) \/ <<j, i>> \in ListOrder(s, dist)
    BY <1>2, <1>3
  <2>3. \A i, j, k \in D : <<i, j>> \in ListOrder(s, dist) /\ <<j, k>> \in ListOrder(s, dist)
                             => <<i, k>> \in ListOrder(s, dist)
    <3> SUFFICES ASSUME NEW i \in D, NEW j \in D, NEW k \in D,
                        <<i, j>> \in ListOrder(s, dist), <<j, k>> \in ListOrder(s, dist)
                 PROVE  <<i, k>> \in ListOrder(s, dist)
      OBVIOUS
    <3> DEFINE a == dist[s[i]]
               b == dist[s[j]]
               c == dist[s[k]]
    <3>1. i \in Nat /\ j \in Nat /\ k \in Nat /\ a \in Nat /\ b \in Nat /\ c \in Nat
      BY <1>2
    <3>2. (a < b \/ (a = b /\ i < j)) /\ (b < c \/ (b = c /\ j < k))
      BY <1>3
    <3>3. <<i, k>> \in ListOrder(s, dist) <=> a < c \/ (a = c /\ i < k)
      BY <1>3
    <3> HIDE DEF a, b, c
    <3> QED
      BY <3>1, <3>2, <3>3
  <2> DEFINE R == ListOrder(s, dist)
  <2> HIDE DEF R
  <2> QED
    BY <2>1, <2>2, <2>3 DEF OrdersAll, R
<1>5. IsFiniteSet(D)
  <2>1. IsFiniteSet(1 .. Len(s))
    BY <1>1, FS_Interval
  <2> QED
    BY <1>1, <2>1, FS_Subset
<1> QED
  BY <1>3, <1>4, <1>5

LEMMA SortedLists ==
  ASSUME NEW s \in Seq(Nodes), NEW dist \in [Nodes -> Nat]
  PROVE  /\ \A k \in 1 .. Len(s) : \E j \in 1 .. Len(s) : SortedByDistance(s, dist)[k] = s[j]
         /\ \A j \in 1 .. Len(s) : \E k \in 1 .. Len(s) : SortedByDistance(s, dist)[k] = s[j]
<1> DEFINE order == Ranked(DOMAIN s, ListOrder(s, dist))
<1>1. DOMAIN s = 1 .. Len(s) /\ Len(s) \in Nat
  OBVIOUS
<1>2. Cardinality(DOMAIN s) = Len(s)
  <2>1. Cardinality(1 .. Len(s)) = IF 1 > Len(s) THEN 0 ELSE Len(s) - 1 + 1
    BY <1>1, FS_Interval
  <2> QED
    BY <1>1, <2>1
<1>3. OrdersAll(ListOrder(s, dist), DOMAIN s) /\ IsFiniteSet(DOMAIN s)
  BY ListOrdered
<1>4. /\ order \in [1 .. Len(s) -> DOMAIN s]
      /\ \A i \in DOMAIN s : \E k \in 1 .. Len(s) : order[k] = i
  BY <1>2, <1>3, RankedLists
<1>5. SortedByDistance(s, dist) = [k \in DOMAIN s |-> s[order[k]]]
  BY DEF SortedByDistance, ListOrder
<1> HIDE DEF order
<1>6. \A k \in 1 .. Len(s) : SortedByDistance(s, dist)[k] = s[order[k]]
  BY <1>1, <1>5
<1>7. \A k \in 1 .. Len(s) : order[k] \in 1 .. Len(s)
  BY <1>1, <1>4
<1>8. \A j \in 1 .. Len(s) : \E k \in 1 .. Len(s) : order[k] = j
  BY <1>1, <1>4
<1>9. ASSUME NEW k \in 1 .. Len(s)
      PROVE  \E j \in 1 .. Len(s) : SortedByDistance(s, dist)[k] = s[j]
  BY <1>6, <1>7
<1>10. ASSUME NEW j \in 1 .. Len(s)
       PROVE  \E k \in 1 .. Len(s) : SortedByDistance(s, dist)[k] = s[j]
  <2>1. PICK k \in 1 .. Len(s) : order[k] = j
    BY <1>8
  <2>2. SortedByDistance(s, dist)[k] = s[j]
    BY <1>6, <2>1
  <2> QED
    BY <2>2
<1> QED
  BY <1>9, <1>10

-----------------------------------------------------------------------------
(* The descent stays within any set of nodes whose lists do.               *)
LayerOver(I, layer, m) ==
  /\ layer \in [Nodes -> Seq(Nodes)]
  /\ \A y \in Nodes : layer[y] \in Seq(I \ {y}) /\ Len(layer[y]) <= m

LEMMA HopStays ==
  ASSUME NEW I \in SUBSET Nodes, NEW m, NEW layer, LayerOver(I, layer, m),
         NEW dist \in [Nodes -> Nat], NEW here \in I
  PROVE  Hop(here, layer, dist) \in I
<1> DEFINE s == layer[here]
           better == {i \in DOMAIN s : dist[s[i]] < dist[here]}
           First(i) == \A j \in better :
             dist[s[i]] < dist[s[j]] \/ (dist[s[i]] = dist[s[j]] /\ i <= j)
<1>1. s \in Seq(Nodes) /\ s \in Seq(I \ {here})
  BY DEF LayerOver
<1>2. better \in SUBSET DOMAIN s
  OBVIOUS
<1>3. Hop(here, layer, dist) = IF better = {} THEN here ELSE s[CHOOSE i \in better : First(i)]
  BY DEF Hop
<1> HIDE DEF s, better
<1>4. ASSUME better # {}
      PROVE  \E i \in better : First(i)
  <2>1. /\ OrdersAll(ListOrder(s, dist), better) /\ IsFiniteSet(better)
        /\ \A i, j \in DOMAIN s : <<i, j>> \in ListOrder(s, dist) <=>
             dist[s[i]] < dist[s[j]] \/ (dist[s[i]] = dist[s[j]] /\ i < j)
    BY <1>1, <1>2, ListOrdered
  <2>2. PICK i \in better : \A j \in better \ {i} : <<i, j>> \in ListOrder(s, dist)
    BY <1>4, <2>1, RankedFirst
  <2>3. i \in Nat
    BY <1>1, <1>2
  <2>4. \A j \in better : j # i => dist[s[i]] < dist[s[j]] \/ (dist[s[i]] = dist[s[j]] /\ i < j)
    BY <1>2, <2>1, <2>2
  <2>5. \A j \in better : j \in Nat
    BY <1>1, <1>2
  <2> QED
    BY <2>3, <2>4, <2>5
<1>5. CASE better = {}
  BY <1>3, <1>5
<1>6. CASE better # {}
  <2>1. (CHOOSE i \in better : First(i)) \in better
    BY <1>4, <1>6
  <2> QED
    BY <1>1, <1>2, <1>3, <1>6, <2>1
<1> QED
  BY <1>5, <1>6

LEMMA GreedyStays ==
  ASSUME NEW I \in SUBSET Nodes, NEW m, NEW layer, LayerOver(I, layer, m),
         NEW dist \in [Nodes -> Nat], NEW start \in I
  PROVE  GreedyOneHop(start, layer, dist) \in I
<1> DEFINE n == Cardinality(Nodes)
           Solves(f) == f = [i \in 0 .. n |-> IF i = 0 THEN start ELSE Hop(f[i - 1], layer, dist)]
           hop == CHOOSE f : Solves(f)
           g == [i \in 1 .. n |-> [x \in I |-> Hop(x, layer, dist)]]
<1>1. n \in Nat
  BY HnswAssumption, FS_CardinalityType
<1>2. g \in [1 .. n -> [I -> I]]
  BY HopStays
<1>3. PICK f \in [0 .. n -> I] : Runs(f, start, g, n)
  <2> HIDE DEF n, g
  <2> QED
    BY <1>1, <1>2, LoopExists
<1>4. Solves(f)
  <2>0. \A i \in 1 .. n : i - 1 \in 0 .. n
    BY <1>1
  <2>1. \A i \in 1 .. n : f[i - 1] \in I
    <3> HIDE DEF n
    <3> QED
      BY <1>3, <2>0
  <2>2. \A i \in 1 .. n : f[i] = Hop(f[i - 1], layer, dist)
    BY <1>3, <2>1 DEF Runs
  <2> QED
    BY <1>1, <1>3, <2>2 DEF Runs
<1>5. Solves(hop)
  BY <1>4, Zenon
<1> HIDE DEF hop, n
<1> DEFINE P == {i \in 0 .. n : hop[i] \in I}
<1>6. \A i \in 0 .. n : i \in P
  <2>1. 0 \in P
    BY <1>1, <1>5
  <2>2. ASSUME NEW i \in 1 .. n, i - 1 \in P
        PROVE  i \in P
    <3>1. i - 1 \in 0 .. n /\ i \in 0 .. n /\ i # 0
      BY <1>1
    <3>2. hop[i] = Hop(hop[i - 1], layer, dist)
      BY <1>5, <3>1
    <3> QED
      BY <2>2, <3>1, <3>2, HopStays
  <2> HIDE DEF P
  <2> QED
    BY <1>1, <2>1, <2>2, EveryRound
<1>7. GreedyOneHop(start, layer, dist) = hop[n]
  BY DEF GreedyOneHop, hop, n
<1> QED
  BY <1>1, <1>6, <1>7

GraphOver(I, nbr) ==
  /\ nbr \in [0 .. TopLevel -> [Nodes -> Seq(Nodes)]]
  /\ \A l \in 0 .. TopLevel : LayerOver(I, nbr[l], MaxNeighbors(l))

LEMMA DescendStays ==
  ASSUME NEW I \in SUBSET Nodes, NEW nbr, GraphOver(I, nbr),
         NEW dist \in [Nodes -> Nat], NEW start \in I,
         NEW top \in 0 .. TopLevel, NEW low \in Nat
  PROVE  Descend(nbr, start, top, low, dist) \in I
<1> DEFINE n == IF low > top THEN 0 ELSE top + 1 - low
           Solves(f) == f = [i \in 0 .. n |-> IF i = 0 THEN start
                                              ELSE GreedyOneHop(f[i - 1], nbr[top + 1 - i], dist)]
           down == CHOOSE f : Solves(f)
           g == [i \in 1 .. n |-> [x \in I |-> GreedyOneHop(x, nbr[top + 1 - i], dist)]]
<1>1. n \in Nat /\ \A i \in 1 .. n : top + 1 - i \in 0 .. TopLevel
  BY HnswAssumption
<1> HIDE DEF n
<1>2. \A i \in 1 .. n : \A x \in I : GreedyOneHop(x, nbr[top + 1 - i], dist) \in I
  BY <1>1, GreedyStays DEF GraphOver
<1>3. g \in [1 .. n -> [I -> I]]
  BY <1>2
<1>4. PICK f \in [0 .. n -> I] : Runs(f, start, g, n)
  <2> HIDE DEF g
  <2> QED
    BY <1>1, <1>3, LoopExists
<1>5. Solves(f)
  <2>1. \A i \in 1 .. n : f[i - 1] \in I
    BY <1>1, <1>4
  <2>2. \A i \in 1 .. n : f[i] = GreedyOneHop(f[i - 1], nbr[top + 1 - i], dist)
    BY <1>4, <2>1 DEF Runs
  <2> QED
    BY <1>1, <1>4, <2>2 DEF Runs
<1>6. Solves(down)
  BY <1>5, Zenon
<1> HIDE DEF down
<1> DEFINE P == {i \in 0 .. n : down[i] \in I}
<1>7. \A i \in 0 .. n : i \in P
  <2>1. 0 \in P
    BY <1>1, <1>6
  <2>2. ASSUME NEW i \in 1 .. n, i - 1 \in P
        PROVE  i \in P
    <3>1. i - 1 \in 0 .. n /\ i \in 0 .. n /\ i # 0
      BY <1>1
    <3>2. down[i] = GreedyOneHop(down[i - 1], nbr[top + 1 - i], dist)
      BY <1>6, <3>1
    <3> QED
      BY <1>2, <2>2, <3>1, <3>2
  <2> HIDE DEF P
  <2> QED
    BY <1>1, <2>1, <2>2, EveryRound
<1>8. Descend(nbr, start, top, low, dist) = down[n]
  BY DEF Descend, down, n
<1> QED
  BY <1>1, <1>7, <1>8

-----------------------------------------------------------------------------
(* A beam holds nodes of any set that the lists stay in, and always one.   *)
Beams(I) == [cands : SUBSET I, top : (SUBSET I) \ {{}}, seen : SUBSET I]

LEMMA OfferBeam ==
  ASSUME NEW I, NEW b \in Beams(I), NEW n \in I, NEW ef, NEW dist
  PROVE  Offer(b, n, ef, dist) \in Beams(I)
BY DEF Offer, Beams

LEMMA OfferAllBeam ==
  ASSUME NEW I, NEW b \in Beams(I), NEW s \in Seq(I), NEW ef, NEW dist
  PROVE  OfferAll(b, s, ef, dist) \in Beams(I)
<1> DEFINE n == Len(s)
           Solves(f) == f = [i \in 0 .. n |-> IF i = 0 THEN b ELSE Offer(f[i - 1], s[i], ef, dist)]
           after == CHOOSE f : Solves(f)
           g == [i \in 1 .. n |-> [x \in Beams(I) |-> Offer(x, s[i], ef, dist)]]
<1>1. n \in Nat /\ \A i \in 1 .. n : s[i] \in I
  OBVIOUS
<1> HIDE DEF n
<1>2. \A i \in 1 .. n : \A x \in Beams(I) : Offer(x, s[i], ef, dist) \in Beams(I)
  BY <1>1, OfferBeam
<1>3. g \in [1 .. n -> [Beams(I) -> Beams(I)]]
  BY <1>2
<1>4. PICK f \in [0 .. n -> Beams(I)] : Runs(f, b, g, n)
  <2> HIDE DEF g
  <2> QED
    BY <1>1, <1>3, LoopExists
<1>5. Solves(f)
  <2>1. \A i \in 1 .. n : f[i - 1] \in Beams(I)
    BY <1>1, <1>4
  <2>2. \A i \in 1 .. n : f[i] = Offer(f[i - 1], s[i], ef, dist)
    BY <1>4, <2>1 DEF Runs
  <2> QED
    BY <1>1, <1>4, <2>2 DEF Runs
<1>6. Solves(after)
  BY <1>5, Zenon
<1> HIDE DEF after
<1> DEFINE P == {i \in 0 .. n : after[i] \in Beams(I)}
<1>7. \A i \in 0 .. n : i \in P
  <2>1. 0 \in P
    BY <1>1, <1>6
  <2>2. ASSUME NEW i \in 1 .. n, i - 1 \in P
        PROVE  i \in P
    <3>1. i - 1 \in 0 .. n /\ i \in 0 .. n /\ i # 0
      BY <1>1
    <3>2. after[i] = Offer(after[i - 1], s[i], ef, dist)
      BY <1>6, <3>1
    <3> QED
      BY <1>2, <2>2, <3>1, <3>2
  <2> HIDE DEF P
  <2> QED
    BY <1>1, <2>1, <2>2, EveryRound
<1>8. OfferAll(b, s, ef, dist) = after[n]
  BY DEF OfferAll, after, n
<1> QED
  BY <1>1, <1>7, <1>8

LEMMA BeamRoundBeam ==
  ASSUME NEW I \in SUBSET Nodes, NEW m, NEW layer, LayerOver(I, layer, m),
         NEW dist \in [Nodes -> Nat], NEW ef, NEW b \in Beams(I)
  PROVE  BeamRound(b, layer, ef, dist) \in Beams(I)
<1> DEFINE c == Nearest(b.cands, dist)
           taken == [b EXCEPT !.cands = @ \ {c}]
<1>1. CASE Exhausted(b, ef, dist)
  BY <1>1 DEF BeamRound
<1>2. CASE ~Exhausted(b, ef, dist)
  <2>1. b.cands # {} /\ b.cands \in SUBSET I
    BY <1>2 DEF Exhausted, Beams
  <2>2. c \in I
    BY <2>1, NearestIn
  <2>3. layer[c] \in Seq(I \ {c})
    BY <2>2 DEF LayerOver
  <2>4. layer[c] \in Seq(I)
    <3> HIDE DEF c
    <3> QED
      BY <2>3, SeqMonotonic
  <2>5. taken \in Beams(I)
    BY DEF Beams
  <2>6. BeamRound(b, layer, ef, dist) = OfferAll(taken, layer[c], ef, dist)
    BY <1>2 DEF BeamRound
  <2> HIDE DEF c, taken
  <2> QED
    BY <2>4, <2>5, <2>6, OfferAllBeam
<1> QED
  BY <1>1, <1>2

LEMMA BeamFinds ==
  ASSUME NEW I \in SUBSET Nodes, NEW m, NEW layer, LayerOver(I, layer, m),
         NEW dist \in [Nodes -> Nat], NEW ef, NEW entries \in (SUBSET I) \ {{}}
  PROVE  BeamSearchLayer(entries, layer, ef, dist) \in (SUBSET I) \ {{}}
<1> DEFINE n == Cardinality(Nodes)
           Solves(f) == f = [i \in 0 .. n |-> IF i = 0 THEN Beam(entries)
                                              ELSE BeamRound(f[i - 1], layer, ef, dist)]
           beam == CHOOSE f : Solves(f)
           g == [i \in 1 .. n |-> [x \in Beams(I) |-> BeamRound(x, layer, ef, dist)]]
<1>0. Beam(entries) \in Beams(I)
  BY DEF Beam, Beams
<1>1. n \in Nat
  BY HnswAssumption, FS_CardinalityType
<1> HIDE DEF n
<1>2. \A x \in Beams(I) : BeamRound(x, layer, ef, dist) \in Beams(I)
  BY BeamRoundBeam
<1>3. g \in [1 .. n -> [Beams(I) -> Beams(I)]]
  BY <1>2
<1>4. PICK f \in [0 .. n -> Beams(I)] : Runs(f, Beam(entries), g, n)
  <2> HIDE DEF g
  <2> QED
    BY <1>0, <1>1, <1>3, LoopExists
<1>5. Solves(f)
  <2>1. \A i \in 1 .. n : f[i - 1] \in Beams(I)
    BY <1>1, <1>4
  <2>2. \A i \in 1 .. n : f[i] = BeamRound(f[i - 1], layer, ef, dist)
    BY <1>4, <2>1 DEF Runs
  <2> QED
    BY <1>1, <1>4, <2>2 DEF Runs
<1>6. Solves(beam)
  BY <1>5, Zenon
<1> HIDE DEF beam
<1> DEFINE P == {i \in 0 .. n : beam[i] \in Beams(I)}
<1>7. \A i \in 0 .. n : i \in P
  <2>1. 0 \in P
    BY <1>0, <1>1, <1>6
  <2>2. ASSUME NEW i \in 1 .. n, i - 1 \in P
        PROVE  i \in P
    <3>1. i - 1 \in 0 .. n /\ i \in 0 .. n /\ i # 0
      BY <1>1
    <3>2. beam[i] = BeamRound(beam[i - 1], layer, ef, dist)
      BY <1>6, <3>1
    <3> QED
      BY <1>2, <2>2, <3>1, <3>2
  <2> HIDE DEF P
  <2> QED
    BY <1>1, <2>1, <2>2, EveryRound
<1>8. beam[n] \in Beams(I)
  BY <1>1, <1>7
<1>9. BeamSearchLayer(entries, layer, ef, dist) = beam[n].top
  BY DEF BeamSearchLayer, beam, n
<1> QED
  BY <1>8, <1>9 DEF Beams

-----------------------------------------------------------------------------
(* A selection for q is at most m candidates other than q, and it is not   *)
(* empty when there is such a candidate.                                   *)
Selections(C, q, m) == {s \in Seq(C \ {q}) : Len(s) <= m}

LEMMA ConsiderSelects ==
  ASSUME NEW C, NEW q, NEW m \in Nat \ {0}, NEW emb_, NEW s \in Selections(C, q, m), NEW c \in C
  PROVE  /\ Consider(emb_, q, s, c, m) \in Selections(C, q, m)
         /\ s # <<>> \/ c # q => Consider(emb_, q, s, c, m) # <<>>
<1> DEFINE r == Consider(emb_, q, s, c, m)
<1>1. s \in Seq(C \ {q}) /\ Len(s) \in Nat /\ Len(s) <= m
  BY DEF Selections
<1>2. \/ r = s
      \/ c # q /\ Len(s) < m /\ r = Append(s, c)
  BY <1>1 DEF Consider
<1>3. s = <<>> /\ c # q => r = Append(s, c)
  <2>1. ASSUME s = <<>>, c # q
        PROVE  r = Append(s, c)
    <3>1. ~(Len(s) >= m)
      BY <2>1
    <3>2. DOMAIN s = {}
      BY <2>1
    <3> QED
      BY <2>1, <3>1, <3>2 DEF Consider
  <2> QED
    BY <2>1
<1> HIDE DEF r
<1>4. CASE r = s
  <2>1. s # <<>> \/ c # q => r # <<>>
    <3>1. Append(s, c) # <<>>
      BY <1>1
    <3> QED
      BY <1>3, <1>4, <3>1
  <2> QED
    BY <1>4, <2>1 DEF r
<1>5. CASE c # q /\ Len(s) < m /\ r = Append(s, c)
  <2>1. c \in C \ {q}
    BY <1>5
  <2>2. /\ Append(s, c) \in Seq(C \ {q})
        /\ Len(Append(s, c)) = Len(s) + 1
        /\ Append(s, c) # <<>>
    BY <1>1, <2>1
  <2>3. Append(s, c) \in Selections(C, q, m)
    BY <1>1, <1>5, <2>2 DEF Selections
  <2> QED
    BY <1>5, <2>2, <2>3 DEF r
<1> QED
  BY <1>2, <1>4, <1>5

LEMMA Selected ==
  ASSUME NEW C \in SUBSET Nodes, NEW q \in Nodes, NEW m \in Nat \ {0},
         NEW emb_ \in [Nodes -> Embeddings], NEW s \in Seq(C)
  PROVE  /\ Algorithm4Select(emb_, q, s, m) \in Selections(C, q, m)
         /\ \A j \in 1 .. Len(s) : s[j] # q => Algorithm4Select(emb_, q, s, m) # <<>>
<1> DEFINE dist == DistancesFrom(emb_, q)
           sorted == SortedByDistance(s, dist)
           S == Selections(C, q, m)
           n == Len(s)
           Solves(f) == f = [i \in 0 .. n |-> IF i = 0 THEN <<>>
                                              ELSE Consider(emb_, q, f[i - 1], sorted[i], m)]
           chosen == CHOOSE f : Solves(f)
           g == [i \in 1 .. n |-> [x \in S |-> Consider(emb_, q, x, sorted[i], m)]]
<1>0. s \in Seq(Nodes) /\ dist \in [Nodes -> Nat]
  BY SeqMonotonic, DistancesNat
<1>1. /\ n \in Nat
      /\ \A i \in 1 .. n : sorted[i] \in C
      /\ \A j \in 1 .. n : \E i \in 1 .. n : sorted[i] = s[j]
  <2> HIDE DEF dist
  <2>1. /\ \A k \in 1 .. Len(s) : \E j \in 1 .. Len(s) : sorted[k] = s[j]
        /\ \A j \in 1 .. Len(s) : \E k \in 1 .. Len(s) : sorted[k] = s[j]
    BY <1>0, SortedLists
  <2>2. \A j \in 1 .. Len(s) : s[j] \in C
    OBVIOUS
  <2> HIDE DEF sorted
  <2>3. \A k \in 1 .. Len(s) : sorted[k] \in C
    BY <2>1, <2>2
  <2> QED
    BY <2>1, <2>3
<1> HIDE DEF n, sorted, dist
<1>2. \A i \in 1 .. n : \A x \in S :
        /\ Consider(emb_, q, x, sorted[i], m) \in S
        /\ x # <<>> \/ sorted[i] # q => Consider(emb_, q, x, sorted[i], m) # <<>>
  BY <1>1, ConsiderSelects
<1>a. <<>> \in S
  BY DEF Selections
<1> HIDE DEF S
<1>3. g \in [1 .. n -> [S -> S]]
  BY <1>2
<1>4. PICK f \in [0 .. n -> S] : Runs(f, <<>>, g, n)
  <2> HIDE DEF g
  <2> QED
    BY <1>1, <1>3, <1>a, LoopExists
<1>5. Solves(f)
  <2>0. \A i \in 1 .. n : i - 1 \in 0 .. n
    BY <1>1
  <2>1. \A i \in 1 .. n : f[i - 1] \in S
    BY <1>4, <2>0
  <2>2. \A i \in 1 .. n : f[i] = Consider(emb_, q, f[i - 1], sorted[i], m)
    BY <1>4, <2>1 DEF Runs
  <2> QED
    BY <1>1, <1>4, <2>2 DEF Runs
<1>6. Solves(chosen)
  BY <1>5, Zenon
<1> HIDE DEF chosen
<1> DEFINE P == {i \in 0 .. n : /\ chosen[i] \in S
                                /\ \A k \in 1 .. i : sorted[k] # q => chosen[i] # <<>>}
<1>7. \A i \in 0 .. n : i \in P
  <2>1. 0 \in P
    BY <1>1, <1>6, <1>a
  <2>2. ASSUME NEW i \in 1 .. n, i - 1 \in P
        PROVE  i \in P
    <3>1. i - 1 \in 0 .. n /\ i \in 0 .. n /\ i # 0
      BY <1>1
    <3>2. chosen[i] = Consider(emb_, q, chosen[i - 1], sorted[i], m)
      BY <1>6, <3>1
    <3>3. /\ chosen[i] \in S
          /\ chosen[i - 1] # <<>> \/ sorted[i] # q => chosen[i] # <<>>
      BY <1>2, <2>2, <3>2
    <3>4. ASSUME NEW k \in 1 .. i, sorted[k] # q
          PROVE  chosen[i] # <<>>
      <4>1. CASE k = i
        BY <3>3, <3>4, <4>1
      <4>2. CASE k # i
        <5>1. k \in 1 .. i - 1
          BY <3>1, <4>2
        <5> QED
          BY <2>2, <3>3, <3>4, <5>1
      <4> QED
        BY <4>1, <4>2
    <3> QED
      BY <3>1, <3>3, <3>4
  <2> HIDE DEF P
  <2> QED
    BY <1>1, <2>1, <2>2, EveryRound
<1>8. Algorithm4Select(emb_, q, s, m) = chosen[n]
  BY DEF Algorithm4Select, chosen, n, sorted, dist
<1>9. n \in P
  BY <1>1, <1>7
<1>10. ASSUME NEW j \in 1 .. Len(s), s[j] # q
       PROVE  chosen[n] # <<>>
  <2>1. PICK i \in 1 .. n : sorted[i] = s[j]
    BY <1>1 DEF n
  <2> QED
    BY <1>9, <1>10, <2>1
<1> QED
  BY <1>8, <1>9, <1>10 DEF S

(* The heap gives a list of exactly what the beam found. *)
Ties(ties) ==
  /\ ties \in [Nodes -> Nat]
  /\ \A x, y \in Nodes : ties[x] = ties[y] => x = y

ListsAll(list, C) ==
  /\ list \in Seq(C)
  /\ \A x \in C : \E j \in 1 .. Len(list) : list[j] = x

LEMMA HeapLists ==
  ASSUME NEW C \in SUBSET Nodes, NEW ties, Ties(ties)
  PROVE  ListsAll(HeapOrder(C, ties), C)
<1> DEFINE R == {p \in C \X C : ties[p[1]] < ties[p[2]]}
<1>1. \A x, y \in C : <<x, y>> \in R <=> ties[x] < ties[y]
  OBVIOUS
<1>2. HeapOrder(C, ties) = Ranked(C, R)
  BY DEF HeapOrder
<1> HIDE DEF R
<1>3. \A x \in C : ties[x] \in Nat
  BY DEF Ties
<1>4. \A x, y \in C : ties[x] = ties[y] => x = y
  BY DEF Ties
<1>5. OrdersAll(R, C)
  <2>1. \A x \in C : <<x, x>> \notin R
    BY <1>1, <1>3
  <2>2. \A x, y \in C : x # y => <<x, y>> \in R \/ <<y, x>> \in R
    BY <1>1, <1>3, <1>4
  <2>3. \A x, y, z \in C : <<x, y>> \in R /\ <<y, z>> \in R => <<x, z>> \in R
    BY <1>1, <1>3
  <2> QED
    BY <2>1, <2>2, <2>3 DEF OrdersAll
<1>6. IsFiniteSet(C)
  BY HnswAssumption, FS_Subset
<1>7. /\ Cardinality(C) \in Nat
      /\ Ranked(C, R) \in [1 .. Cardinality(C) -> C]
      /\ \A x \in C : \E k \in 1 .. Cardinality(C) : Ranked(C, R)[k] = x
  BY <1>5, <1>6, RankedLists
<1>8. Ranked(C, R) \in Seq(C) /\ Len(Ranked(C, R)) = Cardinality(C)
  BY <1>7
<1> QED
  BY <1>2, <1>7, <1>8 DEF ListsAll

-----------------------------------------------------------------------------
(* Linking x to its selection: no list grows too long, none that has a     *)
(* node loses its last, and those selected have one.                       *)
Relisted(old, new, J, s, m) ==
  /\ LayerOver(J, new, m)
  /\ new[s] # <<>>
  /\ \A y \in Nodes \ {s} : new[y] = old[y]

LEMMA LinkBackKeeps ==
  ASSUME NEW J \in SUBSET Nodes, NEW m \in Nat \ {0}, NEW layer, LayerOver(J, layer, m),
         NEW emb_ \in [Nodes -> Embeddings], NEW x \in J, NEW s \in J \ {x}
  PROVE  Relisted(layer, LinkBack(emb_, layer, x, s, m), J, s, m)
<1> DEFINE grown == Append(layer[s], x)
           list == IF Len(grown) > m THEN Algorithm4Select(emb_, s, grown, m) ELSE grown
<1>1. layer \in [Nodes -> Seq(Nodes)] /\ layer[s] \in Seq(J \ {s}) /\ s \in Nodes
  BY DEF LayerOver
<1>2. /\ grown \in Seq(J \ {s}) /\ Len(grown) = Len(layer[s]) + 1
      /\ Len(layer[s]) \in Nat /\ grown[Len(grown)] = x /\ grown # <<>>
  <2>1. x \in J \ {s}
    OBVIOUS
  <2>2. Len(layer[s]) \in Nat
    BY <1>1
  <2> DEFINE old == layer[s]
  <2>3. old \in Seq(J \ {s})
    BY <1>1
  <2> HIDE DEF old
  <2>4. /\ Append(old, x) \in Seq(J \ {s}) /\ Append(old, x) # <<>>
        /\ Len(Append(old, x)) = Len(old) + 1 /\ Append(old, x)[Len(old) + 1] = x
    BY <2>1, <2>3, AppendProperties
  <2> QED
    BY <2>2, <2>4 DEF old
<1> HIDE DEF grown
<1>3. list \in Selections(J, s, m) /\ list # <<>>
  <2>1. CASE Len(grown) > m
    <3>1. /\ Algorithm4Select(emb_, s, grown, m) \in Selections(J \ {s}, s, m)
          /\ \A j \in 1 .. Len(grown) : grown[j] # s => Algorithm4Select(emb_, s, grown, m) # <<>>
      BY <1>1, <1>2, Selected
    <3>2. Len(grown) \in 1 .. Len(grown) /\ grown[Len(grown)] # s
      BY <1>2
    <3>3. (J \ {s}) \ {s} = J \ {s}
      OBVIOUS
    <3>4. Algorithm4Select(emb_, s, grown, m) # <<>>
      BY <3>1, <3>2
    <3> QED
      BY <2>1, <3>1, <3>3, <3>4 DEF Selections
  <2>2. CASE ~(Len(grown) > m)
    BY <1>2, <2>2 DEF Selections
  <2> QED
    BY <2>1, <2>2
<1>4. LinkBack(emb_, layer, x, s, m) = [layer EXCEPT ![s] = list]
  BY DEF LinkBack, grown
<1> HIDE DEF list
<1>5. list \in Seq(J \ {s}) /\ Len(list) <= m
  BY <1>3 DEF Selections
<1>6. list \in Seq(Nodes)
  BY <1>5, SeqMonotonic
<1>7. [layer EXCEPT ![s] = list] \in [Nodes -> Seq(Nodes)]
  BY <1>1, <1>6
<1>8. \A y \in Nodes : [layer EXCEPT ![s] = list][y] = IF y = s THEN list ELSE layer[y]
  BY <1>1
<1>9. LayerOver(J, [layer EXCEPT ![s] = list], m)
  BY <1>5, <1>7, <1>8 DEF LayerOver
<1> QED
  BY <1>1, <1>3, <1>4, <1>8, <1>9 DEF Relisted

Links(old, new, J, x, s, m) ==
  /\ LayerOver(J, new, m)
  /\ new[x] = s
  /\ \A y \in Nodes \ {x} : old[y] # <<>> => new[y] # <<>>
  /\ \A j \in 1 .. Len(s) : new[s[j]] # <<>>

LEMMA LinkLayerKeeps ==
  ASSUME NEW J \in SUBSET Nodes, NEW m \in Nat \ {0}, NEW layer, LayerOver(J, layer, m),
         NEW emb_ \in [Nodes -> Embeddings], NEW x \in J, NEW s \in Selections(J, x, m)
  PROVE  Links(layer, LinkLayer(emb_, layer, x, s, m), J, x, s, m)
<1> DEFINE n == Len(s)
           a == [layer EXCEPT ![x] = s]
           S == {l \in [Nodes -> Seq(Nodes)] : LayerOver(J, l, m)}
           Solves(f) == f = [i \in 0 .. n |-> IF i = 0 THEN [layer EXCEPT ![x] = s]
                                              ELSE LinkBack(emb_, f[i - 1], x, s[i], m)]
           linked == CHOOSE f : Solves(f)
           g == [i \in 1 .. n |-> [l \in S |-> LinkBack(emb_, l, x, s[i], m)]]
           Kept(l) == /\ l \in S
                      /\ l[x] = s
                      /\ \A y \in Nodes \ {x} : layer[y] # <<>> => l[y] # <<>>
<1>1. /\ n \in Nat /\ Len(s) <= m
      /\ s \in Seq(J \ {x})
      /\ \A i \in 1 .. n : s[i] \in J \ {x}
  BY DEF Selections
<1> HIDE DEF n
<1>2. ASSUME NEW i \in 1 .. n, NEW l \in S
      PROVE  /\ LinkBack(emb_, l, x, s[i], m) \in S
             /\ Relisted(l, LinkBack(emb_, l, x, s[i], m), J, s[i], m)
  <2>1. LayerOver(J, l, m) /\ s[i] \in J \ {x}
    BY <1>1
  <2> HIDE DEF S
  <2>2. Relisted(l, LinkBack(emb_, l, x, s[i], m), J, s[i], m)
    BY <2>1, LinkBackKeeps
  <2>3. LinkBack(emb_, l, x, s[i], m) \in S
    BY <2>2 DEF Relisted, LayerOver, S
  <2> QED
    BY <2>2, <2>3
<1>3. Kept(a)
  <2>1. s \in Seq(Nodes)
    BY <1>1, SeqMonotonic
  <2>2. /\ a \in [Nodes -> Seq(Nodes)]
        /\ \A y \in Nodes : a[y] = IF y = x THEN s ELSE layer[y]
    BY <2>1 DEF LayerOver
  <2> HIDE DEF a
  <2>3. LayerOver(J, a, m)
    BY <1>1, <2>2 DEF LayerOver
  <2> QED
    BY <2>2, <2>3
<1>4. g \in [1 .. n -> [S -> S]]
  <2> HIDE DEF S
  <2> QED
    BY <1>2
<1>5. PICK f \in [0 .. n -> S] : Runs(f, a, g, n)
  <2>1. a \in S
    BY <1>3
  <2> HIDE DEF g, S, a
  <2> QED
    BY <1>1, <1>4, <2>1, LoopExists
<1>6. Solves(f)
  <2>0. \A i \in 1 .. n : i - 1 \in 0 .. n
    BY <1>1
  <2> HIDE DEF S
  <2>1. \A i \in 1 .. n : f[i - 1] \in S
    BY <1>5, <2>0
  <2>2. \A i \in 1 .. n : f[i] = LinkBack(emb_, f[i - 1], x, s[i], m)
    BY <1>5, <2>1 DEF Runs
  <2> QED
    BY <1>1, <1>5, <2>2 DEF Runs
<1>7. Solves(linked)
  BY <1>6, Zenon
<1>8. LinkLayer(emb_, layer, x, s, m) = linked[n]
  BY DEF LinkLayer, linked, n
<1> HIDE DEF linked
<1> DEFINE P == {i \in 0 .. n : /\ Kept(linked[i])
                                /\ \A j \in 1 .. i : linked[i][s[j]] # <<>>}
<1>9. \A i \in 0 .. n : i \in P
  <2>1. 0 \in P
    <3>1. linked[0] = a
      BY <1>1, <1>7
    <3> HIDE DEF a
    <3> QED
      BY <1>1, <1>3, <3>1
  <2>2. ASSUME NEW i \in 1 .. n, i - 1 \in P
        PROVE  i \in P
    <3> DEFINE before == linked[i - 1]
               l == linked[i]
    <3>1. i - 1 \in 0 .. n /\ i \in 0 .. n /\ i # 0
      BY <1>1
    <3>2. l = LinkBack(emb_, before, x, s[i], m)
      BY <1>7, <3>1
    <3>3. Kept(before) /\ \A j \in 1 .. i - 1 : before[s[j]] # <<>>
      BY <2>2
    <3> HIDE DEF before, l, a
    <3>4. /\ l \in S /\ l[s[i]] # <<>>
          /\ \A y \in Nodes \ {s[i]} : l[y] = before[y]
      <4>1. before \in S
        BY <3>3
      <4> HIDE DEF S
      <4>2. l \in S /\ Relisted(before, l, J, s[i], m)
        BY <1>2, <3>2, <4>1
      <4> QED
        BY <4>2 DEF Relisted
    <3>5. s[i] \in J \ {x} /\ x \in Nodes
      BY <1>1
    <3> HIDE DEF S
    <3>6. l[x] = s
      BY <3>3, <3>4, <3>5
    <3>7. \A y \in Nodes \ {x} : layer[y] # <<>> => l[y] # <<>>
      BY <3>3, <3>4
    <3>8. ASSUME NEW j \in 1 .. i
          PROVE  l[s[j]] # <<>>
      <4>1. CASE s[j] = s[i]
        BY <3>4, <4>1
      <4>2. CASE s[j] # s[i]
        <5>1. j \in 1 .. i - 1 /\ j \in 1 .. n
          BY <1>1, <4>2
        <5>2. s[j] \in Nodes \ {s[i]}
          BY <1>1, <4>2, <5>1
        <5> QED
          BY <3>3, <3>4, <5>1, <5>2
      <4> QED
        BY <4>1, <4>2
    <3>9. Kept(l)
      BY <3>4, <3>6, <3>7
    <3> HIDE DEF Kept
    <3> QED
      BY <3>1, <3>8, <3>9 DEF l
  <2> HIDE DEF P
  <2> QED
    BY <1>1, <2>1, <2>2, EveryRound
<1>10. n \in P
  BY <1>1, <1>9
<1> QED
  BY <1>8, <1>10 DEF n, Links

-----------------------------------------------------------------------------
(* One layer of an insertion of x into a graph over I.                     *)
Accs(I, x) ==
  {acc \in [nbr : [0 .. TopLevel -> [Nodes -> Seq(Nodes)]], entries : (SUBSET I) \ {{}}] :
     GraphOver(I \cup {x}, acc.nbr)}

(* The new layer gives x a list, and a node of I one that it may have      *)
(* lacked, and takes no node's last neighbour.                             *)
Joined(I, x, old, new) ==
  /\ new[x] # <<>>
  /\ \E y \in I : new[y] # <<>>
  /\ \A y \in Nodes \ {x} : old[y] # <<>> => new[y] # <<>>

LEMMA LayerOverMore ==
  ASSUME NEW I, NEW J, I \subseteq J, NEW m, NEW layer, LayerOver(I, layer, m)
  PROVE  LayerOver(J, layer, m)
<1>1. ASSUME NEW y \in Nodes
      PROVE  layer[y] \in Seq(J \ {y}) /\ Len(layer[y]) <= m
  <2> DEFINE s == layer[y]
  <2>1. s \in Seq(I \ {y}) /\ Len(s) <= m
    BY DEF LayerOver
  <2>2. I \ {y} \subseteq J \ {y}
    OBVIOUS
  <2> HIDE DEF s
  <2>3. s \in Seq(J \ {y})
    BY <2>1, <2>2, SeqMonotonic
  <2> QED
    BY <2>1, <2>3 DEF s
<1> QED
  BY <1>1 DEF LayerOver

LEMMA MaxNeighborsNat ==
  ASSUME NEW l \in 0 .. TopLevel
  PROVE  MaxNeighbors(l) \in Nat \ {0}
BY HnswAssumption DEF MaxNeighbors

LEMMA InsertAtKeeps ==
  ASSUME NEW I \in SUBSET Nodes, NEW x \in Nodes \ I, NEW l \in 0 .. TopLevel,
         NEW here \in I, NEW ties, Ties(ties), NEW emb_ \in [Nodes -> Embeddings],
         NEW acc \in Accs(I, x)
  PROVE  LET r == InsertAtLayer(emb_, acc, x, l, here, ties)
         IN /\ r \in Accs(I, x)
            /\ \A k \in (0 .. TopLevel) \ {l} : r.nbr[k] = acc.nbr[k]
            /\ LayerOver(I, acc.nbr[l], MaxNeighbors(l)) =>
                 Joined(I, x, acc.nbr[l], r.nbr[l])
<1> DEFINE J == I \cup {x}
           m == MaxNeighbors(l)
           old == acc.nbr[l]
           dist == DistancesFrom(emb_, x)
           found == BeamSearchLayer(acc.entries, old, EfConstruction, dist)
           list == HeapOrder(found, ties)
           selected == Algorithm4Select(emb_, x, list, m)
           new == LinkLayer(emb_, old, x, selected, m)
           r == InsertAtLayer(emb_, acc, x, l, here, ties)
<1>1. /\ J \in SUBSET Nodes /\ I \subseteq J /\ x \in J /\ x \in Nodes
      /\ m \in Nat \ {0}
      /\ dist \in [Nodes -> Nat]
  BY MaxNeighborsNat, DistancesNat
<1>2. /\ acc.nbr \in [0 .. TopLevel -> [Nodes -> Seq(Nodes)]]
      /\ acc.entries \in (SUBSET I) \ {{}}
      /\ GraphOver(J, acc.nbr)
  BY DEF Accs
<1>3. LayerOver(J, old, m)
  BY <1>2 DEF GraphOver
<1>4. r = [nbr |-> [acc.nbr EXCEPT ![l] = new],
           entries |-> IF selected = <<>> THEN {here} ELSE ToSet(selected)]
  BY DEF InsertAtLayer
<1> HIDE DEF m, old, dist, r, J
<1>5. found \in (SUBSET J) \ {{}}
  <2>1. acc.entries \in (SUBSET J) \ {{}}
    BY <1>1, <1>2
  <2> QED
    BY <1>1, <1>3, <2>1, BeamFinds
<1>6. LayerOver(I, old, m) => found \in (SUBSET I) \ {{}}
  BY <1>1, <1>2, BeamFinds
<1> HIDE DEF found
<1>7. found \in SUBSET Nodes
  BY <1>1, <1>5
<1>8. /\ list \in Seq(found)
      /\ \A z \in found : \E j \in 1 .. Len(list) : list[j] = z
  <2>1. ListsAll(list, found)
    BY <1>7, HeapLists
  <2> HIDE DEF list
  <2> QED
    BY <2>1 DEF ListsAll
<1> HIDE DEF list
<1>9. /\ selected \in Selections(found, x, m)
      /\ \A j \in 1 .. Len(list) : list[j] # x => selected # <<>>
  <2>1. found \in SUBSET Nodes /\ x \in Nodes /\ m \in Nat \ {0} /\ list \in Seq(found)
    BY <1>1, <1>7, <1>8
  <2> QED
    BY <2>1, Selected
<1> HIDE DEF selected
<1>10. /\ selected \in Seq(found \ {x}) /\ Len(selected) <= m /\ Len(selected) \in Nat
       /\ \A j \in 1 .. Len(selected) : selected[j] \in found \ {x}
  BY <1>9 DEF Selections
<1>11. found \ {x} \subseteq I
  BY <1>5 DEF J
<1>12. selected \in Selections(J, x, m)
  <2>1. found \ {x} \subseteq J \ {x}
    BY <1>5
  <2>2. selected \in Seq(J \ {x})
    BY <1>10, <2>1, SeqMonotonic
  <2> QED
    BY <1>10, <2>2 DEF Selections
<1>13. /\ LayerOver(J, new, m)
       /\ new[x] = selected
       /\ \A y \in Nodes \ {x} : old[y] # <<>> => new[y] # <<>>
       /\ \A j \in 1 .. Len(selected) : new[selected[j]] # <<>>
  <2>1. Links(old, new, J, x, selected, m)
    BY <1>1, <1>3, <1>12, LinkLayerKeeps
  <2> HIDE DEF new
  <2> QED
    BY <2>1 DEF Links
<1> HIDE DEF new
<1>14. r \in Accs(I, x) /\ \A k \in (0 .. TopLevel) \ {l} : r.nbr[k] = acc.nbr[k]
  <2>1. /\ r.nbr = [acc.nbr EXCEPT ![l] = new]
        /\ r.entries = IF selected = <<>> THEN {here} ELSE ToSet(selected)
    BY <1>4
  <2>2. new \in [Nodes -> Seq(Nodes)]
    BY <1>13 DEF LayerOver
  <2>3. /\ r.nbr \in [0 .. TopLevel -> [Nodes -> Seq(Nodes)]]
        /\ \A k \in 0 .. TopLevel : r.nbr[k] = IF k = l THEN new ELSE acc.nbr[k]
    BY <1>2, <2>1, <2>2
  <2>4. GraphOver(J, r.nbr)
    BY <1>2, <1>13, <2>3 DEF GraphOver, m
  <2>5. r.entries \in (SUBSET I) \ {{}}
    <3>1. CASE selected = <<>>
      BY <2>1, <3>1
    <3>2. CASE selected # <<>>
      <4>1. Len(selected) > 0 /\ DOMAIN selected = 1 .. Len(selected)
        BY <1>10, <3>2
      <4>2. ToSet(selected) \subseteq I
        BY <1>10, <1>11, <4>1 DEF ToSet
      <4>3. selected[1] \in ToSet(selected)
        BY <1>10, <4>1 DEF ToSet
      <4> QED
        BY <2>1, <3>2, <4>2, <4>3
    <3> QED
      BY <3>1, <3>2
  <2>6. r = [nbr |-> r.nbr, entries |-> r.entries]
    BY <1>4
  <2> QED
    BY <2>3, <2>4, <2>5, <2>6 DEF Accs, J
<1>15. ASSUME LayerOver(I, old, m)
       PROVE  Joined(I, x, old, r.nbr[l])
  <2>1. r.nbr[l] = new
    BY <1>2, <1>4
  <2>2. PICK z \in found : z # x
    BY <1>6, <1>15
  <2>3. selected # <<>>
    BY <1>8, <1>9, <2>2
  <2>4. 1 \in 1 .. Len(selected)
    BY <1>10, <2>3
  <2>5. selected[1] \in I /\ new[selected[1]] # <<>>
    BY <1>10, <1>11, <1>13, <2>4
  <2> QED
    BY <1>13, <2>1, <2>3, <2>5 DEF Joined
<1> QED
  BY <1>14, <1>15 DEF r, m, old

-----------------------------------------------------------------------------
(* The graph: no list holds its own node, one that was not inserted or     *)
(* more nodes than its layer allows, and no node is a dead end at layer 0  *)
(* once there are two.                                                     *)
NoneLost(I, layer) == \A y \in I : (\E z \in I : z # y) => layer[y] # <<>>

GraphOk(g) ==
  /\ g.inserted \in SUBSET Nodes
  /\ GraphOver(g.inserted, g.nbr)
  /\ NoneLost(g.inserted, g.nbr[0])

LEMMA JoinedNoneLost ==
  ASSUME NEW I, NEW x \in Nodes \ I, I \subseteq Nodes, NEW old, NEW new,
         NoneLost(I, old), Joined(I, x, old, new)
  PROVE  NoneLost(I \cup {x}, new)
<1>1. ASSUME NEW y \in I \cup {x}
      PROVE  new[y] # <<>>
  <2>1. CASE y = x
    BY <2>1 DEF Joined
  <2>2. CASE y # x /\ \E z \in I : z # y
    BY <2>2 DEF Joined, NoneLost
  <2>3. CASE y # x /\ ~ \E z \in I : z # y
    BY <2>3 DEF Joined
  <2> QED
    BY <2>1, <2>2, <2>3
<1> QED
  BY <1>1 DEF NoneLost

LEMMA InsertKeeps ==
  ASSUME NEW g, GraphOk(g), NEW x \in Nodes \ g.inserted,
         NEW levels_ \in [Nodes -> 0 .. TopLevel],
         NEW entry \in Nodes, g.inserted # {} => entry \in g.inserted,
         NEW ties, Ties(ties), NEW emb_ \in [Nodes -> Embeddings]
  PROVE  /\ GraphOk(Insert(emb_, levels_, entry, g, x, ties))
         /\ Insert(emb_, levels_, entry, g, x, ties).inserted = g.inserted \cup {x}
<1> DEFINE I == g.inserted
           J == I \cup {x}
           n == levels_[x] + 1
           dist == DistancesFrom(emb_, x)
           here == Descend(g.nbr, entry, levels_[entry], levels_[x] + 1, dist)
           Solves(f) == f = [i \in 0 .. n |->
                               IF i = 0 THEN [nbr |-> g.nbr, entries |-> {here}]
                               ELSE InsertAtLayer(emb_, f[i - 1], x, levels_[x] + 1 - i, here, ties)]
           acc == CHOOSE f : Solves(f)
           r == Insert(emb_, levels_, entry, g, x, ties)
<1>1. /\ I \in SUBSET Nodes /\ J \in SUBSET Nodes /\ I \subseteq J
      /\ x \in Nodes /\ x \notin I
      /\ GraphOver(I, g.nbr) /\ NoneLost(I, g.nbr[0])
      /\ g.nbr \in [0 .. TopLevel -> [Nodes -> Seq(Nodes)]]
  BY DEF GraphOk, GraphOver
<1>2. /\ TopLevel \in Nat /\ levels_[x] \in 0 .. TopLevel /\ levels_[entry] \in 0 .. TopLevel
      /\ n \in Nat /\ n # 0
      /\ \A i \in 1 .. n : levels_[x] + 1 - i \in 0 .. TopLevel
  <2> DEFINE lx == levels_[x]
  <2>1. TopLevel \in Nat /\ lx \in 0 .. TopLevel /\ levels_[entry] \in 0 .. TopLevel
    BY HnswAssumption
  <2> HIDE DEF lx
  <2>2. lx + 1 \in Nat /\ lx + 1 # 0 /\ \A i \in 1 .. lx + 1 : lx + 1 - i \in 0 .. TopLevel
    BY <2>1
  <2> QED
    BY <2>1, <2>2 DEF lx
<1>3. GraphOver(J, g.nbr)
  BY <1>1, LayerOverMore DEF GraphOver
<1>4. /\ r.inserted = J
      /\ r.nbr = IF I = {} THEN g.nbr ELSE acc[n].nbr
  BY DEF Insert
<1>5. ASSUME I = {}
      PROVE  GraphOk(r)
  <2>1. NoneLost(J, r.nbr[0])
    BY <1>5 DEF NoneLost
  <2> HIDE DEF r
  <2> QED
    BY <1>1, <1>3, <1>4, <1>5, <2>1 DEF GraphOk
<1>6. ASSUME I # {}
      PROVE  GraphOk(r)
  <2> DEFINE S == Accs(I, x)
             a == [nbr |-> g.nbr, entries |-> {here}]
             loop == [i \in 1 .. n |->
                        [s \in S |-> InsertAtLayer(emb_, s, x, levels_[x] + 1 - i, here, ties)]]
  <2>1. here \in I
    <3>1. dist \in [Nodes -> Nat]
      BY DistancesNat
    <3>2. n \in Nat /\ entry \in I
      BY <1>2, <1>6
    <3> HIDE DEF dist
    <3> QED
      BY <1>1, <1>2, <3>1, <3>2, DescendStays
  <2> HIDE DEF here
  <2>2. a \in S
    BY <1>1, <1>3, <2>1 DEF Accs
  <2> HIDE DEF S
  <2> DEFINE At(s, l) == InsertAtLayer(emb_, s, x, l, here, ties)
  <2>3. \A l \in 0 .. TopLevel : \A s \in S :
          /\ At(s, l) \in S
          /\ \A k \in (0 .. TopLevel) \ {l} : At(s, l).nbr[k] = s.nbr[k]
          /\ LayerOver(I, s.nbr[l], MaxNeighbors(l)) => Joined(I, x, s.nbr[l], At(s, l).nbr[l])
    BY <1>1, <2>1, InsertAtKeeps DEF S
  <2> HIDE DEF At
  <2>4. loop \in [1 .. n -> [S -> S]]
    BY <1>2, <2>3 DEF At
  <2>5. PICK f \in [0 .. n -> S] : Runs(f, a, loop, n)
    <3> HIDE DEF loop, a, n
    <3> QED
      BY <1>2, <2>2, <2>4, LoopExists
  <2>6. Solves(f)
    <3>0. \A i \in 1 .. n : i - 1 \in 0 .. n
      BY <1>2
    <3> HIDE DEF n
    <3>1. \A i \in 1 .. n : f[i - 1] \in S
      BY <2>5, <3>0
    <3>2. \A i \in 1 .. n : f[i] = InsertAtLayer(emb_, f[i - 1], x, levels_[x] + 1 - i, here, ties)
      BY <2>5, <3>1 DEF Runs
    <3> QED
      BY <1>2, <2>5, <3>2 DEF Runs
  <2>7. Solves(acc)
    <3> HIDE DEF n
    <3> QED
      BY <2>6, Zenon
  <2> HIDE DEF acc
  <2>8. acc[0] = a /\ \A i \in 1 .. n : acc[i] = At(acc[i - 1], levels_[x] + 1 - i)
    <3>1. acc[0] = a
      BY <1>2, <2>7
    <3>2. \A i \in 1 .. n : i \in 0 .. n /\ i # 0
      BY <1>2
    <3> HIDE DEF n
    <3>3. \A i \in 1 .. n : acc[i] = InsertAtLayer(emb_, acc[i - 1], x, levels_[x] + 1 - i, here, ties)
      BY <2>7, <3>2
    <3> QED
      BY <3>1, <3>3 DEF At
  <2> DEFINE P == {i \in 0 .. n : /\ acc[i] \in S
                                  /\ \A k \in 0 .. TopLevel : k < n - i => acc[i].nbr[k] = g.nbr[k]}
  <2>9. \A i \in 0 .. n : i \in P
    <3>1. 0 \in P
      BY <1>2, <2>2, <2>8
    <3>2. ASSUME NEW i \in 1 .. n, i - 1 \in P
          PROVE  i \in P
      <4> DEFINE l == levels_[x] + 1 - i
                 s == acc[i - 1]
      <4>1. l \in 0 .. TopLevel /\ l = n - i /\ i \in Nat
        BY <1>2
      <4>2. s \in S /\ \A k \in 0 .. TopLevel : k < n - (i - 1) => s.nbr[k] = g.nbr[k]
        BY <3>2
      <4>3. acc[i] = At(s, l)
        BY <2>8
      <4> HIDE DEF l, s
      <4>4. /\ acc[i] \in S
            /\ \A k \in (0 .. TopLevel) \ {l} : acc[i].nbr[k] = s.nbr[k]
        BY <2>3, <4>1, <4>2, <4>3
      <4>5. \A k \in 0 .. TopLevel : k < n - i => acc[i].nbr[k] = g.nbr[k]
        <5> HIDE DEF n
        <5>1. \A k \in 0 .. TopLevel : k < n - i => k # l /\ k < n - (i - 1)
          BY <1>2, <4>1
        <5> QED
          BY <4>2, <4>4, <5>1
      <4> QED
        BY <4>4, <4>5
    <3> HIDE DEF P, n
    <3> QED
      BY <1>2, <3>1, <3>2, EveryRound
  <2>10. n \in P /\ n - 1 \in P
    <3>1. n \in 0 .. n /\ n - 1 \in 0 .. n
      BY <1>2
    <3> HIDE DEF P, n
    <3> QED
      BY <2>9, <3>1
  <2>11. GraphOver(J, acc[n].nbr)
    BY <2>10 DEF S, Accs
  <2>12. Joined(I, x, g.nbr[0], acc[n].nbr[0])
    <3>1. acc[n] = At(acc[n - 1], 0)
      <4>1. n \in 1 .. n /\ levels_[x] + 1 - n = 0
        BY <1>2
      <4> HIDE DEF n
      <4> QED
        BY <2>8, <4>1
    <3>2. acc[n - 1] \in S /\ acc[n - 1].nbr[0] = g.nbr[0] /\ 0 \in 0 .. TopLevel
      BY <1>2, <2>10
    <3>3. LayerOver(I, g.nbr[0], MaxNeighbors(0))
      BY <1>1, <3>2 DEF GraphOver
    <3> HIDE DEF n
    <3> QED
      BY <2>3, <3>1, <3>2, <3>3
  <2>13. NoneLost(J, acc[n].nbr[0])
    <3> HIDE DEF n
    <3> QED
      BY <1>1, <2>12, JoinedNoneLost
  <2> HIDE DEF r, n
  <2> QED
    BY <1>1, <1>4, <1>6, <2>11, <2>13 DEF GraphOk
<1> QED
  BY <1>4, <1>5, <1>6

-----------------------------------------------------------------------------
(* The strengthening.  GraphInv: the nodes inserted are the first ones of  *)
(* the order, and the graph over them is sound.  SearchInv: a search under *)
(* way is one over the whole graph.  WideInv: a beam that never fills      *)
(* keeps every node it has seen, all of them reachable, and the neighbours *)
(* of each node it took are seen or still to be looked at.                 *)
GraphInv ==
  /\ params \in Params /\ emb \in Layouts /\ levels \in [Nodes -> 0 .. TopLevel]
  /\ GraphOk(graph)
  /\ graph.inserted = {Order(levels)[i] : i \in 1 .. Cardinality(graph.inserted)}

SearchFields(s) ==
  s = [at |-> s.at, query |-> s.query, k |-> s.k, here |-> s.here, todo |-> s.todo,
       beam |-> s.beam, outcome |-> s.outcome, hits |-> s.hits]

Running == {"entry", "pop", "fetch"}

SearchInv ==
  /\ SearchFields(search)
  /\ oram \in [defer : BOOLEAN, pending : Nat, reads : Nat, total : Nat, evicted : Nat]
  /\ search.at \in Running \cup {"idle", "end"}
  /\ search.query \in Embeddings /\ search.k \in Nat
  /\ search.at # "idle" => Built
  /\ search.at \in Running \ {"fetch"} => search.todo = <<>>

Wide == params.efn >= MaxNeighborsL0 /\ Ef >= Cardinality(Nodes)

BeamOk(layer, b, todo, here) ==
  /\ b \in Beams(Nodes)
  /\ todo \in Seq(Nodes)
  /\ here \in b.top /\ b.top = b.seen /\ b.cands \subseteq b.top
  /\ b.seen \subseteq Reach(layer, {here}) /\ ToSet(todo) \subseteq Reach(layer, {here})
  /\ \A y \in b.top \ b.cands : ToSet(layer[y]) \subseteq b.seen \cup ToSet(todo)

WideInv ==
  search.at \in Running /\ Wide => BeamOk(graph.nbr[0], search.beam, search.todo, search.here)

(* The accesses are those of the evictions done or queued and those since  *)
(* the last; a search defers until its body ends, and succeeds only with   *)
(* an empty queue.                                                         *)
Accounted ==
  /\ oram.total = EvictRate * (oram.evicted + oram.pending) + oram.reads
  /\ oram.reads < EvictRate

CaughtUp ==
  /\ search.at = "end" => ~ oram.defer
  /\ search.at = "idle" /\ search.outcome = "ok" => oram.pending = 0 /\ ~ oram.defer

IInv == GraphInv /\ SearchInv /\ WideInv /\ WideBeamIsExact /\ Accounted /\ CaughtUp

-----------------------------------------------------------------------------
(* What a walk reaches holds where it starts and the neighbours of its     *)
(* nodes, and lies within every set that does.                             *)
Layers == [Nodes -> Seq(Nodes)]

LEMMA ReachCloses ==
  ASSUME NEW layer \in Layers, NEW here \in Nodes
  PROVE  /\ Reach(layer, {here}) \in SUBSET Nodes
         /\ here \in Reach(layer, {here})
         /\ \A y \in Reach(layer, {here}) : ToSet(layer[y]) \subseteq Reach(layer, {here})
<1>1. ASSUME NEW y \in Reach(layer, {here}), NEW z \in ToSet(layer[y])
      PROVE  z \in Reach(layer, {here})
  <2>1. y \in Nodes /\ layer[y] \in Seq(Nodes)
    BY DEF Reach, Layers
  <2>2. z \in Nodes
    <3> DEFINE s == layer[y]
    <3>1. s \in Seq(Nodes) /\ z \in ToSet(s)
      BY <2>1
    <3> HIDE DEF s
    <3> QED
      BY <3>1 DEF ToSet
  <2>3. ASSUME NEW R \in SUBSET Nodes,
               {here} \subseteq R /\ \A u \in R : ToSet(layer[u]) \subseteq R
        PROVE  z \in R
    <3>1. y \in R
      BY <2>3 DEF Reach
    <3> QED
      BY <2>3, <3>1
  <2> QED
    BY <2>2, <2>3 DEF Reach
<1> QED
  BY <1>1 DEF Reach

LEMMA StartBeam ==
  ASSUME NEW layer \in Layers, NEW here \in Nodes
  PROVE  BeamOk(layer, Beam({here}), <<>>, here)
<1>1. Beam({here}) = [cands |-> {here}, top |-> {here}, seen |-> {here}]
  BY DEF Beam
<1>2. Beam({here}) \in Beams(Nodes)
  BY <1>1 DEF Beams
<1>3. ToSet(<<>>) = {} /\ <<>> \in Seq(Nodes)
  BY DEF ToSet
<1>4. here \in Reach(layer, {here})
  BY ReachCloses
<1> DEFINE b == Beam({here})
<1>5. /\ b \in Beams(Nodes) /\ b.cands = {here} /\ b.top = {here} /\ b.seen = {here}
  BY <1>1, <1>2
<1> HIDE DEF b
<1> QED
  BY <1>3, <1>4, <1>5 DEF BeamOk, b

LEMMA TakeBeam ==
  ASSUME NEW layer \in Layers, NEW b, NEW here \in Nodes,
         BeamOk(layer, b, <<>>, here), NEW c \in b.cands
  PROVE  BeamOk(layer, [b EXCEPT !.cands = @ \ {c}], layer[c], here)
<1>1. /\ b \in Beams(Nodes) /\ b.cands \subseteq b.top /\ b.top = b.seen /\ here \in b.top
      /\ b.seen \subseteq Reach(layer, {here})
      /\ \A y \in b.top \ b.cands : ToSet(layer[y]) \subseteq b.seen \cup ToSet(<<>>)
  BY DEF BeamOk
<1>2. ToSet(<<>>) = {}
  BY DEF ToSet
<1>3. c \in Nodes /\ c \in Reach(layer, {here})
  BY <1>1 DEF Beams
<1>4. layer[c] \in Seq(Nodes) /\ ToSet(layer[c]) \subseteq Reach(layer, {here})
  BY <1>3, ReachCloses DEF Layers
<1> DEFINE d == [b EXCEPT !.cands = @ \ {c}]
<1>5. /\ d \in Beams(Nodes)
      /\ d.cands = b.cands \ {c} /\ d.top = b.top /\ d.seen = b.seen
  BY <1>1 DEF Beams
<1> HIDE DEF d
<1>6. \A y \in d.top \ d.cands : ToSet(layer[y]) \subseteq d.seen \cup ToSet(layer[c])
  BY <1>1, <1>2, <1>5
<1> QED
  BY <1>1, <1>4, <1>5, <1>6 DEF BeamOk, d

LEMMA LookBeam ==
  ASSUME NEW layer \in Layers, NEW b, NEW here \in Nodes, NEW todo, todo # <<>>,
         BeamOk(layer, b, todo, here), NEW ef \in Nat, ef >= Cardinality(Nodes), NEW dist
  PROVE  BeamOk(layer, Offer(b, Head(todo), ef, dist), Tail(todo), here)
<1> DEFINE n == Head(todo)
           d == Offer(b, n, ef, dist)
<1>1. /\ b \in Beams(Nodes) /\ b.cands \subseteq b.top /\ b.top = b.seen /\ here \in b.top
      /\ todo \in Seq(Nodes)
      /\ b.seen \subseteq Reach(layer, {here}) /\ ToSet(todo) \subseteq Reach(layer, {here})
      /\ \A y \in b.top \ b.cands : ToSet(layer[y]) \subseteq b.seen \cup ToSet(todo)
  BY DEF BeamOk
<1>2. /\ Tail(todo) \in Seq(Nodes) /\ n \in Nodes
      /\ n \in ToSet(todo)
      /\ ToSet(todo) = {n} \cup ToSet(Tail(todo))
  <2>1. /\ n \in Nodes /\ Tail(todo) \in Seq(Nodes) /\ Len(todo) \in Nat /\ Len(todo) > 0
        /\ Len(Tail(todo)) = Len(todo) - 1 /\ n = todo[1]
        /\ \A i \in 1 .. Len(todo) - 1 : Tail(todo)[i] = todo[i + 1]
    BY <1>1
  <2>2. \A x : x \in ToSet(todo) <=> \E i \in 1 .. Len(todo) : todo[i] = x
    BY <1>1, ToSetIs
  <2>3. \A x : x \in ToSet(Tail(todo)) <=> \E i \in 1 .. Len(todo) - 1 : Tail(todo)[i] = x
    <3> DEFINE rest == Tail(todo)
    <3>1. rest \in Seq(Nodes) /\ Len(rest) = Len(todo) - 1
      BY <2>1
    <3> HIDE DEF rest
    <3>2. \A x : x \in ToSet(rest) <=> \E i \in 1 .. Len(rest) : rest[i] = x
      BY <3>1, ToSetIs
    <3> QED
      BY <3>1, <3>2 DEF rest
  <2> HIDE DEF n
  <2>4. \A i \in 1 .. Len(todo) : i = 1 \/ (i - 1 \in 1 .. Len(todo) - 1 /\ Tail(todo)[i - 1] = todo[i])
    BY <2>1
  <2>5. 1 \in 1 .. Len(todo)
    BY <2>1
  <2>6. \A i \in 1 .. Len(todo) - 1 : i + 1 \in 1 .. Len(todo)
    BY <2>1
  <2>7. ASSUME NEW x \in ToSet(todo)
        PROVE  x = n \/ x \in ToSet(Tail(todo))
    <3>1. PICK i \in 1 .. Len(todo) : todo[i] = x
      BY <2>2
    <3> QED
      BY <2>1, <2>3, <2>4, <3>1
  <2>8. {n} \cup ToSet(Tail(todo)) \subseteq ToSet(todo)
    BY <2>1, <2>2, <2>3, <2>5, <2>6
  <2> QED
    BY <2>1, <2>7, <2>8
<1> HIDE DEF n
<1>3. n \notin b.seen => Cardinality(b.top) < ef
  <2>1. ASSUME n \notin b.seen
        PROVE  Cardinality(b.top) < ef
    <3>1. b.top \in SUBSET Nodes /\ b.top # Nodes
      BY <1>1, <1>2, <2>1 DEF Beams
    <3>2. IsFiniteSet(Nodes)
      BY HnswAssumption
    <3>3. /\ Cardinality(b.top) <= Cardinality(Nodes) /\ Cardinality(Nodes) # Cardinality(b.top)
          /\ IsFiniteSet(b.top)
      BY <3>1, <3>2, FS_Subset
    <3>4. Cardinality(b.top) \in Nat /\ Cardinality(Nodes) \in Nat
      BY <3>2, <3>3, FS_CardinalityType
    <3> QED
      BY <3>3, <3>4
  <2> QED
    BY <2>1
<1>4. /\ d \in Beams(Nodes)
      /\ d.seen = b.seen \cup {n} /\ d.top = b.top \cup {n}
      /\ d.cands = IF n \in b.seen THEN b.cands ELSE b.cands \cup {n}
  <2>1. CASE n \in b.seen
    BY <1>1, <2>1 DEF Offer, Beams
  <2>2. CASE n \notin b.seen
    <3>1. d = [b EXCEPT !.seen = @ \cup {n}, !.top = @ \cup {n}, !.cands = @ \cup {n}]
      BY <1>3, <2>2 DEF Offer
    <3> HIDE DEF d
    <3> QED
      BY <1>1, <1>2, <2>2, <3>1 DEF Beams
  <2> QED
    BY <2>1, <2>2
<1> HIDE DEF d
<1>5. d.seen \subseteq Reach(layer, {here}) /\ ToSet(Tail(todo)) \subseteq Reach(layer, {here})
  BY <1>1, <1>2, <1>4
<1>6. \A y \in d.top \ d.cands : ToSet(layer[y]) \subseteq d.seen \cup ToSet(Tail(todo))
  BY <1>1, <1>2, <1>4
<1>7. here \in d.top /\ d.top = d.seen /\ d.cands \subseteq d.top
  BY <1>1, <1>4
<1> QED
  BY <1>2, <1>4, <1>5, <1>6, <1>7 DEF BeamOk, d, n

LEMMA DoneBeam ==
  ASSUME NEW layer \in Layers, NEW b, NEW here \in Nodes,
         BeamOk(layer, b, <<>>, here), NEW ef \in Nat, ef >= Cardinality(Nodes), NEW dist,
         Exhausted(b, ef, dist)
  PROVE  b.top = Reach(layer, {here})
<1>1. /\ b \in Beams(Nodes) /\ b.top = b.seen /\ here \in b.top
      /\ b.seen \subseteq Reach(layer, {here})
      /\ \A y \in b.top \ b.cands : ToSet(layer[y]) \subseteq b.seen \cup ToSet(<<>>)
  BY DEF BeamOk
<1>2. ToSet(<<>>) = {}
  BY DEF ToSet
<1>3. b.top \in SUBSET Nodes
  BY <1>1 DEF Beams
<1>4. CASE b.cands = {}
  <2>1. {here} \subseteq b.top /\ \A y \in b.top : ToSet(layer[y]) \subseteq b.top
    BY <1>1, <1>2, <1>4
  <2>2. Reach(layer, {here}) \subseteq b.top
    BY <1>3, <2>1 DEF Reach
  <2> QED
    BY <1>1, <2>2
<1>5. CASE b.cands # {}
  <2>1. Cardinality(b.top) >= ef
    BY <1>5 DEF Exhausted
  <2>2. IsFiniteSet(Nodes)
    BY HnswAssumption
  <2>3. IsFiniteSet(b.top) /\ Cardinality(b.top) <= Cardinality(Nodes)
    BY <1>3, <2>2, FS_Subset
  <2>4. Cardinality(b.top) \in Nat /\ Cardinality(Nodes) \in Nat
    BY <2>2, <2>3, FS_CardinalityType
  <2>5. Cardinality(Nodes) = Cardinality(b.top)
    BY <2>1, <2>3, <2>4
  <2>6. b.top = Nodes
    BY <1>3, <2>2, <2>5, FS_Subset
  <2> DEFINE R == Reach(layer, {here})
  <2>7. R \in SUBSET Nodes
    BY <1>1, ReachCloses
  <2>8. b.top \subseteq R
    BY <1>1
  <2> HIDE DEF R
  <2> QED
    BY <2>6, <2>7, <2>8 DEF R
<1> QED
  BY <1>4, <1>5

-----------------------------------------------------------------------------
(* The nodes are inserted in an order that lists each of them once.        *)
LEMMA OrderLists ==
  ASSUME NEW levels_ \in [Nodes -> 0 .. TopLevel]
  PROVE  /\ Cardinality(Nodes) \in Nat \ {0}
         /\ Order(levels_) \in [1 .. Cardinality(Nodes) -> Nodes]
         /\ \A i, j \in 1 .. Cardinality(Nodes) : Order(levels_)[i] = Order(levels_)[j] => i = j
<1> DEFINE R == {p \in Nodes \X Nodes :
                   \/ levels_[p[1]] > levels_[p[2]]
                   \/ levels_[p[1]] = levels_[p[2]] /\ p[1] < p[2]}
           N == Cardinality(Nodes)
<1>1. IsFiniteSet(Nodes) /\ Nodes # {} /\ \A x \in Nodes : x \in Nat /\ levels_[x] \in Nat
  BY HnswAssumption
<1>2. \A x, y \in Nodes : <<x, y>> \in R <=>
        levels_[x] > levels_[y] \/ (levels_[x] = levels_[y] /\ x < y)
  OBVIOUS
<1>3. Order(levels_) = Ranked(Nodes, R)
  BY DEF Order
<1> HIDE DEF R
<1>4. OrdersAll(R, Nodes)
  <2>1. \A x \in Nodes : <<x, x>> \notin R
    BY <1>1, <1>2
  <2>2. \A x, y \in Nodes : x # y => <<x, y>> \in R \/ <<y, x>> \in R
    BY <1>1, <1>2
  <2>3. \A x, y, z \in Nodes : <<x, y>> \in R /\ <<y, z>> \in R => <<x, z>> \in R
    BY <1>1, <1>2
  <2> QED
    BY <2>1, <2>2, <2>3 DEF OrdersAll
<1>5. /\ N \in Nat /\ Ranked(Nodes, R) \in [1 .. N -> Nodes]
      /\ \A k \in 1 .. N : Cardinality(Below(Nodes, R, Ranked(Nodes, R)[k])) = k - 1
  BY <1>1, <1>4, RankedLists
<1>6. N # 0
  BY <1>1, FS_EmptySet
<1> HIDE DEF N
<1>7. ASSUME NEW i \in 1 .. N, NEW j \in 1 .. N, Ranked(Nodes, R)[i] = Ranked(Nodes, R)[j]
      PROVE  i = j
  <2>1. i - 1 = j - 1
    BY <1>5, <1>7
  <2> QED
    BY <1>5, <2>1
<1> QED
  BY <1>3, <1>5, <1>6, <1>7 DEF N

LEMMA GraphInvInserts ==
  ASSUME GraphInv, InsertNext
  PROVE  GraphInv'
<1> DEFINE I == graph.inserted
           c == Cardinality(I)
           N == Cardinality(Nodes)
           o == Order(levels)
           x == o[c + 1]
<1>1. /\ params' = params /\ emb' = emb /\ levels' = levels
      /\ params \in Params /\ emb \in [Nodes -> Embeddings] /\ emb \in Layouts
      /\ levels \in [Nodes -> 0 .. TopLevel]
      /\ GraphOk(graph)
      /\ I = {o[i] : i \in 1 .. c} /\ I # Nodes
  BY CompassAssumption DEF GraphInv, InsertNext, Built
<1>2. PICK ties \in TieOrders : graph' = Insert(emb, levels, Entry, graph, x, ties)
  BY DEF InsertNext
<1>3. Ties(ties)
  BY CompassAssumption DEF Ties
<1>4. /\ N \in Nat \ {0} /\ o \in [1 .. N -> Nodes]
      /\ \A i, j \in 1 .. N : o[i] = o[j] => i = j
  BY <1>1, OrderLists
<1>5. /\ I \in SUBSET Nodes /\ IsFiniteSet(Nodes) /\ IsFiniteSet(I)
      /\ c \in Nat /\ c <= N /\ c # N
  <2>1. I \in SUBSET Nodes /\ IsFiniteSet(Nodes)
    BY <1>1, HnswAssumption DEF GraphOk
  <2>2. /\ IsFiniteSet(I) /\ c <= N /\ (N = c => Nodes = I)
    BY <2>1, FS_Subset
  <2>3. c \in Nat
    BY <2>2, FS_CardinalityType
  <2> QED
    BY <1>1, <2>1, <2>2, <2>3
<1>6. I # {} => c # 0
  BY <1>5, FS_EmptySet
<1> HIDE DEF c, N, o
<1>7. c + 1 \in 1 .. N /\ 1 \in 1 .. N /\ \A i \in 1 .. c : i \in 1 .. N /\ i # c + 1
  BY <1>4, <1>5
<1>8. x \in Nodes /\ x \notin I
  BY <1>1, <1>4, <1>7
<1>9. Entry \in Nodes /\ (I # {} => Entry \in I)
  <2>1. Entry = o[1]
    BY DEF Entry, o
  <2>2. I # {} => 1 \in 1 .. c
    BY <1>5, <1>6
  <2> QED
    BY <1>1, <1>4, <1>7, <2>1, <2>2
<1> HIDE DEF x
<1>10. GraphOk(graph') /\ graph'.inserted = I \cup {x}
  BY <1>1, <1>2, <1>3, <1>8, <1>9, InsertKeeps
<1>11. Cardinality(graph'.inserted) = c + 1
  BY <1>5, <1>8, <1>10, FS_AddElement DEF c
<1>12. graph'.inserted = {o[i] : i \in 1 .. c + 1}
  <2>1. \A i \in 1 .. c + 1 : i \in 1 .. c \/ i = c + 1
    BY <1>5
  <2>2. \A i \in 1 .. c : i \in 1 .. c + 1
    BY <1>5
  <2>3. c + 1 \in 1 .. c + 1
    BY <1>5
  <2> QED
    BY <1>1, <1>10, <2>1, <2>2, <2>3 DEF x
<1> QED
  BY <1>1, <1>10, <1>11, <1>12 DEF GraphInv, o

LEMMA EmptyGraphOk ==
  GraphOk(EmptyGraph) /\ EmptyGraph.inserted = {}
<1>1. /\ EmptyGraph.inserted = {}
      /\ EmptyGraph.nbr = [l \in 0 .. TopLevel |-> [x \in Nodes |-> <<>>]]
  BY DEF EmptyGraph
<1>2. \A l \in 0 .. TopLevel : LayerOver({}, EmptyGraph.nbr[l], MaxNeighbors(l))
  <2> TAKE l \in 0 .. TopLevel
  <2>1. EmptyGraph.nbr[l] = [x \in Nodes |-> <<>>] /\ MaxNeighbors(l) \in Nat
    BY <1>1, MaxNeighborsNat
  <2>2. \A y \in Nodes : <<>> \in Seq({} \ {y})
    OBVIOUS
  <2>3. <<>> \in Seq(Nodes) /\ Len(<<>>) = 0
    OBVIOUS
  <2> QED
    BY <2>1, <2>2, <2>3 DEF LayerOver
<1>3. EmptyGraph.nbr \in [0 .. TopLevel -> [Nodes -> Seq(Nodes)]]
  <2>1. <<>> \in Seq(Nodes)
    OBVIOUS
  <2> QED
    BY <1>1, <2>1
<1> QED
  BY <1>1, <1>2, <1>3 DEF GraphOk, GraphOver, NoneLost

LEMMA Quotient ==
  ASSUME NEW n \in Nat, NEW a \in Nat \ {0}, NEW q \in Nat, NEW r \in Nat, r < a,
         n = a * q + r
  PROVE  n \div a = q
OBVIOUS

LEMMA InitInv ==
  Init => IInv
<1> SUFFICES ASSUME Init
             PROVE  IInv
  OBVIOUS
<1>1. /\ search = Idle /\ graph = EmptyGraph
      /\ oram = Admitted
      /\ params \in Params /\ emb \in Layouts /\ levels \in [Nodes -> 0 .. TopLevel]
  BY DEF Init
<1>2. GraphInv
  <2>1. GraphOk(graph) /\ graph.inserted = {}
    BY <1>1, EmptyGraphOk
  <2>2. Cardinality(graph.inserted) = 0
    BY <2>1, FS_EmptySet
  <2> QED
    BY <1>1, <2>1, <2>2 DEF GraphInv
<1> DEFINE n == Cardinality(Nodes)
           q == n \div EvictRate
           r == n % EvictRate
<1>3. oram = [defer |-> FALSE, pending |-> 0, reads |-> r, total |-> n, evicted |-> q]
  BY <1>1 DEF Admitted
<1>a. n \in Nat /\ EvictRate \in Nat \ {0}
  BY HnswAssumption, CompassAssumption, FS_CardinalityType
<1> HIDE DEF n
<1>b. q = n \div EvictRate /\ r = n % EvictRate
  OBVIOUS
<1> HIDE DEF q, r
<1>c. q \in Nat /\ r \in 0 .. EvictRate - 1 /\ n = EvictRate * q + r
  BY <1>a, <1>b
<1>4. SearchInv
  <2>1. oram \in [defer : BOOLEAN, pending : Nat, reads : Nat, total : Nat, evicted : Nat]
    BY <1>3, <1>a, <1>c
  <2> QED
    BY <1>1, <2>1, HnswAssumption DEF SearchInv, SearchFields, Idle, Running, Embeddings
<1>5. Accounted
  <2>1. oram.evicted + oram.pending = q
    BY <1>3, <1>c
  <2>2. oram.total = n /\ oram.reads = r /\ r < EvictRate
    BY <1>3, <1>a, <1>c
  <2> QED
    BY <1>c, <2>1, <2>2 DEF Accounted
<1>6. WideInv /\ WideBeamIsExact /\ CaughtUp
  BY <1>1 DEF WideInv, WideBeamIsExact, CaughtUp, Idle, Running
<1> QED
  BY <1>2, <1>4, <1>5, <1>6 DEF IInv

-----------------------------------------------------------------------------
(* The steps of a search *)
Graph0 ==
  /\ graph.nbr[0] \in Layers
  /\ \A y \in Nodes : Len(graph.nbr[0][y]) <= MaxNeighborsL0
  /\ \A q \in Embeddings : Dist(q) \in [Nodes -> Nat]
  /\ params.ef \in Nat /\ params.efn \in Nat
  /\ Built => \A q \in Embeddings : Descend(graph.nbr, Entry, Top, 1, Dist(q)) \in Nodes

LEMMA GraphFacts ==
  ASSUME GraphInv
  PROVE  Graph0
<1>1. /\ params \in Params /\ emb \in [Nodes -> Embeddings]
      /\ levels \in [Nodes -> 0 .. TopLevel] /\ GraphOk(graph)
  BY CompassAssumption DEF GraphInv
<1>2. GraphOver(graph.inserted, graph.nbr) /\ 0 \in 0 .. TopLevel
  BY <1>1, HnswAssumption DEF GraphOk
<1>3. LayerOver(graph.inserted, graph.nbr[0], MaxNeighborsL0)
  BY <1>2 DEF GraphOver, MaxNeighbors
<1>4. ASSUME NEW q \in Embeddings
      PROVE  Dist(q) \in [Nodes -> Nat]
  <2>1. \A x \in Nodes : CosineDistance(q, emb[x]) \in Nat
    BY <1>1, CosineNat
  <2> QED
    BY <2>1 DEF Dist
<1>5. Entry \in Nodes
  <2>1. /\ Cardinality(Nodes) \in Nat \ {0}
        /\ Order(levels) \in [1 .. Cardinality(Nodes) -> Nodes]
    BY <1>1, OrderLists
  <2>2. 1 \in 1 .. Cardinality(Nodes)
    BY <2>1
  <2> QED
    BY <2>1, <2>2 DEF Entry
<1>6. ASSUME Built, NEW q \in Embeddings
      PROVE  Descend(graph.nbr, Entry, Top, 1, Dist(q)) \in Nodes
  <2>1. GraphOver(Nodes, graph.nbr) /\ Nodes \in SUBSET Nodes /\ 1 \in Nat
    BY <1>2, <1>6 DEF Built
  <2>2. Top \in 0 .. TopLevel
    BY <1>1, <1>5 DEF Top
  <2>3. Dist(q) \in [Nodes -> Nat]
    BY <1>4
  <2> QED
    BY <1>5, <2>1, <2>2, <2>3, DescendStays
<1> QED
  BY <1>1, <1>3, <1>4, <1>6, CompassAssumption DEF Graph0, LayerOver, Layers

LEMMA EfNat ==
  ASSUME Graph0, SearchInv
  PROVE  Ef \in Nat
BY DEF Graph0, SearchInv, Ef

LEMMA ReadType ==
  ASSUME SearchInv
  PROVE  /\ Read \in [defer : BOOLEAN, pending : Nat, reads : Nat, total : Nat, evicted : Nat]
         /\ Read.defer = oram.defer
<1>1. /\ EvictRate \in Nat \ {0}
      /\ oram \in [defer : BOOLEAN, pending : Nat, reads : Nat, total : Nat, evicted : Nat]
  BY CompassAssumption DEF SearchInv
<1>2. (oram.reads + 1) % EvictRate \in Nat
  BY <1>1
<1> DEFINE due == oram.reads + 1 = EvictRate
           P == IF due /\ oram.defer THEN oram.pending + 1 ELSE oram.pending
           E == IF due /\ ~ oram.defer THEN oram.evicted + 1 ELSE oram.evicted
           R == (oram.reads + 1) % EvictRate
<1>3. P \in Nat /\ E \in Nat /\ R \in Nat /\ oram.total + 1 \in Nat
  BY <1>1, <1>2
<1>4. Read = [oram EXCEPT !.reads = R, !.pending = P, !.evicted = E, !.total = oram.total + 1]
  BY DEF Read
<1> HIDE DEF P, E, R
<1> QED
  BY <1>1, <1>3, <1>4

LEMMA ReadAccounted ==
  ASSUME SearchInv, Accounted
  PROVE  /\ Read.total = EvictRate * (Read.evicted + Read.pending) + Read.reads
         /\ Read.reads < EvictRate
<1> DEFINE due == oram.reads + 1 = EvictRate
           a == EvictRate
           done == oram.evicted + oram.pending
<1>1. /\ a \in Nat \ {0} /\ oram.reads \in Nat /\ oram.total \in Nat /\ done \in Nat
      /\ oram.total = a * done + oram.reads /\ oram.reads < a
  BY CompassAssumption DEF SearchInv, Accounted
<1>2. Read.evicted + Read.pending = IF due THEN done + 1 ELSE done
  BY DEF Read, SearchInv
<1>3. Read.total = oram.total + 1 /\ Read.reads = (oram.reads + 1) % a
  BY DEF Read, SearchInv
<1>4. CASE due
  <2>1. (oram.reads + 1) % a = 0
    <3>1. oram.reads + 1 = a
      BY <1>4
    <3> HIDE DEF a
    <3> QED
      BY <1>1, <3>1, Z3
  <2>2. a * (done + 1) = a * done + a
    <3> HIDE DEF a, done
    <3> QED
      BY <1>1
  <2>3. oram.total + 1 = a * (done + 1)
    <3> HIDE DEF a, done
    <3> QED
      BY <1>1, <1>4, <2>2 DEF a
  <2> QED
    BY <1>1, <1>2, <1>3, <1>4, <2>1, <2>3
<1>5. CASE ~due
  <2>1. oram.reads + 1 < a
    BY <1>1, <1>5
  <2>2. (oram.reads + 1) % a = oram.reads + 1
    <3> HIDE DEF a
    <3> QED
      BY <1>1, <2>1
  <2>3. oram.total + 1 = a * done + (oram.reads + 1)
    <3> DEFINE p == a * done
    <3>1. p \in Nat
      BY <1>1
    <3> HIDE DEF p
    <3> QED
      BY <1>1, <3>1 DEF p
  <2> QED
    BY <1>1, <1>2, <1>3, <1>5, <2>1, <2>2, <2>3
<1> QED
  BY <1>4, <1>5

LEMMA SearchInvSteps ==
  ASSUME SearchInv, Next
  PROVE  SearchInv'
<1> USE DEF SearchInv, SearchFields, Running
<1>1. ASSUME InsertNext
      PROVE  SearchInv'
  <2>1. search.at = "idle"
    BY <1>1 DEF InsertNext
  <2> QED
    BY <1>1, <2>1 DEF InsertNext
<1>2. ASSUME NEW q \in Queries, NEW k \in 1 .. MaxK, StartSearch(q, k)
      PROVE  SearchInv'
  <2>1. q \in Embeddings /\ k \in Nat
    BY CompassAssumption
  <2> QED
    BY <1>2, <2>1 DEF StartSearch, Idle, Built
<1>3. CASE ReadEntry
  BY <1>3, ReadType DEF ReadEntry, Built
<1>4. CASE Expand
  BY <1>4, ReadType DEF Expand, Built
<1>5. CASE Fetch
  BY <1>5, ReadType DEF Fetch, Built
<1>6. CASE NextCandidate
  BY <1>6 DEF NextCandidate, Built
<1>7. CASE LoopDone
  BY <1>7 DEF LoopDone, Built
<1>8. 0 \in Embeddings
  BY HnswAssumption DEF Embeddings
<1>9. CASE ReadFails
  <2>1. oram' \in [defer : BOOLEAN, pending : Nat, reads : Nat, total : Nat, evicted : Nat]
    BY <1>9 DEF ReadFails
  <2>2. search.at # "idle"
    BY <1>9 DEF ReadFails, AwaitsRead
  <2>3. search' = [Idle EXCEPT !.at = "end", !.outcome = "failed"] /\ graph' = graph
    BY <1>9 DEF ReadFails
  <2> QED
    BY <1>8, <2>1, <2>2, <2>3 DEF Built, Idle
<1>10. CASE Evict
  <2>1. oram.pending - 1 \in Nat /\ oram.evicted + 1 \in Nat
    BY <1>10 DEF Evict
  <2>2. oram' \in [defer : BOOLEAN, pending : Nat, reads : Nat, total : Nat, evicted : Nat]
    BY <1>10, <2>1 DEF Evict
  <2>3. search' = search /\ graph' = graph
    BY <1>10 DEF Evict
  <2> QED
    BY <2>2, <2>3 DEF Built
<1>11. CASE EvictFails
  BY <1>8, <1>11 DEF EvictFails, Built, Idle
<1>12. CASE Return
  BY <1>8, <1>12 DEF Return, Built, Idle
<1>13. CASE Drop
  BY <1>8, <1>13 DEF Drop, Built, Idle
<1> QED
  BY <1>1, <1>2, <1>3, <1>4, <1>5, <1>6, <1>7, <1>9, <1>10, <1>11, <1>12, <1>13 DEF Next

LEMMA AccountSteps ==
  ASSUME SearchInv, Accounted, Next
  PROVE  Accounted'
<1>1. CASE oram' = oram
  BY <1>1 DEF Accounted
<1>2. CASE oram' = Read
  BY <1>2, ReadAccounted DEF Accounted
<1>3. CASE \E d \in BOOLEAN : oram' = [oram EXCEPT !.defer = d]
  BY <1>3 DEF Accounted, SearchInv
<1>4. CASE Evict
  <2>1. /\ oram.pending \in Nat /\ oram.pending > 0 /\ oram.evicted \in Nat
        /\ oram'.pending = oram.pending - 1 /\ oram'.evicted = oram.evicted + 1
        /\ oram'.total = oram.total /\ oram'.reads = oram.reads
    BY <1>4 DEF Evict, SearchInv
  <2>2. oram'.evicted + oram'.pending = oram.evicted + oram.pending
    BY <2>1
  <2> QED
    BY <2>1, <2>2 DEF Accounted
<1>5. CASE Next /\ ~ Evict
  <2>1. oram' = oram \/ oram' = Read \/ \E d \in BOOLEAN : oram' = [oram EXCEPT !.defer = d]
    BY <1>5 DEF Next, InsertNext, StartSearch, ReadEntry, Expand, Fetch, NextCandidate, LoopDone,
                ReadFails, EvictFails, Return, Drop
  <2> QED
    BY <1>1, <1>2, <1>3, <2>1
<1> QED
  BY <1>4, <1>5

LEMMA CaughtUpSteps ==
  ASSUME SearchInv, CaughtUp, Next
  PROVE  CaughtUp'
<1> USE DEF SearchInv, SearchFields, CaughtUp
<1>1. CASE InsertNext
  BY <1>1 DEF InsertNext
<1>2. ASSUME NEW q \in Queries, NEW k \in 1 .. MaxK, StartSearch(q, k)
      PROVE  CaughtUp'
  BY <1>2 DEF StartSearch, Idle
<1>3. CASE ReadEntry
  BY <1>3 DEF ReadEntry
<1>4. CASE Expand
  BY <1>4 DEF Expand
<1>5. CASE Fetch
  BY <1>5 DEF Fetch
<1>6. CASE NextCandidate
  BY <1>6 DEF NextCandidate
<1>7. CASE LoopDone
  BY <1>7 DEF LoopDone
<1>8. CASE ReadFails
  BY <1>8 DEF ReadFails, Idle
<1>9. CASE Evict
  BY <1>9 DEF Evict
<1>10. CASE EvictFails
  BY <1>10 DEF EvictFails, Idle
<1>11. CASE Return
  BY <1>11 DEF Return, Idle
<1>12. CASE Drop
  BY <1>12 DEF Drop, Idle
<1> QED
  BY <1>1, <1>2, <1>3, <1>4, <1>5, <1>6, <1>7, <1>8, <1>9, <1>10, <1>11, <1>12 DEF Next

LEMMA AccountedCatchesUp ==
  ASSUME IInv
  PROVE  EvictionsCatchUp
<1>1. /\ EvictRate \in Nat \ {0} /\ oram.total \in Nat /\ oram.reads \in Nat
      /\ oram.evicted \in Nat /\ oram.pending \in Nat
  BY CompassAssumption DEF IInv, SearchInv
<1>2. /\ oram.total = EvictRate * (oram.evicted + oram.pending) + oram.reads
      /\ oram.reads < EvictRate
  BY DEF IInv, Accounted
<1>3. oram.total \div EvictRate = oram.evicted + oram.pending
  <2> DEFINE q == oram.evicted + oram.pending
             n == oram.total
             r == oram.reads
  <2>1. q \in Nat /\ n \in Nat /\ r \in Nat /\ n = EvictRate * q + r /\ r < EvictRate
    BY <1>1, <1>2
  <2> HIDE DEF q, n, r
  <2>2. n \div EvictRate = q
    BY <1>1, <2>1, Quotient
  <2> QED
    BY <2>2 DEF q, n
<1>4. search.at = "idle" /\ search.outcome = "ok" => oram.pending = 0 /\ ~ oram.defer
  BY DEF IInv, CaughtUp
<1>5. oram.pending = 0 => oram.evicted = oram.total \div EvictRate
  BY <1>1, <1>3
<1> QED
  BY <1>3, <1>4, <1>5 DEF EvictionsCatchUp

LEMMA WideSteps ==
  ASSUME Graph0, SearchInv, WideInv, Next
  PROVE  WideInv'
<1>1. CASE InsertNext
  <2>1. search.at = "idle" /\ search' = search
    BY <1>1 DEF InsertNext, SearchInv
  <2> QED
    BY <2>1 DEF WideInv, Running
<1>2. ASSUME NEW q \in Queries, NEW k \in 1 .. MaxK, StartSearch(q, k)
      PROVE  WideInv'
  <2> DEFINE here == Descend(graph.nbr, Entry, Top, 1, Dist(q))
  <2>1. here \in Nodes /\ graph.nbr[0] \in Layers
    BY <1>2, CompassAssumption DEF StartSearch, Graph0
  <2>2. /\ search'.beam = Beam({here}) /\ search'.todo = <<>> /\ search'.here = here
        /\ graph' = graph
    BY <1>2 DEF StartSearch, Idle
  <2> HIDE DEF here
  <2>3. BeamOk(graph.nbr[0], Beam({here}), <<>>, here)
    BY <2>1, StartBeam
  <2>4. BeamOk(graph'.nbr[0], search'.beam, search'.todo, search'.here)
    BY <2>2, <2>3
  <2> QED
    BY <2>4 DEF WideInv
<1> DEFINE Same == /\ graph' = graph /\ params' = params
                   /\ search'.k = search.k /\ search'.here = search.here
<1>a. ASSUME Same
      PROVE  Wide' <=> Wide
  BY <1>a DEF Wide, Ef
<1>3. CASE ReadEntry
  <2>1. /\ Same /\ search'.beam = search.beam /\ search'.todo = search.todo
        /\ search.at \in Running
    BY <1>3 DEF ReadEntry, SearchInv, SearchFields, Running
  <2> QED
    BY <1>a, <2>1 DEF WideInv
<1>4. CASE Expand
  <2> DEFINE c == Nearest(search.beam.cands, Dist(search.query))
  <2>1. /\ Same /\ search.at \in Running /\ search.todo = <<>>
        /\ search.beam.cands # {}
    BY <1>4 DEF Expand, SearchInv, SearchFields, Running, LoopEnds, Exhausted
  <2>2. PICK todo \in Filtered(graph.nbr[0][c]) :
          search' = [search EXCEPT !.beam.cands = @ \ {c}, !.todo = todo, !.at = "fetch"]
    BY <1>4 DEF Expand
  <2>3. /\ search'.beam = [search.beam EXCEPT !.cands = @ \ {c}]
        /\ search'.todo = todo
    BY <2>2 DEF SearchInv, SearchFields
  <2>4. ASSUME Wide
        PROVE  BeamOk(graph.nbr[0], search'.beam, search'.todo, search'.here)
    <3>1. BeamOk(graph.nbr[0], search.beam, <<>>, search.here)
      BY <2>1, <2>4 DEF WideInv
    <3>2. /\ search.beam.cands \in SUBSET Nodes
          /\ search.here \in Nodes /\ graph.nbr[0] \in Layers
          /\ Dist(search.query) \in [Nodes -> Nat]
      BY <3>1 DEF BeamOk, Beams, Graph0, SearchInv
    <3>3. c \in search.beam.cands /\ c \in Nodes
      BY <2>1, <3>2, NearestIn
    <3> HIDE DEF c
    <3>4. /\ Len(graph.nbr[0][c]) <= MaxNeighborsL0 /\ params.efn >= MaxNeighborsL0
          /\ Len(graph.nbr[0][c]) \in Nat /\ MaxNeighborsL0 \in Nat /\ params.efn \in Nat
      BY <2>4, <3>3, HnswAssumption DEF Graph0, Layers, Wide
    <3>5. params.efn >= Len(graph.nbr[0][c])
      BY <3>4
    <3>6. todo = graph.nbr[0][c]
      BY <3>5 DEF Filtered
    <3>7. BeamOk(graph.nbr[0], [search.beam EXCEPT !.cands = @ \ {c}], graph.nbr[0][c], search.here)
      BY <3>1, <3>2, <3>3, TakeBeam
    <3> QED
      BY <2>1, <2>3, <3>6, <3>7
  <2> HIDE DEF c
  <2> QED
    BY <1>a, <2>1, <2>4 DEF WideInv
<1>5. CASE Fetch
  <2>1. /\ Same /\ search.at \in Running /\ search.todo # <<>>
        /\ search'.todo = Tail(search.todo)
        /\ search'.beam = Offer(search.beam, Head(search.todo), Ef, Dist(search.query))
    BY <1>5 DEF Fetch, SearchInv, SearchFields, Running
  <2>2. ASSUME Wide
        PROVE  BeamOk(graph.nbr[0], search'.beam, search'.todo, search'.here)
    <3>1. BeamOk(graph.nbr[0], search.beam, search.todo, search.here)
      BY <2>1, <2>2 DEF WideInv
    <3>2. search.here \in Nodes /\ graph.nbr[0] \in Layers
      BY <3>1 DEF BeamOk, Beams, Graph0
    <3>3. Ef \in Nat /\ Ef >= Cardinality(Nodes)
      BY <2>2, EfNat DEF Wide
    <3>4. BeamOk(graph.nbr[0], Offer(search.beam, Head(search.todo), Ef, Dist(search.query)),
                 Tail(search.todo), search.here)
      BY <2>1, <3>1, <3>2, <3>3, LookBeam
    <3> QED
      BY <2>1, <3>4
  <2> QED
    BY <1>a, <2>1, <2>2 DEF WideInv
<1>6. CASE NextCandidate
  <2>1. /\ Same /\ search'.beam = search.beam /\ search'.todo = search.todo
        /\ search.at \in Running
    BY <1>6 DEF NextCandidate, SearchInv, SearchFields, Running
  <2> QED
    BY <1>a, <2>1 DEF WideInv
<1>7. CASE LoopDone \/ ReadFails \/ Evict \/ EvictFails \/ Return \/ Drop
  <2>1. search'.at \in {"idle", "end"}
    BY <1>7 DEF LoopDone, ReadFails, Evict, EvictFails, Return, Drop, Idle, SearchInv, SearchFields
  <2> QED
    BY <2>1 DEF WideInv, Running
<1> QED
  BY <1>1, <1>2, <1>3, <1>4, <1>5, <1>6, <1>7 DEF Next

LEMMA ExactSteps ==
  ASSUME Graph0, SearchInv, WideInv, WideBeamIsExact, Next
  PROVE  WideBeamIsExact'
<1>1. CASE InsertNext
  <2>1. search.at = "idle" /\ search' = search
    BY <1>1 DEF InsertNext, SearchInv
  <2> QED
    BY <2>1 DEF WideBeamIsExact
<1>2. CASE LoopDone
  <2>1. /\ graph' = graph /\ params' = params /\ emb' = emb
        /\ search'.k = search.k /\ search'.here = search.here /\ search'.query = search.query
        /\ search'.hits = Hits(search.beam, search.k, Dist(search.query))
        /\ search.at = "pop"
        /\ Exhausted(search.beam, Ef, Dist(search.query))
    BY <1>2 DEF LoopDone, LoopEnds, SearchInv, SearchFields
  <2>2. ASSUME Wide
        PROVE  search.beam.top = Reach(graph.nbr[0], {search.here})
    <3>1. BeamOk(graph.nbr[0], search.beam, <<>>, search.here)
      BY <2>1, <2>2 DEF WideInv, SearchInv, Running
    <3>2. search.here \in Nodes /\ graph.nbr[0] \in Layers
      BY <3>1 DEF BeamOk, Beams, Graph0
    <3>3. Ef \in Nat /\ Ef >= Cardinality(Nodes)
      BY <2>2, EfNat DEF Wide
    <3> QED
      BY <2>1, <3>1, <3>2, <3>3, DoneBeam
  <2>3. ASSUME Wide
        PROVE  Hits(search.beam, search.k, Dist(search.query))
                 = Hits([top |-> Reach(graph.nbr[0], {search.here})], search.k, Dist(search.query))
    <3> DEFINE R == Reach(graph.nbr[0], {search.here})
               d == Dist(search.query)
    <3>1. search.beam.top = R /\ [top |-> R].top = R
      BY <2>2, <2>3
    <3> HIDE DEF R, d
    <3> QED
      BY <3>1 DEF Hits, R, d
  <2>4. Dist(search.query)' = Dist(search.query) /\ (Wide' <=> Wide)
    BY <2>1 DEF Dist, Wide, Ef
  <2>5. ASSUME Wide'
        PROVE  (search.hits = Hits([top |-> Reach(graph.nbr[0], {search.here})], search.k,
                                   Dist(search.query)))'
    BY <2>1, <2>3, <2>4, <2>5
  <2> QED
    BY <2>5 DEF WideBeamIsExact, Wide
<1>3. ASSUME NEW q \in Queries, NEW k \in 1 .. MaxK, StartSearch(q, k)
      PROVE  WideBeamIsExact'
  BY <1>3 DEF StartSearch, Idle, WideBeamIsExact
<1>4. CASE ReadEntry \/ Expand \/ Fetch \/ NextCandidate
  <2>1. search'.at # "end"
    BY <1>4 DEF ReadEntry, Expand, Fetch, NextCandidate, SearchInv, SearchFields
  <2> QED
    BY <2>1 DEF WideBeamIsExact
<1>5. CASE ReadFails
  BY <1>5 DEF ReadFails, Idle, WideBeamIsExact
<1>6. CASE EvictFails \/ Return \/ Drop
  <2>1. search'.at = "idle"
    BY <1>6 DEF EvictFails, Return, Drop, Idle
  <2> QED
    BY <2>1 DEF WideBeamIsExact
<1>7. CASE Evict
  <2>1. UNCHANGED <<params, emb, graph, search>>
    BY <1>7 DEF Evict
  <2>2. Dist(search.query)' = Dist(search.query) /\ Ef' = Ef
    BY <2>1 DEF Dist, Ef
  <2> QED
    BY <2>1, <2>2 DEF WideBeamIsExact
<1> QED
  BY <1>1, <1>2, <1>3, <1>4, <1>5, <1>6, <1>7 DEF Next

LEMMA GraphSteps ==
  ASSUME GraphInv, Next
  PROVE  GraphInv'
<1>1. CASE InsertNext
  BY <1>1, GraphInvInserts
<1>2. ASSUME ~InsertNext
      PROVE  UNCHANGED <<params, emb, levels, graph>>
  BY <1>2 DEF Next, StartSearch, ReadEntry, Expand, Fetch, NextCandidate, LoopDone, ReadFails,
              Evict, EvictFails, Return, Drop
<1>3. ASSUME UNCHANGED <<params, emb, levels, graph>>
      PROVE  GraphInv'
  BY <1>3 DEF GraphInv
<1> QED
  BY <1>1, <1>2, <1>3

LEMMA NextInv ==
  IInv /\ [Next]_vars => IInv'
<1> SUFFICES ASSUME IInv, [Next]_vars
             PROVE  IInv'
  OBVIOUS
<1>1. CASE Next
  <2>1. Graph0
    BY GraphFacts DEF IInv
  <2>2. GraphInv'
    BY <1>1, GraphSteps DEF IInv
  <2>3. SearchInv'
    BY <1>1, SearchInvSteps DEF IInv
  <2>4. WideInv'
    BY <1>1, <2>1, WideSteps DEF IInv
  <2>5. WideBeamIsExact'
    BY <1>1, <2>1, ExactSteps DEF IInv
  <2>6. Accounted'
    BY <1>1, AccountSteps DEF IInv
  <2>7. CaughtUp'
    BY <1>1, CaughtUpSteps DEF IInv
  <2> QED
    BY <2>2, <2>3, <2>4, <2>5, <2>6, <2>7 DEF IInv
<1>2. CASE UNCHANGED vars
  BY <1>2 DEF vars, IInv, GraphInv, SearchInv, WideInv, WideBeamIsExact, Accounted, CaughtUp,
              Wide, Ef, Dist, Built
<1> QED
  BY <1>1, <1>2

LEMMA Inductive ==
  Spec => []IInv
BY InitInv, NextInv, PTL DEF Spec

LEMMA NoneLostNoDeadEnd ==
  ASSUME IInv
  PROVE  NoDeadEnd
<1>1. graph.inserted \in SUBSET Nodes /\ NoneLost(graph.inserted, graph.nbr[0])
  BY DEF IInv, GraphInv, GraphOk
<1>2. IsFiniteSet(graph.inserted)
  BY <1>1, HnswAssumption, FS_Subset
<1>3. ASSUME Cardinality(graph.inserted) > 1, NEW x \in graph.inserted
      PROVE  graph.nbr[0][x] # <<>>
  <2>1. graph.inserted # {x}
    BY <1>2, <1>3, FS_Singleton
  <2>2. \E z \in graph.inserted : z # x
    BY <2>1
  <2> QED
    BY <1>1, <2>2 DEF NoneLost
<1> QED
  BY <1>3 DEF NoDeadEnd

-----------------------------------------------------------------------------
(* Whatever the corpus, the levels drawn and the order of equal distances, *)
(* once the build has inserted two nodes every inserted node has a         *)
(* neighbour at layer 0, after each of the prunings that PlainHnsw::build  *)
(* does (hnsw_plain.rs:195-246).                                           *)
THEOREM NoNodeIsLost ==
  Spec => []NoDeadEnd
BY Inductive, NoneLostNoDeadEnd, PTL

(* A layered_search that succeeds with the filter open and a beam no       *)
(* narrower than the corpus returns the k nearest nodes of all those that  *)
(* layer 0 reaches from where the descent ended (search.rs:113-188).       *)
THEOREM WideSearchIsExact ==
  Spec => []WideBeamIsExact
<1>1. IInv => WideBeamIsExact
  BY DEF IInv
<1> QED
  BY <1>1, Inductive, PTL

(* Whatever reads and evictions failed and wherever searches were dropped, *)
(* no eviction is lost: those that fell due, one at every EvictRate-th     *)
(* access, are done or queued, and a search that succeeds has caught up    *)
(* with all of them (search.rs:67-78, client.rs:340-350, 373-379).         *)
THEOREM NoEvictionIsLost ==
  Spec => []EvictionsCatchUp
BY Inductive, AccountedCatchesUp, PTL

(* No neighbour list is longer than its layer allows, so cutting a list to *)
(* an ORAM block's capacity (index.rs:147) never drops an edge, and none   *)
(* holds its own node or one not inserted, so the filter on inserted nodes *)
(* in beam_search_layer (hnsw_plain.rs:396, 417) never skips a neighbour.  *)
ListsAreSound ==
  \A l \in 0 .. TopLevel : \A x \in Nodes :
    /\ Len(graph.nbr[l][x]) <= MaxNeighbors(l)
    /\ ToSet(graph.nbr[l][x]) \subseteq graph.inserted \ {x}

(* Every graph that the build goes through has sound lists.                *)
THEOREM ListsStaySound ==
  Spec => []ListsAreSound
<1>1. IInv => ListsAreSound
  <2> SUFFICES ASSUME IInv, NEW l \in 0 .. TopLevel, NEW x \in Nodes
               PROVE  /\ Len(graph.nbr[l][x]) <= MaxNeighbors(l)
                      /\ ToSet(graph.nbr[l][x]) \subseteq graph.inserted \ {x}
    BY DEF ListsAreSound
  <2>1. LayerOver(graph.inserted, graph.nbr[l], MaxNeighbors(l))
    BY DEF IInv, GraphInv, GraphOk, GraphOver
  <2> DEFINE list == graph.nbr[l][x]
  <2>2. list \in Seq(graph.inserted \ {x}) /\ Len(list) <= MaxNeighbors(l)
    BY <2>1 DEF LayerOver
  <2> HIDE DEF list
  <2>3. \A y \in ToSet(list) : \E i \in 1 .. Len(list) : list[i] = y
    BY <2>2, ToSetIs
  <2>4. \A i \in 1 .. Len(list) : list[i] \in graph.inserted \ {x}
    BY <2>2
  <2> QED
    BY <2>2, <2>3, <2>4 DEF list
<1> QED
  BY <1>1, Inductive, PTL

=============================================================================
