----------------------------- MODULE PlainHnsw -----------------------------
(***************************************************************************)
(* The layered HNSW graph of compass-index (hnsw_plain.rs): the insertion  *)
(* of one node and the helpers it shares with the search.  A graph is      *)
(* [inserted, nbr]: nbr[l][x] is the neighbour list of x at layer l, empty *)
(* when the layer does not hold x.                                         *)
(*                                                                         *)
(* Embeddings are unit vectors in the plane at Circle equally spaced       *)
(* angles, and the zero vector.  Cosine distance orders pairs of them as   *)
(* the shorter arc does; the zero vector is at distance 1, a right angle,  *)
(* from everything, itself included (cosine_distance, denom <= 0).         *)
(***************************************************************************)
EXTENDS Naturals, Sequences, FiniteSets, SequencesExt, Ranking

CONSTANTS
  Nodes,              \* node ids, 0 .. n - 1
  Circle,             \* angles on the unit circle
  TopLevel,           \* bound on the levels drawn
  MaxNeighborsL0,     \* out-degree at layer 0
  MaxNeighborsUpper,  \* out-degree above
  EfConstruction      \* beam width of an insertion

(* A corpus is not empty (hnsw_plain.rs:107); paper_defaults gives lists   *)
(* of M and 2M neighbours, and its 1 / ln(M) needs an M above 1.           *)
ASSUME HnswAssumption ==
  /\ Nodes \subseteq Nat /\ IsFiniteSet(Nodes) /\ Nodes # {}
  /\ Circle \in Nat \ {0}
  /\ TopLevel \in Nat
  /\ MaxNeighborsL0 \in Nat \ {0} /\ MaxNeighborsUpper \in Nat \ {0}
  /\ EfConstruction \in Nat

Zero == Circle   \* the zero embedding

Embeddings == 0 .. Circle

CosineDistance(a, b) ==
  IF a = Zero \/ b = Zero
  THEN Circle \div 4
  ELSE LET d == (a + Circle - b) % Circle
       IN IF d <= Circle - d THEN d ELSE Circle - d

(* OrderedNode and search.rs's Candidate: by distance, then by id. *)
Closer(dist, a, b) == dist[a] < dist[b] \/ (dist[a] = dist[b] /\ a < b)

Nearest(S, dist) == CHOOSE x \in S : \A y \in S \ {x} : Closer(dist, x, y)

Farthest(S, dist) == CHOOSE x \in S : \A y \in S \ {x} : Closer(dist, y, x)

(* A list sorted by distance, ties in list order. *)
SortedByDistance(s, dist) ==
  LET order == Ranked(DOMAIN s, {p \in (DOMAIN s) \X (DOMAIN s) :
                 \/ dist[s[p[1]]] < dist[s[p[2]]]
                 \/ dist[s[p[1]]] = dist[s[p[2]]] /\ p[1] < p[2]})
  IN [k \in DOMAIN s |-> s[order[k]]]

EmptyGraph ==
  [inserted |-> {}, nbr |-> [l \in 0 .. TopLevel |-> [x \in Nodes |-> <<>>]]]

MaxNeighbors(l) == IF l = 0 THEN MaxNeighborsL0 ELSE MaxNeighborsUpper

-----------------------------------------------------------------------------
(* Greedy descent at ef = 1 *)

(* One round: the first closest neighbour, when it improves on here. *)
Hop(here, layer, dist) ==
  LET neighbours == layer[here]
      better == {i \in DOMAIN neighbours : dist[neighbours[i]] < dist[here]}
      best == CHOOSE i \in better : \A j \in better :
                dist[neighbours[i]] < dist[neighbours[j]]
                  \/ (dist[neighbours[i]] = dist[neighbours[j]] /\ i <= j)
  IN IF better = {} THEN here ELSE neighbours[best]

(* Rounds until none improves: each one gets closer, so one per node is    *)
(* enough.                                                                 *)
GreedyOneHop(start, layer, dist) ==
  LET hop[i \in 0 .. Cardinality(Nodes)] ==
        IF i = 0 THEN start ELSE Hop(hop[i - 1], layer, dist)
  IN hop[Cardinality(Nodes)]

(* From the layer top down to the layer low. *)
Descend(nbr, start, top, low, dist) ==
  LET rounds == IF low > top THEN 0 ELSE top + 1 - low
      down[i \in 0 .. rounds] ==
        IF i = 0 THEN start ELSE GreedyOneHop(down[i - 1], nbr[top + 1 - i], dist)
  IN down[rounds]

-----------------------------------------------------------------------------
(* beam_search_layer *)

(* What a beam of width ef does with one neighbour it has not seen. *)
Offer(b, n, ef, dist) ==
  IF n \in b.seen
  THEN b
  ELSE LET far == Farthest(b.top, dist)
       IN IF Cardinality(b.top) < ef
          THEN [b EXCEPT !.seen = @ \cup {n}, !.top = @ \cup {n}, !.cands = @ \cup {n}]
          ELSE IF dist[n] < dist[far]
               THEN [b EXCEPT !.seen = @ \cup {n}, !.top = (@ \ {far}) \cup {n},
                              !.cands = @ \cup {n}]
               ELSE [b EXCEPT !.seen = @ \cup {n}]

(* The closest candidate is too far to improve a full beam, or none is left. *)
Exhausted(b, ef, dist) ==
  b.cands # {} =>
    /\ Cardinality(b.top) >= ef
    /\ dist[Nearest(b.cands, dist)] > dist[Farthest(b.top, dist)]

Beam(entries) == [cands |-> entries, top |-> entries, seen |-> entries]

(* The neighbours of the node taken, one after the other. *)
OfferAll(b, neighbours, ef, dist) ==
  LET after[i \in 0 .. Len(neighbours)] ==
        IF i = 0 THEN b ELSE Offer(after[i - 1], neighbours[i], ef, dist)
  IN after[Len(neighbours)]

BeamRound(b, layer, ef, dist) ==
  LET c == Nearest(b.cands, dist)
  IN IF Exhausted(b, ef, dist)
     THEN b
     ELSE OfferAll([b EXCEPT !.cands = @ \ {c}], layer[c], ef, dist)

(* Each node is a candidate at most once, so one round per node is enough. *)
BeamSearchLayer(entries, layer, ef, dist) ==
  LET beam[i \in 0 .. Cardinality(Nodes)] ==
        IF i = 0 THEN Beam(entries) ELSE BeamRound(beam[i - 1], layer, ef, dist)
  IN beam[Cardinality(Nodes)].top

-----------------------------------------------------------------------------
(* algorithm4_select *)

(* The next candidate c of q: chosen unless it is q, the list is full, or  *)
(* it is closer to one chosen before it than to q.                         *)
Consider(emb, q, chosen, c, m) ==
  IF \/ c = q
     \/ Len(chosen) >= m
     \/ \E i \in DOMAIN chosen :
          CosineDistance(emb[c], emb[chosen[i]]) < CosineDistance(emb[q], emb[c])
  THEN chosen
  ELSE Append(chosen, c)

DistancesFrom(emb, x) == [y \in Nodes |-> CosineDistance(emb[x], emb[y])]

(* The candidates, closest first. *)
Algorithm4Select(emb, q, candidates, m) ==
  LET sorted == SortedByDistance(candidates, DistancesFrom(emb, q))
      chosen[i \in 0 .. Len(candidates)] ==
        IF i = 0 THEN <<>> ELSE Consider(emb, q, chosen[i - 1], sorted[i], m)
  IN chosen[Len(candidates)]

-----------------------------------------------------------------------------
(* PlainHnsw::build *)

(* By decreasing level, then by id. *)
Order(levels) ==
  Ranked(Nodes, {p \in Nodes \X Nodes :
    \/ levels[p[1]] > levels[p[2]]
    \/ levels[p[1]] = levels[p[2]] /\ p[1] < p[2]})

(* x joins the list of s; a list that gets too long is selected anew. *)
LinkBack(emb, layer, x, s, m) ==
  LET grown == Append(layer[s], x)
  IN [layer EXCEPT ![s] = IF Len(grown) > m
                          THEN Algorithm4Select(emb, s, grown, m)
                          ELSE grown]

(* Mutant: the links lead from the new node only. *)
OneWayLinkLayer(emb, layer, x, selected, m) == [layer EXCEPT ![x] = selected]

LinkLayer(emb, layer, x, selected, m) ==
  LET linked[i \in 0 .. Len(selected)] ==
        IF i = 0 THEN [layer EXCEPT ![x] = selected]
        ELSE LinkBack(emb, linked[i - 1], x, selected[i], m)
  IN linked[Len(selected)]

(* What a beam found comes out of a heap, in an order that is unspecified  *)
(* among equal distances: by the positions that ties gives the nodes.      *)
HeapOrder(found, ties) ==
  Ranked(found, {p \in found \X found : ties[p[1]] < ties[p[2]]})

(* One layer of an insertion: a beam from the entries, a selection and the *)
(* links.  The selection is where the next layer starts, or else here.     *)
InsertAtLayer(emb, acc, x, l, here, ties) ==
  LET found == BeamSearchLayer(acc.entries, acc.nbr[l], EfConstruction,
                               DistancesFrom(emb, x))
      selected == Algorithm4Select(emb, x, HeapOrder(found, ties), MaxNeighbors(l))
  IN [nbr |-> [acc.nbr EXCEPT ![l] =
                 LinkLayer(emb, acc.nbr[l], x, selected, MaxNeighbors(l))],
      entries |-> IF selected = <<>> THEN {here} ELSE ToSet(selected)]

(* One round of the insertion loop: descend to the node's own level, then  *)
(* link it at each layer from there down.                                  *)
Insert(emb, levels, entry, g, x, ties) ==
  LET here == Descend(g.nbr, entry, levels[entry], levels[x] + 1, DistancesFrom(emb, x))
      acc[i \in 0 .. levels[x] + 1] ==
        IF i = 0 THEN [nbr |-> g.nbr, entries |-> {here}]
        ELSE InsertAtLayer(emb, acc[i - 1], x, levels[x] + 1 - i, here, ties)
  IN [inserted |-> g.inserted \cup {x},
      nbr |-> IF g.inserted = {} THEN g.nbr ELSE acc[levels[x] + 1].nbr]
=============================================================================
