------------------------------ MODULE Compass ------------------------------
(***************************************************************************)
(* CompassIndex (crates/compass-index): the index is built once, node by   *)
(* node, and then serves one search after another.  The upper layers are   *)
(* in memory; layer 0 is behind the Ring ORAM, so a search awaits a read   *)
(* for every node it expands and for every neighbour it looks at, and at   *)
(* each of these awaits the read may fail or the search may be dropped.    *)
(* The client defers its evictions between the two toggles of a search.    *)
(***************************************************************************)
EXTENDS PlainHnsw

CONSTANTS
  Layouts,      \* assignments of embeddings to the nodes
  TieOrders,    \* positions of the nodes in the order in which a heap may
                \* emit equal distances
  Params,       \* configurations: [ef, efn], the beam width of a search and
                \* the neighbours the directional filter lets through
  EvictRate,    \* reads per eviction, the ORAM's a
  Queries,      \* embeddings searched for
  MaxK,         \* bound on the hits asked for
  MaxSearches   \* bound on the searches

ASSUME CompassAssumption ==
  /\ Layouts \subseteq [Nodes -> Embeddings]
  /\ Queries \subseteq Embeddings
  /\ \A ties \in TieOrders :
       /\ ties \in [Nodes -> Nat]
       /\ \A x, y \in Nodes : ties[x] = ties[y] => x = y
  /\ \A p \in Params : p.ef \in Nat /\ p.efn \in Nat
  /\ EvictRate \in Nat \ {0} /\ MaxK \in Nat /\ MaxSearches \in Nat

VARIABLES
  params,    \* the configuration of this index
  emb,       \* embedding of each node
  levels,    \* level drawn for each node
  graph,     \* the graph as far as it is built
  search,    \* the search under way
  oram,      \* the client: deferring, evictions queued, accesses since the last;
             \* and its history: accesses and evictions done
  served     \* number of searches begun

vars == <<params, emb, levels, graph, search, oram, served>>

Idle == [at |-> "idle", query |-> 0, k |-> 0, here |-> 0, todo |-> <<>>,
         beam |-> Beam({}), outcome |-> "none", hits |-> <<>>]

(* The client of a new index: every node was admitted as its layer-0       *)
(* block, with an eviction inline at every EvictRate-th.                   *)
Admitted ==
  [defer |-> FALSE, pending |-> 0, reads |-> Cardinality(Nodes) % EvictRate,
   total |-> Cardinality(Nodes), evicted |-> Cardinality(Nodes) \div EvictRate]

Init ==
  /\ params \in Params
  /\ emb \in Layouts
  /\ levels \in [Nodes -> 0 .. TopLevel]
  /\ graph = EmptyGraph
  /\ search = Idle
  /\ oram = Admitted
  /\ served = 0

Entry == Order(levels)[1]

Built == graph.inserted = Nodes

InsertNext ==
  /\ ~ Built
  /\ \E ties \in TieOrders :
       graph' = Insert(emb, levels, Entry, graph,
                       Order(levels)[Cardinality(graph.inserted) + 1], ties)
  /\ UNCHANGED <<params, emb, levels, search, oram, served>>

-----------------------------------------------------------------------------
(* layered_search *)

Dist(q) == [x \in Nodes |-> CosineDistance(q, emb[x])]

Top == levels[Entry]

Ef == IF params.ef >= search.k THEN params.ef ELSE search.k

(* Defer, then descend through the upper layers; without any, the entry's  *)
(* embedding comes from the ORAM.                                          *)
StartSearch(q, k) ==
  /\ Built /\ search.at = "idle" /\ served < MaxSearches
  /\ LET here == Descend(graph.nbr, Entry, Top, 1, Dist(q))
     IN search' = [Idle EXCEPT !.query = q, !.k = k, !.here = here, !.beam = Beam({here}),
                               !.at = IF Top = 0 THEN "entry" ELSE "pop"]
  /\ oram' = [oram EXCEPT !.defer = TRUE]
  /\ served' = served + 1
  /\ UNCHANGED <<params, emb, levels, graph>>

(* RingOramClient::read as far as its evictions go: every EvictRate-th     *)
(* read evicts, or queues the eviction while the client defers.            *)
Read ==
  LET due == oram.reads + 1 = EvictRate
  IN [oram EXCEPT !.reads = (@ + 1) % EvictRate,
                  !.pending = IF due /\ oram.defer THEN @ + 1 ELSE @,
                  !.evicted = IF due /\ ~ oram.defer THEN @ + 1 ELSE @,
                  !.total = @ + 1]

ReadEntry ==
  /\ search.at = "entry"
  /\ oram' = Read
  /\ search' = [search EXCEPT !.at = "pop"]
  /\ UNCHANGED <<params, emb, levels, graph, served>>

(* The directional filter: all neighbours when they are few, otherwise     *)
(* ef_n of them; the quantised scores may rank them in any order.          *)
Filtered(neighbours) ==
  IF params.efn >= Len(neighbours)
  THEN {neighbours}
  ELSE {s \in [1 .. params.efn -> ToSet(neighbours)] : IsInjective(s)}

(* Mutant: the beam stops at the first candidate no better than its worst, *)
(* full or not.                                                            *)
StopsEarly(b, ef, dist) ==
  b.cands # {} =>
    /\ Cardinality(b.top) > 1
    /\ dist[Nearest(b.cands, dist)] >= dist[Farthest(b.top, dist)]

(* Whether the loop over the candidates ends here. *)
LoopEnds(b, ef, dist) == Exhausted(b, ef, dist)

(* Take the nearest candidate and read its node. *)
Expand ==
  /\ search.at = "pop"
  /\ ~ LoopEnds(search.beam, Ef, Dist(search.query))
  /\ LET c == Nearest(search.beam.cands, Dist(search.query))
     IN \E todo \in Filtered(graph.nbr[0][c]) :
          search' = [search EXCEPT !.beam.cands = @ \ {c}, !.todo = todo,
                                   !.at = "fetch"]
  /\ oram' = Read
  /\ UNCHANGED <<params, emb, levels, graph, served>>

(* The next neighbour: read it unless it was seen before. *)
Fetch ==
  /\ search.at = "fetch" /\ search.todo # <<>>
  /\ LET n == Head(search.todo)
         new == n \notin search.beam.seen
     IN /\ search' = [search EXCEPT
                        !.todo = Tail(@),
                        !.beam = Offer(@, n, Ef, Dist(search.query))]
        /\ oram' = IF new THEN Read ELSE oram
  /\ UNCHANGED <<params, emb, levels, graph, served>>

NextCandidate ==
  /\ search.at = "fetch" /\ search.todo = <<>>
  /\ search' = [search EXCEPT !.at = "pop"]
  /\ UNCHANGED <<params, emb, levels, graph, oram, served>>

(* The beam, closest first, cut to k. *)
Hits(b, k, dist) ==
  LET all == Ranked(b.top, {p \in b.top \X b.top : Closer(dist, p[1], p[2])})
  IN SubSeq(all, 1, IF k < Len(all) THEN k ELSE Len(all))

LoopDone ==
  /\ search.at = "pop"
  /\ LoopEnds(search.beam, Ef, Dist(search.query))
  /\ search' = [search EXCEPT !.at = "end", !.outcome = "ok",
                              !.hits = Hits(search.beam, search.k, Dist(search.query))]
  /\ oram' = [oram EXCEPT !.defer = FALSE]
  /\ UNCHANGED <<params, emb, levels, graph, served>>

(* The search is suspended at an ORAM read: at the entry's, at the one of  *)
(* the next candidate, or at the one of a neighbour not seen before.       *)
AwaitsRead ==
  \/ search.at = "entry"
  \/ search.at = "pop" /\ ~ LoopEnds(search.beam, Ef, Dist(search.query))
  \/ search.at = "fetch" /\ search.todo # <<>> /\ Head(search.todo) \notin search.beam.seen

(* An ORAM read fails: `?` leaves the inner body, and the access is not    *)
(* counted.  As after LoopDone, the second toggle follows at once.         *)
ReadFails ==
  /\ AwaitsRead
  /\ search' = [Idle EXCEPT !.at = "end", !.outcome = "failed"]
  /\ oram' = [oram EXCEPT !.defer = FALSE]
  /\ UNCHANGED <<params, emb, levels, graph, served>>

(* Mutant: an eviction is taken off the queue before it is awaited. *)
EvictLosesFailed ==
  /\ search.at = "end" /\ oram.pending > 0
  /\ oram' = [oram EXCEPT !.pending = @ - 1]
  /\ search' = [Idle EXCEPT !.outcome = IF search.outcome = "failed" THEN "failed"
                                        ELSE "flush_failed"]
  /\ UNCHANGED <<params, emb, levels, graph, served>>

(* The flush, whatever became of the body: one queued eviction after the   *)
(* other, each off the queue when it is done.                              *)
Evict ==
  /\ search.at = "end" /\ oram.pending > 0
  /\ oram' = [oram EXCEPT !.pending = @ - 1, !.evicted = @ + 1]
  /\ UNCHANGED <<params, emb, levels, graph, search, served>>

(* An eviction of the flush fails and stays queued, with those behind it.  *)
(* The error of the body, if it has one, is the one reported.              *)
EvictFails ==
  /\ search.at = "end" /\ oram.pending > 0
  /\ search' = [Idle EXCEPT !.outcome = IF search.outcome = "failed" THEN "failed"
                                        ELSE "flush_failed"]
  /\ UNCHANGED <<params, emb, levels, graph, oram, served>>

(* The flush has drained the queue: the search returns what its body gave. *)
Return ==
  /\ search.at = "end" /\ oram.pending = 0
  /\ search' = [Idle EXCEPT !.outcome = search.outcome]
  /\ UNCHANGED <<params, emb, levels, graph, oram, served>>

(* The future is dropped at one of its awaits, a read or an eviction: in   *)
(* the body the client is left deferring, in the flush it is not.          *)
Drop ==
  /\ AwaitsRead \/ (search.at = "end" /\ oram.pending > 0)
  /\ search' = [Idle EXCEPT !.outcome = "dropped"]
  /\ UNCHANGED <<params, emb, levels, graph, oram, served>>

Next ==
  \/ InsertNext
  \/ \E q \in Queries, k \in 1 .. MaxK : StartSearch(q, k)
  \/ ReadEntry \/ Expand \/ Fetch \/ NextCandidate \/ LoopDone
  \/ ReadFails \/ Evict \/ EvictFails \/ Return \/ Drop

Spec == Init /\ [][Next]_vars

-----------------------------------------------------------------------------
(* No node is a dead end: once two nodes are inserted, every inserted one  *)
(* has a neighbour at layer 0, pruning included.                           *)
NoDeadEnd ==
  Cardinality(graph.inserted) > 1 =>
    \A x \in graph.inserted : graph.nbr[0][x] # <<>>

(* The nodes a walk over a layer reaches from S: those of every set that   *)
(* holds S and the neighbours of its own nodes.                            *)
Reach(layer, S) ==
  {x \in Nodes : \A R \in SUBSET Nodes :
     (S \subseteq R /\ \A y \in R : ToSet(layer[y]) \subseteq R) => x \in R}

(* With the filter open and a beam no narrower than the corpus, a search   *)
(* that succeeds returns exactly the k nearest of the nodes layer 0        *)
(* reaches from where its descent ended (search.rs:113-188).               *)
WideBeamIsExact ==
  (/\ search.at = "end" /\ search.outcome = "ok"
   /\ params.efn >= MaxNeighborsL0 /\ Ef >= Cardinality(Nodes)) =>
    search.hits = Hits([top |-> Reach(graph.nbr[0], {search.here})], search.k,
                       Dist(search.query))

(* One eviction falls due at every EvictRate-th access.  Whatever reads    *)
(* and evictions failed and wherever searches were dropped, each that fell *)
(* due is done or still queued, and a search that succeeds has caught up   *)
(* with all of them, those that earlier searches left included             *)
(* (search.rs:67-78, client.rs:340-350, 373-379).                          *)
EvictionsCatchUp ==
  LET due == oram.total \div EvictRate
  IN /\ oram.evicted + oram.pending = due
     /\ search.at = "idle" /\ search.outcome = "ok" =>
          oram.evicted = due /\ ~ oram.defer

=============================================================================
