------------------------------ MODULE RingOram ------------------------------
(***************************************************************************)
(* The Ring-ORAM client of crates/ring-oram (client.rs) over a block       *)
(* backend.  The client holds a position map, a stash, one write counter   *)
(* per bucket, the eviction bookkeeping and a mirror of the top of the     *)
(* tree; the backend holds one encrypted bucket per tree node.             *)
(*                                                                         *)
(* A call is split where the code awaits the backend: `pc' is "evict"      *)
(* while an inline or flushed evict_path is still to run and "return" when *)
(* only the tail of the call is left.  The client is owned by one caller   *)
(* at a time (&mut self), so calls do not interleave; what does happen in  *)
(* between is a failed, cut short or cancelled backend call: see Faults.   *)
(*                                                                         *)
(* Encryption is authenticated, the backend is semi-honest and a stored    *)
(* frame carries the counter it was sealed under, so a bucket is modelled  *)
(* as the plaintext it decrypts to; a dummy slot is an absent block.       *)
(***************************************************************************)
EXTENDS Naturals, Sequences, FiniteSets

CONSTANTS
  Blocks,      \* block ids
  Values,      \* payloads of the right size
  None,        \* no payload, no path, no block
  Z,           \* real slots per bucket
  A,           \* accesses per eviction
  NLeaves,     \* number of leaves (n_leaves)
  Buckets,     \* bucket ids
  Path,        \* Path[leaf]: its buckets, root first (path_buckets)
  Treetop,     \* buckets mirrored in the client's treetop cache
  CounterMod,  \* write counters are computed modulo this (2^32)
  LongLived,   \* whether a client may outlive CounterMod rewrites of a bucket
  MaxPending   \* bound on evictions queued while eviction is deferred

Leaves == 0 .. NLeaves - 1

ASSUME ParamsAssumption ==
  /\ Z \in Nat \ {0}
  /\ A \in Nat \ {0}
  /\ NLeaves \in Nat \ {0}
  /\ CounterMod \in Nat \ {0}
  /\ LongLived \in BOOLEAN
  /\ MaxPending \in Nat

ASSUME SentinelAssumption ==
  None \notin Values /\ None \notin Blocks /\ None \notin 0 .. NLeaves - 1

ASSUME BlocksAssumption == IsFiniteSet(Blocks)

(* What path_buckets returns (OramTree): a path lists buckets of the tree  *)
(* and lists none twice.                                                   *)
ASSUME PathAssumption ==
  /\ Path \in [0 .. NLeaves - 1 -> Seq(Buckets)]
  /\ \A leaf \in 0 .. NLeaves - 1 : \A i, j \in DOMAIN Path[leaf] :
       Path[leaf][i] = Path[leaf][j] => i = j
  /\ Treetop \subseteq Buckets

VARIABLES
  \* client state (fields of RingOramClient)
  posmap, stash, counters, accesses, defer, pending, cursor, cache,
  \* backend state
  tree,
  \* the call in progress and the answer to the last one
  pc, call, reply,
  \* history: last payload stored under each id; per bucket, the counters
  \* it has been sealed under and whether one of them was used twice
  latest, sealed

clientVars == <<posmap, stash, counters, accesses, defer, pending, cursor, cache>>
vars == <<posmap, stash, counters, accesses, defer, pending, cursor, cache,
          tree, pc, call, reply, latest, sealed>>

Payload  == Values \cup {None}
Content  == [Blocks -> Payload]             \* a bucket's slots; the stash
Dummies  == [b \in Blocks |-> None]
Idle     == [op |-> "none", id |-> None, out |-> None, new |-> None]
Answer(op, b, v, st) == [op |-> op, id |-> b, val |-> v, status |-> st]
NoReply  == Answer("none", None, None, "ok")

(* Every field is typed and the counts of the eviction schedule stay in     *)
(* range, whatever mix of calls raised and lowered them.                   *)
TypeOK ==
  /\ posmap \in [Blocks -> Leaves \cup {None}]
  /\ stash \in Content
  /\ counters \in [Buckets -> 0 .. CounterMod - 1]
  /\ accesses \in 0 .. A - 1
  /\ defer \in BOOLEAN
  /\ pending \in Nat
  /\ cursor \in Leaves
  /\ cache \in [Treetop -> Content]
  /\ tree \in [Buckets -> Content]
  /\ pc \in {"idle", "evict", "return"}
  /\ call \in [op : {"none", "admit", "read", "write", "flush"},
               id : Blocks \cup {None}, out : Payload, new : Payload]
  /\ reply \in [op : {"none", "admit", "read", "write", "flush"},
                id : Blocks \cup {None}, val : Payload,
                status : {"ok", "unknown", "size", "backend", "panic"}]
  /\ latest \in Content
  /\ sealed \in [Buckets -> [used : SUBSET (0 .. CounterMod - 1), twice : BOOLEAN]]

(* RingOramClient::new: empty map and stash, every bucket written once     *)
(* with dummies under counter 1.                                           *)
Init ==
  /\ posmap = [b \in Blocks |-> None]
  /\ stash = Dummies
  /\ counters = [k \in Buckets |-> 1 % CounterMod]
  /\ accesses = 0
  /\ defer = FALSE
  /\ pending = 0
  /\ cursor = 0
  /\ cache = [k \in Treetop |-> Dummies]
  /\ tree = [k \in Buckets |-> Dummies]
  /\ pc = "idle"
  /\ call = Idle
  /\ reply = NoReply
  /\ latest = Dummies
  /\ sealed = [k \in Buckets |-> [used |-> {1 % CounterMod}, twice |-> FALSE]]

-----------------------------------------------------------------------------
(* Reading and writing a path *)

OnPath(leaf) == {Path[leaf][i] : i \in DOMAIN Path[leaf]}

(* read_path_cached: the treetop from the mirror, the rest from the backend. *)
ReadBucket(k) == IF k \in Treetop THEN cache[k] ELSE tree[k]

Holds(k, b) == ReadBucket(k)[b] # None

(* The drain goes root first and keeps the first copy of b it meets. *)
FirstHolder(leaf, b) ==
  CHOOSE i \in DOMAIN Path[leaf] :
    /\ Holds(Path[leaf][i], b)
    /\ \A j \in DOMAIN Path[leaf] : j < i => ~Holds(Path[leaf][j], b)

FirstCopy(leaf, b) == ReadBucket(Path[leaf][FirstHolder(leaf, b)])[b]

(* The stash once every real block of the path has been moved into it; a   *)
(* block already there keeps the payload it has.                           *)
Drained(leaf) ==
  [b \in Blocks |->
     IF stash[b] # None THEN stash[b]
     ELSE IF \E k \in OnPath(leaf) : Holds(k, b) THEN FirstCopy(leaf, b)
     ELSE None]

(* Mutant: the counters are not advanced. *)
BumpedNot(leaf) == counters

Bumped(leaf) ==
  [k \in Buckets |-> IF k \in OnPath(leaf)
                     THEN (counters[k] + 1) % CounterMod ELSE counters[k]]

(* The history of bucket k once it is also sealed under counter c. *)
Sealed(k, c) == [used  |-> sealed[k].used \cup {c},
                 twice |-> sealed[k].twice \/ c \in sealed[k].used]

(* Mutant: the treetop mirror is not written. *)
StorePathUnmirrored(leaf, content, n) ==
  /\ counters' = Bumped(leaf)
  /\ sealed' = [k \in Buckets |->
                  IF k \in OnPath(leaf) THEN Sealed(k, Bumped(leaf)[k]) ELSE sealed[k]]
  /\ tree' = [k \in Buckets |-> IF k \in OnPath(leaf) THEN content[k] ELSE tree[k]]
  /\ UNCHANGED cache

(* Encrypt content[k] into every bucket k of the path under its bumped     *)
(* counter and write_buckets_cached the lot; the backend stores the first  *)
(* n buckets of the batch.                                                 *)
StorePath(leaf, content, n) ==
  /\ counters' = Bumped(leaf)
  /\ sealed' = [k \in Buckets |->
                  IF k \in OnPath(leaf) THEN Sealed(k, Bumped(leaf)[k]) ELSE sealed[k]]
  /\ cache' = [k \in Treetop |-> IF k \in OnPath(leaf) THEN content[k] ELSE cache[k]]
  /\ tree' = [k \in Buckets |->
                IF \E i \in DOMAIN Path[leaf] : i <= n /\ Path[leaf][i] = k
                THEN content[k] ELSE tree[k]]

(* Every bucket can be rewritten as often as the coming call may rewrite   *)
(* it without its counter wrapping (a bound on the life of the client      *)
(* unless LongLived).                                                      *)
Room == LongLived \/ \A k \in Buckets : counters[k] + pending + 2 < CounterMod

(* Mutant: maybe_evict tests accesses_since_evict > a. *)
MaybeEvictLate ==
  /\ accesses' = accesses + 1
  /\ pc' = IF accesses + 1 > A THEN "evict" ELSE "return"
  /\ UNCHANGED pending

(* maybe_evict after one more access.  accesses stays below A, so the loop *)
(* runs at most once.                                                      *)
MaybeEvict ==
  \/ /\ accesses + 1 < A
     /\ accesses' = accesses + 1
     /\ pc' = "return"
     /\ UNCHANGED pending
  \/ /\ accesses + 1 >= A /\ defer
     /\ pending < MaxPending
     /\ accesses' = accesses + 1 - A
     /\ pending' = pending + 1
     /\ pc' = "return"
  \/ /\ accesses + 1 >= A /\ ~defer
     /\ accesses' = accesses + 1 - A
     /\ pc' = "evict"
     /\ UNCHANGED pending

-----------------------------------------------------------------------------
(* Calls *)

(* admit up to the eviction it may trigger.  Callers admit an id once      *)
(* (CompassIndex::from_plaintext_corpus_on numbers the nodes).             *)
Admit(b, v) ==
  /\ pc = "idle" /\ Room
  /\ posmap[b] = None
  /\ \E leaf \in Leaves : posmap' = [posmap EXCEPT ![b] = leaf]
  /\ stash' = [stash EXCEPT ![b] = v]
  /\ latest' = [latest EXCEPT ![b] = v]
  /\ call' = [Idle EXCEPT !.op = "admit", !.id = b]
  /\ MaybeEvict
  /\ UNCHANGED <<counters, defer, cursor, cache, tree, reply, sealed>>

(* admit and write return early when the payload has the wrong size. *)
RejectSize(op, b) ==
  /\ pc = "idle"
  /\ reply' = Answer(op, b, None, "size")
  /\ UNCHANGED <<clientVars, tree, pc, call, latest, sealed>>

(* read, and write through it, of an id that was never admitted. *)
RejectUnknown(op, b) ==
  /\ pc = "idle"
  /\ posmap[b] = None
  /\ reply' = Answer(op, b, None, "unknown")
  /\ UNCHANGED <<clientVars, tree, pc, call, latest, sealed>>

(* Mutant: only the target goes to the stash, the path's other blocks are  *)
(* overwritten.                                                            *)
FetchTargetOnly(b, n) ==
  /\ pc = "idle" /\ Room
  /\ posmap[b] # None
  /\ Drained(posmap[b])[b] # None
  /\ stash' = [stash EXCEPT ![b] = Drained(posmap[b])[b]]
  /\ \E leaf \in Leaves : posmap' = [posmap EXCEPT ![b] = leaf]
  /\ StorePath(posmap[b], [k \in Buckets |-> Dummies], n)

(* The part of read that fetches the path, drains it, moves the target to  *)
(* a fresh path and overwrites the old one with dummies.                   *)
FetchAndClear(b, n) ==
  /\ pc = "idle" /\ Room
  /\ posmap[b] # None
  /\ Drained(posmap[b])[b] # None
  /\ stash' = Drained(posmap[b])
  /\ \E leaf \in Leaves : posmap' = [posmap EXCEPT ![b] = leaf]
  /\ StorePath(posmap[b], [k \in Buckets |-> Dummies], n)

Access(op, b, v) ==
  /\ FetchAndClear(b, Len(Path[posmap[b]]))
  /\ call' = [op |-> op, id |-> b, out |-> Drained(posmap[b])[b], new |-> v]
  /\ MaybeEvict
  /\ UNCHANGED <<defer, cursor, reply, latest>>

Read(b) == Access("read", b, None)

Write(b, v) == Access("write", b, v)

(* read's expect("block claimed in posmap but missing post-read"): the     *)
(* drained blocks stay in the stash, nothing else has changed yet.         *)
MissingBlockPanics(op, b) ==
  /\ pc = "idle"
  /\ posmap[b] # None
  /\ Drained(posmap[b])[b] = None
  /\ stash' = Drained(posmap[b])
  /\ reply' = Answer(op, b, None, "panic")
  /\ UNCHANGED <<posmap, counters, accesses, defer, pending, cursor, cache,
                 tree, pc, call, latest, sealed>>

SetDeferEvictions ==
  /\ pc = "idle"
  /\ defer' = ~defer
  /\ UNCHANGED <<posmap, stash, counters, accesses, pending, cursor, cache,
                 tree, pc, call, reply, latest, sealed>>

(* flush_evictions enters its loop. *)
FlushEvictions ==
  /\ pc = "idle" /\ Room
  /\ pending > 0
  /\ pc' = "evict"
  /\ call' = [Idle EXCEPT !.op = "flush"]
  /\ UNCHANGED <<clientVars, tree, reply, latest, sealed>>

-----------------------------------------------------------------------------
(* Eviction *)

(* Mutant: a bucket is filled to its capacity with dummies, not to z. *)
PlacementsOverfull(leaf, st) ==
  {place \in [Blocks -> 0 .. Len(Path[leaf])] :
     \A b \in Blocks : place[b] # 0 =>
       st[b] # None /\ Path[leaf][place[b]] \in OnPath(posmap[b])}

(* The outcomes of the greedy re-pack of evict_path for stash content st,  *)
(* over every order in which the stash's hash map may list its blocks:     *)
(* place[b] is the depth b lands at, 0 if it stays in the stash.  A block  *)
(* goes to the deepest bucket common to both paths that has room, so it    *)
(* passes over a deeper one only if that one is full.                      *)
Placements(leaf, st) ==
  {place \in [Blocks -> 0 .. Len(Path[leaf])] :
     LET filled(i) == Cardinality({c \in Blocks : place[c] = i})
         fits(b, i) == st[b] # None /\ Path[leaf][i] \in OnPath(posmap[b])
     IN /\ \A b \in Blocks : place[b] # 0 => fits(b, place[b])
        /\ \A i \in DOMAIN Path[leaf] : filled(i) <= Z
        /\ \A b \in Blocks, i \in DOMAIN Path[leaf] :
             i > place[b] /\ fits(b, i) => filled(i) = Z}

Packed(leaf, st, place) ==
  [k \in Buckets |-> [b \in Blocks |->
     IF place[b] # 0 /\ Path[leaf][place[b]] = k THEN st[b] ELSE None]]

(* Mutant: the eviction path is overwritten without being drained first. *)
RepackUndrained(n) ==
  \E place \in Placements(cursor, stash) :
       /\ stash' = [b \in Blocks |-> IF place[b] = 0 THEN stash[b] ELSE None]
       /\ StorePath(cursor, Packed(cursor, stash, place), n)
       /\ cursor' = (cursor + 1) % NLeaves

(* evict_path with the backend storing the first n buckets of the batch. *)
Repack(n) ==
  \E st \in {Drained(cursor)} : \E place \in Placements(cursor, st) :
       /\ stash' = [b \in Blocks |-> IF place[b] = 0 THEN st[b] ELSE None]
       /\ StorePath(cursor, Packed(cursor, st, place), n)
       /\ cursor' = (cursor + 1) % NLeaves

(* Mutant: flush_evictions does not count down. *)
EvictPathForever ==
  /\ pc = "evict"
  /\ Repack(Len(Path[cursor]))
  /\ pc' = IF call.op = "flush" THEN "evict" ELSE "return"
  /\ UNCHANGED <<posmap, accesses, defer, pending, call, reply, latest>>

(* evict_path, then the rest of the loop it was called from: flush takes   *)
(* one off the queue and goes round again, maybe_evict returns.            *)
EvictPath ==
  /\ pc = "evict"
  /\ Repack(Len(Path[cursor]))
  /\ \/ /\ call.op = "flush"
        /\ pending' = pending - 1
        /\ pc' = IF pending' > 0 THEN "evict" ELSE "idle"
        /\ call' = IF pending' > 0 THEN call ELSE Idle
     \/ /\ call.op # "flush"
        /\ pc' = "return"
        /\ UNCHANGED <<pending, call>>
  /\ UNCHANGED <<posmap, accesses, defer, reply, latest>>

-----------------------------------------------------------------------------
(* The end of a call *)

ReturnAdmit ==
  /\ pc = "return" /\ call.op = "admit"
  /\ reply' = Answer("admit", call.id, None, "ok")
  /\ pc' = "idle" /\ call' = Idle
  /\ UNCHANGED <<clientVars, tree, latest, sealed>>

ReturnRead ==
  /\ pc = "return" /\ call.op = "read"
  /\ reply' = Answer("read", call.id, call.out, "ok")
  /\ pc' = "idle" /\ call' = Idle
  /\ UNCHANGED <<clientVars, tree, latest, sealed>>

(* Mutant: write leaves the old payload in place. *)
ReturnWriteForgets ==
  /\ pc = "return" /\ call.op = "write"
  /\ stash[call.id] # None
  /\ latest' = [latest EXCEPT ![call.id] = call.new]
  /\ reply' = Answer("write", call.id, None, "ok")
  /\ pc' = "idle" /\ call' = Idle
  /\ UNCHANGED <<clientVars, tree, sealed>>

(* write replaces the payload of the stash entry its read left there ... *)
ReturnWrite ==
  /\ pc = "return" /\ call.op = "write"
  /\ stash[call.id] # None
  /\ stash' = [stash EXCEPT ![call.id] = call.new]
  /\ latest' = [latest EXCEPT ![call.id] = call.new]
  /\ reply' = Answer("write", call.id, None, "ok")
  /\ pc' = "idle" /\ call' = Idle
  /\ UNCHANGED <<posmap, counters, accesses, defer, pending, cursor, cache, tree, sealed>>

(* ... unless the eviction inside that read has moved it to the tree:      *)
(* expect("read placed it in the stash").                                  *)
WritePanics ==
  /\ pc = "return" /\ call.op = "write"
  /\ stash[call.id] = None
  /\ reply' = Answer("write", call.id, None, "panic")
  /\ pc' = "idle" /\ call' = Idle
  /\ UNCHANGED <<clientVars, tree, latest, sealed>>

-----------------------------------------------------------------------------
(* Backend faults: an error, a lost answer, or the caller's future dropped *)
(* at an await.  Each ends the call.  write_buckets is a loop of single    *)
(* bucket stores on the server, so a failed batch may be stored up to any  *)
(* point, the whole of it included (the answer was lost).                  *)

Deep(leaf) == \E k \in OnPath(leaf) : k \notin Treetop   \* needs the backend

EndInError(op, b) ==
  /\ reply' = Answer(op, b, None, "backend")
  /\ pc' = "idle" /\ call' = Idle

FetchFails(op, b) ==
  /\ pc = "idle" /\ posmap[b] # None
  /\ Deep(posmap[b])
  /\ EndInError(op, b)
  /\ UNCHANGED <<clientVars, tree, latest, sealed>>

ClearFails(op, b) ==
  /\ pc = "idle" /\ posmap[b] # None
  /\ \E n \in 0 .. Len(Path[posmap[b]]) : FetchAndClear(b, n)
  /\ EndInError(op, b)
  /\ UNCHANGED <<accesses, defer, pending, cursor, latest>>

EvictFetchFails ==
  /\ pc = "evict"
  /\ Deep(cursor)
  /\ cursor' = (cursor + 1) % NLeaves
  /\ EndInError(call.op, call.id)
  /\ UNCHANGED <<posmap, stash, counters, accesses, defer, pending, cache,
                 tree, latest, sealed>>

EvictStoreFails ==
  /\ pc = "evict"
  /\ \E n \in 0 .. Len(Path[cursor]) : Repack(n)
  /\ EndInError(call.op, call.id)
  /\ UNCHANGED <<posmap, accesses, defer, pending, latest>>

-----------------------------------------------------------------------------
(* Specifications *)

Step == EvictPath \/ ReturnAdmit \/ ReturnRead \/ ReturnWrite \/ WritePanics

(* The calls compass-index makes: it never overwrites a block. *)
Lookups ==
  \/ \E b \in Blocks :
       \/ \E v \in Values : Admit(b, v)
       \/ RejectSize("admit", b)
       \/ Read(b)
       \/ RejectUnknown("read", b)
       \/ MissingBlockPanics("read", b)
  \/ SetDeferEvictions
  \/ FlushEvictions

Overwrites ==
  \E b \in Blocks :
    \/ \E v \in Values : Write(b, v)
    \/ RejectSize("write", b)
    \/ RejectUnknown("write", b)
    \/ MissingBlockPanics("write", b)

ReadFaults ==
  \/ \E b \in Blocks : FetchFails("read", b) \/ ClearFails("read", b)
  \/ EvictFetchFails
  \/ EvictStoreFails

WriteFaults == \E b \in Blocks : FetchFails("write", b) \/ ClearFails("write", b)

Next == Lookups \/ Overwrites \/ Step

(* A reliable backend; calls that have begun run on (the executor polls a  *)
(* future until it is done).                                               *)
Spec     == Init /\ [][Next]_vars
FairSpec == Spec /\ WF_vars(Step)

(* Any use of the client over a backend that may fail. *)
FaultyNext == Next \/ ReadFaults \/ WriteFaults
FaultySpec == Init /\ [][FaultyNext]_vars

-----------------------------------------------------------------------------
(* Properties *)

(* lib.rs: `Every block lives either in the stash or on a single path'.    *)
(* An admitted block is in the stash or in exactly one bucket, and that    *)
(* bucket is on the path the position map gives for it; nothing else is    *)
(* anywhere.                                                               *)
OneHome ==
  \A b \in Blocks :
    LET homes == {k \in Buckets : tree[k][b] # None}
    IN IF posmap[b] = None THEN stash[b] = None /\ homes = {}
       ELSE IF stash[b] # None THEN homes = {}
       ELSE \E k \in OnPath(posmap[b]) : homes = {k}

(* write_buckets_cached mirrors before it writes the backend: with no      *)
(* failed write, the mirror and the backend agree on the treetop.          *)
CacheMirrorsBackend == \A k \in Treetop : cache[k] = tree[k]

(* evict_path never puts more than Z real blocks into a bucket, whatever   *)
(* happened to earlier writes.                                             *)
BucketCapacity ==
  \A k \in Buckets :
    /\ Cardinality({b \in Blocks : tree[k][b] # None}) <= Z
    /\ Cardinality({b \in Blocks : ReadBucket(k)[b] # None}) <= Z

(* `Fetch the current payload of id': what a read is about to return is    *)
(* the payload last stored under the id.                                   *)
ReadsCurrent == call.op = "read" => call.out = latest[call.id]

(* codec.rs: `no nonce is reused across rewrites of the same bucket': no   *)
(* bucket is ever encrypted twice under one write counter.                 *)
NonceFresh == \A k \in Buckets : ~sealed[k].twice

(* read can find the block: in the stash, or in a bucket of its path.      *)
Reachable(b) ==
  \/ stash[b] # None
  \/ posmap[b] # None /\ \E k \in OnPath(posmap[b]) : Holds(k, b)

(* A block that read can find can be lost only while an eviction is        *)
(* writing: no other step of the client, failed or not, makes it           *)
(* unreachable.                                                            *)
OnlyEvictionLosesBlocks ==
  [][\A b \in Blocks : Reachable(b) /\ ~Reachable(b)' => pc = "evict"]_vars

(* Every call that has begun ends: inline eviction happens once and the    *)
(* flush loop runs down its queue.                                         *)
CallsEnd == pc # "idle" ~> pc = "idle"

(* An admission counts from the moment its call returns. *)
AdmissionInFlight(b) == call.op = "admit" /\ call.id = b
VisibleStore == [b \in Blocks |-> IF AdmissionInFlight(b) THEN None ELSE latest[b]]
Abstract == INSTANCE BlockStore WITH store <- VisibleStore
(* The client implements BlockStore: a map from admitted blocks to their   *)
(* last payloads, whatever the stash, the tree and the evictions do.       *)
ImplementsBlockStore == Abstract!SSpec

(* client.rs, write: `read placed it in the stash'.  A write never finds   *)
(* its block gone from the stash.                                          *)
WriteFindsItsBlock == ~(reply.op = "write" /\ reply.status = "panic")

=============================================================================
