--------------------------- MODULE RingOramProofs ---------------------------
(***************************************************************************)
(* Proofs about RingOram, for every tree, block set and parameter choice   *)
(* that satisfies its assumptions.                                         *)
(***************************************************************************)
EXTENDS RingOram, TLAPS, WellFoundedInduction, FiniteSetTheorems

(* A non-empty set of naturals has a least element. *)
LEMMA LeastNat ==
  ASSUME NEW T \in SUBSET Nat, T # {}
  PROVE  \E x \in T : \A y \in T : ~(y < x)
<1>1. \E x \in T : \A y \in T : ~(<<y, x>> \in OpToRel(<, Nat))
  BY NatLessThanWellFounded, WFMin, Zenon
<1> QED
  BY <1>1 DEF OpToRel

(* A path lists buckets of the tree. *)
LEMMA PathFacts ==
  ASSUME NEW leaf \in Leaves
  PROVE  /\ Path[leaf] \in Seq(Buckets)
         /\ Len(Path[leaf]) \in Nat
         /\ DOMAIN Path[leaf] = 1 .. Len(Path[leaf])
         /\ \A i \in DOMAIN Path[leaf] : Path[leaf][i] \in Buckets
         /\ OnPath(leaf) \subseteq Buckets
<1>1. Path[leaf] \in Seq(Buckets)
  BY PathAssumption DEF Leaves
<1> QED
  BY <1>1 DEF OnPath

(* The bucket contents the client reads are well typed. *)
LEMMA ReadBucketType ==
  ASSUME TypeOK, NEW k \in Buckets
  PROVE  ReadBucket(k) \in Content
  BY PathAssumption DEF TypeOK, ReadBucket

(* The drain of read and evict_path picks a copy that exists: if some      *)
(* bucket of the path holds b, FirstHolder is the depth of one that does.  *)
LEMMA FirstHolderFacts ==
  ASSUME NEW leaf \in Leaves, NEW b \in Blocks,
         \E k \in OnPath(leaf) : Holds(k, b)
  PROVE  /\ FirstHolder(leaf, b) \in DOMAIN Path[leaf]
         /\ Path[leaf][FirstHolder(leaf, b)] \in OnPath(leaf)
         /\ Holds(Path[leaf][FirstHolder(leaf, b)], b)
<1> DEFINE T == {i \in DOMAIN Path[leaf] : Holds(Path[leaf][i], b)}
<1>1. T \in SUBSET Nat /\ T # {}
  BY PathFacts DEF OnPath
<1>2. PICK i \in T : \A j \in T : ~(j < i)
  BY <1>1, LeastNat
<1>3. \E x \in DOMAIN Path[leaf] :
        /\ Holds(Path[leaf][x], b)
        /\ \A j \in DOMAIN Path[leaf] : j < x => ~Holds(Path[leaf][j], b)
  BY <1>2
<1> QED
  BY <1>3 DEF FirstHolder, OnPath

(* What a block's entry in the drained stash is: a payload, the stash's    *)
(* own entry first, otherwise that of some bucket of the path.             *)
LEMMA DrainedFacts ==
  ASSUME TypeOK, NEW leaf \in Leaves
  PROVE  /\ Drained(leaf) \in Content
         /\ \A b \in Blocks :
              /\ stash[b] # None => Drained(leaf)[b] = stash[b]
              /\ stash[b] = None /\ (\E k \in OnPath(leaf) : Holds(k, b)) =>
                   /\ Drained(leaf)[b] # None
                   /\ \E k \in OnPath(leaf) : Drained(leaf)[b] = ReadBucket(k)[b]
              /\ stash[b] = None /\ ~(\E k \in OnPath(leaf) : Holds(k, b)) =>
                   Drained(leaf)[b] = None
<1>1. ASSUME NEW b \in Blocks, \E k \in OnPath(leaf) : Holds(k, b)
      PROVE  /\ FirstCopy(leaf, b) \in Payload
             /\ FirstCopy(leaf, b) # None
             /\ \E k \in OnPath(leaf) : FirstCopy(leaf, b) = ReadBucket(k)[b]
  <2> DEFINE h == Path[leaf][FirstHolder(leaf, b)]
  <2>1. h \in OnPath(leaf) /\ Holds(h, b)
    BY <1>1, FirstHolderFacts
  <2>2. ReadBucket(h) \in Content
    BY <2>1, PathFacts, ReadBucketType
  <2> QED
    BY <2>1, <2>2 DEF FirstCopy, Holds, Content
<1>2. stash \in Content
  BY DEF TypeOK
<1> QED
  BY <1>1, <1>2 DEF Drained, Content, Payload

-----------------------------------------------------------------------------
(* Types *)

(* Reducing modulo the word size. *)
LEMMA Modulo ==
  ASSUME NEW x \in Nat, NEW m \in Nat, m > 0
  PROVE  /\ x % m \in 0 .. m - 1
         /\ x < m => x % m = x
  OBVIOUS

(* The bumped counters are counters. *)
LEMMA BumpedType ==
  ASSUME TypeOK, NEW leaf \in Leaves
  PROVE  Bumped(leaf) \in [Buckets -> 0 .. CounterMod - 1]
<1>1. ASSUME NEW k \in Buckets
      PROVE  (counters[k] + 1) % CounterMod \in 0 .. CounterMod - 1
  <2>1. counters[k] + 1 \in Nat /\ CounterMod \in Nat /\ CounterMod > 0
    BY ParamsAssumption DEF TypeOK
  <2> QED
    BY <2>1, Modulo
<1> QED
  BY <1>1 DEF Bumped, TypeOK

(* Writing well-typed contents to a path keeps buckets, mirror, counters   *)
(* and counter history well typed, however much of it the backend stored.  *)
LEMMA StorePathType ==
  ASSUME TypeOK, NEW leaf \in Leaves, NEW content \in [Buckets -> Content],
         NEW n, StorePath(leaf, content, n)
  PROVE  /\ counters' \in [Buckets -> 0 .. CounterMod - 1]
         /\ cache' \in [Treetop -> Content]
         /\ tree' \in [Buckets -> Content]
         /\ sealed' \in [Buckets -> [used : SUBSET (0 .. CounterMod - 1), twice : BOOLEAN]]
<1>1. counters' \in [Buckets -> 0 .. CounterMod - 1]
  BY BumpedType DEF StorePath
<1>2. cache' \in [Treetop -> Content]
  BY PathAssumption DEF StorePath, TypeOK
<1>3. tree' \in [Buckets -> Content]
  BY DEF StorePath, TypeOK
<1>4. sealed' \in [Buckets -> [used : SUBSET (0 .. CounterMod - 1), twice : BOOLEAN]]
  <2>1. ASSUME NEW k \in Buckets
        PROVE  Sealed(k, Bumped(leaf)[k]) \in
                 [used : SUBSET (0 .. CounterMod - 1), twice : BOOLEAN]
    <3>1. /\ sealed[k].used \subseteq 0 .. CounterMod - 1
          /\ Bumped(leaf)[k] \in 0 .. CounterMod - 1
      BY BumpedType DEF TypeOK
    <3>2. (sealed[k].twice \/ Bumped(leaf)[k] \in sealed[k].used) \in BOOLEAN
      OBVIOUS
    <3> QED
      BY <3>1, <3>2 DEF Sealed
  <2> QED
    BY <2>1 DEF StorePath, TypeOK
<1> QED
  BY <1>1, <1>2, <1>3, <1>4

LEMMA DummiesType == Dummies \in Content
  BY DEF Dummies, Content, Payload

(* The packed buckets of an eviction and what is left in the stash. *)
LEMMA PackedType ==
  ASSUME NEW leaf \in Leaves, NEW st \in Content, NEW place
  PROVE  /\ Packed(leaf, st, place) \in [Buckets -> Content]
         /\ [b \in Blocks |-> IF place[b] = 0 THEN st[b] ELSE None] \in Content
  BY DEF Packed, Content, Payload

LEMMA MaybeEvictType ==
  ASSUME TypeOK, MaybeEvict
  PROVE  /\ accesses' \in 0 .. A - 1
         /\ pending' \in Nat
         /\ pc' \in {"evict", "return"}
  BY ParamsAssumption DEF TypeOK, MaybeEvict

LEMMA FetchAndClearType ==
  ASSUME TypeOK, NEW b \in Blocks, NEW n, FetchAndClear(b, n)
  PROVE  /\ posmap' \in [Blocks -> Leaves \cup {None}]
         /\ stash' \in Content
         /\ counters' \in [Buckets -> 0 .. CounterMod - 1]
         /\ cache' \in [Treetop -> Content]
         /\ tree' \in [Buckets -> Content]
         /\ sealed' \in [Buckets -> [used : SUBSET (0 .. CounterMod - 1), twice : BOOLEAN]]
<1>1. posmap[b] \in Leaves
  BY DEF TypeOK, FetchAndClear
<1>2. [k \in Buckets |-> Dummies] \in [Buckets -> Content]
  BY DummiesType
<1>3. StorePath(posmap[b], [k \in Buckets |-> Dummies], n)
  BY DEF FetchAndClear
<1>4. posmap' \in [Blocks -> Leaves \cup {None}]
  BY DEF TypeOK, FetchAndClear
<1>5. stash' \in Content
  BY <1>1, DrainedFacts DEF FetchAndClear
<1> QED
  BY <1>1, <1>2, <1>3, <1>4, <1>5, StorePathType

LEMMA RepackType ==
  ASSUME TypeOK, NEW n, Repack(n)
  PROVE  /\ stash' \in Content
         /\ cursor' \in Leaves
         /\ counters' \in [Buckets -> 0 .. CounterMod - 1]
         /\ cache' \in [Treetop -> Content]
         /\ tree' \in [Buckets -> Content]
         /\ sealed' \in [Buckets -> [used : SUBSET (0 .. CounterMod - 1), twice : BOOLEAN]]
<1>1. cursor \in Leaves
  BY DEF TypeOK
<1>2. Drained(cursor) \in Content
  BY <1>1, DrainedFacts
<1>3. PICK place \in Placements(cursor, Drained(cursor)) :
        /\ stash' = [b \in Blocks |-> IF place[b] = 0 THEN Drained(cursor)[b] ELSE None]
        /\ StorePath(cursor, Packed(cursor, Drained(cursor), place), n)
        /\ cursor' = (cursor + 1) % NLeaves
  BY DEF Repack
<1>4. stash' \in Content
  BY <1>1, <1>2, <1>3, PackedType
<1>5. cursor' \in Leaves
  <2>1. cursor + 1 \in Nat /\ NLeaves \in Nat /\ NLeaves > 0
    BY <1>1, ParamsAssumption DEF Leaves
  <2> QED
    BY <2>1, <1>3, Modulo DEF Leaves
<1>6. Packed(cursor, Drained(cursor), place) \in [Buckets -> Content]
  BY <1>1, <1>2, PackedType
<1> QED
  BY <1>1, <1>3, <1>4, <1>5, <1>6, StorePathType

(* The eviction queue is not empty while flush_evictions is in its loop,   *)
(* so taking one off never goes below zero.                                *)
FlushHasWork == pc = "evict" /\ call.op = "flush" => pending > 0

(* A call in progress names its block, a write its new payload. *)
CallOK ==
  /\ pc = "idle" <=> call = Idle
  /\ call.op \in {"admit", "read", "write"} => call.id \in Blocks
  /\ call.op = "write" => call.new \in Values

TypeInv == TypeOK /\ FlushHasWork /\ CallOK

LEMMA TypeInit == Init => TypeInv
<1> SUFFICES ASSUME Init PROVE TypeInv
  OBVIOUS
<1>1. /\ [k \in Buckets |-> Dummies] \in [Buckets -> Content]
      /\ [k \in Treetop |-> Dummies] \in [Treetop -> Content]
  BY DummiesType
<1>2. 0 \in 0 .. A - 1 /\ 0 \in Leaves
  BY ParamsAssumption DEF Leaves
<1>3. 1 % CounterMod \in 0 .. CounterMod - 1
  BY ParamsAssumption, Modulo
<1> QED
  BY <1>1, <1>2, <1>3, DummiesType
     DEF Init, TypeInv, TypeOK, FlushHasWork, CallOK, Idle, NoReply, Answer, Payload

LEMMA TypeStep == TypeInv /\ [FaultyNext]_vars => TypeInv'
<1> SUFFICES ASSUME TypeInv, [FaultyNext]_vars PROVE TypeInv'
  OBVIOUS
<1>t. TypeOK /\ FlushHasWork /\ CallOK
  BY DEF TypeInv
<1>1. ASSUME NEW b \in Blocks, NEW v \in Values, Admit(b, v) PROVE TypeInv'
  <2>1. posmap' \in [Blocks -> Leaves \cup {None}]
    BY <1>1, <1>t DEF Admit, TypeOK
  <2>2. stash' \in Content /\ latest' \in Content
    BY <1>1, <1>t DEF Admit, TypeOK, Content, Payload
  <2>3. call' = [op |-> "admit", id |-> b, out |-> None, new |-> None]
    BY <1>1 DEF Admit, Idle
  <2>4. accesses' \in 0 .. A - 1 /\ pending' \in Nat /\ pc' \in {"evict", "return"}
    BY <1>1, <1>t, MaybeEvictType DEF Admit
  <2> QED
    BY <1>1, <1>t, <2>1, <2>2, <2>3, <2>4 DEF Admit, TypeInv, TypeOK, FlushHasWork, CallOK, Payload, Idle
<1>2. ASSUME NEW op \in {"admit", "write"}, NEW b \in Blocks, RejectSize(op, b)
      PROVE  TypeInv'
  BY <1>2, <1>t DEF RejectSize, TypeInv, TypeOK, FlushHasWork, CallOK, Answer, Payload, clientVars
<1>3. ASSUME NEW op \in {"read", "write"}, NEW b \in Blocks, RejectUnknown(op, b)
      PROVE  TypeInv'
  BY <1>3, <1>t DEF RejectUnknown, TypeInv, TypeOK, FlushHasWork, CallOK, Answer, Payload, clientVars
<1>4. ASSUME NEW op \in {"read", "write"}, NEW b \in Blocks, NEW v \in Payload,
             op = "write" => v \in Values, Access(op, b, v)
      PROVE  TypeInv'
  <2>1. posmap[b] \in Leaves
    BY <1>4, <1>t DEF Access, FetchAndClear, TypeOK
  <2>2. Drained(posmap[b])[b] \in Payload
    BY <2>1, <1>t, DrainedFacts DEF Content
  <2>3. accesses' \in 0 .. A - 1 /\ pending' \in Nat /\ pc' \in {"evict", "return"}
    BY <1>4, <1>t, MaybeEvictType DEF Access
  <2>4. call' \in [op : {"none", "admit", "read", "write", "flush"},
                   id : Blocks \cup {None}, out : Payload, new : Payload]
        /\ call'.op # "flush"
        /\ CallOK'
    BY <1>4, <2>2, <2>3 DEF Access, CallOK, Idle
  <2> QED
    BY <1>4, <1>t, <2>3, <2>4, FetchAndClearType
       DEF Access, TypeInv, TypeOK, FlushHasWork, CallOK
<1>5. ASSUME NEW op \in {"read", "write"}, NEW b \in Blocks, MissingBlockPanics(op, b)
      PROVE  TypeInv'
  <2>1. posmap[b] \in Leaves
    BY <1>5, <1>t DEF MissingBlockPanics, TypeOK
  <2>2. stash' \in Content
    BY <1>5, <2>1, <1>t, DrainedFacts DEF MissingBlockPanics
  <2> QED
    BY <1>5, <1>t, <2>2
       DEF MissingBlockPanics, TypeInv, TypeOK, FlushHasWork, CallOK, Answer, Payload
<1>6. CASE SetDeferEvictions
  BY <1>6, <1>t DEF SetDeferEvictions, TypeInv, TypeOK, FlushHasWork, CallOK
<1>7. CASE FlushEvictions
  BY <1>7, <1>t DEF FlushEvictions, TypeInv, TypeOK, FlushHasWork, CallOK, Idle, Payload, clientVars
<1>8. CASE EvictPath
  <2>1. PICK n : Repack(n)
    BY <1>8 DEF EvictPath
  <2>2. /\ stash' \in Content
        /\ cursor' \in Leaves
        /\ counters' \in [Buckets -> 0 .. CounterMod - 1]
        /\ cache' \in [Treetop -> Content]
        /\ tree' \in [Buckets -> Content]
        /\ sealed' \in [Buckets -> [used : SUBSET (0 .. CounterMod - 1), twice : BOOLEAN]]
    BY <2>1, <1>t, RepackType
  <2>3. CASE call.op = "flush"
    <3>1. pending > 0 /\ pending' = pending - 1 /\ pending' \in Nat
      BY <1>8, <1>t, <2>3 DEF EvictPath, TypeOK, FlushHasWork, CallOK
    <3> QED
      BY <1>8, <1>t, <2>2, <2>3, <3>1
         DEF EvictPath, TypeInv, TypeOK, FlushHasWork, CallOK, Idle, Payload
  <2>4. CASE call.op # "flush"
    BY <1>8, <1>t, <2>2, <2>4 DEF EvictPath, TypeInv, TypeOK, FlushHasWork, CallOK
  <2> QED
    BY <2>3, <2>4
<1>9. CASE ReturnAdmit
  BY <1>9, <1>t DEF ReturnAdmit, TypeInv, TypeOK, FlushHasWork, CallOK, Answer, Idle, Payload, clientVars
<1>10. CASE ReturnRead
  BY <1>10, <1>t DEF ReturnRead, TypeInv, TypeOK, FlushHasWork, CallOK, Answer, Idle, Payload, clientVars
<1>11. CASE ReturnWrite
  <2>1. stash' \in Content /\ latest' \in Content
    BY <1>11, <1>t DEF ReturnWrite, TypeOK, Content
  <2> QED
    BY <1>11, <1>t, <2>1 DEF ReturnWrite, TypeInv, TypeOK, FlushHasWork, CallOK, Answer, Idle, Payload
<1>12. CASE WritePanics
  BY <1>12, <1>t DEF WritePanics, TypeInv, TypeOK, FlushHasWork, CallOK, Answer, Idle, Payload, clientVars
<1>13. ASSUME NEW op \in {"read", "write"}, NEW b \in Blocks, FetchFails(op, b)
       PROVE  TypeInv'
  BY <1>13, <1>t
     DEF FetchFails, EndInError, TypeInv, TypeOK, FlushHasWork, CallOK, Answer, Idle, Payload, clientVars
<1>14. ASSUME NEW op \in {"read", "write"}, NEW b \in Blocks, ClearFails(op, b)
       PROVE  TypeInv'
  <2>1. PICK n : FetchAndClear(b, n)
    BY <1>14 DEF ClearFails
  <2> QED
    BY <1>14, <1>t, <2>1, FetchAndClearType
       DEF ClearFails, EndInError, TypeInv, TypeOK, FlushHasWork, CallOK, Answer, Idle, Payload
<1>15. CASE EvictFetchFails
  <2>1. cursor' \in Leaves
    <3>1. cursor + 1 \in Nat /\ NLeaves \in Nat /\ NLeaves > 0
      BY <1>t, ParamsAssumption DEF Leaves, TypeOK
    <3> QED
      BY <3>1, <1>15, Modulo DEF EvictFetchFails, Leaves
  <2> QED
    BY <1>15, <1>t, <2>1
       DEF EvictFetchFails, EndInError, TypeInv, TypeOK, FlushHasWork, CallOK, Answer, Idle, Payload
<1>16. CASE EvictStoreFails
  <2>1. PICK n : Repack(n)
    BY <1>16 DEF EvictStoreFails
  <2> QED
    BY <1>16, <1>t, <2>1, RepackType
       DEF EvictStoreFails, EndInError, TypeInv, TypeOK, FlushHasWork, CallOK, Answer, Idle, Payload
<1>17. CASE UNCHANGED vars
  BY <1>17, <1>t DEF vars, TypeInv, TypeOK, FlushHasWork, CallOK
<1>18. \A v \in Values : v \in Payload
  BY DEF Payload
<1>19. None \in Payload
  BY DEF Payload
<1>20. CASE Lookups
  BY <1>20, <1>1, <1>2, <1>3, <1>4, <1>5, <1>6, <1>7, <1>19 DEF Lookups, Read
<1>21. CASE Overwrites
  BY <1>21, <1>2, <1>3, <1>4, <1>5, <1>18 DEF Overwrites, Write
<1>22. CASE Step
  BY <1>22, <1>8, <1>9, <1>10, <1>11, <1>12 DEF Step
<1>23. CASE ReadFaults
  BY <1>23, <1>13, <1>14, <1>15, <1>16 DEF ReadFaults
<1>24. CASE WriteFaults
  BY <1>24, <1>13, <1>14 DEF WriteFaults
<1> QED
  BY <1>17, <1>20, <1>21, <1>22, <1>23, <1>24 DEF FaultyNext, Next

(* Whatever the caller does and whatever the backend fails to do, every    *)
(* field of the client and every bucket stays well typed: the eviction     *)
(* counters of maybe_evict and flush_evictions neither grow past their     *)
(* range nor go below zero.                                                *)
THEOREM TypeCorrect == FaultySpec => []TypeOK
<1>1. TypeInv => TypeOK
  BY DEF TypeInv
<1> QED
  BY <1>1, TypeInit, TypeStep, PTL DEF FaultySpec

-----------------------------------------------------------------------------
(* One home per block, over a reliable backend *)

(* OneHome for one block, in terms of single buckets. *)
Home(b) ==
  /\ posmap[b] = None => stash[b] = None
  /\ posmap[b] = None \/ stash[b] # None => \A k \in Buckets : tree[k][b] = None
  /\ posmap[b] # None /\ stash[b] = None =>
       \E k \in OnPath(posmap[b]) :
         k \in Buckets /\ \A j \in Buckets : tree[j][b] # None <=> j = k

LEMMA HomeIsOneHome ==
  ASSUME TypeOK
  PROVE  OneHome <=> \A b \in Blocks : Home(b)
<1>1. ASSUME NEW b \in Blocks, posmap[b] # None
      PROVE  OnPath(posmap[b]) \subseteq Buckets
  BY <1>1, PathFacts DEF TypeOK
<1> QED
  BY <1>1 DEF OneHome, Home

HomeInv == TypeInv /\ CacheMirrorsBackend /\ \A b \in Blocks : Home(b)

(* With the mirror in step, what the client reads is what is stored. *)
LEMMA ReadsTheTree ==
  ASSUME CacheMirrorsBackend, NEW k
  PROVE  ReadBucket(k) = tree[k]
  BY DEF CacheMirrorsBackend, ReadBucket

(* A write of a path that the backend stores in full. *)
LEMMA StoreWholePath ==
  ASSUME TypeOK, CacheMirrorsBackend, NEW leaf \in Leaves, NEW content,
         StorePath(leaf, content, Len(Path[leaf]))
  PROVE  /\ CacheMirrorsBackend'
         /\ \A k \in Buckets :
              tree'[k] = IF k \in OnPath(leaf) THEN content[k] ELSE tree[k]
<1>1. \A k : k \in OnPath(leaf) <=>
             \E i \in DOMAIN Path[leaf] : i <= Len(Path[leaf]) /\ Path[leaf][i] = k
  BY PathFacts DEF OnPath
<1>2. \A k \in Buckets : tree'[k] = IF k \in OnPath(leaf) THEN content[k] ELSE tree[k]
  BY <1>1 DEF StorePath
<1>3. ASSUME NEW k \in Treetop PROVE cache'[k] = tree'[k]
  BY <1>2, PathAssumption DEF StorePath, CacheMirrorsBackend
<1> QED
  BY <1>2, <1>3 DEF CacheMirrorsBackend

(* Draining a path finds exactly the blocks in the stash or on the path,   *)
(* and a block that is found has no copy elsewhere.                        *)
LEMMA DrainedHome ==
  ASSUME HomeInv, NEW leaf \in Leaves, NEW b \in Blocks
  PROVE  /\ Drained(leaf)[b] # None =>
              /\ posmap[b] # None
              /\ \A k \in Buckets : k \notin OnPath(leaf) => tree[k][b] = None
         /\ Drained(leaf)[b] = None =>
              /\ stash[b] = None
              /\ \A k \in Buckets : k \in OnPath(leaf) => tree[k][b] = None
<1>1. OnPath(leaf) \subseteq Buckets
  BY PathFacts
<1>2. TypeOK /\ CacheMirrorsBackend /\ Home(b)
  BY DEF HomeInv, TypeInv
<1>3. \A k \in OnPath(leaf) : Holds(k, b) <=> tree[k][b] # None
  BY <1>2, ReadsTheTree DEF Holds
<1>4. CASE stash[b] # None
  BY <1>2, <1>4, DrainedFacts DEF Home
<1>5. CASE stash[b] = None /\ \E k \in OnPath(leaf) : Holds(k, b)
  <2>1. PICK h \in OnPath(leaf) : h \in Buckets /\ tree[h][b] # None
    BY <1>1, <1>3, <1>5
  <2>2. posmap[b] # None
    BY <1>2, <2>1 DEF Home
  <2>3. \A k \in Buckets : tree[k][b] # None => k = h
    BY <1>2, <1>5, <2>1, <2>2 DEF Home
  <2>4. Drained(leaf)[b] # None
    BY <1>2, <1>5, DrainedFacts
  <2> QED
    BY <2>1, <2>2, <2>3, <2>4
<1>6. CASE stash[b] = None /\ ~\E k \in OnPath(leaf) : Holds(k, b)
  <2>1. Drained(leaf)[b] = None
    BY <1>2, <1>6, DrainedFacts
  <2> QED
    BY <1>3, <1>6, <2>1
<1> QED
  BY <1>4, <1>5, <1>6

(* read's overwrite of the path with dummies loses nothing: what was there *)
(* is in the stash, the target included, which alone changes its path.     *)
LEMMA HomeAccess ==
  ASSUME HomeInv, NEW b \in Blocks, FetchAndClear(b, Len(Path[posmap[b]]))
  PROVE  CacheMirrorsBackend' /\ \A c \in Blocks : Home(c)'
<1> DEFINE leaf == posmap[b]
<1>1. TypeOK /\ CacheMirrorsBackend
  BY DEF HomeInv, TypeInv
<1>2. leaf \in Leaves
  BY <1>1 DEF FetchAndClear, TypeOK
<1>3. StorePath(leaf, [k \in Buckets |-> Dummies], Len(Path[leaf]))
  BY DEF FetchAndClear
<1>4. /\ CacheMirrorsBackend'
      /\ \A k \in Buckets :
           tree'[k] = IF k \in OnPath(leaf) THEN [j \in Buckets |-> Dummies][k] ELSE tree[k]
  BY <1>1, <1>2, <1>3, StoreWholePath
<1>5. ASSUME NEW c \in Blocks PROVE Home(c)'
  <2>1. stash'[c] = Drained(leaf)[c]
    BY DEF FetchAndClear
  <2>2. \A k \in Buckets :
          tree'[k][c] = IF k \in OnPath(leaf) THEN None ELSE tree[k][c]
    BY <1>4 DEF Dummies
  <2>3. c # b => posmap'[c] = posmap[c]
    BY <1>1 DEF FetchAndClear, TypeOK
  <2>4. CASE Drained(leaf)[c] # None
    <3>1. posmap[c] # None /\ \A k \in Buckets : tree'[k][c] = None
      BY <1>2, <2>2, <2>4, DrainedHome
    <3>2. posmap'[c] # None
      BY <1>1, <2>3, <3>1, SentinelAssumption DEF FetchAndClear, TypeOK, Leaves
    <3> QED
      BY <2>1, <2>4, <3>1, <3>2 DEF Home
  <2>5. CASE Drained(leaf)[c] = None
    <3>1. c # b
      BY <2>5 DEF FetchAndClear
    <3>2. stash[c] = None /\ \A k \in Buckets : tree'[k][c] = tree[k][c]
      BY <1>2, <2>2, <2>5, DrainedHome
    <3>3. Home(c)
      BY DEF HomeInv
    <3> QED
      BY <2>1, <2>3, <2>5, <3>1, <3>2, <3>3 DEF Home, OnPath
  <2> QED
    BY <2>4, <2>5
<1> QED
  BY <1>4, <1>5

(* evict_path puts each drained block back on its own path or keeps it in  *)
(* the stash, and into one bucket only.                                    *)
LEMMA HomeEvict ==
  ASSUME HomeInv, Repack(Len(Path[cursor])), UNCHANGED posmap
  PROVE  CacheMirrorsBackend' /\ \A c \in Blocks : Home(c)'
<1> DEFINE st == Drained(cursor)
<1>1. TypeOK /\ CacheMirrorsBackend /\ cursor \in Leaves
  BY DEF HomeInv, TypeInv, TypeOK
<1>2. PICK place \in Placements(cursor, st) :
        /\ stash' = [b \in Blocks |-> IF place[b] = 0 THEN st[b] ELSE None]
        /\ StorePath(cursor, Packed(cursor, st, place), Len(Path[cursor]))
  BY DEF Repack
<1>3. /\ CacheMirrorsBackend'
      /\ \A k \in Buckets :
           tree'[k] = IF k \in OnPath(cursor) THEN Packed(cursor, st, place)[k] ELSE tree[k]
  BY <1>1, <1>2, StoreWholePath
<1>4. ASSUME NEW c \in Blocks PROVE Home(c)'
  <2>1. \A k \in Buckets : tree'[k][c] =
          IF k \in OnPath(cursor)
          THEN IF place[c] # 0 /\ Path[cursor][place[c]] = k THEN st[c] ELSE None
          ELSE tree[k][c]
    BY <1>3 DEF Packed
  <2>2. stash'[c] = IF place[c] = 0 THEN st[c] ELSE None
    BY <1>2
  <2>3. place[c] # 0 => /\ st[c] # None
                        /\ Path[cursor][place[c]] \in OnPath(posmap[c])
                        /\ place[c] \in DOMAIN Path[cursor]
    BY <1>1, PathFacts DEF Placements
  <2>4. CASE place[c] # 0
    <3> DEFINE k == Path[cursor][place[c]]
    <3>1. k \in OnPath(cursor) /\ k \in Buckets /\ k \in OnPath(posmap'[c])
      BY <1>1, <2>3, <2>4, PathFacts DEF OnPath
    <3>2. posmap'[c] # None /\ \A j \in Buckets : j \notin OnPath(cursor) => tree[j][c] = None
      BY <1>1, <2>3, <2>4, DrainedHome
    <3>3. \A j \in Buckets : tree'[j][c] # None <=> j = k
      BY <2>1, <2>3, <2>4, <3>1, <3>2
    <3> QED
      BY <2>2, <2>4, <3>1, <3>2, <3>3 DEF Home, OnPath
  <2>5. CASE place[c] = 0 /\ st[c] # None
    <3>1. posmap[c] # None /\ \A j \in Buckets : j \notin OnPath(cursor) => tree[j][c] = None
      BY <1>1, <2>5, DrainedHome
    <3> QED
      BY <2>1, <2>2, <2>5, <3>1 DEF Home
  <2>6. CASE place[c] = 0 /\ st[c] = None
    <3>1. stash[c] = None /\ \A k \in Buckets : tree'[k][c] = tree[k][c]
      BY <1>1, <2>1, <2>6, DrainedHome
    <3>2. Home(c)
      BY DEF HomeInv
    <3> QED
      BY <2>2, <2>6, <3>1, <3>2 DEF Home, OnPath
  <2> QED
    BY <2>4, <2>5, <2>6
<1> QED
  BY <1>3, <1>4

(* A step that leaves the position map, the stash, the mirror and the tree *)
(* alone leaves every block where it is.                                   *)
LEMMA HomeFrame ==
  ASSUME HomeInv, UNCHANGED <<posmap, stash, cache, tree>>
  PROVE  CacheMirrorsBackend' /\ \A c \in Blocks : Home(c)'
  BY DEF HomeInv, CacheMirrorsBackend, Home, OnPath

(* read's expect never fires: the block is in the stash or on its path. *)
LEMMA ReadFindsItsBlock ==
  ASSUME HomeInv, NEW op, NEW b \in Blocks
  PROVE  ~MissingBlockPanics(op, b)
<1> SUFFICES ASSUME MissingBlockPanics(op, b) PROVE FALSE
  OBVIOUS
<1>1. posmap[b] \in Leaves /\ Drained(posmap[b])[b] = None
  BY DEF MissingBlockPanics, HomeInv, TypeInv, TypeOK
<1>2. stash[b] = None /\ \A k \in Buckets : k \in OnPath(posmap[b]) => tree[k][b] = None
  BY <1>1, DrainedHome
<1>3. Home(b)
  BY DEF HomeInv
<1> QED
  BY <1>2, <1>3 DEF MissingBlockPanics, Home

LEMMA HomeInit == Init => HomeInv
<1> SUFFICES ASSUME Init PROVE HomeInv
  OBVIOUS
<1>1. TypeInv
  BY TypeInit
<1>2. CacheMirrorsBackend
  BY PathAssumption DEF Init, CacheMirrorsBackend
<1>3. \A b \in Blocks : Home(b)
  BY DEF Init, Home, Dummies
<1> QED
  BY <1>1, <1>2, <1>3 DEF HomeInv

LEMMA HomeStep == HomeInv /\ [Next]_vars => HomeInv'
<1> SUFFICES ASSUME HomeInv, [Next]_vars PROVE HomeInv'
  OBVIOUS
<1>t. TypeOK /\ CacheMirrorsBackend
  BY DEF HomeInv, TypeInv
<1>c. CallOK
  BY DEF HomeInv, TypeInv
<1>p. TypeInv'
  BY TypeStep DEF HomeInv, FaultyNext
<1> SUFFICES CacheMirrorsBackend' /\ \A c \in Blocks : Home(c)'
  BY <1>p DEF HomeInv
<1>1. ASSUME NEW b \in Blocks, NEW v \in Values, Admit(b, v)
      PROVE  CacheMirrorsBackend' /\ \A c \in Blocks : Home(c)'
  <2>1. CacheMirrorsBackend'
    BY <1>1, <1>t DEF Admit, CacheMirrorsBackend
  <2>2. ASSUME NEW c \in Blocks PROVE Home(c)'
    <3>1. Home(c)
      BY DEF HomeInv
    <3>2. CASE c = b
      <4>1. posmap'[c] \in Leaves /\ stash'[c] = v
        BY <1>1, <1>t, <3>2 DEF Admit, TypeOK, Content
      <4>2. posmap'[c] # None /\ stash'[c] # None
        BY <4>1, SentinelAssumption DEF Leaves
      <4>3. \A k \in Buckets : tree'[k][c] = None
        BY <1>1, <3>1, <3>2 DEF Admit, Home
      <4> QED
        BY <4>2, <4>3 DEF Home
    <3>3. CASE c # b
      <4>1. posmap'[c] = posmap[c] /\ stash'[c] = stash[c] /\ tree' = tree
        BY <1>1, <1>t, <3>3 DEF Admit, TypeOK, Content
      <4> QED
        BY <3>1, <4>1 DEF Home, OnPath
    <3> QED
      BY <3>2, <3>3
  <2> QED
    BY <2>1, <2>2
<1>2. ASSUME NEW op, NEW b \in Blocks, NEW v, Access(op, b, v)
      PROVE  CacheMirrorsBackend' /\ \A c \in Blocks : Home(c)'
  BY <1>2, HomeAccess DEF Access
<1>3. ASSUME NEW op, NEW b \in Blocks, MissingBlockPanics(op, b) PROVE FALSE
  BY <1>3, ReadFindsItsBlock
<1>4. CASE EvictPath
  BY <1>4, HomeEvict DEF EvictPath
<1>5. CASE ReturnWrite
  <2>1. CacheMirrorsBackend'
    BY <1>5, <1>t DEF ReturnWrite, CacheMirrorsBackend
  <2>2. ASSUME NEW c \in Blocks PROVE Home(c)'
    <3>1. Home(c) /\ posmap' = posmap /\ tree' = tree
      BY <1>5 DEF HomeInv, ReturnWrite
    <3>2. CASE stash[c] = None
      BY <1>5, <1>t, <3>1, <3>2 DEF ReturnWrite, TypeOK, Content, Home, OnPath
    <3>3. CASE stash[c] # None
      <4>1. call.new # None
        BY <1>5, <1>c, SentinelAssumption DEF ReturnWrite, CallOK
      <4>2. stash'[c] # None
        BY <1>5, <1>t, <3>3, <4>1 DEF ReturnWrite, TypeOK, Content
      <4> QED
        BY <3>1, <3>3, <4>2 DEF Home
    <3> QED
      BY <3>2, <3>3
  <2> QED
    BY <2>1, <2>2
<1>6. ASSUME NEW op, NEW b, RejectSize(op, b) \/ RejectUnknown(op, b)
      PROVE  UNCHANGED <<posmap, stash, cache, tree>>
  BY <1>6 DEF RejectSize, RejectUnknown, clientVars
<1>7. SetDeferEvictions \/ FlushEvictions \/ ReturnAdmit \/ ReturnRead \/ WritePanics
        \/ UNCHANGED vars
      => UNCHANGED <<posmap, stash, cache, tree>>
  BY DEF SetDeferEvictions, FlushEvictions, ReturnAdmit, ReturnRead, WritePanics,
         clientVars, vars
<1>8. CASE Lookups
  BY <1>8, <1>1, <1>2, <1>3, <1>6, <1>7, HomeFrame DEF Lookups, Read
<1>9. CASE Overwrites
  BY <1>9, <1>2, <1>3, <1>6, HomeFrame DEF Overwrites, Write
<1>10. CASE Step
  BY <1>10, <1>4, <1>5, <1>7, HomeFrame DEF Step
<1> QED
  BY <1>7, <1>8, <1>9, <1>10, HomeFrame DEF Next

(* Over a backend that does what it is asked, every admitted block is in   *)
(* the stash or in exactly one bucket of the path posmap gives for it,     *)
(* after every step of admit, read, write, evict_path and flush_evictions. *)
THEOREM OneHomeHolds == Spec => []OneHome
<1>1. HomeInv => OneHome
  BY HomeIsOneHome DEF HomeInv, TypeInv
<1> QED
  BY <1>1, HomeInit, HomeStep, PTL DEF Spec

(* ... and the treetop mirror never differs from the backend. *)
THEOREM CacheMirrorsBackendHolds == Spec => []CacheMirrorsBackend
<1>1. HomeInv => CacheMirrorsBackend
  BY DEF HomeInv
<1> QED
  BY <1>1, HomeInit, HomeStep, PTL DEF Spec

-----------------------------------------------------------------------------
(***************************************************************************)
(* Over a reliable backend the Ring-ORAM client is a block store: every    *)
(* copy of a block carries its latest payload, reads return it, and each   *)
(* step of the client is a step of BlockStore or invisible to the caller.  *)
(***************************************************************************)

(* Every copy of b, in the stash or in the tree, is the latest one, and    *)
(* the position map knows exactly the blocks that have one.                *)
Current(b) ==
  /\ posmap[b] = None <=> latest[b] = None
  /\ stash[b] # None => stash[b] = latest[b]
  /\ \A k \in Buckets : tree[k][b] # None => tree[k][b] = latest[b]

(* A call in progress concerns a block the position map knows, and a read  *)
(* is about to return that block's latest payload.                         *)
CallCurrent ==
  /\ call.op \in {"admit", "read", "write"} => posmap[call.id] # None
  /\ call.op = "read" => call.out = latest[call.id]

CurrentInv == HomeInv /\ CallCurrent /\ \A b \in Blocks : Current(b)

(* What a drain finds is current. *)
LEMMA DrainedCurrent ==
  ASSUME CurrentInv, NEW leaf \in Leaves, NEW b \in Blocks, Drained(leaf)[b] # None
  PROVE  Drained(leaf)[b] = latest[b]
<1>1. TypeOK /\ CacheMirrorsBackend /\ Current(b)
  BY DEF CurrentInv, HomeInv, TypeInv
<1>2. CASE stash[b] # None
  BY <1>1, <1>2, DrainedFacts DEF Current
<1>3. CASE stash[b] = None
  <2>1. \E k \in OnPath(leaf) : Holds(k, b)
    BY <1>1, <1>3, DrainedFacts
  <2>2. PICK k \in OnPath(leaf) : Drained(leaf)[b] = ReadBucket(k)[b]
    BY <1>1, <1>3, <2>1, DrainedFacts
  <2>3. k \in Buckets /\ Drained(leaf)[b] = tree[k][b]
    BY <1>1, <2>2, PathFacts, ReadsTheTree
  <2> QED
    BY <1>1, <2>3 DEF Current
<1> QED
  BY <1>2, <1>3

LEMMA CurrentInit == Init => CurrentInv
<1> SUFFICES ASSUME Init PROVE CurrentInv
  OBVIOUS
<1>1. HomeInv
  BY HomeInit
<1>2. \A b \in Blocks : Current(b)
  BY DEF Init, Current, Dummies
<1>3. CallCurrent
  BY DEF Init, CallCurrent, Idle
<1> QED
  BY <1>1, <1>2, <1>3 DEF CurrentInv

(* The drain and the dummy write of read, and the re-pack of evict_path,   *)
(* move payloads and change none.                                          *)
LEMMA CurrentAccess ==
  ASSUME CurrentInv, NEW b \in Blocks, FetchAndClear(b, Len(Path[posmap[b]])),
         UNCHANGED latest
  PROVE  /\ \A c \in Blocks : Current(c)'
         /\ Drained(posmap[b])[b] = latest[b]
         /\ posmap'[b] # None
<1> DEFINE leaf == posmap[b]
<1>1. TypeOK /\ CacheMirrorsBackend
  BY DEF CurrentInv, HomeInv, TypeInv
<1>2. leaf \in Leaves
  BY <1>1 DEF FetchAndClear, TypeOK
<1>3. \A k \in Buckets :
        tree'[k] = IF k \in OnPath(leaf) THEN [j \in Buckets |-> Dummies][k] ELSE tree[k]
  BY <1>1, <1>2, StoreWholePath DEF FetchAndClear
<1>4. posmap'[b] # None
  BY <1>1, SentinelAssumption DEF FetchAndClear, TypeOK, Leaves
<1>5. ASSUME NEW c \in Blocks PROVE Current(c)'
  <2>1. Current(c) /\ Current(b)
    BY DEF CurrentInv
  <2>2. posmap'[c] = None <=> posmap[c] = None
    BY <1>1, <1>4 DEF FetchAndClear, TypeOK
  <2>3. stash'[c] = Drained(leaf)[c]
    BY DEF FetchAndClear
  <2>4. \A k \in Buckets : tree'[k][c] = None \/ tree'[k][c] = tree[k][c]
    BY <1>3 DEF Dummies
  <2> QED
    BY <1>2, <2>1, <2>2, <2>3, <2>4, DrainedCurrent DEF Current
<1>6. Drained(leaf)[b] = latest[b]
  BY <1>2, DrainedCurrent DEF FetchAndClear
<1> QED
  BY <1>4, <1>5, <1>6

LEMMA CurrentEvict ==
  ASSUME CurrentInv, Repack(Len(Path[cursor])), UNCHANGED <<posmap, latest>>
  PROVE  \A c \in Blocks : Current(c)'
<1> DEFINE st == Drained(cursor)
<1>1. TypeOK /\ CacheMirrorsBackend /\ cursor \in Leaves
  BY DEF CurrentInv, HomeInv, TypeInv, TypeOK
<1>2. PICK place \in Placements(cursor, st) :
        /\ stash' = [b \in Blocks |-> IF place[b] = 0 THEN st[b] ELSE None]
        /\ StorePath(cursor, Packed(cursor, st, place), Len(Path[cursor]))
  BY DEF Repack
<1>3. \A k \in Buckets :
        tree'[k] = IF k \in OnPath(cursor) THEN Packed(cursor, st, place)[k] ELSE tree[k]
  BY <1>1, <1>2, StoreWholePath
<1>4. ASSUME NEW c \in Blocks PROVE Current(c)'
  <2>1. Current(c)
    BY DEF CurrentInv
  <2>2. st[c] # None => st[c] = latest[c]
    BY <1>1, DrainedCurrent
  <2>3. \A k \in Buckets : tree'[k][c] \in {None, st[c], tree[k][c]}
    BY <1>3 DEF Packed
  <2>4. stash'[c] \in {None, st[c]}
    BY <1>2
  <2> QED
    BY <2>1, <2>2, <2>3, <2>4 DEF Current
<1> QED
  BY <1>4

LEMMA CurrentStep == CurrentInv /\ [Next]_vars => CurrentInv'
<1> SUFFICES ASSUME CurrentInv, [Next]_vars PROVE CurrentInv'
  OBVIOUS
<1>t. TypeOK /\ CallOK /\ HomeInv /\ CallCurrent
  BY DEF CurrentInv, HomeInv, TypeInv
<1>p. HomeInv'
  BY HomeStep DEF CurrentInv
<1> SUFFICES CallCurrent' /\ \A c \in Blocks : Current(c)'
  BY <1>p DEF CurrentInv
<1>1. ASSUME NEW b \in Blocks, NEW v \in Values, Admit(b, v)
      PROVE  CallCurrent' /\ \A c \in Blocks : Current(c)'
  <2>1. posmap'[b] # None
    BY <1>1, <1>t, SentinelAssumption DEF Admit, TypeOK, Leaves
  <2>2. CallCurrent'
    BY <1>1, <2>1 DEF Admit, CallCurrent, Idle
  <2>3. ASSUME NEW c \in Blocks PROVE Current(c)'
    <3>1. Current(c) /\ Home(c)
      BY DEF CurrentInv, HomeInv
    <3>2. CASE c = b
      <4>1. stash'[c] = v /\ latest'[c] = v /\ v # None
        BY <1>1, <1>t, <3>2, SentinelAssumption DEF Admit, TypeOK, Content
      <4>2. \A k \in Buckets : tree'[k][c] = None
        BY <1>1, <3>1, <3>2 DEF Admit, Home
      <4> QED
        BY <2>1, <3>2, <4>1, <4>2 DEF Current
    <3>3. CASE c # b
      <4>1. /\ posmap'[c] = posmap[c] /\ stash'[c] = stash[c]
            /\ latest'[c] = latest[c] /\ tree' = tree
        BY <1>1, <1>t, <3>3 DEF Admit, TypeOK, Content
      <4> QED
        BY <3>1, <4>1 DEF Current
    <3> QED
      BY <3>2, <3>3
  <2> QED
    BY <2>2, <2>3
<1>2. ASSUME NEW op, NEW b \in Blocks, NEW v, Access(op, b, v)
      PROVE  CallCurrent' /\ \A c \in Blocks : Current(c)'
  <2>1. /\ \A c \in Blocks : Current(c)'
        /\ Drained(posmap[b])[b] = latest[b]
        /\ posmap'[b] # None
    BY <1>2, CurrentAccess DEF Access
  <2> QED
    BY <1>2, <2>1 DEF Access, CallCurrent
<1>3. CASE EvictPath
  <2>1. \A c \in Blocks : Current(c)'
    BY <1>3, CurrentEvict DEF EvictPath
  <2>2. CallCurrent'
    BY <1>3, <1>t DEF EvictPath, CallCurrent, Idle
  <2> QED
    BY <2>1, <2>2
<1>4. CASE ReturnWrite
  <2>1. CallCurrent'
    BY <1>4 DEF ReturnWrite, CallCurrent, Idle
  <2>2. ASSUME NEW c \in Blocks PROVE Current(c)'
    <3>1. Current(c) /\ Home(c) /\ posmap' = posmap /\ tree' = tree
      BY <1>4 DEF CurrentInv, HomeInv, ReturnWrite
    <3>2. CASE c = call.id
      <4>1. stash'[c] = call.new /\ latest'[c] = call.new /\ call.new # None
        BY <1>4, <1>t, <3>2, SentinelAssumption DEF ReturnWrite, TypeOK, Content, CallOK
      <4>2. posmap[c] # None /\ \A k \in Buckets : tree[k][c] = None
        BY <1>4, <3>1, <3>2 DEF ReturnWrite, Home
      <4> QED
        BY <3>1, <4>1, <4>2 DEF Current
    <3>3. CASE c # call.id
      <4>1. stash'[c] = stash[c] /\ latest'[c] = latest[c]
        BY <1>4, <1>t, <3>3 DEF ReturnWrite, TypeOK, Content
      <4> QED
        BY <3>1, <4>1 DEF Current
    <3> QED
      BY <3>2, <3>3
  <2> QED
    BY <2>1, <2>2
<1>5. ASSUME NEW op, NEW b \in Blocks, MissingBlockPanics(op, b) PROVE FALSE
  BY <1>5, <1>t, ReadFindsItsBlock
<1>6. ASSUME UNCHANGED <<posmap, stash, tree, latest>>,
             call' = call \/ call' = Idle \/ call' = [Idle EXCEPT !.op = "flush"]
      PROVE  CallCurrent' /\ \A c \in Blocks : Current(c)'
  BY <1>6, <1>t DEF CurrentInv, Current, CallCurrent, Idle
<1>7. ASSUME NEW op, NEW b, RejectSize(op, b) \/ RejectUnknown(op, b)
      PROVE  CallCurrent' /\ \A c \in Blocks : Current(c)'
  BY <1>6, <1>7 DEF RejectSize, RejectUnknown, clientVars
<1>8. ASSUME SetDeferEvictions \/ FlushEvictions \/ ReturnAdmit \/ ReturnRead
               \/ WritePanics \/ UNCHANGED vars
      PROVE  CallCurrent' /\ \A c \in Blocks : Current(c)'
  BY <1>6, <1>8 DEF SetDeferEvictions, FlushEvictions, ReturnAdmit, ReturnRead,
                    WritePanics, clientVars, vars
<1>9. CASE Lookups
  BY <1>9, <1>1, <1>2, <1>5, <1>7, <1>8 DEF Lookups, Read
<1>10. CASE Overwrites
  BY <1>10, <1>2, <1>5, <1>7 DEF Overwrites, Write
<1>11. CASE Step
  BY <1>11, <1>3, <1>4, <1>8 DEF Step
<1> QED
  BY <1>8, <1>9, <1>10, <1>11 DEF Next

(* Over a reliable backend a read returns the payload last stored under    *)
(* its id, by admit or by a write that returned, wherever drains and       *)
(* evictions have moved the block meanwhile.                               *)
THEOREM ReadsCurrentHolds == Spec => []ReadsCurrent
<1>1. CurrentInv => ReadsCurrent
  BY DEF CurrentInv, CallCurrent, ReadsCurrent
<1> QED
  BY <1>1, CurrentInit, CurrentStep, PTL DEF Spec

-----------------------------------------------------------------------------
(* The block store *)

(* What a caller can see of a block: nothing until its admission returns. *)
LEMMA Visible ==
  ASSUME NEW b \in Blocks
  PROVE  VisibleStore[b] = IF AdmissionInFlight(b) THEN None ELSE latest[b]
  BY DEF VisibleStore

LEMMA StoreInit == Init => Abstract!SInit
  BY DEF Init, Abstract!SInit, VisibleStore, AdmissionInFlight, Idle, Dummies,
         NoReply, Answer, Abstract!NoReply

LEMMA StoreStep == CurrentInv /\ [Next]_vars => [Abstract!SNext]_(Abstract!storeVars)
<1> SUFFICES ASSUME CurrentInv, [Next]_vars
             PROVE  Abstract!SNext \/ UNCHANGED <<VisibleStore, reply>>
  BY DEF Abstract!storeVars
<1>t. TypeOK /\ CallOK /\ HomeInv /\ CallCurrent /\ \A b \in Blocks : Current(b)
  BY DEF CurrentInv, HomeInv, TypeInv
<1> DEFINE Quiet == UNCHANGED <<VisibleStore, reply>>
           Silent == /\ latest' = latest
                     /\ \A b \in Blocks : AdmissionInFlight(b)' <=> AdmissionInFlight(b)
<1>s. Silent => VisibleStore' = VisibleStore
  BY DEF VisibleStore
<1>f. ASSUME NEW op \in {"admit", "read", "write"}, NEW b \in Blocks,
             NEW st \in {"unknown", "size", "panic"},
             st = "unknown" => VisibleStore[b] = None, st = "panic" => op = "write",
             VisibleStore' = VisibleStore, reply' = Answer(op, b, None, st)
      PROVE  Abstract!SNext
  BY <1>f DEF Abstract!SNext, Abstract!SFail, Answer, Abstract!Answer
<1>1. ASSUME NEW b \in Blocks, NEW v \in Values, Admit(b, v) PROVE Quiet
  <2>1. call = Idle /\ latest[b] = None /\ reply' = reply
    BY <1>1, <1>t DEF Admit, CallOK, Current
  <2>2. ASSUME NEW c \in Blocks
        PROVE  (IF AdmissionInFlight(c)' THEN None ELSE latest'[c])
                 = (IF AdmissionInFlight(c) THEN None ELSE latest[c])
    <3>1. ~AdmissionInFlight(c)
      BY <2>1 DEF AdmissionInFlight, Idle
    <3>2. AdmissionInFlight(c)' <=> c = b
      BY <1>1 DEF Admit, AdmissionInFlight, Idle
    <3>3. c # b => latest'[c] = latest[c]
      BY <1>1, <1>t DEF Admit, TypeOK, Content
    <3> QED
      BY <2>1, <3>1, <3>2, <3>3
  <2> QED
    BY <2>1, <2>2 DEF VisibleStore
<1>2. ASSUME NEW op \in {"admit", "write"}, NEW b \in Blocks, RejectSize(op, b)
      PROVE  Abstract!SNext
  <2>1. Silent
    BY <1>2 DEF RejectSize, AdmissionInFlight
  <2> QED
    BY <1>2, <1>s, <1>f, <2>1 DEF RejectSize
<1>3. ASSUME NEW op \in {"read", "write"}, NEW b \in Blocks, RejectUnknown(op, b)
      PROVE  Abstract!SNext
  <2>1. Silent
    BY <1>3 DEF RejectUnknown, AdmissionInFlight
  <2>2. VisibleStore[b] = None
    BY <1>3, <1>t, Visible DEF RejectUnknown, Current
  <2> QED
    BY <1>3, <1>s, <1>f, <2>1, <2>2 DEF RejectUnknown
<1>4. ASSUME NEW op \in {"read", "write"}, NEW b \in Blocks, NEW v, Access(op, b, v)
      PROVE  Quiet
  <2>1. call = Idle
    BY <1>4, <1>t DEF Access, FetchAndClear, CallOK
  <2>2. Silent
    BY <1>4, <2>1 DEF Access, AdmissionInFlight, Idle
  <2> QED
    BY <1>4, <1>s, <2>2 DEF Access
<1>5. ASSUME NEW op, NEW b \in Blocks, MissingBlockPanics(op, b) PROVE FALSE
  BY <1>5, <1>t, ReadFindsItsBlock
<1>6. CASE SetDeferEvictions \/ FlushEvictions \/ UNCHANGED vars
  <2>1. Silent /\ reply' = reply
    BY <1>6, <1>t DEF SetDeferEvictions, FlushEvictions, vars, AdmissionInFlight, CallOK, Idle
  <2> QED
    BY <1>s, <2>1
<1>7. CASE EvictPath
  <2>1. Silent /\ reply' = reply
    BY <1>7, <1>t DEF EvictPath, AdmissionInFlight, Idle
  <2> QED
    BY <1>s, <2>1
<1>8. CASE ReturnAdmit
  <2> DEFINE b == call.id
  <2>1. b \in Blocks /\ latest[b] \in Values
    BY <1>8, <1>t DEF ReturnAdmit, CallOK, CallCurrent, Current, TypeOK, Content, Payload
  <2>2. VisibleStore[b] = None
    BY <1>8, <2>1, Visible DEF ReturnAdmit, AdmissionInFlight
  <2>3. VisibleStore' = [VisibleStore EXCEPT ![b] = latest[b]]
    BY <1>8, <2>1 DEF ReturnAdmit, VisibleStore, AdmissionInFlight, Idle
  <2>4. Abstract!SAdmit(b, latest[b])
    BY <1>8, <2>2, <2>3 DEF ReturnAdmit, Abstract!SAdmit, Answer, Abstract!Answer
  <2> QED
    BY <2>1, <2>4 DEF Abstract!SNext
<1>9. CASE ReturnRead
  <2> DEFINE b == call.id
  <2>1. b \in Blocks /\ latest[b] # None /\ call.out = latest[b]
    BY <1>9, <1>t DEF ReturnRead, CallOK, CallCurrent, Current
  <2>2. Silent
    BY <1>9 DEF ReturnRead, AdmissionInFlight, Idle
  <2>3. VisibleStore[b] = latest[b]
    BY <1>9, <2>1, Visible DEF ReturnRead, AdmissionInFlight
  <2>4. Abstract!SRead(b)
    BY <1>9, <1>s, <2>1, <2>2, <2>3 DEF ReturnRead, Abstract!SRead, Answer, Abstract!Answer
  <2> QED
    BY <2>1, <2>4 DEF Abstract!SNext
<1>10. CASE ReturnWrite
  <2> DEFINE b == call.id
  <2>1. b \in Blocks /\ latest[b] # None /\ call.new \in Values
    BY <1>10, <1>t DEF ReturnWrite, CallOK, CallCurrent, Current
  <2>2. VisibleStore[b] = latest[b]
    BY <1>10, <2>1, Visible DEF ReturnWrite, AdmissionInFlight
  <2>3. VisibleStore' = [VisibleStore EXCEPT ![b] = call.new]
    BY <1>10, <1>t, <2>1 DEF ReturnWrite, VisibleStore, AdmissionInFlight, Idle, TypeOK, Content
  <2>4. Abstract!SWrite(b, call.new)
    BY <1>10, <2>1, <2>2, <2>3 DEF ReturnWrite, Abstract!SWrite, Answer, Abstract!Answer
  <2> QED
    BY <2>1, <2>4 DEF Abstract!SNext
<1>11. CASE WritePanics
  <2>1. Silent /\ call.id \in Blocks
    BY <1>11, <1>t DEF WritePanics, AdmissionInFlight, Idle, CallOK
  <2> QED
    BY <1>11, <1>s, <1>f, <2>1 DEF WritePanics
<1>12. CASE Lookups
  BY <1>12, <1>1, <1>2, <1>3, <1>4, <1>5, <1>6 DEF Lookups, Read
<1>13. CASE Overwrites
  BY <1>13, <1>2, <1>3, <1>4, <1>5 DEF Overwrites, Write
<1>14. CASE Step
  BY <1>14, <1>7, <1>8, <1>9, <1>10, <1>11 DEF Step
<1> QED
  BY <1>6, <1>12, <1>13, <1>14 DEF Next

(* Over a reliable backend the client implements BlockStore: admit, read   *)
(* and write behave as on a plain map, and stash, paths and evictions are  *)
(* invisible.  (A write whose inline eviction has moved its block fails    *)
(* without effect: BlockStore allows a failure, WriteFindsItsBlock does    *)
(* not.)                                                                   *)
THEOREM ImplementsBlockStoreHolds == Spec => ImplementsBlockStore
  BY StoreInit, StoreStep, CurrentInit, CurrentStep, PTL
     DEF Spec, ImplementsBlockStore, Abstract!SSpec

-----------------------------------------------------------------------------
(***************************************************************************)
(* What holds of the Ring-ORAM client however the backend fails: buckets   *)
(* never overflow, a block is lost only by an eviction, and no nonce is    *)
(* used twice while the write counters have not wrapped.                   *)
(***************************************************************************)

(* The inductive invariant of RingOramProofs holds here too. *)
LEMMA TypeInvHolds == FaultySpec => []TypeInv
  BY TypeInit, TypeStep, PTL DEF FaultySpec

(* The steps that write the tree or the mirror are the four that go        *)
(* through FetchAndClear or Repack.                                        *)
LEMMA Writers ==
  ASSUME [FaultyNext]_vars
  PROVE  \/ \E b \in Blocks : \E n : FetchAndClear(b, n)
         \/ pc = "evict" /\ \E n : Repack(n)
         \/ UNCHANGED <<cache, tree, counters, sealed>>
<1>1. ASSUME NEW op, NEW b \in Blocks, NEW v, Access(op, b, v)
      PROVE  \E c \in Blocks : \E n : FetchAndClear(c, n)
  BY <1>1 DEF Access
<1>2. ASSUME NEW op, NEW b \in Blocks, ClearFails(op, b)
      PROVE  \E c \in Blocks : \E n : FetchAndClear(c, n)
  BY <1>2 DEF ClearFails
<1>3. EvictPath \/ EvictStoreFails => pc = "evict" /\ \E n : Repack(n)
  BY DEF EvictPath, EvictStoreFails
<1>4. ASSUME NEW op, NEW b, RejectSize(op, b) \/ RejectUnknown(op, b)
                              \/ MissingBlockPanics(op, b) \/ FetchFails(op, b)
      PROVE  UNCHANGED <<cache, tree, counters, sealed>>
  BY <1>4 DEF RejectSize, RejectUnknown, MissingBlockPanics, FetchFails, clientVars
<1>5. ASSUME NEW b, NEW v, Admit(b, v) PROVE UNCHANGED <<cache, tree, counters, sealed>>
  BY <1>5 DEF Admit
<1>6. SetDeferEvictions \/ FlushEvictions \/ ReturnAdmit \/ ReturnRead \/ ReturnWrite
        \/ WritePanics \/ EvictFetchFails \/ UNCHANGED vars
      => UNCHANGED <<cache, tree, counters, sealed>>
  BY DEF SetDeferEvictions, FlushEvictions, ReturnAdmit, ReturnRead, ReturnWrite,
         WritePanics, EvictFetchFails, clientVars, vars
<1>7. CASE Lookups
  BY <1>7, <1>1, <1>4, <1>5, <1>6 DEF Lookups, Read
<1>8. CASE Overwrites
  BY <1>8, <1>1, <1>4 DEF Overwrites, Write
<1>9. CASE Step
  BY <1>9, <1>3, <1>6 DEF Step
<1>10. CASE ReadFaults \/ WriteFaults
  BY <1>10, <1>2, <1>3, <1>4, <1>6 DEF ReadFaults, WriteFaults
<1> QED
  BY <1>6, <1>7, <1>8, <1>9, <1>10 DEF FaultyNext, Next

-----------------------------------------------------------------------------
(* Capacity *)

Fits(slots) == Cardinality({b \in Blocks : slots[b] # None}) <= Z

CapacityInv ==
  /\ \A k \in Buckets : Fits(tree[k])
  /\ \A k \in Treetop : Fits(cache[k])

LEMMA DummiesFit == Fits(Dummies)
<1>1. {b \in Blocks : Dummies[b] # None} = {}
  BY DEF Dummies
<1> QED
  BY <1>1, FS_EmptySet, ParamsAssumption DEF Fits

(* A path write puts into a bucket either the content it was given or      *)
(* nothing new.                                                            *)
LEMMA StoreFits ==
  ASSUME CapacityInv, NEW leaf \in Leaves, NEW content, NEW n,
         \A k \in OnPath(leaf) : Fits(content[k]), StorePath(leaf, content, n)
  PROVE  CapacityInv'
<1>1. ASSUME NEW k \in Buckets PROVE Fits(tree'[k])
  BY <1>1 DEF StorePath, CapacityInv, OnPath
<1>2. ASSUME NEW k \in Treetop PROVE Fits(cache'[k])
  BY <1>2 DEF StorePath, CapacityInv
<1> QED
  BY <1>1, <1>2 DEF CapacityInv, Fits

(* The greedy re-pack stops at z blocks per bucket, and a path visits a    *)
(* bucket at one depth only.                                               *)
LEMMA PackedFits ==
  ASSUME NEW leaf \in Leaves, NEW st, NEW place \in Placements(leaf, st),
         NEW k \in OnPath(leaf)
  PROVE  Fits(Packed(leaf, st, place)[k])
<1>1. PICK i \in DOMAIN Path[leaf] : Path[leaf][i] = k
  BY DEF OnPath
<1>2. k \in Buckets
  BY PathFacts
<1> DEFINE In == {b \in Blocks : Packed(leaf, st, place)[k][b] # None}
           At == {c \in Blocks : place[c] = i}
<1>3. In \subseteq At
  <2> SUFFICES ASSUME NEW b \in In PROVE place[b] = i
    OBVIOUS
  <2>1. place[b] # 0 /\ Path[leaf][place[b]] = k
    BY <1>2 DEF Packed
  <2>2. place[b] \in DOMAIN Path[leaf]
    BY <2>1, PathFacts DEF Placements
  <2> QED
    BY <1>1, <2>1, <2>2, PathAssumption DEF Leaves
<1>4. Cardinality(At) <= Z
  BY <1>1 DEF Placements
<1>5. IsFiniteSet(At)
  BY BlocksAssumption, FS_Subset
<1>6. Cardinality(In) <= Cardinality(At) /\ IsFiniteSet(In)
  BY <1>3, <1>5, FS_Subset
<1>7. Cardinality(In) \in Nat /\ Cardinality(At) \in Nat
  BY <1>5, <1>6, FS_CardinalityType
<1> QED
  BY <1>4, <1>6, <1>7, ParamsAssumption DEF Fits

LEMMA CapacityStep == TypeInv /\ CapacityInv /\ [FaultyNext]_vars => CapacityInv'
<1> SUFFICES ASSUME TypeInv, CapacityInv, [FaultyNext]_vars PROVE CapacityInv'
  OBVIOUS
<1>1. ASSUME NEW b \in Blocks, NEW n, FetchAndClear(b, n) PROVE CapacityInv'
  <2>1. posmap[b] \in Leaves
    BY <1>1 DEF FetchAndClear, TypeInv, TypeOK
  <2>2. \A k \in OnPath(posmap[b]) : Fits([j \in Buckets |-> Dummies][k])
    BY <2>1, DummiesFit, PathFacts
  <2> QED
    BY <1>1, <2>1, <2>2, StoreFits DEF FetchAndClear
<1>2. ASSUME NEW n, Repack(n) PROVE CapacityInv'
  <2>1. cursor \in Leaves
    BY DEF TypeInv, TypeOK
  <2>2. PICK place \in Placements(cursor, Drained(cursor)) :
          StorePath(cursor, Packed(cursor, Drained(cursor), place), n)
    BY <1>2 DEF Repack
  <2>3. \A k \in OnPath(cursor) : Fits(Packed(cursor, Drained(cursor), place)[k])
    BY <2>1, <2>2, PackedFits
  <2> QED
    BY <2>1, <2>2, <2>3, StoreFits
<1>3. CASE UNCHANGED <<cache, tree, counters, sealed>>
  BY <1>3 DEF CapacityInv, Fits
<1> QED
  BY <1>1, <1>2, <1>3, Writers

(* No bucket ever holds more than Z real blocks, on the backend or in the  *)
(* treetop mirror, whatever batches failed half way: evict_path packs at   *)
(* most z blocks into a bucket, so padding up to Z + S always has room.    *)
THEOREM BucketCapacityHolds == FaultySpec => []BucketCapacity
<1>1. Init => CapacityInv
  BY DummiesFit DEF Init, CapacityInv
<1>2. CapacityInv => BucketCapacity
  BY DEF CapacityInv, Fits, BucketCapacity, ReadBucket
<1> QED
  BY <1>1, <1>2, CapacityStep, TypeInvHolds, PTL DEF FaultySpec

-----------------------------------------------------------------------------
(* Nonces *)

(* Counters used for a bucket are not above the current one, and a call    *)
(* that still has evictions to run has room for the bumps they make.       *)
NonceInv ==
  \A k \in Buckets :
    /\ ~sealed[k].twice
    /\ \A c \in sealed[k].used : c <= counters[k]
    /\ pc = "evict" =>
         counters[k] + (IF call.op = "flush" THEN pending ELSE 1) < CounterMod

Unused == \A k \in Buckets : ~sealed[k].twice /\ \A c \in sealed[k].used : c <= counters[k]

(* A path write moves a counter up by one or not at all, and seals under   *)
(* the new value only.                                                     *)
LEMMA Bump ==
  ASSUME TypeOK, NEW leaf \in Leaves, NEW content, NEW n, StorePath(leaf, content, n),
         \A k \in Buckets : counters[k] + 1 < CounterMod, Unused
  PROVE  Unused' /\ \A k \in Buckets : counters'[k] \in {counters[k], counters[k] + 1}
<1> SUFFICES ASSUME NEW k \in Buckets
             PROVE  /\ counters'[k] \in {counters[k], counters[k] + 1}
                    /\ ~sealed'[k].twice
                    /\ \A c \in sealed'[k].used : c <= counters'[k]
  BY DEF Unused
<1>1. counters[k] \in Nat /\ sealed[k].used \subseteq Nat /\ CounterMod \in Nat
  BY ParamsAssumption DEF TypeOK
<1>2. (counters[k] + 1) % CounterMod = counters[k] + 1
  <2>1. counters[k] + 1 \in Nat /\ CounterMod > 0 /\ counters[k] + 1 < CounterMod
    BY <1>1
  <2> QED
    BY <1>1, <2>1, Modulo
<1>3. counters'[k] = IF k \in OnPath(leaf) THEN counters[k] + 1 ELSE counters[k]
  BY <1>2 DEF StorePath, Bumped
<1>4. k \in OnPath(leaf) => /\ sealed'[k].used = sealed[k].used \cup {counters[k] + 1}
                            /\ sealed'[k].twice <=> counters[k] + 1 \in sealed[k].used
  BY <1>2 DEF StorePath, Bumped, Sealed, Unused
<1>5. k \notin OnPath(leaf) => sealed'[k] = sealed[k]
  BY DEF StorePath
<1>6. counters[k] + 1 \notin sealed[k].used
  BY <1>1 DEF Unused
<1> QED
  BY <1>1, <1>3, <1>4, <1>5, <1>6 DEF Unused

LEMMA NonceStep ==
  ASSUME ~LongLived
  PROVE  TypeInv /\ NonceInv /\ [FaultyNext]_vars => NonceInv'
<1> SUFFICES ASSUME TypeInv, NonceInv, [FaultyNext]_vars PROVE NonceInv'
  OBVIOUS
<1>t. /\ TypeOK /\ FlushHasWork /\ CallOK
      /\ CounterMod \in Nat /\ pending \in Nat
      /\ \A k \in Buckets : counters[k] \in Nat
  BY ParamsAssumption DEF TypeInv, TypeOK
<1>r. Room => \A k \in Buckets : counters[k] + pending + 2 < CounterMod
  BY DEF Room
<1>1. ASSUME NEW b \in Blocks, NEW n, FetchAndClear(b, n)
      PROVE  Unused' /\ \A k \in Buckets : counters'[k] + 1 < CounterMod
  <2>1. posmap[b] \in Leaves /\ Room /\ StorePath(posmap[b], [k \in Buckets |-> Dummies], n)
    BY <1>1, <1>t DEF FetchAndClear, TypeOK
  <2>2. \A k \in Buckets : counters[k] + 1 < CounterMod /\ counters[k] + 2 < CounterMod
    BY <1>t, <1>r, <2>1
  <2>3. Unused
    BY DEF NonceInv, Unused
  <2>4. Unused' /\ \A k \in Buckets : counters'[k] \in {counters[k], counters[k] + 1}
    BY <1>t, <2>1, <2>2, <2>3, Bump
  <2> QED
    BY <1>t, <2>2, <2>4
<1>2. ASSUME NEW n, pc = "evict", Repack(n)
      PROVE  Unused' /\ \A k \in Buckets : counters'[k] \in {counters[k], counters[k] + 1}
  <2>1. PICK content : cursor \in Leaves /\ StorePath(cursor, content, n)
    BY <1>2, <1>t DEF Repack, TypeOK
  <2>2. \A k \in Buckets : counters[k] + 1 < CounterMod
    BY <1>2, <1>t DEF NonceInv, FlushHasWork
  <2>3. Unused
    BY DEF NonceInv, Unused
  <2> QED
    BY <1>t, <2>1, <2>2, <2>3, Bump
<1>3. ASSUME NEW op \in {"read", "write"}, NEW b \in Blocks, NEW v, Access(op, b, v)
      PROVE  NonceInv'
  BY <1>3, <1>1 DEF Access, NonceInv, Unused
<1>4. ASSUME NEW op, NEW b \in Blocks, ClearFails(op, b) PROVE NonceInv'
  BY <1>4, <1>1 DEF ClearFails, EndInError, NonceInv, Unused
<1>5. CASE EvictStoreFails
  BY <1>5, <1>2 DEF EvictStoreFails, EndInError, NonceInv, Unused
<1>6. CASE EvictPath
  <2>1. Unused' /\ \A k \in Buckets : counters'[k] \in {counters[k], counters[k] + 1}
    BY <1>6, <1>2 DEF EvictPath
  <2>2. ASSUME pc' = "evict", NEW k \in Buckets
        PROVE  counters'[k] + (IF call'.op = "flush" THEN pending' ELSE 1) < CounterMod
    <3>1. call.op = "flush" /\ call' = call /\ pending' = pending - 1
      BY <1>6, <2>2 DEF EvictPath
    <3>2. counters[k] + pending < CounterMod
      BY <1>6, <3>1 DEF EvictPath, NonceInv
    <3> QED
      BY <1>t, <2>1, <3>1, <3>2
  <2> QED
    BY <2>1, <2>2 DEF NonceInv, Unused
<1>7. ASSUME UNCHANGED <<counters, sealed>>,
             \/ pc' # "evict"
             \/ pc' = "evict" /\ Room /\ (call'.op = "flush" => pending' = pending)
             \/ UNCHANGED <<pc, call, pending>>
      PROVE  NonceInv'
  <2>2. ASSUME pc' = "evict", NEW k \in Buckets
        PROVE  counters'[k] + (IF call'.op = "flush" THEN pending' ELSE 1) < CounterMod
    <3>1. CASE Room /\ (call'.op = "flush" => pending' = pending)
      BY <1>t, <1>r, <1>7, <3>1
    <3>2. CASE UNCHANGED <<pc, call, pending>>
      BY <1>7, <2>2, <3>2 DEF NonceInv
    <3> QED
      BY <1>7, <2>2, <3>1, <3>2
  <2> QED
    BY <1>7, <2>2 DEF NonceInv
<1>8. ASSUME NEW b \in Blocks, NEW v, Admit(b, v) PROVE NonceInv'
  BY <1>7, <1>8 DEF Admit, Idle, MaybeEvict
<1>9. CASE FlushEvictions
  BY <1>7, <1>9 DEF FlushEvictions, clientVars
<1>10. ASSUME NEW op, NEW b, RejectSize(op, b) \/ RejectUnknown(op, b)
                              \/ MissingBlockPanics(op, b) \/ FetchFails(op, b)
       PROVE  NonceInv'
  BY <1>7, <1>10 DEF RejectSize, RejectUnknown, MissingBlockPanics, FetchFails,
                     EndInError, clientVars
<1>11. CASE SetDeferEvictions \/ ReturnAdmit \/ ReturnRead \/ ReturnWrite
              \/ WritePanics \/ EvictFetchFails \/ UNCHANGED vars
  BY <1>7, <1>11 DEF SetDeferEvictions, ReturnAdmit, ReturnRead, ReturnWrite,
                     WritePanics, EvictFetchFails, EndInError, clientVars, vars
<1>12. CASE Lookups
  BY <1>12, <1>3, <1>8, <1>9, <1>10, <1>11 DEF Lookups, Read
<1>13. CASE Overwrites
  BY <1>13, <1>3, <1>10 DEF Overwrites, Write
<1>14. CASE Step
  BY <1>14, <1>6, <1>11 DEF Step
<1>15. CASE ReadFaults \/ WriteFaults
  BY <1>15, <1>4, <1>5, <1>10, <1>11 DEF ReadFaults, WriteFaults
<1> QED
  BY <1>11, <1>12, <1>13, <1>14, <1>15 DEF FaultyNext, Next

(* As long as the client is retired before a write counter can wrap, no    *)
(* bucket is ever sealed twice under one (bucket, counter) nonce, however  *)
(* many batches failed and were made again: the counter moves before the   *)
(* write is attempted, and never back.                                     *)
THEOREM NonceFreshHolds ==
  ASSUME ~LongLived
  PROVE  FaultySpec => []NonceFresh
<1>1. Init => NonceInv
  BY DEF Init, NonceInv
<1>2. TypeInv /\ NonceInv /\ [FaultyNext]_vars => NonceInv'
  BY NonceStep
<1>3. NonceInv => NonceFresh
  BY DEF NonceInv, NonceFresh
<1> QED
  BY <1>1, <1>2, <1>3, TypeInvHolds, PTL DEF FaultySpec

-----------------------------------------------------------------------------
(* Reachability *)

Kept == \A b \in Blocks : Reachable(b) /\ ~Reachable(b)' => pc = "evict"

(* Draining the path of b and clearing it keeps every block reachable,     *)
(* whatever part of the dummy write arrives: what was on the path is in    *)
(* the stash by then.                                                      *)
LEMMA ClearKeeps ==
  ASSUME TypeOK, NEW b \in Blocks, NEW n, FetchAndClear(b, n),
         NEW c \in Blocks, Reachable(c)
  PROVE  Reachable(c)'
<1> DEFINE leaf == posmap[b]
<1>1. leaf \in Leaves /\ stash' = Drained(leaf)
  BY DEF FetchAndClear, TypeOK
<1>2. CASE Drained(leaf)[c] # None
  BY <1>1, <1>2 DEF Reachable
<1>3. CASE Drained(leaf)[c] = None
  <2>1. stash[c] = None /\ ~\E k \in OnPath(leaf) : Holds(k, c)
    BY <1>1, <1>3, DrainedFacts
  <2>2. PICK k \in OnPath(posmap[c]) : posmap[c] # None /\ Holds(k, c)
    BY <2>1 DEF Reachable
  <2>3. k \in Buckets /\ k \notin OnPath(leaf)
    BY <2>1, <2>2, PathFacts DEF TypeOK
  <2>4. cache'[k] = cache[k] \/ k \notin Treetop
    BY <2>3 DEF FetchAndClear, StorePath
  <2>5. tree'[k] = tree[k]
    BY <2>3 DEF FetchAndClear, StorePath, OnPath
  <2>6. Holds(k, c)'
    BY <2>2, <2>4, <2>5 DEF Holds, ReadBucket
  <2>7. posmap'[c] = posmap[c]
    BY <1>3 DEF FetchAndClear, TypeOK
  <2> QED
    BY <2>2, <2>6, <2>7 DEF Reachable, OnPath
<1> QED
  BY <1>2, <1>3

LEMMA KeptStep == TypeInv /\ [FaultyNext]_vars => Kept
<1> SUFFICES ASSUME TypeInv, [FaultyNext]_vars, NEW c \in Blocks, Reachable(c),
                    pc # "evict"
             PROVE  Reachable(c)'
  BY DEF Kept
<1>t. TypeOK /\ CallOK
  BY DEF TypeInv
<1>1. ASSUME NEW b \in Blocks, NEW n, FetchAndClear(b, n) PROVE Reachable(c)'
  BY <1>1, <1>t, ClearKeeps
<1>2. ASSUME NEW op, NEW b \in Blocks, NEW v, Access(op, b, v) \/ ClearFails(op, b)
      PROVE  Reachable(c)'
  BY <1>1, <1>2 DEF Access, ClearFails
<1>3. ASSUME UNCHANGED <<posmap, cache, tree>>, stash[c] # None => stash'[c] # None
      PROVE  Reachable(c)'
  BY <1>3 DEF Reachable, Holds, ReadBucket, OnPath
<1>4. ASSUME NEW b \in Blocks, NEW v \in Values, Admit(b, v) PROVE Reachable(c)'
  <2>1. CASE c = b
    BY <1>4, <1>t, <2>1, SentinelAssumption DEF Admit, TypeOK, Content, Reachable
  <2>2. CASE c # b
    <3>1. posmap'[c] = posmap[c] /\ stash'[c] = stash[c] /\ cache' = cache /\ tree' = tree
      BY <1>4, <1>t, <2>2 DEF Admit, TypeOK, Content
    <3> QED
      BY <3>1 DEF Reachable, Holds, ReadBucket, OnPath
  <2> QED
    BY <2>1, <2>2
<1>5. ASSUME NEW op, NEW b \in Blocks, MissingBlockPanics(op, b) PROVE Reachable(c)'
  <2>1. posmap[b] \in Leaves
    BY <1>5, <1>t DEF MissingBlockPanics, TypeOK
  <2>2. stash[c] # None => stash'[c] # None
    BY <1>5, <1>t, <2>1, DrainedFacts DEF MissingBlockPanics
  <2> QED
    BY <1>3, <1>5, <2>2 DEF MissingBlockPanics
<1>6. CASE ReturnWrite
  <2>1. call.new # None
    BY <1>6, <1>t, SentinelAssumption DEF ReturnWrite, CallOK
  <2>2. stash[c] # None => stash'[c] # None
    BY <1>6, <1>t, <2>1 DEF ReturnWrite, TypeOK, Content
  <2> QED
    BY <1>3, <1>6, <2>2 DEF ReturnWrite
<1>7. ASSUME NEW op, NEW b, RejectSize(op, b) \/ RejectUnknown(op, b) \/ FetchFails(op, b)
      PROVE  Reachable(c)'
  BY <1>3, <1>7 DEF RejectSize, RejectUnknown, FetchFails, clientVars
<1>8. CASE SetDeferEvictions \/ FlushEvictions \/ ReturnAdmit \/ ReturnRead
             \/ WritePanics \/ UNCHANGED vars
  BY <1>3, <1>8 DEF SetDeferEvictions, FlushEvictions, ReturnAdmit, ReturnRead,
                    WritePanics, clientVars, vars
<1>9. ~(EvictPath \/ EvictFetchFails \/ EvictStoreFails)
  BY DEF EvictPath, EvictFetchFails, EvictStoreFails
<1>10. CASE Lookups
  BY <1>10, <1>2, <1>4, <1>5, <1>7, <1>8 DEF Lookups, Read
<1>11. CASE Overwrites
  BY <1>11, <1>2, <1>5, <1>7 DEF Overwrites, Write
<1>12. CASE Step
  BY <1>12, <1>6, <1>8, <1>9 DEF Step
<1>13. CASE ReadFaults \/ WriteFaults
  BY <1>13, <1>2, <1>7, <1>9 DEF ReadFaults, WriteFaults
<1> QED
  BY <1>8, <1>10, <1>11, <1>12, <1>13 DEF FaultyNext, Next

(* A block that a read can find becomes unreachable only while evict_path  *)
(* is writing: a read, write, admit or panic, complete or cut short at any *)
(* await, never loses one.                                                 *)
THEOREM OnlyEvictionLosesBlocksHolds == FaultySpec => OnlyEvictionLosesBlocks
<1>1. TypeInv /\ [FaultyNext]_vars => [Kept]_vars
  BY KeptStep
<1>2. [Kept]_vars <=>
        [\A b \in Blocks : Reachable(b) /\ ~Reachable(b)' => pc = "evict"]_vars
  BY DEF Kept
<1> QED
  BY <1>1, <1>2, TypeInvHolds, PTL DEF FaultySpec, OnlyEvictionLosesBlocks
=============================================================================
