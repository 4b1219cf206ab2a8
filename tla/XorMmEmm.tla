------------------------------ MODULE XorMmEmm ------------------------------
(* The encrypted multimap of crates/xormm-emm: a cuckoo table with one entry   *)
(* per bucket and an in-CVM stash.  Buckets are the plaintext they decrypt to; *)
(* the two seeded hashes are arbitrary functions h = <<h1, h2>>.               *)
EXTENDS Integers, Sequences

CONSTANTS NumBuckets, VolumeBound, MaxKicks

ASSUME EmmAssumption ==
    NumBuckets \in Nat \ {0} /\ VolumeBound \in Nat /\ MaxKicks \in Nat

(* BucketPlain::dummy. *)
Dummy == [real |-> FALSE, key |-> 0, values |-> <<>>]

(* A list is cut at volume_bound; the padding is never read back, because the  *)
(* entry carries the count of real values.                                     *)
Prepared(key, values) ==
    [real |-> TRUE, key |-> key,
     values |-> SubSeq(values, 1, IF Len(values) < VolumeBound THEN Len(values) ELSE VolumeBound)]

EmptyTable == [buckets |-> [b \in 0 .. NumBuckets - 1 |-> Dummy], stash |-> {}]

(* Mutant: what is displaced by the last kick is dropped. *)
KickForgetsLast(h, st) ==
    LET target == h[st.which][st.current.key]
        displaced == st.buckets[target]
        filled == [st.buckets EXCEPT ![target] = st.current]
        next == [st EXCEPT !.buckets = filled, !.current = displaced]
    IN IF ~displaced.real \/ st.kicks + 1 > MaxKicks THEN [next EXCEPT !.placed = TRUE]
       ELSE [next EXCEPT !.kicks = @ + 1, !.which = IF target = h[1][displaced.key] THEN 2 ELSE 1]

(* One round of the placement loop: put the current entry at its target; what  *)
(* it displaces goes on to its own other bucket, or to the stash when the      *)
(* kicks are spent.                                                            *)
Kick(h, st) ==
    LET target == h[st.which][st.current.key]
        displaced == st.buckets[target]
        filled == [st.buckets EXCEPT ![target] = st.current]
        next == [st EXCEPT !.buckets = filled, !.current = displaced]
    IN IF ~displaced.real THEN [next EXCEPT !.placed = TRUE]
       ELSE IF st.kicks + 1 > MaxKicks
            THEN [next EXCEPT !.placed = TRUE, !.stash = @ \cup {displaced}]
            ELSE [next EXCEPT !.kicks = @ + 1,
                              !.which = IF target = h[1][displaced.key] THEN 2 ELSE 1]

Place(h, table, entry) ==
    LET start == [buckets |-> table.buckets, stash |-> table.stash, current |-> entry,
                  which |-> 1, kicks |-> 0, placed |-> FALSE]
        after[n \in 0 .. MaxKicks + 1] ==
            IF n = 0 THEN start
            ELSE IF after[n - 1].placed THEN after[n - 1] ELSE Kick(h, after[n - 1])
    IN [buckets |-> after[MaxKicks + 1].buckets, stash |-> after[MaxKicks + 1].stash]

(* XorMmClient::build: lists is a HashMap and order the order it happens to    *)
(* iterate in, cut to its keys.                                                *)
Build(h, lists, order) ==
    LET table[i \in 0 .. Len(order)] ==
            IF i = 0 THEN EmptyTable
            ELSE IF order[i] \in DOMAIN lists
            THEN Place(h, table[i - 1], Prepared(order[i], lists[order[i]]))
            ELSE table[i - 1]
    IN table[Len(order)]

(* XorMmClient::get: the first candidate bucket, the second, the stash.        *)
Get(h, table, key) ==
    LET matching == { e \in {table.buckets[h[1][key]]} : e.real /\ e.key = key }
        second == { e \in {table.buckets[h[2][key]]} : e.real /\ e.key = key }
        stashed == { e \in table.stash : e.key = key }
    IN CASE matching # {} -> (CHOOSE e \in matching : TRUE).values
         [] matching = {} /\ second # {} -> (CHOOSE e \in second : TRUE).values
         [] OTHER -> IF stashed = {} THEN <<>> ELSE (CHOOSE e \in stashed : TRUE).values
=============================================================================
