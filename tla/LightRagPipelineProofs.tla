----------------------- MODULE LightRagPipelineProofs -----------------------
(***************************************************************************)
(* Proofs about the LightRAG routes of one tenant: the multimaps lose no   *)
(* list, the join answers from the graph, and an extracted KG is that of   *)
(* its whole document.                                                     *)
(***************************************************************************)
EXTENDS LightRagPipeline, LoopProofs

-----------------------------------------------------------------------------
(* The multimap.  What build is given are entries; during a placement one  *)
(* of them is in hand.                                                     *)
Slots == 0 .. NumBuckets - 1

Entry(lists, key) == Prepared(key, lists[key])
EntriesOf(lists) == { Entry(lists, key) : key \in DOMAIN lists }

Hashed(h, lists) == \A w \in {1, 2}, key \in DOMAIN lists : h[w][key] \in Slots

Tables(lists) ==
  [buckets : [Slots -> EntriesOf(lists) \cup {Dummy}], stash : SUBSET EntriesOf(lists)]

(* An entry is only ever in a bucket one of its hashes names. *)
InPlace(h, table) ==
  \A b \in Slots : table.buckets[b].real =>
    \E w \in {1, 2} : b = h[w][table.buckets[b].key]

Present(lists, table, key) ==
  \/ Entry(lists, key) \in table.stash
  \/ \E b \in Slots : table.buckets[b] = Entry(lists, key)

Placings(lists) ==
  { st \in [buckets : [Slots -> EntriesOf(lists) \cup {Dummy}], stash : SUBSET EntriesOf(lists),
            current : EntriesOf(lists) \cup {Dummy}, which : {1, 2}, kicks : Nat,
            placed : BOOLEAN] : st.placed \/ st.current \in EntriesOf(lists) }

(* Round i of a placement: nothing of keys is lost, and the kicks are the  *)
(* rounds as long as an entry is in hand.                                  *)
Placing(h, lists, keys, st, i) ==
  /\ InPlace(h, st)
  /\ \A key \in keys : Present(lists, st, key) \/ (~st.placed /\ st.current = Entry(lists, key))
  /\ ~st.placed => st.kicks = i /\ i <= MaxKicks

LEMMA EntryFacts ==
  ASSUME NEW lists
  PROVE  /\ ~Dummy.real
         /\ \A e \in EntriesOf(lists) :
              e.real /\ e.key \in DOMAIN lists /\ e = Entry(lists, e.key)
         /\ \A key \in DOMAIN lists :
              Entry(lists, key) \in EntriesOf(lists) /\ Entry(lists, key).key = key
<1>1. ~Dummy.real
  BY DEF Dummy
<1>2. \A key : Entry(lists, key).real /\ Entry(lists, key).key = key
  BY DEF Entry, Prepared
<1> QED
  BY <1>1, <1>2 DEF EntriesOf

LEMMA KickKeeps ==
  ASSUME NEW h, NEW lists, Hashed(h, lists), NEW keys \in SUBSET DOMAIN lists,
         NEW st \in Placings(lists), ~st.placed, NEW i \in Nat, Placing(h, lists, keys, st, i)
  PROVE  /\ Kick(h, st) \in Placings(lists)
         /\ Placing(h, lists, keys, Kick(h, st), i + 1)
<1> DEFINE target == h[st.which][st.current.key]
           displaced == st.buckets[target]
           filled == [st.buckets EXCEPT ![target] = st.current]
           moved == [st EXCEPT !.buckets = filled, !.current = displaced]
           Full == EntriesOf(lists) \cup {Dummy}
<1>1. /\ st.buckets \in [Slots -> Full] /\ st.stash \in SUBSET EntriesOf(lists)
      /\ st.current \in EntriesOf(lists) /\ st.which \in {1, 2} /\ st.kicks = i /\ i <= MaxKicks
      /\ st.placed \in BOOLEAN
  BY DEF Placings, Placing
<1>0. st = [buckets |-> st.buckets, stash |-> st.stash, current |-> st.current,
            which |-> st.which, kicks |-> st.kicks, placed |-> st.placed]
  BY DEF Placings
<1>2. target \in Slots /\ st.current.real
  BY <1>1, EntryFacts DEF Hashed
<1>3. displaced \in Full /\ (~displaced.real => displaced = Dummy)
      /\ (displaced.real => displaced \in EntriesOf(lists))
  BY <1>1, <1>2, EntryFacts
<1> HIDE DEF target, displaced
<1>4. moved = [buckets |-> filled, stash |-> st.stash, current |-> displaced,
               which |-> st.which, kicks |-> st.kicks, placed |-> st.placed]
  <2> DEFINE a == [st EXCEPT !.buckets = filled]
  <2>1. moved = [a EXCEPT !.current = displaced]
    BY Zenon DEF a
  <2> HIDE DEF filled
  <2>2. a = [buckets |-> filled, stash |-> st.stash, current |-> st.current,
             which |-> st.which, kicks |-> st.kicks, placed |-> st.placed]
    BY <1>0
  <2> HIDE DEF a, moved
  <2> QED
    BY <2>1, <2>2
<1>5. /\ moved.buckets \in [Slots -> Full]
      /\ moved.buckets[target] = st.current
      /\ \A b \in Slots : b # target => moved.buckets[b] = st.buckets[b]
      /\ moved.stash = st.stash
  BY <1>1, <1>2, <1>4
<1>6. InPlace(h, moved)
  <2>1. target = h[st.which][st.current.key]
    BY DEF target
  <2>2. \A b \in Slots : st.buckets[b].real => \E w \in {1, 2} : b = h[w][st.buckets[b].key]
    BY DEF InPlace, Placing
  <2> HIDE DEF moved
  <2>3. ASSUME NEW b \in Slots, moved.buckets[b].real
        PROVE  \E w \in {1, 2} : b = h[w][moved.buckets[b].key]
    <3>1. CASE b = target
      BY <1>1, <1>5, <2>1, <3>1
    <3>2. CASE b # target
      BY <1>5, <2>2, <2>3, <3>2
    <3> QED
      BY <3>1, <3>2
  <2> QED
    BY <2>3 DEF InPlace
<1>7. ASSUME NEW key \in keys
      PROVE  Present(lists, moved, key) \/ displaced = Entry(lists, key)
  <2>1. Present(lists, st, key) \/ st.current = Entry(lists, key)
    BY DEF Placing
  <2>2. CASE st.current = Entry(lists, key)
    BY <1>2, <1>5, <2>2 DEF Present
  <2>3. CASE Present(lists, st, key)
    BY <1>5, <2>3 DEF Present, displaced
  <2> QED
    BY <2>1, <2>2, <2>3
<1>8. Kick(h, st) = IF ~displaced.real THEN [moved EXCEPT !.placed = TRUE]
                    ELSE IF st.kicks + 1 > MaxKicks
                    THEN [moved EXCEPT !.placed = TRUE, !.stash = @ \cup {displaced}]
                    ELSE [moved EXCEPT !.kicks = @ + 1,
                                       !.which = IF target = h[1][displaced.key] THEN 2 ELSE 1]
  BY DEF Kick, target, displaced
<1>9. CASE ~displaced.real
  <2> DEFINE new == [buckets |-> moved.buckets, stash |-> st.stash, current |-> displaced,
                     which |-> st.which, kicks |-> st.kicks, placed |-> TRUE]
  <2>1. Kick(h, st) = new
    BY <1>4, <1>8, <1>9
  <2>2. new \in Placings(lists)
    BY <1>1, <1>3, <1>5 DEF Placings
  <2>3. InPlace(h, new)
    BY <1>6 DEF InPlace
  <2>4. \A key \in keys : displaced # Entry(lists, key)
    BY <1>9, EntryFacts
  <2>5. \A key \in keys : Present(lists, new, key)
    BY <1>5, <1>7, <2>4 DEF Present
  <2>6. new.placed
    OBVIOUS
  <2> HIDE DEF new
  <2> QED
    BY <2>1, <2>2, <2>3, <2>5, <2>6 DEF Placing
<1>10. CASE displaced.real /\ i + 1 > MaxKicks
  <2> DEFINE new == [buckets |-> moved.buckets, stash |-> st.stash \cup {displaced},
                     current |-> displaced, which |-> st.which, kicks |-> st.kicks, placed |-> TRUE]
  <2>0. Kick(h, st) = [moved EXCEPT !.placed = TRUE, !.stash = @ \cup {displaced}]
    <3>1. st.kicks + 1 > MaxKicks
      BY <1>1, <1>10
    <3> HIDE DEF moved
    <3> QED
      BY <1>8, <1>10, <3>1, Zenon
  <2>1. Kick(h, st) = new
    <3>1. new = [buckets |-> filled, stash |-> st.stash \cup {displaced}, current |-> displaced,
                 which |-> st.which, kicks |-> st.kicks, placed |-> TRUE]
      BY <1>4
    <3> HIDE DEF filled, moved, new
    <3> QED
      BY <1>4, <2>0, <3>1
  <2>2. new \in Placings(lists)
    BY <1>1, <1>3, <1>5, <1>10 DEF Placings
  <2>3. InPlace(h, new)
    BY <1>6 DEF InPlace
  <2>4. \A key \in keys : Present(lists, new, key)
    BY <1>5, <1>7 DEF Present
  <2>5. new.placed
    OBVIOUS
  <2> HIDE DEF new
  <2> QED
    BY <2>1, <2>2, <2>3, <2>4, <2>5 DEF Placing
<1>11. CASE displaced.real /\ ~(i + 1 > MaxKicks)
  <2> DEFINE new == [buckets |-> moved.buckets, stash |-> st.stash, current |-> displaced,
                     which |-> IF target = h[1][displaced.key] THEN 2 ELSE 1,
                     kicks |-> i + 1, placed |-> FALSE]
  <2>0. Kick(h, st) = [moved EXCEPT !.kicks = st.kicks + 1,
                                    !.which = IF target = h[1][displaced.key] THEN 2 ELSE 1]
    BY <1>1, <1>4, <1>8, <1>11
  <2> DEFINE turn == IF target = h[1][displaced.key] THEN 2 ELSE 1
  <2>a. Kick(h, st) = [moved EXCEPT !.kicks = st.kicks + 1, !.which = turn]
    BY <2>0
  <2>b. new = [buckets |-> moved.buckets, stash |-> st.stash, current |-> displaced,
               which |-> turn, kicks |-> st.kicks + 1, placed |-> st.placed]
    <3>1. st.placed = FALSE /\ st.kicks + 1 = i + 1
      BY <1>1
    <3> QED
      BY <3>1
  <2>1. Kick(h, st) = new
    <3> HIDE DEF turn, new
    <3> QED
      BY <1>4, <2>a, <2>b
  <2>2. new \in Placings(lists)
    BY <1>1, <1>3, <1>5, <1>11 DEF Placings, new, turn
  <2>3. InPlace(h, new)
    BY <1>6 DEF InPlace
  <2>4. \A key \in keys : Present(lists, new, key) \/ new.current = Entry(lists, key)
    BY <1>5, <1>7 DEF Present
  <2>5. i + 1 <= MaxKicks
    BY <1>11, EmmAssumption
  <2>6. ~new.placed /\ new.kicks = i + 1
    OBVIOUS
  <2> HIDE DEF new
  <2> QED
    BY <2>1, <2>2, <2>3, <2>4, <2>5, <2>6 DEF Placing
<1> QED
  BY <1>9, <1>10, <1>11

(* A table that has lost none of keys. *)
Holds(h, lists, keys, table) ==
  /\ table \in Tables(lists)
  /\ InPlace(h, table)
  /\ \A key \in keys : Present(lists, table, key)

LEMMA PlaceHolds ==
  ASSUME NEW h, NEW lists, Hashed(h, lists), NEW keys \in SUBSET DOMAIN lists,
         NEW table, Holds(h, lists, keys, table), NEW new \in DOMAIN lists
  PROVE  Holds(h, lists, keys \cup {new}, Place(h, table, Entry(lists, new)))
<1> DEFINE entry == Entry(lists, new)
           more == keys \cup {new}
           n == MaxKicks + 1
           St == Placings(lists)
           start == [buckets |-> table.buckets, stash |-> table.stash, current |-> entry,
                     which |-> 1, kicks |-> 0, placed |-> FALSE]
           Round(st) == IF st.placed THEN st ELSE Kick(h, st)
           Solves(f) == f = [i \in 0 .. n |-> IF i = 0 THEN start ELSE Round(f[i - 1])]
           after == CHOOSE f : Solves(f)
           Sound == {st \in St : \E i \in Nat : Placing(h, lists, more, st, i)}
           g == [i \in 1 .. n |-> [st \in Sound |-> Round(st)]]
<1>1. n \in Nat /\ more \in SUBSET DOMAIN lists /\ entry \in EntriesOf(lists)
  BY EmmAssumption, EntryFacts
<1>2. start \in St /\ Placing(h, lists, more, start, 0)
  <2>1. start \in St
    BY <1>1 DEF Placings, Holds, Tables
  <2>2. \A key \in more : Present(lists, start, key) \/ start.current = Entry(lists, key)
    BY DEF Present, Holds
  <2>3. InPlace(h, start)
    BY DEF InPlace, Holds
  <2>4. ~start.placed /\ start.kicks = 0 /\ 0 <= MaxKicks
    BY EmmAssumption
  <2> HIDE DEF start
  <2> QED
    BY <2>1, <2>2, <2>3, <2>4 DEF Placing
<1> HIDE DEF n, more, start, entry, St
<1>3. ASSUME NEW i \in Nat, NEW st \in St, Placing(h, lists, more, st, i)
      PROVE  Round(st) \in St /\ Placing(h, lists, more, Round(st), i + 1)
  <2>1. CASE st.placed
    BY <1>3, <2>1 DEF Placing
  <2>2. CASE ~st.placed
    BY <1>1, <1>3, <2>2, KickKeeps DEF St
  <2> QED
    BY <2>1, <2>2
<1>4. \A st \in Sound : Round(st) \in Sound
  <2> HIDE DEF Round
  <2>1. \A i \in Nat : i + 1 \in Nat
    OBVIOUS
  <2> QED
    BY <1>3, <2>1
<1>5. start \in Sound /\ g \in [1 .. n -> [Sound -> Sound]]
  <2> HIDE DEF Round
  <2>1. start \in Sound
    BY <1>2
  <2> HIDE DEF Sound
  <2> QED
    BY <1>4, <2>1
<1>6. PICK f \in [0 .. n -> Sound] : Runs(f, start, g, n)
  <2> HIDE DEF g, Sound
  <2> QED
    BY <1>1, <1>5, LoopExists
<1>7. Solves(f)
  <2> HIDE DEF Round, Sound
  <2>1. \A i \in 1 .. n : f[i - 1] \in Sound
    BY <1>1, <1>6
  <2>2. \A i \in 1 .. n : f[i] = Round(f[i - 1])
    BY <1>6, <2>1 DEF Runs
  <2> QED
    BY <1>1, <1>6, <2>2 DEF Runs
<1>8. Solves(after)
  BY <1>7, Zenon
<1> HIDE DEF after
<1> DEFINE P == {i \in 0 .. n : after[i] \in St /\ Placing(h, lists, more, after[i], i)}
<1>9. \A i \in 0 .. n : i \in P
  <2>1. 0 \in P
    BY <1>1, <1>2, <1>8
  <2>2. ASSUME NEW i \in 1 .. n, i - 1 \in P
        PROVE  i \in P
    <3>1. i - 1 \in Nat /\ i \in 0 .. n /\ i # 0 /\ (i - 1) + 1 = i
      BY <1>1
    <3>2. after[i] = Round(after[i - 1])
      <4> HIDE DEF Round
      <4> QED
        BY <1>8, <3>1
    <3>3. after[i - 1] \in St /\ Placing(h, lists, more, after[i - 1], i - 1)
      BY <2>2
    <3> HIDE DEF Round
    <3> QED
      BY <1>3, <3>1, <3>2, <3>3
  <2> HIDE DEF P
  <2> QED
    BY <1>1, <2>1, <2>2, EveryRound
<1>10. n \in P
  BY <1>1, <1>9
<1> DEFINE last == after[n]
           done == [buckets |-> last.buckets, stash |-> last.stash]
<1>11. Place(h, table, entry) = done
  BY DEF Place, after, start, n
<1>12. last \in St /\ Placing(h, lists, more, last, n)
  BY <1>10
<1> HIDE DEF last
<1>13. last.placed
  BY <1>12, EmmAssumption DEF Placing, n
<1>14. done \in Tables(lists)
  BY <1>12 DEF St, Placings, Tables
<1>15. InPlace(h, done) /\ \A key \in more : Present(lists, done, key)
  BY <1>12, <1>13 DEF Placing, InPlace, Present
<1> HIDE DEF done
<1> QED
  BY <1>11, <1>14, <1>15 DEF Holds, more, entry

LEMMA BuildHolds ==
  ASSUME NEW h, NEW lists, Hashed(h, lists), NEW K, NEW order \in Seq(K),
         DOMAIN lists \subseteq ToSet(order)
  PROVE  Holds(h, lists, DOMAIN lists, Build(h, lists, order))
<1> DEFINE n == Len(order)
           Round(i, t) == IF order[i] \in DOMAIN lists
                          THEN Place(h, t, Prepared(order[i], lists[order[i]])) ELSE t
           Solves(f) == f = [i \in 0 .. n |-> IF i = 0 THEN EmptyTable ELSE Round(i, f[i - 1])]
           table == CHOOSE f : Solves(f)
           Past(i) == { key \in DOMAIN lists : \E m \in 1 .. i : order[m] = key }
           Sound == {t \in Tables(lists) : Holds(h, lists, {}, t)}
           g == [i \in 1 .. n |-> [t \in Sound |-> Round(i, t)]]
<1>1. n \in Nat
  OBVIOUS
<1>2. EmptyTable \in Tables(lists) /\ InPlace(h, EmptyTable)
  <2>1. EmptyTable.buckets = [b \in Slots |-> Dummy] /\ EmptyTable.stash = {}
    BY DEF EmptyTable, Slots
  <2>2. EmptyTable \in Tables(lists)
    BY DEF EmptyTable, Tables, Slots
  <2> QED
    BY <2>1, <2>2, EntryFacts DEF InPlace
<1>3. Past(0) = {} /\ \A i \in 1 .. n : Past(i) = Past(i - 1) \cup ({order[i]} \cap DOMAIN lists)
  <2>1. \A i \in 1 .. n : \A m : m \in 1 .. i <=> m \in 1 .. i - 1 \/ m = i
    BY <1>1
  <2> QED
    BY <2>1
<1> HIDE DEF n
<1>4. ASSUME NEW i \in 1 .. n, NEW keys \in SUBSET DOMAIN lists, NEW t, Holds(h, lists, keys, t)
      PROVE  Holds(h, lists, keys \cup ({order[i]} \cap DOMAIN lists), Round(i, t))
  <2>1. CASE order[i] \in DOMAIN lists
    <3>1. Round(i, t) = Place(h, t, Entry(lists, order[i]))
      BY <2>1 DEF Entry
    <3>2. keys \cup ({order[i]} \cap DOMAIN lists) = keys \cup {order[i]}
      BY <2>1
    <3> HIDE DEF Round
    <3> QED
      BY <1>4, <2>1, <3>1, <3>2, PlaceHolds
  <2>2. CASE order[i] \notin DOMAIN lists
    <3>1. keys \cup ({order[i]} \cap DOMAIN lists) = keys /\ Round(i, t) = t
      BY <2>2
    <3> HIDE DEF Round
    <3> QED
      BY <1>4, <3>1
  <2> QED
    BY <2>1, <2>2
<1> HIDE DEF Round
<1>5. EmptyTable \in Sound /\ g \in [1 .. n -> [Sound -> Sound]]
  <2>1. EmptyTable \in Sound
    BY <1>2 DEF Holds
  <2>2. ASSUME NEW i \in 1 .. n, NEW t \in Sound
        PROVE  Round(i, t) \in Sound
    <3>1. Holds(h, lists, {} \cup ({order[i]} \cap DOMAIN lists), Round(i, t))
      BY <1>4
    <3> QED
      BY <3>1 DEF Holds
  <2> HIDE DEF Sound
  <2> QED
    BY <2>1, <2>2
<1>6. PICK f \in [0 .. n -> Sound] : Runs(f, EmptyTable, g, n)
  <2> HIDE DEF g, Sound
  <2> QED
    BY <1>1, <1>5, LoopExists
<1>7. Solves(f)
  <2> HIDE DEF Sound
  <2>1. \A i \in 1 .. n : f[i - 1] \in Sound
    BY <1>1, <1>6
  <2>2. \A i \in 1 .. n : f[i] = Round(i, f[i - 1])
    BY <1>6, <2>1 DEF Runs
  <2> QED
    BY <1>1, <1>6, <2>2 DEF Runs
<1>8. Solves(table)
  BY <1>7, Zenon
<1> HIDE DEF table
<1> DEFINE P == {i \in 0 .. n : Holds(h, lists, Past(i), table[i])}
<1>9. \A i \in 0 .. n : i \in P
  <2>1. 0 \in P
    <3>1. table[0] = EmptyTable
      BY <1>1, <1>8
    <3> HIDE DEF Past
    <3> QED
      BY <1>1, <1>2, <1>3, <3>1 DEF Holds
  <2>2. ASSUME NEW i \in 1 .. n, i - 1 \in P
        PROVE  i \in P
    <3>1. i \in 0 .. n /\ table[i] = Round(i, table[i - 1])
      BY <1>1, <1>8
    <3>2. Holds(h, lists, Past(i - 1), table[i - 1]) /\ Past(i - 1) \in SUBSET DOMAIN lists
      BY <2>2
    <3> HIDE DEF Past
    <3> QED
      BY <1>3, <1>4, <3>1, <3>2
  <2> HIDE DEF P
  <2> QED
    BY <1>1, <2>1, <2>2, EveryRound
<1>10. Holds(h, lists, Past(n), table[n])
  <2>1. n \in P
    BY <1>1, <1>9
  <2> HIDE DEF Past
  <2> QED
    BY <2>1
<1>11. Past(n) = DOMAIN lists
  BY ToSetIs DEF n
<1>12. Build(h, lists, order) = table[n]
  BY DEF Build, table, Round, n
<1> HIDE DEF Past
<1> QED
  BY <1>10, <1>11, <1>12

(* What get returns: the list given to build, cut at the volume bound, and *)
(* nothing for a key it was not given.                                     *)
LEMMA GetFinds ==
  ASSUME NEW h, NEW lists, NEW table, Holds(h, lists, DOMAIN lists, table), NEW key,
         h[1][key] \in Slots, h[2][key] \in Slots
  PROVE  Get(h, table, key) = IF key \in DOMAIN lists THEN Entry(lists, key).values ELSE <<>>
<1> DEFINE at1 == table.buckets[h[1][key]]
           at2 == table.buckets[h[2][key]]
           first == { e \in {at1} : e.real /\ e.key = key }
           second == { e \in {at2} : e.real /\ e.key = key }
           stashed == { e \in table.stash : e.key = key }
<1>1. /\ at1 \in EntriesOf(lists) \cup {Dummy} /\ at2 \in EntriesOf(lists) \cup {Dummy}
      /\ table.stash \in SUBSET EntriesOf(lists)
  BY DEF Holds, Tables
<1>2. \A e \in first \cup second \cup stashed : key \in DOMAIN lists /\ e = Entry(lists, key)
  BY <1>1, EntryFacts
<1>3. ASSUME key \in DOMAIN lists, stashed = {}
      PROVE  first # {} \/ second # {}
  <2>1. PICK b \in Slots : table.buckets[b] = Entry(lists, key)
    BY <1>3, EntryFacts DEF Holds, Present
  <2>2. table.buckets[b].real /\ table.buckets[b].key = key
    BY <1>3, <2>1, EntryFacts
  <2>3. b = h[1][key] \/ b = h[2][key]
    BY <2>2 DEF Holds, InPlace
  <2> QED
    BY <2>2, <2>3
<1>4. Get(h, table, key) =
        CASE first # {} -> (CHOOSE e \in first : TRUE).values
          [] first = {} /\ second # {} -> (CHOOSE e \in second : TRUE).values
          [] OTHER -> IF stashed = {} THEN <<>> ELSE (CHOOSE e \in stashed : TRUE).values
  BY Zenon DEF Get
<1> HIDE DEF first, second, stashed
<1>5. CASE first # {}
  BY <1>2, <1>4, <1>5
<1>6. CASE first = {} /\ second # {}
  BY <1>2, <1>4, <1>6
<1>7. CASE first = {} /\ second = {}
  BY <1>2, <1>3, <1>4, <1>7
<1> QED
  BY <1>5, <1>6, <1>7

-----------------------------------------------------------------------------
(* Lists.  Cut at m, a list keeps its first m elements; gathered from parts *)
(* of at most one element, it has those; and Distinct drops repetitions.   *)
Cut(list, m) == SubSeq(list, 1, IF Len(list) < m THEN Len(list) ELSE m)

LEMMA CutFacts ==
  ASSUME NEW S, NEW list \in Seq(S), NEW m \in Nat
  PROVE  /\ Cut(list, m) \in Seq(S)
         /\ ToSet(Cut(list, m)) = FirstOf(list, m)
         /\ \A k \in Nat : FirstOf(Cut(list, m), k) = FirstOf(list, IF k < m THEN k ELSE m)
<1> DEFINE n == IF Len(list) < m THEN Len(list) ELSE m
           cut == Cut(list, m)
<1>1. n \in Nat /\ n <= Len(list) /\ Len(list) \in Nat /\ DOMAIN list = 1 .. Len(list)
  OBVIOUS
<1>2. cut = SubSeq(list, 1, n)
  BY DEF Cut
<1>3. cut \in Seq(S) /\ Len(cut) = n /\ \A i \in 1 .. n : cut[i] = list[i]
  <2> HIDE DEF n, cut
  <2> QED
    BY <1>1, <1>2
<1>4. DOMAIN cut = 1 .. n
  BY <1>3
<1>5. \A i : i \in DOMAIN cut <=> i \in DOMAIN list /\ i <= m
  BY <1>1, <1>4
<1>6. \A i \in DOMAIN cut : cut[i] = list[i]
  BY <1>3, <1>4
<1> HIDE DEF cut, n
<1>7. ToSet(cut) = FirstOf(list, m)
  BY <1>5, <1>6 DEF ToSet, FirstOf
<1>8. ASSUME NEW k \in Nat
      PROVE  FirstOf(cut, k) = FirstOf(list, IF k < m THEN k ELSE m)
  <2>1. \A i : i \in DOMAIN cut /\ i <= k <=> i \in DOMAIN list /\ i <= (IF k < m THEN k ELSE m)
    BY <1>1, <1>5
  <2> QED
    BY <1>6, <2>1 DEF FirstOf
<1> QED
  BY <1>3, <1>7, <1>8 DEF cut

(* Part i of s has the one element f[i] when P has i, and none otherwise.  *)
Image(f, P) == { f[i] : i \in P }

Gathers(s, S, n, f, P) ==
  /\ n \in Nat /\ P \subseteq 1 .. n /\ \A i \in P : f[i] \in S
  /\ DOMAIN s = 1 .. n /\ s \in Seq(Seq(S))
  /\ \A i \in 1 .. n : s[i] = IF i \in P THEN <<f[i]>> ELSE <<>>

LEMMA Gathered ==
  ASSUME NEW s, NEW S, NEW n, NEW f, NEW P, Gathers(s, S, n, f, P)
  PROVE  FlattenSeq(s) \in Seq(S) /\ ToSet(FlattenSeq(s)) = Image(f, P)
<1>1. \A i \in 1 .. n : ToSet(s[i]) = IF i \in P THEN {f[i]} ELSE {}
  BY DEF ToSet, Gathers
<1>2. FlattenSeq(s) \in Seq(S) /\ ToSet(FlattenSeq(s)) = UNION { ToSet(s[i]) : i \in DOMAIN s }
  BY Flattened DEF Gathers
<1>3. UNION { ToSet(s[i]) : i \in DOMAIN s } = Image(f, P)
  <2>1. DOMAIN s = 1 .. n /\ P \subseteq 1 .. n
    BY DEF Gathers
  <2> QED
    BY <1>1, <2>1 DEF Image
<1> QED
  BY <1>2, <1>3

LEMMA DistinctFacts ==
  ASSUME NEW S, NEW s \in Seq(S)
  PROVE  Distinct(s) \in Seq(S) /\ ToSet(Distinct(s)) = ToSet(s)
<1> DEFINE n == Len(s)
           Round(i, t) == IF s[i] \in ToSet(t) THEN t ELSE Append(t, s[i])
           Solves(f) == f = [i \in 0 .. n |-> IF i = 0 THEN <<>> ELSE Round(i, f[i - 1])]
           kept == CHOOSE f : Solves(f)
           Past(i) == { s[m] : m \in 1 .. i }
           g == [i \in 1 .. n |-> [t \in Seq(S) |-> Round(i, t)]]
<1>1. n \in Nat /\ \A i \in 1 .. n : s[i] \in S
  OBVIOUS
<1>2. \A i \in 1 .. n : Past(i) = Past(i - 1) \cup {s[i]}
  <2>1. \A i \in 1 .. n : \A m : m \in 1 .. i <=> m \in 1 .. i - 1 \/ m = i
    BY <1>1
  <2> QED
    BY <2>1
<1> HIDE DEF n
<1>3. ASSUME NEW i \in 1 .. n, NEW t \in Seq(S)
      PROVE  Round(i, t) \in Seq(S) /\ ToSet(Round(i, t)) = ToSet(t) \cup {s[i]}
  BY <1>1, AppendedSet
<1> HIDE DEF Round
<1>4. PICK f \in [0 .. n -> Seq(S)] : Runs(f, <<>>, g, n)
  <2>1. g \in [1 .. n -> [Seq(S) -> Seq(S)]] /\ <<>> \in Seq(S)
    BY <1>3
  <2> HIDE DEF g
  <2> QED
    BY <1>1, <2>1, LoopExists
<1>5. Solves(f)
  <2>1. \A i \in 1 .. n : f[i - 1] \in Seq(S)
    BY <1>1, <1>4
  <2>2. \A i \in 1 .. n : f[i] = Round(i, f[i - 1])
    BY <1>4, <2>1 DEF Runs
  <2> QED
    BY <1>1, <1>4, <2>2 DEF Runs
<1>6. Solves(kept)
  BY <1>5, Zenon
<1> HIDE DEF kept
<1> DEFINE Good(i) == kept[i] \in Seq(S) /\ ToSet(kept[i]) = Past(i)
           P == {i \in 0 .. n : Good(i)}
<1>7. \A i \in 0 .. n : i \in P
  <2>1. 0 \in P
    <3>1. kept[0] = <<>> /\ Past(0) = {} /\ ToSet(<<>>) = {} /\ <<>> \in Seq(S)
      BY <1>1, <1>6 DEF ToSet
    <3> HIDE DEF Past
    <3>2. Good(0)
      BY <3>1
    <3> HIDE DEF Good
    <3> QED
      BY <1>1, <3>2
  <2>2. ASSUME NEW i \in 1 .. n, i - 1 \in P
        PROVE  i \in P
    <3>1. i \in 0 .. n /\ kept[i] = Round(i, kept[i - 1])
      BY <1>1, <1>6
    <3> HIDE DEF Past
    <3>2. kept[i - 1] \in Seq(S) /\ ToSet(kept[i - 1]) = Past(i - 1)
      BY <2>2
    <3>3. Good(i)
      <4>1. /\ Round(i, kept[i - 1]) \in Seq(S)
            /\ ToSet(Round(i, kept[i - 1])) = ToSet(kept[i - 1]) \cup {s[i]}
        BY <1>3, <3>2
      <4>2. Past(i) = Past(i - 1) \cup {s[i]}
        BY <1>2
      <4> QED
        BY <3>1, <3>2, <4>1, <4>2, Zenon
    <3> HIDE DEF Good
    <3> QED
      BY <3>1, <3>3
  <2> HIDE DEF P
  <2> QED
    BY <1>1, <2>1, <2>2, EveryRound
<1>8. Good(n)
  <2> HIDE DEF Good
  <2> QED
    BY <1>1, <1>7
<1>9. Distinct(s) = kept[n]
  BY DEF Distinct, kept, Round, n
<1>10. Past(n) = ToSet(s)
  BY DEF ToSet, n
<1> HIDE DEF Past
<1> QED
  BY <1>8, <1>9, <1>10

-----------------------------------------------------------------------------
(* The graph of a KG and the store built from it.                          *)
Named == DOMAIN NameBytes
Pairs == Named \X Named
ChunkIds(kg) == UNION { ToSet(kg.entities[i].sources) : i \in DOMAIN kg.entities }

LEMMA KeyFacts ==
  ASSUME NEW kg, IsKg(kg), NEW i \in DOMAIN kg.relations
  PROVE  /\ CanonicalKey(kg.relations[i]) \in Pairs
         /\ {CanonicalKey(kg.relations[i])[1], CanonicalKey(kg.relations[i])[2]}
              = {kg.relations[i].src, kg.relations[i].tgt}
BY DEF IsKg, CanonicalKey, Pairs, Named

LEMMA AdjacentFacts ==
  ASSUME NEW kg, IsKg(kg), NEW n \in Named
  PROVE  /\ Adjacent(kg, n) \in Seq(Pairs)
         /\ \A k \in ToSet(Adjacent(kg, n)) : n \in {k[1], k[2]}
         /\ n \notin Ends(kg) => ToSet(Adjacent(kg, n)) = {}
<1> DEFINE m == Len(kg.relations)
           P == { i \in 1 .. m : n \in {kg.relations[i].src, kg.relations[i].tgt} }
           f == [i \in 1 .. m |-> CanonicalKey(kg.relations[i])]
<1>1. m \in Nat /\ DOMAIN kg.relations = 1 .. m
  BY DEF IsKg
<1> HIDE DEF m
<1>2. \A i \in P : f[i] \in Pairs /\ n \in {f[i][1], f[i][2]}
  <2>1. \A i \in 1 .. m : /\ CanonicalKey(kg.relations[i]) \in Pairs
                          /\ {CanonicalKey(kg.relations[i])[1], CanonicalKey(kg.relations[i])[2]}
                               = {kg.relations[i].src, kg.relations[i].tgt}
    BY <1>1, KeyFacts
  <2> QED
    BY <2>1
<1> DEFINE s == [i \in 1 .. m |-> IF i \in P THEN <<f[i]>> ELSE <<>>]
<1>3. Adjacent(kg, n) = FlattenSeq(s)
  <2>1. s = [i \in DOMAIN kg.relations |->
               IF n \in {kg.relations[i].src, kg.relations[i].tgt}
               THEN <<CanonicalKey(kg.relations[i])>> ELSE <<>>]
    BY <1>1
  <2> QED
    BY <2>1 DEF Adjacent
<1>4. n \notin Ends(kg) => P = {}
  BY <1>1 DEF Ends
<1>5. P \subseteq 1 .. m
  OBVIOUS
<1> HIDE DEF P, f
<1>6. /\ Adjacent(kg, n) \in Seq(Pairs)
      /\ ToSet(Adjacent(kg, n)) = Image(f, P)
  <2>1. \A i \in P : f[i] \in Pairs
    BY <1>2
  <2>2. Gathers(s, Pairs, m, f, P)
    <3>1. s \in Seq(Seq(Pairs))
      <4>1. \A i \in 1 .. m : (IF i \in P THEN <<f[i]>> ELSE <<>>) \in Seq(Pairs)
        BY <2>1
      <4>2. s \in [1 .. m -> Seq(Pairs)]
        BY <4>1
      <4> HIDE DEF s
      <4> QED
        BY <1>1, <4>2
    <3>2. DOMAIN s = 1 .. m /\ \A i \in 1 .. m : s[i] = IF i \in P THEN <<f[i]>> ELSE <<>>
      OBVIOUS
    <3> HIDE DEF s
    <3> QED
      BY <1>1, <1>5, <2>1, <3>1, <3>2 DEF Gathers
  <2> HIDE DEF s
  <2> QED
    BY <1>3, <2>2, Gathered
<1> QED
  BY <1>2, <1>4, <1>6 DEF Image

LEMMA SourcesFacts ==
  ASSUME NEW kg, IsKg(kg), NEW n
  PROVE  /\ Sources(kg, n) \in Seq(ChunkIds(kg))
         /\ n \notin Names(kg) => ToSet(Sources(kg, n)) = {}
<1> DEFINE s == [i \in DOMAIN kg.entities |->
                   IF kg.entities[i].name = n THEN kg.entities[i].sources ELSE <<>>]
<1>1. DOMAIN kg.entities = 1 .. Len(kg.entities) /\ Len(kg.entities) \in Nat
  BY DEF IsKg
<1>2. \A i \in DOMAIN kg.entities : kg.entities[i].sources \in Seq(ChunkIds(kg))
  <2>1. \A i \in DOMAIN kg.entities : ToSet(kg.entities[i].sources) \subseteq ChunkIds(kg)
    BY DEF ChunkIds
  <2>2. \A i \in DOMAIN kg.entities : kg.entities[i].sources \in Seq(ToSet(kg.entities[i].sources))
    BY DEF IsKg
  <2> QED
    BY <2>1, <2>2, SeqMonotonic
<1>3. s \in Seq(Seq(ChunkIds(kg)))
  BY <1>1, <1>2
<1>4. Sources(kg, n) = FlattenSeq(s)
  BY DEF Sources
<1>5. n \notin Names(kg) => UNION { ToSet(s[i]) : i \in DOMAIN s } = {}
  <2>1. n \notin Names(kg) => \A i \in DOMAIN s : s[i] = <<>>
    BY DEF Names
  <2>2. ToSet(<<>>) = {}
    BY DEF ToSet
  <2> HIDE DEF s
  <2> QED
    BY <2>1, <2>2
<1> HIDE DEF s
<1> QED
  BY <1>3, <1>4, <1>5, Flattened

LEMMA TextFacts ==
  ASSUME NEW kg, IsKg(kg)
  PROVE  /\ DOMAIN ChunkTexts(kg) = { kg.chunks[i][1] : i \in DOMAIN kg.chunks }
         /\ \A id \in DOMAIN ChunkTexts(kg) : <<id, ChunkTexts(kg)[id]>> \in ToSet(kg.chunks)
<1> DEFINE last(id) == CHOOSE i \in DOMAIN kg.chunks :
                         kg.chunks[i][1] = id /\ \A j \in DOMAIN kg.chunks : kg.chunks[j][1] = id => j <= i
<1>1. DOMAIN kg.chunks = 1 .. Len(kg.chunks) /\ Len(kg.chunks) \in Nat
  BY DEF IsKg
<1>2. DOMAIN ChunkTexts(kg) = { kg.chunks[i][1] : i \in DOMAIN kg.chunks }
  BY DEF ChunkTexts
<1>3. ASSUME NEW id \in DOMAIN ChunkTexts(kg)
      PROVE  <<id, ChunkTexts(kg)[id]>> \in ToSet(kg.chunks)
  <2> DEFINE T == { i \in DOMAIN kg.chunks : kg.chunks[i][1] = id }
  <2>1. T # {} /\ T \in SUBSET (0 .. Len(kg.chunks))
    BY <1>1, <1>2, <1>3
  <2>2. PICK i \in T : \A j \in T : j <= i
    <3> HIDE DEF T
    <3> QED
      BY <1>1, <2>1, GreatestNat
  <2>3. last(id) \in DOMAIN kg.chunks /\ kg.chunks[last(id)][1] = id
    BY <2>2
  <2>4. ChunkTexts(kg)[id] = kg.chunks[last(id)][2]
    BY <1>2, <1>3, Zenon DEF ChunkTexts
  <2> HIDE DEF last
  <2>5. kg.chunks[last(id)] = <<id, ChunkTexts(kg)[id]>>
    BY <2>3, <2>4 DEF IsKg
  <2> QED
    BY <2>3, <2>5 DEF ToSet
<1> QED
  BY <1>2, <1>3

(* What the two multimaps of a store answer for a name.                    *)
Answers(built, pair, kg, n) ==
  /\ Get(pair.adjacency, built.adjacency, n) \in Seq(Pairs)
  /\ ToSet(Get(pair.adjacency, built.adjacency, n)) = FirstOf(Adjacent(kg, n), VolumeBound)
  /\ Get(pair.sources, built.sources, n) \in Seq(ChunkIds(kg))
  /\ \A m \in Nat : FirstOf(Get(pair.sources, built.sources, n), m)
                      = FirstOf(Sources(kg, n), IF m < VolumeBound THEN m ELSE VolumeBound)

LEMMA BuiltMultimap ==
  ASSUME NEW h, IsHash(h), NEW order \in Orders, NEW S, NEW lists,
         DOMAIN lists \subseteq Named, \A n \in DOMAIN lists : lists[n] \in Seq(S), NEW n \in Named
  PROVE  Get(h, Build(h, lists, order), n) =
           IF n \in DOMAIN lists THEN Cut(lists[n], VolumeBound) ELSE <<>>
<1>1. Hashed(h, lists) /\ h[1][n] \in Slots /\ h[2][n] \in Slots
  BY DEF IsHash, Hashed, Slots, Named
<1>2. order \in Seq(Named) /\ DOMAIN lists \subseteq ToSet(order)
  <2>1. order \in Seq(DOMAIN NameBytes) /\ ToSet(order) = DOMAIN NameBytes
    BY HashAssumption
  <2> QED
    BY <2>1 DEF Named
<1>3. Holds(h, lists, DOMAIN lists, Build(h, lists, order))
  BY <1>1, <1>2, BuildHolds
<1>4. Get(h, Build(h, lists, order), n) = IF n \in DOMAIN lists THEN Entry(lists, n).values ELSE <<>>
  BY <1>1, <1>3, GetFinds
<1>5. Entry(lists, n).values = Cut(lists[n], VolumeBound)
  BY DEF Entry, Prepared, Cut
<1> QED
  BY <1>4, <1>5

LEMMA NoElements ==
  ASSUME NEW list, ToSet(list) = {}, NEW m
  PROVE  FirstOf(list, m) = {} /\ ToSet(<<>>) = {} /\ FirstOf(<<>>, m) = {}
BY DEF FirstOf, ToSet

LEMMA StoreAnswers ==
  ASSUME NEW kg, IsKg(kg), NEW pair \in HashPairs, NEW order \in Orders, NEW n \in Named
  PROVE  Answers(BuildFromKg(kg, pair, order), pair, kg, n)
<1> DEFINE adj == [x \in Ends(kg) |-> Adjacent(kg, x)]
           src == [x \in Names(kg) |-> Sources(kg, x)]
           built == BuildFromKg(kg, pair, order)
<1>1. built.adjacency = Build(pair.adjacency, adj, order) /\ built.sources = Build(pair.sources, src, order)
  BY DEF BuildFromKg
<1>2. IsHash(pair.adjacency) /\ IsHash(pair.sources)
  BY HashAssumption
<1>3. Ends(kg) \subseteq Named /\ Names(kg) \subseteq Named
  BY DEF IsKg, Ends, Names, Named
<1>4. \A x \in Ends(kg) : adj[x] \in Seq(Pairs)
  BY <1>3, AdjacentFacts
<1>5. \A x \in Names(kg) : src[x] \in Seq(ChunkIds(kg))
  BY SourcesFacts
<1>6. VolumeBound \in Nat
  BY EmmAssumption
<1>7. Get(pair.adjacency, built.adjacency, n)
        = IF n \in Ends(kg) THEN Cut(Adjacent(kg, n), VolumeBound) ELSE <<>>
  <2>1. DOMAIN adj = Ends(kg) /\ (n \in Ends(kg) => adj[n] = Adjacent(kg, n))
    OBVIOUS
  <2> HIDE DEF adj, built
  <2> QED
    BY <1>1, <1>2, <1>3, <1>4, <2>1, BuiltMultimap
<1>8. Get(pair.sources, built.sources, n)
        = IF n \in Names(kg) THEN Cut(Sources(kg, n), VolumeBound) ELSE <<>>
  <2>1. DOMAIN src = Names(kg) /\ (n \in Names(kg) => src[n] = Sources(kg, n))
    OBVIOUS
  <2> HIDE DEF src, built
  <2> QED
    BY <1>1, <1>2, <1>3, <1>5, <2>1, BuiltMultimap
<1> HIDE DEF built
<1>9. /\ Get(pair.adjacency, built.adjacency, n) \in Seq(Pairs)
      /\ ToSet(Get(pair.adjacency, built.adjacency, n)) = FirstOf(Adjacent(kg, n), VolumeBound)
  <2>1. Adjacent(kg, n) \in Seq(Pairs)
    BY AdjacentFacts
  <2>2. CASE n \in Ends(kg)
    BY <1>6, <1>7, <2>1, <2>2, CutFacts
  <2>3. CASE n \notin Ends(kg)
    <3>1. ToSet(Adjacent(kg, n)) = {}
      BY <2>3, AdjacentFacts
    <3>2. FirstOf(Adjacent(kg, n), VolumeBound) = {} /\ ToSet(<<>>) = {} /\ <<>> \in Seq(Pairs)
      BY <3>1, NoElements
    <3> QED
      BY <1>7, <2>3, <3>2
  <2> QED
    BY <2>2, <2>3
<1>10. /\ Get(pair.sources, built.sources, n) \in Seq(ChunkIds(kg))
       /\ \A m \in Nat : FirstOf(Get(pair.sources, built.sources, n), m)
                           = FirstOf(Sources(kg, n), IF m < VolumeBound THEN m ELSE VolumeBound)
  <2>1. Sources(kg, n) \in Seq(ChunkIds(kg))
    BY SourcesFacts
  <2>2. CASE n \in Names(kg)
    BY <1>6, <1>8, <2>1, <2>2, CutFacts
  <2>3. CASE n \notin Names(kg)
    <3>1. ToSet(Sources(kg, n)) = {}
      BY <2>3, SourcesFacts
    <3>2. \A m : FirstOf(Sources(kg, n), m) = {} /\ FirstOf(<<>>, m) = {}
      BY <3>1, NoElements
    <3>3. <<>> \in Seq(ChunkIds(kg))
      OBVIOUS
    <3> QED
      BY <1>8, <2>3, <3>2, <3>3
  <2> QED
    BY <2>2, <2>3
<1> QED
  BY <1>9, <1>10 DEF Answers, built

-----------------------------------------------------------------------------
(* The join.                                                               *)
LEMMA NamesAtFacts ==
  ASSUME NEW kg, IsKg(kg), NEW ids \in Seq(DOMAIN kg.entities)
  PROVE  NamesAt(kg, ids) \in Seq(Named)
<1> DEFINE m == Len(ids)
           P == { i \in 1 .. m : ~ \E j \in DOMAIN kg.entities :
                    j > ids[i] /\ kg.entities[j].name = kg.entities[ids[i]].name }
           f == [i \in 1 .. m |-> kg.entities[ids[i]].name]
           s == [i \in 1 .. m |-> IF i \in P THEN <<f[i]>> ELSE <<>>]
<1>1. m \in Nat /\ DOMAIN ids = 1 .. m /\ \A i \in 1 .. m : ids[i] \in DOMAIN kg.entities
  OBVIOUS
<1>2. NamesAt(kg, ids) = FlattenSeq(s)
  <2>1. s = [i \in DOMAIN ids |->
               IF \E j \in DOMAIN kg.entities : j > ids[i] /\ kg.entities[j].name = kg.entities[ids[i]].name
               THEN <<>> ELSE <<kg.entities[ids[i]].name>>]
    BY <1>1
  <2> QED
    BY <2>1 DEF NamesAt
<1>3. P \subseteq 1 .. m
  OBVIOUS
<1> HIDE DEF m, P
<1>4. \A i \in 1 .. m : f[i] \in Named
  BY <1>1 DEF IsKg, Named
<1> HIDE DEF f
<1>5. s \in Seq(Seq(Named))
  BY <1>1, <1>4
<1>6. DOMAIN s = 1 .. m /\ \A i \in 1 .. m : s[i] = IF i \in P THEN <<f[i]>> ELSE <<>>
  OBVIOUS
<1> HIDE DEF s
<1>7. Gathers(s, Named, m, f, P)
  BY <1>1, <1>3, <1>4, <1>5, <1>6 DEF Gathers
<1> QED
  BY <1>2, <1>7, Gathered

(* The keys of the relations found are theirs. *)
LEMMA KeysAtFacts ==
  ASSUME NEW kg, IsKg(kg), NEW ids \in Seq(DOMAIN kg.relations)
  PROVE  /\ KeysAt(kg, ids) \in Seq(Pairs)
         /\ \A k \in ToSet(KeysAt(kg, ids)) :
              \E i \in 1 .. Len(ids) : k = CanonicalKey(kg.relations[ids[i]])
<1> DEFINE m == Len(ids)
           key(i) == CanonicalKey(kg.relations[i])
           P == { i \in 1 .. m : ~ \E j \in DOMAIN kg.relations : j > ids[i] /\ key(j) = key(ids[i]) }
           f == [i \in 1 .. m |-> key(ids[i])]
           s == [i \in 1 .. m |-> IF i \in P THEN <<f[i]>> ELSE <<>>]
<1>1. m \in Nat /\ DOMAIN ids = 1 .. m /\ \A i \in 1 .. m : ids[i] \in DOMAIN kg.relations
  OBVIOUS
<1>2. KeysAt(kg, ids) = FlattenSeq(s)
  <2>1. s = [i \in DOMAIN ids |->
               IF \E j \in DOMAIN kg.relations : j > ids[i] /\ key(j) = key(ids[i])
               THEN <<>> ELSE <<key(ids[i])>>]
    BY <1>1
  <2> QED
    BY <2>1 DEF KeysAt
<1>3. P \subseteq 1 .. m
  OBVIOUS
<1> HIDE DEF P
<1>4. \A i \in 1 .. m : f[i] \in Pairs /\ f[i] = CanonicalKey(kg.relations[ids[i]])
  BY <1>1, KeyFacts
<1> HIDE DEF m, f
<1>5. s \in Seq(Seq(Pairs))
  BY <1>1, <1>4
<1>6. DOMAIN s = 1 .. m /\ \A i \in 1 .. m : s[i] = IF i \in P THEN <<f[i]>> ELSE <<>>
  OBVIOUS
<1> HIDE DEF s
<1>7. Gathers(s, Pairs, m, f, P)
  BY <1>1, <1>3, <1>4, <1>5, <1>6 DEF Gathers
<1>8. KeysAt(kg, ids) \in Seq(Pairs) /\ ToSet(KeysAt(kg, ids)) = Image(f, P)
  BY <1>2, <1>7, Gathered
<1> QED
  BY <1>3, <1>4, <1>8 DEF Image, m

(* The ends of the relations found. *)
LEMMA EndsFacts ==
  ASSUME NEW kg, IsKg(kg), NEW ids \in Seq(DOMAIN kg.relations),
         NEW s, s = [i \in DOMAIN ids |-> <<kg.relations[ids[i]].src, kg.relations[ids[i]].tgt>>]
  PROVE  /\ FlattenSeq(s) \in Seq(Named)
         /\ \A i \in 1 .. Len(ids) : kg.relations[ids[i]].src \in ToSet(FlattenSeq(s))
<1> DEFINE m == Len(ids)
<1>1. m \in Nat /\ DOMAIN ids = 1 .. m /\ \A i \in 1 .. m : ids[i] \in DOMAIN kg.relations
  OBVIOUS
<1>2. \A i \in 1 .. m : kg.relations[ids[i]].src \in Named /\ kg.relations[ids[i]].tgt \in Named
  BY <1>1 DEF IsKg, Named
<1> DEFINE t == [i \in 1 .. m |-> <<kg.relations[ids[i]].src, kg.relations[ids[i]].tgt>>]
<1> HIDE DEF m
<1>3. t \in Seq(Seq(Named)) /\ DOMAIN t = 1 .. m
  BY <1>1, <1>2
<1>4. \A i \in 1 .. m : kg.relations[ids[i]].src \in ToSet(t[i])
  BY DEF ToSet
<1>5. s = t
  BY <1>1
<1> HIDE DEF t
<1>6. FlattenSeq(t) \in Seq(Named) /\ ToSet(FlattenSeq(t)) = UNION { ToSet(t[i]) : i \in DOMAIN t }
  BY <1>3, Flattened
<1>7. \A i \in 1 .. m : kg.relations[ids[i]].src \in ToSet(FlattenSeq(t))
  BY <1>3, <1>4, <1>6
<1> QED
  BY <1>5, <1>6, <1>7 DEF m

(* What a query over a store built from kg may answer. *)
ListCut == IF TopChunks < VolumeBound THEN TopChunks ELSE VolumeBound

Joins(a, kg) ==
  /\ \A n \in ToSet(a.entities) : FirstOf(Adjacent(kg, n), VolumeBound) \subseteq ToSet(a.relations)
  /\ \A k \in ToSet(a.relations) : {k[1], k[2]} \cap ToSet(a.entities) # {}
  /\ { c[1] : c \in ToSet(a.chunks) }
       = UNION { FirstOf(Sources(kg, n), ListCut) : n \in ToSet(a.entities) }
  /\ ToSet(a.chunks) \subseteq ToSet(kg.chunks)

Stray(kg) ==
  \E i \in DOMAIN kg.entities : ~ (ToSet(kg.entities[i].sources) \subseteq DOMAIN ChunkTexts(kg))

LEMMA ParallelParts ==
  ASSUME NEW S, NEW names \in Seq(Named), NEW s, DOMAIN s = DOMAIN names,
         s \in Seq(Seq(S))
  PROVE  /\ FlattenSeq(s) \in Seq(S)
         /\ \A i \in DOMAIN names : ToSet(s[i]) \subseteq ToSet(FlattenSeq(s))
         /\ \A x \in ToSet(FlattenSeq(s)) : \E i \in DOMAIN names : x \in ToSet(s[i])
BY Flattened

LEMMA ChunksFound ==
  ASSUME NEW kg, IsKg(kg), NEW ids \in Seq(ChunkIds(kg)), ToSet(ids) \subseteq DOMAIN ChunkTexts(kg),
         NEW chunks, chunks = [i \in DOMAIN ids |-> <<ids[i], ChunkTexts(kg)[ids[i]]>>]
  PROVE  { c[1] : c \in ToSet(chunks) } = ToSet(ids) /\ ToSet(chunks) \subseteq ToSet(kg.chunks)
<1>1. ToSet(chunks) = { <<ids[i], ChunkTexts(kg)[ids[i]]>> : i \in DOMAIN ids }
  <2>1. DOMAIN chunks = DOMAIN ids /\ \A i \in DOMAIN ids : chunks[i] = <<ids[i], ChunkTexts(kg)[ids[i]]>>
    OBVIOUS
  <2> QED
    BY <2>1, Zenon DEF ToSet
<1>2. \A i \in DOMAIN ids : ids[i] \in DOMAIN ChunkTexts(kg)
  BY DEF ToSet
<1>3. ToSet(chunks) \subseteq ToSet(kg.chunks)
  <2>1. ASSUME NEW c \in ToSet(chunks)
        PROVE  c \in ToSet(kg.chunks)
    <3>1. PICK i \in DOMAIN ids : c = <<ids[i], ChunkTexts(kg)[ids[i]]>>
      BY <1>1, Zenon
    <3>2. \A id \in DOMAIN ChunkTexts(kg) : <<id, ChunkTexts(kg)[id]>> \in ToSet(kg.chunks)
      BY TextFacts
    <3> QED
      BY <1>2, <3>1, <3>2, Zenon
  <2> QED
    BY <2>1, Zenon
<1>4. { c[1] : c \in ToSet(chunks) } = { ids[i] : i \in DOMAIN ids }
  <2>1. \A i \in DOMAIN ids : chunks[i][1] = ids[i] /\ DOMAIN chunks = DOMAIN ids
    OBVIOUS
  <2>2. ToSet(chunks) = { chunks[i] : i \in DOMAIN chunks }
    BY DEF ToSet
  <2>3. \A c \in ToSet(chunks) : \E i \in DOMAIN ids : c[1] = ids[i]
    BY <2>1, <2>2
  <2>4. \A i \in DOMAIN ids : \E c \in ToSet(chunks) : c[1] = ids[i]
    BY <2>1, <2>2
  <2> DEFINE T == ToSet(chunks)
             A == { c[1] : c \in T }
             B == { ids[i] : i \in DOMAIN ids }
  <2> HIDE DEF T
  <2>5. \A x \in A : x \in B
    BY <2>3 DEF T
  <2>6. \A x \in B : x \in A
    <3>1. \A i \in DOMAIN ids : \E c \in T : c[1] = ids[i]
      BY <2>4 DEF T
    <3>2. ASSUME NEW i \in DOMAIN ids
          PROVE  ids[i] \in A
      <4>1. PICK c \in T : c[1] = ids[i]
        BY <3>1
      <4> QED
        BY <4>1, Zenon
    <3> QED
      BY <3>2
  <2>7. A = B
    <3> HIDE DEF A, B
    <3> QED
      BY <2>5, <2>6
  <2> QED
    BY <2>7 DEF T
<1> QED
  BY <1>3, <1>4 DEF ToSet

LEMMA QueryAnswers ==
  ASSUME NEW kg, IsKg(kg), NEW pair \in HashPairs, NEW order \in Orders,
         NEW found \in Seq(DOMAIN kg.entities), NEW linked \in Seq(DOMAIN kg.relations),
         NEW a, a = QueryContext(BuildFromKg(kg, pair, order), pair, found, linked, TopChunks)
  PROVE  (a.ok => Joins(a, kg)) /\ (~a.ok => Stray(kg))
<1> DEFINE built == BuildFromKg(kg, pair, order)
           ends == FlattenSeq([i \in DOMAIN linked |->
                     <<kg.relations[linked[i]].src, kg.relations[linked[i]].tgt>>])
           names == Distinct(NamesAt(kg, found) \o ends)
           adj == [i \in DOMAIN names |-> Get(pair.adjacency, built.adjacency, names[i])]
           keys == Distinct(KeysAt(kg, linked) \o FlattenSeq(adj))
           src == [i \in DOMAIN names |-> Cut(Get(pair.sources, built.sources, names[i]), TopChunks)]
           ids == Distinct(FlattenSeq(src))
           chunks == [i \in DOMAIN ids |-> <<ids[i], ChunkTexts(kg)[ids[i]]>>]
<1>1. built.kg = kg /\ built.texts = ChunkTexts(kg)
  BY DEF BuildFromKg
<1>2. a = IF \E i \in DOMAIN ids : ids[i] \notin DOMAIN ChunkTexts(kg)
          THEN [ok |-> FALSE, entities |-> <<>>, relations |-> <<>>, chunks |-> <<>>]
          ELSE [ok |-> TRUE, entities |-> names, relations |-> keys, chunks |-> chunks]
  BY <1>1 DEF QueryContext, Cut
<1>3. \A n \in Named : Answers(built, pair, kg, n)
  BY StoreAnswers
<1> HIDE DEF built
<1>4. ends \in Seq(Named) /\ \A i \in 1 .. Len(linked) : kg.relations[linked[i]].src \in ToSet(ends)
  BY EndsFacts
<1> HIDE DEF ends
<1>5. /\ names \in Seq(Named)
      /\ \A i \in 1 .. Len(linked) : kg.relations[linked[i]].src \in ToSet(names)
  <2>1. NamesAt(kg, found) \in Seq(Named)
    BY NamesAtFacts
  <2>2. /\ NamesAt(kg, found) \o ends \in Seq(Named)
        /\ ToSet(NamesAt(kg, found) \o ends) = ToSet(NamesAt(kg, found)) \cup ToSet(ends)
    BY <1>4, <2>1, JoinedSet
  <2>3. names \in Seq(Named) /\ ToSet(names) = ToSet(NamesAt(kg, found) \o ends)
    BY <2>2, DistinctFacts
  <2> HIDE DEF names
  <2> QED
    BY <1>4, <2>2, <2>3
<1> HIDE DEF names
<1>6. \A i \in DOMAIN names : names[i] \in Named
  BY <1>5
<1>7. \A n : n \in ToSet(names) <=> \E i \in DOMAIN names : names[i] = n
  BY DEF ToSet
<1>8. /\ FlattenSeq(adj) \in Seq(Pairs)
      /\ \A n \in ToSet(names) : FirstOf(Adjacent(kg, n), VolumeBound) \subseteq ToSet(FlattenSeq(adj))
      /\ \A k \in ToSet(FlattenSeq(adj)) : {k[1], k[2]} \cap ToSet(names) # {}
  <2>1. \A i \in DOMAIN names : /\ adj[i] \in Seq(Pairs)
                                /\ ToSet(adj[i]) = FirstOf(Adjacent(kg, names[i]), VolumeBound)
    BY <1>3, <1>6 DEF Answers
  <2>a. DOMAIN names = 1 .. Len(names) /\ Len(names) \in Nat
    BY <1>5
  <2>b. adj \in [DOMAIN names -> Seq(Pairs)]
    BY <2>1
  <2>2. DOMAIN adj = DOMAIN names /\ adj \in Seq(Seq(Pairs))
    <3> HIDE DEF adj
    <3> QED
      BY <2>a, <2>b
  <2> HIDE DEF adj
  <2>3. /\ FlattenSeq(adj) \in Seq(Pairs)
        /\ \A i \in DOMAIN names : ToSet(adj[i]) \subseteq ToSet(FlattenSeq(adj))
        /\ \A x \in ToSet(FlattenSeq(adj)) : \E i \in DOMAIN names : x \in ToSet(adj[i])
    BY <1>5, <2>2, ParallelParts
  <2>4. \A n \in ToSet(names) : FirstOf(Adjacent(kg, n), VolumeBound) \subseteq ToSet(FlattenSeq(adj))
    BY <1>7, <2>1, <2>3
  <2>5. ASSUME NEW k \in ToSet(FlattenSeq(adj))
        PROVE  {k[1], k[2]} \cap ToSet(names) # {}
    <3>1. PICK i \in DOMAIN names : k \in ToSet(adj[i])
      BY <2>3
    <3>2. k \in ToSet(Adjacent(kg, names[i]))
      BY <2>1, <3>1 DEF FirstOf, ToSet
    <3>3. names[i] \in {k[1], k[2]}
      BY <1>6, <3>2, AdjacentFacts
    <3> QED
      BY <1>7, <3>3
  <2> QED
    BY <2>3, <2>4, <2>5
<1> HIDE DEF adj
<1>9. /\ \A n \in ToSet(names) : FirstOf(Adjacent(kg, n), VolumeBound) \subseteq ToSet(keys)
      /\ \A k \in ToSet(keys) : {k[1], k[2]} \cap ToSet(names) # {}
  <2>1. /\ KeysAt(kg, linked) \in Seq(Pairs)
        /\ \A k \in ToSet(KeysAt(kg, linked)) :
             \E i \in 1 .. Len(linked) : k = CanonicalKey(kg.relations[linked[i]])
    BY KeysAtFacts
  <2>2. /\ KeysAt(kg, linked) \o FlattenSeq(adj) \in Seq(Pairs)
        /\ ToSet(KeysAt(kg, linked) \o FlattenSeq(adj))
             = ToSet(KeysAt(kg, linked)) \cup ToSet(FlattenSeq(adj))
    BY <1>8, <2>1, JoinedSet
  <2>3. ToSet(keys) = ToSet(KeysAt(kg, linked)) \cup ToSet(FlattenSeq(adj))
    BY <2>2, DistinctFacts
  <2>4. ASSUME NEW k \in ToSet(KeysAt(kg, linked))
        PROVE  {k[1], k[2]} \cap ToSet(names) # {}
    <3>1. PICK i \in 1 .. Len(linked) : k = CanonicalKey(kg.relations[linked[i]])
      BY <2>1
    <3>2. linked[i] \in DOMAIN kg.relations
      OBVIOUS
    <3>3. {k[1], k[2]} = {kg.relations[linked[i]].src, kg.relations[linked[i]].tgt}
      BY <3>1, <3>2, KeyFacts
    <3> QED
      BY <1>5, <3>3
  <2> HIDE DEF keys
  <2> QED
    BY <1>8, <2>3, <2>4
<1> HIDE DEF keys
<1>10. /\ ids \in Seq(ChunkIds(kg))
       /\ ToSet(ids) = UNION { FirstOf(Sources(kg, n), ListCut) : n \in ToSet(names) }
  <2>1. \A i \in DOMAIN names : /\ src[i] \in Seq(ChunkIds(kg))
                                /\ ToSet(src[i]) = FirstOf(Sources(kg, names[i]), ListCut)
    <3>1. ASSUME NEW i \in DOMAIN names
          PROVE  /\ src[i] \in Seq(ChunkIds(kg))
                 /\ ToSet(src[i]) = FirstOf(Sources(kg, names[i]), ListCut)
      <4> DEFINE got == Get(pair.sources, built.sources, names[i])
      <4>1. TopChunks \in Nat
        BY PipelineAssumption
      <4>2. got \in Seq(ChunkIds(kg)) /\ FirstOf(got, TopChunks) = FirstOf(Sources(kg, names[i]), ListCut)
        BY <1>3, <1>6, <4>1 DEF Answers, ListCut
      <4>3. src[i] = Cut(got, TopChunks)
        OBVIOUS
      <4> HIDE DEF got, src
      <4> QED
        BY <4>1, <4>2, <4>3, CutFacts
    <3> QED
      BY <3>1
  <2>a. DOMAIN names = 1 .. Len(names) /\ Len(names) \in Nat
    BY <1>5
  <2>b. src \in [DOMAIN names -> Seq(ChunkIds(kg))]
    BY <2>1
  <2>2. DOMAIN src = DOMAIN names /\ src \in Seq(Seq(ChunkIds(kg)))
    <3> HIDE DEF src
    <3> QED
      BY <2>a, <2>b
  <2> HIDE DEF src
  <2>3. /\ FlattenSeq(src) \in Seq(ChunkIds(kg))
        /\ \A i \in DOMAIN names : ToSet(src[i]) \subseteq ToSet(FlattenSeq(src))
        /\ \A x \in ToSet(FlattenSeq(src)) : \E i \in DOMAIN names : x \in ToSet(src[i])
    BY <1>5, <2>2, ParallelParts
  <2>4. ids \in Seq(ChunkIds(kg)) /\ ToSet(ids) = ToSet(FlattenSeq(src))
    BY <2>3, DistinctFacts
  <2>5. \A x \in ToSet(FlattenSeq(src)) : \E n \in ToSet(names) : x \in FirstOf(Sources(kg, n), ListCut)
    BY <1>7, <2>1, <2>3
  <2>6. \A n \in ToSet(names) : FirstOf(Sources(kg, n), ListCut) \subseteq ToSet(FlattenSeq(src))
    BY <1>7, <2>1, <2>3
  <2> HIDE DEF ids
  <2> QED
    BY <2>4, <2>5, <2>6
<1> HIDE DEF src, ids
<1>11. CASE \E i \in DOMAIN ids : ids[i] \notin DOMAIN ChunkTexts(kg)
  <2>1. ~a.ok
    BY <1>2, <1>11
  <2>2. PICK i \in DOMAIN ids : ids[i] \notin DOMAIN ChunkTexts(kg)
    BY <1>11
  <2>3. ids[i] \in ChunkIds(kg)
    BY <1>10
  <2>4. Stray(kg)
    BY <2>2, <2>3 DEF ChunkIds, Stray
  <2> QED
    BY <2>1, <2>4
<1>12. CASE ~ \E i \in DOMAIN ids : ids[i] \notin DOMAIN ChunkTexts(kg)
  <2>1. a.ok /\ a.entities = names /\ a.relations = keys /\ a.chunks = chunks
    BY <1>2, <1>12
  <2>2. ToSet(ids) \subseteq DOMAIN ChunkTexts(kg)
    BY <1>12 DEF ToSet
  <2>3. { c[1] : c \in ToSet(chunks) } = ToSet(ids) /\ ToSet(chunks) \subseteq ToSet(kg.chunks)
    BY <1>10, <2>2, ChunksFound
  <2> HIDE DEF chunks
  <2> QED
    BY <1>9, <1>10, <2>1, <2>3 DEF Joins
<1> QED
  BY <1>11, <1>12


-----------------------------------------------------------------------------
(* The merge.  K are the keys of the drafts and T their descriptions.      *)
Drafts(K, T) == [chunk : Nat, key : K, description : T]
RowsOf(T) == [description : Seq(T), sources : Seq(Nat)]
Accs(K, T) == UNION { [keys -> RowsOf(T)] : keys \in SUBSET K }

Mine(D, k) == { d \in D : d.key = k }

(* acc is what merging the drafts D comes to. *)
Merged(acc, D) ==
  /\ DOMAIN acc = { d.key : d \in D }
  /\ \A k \in DOMAIN acc : MergedFrom(acc[k], Mine(D, k))

NotAfter(D, id) == \A d \in D : d.chunk <= id

LEMMA DescribesOne ==
  ASSUME NEW a, NEW b
  PROVE  Describes(<<a>>, b) <=> a = b \/ <<b, a>> \in Within
<1> DEFINE s == <<a>>
<1>1. DOMAIN s = {1} /\ s[1] = a
  OBVIOUS
<1> HIDE DEF s
<1>2. Describes(s, b) <=> a = b \/ <<b, a>> \in Within
  BY <1>1, Zenon DEF Describes
<1> QED
  BY <1>2 DEF s

Unrepeated(desc) == \A i, k \in DOMAIN desc : i < k => ~Describes(<<desc[i]>>, desc[k])

LEMMA AppendedKeeps ==
  ASSUME NEW T, NEW desc \in Seq(T), NEW x \in T
  PROVE  /\ Appended(desc, x) \in Seq(T)
         /\ x = 0 \/ Describes(Appended(desc, x), x)
         /\ \A e : Describes(desc, e) => Describes(Appended(desc, x), e)
         /\ ToSet(Appended(desc, x)) \subseteq ToSet(desc) \cup {x}
         /\ Unrepeated(desc) => Unrepeated(Appended(desc, x))
<1>1. CASE ~(x # 0 /\ ~Describes(desc, x))
  BY <1>1 DEF Appended
<1>2. CASE x # 0 /\ ~Describes(desc, x)
  <2> DEFINE u == Append(desc, x)
  <2>1. Appended(desc, x) = u
    BY <1>2 DEF Appended
  <2>2. /\ u \in Seq(T) /\ Len(u) = Len(desc) + 1 /\ u[Len(desc) + 1] = x
        /\ \A i \in 1 .. Len(desc) : u[i] = desc[i]
        /\ Len(desc) \in Nat /\ DOMAIN desc = 1 .. Len(desc)
    OBVIOUS
  <2>3. ToSet(u) = ToSet(desc) \cup {x}
    BY AppendedSet
  <2> HIDE DEF u
  <2>4. DOMAIN u = 1 .. Len(desc) + 1
    BY <2>2
  <2>5. Describes(u, x)
    <3>1. Len(desc) + 1 \in DOMAIN u
      BY <2>2, <2>4
    <3> QED
      BY <2>2, <3>1 DEF Describes
  <2>6. ASSUME NEW e, Describes(desc, e)
        PROVE  Describes(u, e)
    <3>1. PICK i \in DOMAIN desc : desc[i] = e \/ <<e, desc[i]>> \in Within
      BY <2>6 DEF Describes
    <3>2. i \in DOMAIN u /\ u[i] = desc[i]
      BY <2>2, <2>4
    <3> QED
      BY <3>1, <3>2 DEF Describes
  <2>7. ASSUME Unrepeated(desc),
               NEW i \in DOMAIN u, NEW k \in DOMAIN u, i < k
        PROVE  ~Describes(<<u[i]>>, u[k])
    <3>1. i \in DOMAIN desc /\ u[i] = desc[i]
      BY <2>2, <2>4, <2>7
    <3>2. CASE k \in DOMAIN desc
      BY <2>2, <2>7, <3>1, <3>2 DEF Unrepeated
    <3>3. CASE k \notin DOMAIN desc
      <4>1. u[k] = x
        BY <2>2, <2>4, <3>3
      <4>2. desc[i] # x /\ <<x, desc[i]>> \notin Within
        BY <1>2, <3>1 DEF Describes
      <4> QED
        BY <3>1, <4>1, <4>2, DescribesOne
    <3> QED
      BY <3>2, <3>3
  <2>8. Unrepeated(desc) => Unrepeated(u)
    BY <2>7 DEF Unrepeated
  <2> QED
    BY <2>1, <2>2, <2>3, <2>5, <2>6, <2>8
<1> QED
  BY <1>1, <1>2

LEMMA TaggedKeeps ==
  ASSUME NEW s \in Seq(Nat), NEW id \in Nat,
         \A x \in ToSet(s) : x <= id,
         \A i, k \in DOMAIN s : i < k => s[i] < s[k]
  PROVE  /\ \A i, k \in DOMAIN Tagged(s, id) : i < k => Tagged(s, id)[i] < Tagged(s, id)[k]
<1>1. CASE id \in ToSet(s)
  BY <1>1 DEF Tagged
<1>2. CASE id \notin ToSet(s)
  <2> DEFINE u == Append(s, id)
  <2>1. Tagged(s, id) = u
    BY <1>2 DEF Tagged
  <2>2. /\ Len(u) = Len(s) + 1 /\ u[Len(s) + 1] = id /\ u \in Seq(Nat)
        /\ \A i \in 1 .. Len(s) : u[i] = s[i]
        /\ Len(s) \in Nat /\ DOMAIN s = 1 .. Len(s)
    OBVIOUS
  <2> HIDE DEF u
  <2>3. ASSUME NEW i \in DOMAIN u, NEW k \in DOMAIN u, i < k
        PROVE  u[i] < u[k]
    <3>1. i \in DOMAIN s /\ u[i] = s[i]
      BY <2>2, <2>3
    <3>2. CASE k \in DOMAIN s
      BY <2>2, <2>3, <3>1, <3>2
    <3>3. CASE k \notin DOMAIN s
      <4>1. u[k] = id
        BY <2>2, <3>3
      <4>2. s[i] \in ToSet(s) /\ s[i] \in Nat
        BY <3>1 DEF ToSet
      <4> QED
        BY <1>2, <3>1, <4>1, <4>2
    <3> QED
      BY <3>2, <3>3
  <2> QED
    BY <2>1, <2>3
<1> QED
  BY <1>1, <1>2

LEMMA TaggedSet ==
  ASSUME NEW s \in Seq(Nat), NEW id \in Nat
  PROVE  Tagged(s, id) \in Seq(Nat) /\ ToSet(Tagged(s, id)) = ToSet(s) \cup {id}
<1>1. CASE id \in ToSet(s)
  BY <1>1 DEF Tagged
<1>2. CASE id \notin ToSet(s)
  BY <1>2, AppendedSet DEF Tagged
<1> QED
  BY <1>1, <1>2

LEMMA AccIs ==
  ASSUME NEW K, NEW T, NEW acc
  PROVE  acc \in Accs(K, T) <=> /\ acc = [k \in DOMAIN acc |-> acc[k]]
                                /\ DOMAIN acc \subseteq K
                                /\ \A k \in DOMAIN acc : acc[k] \in RowsOf(T)
<1>1. ASSUME acc \in Accs(K, T)
      PROVE  /\ acc = [k \in DOMAIN acc |-> acc[k]] /\ DOMAIN acc \subseteq K
             /\ \A k \in DOMAIN acc : acc[k] \in RowsOf(T)
  <2>1. PICK keys \in SUBSET K : acc \in [keys -> RowsOf(T)]
    BY <1>1 DEF Accs
  <2> QED
    BY <2>1
<1>2. ASSUME acc = [k \in DOMAIN acc |-> acc[k]], DOMAIN acc \subseteq K,
             \A k \in DOMAIN acc : acc[k] \in RowsOf(T)
      PROVE  acc \in Accs(K, T)
  <2>1. acc \in [DOMAIN acc -> RowsOf(T)]
    BY <1>2
  <2> QED
    BY <1>2, <2>1 DEF Accs
<1> QED
  BY <1>1, <1>2

(* The row a draft is merged into. *)
RowWith(old, d) ==
  [description |-> Appended(old.description, d.description), sources |-> Tagged(old.sources, d.chunk)]

LEMMA RowWithAdds ==
  ASSUME NEW K, NEW T, NEW old \in RowsOf(T), NEW d \in Drafts(K, T),
         NEW mine \in SUBSET Drafts(K, T), MergedFrom(old, mine), NotAfter(mine, d.chunk)
  PROVE  RowWith(old, d) \in RowsOf(T) /\ MergedFrom(RowWith(old, d), mine \cup {d})
<1> DEFINE row == RowWith(old, d)
<1>1. /\ old.description \in Seq(T) /\ old.sources \in Seq(Nat)
      /\ d.chunk \in Nat /\ d.description \in T
  BY DEF RowsOf, Drafts
<1>2. row.description = Appended(old.description, d.description)
      /\ row.sources = Tagged(old.sources, d.chunk)
  BY DEF RowWith
<1>3. row \in RowsOf(T)
  BY <1>1, AppendedKeeps, TaggedSet DEF RowWith, RowsOf
<1>4. ToSet(row.sources) = { e.chunk : e \in mine \cup {d} }
  <2>1. ToSet(row.sources) = ToSet(old.sources) \cup {d.chunk}
    BY <1>1, <1>2, TaggedSet
  <2>2. ToSet(old.sources) = { e.chunk : e \in mine }
    BY DEF MergedFrom
  <2> HIDE DEF row
  <2> QED
    BY <2>1, <2>2
<1>5. \A i, k \in DOMAIN row.sources : i < k => row.sources[i] < row.sources[k]
  <2>1. \A x \in ToSet(old.sources) : x <= d.chunk
    <3>1. ToSet(old.sources) = { e.chunk : e \in mine }
      BY DEF MergedFrom
    <3> QED
      BY <3>1 DEF NotAfter
  <2>2. \A i, k \in DOMAIN old.sources : i < k => old.sources[i] < old.sources[k]
    BY DEF MergedFrom
  <2>3. \A i, k \in DOMAIN Tagged(old.sources, d.chunk) :
          i < k => Tagged(old.sources, d.chunk)[i] < Tagged(old.sources, d.chunk)[k]
    BY <1>1, <2>1, <2>2, TaggedKeeps
  <2> HIDE DEF row
  <2> QED
    BY <1>2, <2>3
<1>6. \A e \in mine \cup {d} : e.description = 0 \/ Describes(row.description, e.description)
  <2>1. \A e \in mine : e.description = 0 \/ Describes(old.description, e.description)
    BY DEF MergedFrom
  <2>2. /\ d.description = 0 \/ Describes(row.description, d.description)
        /\ \A x : Describes(old.description, x) => Describes(row.description, x)
    BY <1>1, <1>2, AppendedKeeps
  <2> HIDE DEF row
  <2> QED
    BY <2>1, <2>2
<1>7. \A i, k \in DOMAIN row.description : i < k => ~Describes(<<row.description[i]>>, row.description[k])
  <2>1. Unrepeated(old.description)
    BY DEF MergedFrom, Unrepeated
  <2>2. Unrepeated(row.description)
    BY <1>1, <1>2, <2>1, AppendedKeeps
  <2> HIDE DEF row
  <2> QED
    BY <2>2 DEF Unrepeated
<1>8. ToSet(row.description) \subseteq { e.description : e \in mine \cup {d} }
  <2>1. ToSet(old.description) \subseteq { e.description : e \in mine }
    BY DEF MergedFrom
  <2>2. ToSet(row.description) \subseteq ToSet(old.description) \cup {d.description}
    BY <1>1, <1>2, AppendedKeeps
  <2> HIDE DEF row
  <2> QED
    BY <2>1, <2>2
<1> HIDE DEF row
<1>9. MergedFrom(row, mine \cup {d})
  BY <1>4, <1>5, <1>6, <1>7, <1>8 DEF MergedFrom
<1> QED
  BY <1>3, <1>9 DEF row

LEMMA NewRowFacts ==
  ASSUME NEW T
  PROVE  NewRow \in RowsOf(T) /\ MergedFrom(NewRow, {})
<1>1. NewRow.description = <<>> /\ NewRow.sources = <<>> /\ NewRow \in RowsOf(T)
  BY DEF NewRow, RowsOf
<1>2. DOMAIN <<>> = {} /\ ToSet(<<>>) = {}
  BY DEF ToSet
<1> QED
  BY <1>1, <1>2 DEF MergedFrom

LEMMA MergeDraftAdds ==
  ASSUME NEW K, NEW T, NEW acc \in Accs(K, T), NEW d \in Drafts(K, T)
  PROVE  /\ MergeDraft(acc, d) \in Accs(K, T)
         /\ \A D \in SUBSET Drafts(K, T) :
              Merged(acc, D) /\ NotAfter(D, d.chunk) => Merged(MergeDraft(acc, d), D \cup {d})
<1> DEFINE old == IF d.key \in DOMAIN acc THEN acc[d.key] ELSE NewRow
           new == MergeDraft(acc, d)
<1>1. /\ new = [k \in DOMAIN acc \cup {d.key} |-> IF k = d.key THEN RowWith(old, d) ELSE acc[k]]
  BY DEF MergeDraft, RowWith
<1>2. /\ acc = [k \in DOMAIN acc |-> acc[k]] /\ DOMAIN acc \subseteq K
      /\ \A k \in DOMAIN acc : acc[k] \in RowsOf(T)
  BY AccIs
<1>3. old \in RowsOf(T)
  BY <1>2, NewRowFacts
<1>4. RowWith(old, d) \in RowsOf(T)
  <2>1. /\ old.description \in Seq(T) /\ old.sources \in Seq(Nat)
        /\ d.chunk \in Nat /\ d.description \in T
    BY <1>3 DEF RowsOf, Drafts
  <2> HIDE DEF old
  <2> QED
    BY <2>1, AppendedKeeps, TaggedSet DEF RowWith, RowsOf
<1>5. d.key \in K
  BY DEF Drafts
<1> HIDE DEF old, new
<1>6. /\ DOMAIN new = DOMAIN acc \cup {d.key} /\ new[d.key] = RowWith(old, d)
      /\ \A k \in DOMAIN acc : k # d.key => new[k] = acc[k]
      /\ new = [k \in DOMAIN new |-> new[k]]
  BY <1>1
<1>7. new \in Accs(K, T)
  <2>1. \A k \in DOMAIN new : new[k] \in RowsOf(T)
    BY <1>2, <1>4, <1>6
  <2>2. DOMAIN new \subseteq K
    BY <1>2, <1>5, <1>6
  <2> QED
    BY <1>6, <2>1, <2>2, AccIs
<1>8. ASSUME NEW D \in SUBSET Drafts(K, T), Merged(acc, D), NotAfter(D, d.chunk)
      PROVE  Merged(new, D \cup {d})
  <2>1. DOMAIN acc = { e.key : e \in D } /\ \A k \in DOMAIN acc : MergedFrom(acc[k], Mine(D, k))
    BY <1>8 DEF Merged
  <2>2. DOMAIN new = { e.key : e \in D \cup {d} }
    BY <1>6, <2>1
  <2>3. MergedFrom(old, Mine(D, d.key))
    <3>1. CASE d.key \in DOMAIN acc
      BY <2>1, <3>1 DEF old
    <3>2. CASE d.key \notin DOMAIN acc
      <4>1. Mine(D, d.key) = {}
        BY <2>1, <3>2 DEF Mine
      <4> QED
        BY <3>2, <4>1, NewRowFacts DEF old
    <3> QED
      BY <3>1, <3>2
  <2>4. Mine(D, d.key) \in SUBSET Drafts(K, T) /\ NotAfter(Mine(D, d.key), d.chunk)
    BY <1>8 DEF Mine, NotAfter
  <2>5. MergedFrom(new[d.key], Mine(D, d.key) \cup {d})
    BY <1>3, <1>6, <2>3, <2>4, RowWithAdds
  <2>6. Mine(D \cup {d}, d.key) = Mine(D, d.key) \cup {d}
        /\ \A k : k # d.key => Mine(D \cup {d}, k) = Mine(D, k)
    BY DEF Mine
  <2>7. ASSUME NEW k \in DOMAIN new
        PROVE  MergedFrom(new[k], Mine(D \cup {d}, k))
    BY <1>6, <2>1, <2>5, <2>6
  <2> QED
    BY <2>2, <2>7 DEF Merged
<1> QED
  BY <1>7, <1>8 DEF new

(* drafts are of one chunk, and those merged before them of none after it. *)
Follows(drafts, D) ==
  \E id \in Nat : NotAfter(D, id) /\ \A d \in ToSet(drafts) : d.chunk = id

LEMMA MergeAll ==
  ASSUME NEW K, NEW T, NEW acc \in Accs(K, T), NEW drafts \in Seq(Drafts(K, T)),
         NEW D \in SUBSET Drafts(K, T)
  PROVE  /\ Merge(acc, drafts) \in Accs(K, T)
         /\ Merged(acc, D) /\ Follows(drafts, D)
              => Merged(Merge(acc, drafts), D \cup ToSet(drafts))
<1> DEFINE n == Len(drafts)
           S == Accs(K, T)
           Solves(f) == f = [i \in 0 .. n |-> IF i = 0 THEN acc ELSE MergeDraft(f[i - 1], drafts[i])]
           after == CHOOSE f : Solves(f)
           Past(i) == { drafts[m] : m \in 1 .. i }
           g == [i \in 1 .. n |-> [t \in S |-> MergeDraft(t, drafts[i])]]
           Fits == Merged(acc, D) /\ Follows(drafts, D)
<1>1. n \in Nat /\ \A i \in 1 .. n : drafts[i] \in Drafts(K, T) /\ drafts[i] \in ToSet(drafts)
  BY DEF ToSet
<1>2. \A i \in 1 .. n : Past(i) = Past(i - 1) \cup {drafts[i]}
  <2>1. \A i \in 1 .. n : \A m : m \in 1 .. i <=> m \in 1 .. i - 1 \/ m = i
    BY <1>1
  <2> QED
    BY <2>1
<1> HIDE DEF n
<1>3. ASSUME NEW i \in 1 .. n, NEW t \in S
      PROVE  MergeDraft(t, drafts[i]) \in S
  BY <1>1, MergeDraftAdds
<1> HIDE DEF S
<1>4. PICK f \in [0 .. n -> S] : Runs(f, acc, g, n)
  <2>1. g \in [1 .. n -> [S -> S]] /\ acc \in S
    BY <1>3 DEF S
  <2> HIDE DEF g
  <2> QED
    BY <1>1, <2>1, LoopExists
<1>5. Solves(f)
  <2>1. \A i \in 1 .. n : f[i - 1] \in S
    BY <1>1, <1>4
  <2>2. \A i \in 1 .. n : f[i] = MergeDraft(f[i - 1], drafts[i])
    BY <1>4, <2>1 DEF Runs
  <2> QED
    BY <1>1, <1>4, <2>2 DEF Runs
<1>6. Solves(after)
  BY <1>5, Zenon
<1> HIDE DEF after
<1> HIDE DEF Fits
<1> DEFINE Good(i) == after[i] \in S /\ (Fits => Merged(after[i], D \cup Past(i)))
           P == {i \in 0 .. n : Good(i)}
<1>7. \A i \in 0 .. n : i \in P
  <2>1. 0 \in P
    <3>1. after[0] = acc /\ D \cup Past(0) = D
      BY <1>1, <1>6
    <3> HIDE DEF Past
    <3>2. Good(0)
      BY <3>1 DEF S, Fits
    <3> HIDE DEF Good
    <3> QED
      BY <1>1, <3>2
  <2>2. ASSUME NEW i \in 1 .. n, i - 1 \in P
        PROVE  i \in P
    <3>1. i \in 0 .. n /\ after[i] = MergeDraft(after[i - 1], drafts[i])
      BY <1>1, <1>6
    <3>a. /\ D \cup Past(i - 1) \in SUBSET Drafts(K, T)
          /\ Fits => NotAfter(D \cup Past(i - 1), drafts[i].chunk)
      <4>1. Past(i - 1) \in SUBSET Drafts(K, T) /\ \A d \in Past(i - 1) : d \in ToSet(drafts)
        BY <1>1
      <4>2. \A d \in Past(i - 1) : d.chunk \in Nat
        BY <4>1 DEF Drafts
      <4> HIDE DEF Past
      <4>3. ASSUME Fits
            PROVE  NotAfter(D \cup Past(i - 1), drafts[i].chunk)
        <5>1. PICK id \in Nat : NotAfter(D, id) /\ \A d \in ToSet(drafts) : d.chunk = id
          BY <4>3 DEF Fits, Follows
        <5> QED
          BY <1>1, <4>1, <4>2, <5>1 DEF NotAfter
      <4> QED
        BY <4>1, <4>3
    <3>b. (D \cup Past(i - 1)) \cup {drafts[i]} = D \cup Past(i)
      BY <1>2
    <3> HIDE DEF Past
    <3>2. after[i - 1] \in S /\ (Fits => Merged(after[i - 1], D \cup Past(i - 1)))
      BY <2>2
    <3>3. Good(i)
      <4>1. /\ MergeDraft(after[i - 1], drafts[i]) \in S
            /\ Fits => Merged(MergeDraft(after[i - 1], drafts[i]), (D \cup Past(i - 1)) \cup {drafts[i]})
        BY <1>1, <3>2, <3>a, MergeDraftAdds DEF S
      <4> QED
        BY <3>1, <3>b, <4>1, Zenon
    <3> HIDE DEF Good
    <3> QED
      BY <3>1, <3>3
  <2> HIDE DEF P
  <2> QED
    BY <1>1, <2>1, <2>2, EveryRound
<1>8. Good(n)
  <2> HIDE DEF Good
  <2> QED
    BY <1>1, <1>7
<1>9. Merge(acc, drafts) = after[n]
  BY DEF Merge, after, n
<1>10. Past(n) = ToSet(drafts)
  BY DEF ToSet, n
<1> HIDE DEF Past
<1> QED
  BY <1>8, <1>9, <1>10 DEF S, Fits

-----------------------------------------------------------------------------
(* What the parser takes from a chunk.                                     *)
Ordered == { p \in Named \X Named : p[1] <= p[2] }

OutputOf(records) ==
  /\ records \in Seq(ToSet(records))
  /\ \A r \in ToSet(records) :
        /\ ParsedEntity(r) => r.fields[1] \in DOMAIN NameBytes
        /\ ParsedRelation(r) => {r.fields[1], r.fields[2]} \subseteq DOMAIN NameBytes

LEMMA StreamFacts ==
  ASSUME NEW records, records \in Seq(ToSet(records))
  PROVE  Stream(records) \in Seq(ToSet(records))
<1> DEFINE markers == { i \in DOMAIN records : records[i].kind = "COMPLETE" }
           first == CHOOSE i \in markers : \A j \in markers : i <= j
<1>1. CASE markers = {}
  BY <1>1 DEF Stream
<1>2. CASE markers # {}
  <2>1. markers \in SUBSET Nat /\ DOMAIN records = 1 .. Len(records) /\ Len(records) \in Nat
    OBVIOUS
  <2>2. \E i \in markers : \A j \in markers : ~(j < i)
    <3> HIDE DEF markers
    <3> QED
      BY <1>2, <2>1, LeastNat
  <2>3. \E i \in markers : \A j \in markers : i <= j
    BY <2>1, <2>2
  <2>4. first \in markers
    <3> HIDE DEF markers
    <3> QED
      BY <2>3, Zenon
  <2>5. first \in 1 .. Len(records)
    BY <2>1, <2>4
  <2> HIDE DEF first
  <2>6. SubSeq(records, 1, first - 1) \in Seq(ToSet(records))
    BY <2>1, <2>5
  <2> QED
    BY <1>2, <2>6 DEF Stream, first
<1> QED
  BY <1>1, <1>2

(* The drafts of chunk id: those of a chunk are of it, with keys in K.     *)
AreDrafts(drafts, id, K) ==
  /\ drafts \in Seq(ToSet(drafts))
  /\ \A d \in ToSet(drafts) :
        /\ d = [chunk |-> d.chunk, key |-> d.key, description |-> d.description]
        /\ d.chunk = id /\ d.key \in K

LEMMA EntityDraftsFacts ==
  ASSUME NEW records, OutputOf(records), NEW id
  PROVE  AreDrafts(EntityDrafts(id, records), id, Named)
<1> DEFINE stream == Stream(records)
           m == Len(stream)
           P == { i \in 1 .. m : ParsedEntity(stream[i]) }
           f == [i \in 1 .. m |-> EntityDraft(id, stream[i])]
           S == { f[i] : i \in P }
           s == [i \in 1 .. m |-> IF i \in P THEN <<f[i]>> ELSE <<>>]
<1>1. stream \in Seq(ToSet(records))
  BY StreamFacts DEF OutputOf
<1>2. m \in Nat /\ DOMAIN stream = 1 .. m /\ \A i \in 1 .. m : stream[i] \in ToSet(records)
  BY <1>1
<1>3. EntityDrafts(id, records) = FlattenSeq(s)
  <2>1. [i \in DOMAIN stream |-> IF ParsedEntity(stream[i]) THEN <<EntityDraft(id, stream[i])>> ELSE <<>>] = s
    <3> HIDE DEF m, stream
    <3> QED
      BY <1>2
  <2> QED
    BY <2>1, Zenon DEF EntityDrafts
<1> HIDE DEF m, stream
<1>4. Gathers(s, S, m, f, P)
  <2>1. P \subseteq 1 .. m /\ \A i \in P : f[i] \in S
    OBVIOUS
  <2>2. DOMAIN s = 1 .. m /\ \A i \in 1 .. m : s[i] = IF i \in P THEN <<f[i]>> ELSE <<>>
    OBVIOUS
  <2> HIDE DEF P, f, S
  <2>3. s \in Seq(Seq(S))
    <3>1. \A i \in 1 .. m : s[i] \in Seq(S)
      BY <2>1
    <3> QED
      BY <1>2, <3>1
  <2> HIDE DEF s
  <2> QED
    BY <1>2, <2>1, <2>2, <2>3 DEF Gathers
<1>5. FlattenSeq(s) \in Seq(S) /\ ToSet(FlattenSeq(s)) = Image(f, P)
  BY <1>4, Gathered
<1>6. Image(f, P) = S
  BY DEF Image
<1>7. ASSUME NEW d \in S
      PROVE  /\ d = [chunk |-> d.chunk, key |-> d.key, description |-> d.description]
             /\ d.chunk = id /\ d.key \in Named
  <2>1. PICK i \in P : d = EntityDraft(id, stream[i])
    OBVIOUS
  <2>2. ParsedEntity(stream[i]) /\ stream[i] \in ToSet(records)
    BY <1>2
  <2>3. stream[i].fields[1] \in Named
    BY <2>2 DEF OutputOf, Named
  <2> QED
    BY <2>1, <2>3 DEF EntityDraft
<1> HIDE DEF S, f, P, s
<1> QED
  BY <1>3, <1>5, <1>6, <1>7 DEF AreDrafts

LEMMA RelationDraftsFacts ==
  ASSUME NEW records, OutputOf(records), NEW id
  PROVE  AreDrafts(RelationDrafts(id, records), id, Ordered)
<1> DEFINE stream == Stream(records)
           m == Len(stream)
           P == { i \in 1 .. m : ParsedRelation(stream[i]) }
           f == [i \in 1 .. m |-> RelationDraft(id, stream[i])]
           S == { f[i] : i \in P }
           s == [i \in 1 .. m |-> IF i \in P THEN <<f[i]>> ELSE <<>>]
<1>1. stream \in Seq(ToSet(records))
  BY StreamFacts DEF OutputOf
<1>2. m \in Nat /\ DOMAIN stream = 1 .. m /\ \A i \in 1 .. m : stream[i] \in ToSet(records)
  BY <1>1
<1>3. RelationDrafts(id, records) = FlattenSeq(s)
  <2>1. [i \in DOMAIN stream |-> IF ParsedRelation(stream[i]) THEN <<RelationDraft(id, stream[i])>> ELSE <<>>] = s
    <3> HIDE DEF m, stream
    <3> QED
      BY <1>2
  <2> QED
    BY <2>1, Zenon DEF RelationDrafts
<1> HIDE DEF m, stream
<1>4. Gathers(s, S, m, f, P)
  <2>1. P \subseteq 1 .. m /\ \A i \in P : f[i] \in S
    OBVIOUS
  <2>2. DOMAIN s = 1 .. m /\ \A i \in 1 .. m : s[i] = IF i \in P THEN <<f[i]>> ELSE <<>>
    OBVIOUS
  <2> HIDE DEF P, f, S
  <2>3. s \in Seq(Seq(S))
    <3>1. \A i \in 1 .. m : s[i] \in Seq(S)
      BY <2>1
    <3> QED
      BY <1>2, <3>1
  <2> HIDE DEF s
  <2> QED
    BY <1>2, <2>1, <2>2, <2>3 DEF Gathers
<1>5. FlattenSeq(s) \in Seq(S) /\ ToSet(FlattenSeq(s)) = Image(f, P)
  BY <1>4, Gathered
<1>6. Image(f, P) = S
  BY DEF Image
<1>7. ASSUME NEW d \in S
      PROVE  /\ d = [chunk |-> d.chunk, key |-> d.key, description |-> d.description]
             /\ d.chunk = id /\ d.key \in Ordered
  <2>1. PICK i \in P : d = RelationDraft(id, stream[i])
    OBVIOUS
  <2>2. ParsedRelation(stream[i]) /\ stream[i] \in ToSet(records)
    BY <1>2
  <2>3. stream[i].fields[1] \in Named /\ stream[i].fields[2] \in Named
    BY <2>2 DEF OutputOf, Named
  <2>4. stream[i].fields[1] \in Nat /\ stream[i].fields[2] \in Nat
    BY <2>3, NameAssumption DEF Named
  <2> QED
    BY <2>1, <2>3, <2>4 DEF RelationDraft, Ordered
<1> HIDE DEF S, f, P, s
<1> QED
  BY <1>3, <1>5, <1>6, <1>7 DEF AreDrafts

-----------------------------------------------------------------------------
(* The chunks of a document that are not blank, in the order of their ids. *)
LEMMA LiveFacts ==
  ASSUME NEW doc, IsDoc(doc)
  PROVE  /\ Live(doc) \in Seq({ <<i, doc[i]>> : i \in DOMAIN doc })
         /\ \A a, b \in DOMAIN Live(doc) : a < b => Live(doc)[a][1] < Live(doc)[b][1]
<1> DEFINE S == { <<i, doc[i]>> : i \in DOMAIN doc }
           n == Len(doc)
           s == [i \in 1 .. n |-> IF doc[i].blank THEN <<>> ELSE << <<i, doc[i]>> >>]
<1>1. n \in Nat /\ DOMAIN doc = 1 .. n
  BY DEF IsDoc
<1>2. Live(doc) = FlattenSeq(s)
  <2>1. [i \in DOMAIN doc |-> IF doc[i].blank THEN <<>> ELSE << <<i, doc[i]>> >>] = s
    <3> HIDE DEF n
    <3> QED
      BY <1>1
  <2> QED
    BY <2>1, Zenon DEF Live
<1> HIDE DEF n
<1>3. \A i \in 1 .. n : <<i, doc[i]>> \in S
  BY <1>1
<1>4. s \in Seq(Seq(S)) /\ Len(s) = n
      /\ \A i \in 1 .. n : s[i] = <<>> \/ s[i] = << <<i, doc[i]>> >>
  <2> HIDE DEF S
  <2>1. \A i \in 1 .. n : s[i] \in Seq(S)
    BY <1>3
  <2> QED
    BY <1>1, <2>1
<1> HIDE DEF s
<1>5. PICK f \in [0 .. n -> Seq(S)] :
        /\ f[0] = <<>> /\ f[n] = FlattenSeq(s)
        /\ \A i \in 1 .. n : f[i] = f[i - 1] \o s[i]
  BY <1>4, Flattening
<1>6. /\ 0 \in 0 .. n /\ n \in 0 .. n
      /\ \A i \in 1 .. n : i - 1 \in 0 .. n /\ i \in 0 .. n /\ i \in Nat
  BY <1>1
<1> DEFINE Good(i) == /\ \A a \in DOMAIN f[i] : f[i][a][1] \in 1 .. i
                      /\ \A a, b \in DOMAIN f[i] : a < b => f[i][a][1] < f[i][b][1]
           P == {i \in 0 .. n : Good(i)}
<1>7. 0 \in P
  <2>1. DOMAIN f[0] = {}
    BY <1>5
  <2> QED
    BY <1>6, <2>1
<1>8. ASSUME NEW i \in 1 .. n, i - 1 \in P
      PROVE  i \in P
  <2> DEFINE u == f[i - 1]
  <2>1. u \in Seq(S) /\ i \in 0 .. n /\ i \in Nat /\ f[i] = u \o s[i]
    BY <1>5, <1>6
  <2>2. /\ \A a \in DOMAIN u : u[a][1] \in 1 .. i - 1
        /\ \A a, b \in DOMAIN u : a < b => u[a][1] < u[b][1]
    BY <1>8
  <2> HIDE DEF u
  <2>3. CASE s[i] = <<>>
    <3>1. f[i] = u
      BY <2>1, <2>3, ConcatEmptySeq
    <3>2. Good(i)
      BY <2>1, <2>2, <3>1
    <3> HIDE DEF Good
    <3> QED
      BY <2>1, <3>2
  <2>4. CASE s[i] = << <<i, doc[i]>> >>
    <3> DEFINE e == <<i, doc[i]>>
               v == u \o <<e>>
    <3>1. f[i] = v /\ e[1] = i /\ e \in S
      BY <1>3, <2>1, <2>4
    <3> HIDE DEF e, S
    <3>2. /\ DOMAIN u = 1 .. Len(u) /\ Len(u) \in Nat
          /\ DOMAIN v = 1 .. Len(u) + 1 /\ v[Len(u) + 1] = e
          /\ \A a \in 1 .. Len(u) : v[a] = u[a]
      BY <2>1, <3>1
    <3> HIDE DEF v
    <3>3. \A a \in DOMAIN v : (a \in DOMAIN u /\ v[a] = u[a]) \/ (a = Len(u) + 1 /\ v[a] = e)
      BY <3>2
    <3>4. \A a \in DOMAIN v : v[a][1] \in 1 .. i
      BY <2>1, <2>2, <3>1, <3>3
    <3>5. ASSUME NEW a \in DOMAIN v, NEW b \in DOMAIN v, a < b
          PROVE  v[a][1] < v[b][1]
      <4>1. a \in DOMAIN u /\ v[a] = u[a]
        BY <3>2, <3>5
      <4>2. u[a][1] \in 1 .. i - 1
        BY <2>2, <4>1
      <4>3. CASE b \in DOMAIN u /\ v[b] = u[b]
        BY <2>2, <3>5, <4>1, <4>3
      <4>4. CASE v[b] = e
        BY <2>1, <3>1, <4>1, <4>2, <4>4
      <4> QED
        BY <3>3, <4>3, <4>4
    <3>6. Good(i)
      BY <3>1, <3>4, <3>5
    <3> HIDE DEF Good
    <3> QED
      BY <2>1, <3>6
  <2> QED
    BY <1>4, <2>3, <2>4
<1>9. Good(n)
  <2> HIDE DEF Good
  <2>1. \A i \in 0 .. n : i \in P
    <3> HIDE DEF P
    <3> QED
      BY <1>1, <1>7, <1>8, EveryRound
  <2> QED
    BY <1>6, <2>1
<1>10. f[n] \in Seq(S)
  BY <1>6
<1> QED
  BY <1>2, <1>5, <1>9, <1>10

(* The drafts of the first m chunks of a document.                         *)
EntitiesAt(doc, i) == EntityDrafts(Live(doc)[i][1], Live(doc)[i][2].output)
RelationsAt(doc, i) == RelationDrafts(Live(doc)[i][1], Live(doc)[i][2].output)
EntitiesTo(doc, m) == UNION { ToSet(EntitiesAt(doc, i)) : i \in 1 .. m }
RelationsTo(doc, m) == UNION { ToSet(RelationsAt(doc, i)) : i \in 1 .. m }
Texts(doc) == { d.description : d \in EntitiesOf(doc) \cup RelationsOf(doc) }

LEMMA LiveChunk ==
  ASSUME NEW doc, IsDoc(doc)
  PROVE  /\ Len(Live(doc)) \in Nat /\ DOMAIN Live(doc) = 1 .. Len(Live(doc))
         /\ \A i \in 1 .. Len(Live(doc)) :
              /\ Live(doc)[i][1] \in DOMAIN doc /\ Live(doc)[i][1] \in Nat
              /\ Live(doc)[i] = <<Live(doc)[i][1], doc[Live(doc)[i][1]]>>
              /\ OutputOf(Live(doc)[i][2].output)
<1> DEFINE L == Live(doc)
           S == { <<i, doc[i]>> : i \in DOMAIN doc }
<1>1. L \in Seq(S)
  BY LiveFacts
<1> HIDE DEF L
<1>2. Len(L) \in Nat /\ DOMAIN L = 1 .. Len(L) /\ \A i \in 1 .. Len(L) : L[i] \in S
  <2> HIDE DEF S
  <2> QED
    BY <1>1
<1>3. \A k \in DOMAIN doc : k \in Nat
  BY DEF IsDoc
<1>4. ASSUME NEW i \in 1 .. Len(L)
      PROVE  /\ L[i][1] \in DOMAIN doc /\ L[i][1] \in Nat /\ L[i] = <<L[i][1], doc[L[i][1]]>>
             /\ OutputOf(L[i][2].output)
  <2>1. PICK k \in DOMAIN doc : L[i] = <<k, doc[k]>>
    BY <1>2
  <2>2. OutputOf(doc[k].output)
    BY DEF IsDoc, OutputOf
  <2> QED
    BY <1>3, <2>1, <2>2
<1> QED
  BY <1>2, <1>4 DEF L

LEMMA DraftsTo ==
  ASSUME NEW doc, IsDoc(doc)
  PROVE  /\ EntitiesOf(doc) = EntitiesTo(doc, Len(Live(doc)))
         /\ RelationsOf(doc) = RelationsTo(doc, Len(Live(doc)))
         /\ EntitiesTo(doc, 0) = {} /\ RelationsTo(doc, 0) = {}
         /\ \A i \in 1 .. Len(Live(doc)) :
              /\ EntitiesTo(doc, i) = EntitiesTo(doc, i - 1) \cup ToSet(EntitiesAt(doc, i))
              /\ RelationsTo(doc, i) = RelationsTo(doc, i - 1) \cup ToSet(RelationsAt(doc, i))
<1>1. Len(Live(doc)) \in Nat /\ DOMAIN Live(doc) = 1 .. Len(Live(doc))
  BY LiveChunk
<1>2. /\ EntitiesOf(doc) = EntitiesTo(doc, Len(Live(doc)))
      /\ RelationsOf(doc) = RelationsTo(doc, Len(Live(doc)))
  BY <1>1, Zenon DEF EntitiesOf, RelationsOf, EntitiesTo, RelationsTo, EntitiesAt, RelationsAt
<1>3. EntitiesTo(doc, 0) = {} /\ RelationsTo(doc, 0) = {}
  BY DEF EntitiesTo, RelationsTo
<1>4. \A i \in 1 .. Len(Live(doc)) : \A k : k \in 1 .. i <=> k \in 1 .. i - 1 \/ k = i
  BY <1>1
<1>5. \A i \in 1 .. Len(Live(doc)) :
        /\ EntitiesTo(doc, i) = EntitiesTo(doc, i - 1) \cup ToSet(EntitiesAt(doc, i))
        /\ RelationsTo(doc, i) = RelationsTo(doc, i - 1) \cup ToSet(RelationsAt(doc, i))
  BY <1>4 DEF EntitiesTo, RelationsTo
<1> QED
  BY <1>2, <1>3, <1>5

(* Every draft of a document has the type the merge asks for.              *)
LEMMA ChunkDrafts ==
  ASSUME NEW doc, IsDoc(doc), NEW i \in 1 .. Len(Live(doc))
  PROVE  /\ EntitiesAt(doc, i) \in Seq(Drafts(Named, Texts(doc)))
         /\ RelationsAt(doc, i) \in Seq(Drafts(Ordered, Texts(doc)))
         /\ \A d \in ToSet(EntitiesAt(doc, i)) \cup ToSet(RelationsAt(doc, i)) :
              d.chunk = Live(doc)[i][1]
<1>1. /\ OutputOf(Live(doc)[i][2].output) /\ Live(doc)[i][1] \in Nat
      /\ DOMAIN Live(doc) = 1 .. Len(Live(doc))
  BY LiveChunk
<1>2. /\ AreDrafts(EntitiesAt(doc, i), Live(doc)[i][1], Named)
      /\ AreDrafts(RelationsAt(doc, i), Live(doc)[i][1], Ordered)
  BY <1>1, EntityDraftsFacts, RelationDraftsFacts DEF EntitiesAt, RelationsAt
<1>3. ToSet(EntitiesAt(doc, i)) \subseteq EntitiesOf(doc) /\ ToSet(RelationsAt(doc, i)) \subseteq RelationsOf(doc)
  BY <1>1 DEF EntitiesOf, RelationsOf, EntitiesAt, RelationsAt
<1>4. ASSUME NEW K, NEW drafts, AreDrafts(drafts, Live(doc)[i][1], K),
             ToSet(drafts) \subseteq EntitiesOf(doc) \cup RelationsOf(doc)
      PROVE  drafts \in Seq(Drafts(K, Texts(doc)))
  <2>1. drafts \in Seq(ToSet(drafts))
    BY <1>4 DEF AreDrafts
  <2>2. \A d \in ToSet(drafts) : d \in Drafts(K, Texts(doc))
    BY <1>1, <1>4 DEF AreDrafts, Drafts, Texts
  <2>3. \A k \in 1 .. Len(drafts) : drafts[k] \in Drafts(K, Texts(doc))
    <3>1. \A k \in 1 .. Len(drafts) : drafts[k] \in ToSet(drafts)
      BY <2>1
    <3> QED
      BY <2>2, <3>1
  <2> QED
    BY <2>1, <2>3
<1>5. \A d \in ToSet(EntitiesAt(doc, i)) \cup ToSet(RelationsAt(doc, i)) : d.chunk = Live(doc)[i][1]
  BY <1>2 DEF AreDrafts
<1> QED
  BY <1>2, <1>3, <1>4, <1>5

(* Those of the chunks before i are of no chunk after it.                  *)
LEMMA DraftsFollow ==
  ASSUME NEW doc, IsDoc(doc), NEW i \in 1 .. Len(Live(doc))
  PROVE  /\ EntitiesTo(doc, i - 1) \in SUBSET Drafts(Named, Texts(doc))
         /\ RelationsTo(doc, i - 1) \in SUBSET Drafts(Ordered, Texts(doc))
         /\ Follows(EntitiesAt(doc, i), EntitiesTo(doc, i - 1))
         /\ Follows(RelationsAt(doc, i), RelationsTo(doc, i - 1))
<1>1. /\ Len(Live(doc)) \in Nat /\ DOMAIN Live(doc) = 1 .. Len(Live(doc))
      /\ \A k \in 1 .. Len(Live(doc)) : Live(doc)[k][1] \in Nat
  BY LiveChunk
<1>2. \A a, b \in DOMAIN Live(doc) : a < b => Live(doc)[a][1] < Live(doc)[b][1]
  BY LiveFacts
<1>3. ASSUME NEW k \in 1 .. i - 1
      PROVE  /\ k \in 1 .. Len(Live(doc)) /\ Live(doc)[k][1] <= Live(doc)[i][1]
  <2>1. k \in 1 .. Len(Live(doc)) /\ k < i
    BY <1>1
  <2> QED
    BY <1>1, <1>2, <2>1
<1>4. ASSUME NEW k \in 1 .. Len(Live(doc))
      PROVE  /\ ToSet(EntitiesAt(doc, k)) \in SUBSET Drafts(Named, Texts(doc))
             /\ ToSet(RelationsAt(doc, k)) \in SUBSET Drafts(Ordered, Texts(doc))
  BY ChunkDrafts, ToSetIs
<1>5. /\ EntitiesTo(doc, i - 1) \in SUBSET Drafts(Named, Texts(doc))
      /\ RelationsTo(doc, i - 1) \in SUBSET Drafts(Ordered, Texts(doc))
  BY <1>3, <1>4 DEF EntitiesTo, RelationsTo
<1>6. ASSUME NEW d \in EntitiesTo(doc, i - 1) \cup RelationsTo(doc, i - 1)
      PROVE  d.chunk <= Live(doc)[i][1]
  <2>1. PICK k \in 1 .. i - 1 : d \in ToSet(EntitiesAt(doc, k)) \cup ToSet(RelationsAt(doc, k))
    BY DEF EntitiesTo, RelationsTo
  <2>2. d.chunk = Live(doc)[k][1]
    BY <1>3, <2>1, ChunkDrafts
  <2> QED
    BY <1>3, <2>2
<1>7. \A d \in ToSet(EntitiesAt(doc, i)) \cup ToSet(RelationsAt(doc, i)) : d.chunk = Live(doc)[i][1]
  BY ChunkDrafts
<1> QED
  BY <1>1, <1>5, <1>6, <1>7 DEF Follows, NotAfter

(* What the merge loop of a document has come to after its first m chunks. *)
Pending(doc) == [entities : Accs(Named, Texts(doc)), relations : Accs(Ordered, Texts(doc))]

Progress(merged, doc, m) ==
  /\ merged \in Pending(doc)
  /\ Merged(merged.entities, EntitiesTo(doc, m))
  /\ Merged(merged.relations, RelationsTo(doc, m))

LEMMA NothingMerged ==
  ASSUME NEW doc, IsDoc(doc)
  PROVE  Progress([entities |-> NoneYet, relations |-> NoneYet], doc, 0)
<1>1. NoneYet = [k \in {} |-> NoneYet[k]] /\ DOMAIN NoneYet = {}
  BY DEF NoneYet
<1>2. NoneYet \in Accs(Named, Texts(doc)) /\ NoneYet \in Accs(Ordered, Texts(doc))
  BY <1>1, AccIs
<1>3. EntitiesTo(doc, 0) = {} /\ RelationsTo(doc, 0) = {}
  BY DraftsTo
<1>4. Merged(NoneYet, {})
  BY <1>1 DEF Merged
<1> QED
  BY <1>2, <1>3, <1>4 DEF Progress, Pending

LEMMA MergeChunkKeeps ==
  ASSUME NEW doc, IsDoc(doc), NEW i \in 1 .. Len(Live(doc)), NEW merged \in Pending(doc)
  PROVE  /\ MergeChunk(merged, Live(doc)[i]) \in Pending(doc)
         /\ Progress(merged, doc, i - 1) => Progress(MergeChunk(merged, Live(doc)[i]), doc, i)
<1> DEFINE es == Merge(merged.entities, EntitiesAt(doc, i))
           rs == Merge(merged.relations, RelationsAt(doc, i))
           new == MergeChunk(merged, Live(doc)[i])
<1>1. new = [entities |-> es, relations |-> rs]
  BY DEF MergeChunk, EntitiesAt, RelationsAt
<1>2. /\ merged.entities \in Accs(Named, Texts(doc))
      /\ merged.relations \in Accs(Ordered, Texts(doc))
  BY DEF Pending
<1>3. /\ EntitiesAt(doc, i) \in Seq(Drafts(Named, Texts(doc)))
      /\ RelationsAt(doc, i) \in Seq(Drafts(Ordered, Texts(doc)))
  BY ChunkDrafts
<1>4. /\ EntitiesTo(doc, i - 1) \in SUBSET Drafts(Named, Texts(doc))
      /\ RelationsTo(doc, i - 1) \in SUBSET Drafts(Ordered, Texts(doc))
      /\ Follows(EntitiesAt(doc, i), EntitiesTo(doc, i - 1))
      /\ Follows(RelationsAt(doc, i), RelationsTo(doc, i - 1))
  BY DraftsFollow
<1>5. /\ es \in Accs(Named, Texts(doc))
      /\ Merged(merged.entities, EntitiesTo(doc, i - 1))
           => Merged(es, EntitiesTo(doc, i - 1) \cup ToSet(EntitiesAt(doc, i)))
  BY <1>2, <1>3, <1>4, MergeAll
<1>6. /\ rs \in Accs(Ordered, Texts(doc))
      /\ Merged(merged.relations, RelationsTo(doc, i - 1))
           => Merged(rs, RelationsTo(doc, i - 1) \cup ToSet(RelationsAt(doc, i)))
  BY <1>2, <1>3, <1>4, MergeAll
<1>7. /\ EntitiesTo(doc, i) = EntitiesTo(doc, i - 1) \cup ToSet(EntitiesAt(doc, i))
      /\ RelationsTo(doc, i) = RelationsTo(doc, i - 1) \cup ToSet(RelationsAt(doc, i))
  BY DraftsTo
<1> HIDE DEF es, rs, new
<1>8. new \in Pending(doc) /\ new.entities = es /\ new.relations = rs
  BY <1>1, <1>5, <1>6 DEF Pending
<1>9. Progress(merged, doc, i - 1) => Progress(new, doc, i)
  BY <1>5, <1>6, <1>7, <1>8 DEF Progress
<1> QED
  BY <1>8, <1>9 DEF new

LEMMA MergeChunksKeep ==
  ASSUME NEW doc, IsDoc(doc), NEW from \in Nat, NEW to \in Nat, from <= to, to <= Len(Live(doc)),
         NEW merged, Progress(merged, doc, from)
  PROVE  Progress(MergeChunks(merged, SubSeq(Live(doc), from + 1, to)), doc, to)
<1> DEFINE chunks == SubSeq(Live(doc), from + 1, to)
           n == Len(chunks)
           S == Pending(doc)
           Solves(f) == f = [i \in 0 .. n |-> IF i = 0 THEN merged ELSE MergeChunk(f[i - 1], chunks[i])]
           after == CHOOSE f : Solves(f)
           g == [i \in 1 .. n |-> [t \in S |-> MergeChunk(t, chunks[i])]]
<1>1. n = to - from /\ \A i \in 1 .. n : chunks[i] = Live(doc)[from + i]
  <2> DEFINE L == Live(doc)
  <2>1. \E V : L \in Seq(V)
    BY LiveFacts
  <2> HIDE DEF L
  <2>2. /\ Len(SubSeq(L, from + 1, to)) = to - from
        /\ \A i \in 1 .. to - from : SubSeq(L, from + 1, to)[i] = L[from + i]
    <3>1. PICK V : L \in Seq(V)
      BY <2>1
    <3>2. to <= Len(L)
      BY DEF L
    <3> QED
      BY <3>1, <3>2
  <2> QED
    BY <2>2 DEF L
<1>2. n \in Nat /\ \A i \in 1 .. n : from + i \in 1 .. Len(Live(doc))
  <2> HIDE DEF n
  <2> QED
    BY <1>1, LiveChunk
<1> HIDE DEF n, chunks
<1>3. ASSUME NEW i \in 1 .. n, NEW t \in S
      PROVE  /\ MergeChunk(t, chunks[i]) \in S
             /\ Progress(t, doc, from + i - 1) => Progress(MergeChunk(t, chunks[i]), doc, from + i)
  BY <1>1, <1>2, MergeChunkKeeps
<1>a. merged \in S
  BY DEF Progress
<1> HIDE DEF S
<1>4. PICK f \in [0 .. n -> S] : Runs(f, merged, g, n)
  <2>1. g \in [1 .. n -> [S -> S]]
    BY <1>3
  <2> HIDE DEF g
  <2> QED
    BY <1>2, <1>a, <2>1, LoopExists
<1>5. Solves(f)
  <2>1. \A i \in 1 .. n : f[i - 1] \in S
    BY <1>2, <1>4
  <2>2. \A i \in 1 .. n : f[i] = MergeChunk(f[i - 1], chunks[i])
    BY <1>4, <2>1 DEF Runs
  <2> QED
    BY <1>2, <1>4, <2>2 DEF Runs
<1>6. Solves(after)
  BY <1>5, Zenon
<1> HIDE DEF after
<1> DEFINE P == {i \in 0 .. n : Progress(after[i], doc, from + i)}
<1>7. 0 \in P
  <2>1. after[0] = merged /\ from + 0 = from /\ 0 \in 0 .. n
    BY <1>2, <1>6
  <2> QED
    BY <2>1
<1>8. ASSUME NEW i \in 1 .. n, i - 1 \in P
      PROVE  i \in P
  <2>1. i \in 0 .. n /\ after[i] = MergeChunk(after[i - 1], chunks[i])
    BY <1>2, <1>6
  <2>2. Progress(after[i - 1], doc, from + i - 1)
    <3>1. from + (i - 1) = from + i - 1
      BY <1>2
    <3> QED
      BY <1>8, <3>1
  <2>3. after[i - 1] \in S
    BY <2>2 DEF Progress, S
  <2> QED
    BY <1>3, <2>1, <2>2, <2>3
<1>9. Progress(after[n], doc, to)
  <2>1. \A i \in 0 .. n : i \in P
    <3> HIDE DEF P
    <3> QED
      BY <1>2, <1>7, <1>8, EveryRound
  <2>2. n \in 0 .. n /\ from + n = to
    BY <1>1, <1>2
  <2> QED
    BY <2>1, <2>2
<1>10. MergeChunks(merged, chunks) = after[n]
  BY DEF MergeChunks, after, n
<1> QED
  BY <1>9, <1>10 DEF chunks

-----------------------------------------------------------------------------
(* The rows of a KG in the order of their keys.                            *)
LEMMA NamesFinite ==
  /\ Named \subseteq Nat /\ IsFiniteSet(Named) /\ IsFiniteSet(Ordered)
<1>2. IsFiniteSet(Named) /\ Named \subseteq Nat
  BY NameAssumption DEF Named
<1>3. IsFiniteSet(Named \X Named)
  BY <1>2, FS_Product
<1>4. Ordered \in SUBSET (Named \X Named)
  BY DEF Ordered
<1> QED
  BY <1>2, <1>3, <1>4, FS_Subset

LEMMA NamesOrdered ==
  ASSUME NEW names \in SUBSET Named
  PROVE  OrdersAll({ p \in names \X names : p[1] < p[2] }, names)
<1>1. \A x \in names : x \in Nat
  BY NamesFinite
<1> QED
  BY <1>1 DEF OrdersAll

PairBefore(pairs) ==
  { p \in pairs \X pairs : p[1][1] < p[2][1] \/ (p[1][1] = p[2][1] /\ p[1][2] < p[2][2]) }

LEMMA PairsOrdered ==
  ASSUME NEW pairs \in SUBSET Ordered
  PROVE  OrdersAll(PairBefore(pairs), pairs)
<1>1. \A x \in pairs : x[1] \in Nat /\ x[2] \in Nat /\ x = <<x[1], x[2]>>
  <2>1. \A x \in Named \X Named : x[1] \in Named /\ x[2] \in Named /\ x = <<x[1], x[2]>>
    OBVIOUS
  <2>2. pairs \subseteq Named \X Named
    BY DEF Ordered
  <2> QED
    BY <2>1, <2>2, NamesFinite
<1>2. \A x, y \in pairs : <<x, y>> \in PairBefore(pairs)
                            <=> x[1] < y[1] \/ (x[1] = y[1] /\ x[2] < y[2])
  BY DEF PairBefore
<1>3. \A x \in pairs : <<x, x>> \notin PairBefore(pairs)
  BY <1>1, <1>2
<1>4. ASSUME NEW x \in pairs, NEW y \in pairs, x # y
      PROVE  <<x, y>> \in PairBefore(pairs) \/ <<y, x>> \in PairBefore(pairs)
  <2>1. x[1] # y[1] \/ x[2] # y[2]
    BY <1>1, <1>4
  <2> QED
    BY <1>1, <1>2, <2>1
<1>5. ASSUME NEW x \in pairs, NEW y \in pairs, NEW z \in pairs,
             <<x, y>> \in PairBefore(pairs), <<y, z>> \in PairBefore(pairs)
      PROVE  <<x, z>> \in PairBefore(pairs)
  <2>1. x[1] < z[1] \/ (x[1] = z[1] /\ x[2] < z[2])
    BY <1>1, <1>2, <1>5
  <2> QED
    BY <1>2, <2>1
<1> QED
  BY <1>3, <1>4, <1>5 DEF OrdersAll

LEMMA EntityRowsFacts ==
  ASSUME NEW T, NEW entities \in Accs(Named, T), NEW rows, rows = EntityRows(entities)
  PROVE  /\ rows \in Seq(ToSet(rows))
         /\ \A i \in DOMAIN rows :
              /\ rows[i].name \in DOMAIN entities
              /\ rows[i].description = entities[rows[i].name].description
              /\ rows[i].sources = entities[rows[i].name].sources
         /\ \A k \in DOMAIN entities : \E i \in DOMAIN rows : rows[i].name = k
<1> DEFINE names == DOMAIN entities
           R == { p \in names \X names : p[1] < p[2] }
           keys == Ranked(names, R)
           N == Cardinality(names)
<1>1. names \in SUBSET Named
  BY AccIs
<1>2. IsFiniteSet(names) /\ OrdersAll(R, names)
  BY <1>1, NamesFinite, NamesOrdered, FS_Subset
<1>3. /\ N \in Nat /\ keys \in [1 .. N -> names]
      /\ \A x \in names : \E k \in 1 .. N : keys[k] = x
  <2> HIDE DEF R
  <2> QED
    BY <1>2, RankedLists
<1>4. rows = [i \in DOMAIN keys |-> [name |-> keys[i], description |-> entities[keys[i]].description,
                                     sources |-> entities[keys[i]].sources]]
  BY DEF EntityRows
<1> HIDE DEF names, R, keys, N
<1>5. DOMAIN rows = 1 .. N
  BY <1>3, <1>4
<1>6. \A i \in 1 .. N : /\ rows[i].name = keys[i]
                        /\ rows[i].description = entities[keys[i]].description
                        /\ rows[i].sources = entities[keys[i]].sources
  BY <1>3, <1>4
<1>7. rows \in Seq(ToSet(rows))
  <2>1. rows = [i \in 1 .. N |-> rows[i]]
    BY <1>3, <1>4
  <2>2. \A i \in 1 .. N : rows[i] \in ToSet(rows)
    BY <1>5 DEF ToSet
  <2> QED
    BY <1>3, <2>1, <2>2
<1> QED
  BY <1>3, <1>5, <1>6, <1>7 DEF names

LEMMA RelationRowsFacts ==
  ASSUME NEW T, NEW relations \in Accs(Ordered, T), NEW rows, rows = RelationRows(relations)
  PROVE  /\ rows \in Seq(ToSet(rows))
         /\ \A i \in DOMAIN rows :
              /\ <<rows[i].src, rows[i].tgt>> \in DOMAIN relations
              /\ CanonicalKey(rows[i]) = <<rows[i].src, rows[i].tgt>>
              /\ rows[i].description = relations[<<rows[i].src, rows[i].tgt>>].description
              /\ rows[i].sources = relations[<<rows[i].src, rows[i].tgt>>].sources
         /\ \A k \in DOMAIN relations : \E i \in DOMAIN rows : CanonicalKey(rows[i]) = k
<1> DEFINE pairs == DOMAIN relations
           R == PairBefore(pairs)
           keys == Ranked(pairs, R)
           N == Cardinality(pairs)
<1>1. pairs \in SUBSET Ordered
  BY AccIs
<1>2. IsFiniteSet(pairs) /\ OrdersAll(R, pairs)
  BY <1>1, NamesFinite, PairsOrdered, FS_Subset
<1>3. /\ N \in Nat /\ keys \in [1 .. N -> pairs]
      /\ \A x \in pairs : \E k \in 1 .. N : keys[k] = x
  <2> HIDE DEF R
  <2> QED
    BY <1>2, RankedLists
<1>4. rows = [i \in DOMAIN keys |-> [src |-> keys[i][1], tgt |-> keys[i][2],
                                     description |-> relations[keys[i]].description,
                                     sources |-> relations[keys[i]].sources]]
  BY DEF RelationRows, PairBefore
<1>a. \A x \in pairs : x = <<x[1], x[2]>> /\ x[1] <= x[2]
  BY <1>1 DEF Ordered
<1> HIDE DEF pairs, R, keys, N
<1>5. DOMAIN rows = 1 .. N
  BY <1>3, <1>4
<1>6. \A i \in 1 .. N : /\ rows[i].src = keys[i][1] /\ rows[i].tgt = keys[i][2]
                        /\ rows[i].description = relations[keys[i]].description
                        /\ rows[i].sources = relations[keys[i]].sources
  BY <1>3, <1>4
<1>7. rows \in Seq(ToSet(rows))
  <2>1. rows = [i \in 1 .. N |-> rows[i]]
    BY <1>3, <1>4
  <2>2. \A i \in 1 .. N : rows[i] \in ToSet(rows)
    BY <1>5 DEF ToSet
  <2> QED
    BY <1>3, <2>1, <2>2
<1>8. ASSUME NEW i \in 1 .. N
      PROVE  keys[i] \in pairs /\ <<rows[i].src, rows[i].tgt>> = keys[i] /\ CanonicalKey(rows[i]) = keys[i]
  <2>1. keys[i] \in pairs
    BY <1>3
  <2> QED
    BY <1>6, <1>a, <2>1 DEF CanonicalKey
<1>9. ASSUME NEW i \in DOMAIN rows
      PROVE  /\ <<rows[i].src, rows[i].tgt>> \in pairs
             /\ CanonicalKey(rows[i]) = <<rows[i].src, rows[i].tgt>>
             /\ rows[i].description = relations[<<rows[i].src, rows[i].tgt>>].description
             /\ rows[i].sources = relations[<<rows[i].src, rows[i].tgt>>].sources
  <2>1. i \in 1 .. N
    BY <1>5
  <2>2. keys[i] \in pairs /\ <<rows[i].src, rows[i].tgt>> = keys[i] /\ CanonicalKey(rows[i]) = keys[i]
    BY <1>8, <2>1
  <2> QED
    BY <1>6, <2>1, <2>2
<1>10. ASSUME NEW k \in pairs
       PROVE  \E i \in DOMAIN rows : CanonicalKey(rows[i]) = k
  <2>1. PICK i \in 1 .. N : keys[i] = k
    BY <1>3
  <2> QED
    BY <1>5, <1>8, <2>1
<1> QED
  BY <1>7, <1>9, <1>10 DEF pairs

LEMMA RowsFacts ==
  ASSUME NEW doc, IsDoc(doc)
  PROVE  /\ Rows(doc) \in Seq(ToSet(Rows(doc)))
         /\ \A i \in DOMAIN Rows(doc) : Rows(doc)[i] = <<Rows(doc)[i][1], Rows(doc)[i][2]>>
         /\ DOMAIN Rows(doc) = 1 .. Len(Live(doc))
         /\ \A i \in 1 .. Len(Live(doc)) : Rows(doc)[i][1] = Live(doc)[i][1]
<1> DEFINE rows == Rows(doc)
           n == Len(Live(doc))
<1>1. n \in Nat /\ DOMAIN Live(doc) = 1 .. n
  BY LiveChunk
<1>2. rows = [i \in 1 .. n |-> <<Live(doc)[i][1], Live(doc)[i][2].text>>]
  BY <1>1 DEF Rows
<1> HIDE DEF rows, n
<1>3. DOMAIN rows = 1 .. n /\ \A i \in 1 .. n : rows[i] = <<Live(doc)[i][1], Live(doc)[i][2].text>>
  BY <1>2
<1>4. rows \in Seq(ToSet(rows))
  <2>1. rows = [i \in 1 .. n |-> rows[i]]
    BY <1>2
  <2>2. \A i \in 1 .. n : rows[i] \in ToSet(rows)
    BY <1>3 DEF ToSet
  <2> QED
    BY <1>1, <2>1, <2>2
<1> QED
  BY <1>3, <1>4 DEF rows, n

LEMMA MergedRow ==
  ASSUME NEW row, NEW old, row.description = old.description, row.sources = old.sources,
         NEW mine, MergedFrom(old, mine)
  PROVE  MergedFrom(row, mine)
BY DEF MergedFrom

(* What is assembled from all chunks of a document is its KG.              *)
LEMMA Assembled ==
  ASSUME NEW doc, IsDoc(doc), NEW merged, Progress(merged, doc, Len(Live(doc))),
         NEW kg, kg = Assemble(Rows(doc), merged.entities, merged.relations)
  PROVE  IsKgOf(kg, doc) /\ IsKg(kg) /\ ~Stray(kg)
<1> DEFINE T == Texts(doc)
           es == merged.entities
           rs == merged.relations
           kept == WithoutDangling(es, rs)
<1>1. /\ es \in Accs(Named, T) /\ rs \in Accs(Ordered, T)
      /\ Merged(es, EntitiesOf(doc)) /\ Merged(rs, RelationsOf(doc))
  BY DraftsTo DEF Progress, Pending
<1>2. kg.chunks = Rows(doc) /\ kg.entities = EntityRows(es) /\ kg.relations = RelationRows(kept)
  BY DEF Assemble
<1> HIDE DEF es, rs
<1>3. /\ DOMAIN kept = { k \in DOMAIN rs : {k[1], k[2]} \subseteq DOMAIN es }
      /\ \A k \in DOMAIN kept : kept[k] = rs[k]
      /\ kept = [k \in DOMAIN kept |-> kept[k]]
  BY DEF WithoutDangling
<1> HIDE DEF kept
<1>4. kept \in Accs(Ordered, T)
  <2>1. DOMAIN rs \subseteq Ordered /\ \A k \in DOMAIN rs : rs[k] \in RowsOf(T)
    BY <1>1, AccIs
  <2> QED
    BY <1>3, <2>1, AccIs
<1>5. /\ kg.entities \in Seq(ToSet(kg.entities))
      /\ \A i \in DOMAIN kg.entities :
           /\ kg.entities[i].name \in DOMAIN es
           /\ kg.entities[i].description = es[kg.entities[i].name].description
           /\ kg.entities[i].sources = es[kg.entities[i].name].sources
      /\ \A k \in DOMAIN es : \E i \in DOMAIN kg.entities : kg.entities[i].name = k
  BY <1>1, <1>2, EntityRowsFacts
<1>6. /\ kg.relations \in Seq(ToSet(kg.relations))
      /\ \A i \in DOMAIN kg.relations :
           /\ <<kg.relations[i].src, kg.relations[i].tgt>> \in DOMAIN kept
           /\ CanonicalKey(kg.relations[i]) = <<kg.relations[i].src, kg.relations[i].tgt>>
           /\ kg.relations[i].description = kept[<<kg.relations[i].src, kg.relations[i].tgt>>].description
           /\ kg.relations[i].sources = kept[<<kg.relations[i].src, kg.relations[i].tgt>>].sources
      /\ \A k \in DOMAIN kept : \E i \in DOMAIN kg.relations : CanonicalKey(kg.relations[i]) = k
  BY <1>2, <1>4, RelationRowsFacts
<1>7. /\ DOMAIN es = { d.key : d \in EntitiesOf(doc) }
      /\ \A k \in DOMAIN es : MergedFrom(es[k], Mine(EntitiesOf(doc), k))
      /\ DOMAIN rs = { d.key : d \in RelationsOf(doc) }
      /\ \A k \in DOMAIN rs : MergedFrom(rs[k], Mine(RelationsOf(doc), k))
  BY <1>1 DEF Merged
<1>8. Names(kg) = DOMAIN es
  <2>1. \A i \in DOMAIN kg.entities : kg.entities[i].name \in DOMAIN es
    BY <1>5, Zenon
  <2>2. \A k \in DOMAIN es : \E i \in DOMAIN kg.entities : kg.entities[i].name = k
    BY <1>5, Zenon
  <2> QED
    BY <2>1, <2>2 DEF Names
<1>9. ASSUME NEW i \in DOMAIN kg.entities
      PROVE  MergedFrom(kg.entities[i], Mine(EntitiesOf(doc), kg.entities[i].name))
  <2>1. /\ kg.entities[i].name \in DOMAIN es
        /\ kg.entities[i].description = es[kg.entities[i].name].description
        /\ kg.entities[i].sources = es[kg.entities[i].name].sources
    BY <1>5, Zenon
  <2>2. MergedFrom(es[kg.entities[i].name], Mine(EntitiesOf(doc), kg.entities[i].name))
    BY <1>7, <2>1, Zenon
  <2> DEFINE row == kg.entities[i]
             old == es[kg.entities[i].name]
             mine == Mine(EntitiesOf(doc), kg.entities[i].name)
  <2>3. row.description = old.description /\ row.sources = old.sources /\ MergedFrom(old, mine)
    BY <2>1, <2>2, Zenon
  <2>4. MergedFrom(row, mine)
    <3> HIDE DEF row, old, mine
    <3> QED
      BY <2>3, MergedRow, Zenon
  <2> QED
    BY <2>4
<1>10. { CanonicalKey(kg.relations[i]) : i \in DOMAIN kg.relations } = DOMAIN kept
  <2>1. \A i \in DOMAIN kg.relations : CanonicalKey(kg.relations[i]) \in DOMAIN kept
    BY <1>6
  <2>2. \A k \in DOMAIN kept : \E i \in DOMAIN kg.relations : CanonicalKey(kg.relations[i]) = k
    BY <1>6
  <2> QED
    BY <2>1, <2>2
<1>11. ASSUME NEW i \in DOMAIN kg.relations
       PROVE  MergedFrom(kg.relations[i], Mine(RelationsOf(doc), CanonicalKey(kg.relations[i])))
  <2> DEFINE key == CanonicalKey(kg.relations[i])
  <2>1. key \in DOMAIN kept /\ kept[key] = rs[key] /\ key \in DOMAIN rs
        /\ kg.relations[i].description = kept[key].description
        /\ kg.relations[i].sources = kept[key].sources
    <3>1. key = <<kg.relations[i].src, kg.relations[i].tgt>>
      BY <1>6
    <3>2. /\ key \in DOMAIN kept
          /\ kg.relations[i].description = kept[key].description
          /\ kg.relations[i].sources = kept[key].sources
      <4> HIDE DEF key
      <4> QED
        BY <1>6, <3>1, Zenon
    <3> HIDE DEF key
    <3> QED
      BY <1>3, <3>2
  <2>2. MergedFrom(rs[key], Mine(RelationsOf(doc), key))
    BY <1>7, <2>1
  <2> HIDE DEF key
  <2> QED
    BY <2>1, <2>2, MergedRow DEF key
<1>12. IsKgOf(kg, doc)
  <2>1. DOMAIN kept = { k \in { d.key : d \in RelationsOf(doc) } : {k[1], k[2]} \subseteq Names(kg) }
    BY <1>3, <1>7, <1>8
  <2>2. Names(kg) = { d.key : d \in EntitiesOf(doc) }
    BY <1>7, <1>8
  <2> QED
    BY <1>2, <1>9, <1>10, <1>11, <2>1, <2>2, Zenon DEF IsKgOf, Mine
<1>13. ASSUME NEW i \in DOMAIN kg.entities
       PROVE  kg.entities[i].name \in Named /\ kg.entities[i].sources \in Seq(Nat)
  <2>1. DOMAIN es \subseteq Named /\ \A k \in DOMAIN es : es[k] \in RowsOf(T)
    BY <1>1, AccIs
  <2> QED
    BY <1>5, <2>1 DEF RowsOf
<1>14. IsKg(kg)
  <2>1. ASSUME NEW i \in DOMAIN kg.entities
        PROVE  /\ kg.entities[i].name \in DOMAIN NameBytes
               /\ kg.entities[i].sources \in Seq(ToSet(kg.entities[i].sources))
    <3>1. ASSUME NEW s \in Seq(Nat)
          PROVE  s \in Seq(ToSet(s))
      <4>1. \A k \in 1 .. Len(s) : s[k] \in ToSet(s)
        BY DEF ToSet
      <4> QED
        BY <4>1
    <3> QED
      BY <1>13, <3>1 DEF Named
  <2>2. ASSUME NEW i \in DOMAIN kg.relations
        PROVE  {kg.relations[i].src, kg.relations[i].tgt} \subseteq DOMAIN NameBytes
    <3>1. <<kg.relations[i].src, kg.relations[i].tgt>> \in Ordered
      <4>1. <<kg.relations[i].src, kg.relations[i].tgt>> \in DOMAIN kept
        BY <1>6, Zenon
      <4>2. DOMAIN kept \subseteq Ordered
        BY <1>4, AccIs, Zenon
      <4> QED
        BY <4>1, <4>2
    <3> QED
      BY <3>1 DEF Ordered, Named
  <2>3. /\ kg.chunks \in Seq(ToSet(kg.chunks))
        /\ \A i \in DOMAIN kg.chunks : kg.chunks[i] = <<kg.chunks[i][1], kg.chunks[i][2]>>
    BY <1>2, RowsFacts
  <2> QED
    BY <1>5, <1>6, <2>1, <2>2, <2>3 DEF IsKg
<1>a. \A i \in DOMAIN kg.chunks : kg.chunks[i][1] \in DOMAIN ChunkTexts(kg)
  BY DEF ChunkTexts
<1>15. ~Stray(kg)
  <2>1. ASSUME NEW i \in DOMAIN kg.entities, NEW id \in ToSet(kg.entities[i].sources)
        PROVE  id \in DOMAIN ChunkTexts(kg)
    <3>1. id \in { d.chunk : d \in Mine(EntitiesOf(doc), kg.entities[i].name) }
      BY <1>9 DEF MergedFrom
    <3>2. PICK d \in EntitiesOf(doc) : d.chunk = id
      BY <3>1 DEF Mine
    <3>3. PICK k \in 1 .. Len(Live(doc)) : d \in ToSet(EntitiesAt(doc, k))
      BY LiveChunk DEF EntitiesOf, EntitiesAt
    <3>4. id = Live(doc)[k][1]
      BY <3>2, <3>3, ChunkDrafts
    <3>5. k \in DOMAIN kg.chunks /\ kg.chunks[k][1] = id
      BY <1>2, <3>4, RowsFacts
    <3> QED
      BY <1>a, <3>5
  <2> QED
    BY <2>1 DEF Stray
<1> QED
  BY <1>12, <1>14, <1>15

-----------------------------------------------------------------------------
(* The inductive invariant.  A request at work has merged the chunks before *)
(* its next one; one that has a KG has that of its document; the store is   *)
(* one built from a single KG under the tenant's hashes; and the answer is  *)
(* a join over that KG.                                                     *)
AnyPending == UNION { Pending(doc) : doc \in Docs }
AnyKg ==
  UNION { { Assemble(Rows(doc), m.entities, m.relations) : m \in Pending(doc) } : doc \in Docs }

JobRecords ==
  [pc : {"idle", "queued", "extracting", "extracted"} \cup Terminal,
   client : BOOLEAN, doc : Docs \cup {<<>>}, next : Nat,
   merged : AnyPending \cup {NoJob.merged}, kg : AnyKg \cup {NoKg}]

JobSound(job) ==
  /\ job.pc = "idle" => job.next = 1 /\ job.merged = NoJob.merged
  /\ job.pc \in {"queued", "extracting"} =>
       /\ job.doc \in Docs /\ job.next \in 1 .. Len(Live(job.doc)) + 1
       /\ Progress(job.merged, job.doc, job.next - 1)
  /\ job.pc \in Extracted =>
       job.doc \in Docs /\ IsKgOf(job.kg, job.doc) /\ IsKg(job.kg) /\ ~Stray(job.kg)

StoreSound ==
  store = NoStore \/
    /\ \E order \in Orders : store = BuildFromKg(store.kg, hash, order)
    /\ IsKg(store.kg)
    /\ store.kg \in SuppliedKgs \/ ~Stray(store.kg)

AnswerSound ==
  answer = NoAnswer \/
    /\ store # NoStore
    /\ answer.ok => Joins(answer, store.kg)
    /\ ~answer.ok => Stray(store.kg)

PipelineInv ==
  /\ jobs \in [Jobs -> JobRecords]
  /\ \A j \in Jobs : JobSound(jobs[j])
  /\ hash \in HashPairs
  /\ StoreSound
  /\ AnswerSound

LEMMA NoJobSound == NoJob \in JobRecords /\ JobSound(NoJob)
<1> DEFINE none == NoJob.merged
<1>1. NoJob = [pc |-> "idle", client |-> TRUE, doc |-> <<>>, next |-> 1, merged |-> none, kg |-> NoKg]
  BY DEF NoJob
<1>2. JobRecords = [pc : {"idle", "queued", "extracting", "extracted"} \cup Terminal, client : BOOLEAN,
                    doc : Docs \cup {<<>>}, next : Nat, merged : AnyPending \cup {none}, kg : AnyKg \cup {NoKg}]
  BY DEF JobRecords
<1> HIDE DEF none
<1>3. NoJob \in JobRecords
  BY <1>1, <1>2
<1>4. NoJob.pc = "idle" /\ NoJob.next = 1
  BY <1>1
<1> QED
  BY <1>3, <1>4 DEF JobSound, Extracted

LEMMA PipelineInit == Init => PipelineInv
<1> SUFFICES ASSUME Init
             PROVE  PipelineInv
  OBVIOUS
<1> QED
  BY NoJobSound DEF Init, PipelineInv, StoreSound, AnswerSound

(* A request that has changed alone leaves the invariant to itself.        *)
LEMMA OneJob ==
  ASSUME PipelineInv, NEW j \in Jobs, NEW new \in JobRecords, JobSound(new),
         jobs' = [jobs EXCEPT ![j] = new], UNCHANGED <<store, hash, answer>>
  PROVE  PipelineInv'
<1>1. jobs' \in [Jobs -> JobRecords] /\ \A i \in Jobs : JobSound(jobs'[i])
  BY DEF PipelineInv
<1>2. hash' \in HashPairs /\ StoreSound' /\ AnswerSound'
  BY DEF PipelineInv, StoreSound, AnswerSound
<1> QED
  BY <1>1, <1>2 DEF PipelineInv, JobSound

LEMMA JobOver ==
  ASSUME NEW pc \in {"failed", "dropped", "done", "refused"}
  PROVE  Over(pc) \in JobRecords /\ JobSound(Over(pc))
<1>1. NoJob \in JobRecords
  BY NoJobSound
<1>2. Over(pc) \in JobRecords /\ Over(pc).pc = pc
  BY <1>1 DEF Over, JobRecords, Terminal
<1> QED
  BY <1>2 DEF JobSound, Extracted

LEMMA JobEnded ==
  ASSUME PipelineInv, NEW j \in Jobs, NEW pc \in {"failed", "dropped", "done", "refused"},
         jobs' = Ended(j, pc)
  PROVE  \E new \in JobRecords : JobSound(new) /\ jobs' = [jobs EXCEPT ![j] = new]
<1>1. jobs' = [jobs EXCEPT ![j] = Over(IF jobs[j].client THEN pc ELSE "dropped")]
  BY DEF Ended
<1> QED
  BY <1>1, JobOver

LEMMA JobTyped ==
  ASSUME PipelineInv, NEW j \in Jobs
  PROVE  jobs[j] \in JobRecords /\ JobSound(jobs[j]) /\ jobs[j].next \in Nat
BY DEF PipelineInv, JobRecords

LEMMA QueuedJob ==
  ASSUME PipelineInv, NEW j \in Jobs, NEW doc \in Docs, ExtractAndBuild(j, doc)
  PROVE  PipelineInv'
<1> DEFINE job == jobs[j]
           queued == [job EXCEPT !.pc = "queued"]
           new == [queued EXCEPT !.doc = doc]
<1>1. job \in JobRecords /\ job.pc = "idle" /\ JobSound(job)
  BY JobTyped DEF ExtractAndBuild
<1>2. jobs' = [jobs EXCEPT ![j] = new]
  <2>1. jobs' = [jobs EXCEPT ![j].pc = "queued", ![j].doc = doc]
    BY DEF ExtractAndBuild
  <2>2. j \in DOMAIN jobs
    BY DEF PipelineInv
  <2> QED
    BY <2>1, <2>2
<1> HIDE DEF job
<1>3. queued \in JobRecords /\ queued.pc = "queued"
      /\ queued.next = job.next /\ queued.merged = job.merged
  BY <1>1 DEF JobRecords
<1> HIDE DEF queued
<1>4. new \in JobRecords /\ new.pc = "queued" /\ new.doc = doc
      /\ new.next = job.next /\ new.merged = job.merged
  BY <1>3 DEF JobRecords
<1> HIDE DEF new
<1>5. IsDoc(doc) /\ Len(Live(doc)) \in Nat
  BY DocAssumption, LiveChunk
<1>6. new.next = 1 /\ Progress(new.merged, doc, 0)
  <2>1. new.next = 1 /\ new.merged = NoJob.merged
    BY <1>1, <1>4 DEF JobSound
  <2>2. NoJob.merged = [entities |-> NoneYet, relations |-> NoneYet]
    BY DEF NoJob
  <2> QED
    BY <1>5, <2>1, <2>2, NothingMerged
<1>7. JobSound(new)
  <2>1. new.next \in 1 .. Len(Live(doc)) + 1 /\ new.next - 1 = 0
    BY <1>5, <1>6
  <2> QED
    BY <1>4, <1>6, <2>1 DEF JobSound, Extracted
<1> QED
  BY <1>2, <1>4, <1>7, OneJob DEF ExtractAndBuild

LEMMA EndedJob ==
  ASSUME PipelineInv, NEW j \in Jobs, NEW pc \in {"failed", "dropped", "done", "refused"},
         jobs' = Ended(j, pc), UNCHANGED <<store, hash, answer>>
  PROVE  PipelineInv'
<1>1. PICK new \in JobRecords : JobSound(new) /\ jobs' = [jobs EXCEPT ![j] = new]
  BY JobEnded
<1> QED
  BY <1>1, OneJob

LEMMA LockingJob ==
  ASSUME PipelineInv, NEW j \in Jobs, LockEngines(j)
  PROVE  PipelineInv'
<1>1. CASE jobs' = Ended(j, "failed")
  BY <1>1, EndedJob DEF LockEngines
<1>2. CASE jobs' = [jobs EXCEPT ![j].pc = "extracting"]
  <2> DEFINE job == jobs[j]
             new == [job EXCEPT !.pc = "extracting"]
  <2>1. job \in JobRecords /\ job.pc = "queued" /\ JobSound(job)
    BY JobTyped DEF LockEngines
  <2>2. jobs' = [jobs EXCEPT ![j] = new]
    BY <1>2 DEF PipelineInv
  <2> HIDE DEF job
  <2>3. new \in JobRecords /\ new.pc = "extracting" /\ new.doc = job.doc
        /\ new.next = job.next /\ new.merged = job.merged
    BY <2>1 DEF JobRecords
  <2> HIDE DEF new
  <2>4. JobSound(new)
    BY <2>1, <2>3 DEF JobSound, Extracted
  <2> QED
    BY <2>2, <2>3, <2>4, OneJob DEF LockEngines
<1> QED
  BY <1>1, <1>2 DEF LockEngines

(* A batch is the chunks from the next one on, as many as there are.       *)
LEMMA BatchFacts ==
  ASSUME NEW job, IsDoc(job.doc), job.next \in 1 .. Len(Live(job.doc)) + 1
  PROVE  \/ Batch(job) = <<>> /\ job.next = Len(Live(job.doc)) + 1
         \/ \E last \in Nat : /\ job.next <= last /\ last <= Len(Live(job.doc))
                              /\ Batch(job) = SubSeq(Live(job.doc), job.next, last)
                              /\ Len(Batch(job)) = last - job.next + 1
<1> DEFINE L == Live(job.doc)
           size == IF BatchSize < 1 THEN 1 ELSE BatchSize
           last == IF job.next + size - 1 < Len(L) THEN job.next + size - 1 ELSE Len(L)
<1>1. Batch(job) = SubSeq(L, job.next, last)
  BY DEF Batch
<1>2. size \in Nat /\ size >= 1 /\ Len(L) \in Nat /\ \E V : L \in Seq(V)
  <2>1. size \in Nat /\ size >= 1
    BY PipelineAssumption
  <2>2. L \in Seq({ <<i, job.doc[i]>> : i \in DOMAIN job.doc })
    BY LiveFacts
  <2>3. Len(L) \in Nat
    BY LiveChunk
  <2> HIDE DEF L
  <2> QED
    BY <2>1, <2>2, <2>3
<1> HIDE DEF L, size
<1>3. last \in Nat /\ last <= Len(L) /\ (job.next <= last \/ (job.next = Len(L) + 1 /\ last = Len(L)))
  BY <1>2 DEF L
<1> HIDE DEF last
<1>4. PICK V : L \in Seq(V)
  BY <1>2
<1>5. CASE job.next <= last
  <2>1. job.next \in Nat \ {0}
    BY <1>2 DEF L
  <2>2. Len(SubSeq(L, job.next, last)) = last - job.next + 1
    BY <1>3, <1>4, <1>5, <2>1
  <2> QED
    BY <1>1, <1>3, <1>5, <2>2 DEF L
<1>6. CASE job.next = Len(L) + 1 /\ last = Len(L)
  <2>1. SubSeq(L, Len(L) + 1, Len(L)) = <<>>
    BY <1>4
  <2> QED
    BY <1>1, <1>6, <2>1 DEF L
<1> QED
  BY <1>3, <1>5, <1>6

LEMMA GeneratingJob ==
  ASSUME PipelineInv, NEW j \in Jobs, GenerateBatch(j)
  PROVE  PipelineInv'
<1> DEFINE job == jobs[j]
           doc == job.doc
           merged == MergeChunks(job.merged, Batch(job))
           on == [job EXCEPT !.next = job.next + Len(Batch(job))]
           new == [on EXCEPT !.merged = merged]
<1>1. job \in JobRecords /\ job.pc = "extracting" /\ JobSound(job) /\ Batch(job) # <<>>
  BY JobTyped DEF GenerateBatch
<1>2. /\ doc \in Docs /\ job.next \in 1 .. Len(Live(doc)) + 1
      /\ Progress(job.merged, doc, job.next - 1)
  BY <1>1 DEF JobSound
<1>3. IsDoc(doc) /\ Len(Live(doc)) \in Nat
  BY <1>2, DocAssumption, LiveChunk
<1>4. PICK last \in Nat : /\ job.next <= last /\ last <= Len(Live(doc))
                          /\ Batch(job) = SubSeq(Live(doc), job.next, last)
                          /\ Len(Batch(job)) = last - job.next + 1
  BY <1>1, <1>2, <1>3, BatchFacts
<1>5. Progress(merged, doc, last)
  <2> DEFINE from == job.next - 1
  <2>1. from \in Nat /\ from <= last /\ from + 1 = job.next
    BY <1>2, <1>3, <1>4
  <2>2. Progress(MergeChunks(job.merged, SubSeq(Live(doc), from + 1, last)), doc, last)
    <3> HIDE DEF from, job, doc
    <3>1. Progress(job.merged, doc, from)
      BY <1>2 DEF from
    <3> QED
      BY <1>3, <1>4, <2>1, <3>1, MergeChunksKeep
  <2> QED
    BY <1>4, <2>1, <2>2
<1>6. jobs' = [jobs EXCEPT ![j] = new]
  <2>1. jobs' = [jobs EXCEPT ![j] = MergeBatch(jobs[j])]
    BY DEF GenerateBatch, PipelineInv
  <2>2. MergeBatch(job) = new
    BY DEF MergeBatch
  <2> QED
    BY <2>1, <2>2
<1>7. job.next + Len(Batch(job)) = last + 1 /\ last + 1 \in Nat
  BY <1>2, <1>3, <1>4
<1>8. merged \in AnyPending
  BY <1>2, <1>5 DEF Progress, AnyPending
<1> HIDE DEF job, merged
<1>9. on \in JobRecords /\ on.pc = job.pc /\ on.doc = job.doc /\ on.next = last + 1
  BY <1>1, <1>7 DEF JobRecords
<1> HIDE DEF on
<1>10. new \in JobRecords /\ new.pc = "extracting" /\ new.doc = doc
       /\ new.next = last + 1 /\ new.merged = merged
  BY <1>1, <1>8, <1>9 DEF JobRecords
<1> HIDE DEF new, doc
<1>11. JobSound(new)
  <2>1. new.next \in 1 .. Len(Live(doc)) + 1 /\ new.next - 1 = last
    BY <1>3, <1>4, <1>10
  <2> QED
    BY <1>2, <1>5, <1>10, <2>1 DEF JobSound, Extracted
<1> QED
  BY <1>6, <1>10, <1>11, OneJob DEF GenerateBatch

LEMMA FinishedJob ==
  ASSUME PipelineInv, NEW j \in Jobs, FinishExtraction(j)
  PROVE  PipelineInv'
<1> DEFINE job == jobs[j]
           doc == job.doc
           kg == Assemble(Rows(doc), job.merged.entities, job.merged.relations)
           done == [job EXCEPT !.pc = "extracted"]
           new == [done EXCEPT !.kg = kg]
<1>1. job \in JobRecords /\ job.pc = "extracting" /\ JobSound(job) /\ Batch(job) = <<>>
  BY JobTyped DEF FinishExtraction
<1>2. /\ doc \in Docs /\ job.next \in 1 .. Len(Live(doc)) + 1
      /\ Progress(job.merged, doc, job.next - 1)
  BY <1>1 DEF JobSound
<1>3. IsDoc(doc) /\ Len(Live(doc)) \in Nat
  BY <1>2, DocAssumption, LiveChunk
<1>4. job.next - 1 = Len(Live(doc))
  <2>1. job.next = Len(Live(doc)) + 1
    BY <1>1, <1>2, <1>3, BatchFacts
  <2> QED
    BY <1>3, <2>1
<1>5. IsKgOf(kg, doc) /\ IsKg(kg) /\ ~Stray(kg) /\ kg \in AnyKg
  <2>1. Progress(job.merged, doc, Len(Live(doc)))
    BY <1>2, <1>4
  <2>2. IsKgOf(kg, doc) /\ IsKg(kg) /\ ~Stray(kg)
    BY <1>3, <2>1, Assembled
  <2>3. job.merged \in Pending(doc)
    BY <2>1 DEF Progress
  <2>4. kg \in AnyKg
    BY <1>2, <2>3 DEF AnyKg
  <2> QED
    BY <2>2, <2>4
<1>6. CASE jobs' = Ended(j, "dropped")
  BY <1>6, EndedJob DEF FinishExtraction
<1>7. CASE jobs' = [jobs EXCEPT ![j].pc = "extracted", ![j].kg = kg]
  <2>1. jobs' = [jobs EXCEPT ![j] = new]
    <3>1. j \in DOMAIN jobs
      BY DEF PipelineInv
    <3> HIDE DEF kg
    <3> QED
      BY <1>7, <3>1
  <2> HIDE DEF job, kg
  <2>2. done \in JobRecords /\ done.pc = "extracted" /\ done.doc = job.doc
    BY <1>1 DEF JobRecords
  <2> HIDE DEF done
  <2>3. new \in JobRecords /\ new.pc = "extracted" /\ new.doc = job.doc /\ new.kg = kg
    BY <1>5, <2>2 DEF JobRecords
  <2> HIDE DEF new
  <2>4. JobSound(new)
    BY <1>2, <1>5, <2>3 DEF JobSound, Extracted
  <2> QED
    BY <2>1, <2>3, <2>4, OneJob DEF FinishExtraction
<1> QED
  BY <1>6, <1>7 DEF FinishExtraction

LEMMA DisconnectedJob ==
  ASSUME PipelineInv, NEW j \in Jobs, Disconnect(j)
  PROVE  PipelineInv'
<1> DEFINE job == jobs[j]
           new == [job EXCEPT !.client = FALSE]
<1>1. job \in JobRecords /\ JobSound(job)
  BY JobTyped
<1>2. CASE job.pc \in {"queued", "extracting"}
  <2>1. jobs' = [jobs EXCEPT ![j] = new]
    BY <1>2 DEF Disconnect, PipelineInv
  <2> HIDE DEF job
  <2>2. new \in JobRecords /\ new.pc = job.pc /\ new.doc = job.doc /\ new.next = job.next
        /\ new.merged = job.merged /\ new.kg = job.kg
    BY <1>1 DEF JobRecords
  <2> HIDE DEF new
  <2>3. JobSound(new)
    BY <1>1, <2>2 DEF JobSound
  <2> QED
    BY <2>1, <2>2, <2>3, OneJob DEF Disconnect
<1>3. CASE job.pc = "extracted"
  <2>1. jobs' = [jobs EXCEPT ![j] = Over("dropped")]
    BY <1>3 DEF Disconnect
  <2> QED
    BY <2>1, JobOver, OneJob DEF Disconnect
<1> QED
  BY <1>2, <1>3 DEF Disconnect

(* A rebuild replaces the store whole and forgets the last answer.         *)
LEMMA Replaced ==
  ASSUME PipelineInv, NEW kg, IsKg(kg), kg \in SuppliedKgs \/ ~Stray(kg), NEW order \in Orders,
         Replace(kg, order), hash' = hash
  PROVE  hash' \in HashPairs /\ StoreSound' /\ AnswerSound'
<1>1. store' = BuildFromKg(kg, hash, order) /\ store'.kg = kg
  BY DEF Replace, BuildFromKg
<1>2. StoreSound'
  BY <1>1 DEF StoreSound
<1>3. AnswerSound'
  BY DEF AnswerSound, Replace
<1> QED
  BY <1>2, <1>3 DEF PipelineInv

LEMMA IngestedJob ==
  ASSUME PipelineInv, NEW j \in Jobs, NEW order \in Orders, IngestExtracted(j, order)
  PROVE  PipelineInv'
<1> DEFINE job == jobs[j]
           new == [job EXCEPT !.pc = "panicked"]
<1>1. job \in JobRecords /\ job.pc = "extracted" /\ JobSound(job) /\ hash' = hash
  BY JobTyped DEF IngestExtracted
<1>2. IsKg(job.kg) /\ ~Stray(job.kg)
  BY <1>1 DEF JobSound, Extracted
<1>3. CASE jobs' = Ended(j, "done") /\ UNCHANGED <<store, answer>>
  BY <1>1, <1>3, EndedJob
<1>4. CASE jobs' = Ended(j, "refused") /\ UNCHANGED <<store, answer>>
  BY <1>1, <1>4, EndedJob
<1>5. CASE jobs' = [jobs EXCEPT ![j].pc = "panicked"] /\ UNCHANGED <<store, answer>>
  <2>1. jobs' = [jobs EXCEPT ![j] = new]
    BY <1>5 DEF PipelineInv
  <2> HIDE DEF job
  <2>2. new \in JobRecords /\ new.pc = "panicked" /\ new.doc = job.doc /\ new.kg = job.kg
    BY <1>1 DEF JobRecords, Terminal
  <2> HIDE DEF new
  <2>3. JobSound(new)
    BY <1>1, <2>2 DEF JobSound, Extracted
  <2> QED
    BY <1>1, <1>5, <2>1, <2>2, <2>3, OneJob
<1>6. CASE jobs' = Ended(j, "done") /\ Replace(job.kg, order)
  <2>1. PICK over \in JobRecords : JobSound(over) /\ jobs' = [jobs EXCEPT ![j] = over]
    BY <1>6, JobEnded
  <2>2. jobs' \in [Jobs -> JobRecords] /\ \A i \in Jobs : JobSound(jobs'[i])
    BY <2>1 DEF PipelineInv
  <2>3. hash' \in HashPairs /\ StoreSound' /\ AnswerSound'
    BY <1>1, <1>2, <1>6, Replaced
  <2> QED
    BY <2>2, <2>3 DEF PipelineInv, JobSound
<1> QED
  BY <1>3, <1>4, <1>5, <1>6 DEF IngestExtracted

LEMMA Ingested ==
  ASSUME PipelineInv, NEW kg \in SuppliedKgs, NEW order \in Orders, Ingest(kg, order)
  PROVE  PipelineInv'
<1>1. IsKg(kg)
  BY KgAssumption
<1>2. hash' \in HashPairs /\ StoreSound' /\ AnswerSound'
  BY <1>1, Replaced DEF Ingest
<1>3. jobs' \in [Jobs -> JobRecords] /\ \A i \in Jobs : JobSound(jobs'[i])
  BY DEF Ingest, PipelineInv
<1> QED
  BY <1>2, <1>3 DEF PipelineInv, JobSound

LEMMA FoundIds ==
  ASSUME NEW rows, NEW ids \in Found(rows)
  PROVE  ids \in Seq(DOMAIN rows)
<1>1. PICK n \in 0 .. TopK : ids \in [1 .. n -> DOMAIN rows]
  BY DEF Found
<1>2. n \in Nat
  BY PipelineAssumption
<1> QED
  BY <1>1, <1>2

LEMMA Answered ==
  ASSUME PipelineInv, store # NoStore, NEW e \in Found(store.kg.entities),
         NEW r \in Found(store.kg.relations), Query(e, r)
  PROVE  PipelineInv'
<1> DEFINE kg == store.kg
<1>1. PICK order \in Orders : store = BuildFromKg(kg, hash, order)
  BY DEF PipelineInv, StoreSound
<1>2. IsKg(kg) /\ hash \in HashPairs
  BY DEF PipelineInv, StoreSound
<1>3. e \in Seq(DOMAIN kg.entities) /\ r \in Seq(DOMAIN kg.relations)
  BY FoundIds
<1>4. answer' = QueryContext(BuildFromKg(kg, hash, order), hash, e, r, TopChunks)
  BY <1>1 DEF Query
<1> HIDE DEF kg
<1>5. (answer'.ok => Joins(answer', kg)) /\ (~answer'.ok => Stray(kg))
  BY <1>2, <1>3, <1>4, QueryAnswers
<1>6. AnswerSound'
  BY <1>5 DEF AnswerSound, Query, kg
<1>7. StoreSound' /\ hash' \in HashPairs
  BY DEF Query, PipelineInv, StoreSound
<1>8. jobs' \in [Jobs -> JobRecords] /\ \A i \in Jobs : JobSound(jobs'[i])
  BY DEF Query, PipelineInv
<1> QED
  BY <1>6, <1>7, <1>8 DEF PipelineInv, JobSound

LEMMA PipelineNext == PipelineInv /\ [Next]_vars => PipelineInv'
<1> SUFFICES ASSUME PipelineInv, [Next]_vars
             PROVE  PipelineInv'
  OBVIOUS
<1>1. ASSUME NEW j \in Jobs, LockEngines(j)
      PROVE  PipelineInv'
  BY <1>1, LockingJob
<1>2. ASSUME NEW j \in Jobs, ExtractionFails(j)
      PROVE  PipelineInv'
  BY <1>2, EndedJob DEF ExtractionFails
<1>3. ASSUME NEW j \in Jobs, EnginePanics(j)
      PROVE  PipelineInv'
  BY <1>3, EndedJob DEF EnginePanics
<1>4. ASSUME NEW j \in Jobs, GenerateBatch(j)
      PROVE  PipelineInv'
  BY <1>4, GeneratingJob
<1>5. ASSUME NEW j \in Jobs, FinishExtraction(j)
      PROVE  PipelineInv'
  BY <1>5, FinishedJob
<1>6. ASSUME NEW j \in Jobs, Disconnect(j)
      PROVE  PipelineInv'
  BY <1>6, DisconnectedJob
<1>7. ASSUME NEW j \in Jobs, NEW doc \in Docs, ExtractAndBuild(j, doc)
      PROVE  PipelineInv'
  BY <1>7, QueuedJob
<1>8. ASSUME NEW j \in Jobs, NEW order \in Orders, IngestExtracted(j, order)
      PROVE  PipelineInv'
  BY <1>8, IngestedJob
<1>9. ASSUME NEW kg \in SuppliedKgs, NEW order \in Orders, Ingest(kg, order)
      PROVE  PipelineInv'
  BY <1>9, Ingested
<1>10. ASSUME store # NoStore, NEW e \in Found(store.kg.entities),
              NEW r \in Found(store.kg.relations), Query(e, r)
       PROVE  PipelineInv'
  BY <1>10, Answered
<1>11. CASE UNCHANGED vars
  BY <1>11 DEF vars, PipelineInv, JobSound, StoreSound, AnswerSound
<1> QED
  BY <1>1, <1>2, <1>3, <1>4, <1>5, <1>6, <1>7, <1>8, <1>9, <1>10, <1>11 DEF Next, TaskStep

(* The invariant of the routes: whatever the requests, disconnections and   *)
(* poisoned locks, the tenant's store is one KG's and its answer a join.    *)
THEOREM RoutesStaySound == Spec => []PipelineInv
BY PipelineInit, PipelineNext, PTL DEF Spec

(* However its chunks are batched, the KG an extraction hands over is that  *)
(* of its whole document (extract_kg_from_chunks' merge in input order).    *)
THEOREM WholeDocument == Spec => []KgOfWholeDocument
<1>1. PipelineInv => KgOfWholeDocument
  BY DEF PipelineInv, JobSound, KgOfWholeDocument
<1> QED
  BY <1>1, RoutesStaySound, PTL

(* query_context answers from one graph and loses nothing in the multimaps. *)
THEOREM AnswersJoin == Spec => []AnswerJoinsTheGraph
<1>1. ASSUME PipelineInv
      PROVE  AnswerJoinsTheGraph
  <2> SUFFICES ASSUME answer.ok, answer.entities # <<>>
               PROVE  AnswerJoinsTheGraph
    BY Zenon DEF AnswerJoinsTheGraph
  <2>1. answer # NoAnswer
    BY DEF NoAnswer
  <2>2. Joins(answer, store.kg)
    BY <1>1, <2>1 DEF PipelineInv, AnswerSound
  <2> QED
    BY <2>2, Zenon DEF Joins, ListCut, AnswerJoinsTheGraph
<1> QED
  BY <1>1, RoutesStaySound, PTL

(* A query fails on nothing but a chunk the client itself left out.         *)
THEOREM OnlyStrayChunksFail == Spec => []QueryFailsOnlyOnStrayChunk
<1>1. ASSUME PipelineInv
      PROVE  QueryFailsOnlyOnStrayChunk
  <2> SUFFICES ASSUME ~answer.ok
               PROVE  QueryFailsOnlyOnStrayChunk
    BY Zenon DEF QueryFailsOnlyOnStrayChunk
  <2>1. answer # NoAnswer
    BY DEF NoAnswer
  <2>2. store # NoStore /\ Stray(store.kg)
    BY <1>1, <2>1 DEF PipelineInv, AnswerSound
  <2>a. store.kg \in SuppliedKgs /\ \E order \in Orders : store = BuildFromKg(store.kg, hash, order)
    BY <1>1, <2>2 DEF PipelineInv, StoreSound
  <2>b. \A kg, h, order : BuildFromKg(kg, h, order).texts = ChunkTexts(kg)
    BY DEF BuildFromKg
  <2>3. store.kg \in SuppliedKgs /\ store.texts = ChunkTexts(store.kg)
    BY <2>a, <2>b
  <2> QED
    BY <2>2, <2>3 DEF Stray, QueryFailsOnlyOnStrayChunk
<1> QED
  BY <1>1, RoutesStaySound, PTL
=============================================================================
