--------------------------- MODULE GenerationProofs ---------------------------
(***************************************************************************)
(* Proofs about Generation, for every set of jobs, vocabulary and stop     *)
(* tokens that satisfies its assumptions.                                  *)
(***************************************************************************)
EXTENDS Generation, TLAPS, WellFoundedInduction, SequenceTheorems, FiniteSetTheorems

-----------------------------------------------------------------------------
(* Sequences of rows.  A row is a term without a type, so a sequence of    *)
(* rows is known by its length alone.                                      *)
Rows(s, n) == n \in Nat /\ s = [i \in 1 .. n |-> s[i]]

LEMMA RowsAreSeq ==
  ASSUME NEW s, NEW n, Rows(s, n)
  PROVE  /\ s \in Seq({s[i] : i \in 1 .. n})
         /\ Len(s) = n /\ n \in Nat
         /\ DOMAIN s = 1 .. n
<1>1. n \in Nat /\ s = [i \in 1 .. n |-> s[i]]
  BY DEF Rows
<1>2. s \in [1 .. n -> {s[i] : i \in 1 .. n}]
  BY <1>1
<1> QED
  BY <1>1, <1>2

LEMMA SeqIsRows ==
  ASSUME NEW S, NEW s \in Seq(S)
  PROVE  Rows(s, Len(s))
BY DEF Rows

LEMMA SubRows ==
  ASSUME NEW s, NEW n, Rows(s, n), NEW a \in 1 .. n, NEW z \in 1 .. n, a <= z
  PROVE  SubSeq(s, a, z) = [c \in 1 .. (z + 1 - a) |-> s[a + c - 1]]
<1> DEFINE S == {s[i] : i \in 1 .. n}
<1>1. s \in Seq(S) /\ Len(s) = n /\ n \in Nat
  BY RowsAreSeq
<1> HIDE DEF S
<1>2. /\ SubSeq(s, a, z) \in Seq(S)
      /\ Len(SubSeq(s, a, z)) = z - a + 1
      /\ \A i \in 1 .. (z - a + 1) : SubSeq(s, a, z)[i] = s[a + i - 1]
  BY <1>1, SubSeqProperties
<1> QED
  BY <1>1, <1>2

Joins(u, s, m, t, n) ==
  /\ Rows(u, m + n)
  /\ \A i \in 1 .. m : u[i] = s[i]
  /\ \A i \in 1 .. n : u[m + i] = t[i]

LEMMA JoinedRows ==
  ASSUME NEW s, NEW m, Rows(s, m), NEW t, NEW n, Rows(t, n)
  PROVE  Joins(s \o t, s, m, t, n)
<1> DEFINE S == {s[i] : i \in 1 .. m} \cup {t[i] : i \in 1 .. n}
<1>1. /\ s \in Seq({s[i] : i \in 1 .. m}) /\ Len(s) = m /\ m \in Nat
      /\ t \in Seq({t[i] : i \in 1 .. n}) /\ Len(t) = n /\ n \in Nat
  BY RowsAreSeq
<1>2. s \in Seq(S) /\ t \in Seq(S)
  BY <1>1
<1> HIDE DEF S
<1>3. s \o t \in Seq(S) /\ Len(s \o t) = m + n
  BY <1>1, <1>2
<1>4. /\ \A i \in 1 .. m : (s \o t)[i] = s[i]
      /\ \A i \in 1 .. n : (s \o t)[m + i] = t[i]
  BY <1>1, <1>2
<1> QED
  BY <1>3, <1>4, SeqIsRows, Zenon DEF Joins

Appends(u, s, m, e) ==
  /\ Rows(u, m + 1)
  /\ \A i \in 1 .. m : u[i] = s[i]
  /\ u[m + 1] = e

LEMMA JoinedSeq ==
  ASSUME NEW S, NEW s \in Seq(S), NEW t \in Seq(S)
  PROVE  s \o t \in Seq(S) /\ Len(s \o t) = Len(s) + Len(t)
OBVIOUS

LEMMA AppendedRow ==
  ASSUME NEW s, NEW m, Rows(s, m), NEW e
  PROVE  Appends(Append(s, e), s, m, e)
<1> DEFINE S == {s[i] : i \in 1 .. m} \cup {e}
<1>1. s \in Seq({s[i] : i \in 1 .. m}) /\ Len(s) = m /\ m \in Nat
  BY RowsAreSeq
<1>2. s \in Seq(S) /\ e \in S
  BY <1>1
<1> HIDE DEF S
<1> QED
  BY <1>1, <1>2 DEF Rows, Appends

LEMMA AppendIsJoin ==
  ASSUME NEW s, NEW m, Rows(s, m), NEW t, Rows(t, 1)
  PROVE  Append(s, t[1]) = s \o t
<1>1. Appends(Append(s, t[1]), s, m, t[1])
  BY AppendedRow
<1>2. Joins(s \o t, s, m, t, 1)
  BY JoinedRows
<1> DEFINE u == s \o t
           v == Append(s, t[1])
<1> HIDE DEF u, v
<1>3. /\ m \in Nat /\ Rows(u, m + 1) /\ Rows(v, m + 1)
      /\ \A i \in 1 .. m : u[i] = s[i] /\ v[i] = s[i]
      /\ u[m + 1] = t[1] /\ v[m + 1] = t[1]
  BY <1>1, <1>2 DEF Joins, Appends, Rows, u, v
<1>4. \A i \in 1 .. m + 1 : u[i] = v[i]
  BY <1>3
<1>5. u = v
  BY <1>3, <1>4 DEF Rows
<1> QED
  BY <1>5 DEF u, v

LEMMA NoRows == Rows(<<>>, 0)
BY DEF Rows

-----------------------------------------------------------------------------
(* The window of a layer starts at the first column the model leaves to    *)
(* the row.                                                                *)
IsConfig(cfg) ==
  cfg \in Config /\ (cfg.classes = <<>> \/ Len(cfg.classes) = cfg.numLayers)

LEMMA LayerNumbers ==
  ASSUME NEW cfg, IsConfig(cfg)
  PROVE  /\ NumLayers(cfg) \in Nat /\ NumLayers(cfg) > 0
         /\ \A lr \in 1 .. NumLayers(cfg) : EffectiveAttentionClass(cfg, lr) \in Nat
<1>1. cfg.numLayers \in Nat \ {0} /\ cfg.classes \in Seq(Nat)
  BY DEF IsConfig, Config
<1> QED
  BY <1>1 DEF IsConfig, NumLayers, EffectiveAttentionClass

LEMMA FlatIs ==
  ASSUME NEW cfg, IsConfig(cfg), NEW lr
  PROVE  /\ IsGlobal(Flat(cfg), lr) /\ EffectiveAttentionClass(Flat(cfg), lr) = 0
         /\ RotatedDim(Flat(cfg), lr) = "all" /\ ~KvShared(Flat(cfg), lr)
<1>1. Flat(cfg).classes = <<>> /\ Flat(cfg).partialRope = FALSE /\ Flat(cfg).kvShared = FALSE
  BY DEF IsConfig, Config, Flat
<1> QED
  BY <1>1 DEF IsGlobal, EffectiveAttentionClass, RotatedDim, KvShared

LEMMA ClassOf ==
  ASSUME NEW cfg, IsConfig(cfg), NEW lr \in 1 .. NumLayers(cfg), NEW fp, NEW i
  PROVE  EffectiveAttentionClass(ComputedAs(cfg, fp, i), lr) \in Nat
BY FlatIs, LayerNumbers DEF ComputedAs

LEMMA FirstSeenIs ==
  ASSUME NEW cfg, NEW lr, EffectiveAttentionClass(cfg, lr) \in Nat, NEW i \in Nat \ {0}
  PROVE  /\ FirstSeen(cfg, lr, i) \in 1 .. i
         /\ IsGlobal(cfg, lr) => FirstSeen(cfg, lr, i) = 1
         /\ ~IsGlobal(cfg, lr) =>
              FirstSeen(cfg, lr, i) =
                (IF i - 1 >= EffectiveAttentionClass(cfg, lr) - 1
                 THEN i - 1 - (EffectiveAttentionClass(cfg, lr) - 1) ELSE 0) + 1
<1> DEFINE w == EffectiveAttentionClass(cfg, lr)
           Least(j) == \A m \in Seen(cfg, lr, i) : j <= m
           f == FirstSeen(cfg, lr, i)
<1>1. CASE IsGlobal(cfg, lr)
  <2>1. Seen(cfg, lr, i) = 1 .. i
    BY <1>1 DEF Seen
  <2>2. 1 \in Seen(cfg, lr, i) /\ Least(1)
    BY <2>1
  <2>3. f \in Seen(cfg, lr, i) /\ Least(f)
    BY <2>2 DEF FirstSeen
  <2> QED
    BY <1>1, <2>1, <2>2, <2>3
<1>2. CASE ~IsGlobal(cfg, lr)
  <2>1. w \in Nat /\ w >= 1
    BY <1>2 DEF IsGlobal
  <2>2. Seen(cfg, lr, i) = {j \in 1 .. i : i - j < w}
    BY <1>2 DEF Seen
  <2> HIDE DEF w
  <2> DEFINE lo == (IF i - 1 >= w - 1 THEN i - 1 - (w - 1) ELSE 0) + 1
  <2>3. lo \in Seen(cfg, lr, i) /\ Least(lo)
    BY <2>1, <2>2
  <2>4. f \in Seen(cfg, lr, i) /\ Least(f)
    BY <2>3 DEF FirstSeen
  <2>5. f \in 1 .. i /\ lo \in 1 .. i
    BY <2>2, <2>3, <2>4
  <2>6. f <= lo /\ lo <= f
    BY <2>3, <2>4
  <2> HIDE DEF f, lo, Least
  <2>7. f = lo /\ f \in 1 .. i
    BY <2>5, <2>6
  <2> QED
    BY <1>2, <2>7 DEF w, f, lo
<1> QED
  BY <1>1, <1>2

LEMMA AttendIs ==
  ASSUME NEW cfg, NEW lr, EffectiveAttentionClass(cfg, lr) \in Nat,
         NEW kvs, NEW n, Rows(kvs, n), NEW p \in 1 .. n
  PROVE  Attend(cfg, lr, kvs, p - 1) =
           [c \in 1 .. p + 1 - FirstSeen(cfg, lr, p) |-> kvs[FirstSeen(cfg, lr, p) + c - 1]]
<1> DEFINE f == FirstSeen(cfg, lr, p)
<1>1. n \in Nat /\ p \in Nat \ {0}
  BY DEF Rows
<1>2. f \in 1 .. p
  BY <1>1, FirstSeenIs
<1>3. Attend(cfg, lr, kvs, p - 1) = SubSeq(kvs, f, p)
  <2>1. CASE IsGlobal(cfg, lr)
    <3>1. f = 1
      BY <1>1, <2>1, FirstSeenIs
    <3> QED
      BY <1>1, <2>1, <3>1 DEF Attend, CausalGqaAttentionCached
  <2>2. CASE ~IsGlobal(cfg, lr)
    <3> DEFINE w == EffectiveAttentionClass(cfg, lr)
    <3>1. f = (IF p - 1 >= w - 1 THEN p - 1 - (w - 1) ELSE 0) + 1
      BY <1>1, <2>2, FirstSeenIs
    <3>2. Attend(cfg, lr, kvs, p - 1) = CausalGqaAttentionSwaCached(kvs, p - 1, w)
      BY <2>2 DEF Attend
    <3> HIDE DEF w, f
    <3> DEFINE lo == IF p - 1 >= w - 1 THEN p - 1 - (w - 1) ELSE 0
    <3>3. lo + 1 = f /\ p - 1 + 1 = p
      BY <1>1, <3>1
    <3>4. CausalGqaAttentionSwaCached(kvs, p - 1, w) = SubSeq(kvs, lo + 1, p - 1 + 1)
      BY DEF CausalGqaAttentionSwaCached
    <3> QED
      BY <3>2, <3>3, <3>4
  <2> QED
    BY <2>1, <2>2
<1> HIDE DEF f
<1>4. SubSeq(kvs, f, p) = [c \in 1 .. (p + 1 - f) |-> kvs[f + c - 1]]
  BY <1>1, <1>2, SubRows
<1> QED
  BY <1>3, <1>4 DEF f

-----------------------------------------------------------------------------
(* The recursion over the layers has a solution, so ReferenceRows is one.  *)
LEMMA LeastNat ==
  ASSUME NEW T \in SUBSET Nat, T # {}
  PROVE  \E x \in T : \A y \in T : ~(y < x)
<1>1. \E x \in T : \A y \in T : ~(<<y, x>> \in OpToRel(<, Nat))
  BY NatLessThanWellFounded, WFMin, Zenon
<1> QED
  BY <1>1 DEF OpToRel

Embedded(ts) == [i \in DOMAIN ts |-> EmbeddingLookup(ts[i])]

Layered(cfg, fp, ts, f, n) ==
  f = [lr \in 0 .. n |->
        IF lr = 0 THEN Embedded(ts) ELSE ReferenceLayer(cfg, fp, lr, f[lr - 1])]

LEMMA LayersExist ==
  ASSUME NEW cfg, NEW fp, NEW ts, NEW n \in Nat
  PROVE  \E f : Layered(cfg, fp, ts, f, n)
<1> DEFINE Bad == {m \in Nat : \A f : ~Layered(cfg, fp, ts, f, m)}
<1>1. ASSUME Bad # {}
      PROVE  FALSE
  <2>1. PICK m \in Bad : \A y \in Bad : ~(y < m)
    BY <1>1, LeastNat
  <2>2. CASE m = 0
    <3>1. Layered(cfg, fp, ts, [lr \in 0 .. 0 |-> Embedded(ts)], 0)
      BY DEF Layered
    <3> QED
      BY <2>1, <2>2, <3>1
  <2>3. CASE m # 0
    <3>1. m \in Nat /\ m - 1 \in Nat /\ m - 1 \notin Bad
      BY <2>1, <2>3
    <3>2. PICK f : Layered(cfg, fp, ts, f, m - 1)
      BY <3>1
    <3> DEFINE g == [lr \in 0 .. m |-> IF lr = m THEN ReferenceLayer(cfg, fp, m, f[m - 1]) ELSE f[lr]]
    <3>3. \A lr \in 0 .. m - 1 :
            f[lr] = IF lr = 0 THEN Embedded(ts) ELSE ReferenceLayer(cfg, fp, lr, f[lr - 1])
      BY <3>2 DEF Layered
    <3>4. \A lr \in 0 .. m - 1 : g[lr] = f[lr]
      BY <3>1
    <3>5. g[m] = ReferenceLayer(cfg, fp, m, g[m - 1])
      BY <3>1, <3>4
    <3>6. ASSUME NEW lr \in 0 .. m
          PROVE  g[lr] = IF lr = 0 THEN Embedded(ts) ELSE ReferenceLayer(cfg, fp, lr, g[lr - 1])
      <4>1. CASE lr = m
        BY <2>3, <3>5, <4>1
      <4>2. CASE lr # m
        <5>1. lr \in 0 .. m - 1 /\ (lr # 0 => lr - 1 \in 0 .. m - 1)
          BY <3>1, <4>2
        <5> QED
          BY <3>3, <3>4, <5>1
      <4> QED
        BY <4>1, <4>2
    <3>7. g = [lr \in 0 .. m |-> g[lr]]
      OBVIOUS
    <3> HIDE DEF g
    <3>8. Layered(cfg, fp, ts, g, m)
      BY <3>6, <3>7 DEF Layered
    <3> QED
      BY <2>1, <3>8
  <2> QED
    BY <2>2, <2>3
<1> QED
  BY <1>1

LEMMA ReferenceRowsLayered ==
  ASSUME NEW cfg, NEW fp, NEW ts, NumLayers(cfg) \in Nat
  PROVE  Layered(cfg, fp, ts, ReferenceRows(cfg, fp, ts), NumLayers(cfg))
<1> DEFINE N == NumLayers(cfg)
           f == CHOOSE g : Layered(cfg, fp, ts, g, N)
<1>1. \E g : Layered(cfg, fp, ts, g, N)
  BY LayersExist
<1>2. Layered(cfg, fp, ts, f, N)
  BY <1>1
<1>3. ReferenceRows(cfg, fp, ts) = f
  BY DEF ReferenceRows, Layered, Embedded
<1> QED
  BY <1>2, <1>3

(* The rows of each layer. *)
LayersOf(f, cfg, fp, ts, n) ==
  /\ Rows(f[0], n)
  /\ \A i \in 1 .. n : f[0][i] = EmbeddingLookup(ts[i])
  /\ \A lr \in 1 .. NumLayers(cfg) : f[lr] = ReferenceLayer(cfg, fp, lr, f[lr - 1])

LEMMA ReferenceRowsAre ==
  ASSUME NEW cfg, NumLayers(cfg) \in Nat, NEW fp, NEW ts, NEW n, Rows(ts, n)
  PROVE  LayersOf(ReferenceRows(cfg, fp, ts), cfg, fp, ts, n)
<1> DEFINE f == ReferenceRows(cfg, fp, ts)
<1>1. Layered(cfg, fp, ts, f, NumLayers(cfg))
  BY ReferenceRowsLayered
<1> HIDE DEF f
<1>2. \A lr \in 0 .. NumLayers(cfg) :
        f[lr] = IF lr = 0 THEN Embedded(ts) ELSE ReferenceLayer(cfg, fp, lr, f[lr - 1])
  BY <1>1 DEF Layered
<1>3. n \in Nat /\ DOMAIN ts = 1 .. n
  BY RowsAreSeq
<1>4. f[0] = [i \in 1 .. n |-> EmbeddingLookup(ts[i])]
  BY <1>2, <1>3 DEF Embedded
<1>5. \A lr \in 1 .. NumLayers(cfg) : f[lr] = ReferenceLayer(cfg, fp, lr, f[lr - 1])
  BY <1>2
<1> QED
  BY <1>3, <1>4, <1>5 DEF f, Rows, LayersOf

RowAfter(cfg, fp, lr, rows, i) ==
  LET own == ComputedAs(cfg, fp, i)
      first == FirstSeen(own, lr, i)
  IN  FinishBlock(lr, rows[i], i - 1, RotatedDim(own, lr),
        [c \in 1 .. i + 1 - first |->
          KeyValue(cfg, fp, lr, i > fp, rows[first + c - 1], first + c - 1)])

LEMMA LayerRow ==
  ASSUME NEW cfg, NEW fp, NEW lr, NEW rows, NEW n, Rows(rows, n)
  PROVE  /\ Rows(ReferenceLayer(cfg, fp, lr, rows), n)
         /\ \A i \in 1 .. n : ReferenceLayer(cfg, fp, lr, rows)[i] = RowAfter(cfg, fp, lr, rows, i)
<1>1. n \in Nat /\ DOMAIN rows = 1 .. n
  BY RowsAreSeq
<1>2. ReferenceLayer(cfg, fp, lr, rows) = [i \in 1 .. n |-> RowAfter(cfg, fp, lr, rows, i)]
  BY <1>1 DEF ReferenceLayer, RowAfter
<1> QED
  BY <1>1, <1>2 DEF Rows

LEMMA LayerIsRows ==
  ASSUME NEW cfg, IsConfig(cfg), NEW fp, NEW ts, NEW n, Rows(ts, n)
  PROVE  \A lr \in 0 .. NumLayers(cfg) : Rows(ReferenceRows(cfg, fp, ts)[lr], n)
<1> DEFINE f == ReferenceRows(cfg, fp, ts)
           N == NumLayers(cfg)
           Bad == {lr \in 0 .. N : ~Rows(f[lr], n)}
<1>1. N \in Nat /\ LayersOf(f, cfg, fp, ts, n)
  BY LayerNumbers, ReferenceRowsAre
<1> HIDE DEF N, f
<1>2. ASSUME Bad # {}
      PROVE  FALSE
  <2>0. Bad \in SUBSET Nat
    BY <1>1
  <2>1. PICK m \in Bad : \A y \in Bad : ~(y < m)
    BY <1>2, <2>0, LeastNat
  <2>2. m # 0
    BY <1>1, <2>1 DEF LayersOf
  <2>3. m \in 1 .. N /\ m - 1 \in 0 .. N /\ m - 1 \notin Bad
    BY <1>1, <2>1, <2>2
  <2>4. f[m] = ReferenceLayer(cfg, fp, m, f[m - 1])
    BY <1>1, <2>3 DEF N, LayersOf
  <2>5. Rows(f[m - 1], n)
    BY <2>3
  <2>6. Rows(f[m], n)
    BY <2>4, <2>5, LayerRow
  <2> QED
    BY <2>1, <2>6
<1> QED
  BY <1>2 DEF N, f

(* No row depends on a token after it. *)
LEMMA PrefixRows ==
  ASSUME NEW cfg, IsConfig(cfg), NEW fp, NEW s, NEW m, Rows(s, m), NEW t, NEW n, Rows(t, n),
         m <= n, \A i \in 1 .. m : t[i] = s[i]
  PROVE  \A lr \in 0 .. NumLayers(cfg) : \A j \in 1 .. m :
           ReferenceRows(cfg, fp, t)[lr][j] = ReferenceRows(cfg, fp, s)[lr][j]
<1> DEFINE f == ReferenceRows(cfg, fp, s)
           g == ReferenceRows(cfg, fp, t)
           N == NumLayers(cfg)
           Same(lr) == \A j \in 1 .. m : g[lr][j] = f[lr][j]
           Bad == {lr \in 0 .. N : ~Same(lr)}
<1>1. N \in Nat /\ m \in Nat /\ n \in Nat
  BY LayerNumbers DEF Rows
<1>5. LayersOf(f, cfg, fp, s, m) /\ LayersOf(g, cfg, fp, t, n)
  BY <1>1, ReferenceRowsAre
<1>6. /\ \A lr \in 0 .. N : Rows(f[lr], m)
      /\ \A lr \in 0 .. N : Rows(g[lr], n)
  BY LayerIsRows
<1> HIDE DEF f, g
<1>2. Same(0)
  <2>1. \A j \in 1 .. m : j \in 1 .. n
    BY <1>1
  <2> QED
    BY <1>1, <1>5, <2>1 DEF LayersOf
<1>3. ASSUME NEW lr \in 1 .. N, Same(lr - 1)
      PROVE  Same(lr)
  <2> SUFFICES ASSUME NEW j \in 1 .. m PROVE g[lr][j] = f[lr][j]
    OBVIOUS
  <2>1. lr - 1 \in 0 .. N /\ j \in 1 .. n /\ j \in Nat \ {0}
    BY <1>1
  <2>2. Rows(f[lr - 1], m) /\ Rows(g[lr - 1], n)
    BY <1>6, <2>1
  <2>3. f[lr] = ReferenceLayer(cfg, fp, lr, f[lr - 1]) /\ g[lr] = ReferenceLayer(cfg, fp, lr, g[lr - 1])
    BY <1>5 DEF LayersOf
  <2> DEFINE first == FirstSeen(ComputedAs(cfg, fp, j), lr, j)
  <2>4. first \in 1 .. j
    BY <2>1, ClassOf, FirstSeenIs
  <2>5. \A i \in 1 .. m : g[lr - 1][i] = f[lr - 1][i]
    BY <1>3
  <2> HIDE DEF first
  <2>6. \A c \in 1 .. j + 1 - first : g[lr - 1][first + c - 1] = f[lr - 1][first + c - 1]
    <3>1. \A c \in 1 .. j + 1 - first : first + c - 1 \in 1 .. m
      BY <1>1, <2>1, <2>4
    <3> QED
      BY <2>5, <3>1
  <2>7. f[lr][j] = RowAfter(cfg, fp, lr, f[lr - 1], j) /\ g[lr][j] = RowAfter(cfg, fp, lr, g[lr - 1], j)
    <3> DEFINE p == f[lr - 1]
               q == g[lr - 1]
    <3>1. Rows(p, m) /\ Rows(q, n)
      BY <2>2
    <3> HIDE DEF p, q
    <3>2. /\ \A i \in 1 .. m : ReferenceLayer(cfg, fp, lr, p)[i] = RowAfter(cfg, fp, lr, p, i)
          /\ \A i \in 1 .. n : ReferenceLayer(cfg, fp, lr, q)[i] = RowAfter(cfg, fp, lr, q, i)
      BY <3>1, LayerRow
    <3>3. ReferenceLayer(cfg, fp, lr, p)[j] = RowAfter(cfg, fp, lr, p, j)
      BY <3>2
    <3>4. ReferenceLayer(cfg, fp, lr, q)[j] = RowAfter(cfg, fp, lr, q, j)
      BY <2>1, <3>2
    <3> QED
      BY <2>3, <3>3, <3>4 DEF p, q
  <2> QED
    BY <2>5, <2>6, <2>7 DEF RowAfter, first
<1> HIDE DEF Same, N
<1>4. ASSUME Bad # {}
      PROVE  FALSE
  <2>0. Bad \in SUBSET Nat
    BY <1>1
  <2>1. PICK lr \in Bad : \A y \in Bad : ~(y < lr)
    BY <1>4, <2>0, LeastNat
  <2>2. lr # 0
    BY <1>2, <2>1
  <2>3. lr \in 1 .. N /\ lr - 1 \in 0 .. N /\ lr - 1 \notin Bad
    BY <1>1, <2>1, <2>2
  <2> QED
    BY <1>3, <2>1, <2>3
<1> QED
  BY <1>4 DEF Same, N, f, g

-----------------------------------------------------------------------------
(* The keys and values of the first n rows, and the blocks.                *)
Kept(cfg, fp, lr, rows, n) == [j \in 1 .. n |-> KeyValue(cfg, fp, lr, TRUE, rows[j], j)]

LEMMA KeptNone ==
  ASSUME NEW cfg, NEW fp, NEW lr, NEW rows
  PROVE  Kept(cfg, fp, lr, rows, 0) = <<>>
BY DEF Kept

LEMMA KeptRows ==
  ASSUME NEW cfg, NEW fp, NEW lr, NEW rows, NEW n \in Nat
  PROVE  Rows(Kept(cfg, fp, lr, rows, n), n)
BY DEF Rows, Kept

(* Those of the n rows after the first o. *)
KeyValuesOf(kvs, cfg, fp, lr, rows, o, n) ==
  /\ Rows(kvs, n)
  /\ \A i \in 1 .. n : kvs[i] = KeyValue(cfg, fp, lr, TRUE, rows[o + i], o + i)

LEMMA KeptGrows ==
  ASSUME NEW cfg, NEW fp, NEW lr, NEW rows, NEW o \in Nat, NEW kvs, NEW n,
         KeyValuesOf(kvs, cfg, fp, lr, rows, o, n)
  PROVE  Kept(cfg, fp, lr, rows, o) \o kvs = Kept(cfg, fp, lr, rows, o + n)
<1> DEFINE k == Kept(cfg, fp, lr, rows, o)
           g == Kept(cfg, fp, lr, rows, o + n)
<1>1. Rows(k, o) /\ n \in Nat /\ Rows(kvs, n)
  BY KeptRows DEF Rows, KeyValuesOf
<1>3. /\ \A i \in 1 .. o : k[i] = KeyValue(cfg, fp, lr, TRUE, rows[i], i)
      /\ Rows(g, o + n)
      /\ \A i \in 1 .. (o + n) : g[i] = KeyValue(cfg, fp, lr, TRUE, rows[i], i)
  BY <1>1 DEF Kept, Rows
<1> HIDE DEF k, g
<1>2. /\ Rows(k \o kvs, o + n)
      /\ \A i \in 1 .. o : (k \o kvs)[i] = k[i]
      /\ \A i \in 1 .. n : (k \o kvs)[o + i] = kvs[i]
  <2>1. Joins(k \o kvs, k, o, kvs, n)
    BY <1>1, JoinedRows
  <2> QED
    BY <2>1 DEF Joins
<1>4. \A i \in 1 .. (o + n) : i \in 1 .. o \/ (i - o \in 1 .. n /\ i = o + (i - o))
  BY <1>1
<1>5. ASSUME NEW i \in 1 .. (o + n)
      PROVE  (k \o kvs)[i] = g[i]
  <2>1. CASE i \in 1 .. o
    BY <1>2, <1>3, <2>1
  <2>2. CASE i - o \in 1 .. n /\ i = o + (i - o)
    <3> DEFINE c == i - o
    <3>1. c \in 1 .. n /\ i = o + c
      BY <2>2
    <3> HIDE DEF c
    <3> QED
      BY <1>2, <1>3, <3>1 DEF KeyValuesOf
  <2> QED
    BY <1>4, <2>1, <2>2
<1> QED
  BY <1>2, <1>3, <1>5 DEF Rows, k, g

LEMMA ProjectedRows ==
  ASSUME NEW cfg, NEW lr, NEW rows, NEW n, Rows(rows, n), NEW o
  PROVE  Rows(ProjectQkv(cfg, lr, rows, o), n)
<1>1. n \in Nat /\ DOMAIN rows = 1 .. n
  BY RowsAreSeq
<1> QED
  BY <1>1 DEF ProjectQkv, Rows

StoredOf(u, cfg, lr, kvs, n) ==
  /\ Rows(u, n)
  /\ \A i \in 1 .. n :
       u[i] = IF SharedLayer(cfg, lr) THEN <<kvs[i][1], kvs[i][1]>> ELSE kvs[i]

LEMMA StoredRows ==
  ASSUME NEW cfg, NEW lr, NEW kvs, NEW n, Rows(kvs, n)
  PROVE  StoredOf(Stored(cfg, lr, kvs), cfg, lr, kvs, n)
<1>1. n \in Nat /\ DOMAIN kvs = 1 .. n
  BY RowsAreSeq
<1> QED
  BY <1>1 DEF Stored, StoredOf, Rows

(* After the flat rows a pass projects and stores those of the model.      *)
LEMMA ProjectedAre ==
  ASSUME NEW cfg, NEW fp \in Nat, NEW lr, NEW rows, NEW n, Rows(rows, n),
         NEW o \in Nat, fp <= o,
         NEW above, \A i \in 1 .. n : rows[i] = above[o + i]
  PROVE  KeyValuesOf(Stored(cfg, lr, ProjectQkv(cfg, lr, rows, o)), cfg, fp, lr, above, o, n)
<1> DEFINE kvs == ProjectQkv(cfg, lr, rows, o)
           K(i) == Key(lr, above[o + i], o + i - 1, RotatedDim(cfg, lr))
           V(i) == Value(lr, above[o + i])
<1>1. n \in Nat /\ DOMAIN rows = 1 .. n /\ Rows(kvs, n)
  BY RowsAreSeq, ProjectedRows
<1>7. StoredOf(Stored(cfg, lr, kvs), cfg, lr, kvs, n)
  BY <1>1, StoredRows
<1>2. \A i \in 1 .. n : kvs[i] = <<K(i), IF KvShared(cfg, lr) THEN K(i) ELSE V(i)>>
  BY <1>1 DEF ProjectQkv
<1>3. \A i \in 1 .. n : ComputedAs(cfg, fp, o + i) = cfg
  <2>1. \A i \in 1 .. n : ~(o + i <= fp)
    OBVIOUS
  <2> QED
    BY <2>1 DEF ComputedAs
<1>4. \A i \in 1 .. n :
        KeyValue(cfg, fp, lr, TRUE, above[o + i], o + i)
          = <<K(i), IF KvShared(cfg, lr) THEN K(i) ELSE V(i)>>
  BY <1>3 DEF KeyValue, SharedLayer
<1> HIDE DEF kvs, K, V
<1>6. \A i \in 1 .. n :
        /\ kvs[i][1] = K(i)
        /\ KvShared(cfg, lr) => kvs[i] = <<K(i), K(i)>>
  BY <1>2
<1>5. ASSUME NEW i \in 1 .. n
      PROVE  Stored(cfg, lr, kvs)[i] = KeyValue(cfg, fp, lr, TRUE, above[o + i], o + i)
  <2>1. CASE SharedLayer(cfg, lr)
    <3>1. KvShared(cfg, lr)
      BY <2>1 DEF SharedLayer
    <3>2. Stored(cfg, lr, kvs)[i] = <<kvs[i][1], kvs[i][1]>>
      BY <1>7, <2>1 DEF StoredOf
    <3>3. KeyValue(cfg, fp, lr, TRUE, above[o + i], o + i) = <<K(i), K(i)>>
      BY <1>4, <3>1
    <3> QED
      BY <1>6, <3>2, <3>3
  <2>2. CASE ~SharedLayer(cfg, lr)
    BY <1>2, <1>4, <1>7, <2>2 DEF StoredOf
  <2> QED
    BY <2>1, <2>2
<1> QED
  BY <1>5, <1>7 DEF KeyValuesOf, StoredOf, kvs

(* A row that attends to the kept keys and values becomes the row of the   *)
(* next layer.                                                             *)
LEMMA BlockRow ==
  ASSUME NEW cfg, IsConfig(cfg), NEW fp \in Nat, NEW lr \in 1 .. NumLayers(cfg),
         NEW rows, NEW m, Rows(rows, m), NEW o \in Nat, fp <= o, NEW i \in 1 .. m,
         NEW above, NEW n, Rows(above, n), NEW z \in Nat, o + i <= z, z <= n,
         rows[i] = above[o + i]
  PROVE  AttendCached(cfg, lr, rows, Kept(cfg, fp, lr, above, z), o)[i]
           = ReferenceLayer(cfg, fp, lr, above)[o + i]
<1> DEFINE p == o + i
           first == FirstSeen(cfg, lr, p)
           kvs == Kept(cfg, fp, lr, above, z)
<1>1. /\ m \in Nat /\ n \in Nat /\ DOMAIN rows = 1 .. m
      /\ p \in 1 .. z /\ p \in 1 .. n /\ p \in Nat \ {0} /\ p > fp /\ ~(p <= fp)
  <2>1. m \in Nat /\ n \in Nat /\ DOMAIN rows = 1 .. m
    BY RowsAreSeq
  <2> QED
    BY <2>1
<1>2. EffectiveAttentionClass(cfg, lr) \in Nat
  BY LayerNumbers
<1>3. first \in 1 .. p
  BY <1>1, <1>2, FirstSeenIs
<1>4. Rows(kvs, z)
  BY KeptRows
<1>11. ComputedAs(cfg, fp, p) = cfg
  BY <1>1 DEF ComputedAs
<1> HIDE DEF p, first
<1>5. Attend(cfg, lr, kvs, p - 1) = [c \in 1 .. p + 1 - first |-> kvs[first + c - 1]]
  BY <1>1, <1>2, <1>4, AttendIs DEF first
<1>6. \A c \in 1 .. p + 1 - first :
        kvs[first + c - 1] = KeyValue(cfg, fp, lr, TRUE, above[first + c - 1], first + c - 1)
  <2>1. \A c \in 1 .. p + 1 - first : first + c - 1 \in 1 .. z
    BY <1>1, <1>3
  <2> QED
    BY <2>1 DEF Kept
<1> HIDE DEF kvs
<1>7. Attend(cfg, lr, kvs, p - 1)
        = [c \in 1 .. p + 1 - first |->
            KeyValue(cfg, fp, lr, TRUE, above[first + c - 1], first + c - 1)]
  BY <1>5, <1>6
<1>8. AttendCached(cfg, lr, rows, kvs, o)[i]
        = FinishBlock(lr, rows[i], p - 1, RotatedDim(cfg, lr), Attend(cfg, lr, kvs, p - 1))
  BY <1>1 DEF AttendCached, p
<1>9. ReferenceLayer(cfg, fp, lr, above)[p] = RowAfter(cfg, fp, lr, above, p)
  BY <1>1, LayerRow
<1>10. rows[i] = above[p] /\ (p > fp) = TRUE
  BY <1>1 DEF p
<1>12. RowAfter(cfg, fp, lr, above, p)
         = FinishBlock(lr, above[p], p - 1, RotatedDim(cfg, lr),
             [c \in 1 .. p + 1 - first |->
               KeyValue(cfg, fp, lr, TRUE, above[first + c - 1], first + c - 1)])
  BY <1>10, <1>11 DEF RowAfter, first
<1> QED
  BY <1>7, <1>8, <1>9, <1>10, <1>12 DEF p, kvs

(* The block of a batch: rows the reference takes for those of a flat      *)
(* model.                                                                  *)
FlatRows(cfg, fp, lr, n) ==
  \A i \in 1 .. n :
    /\ IsGlobal(ComputedAs(cfg, fp, i), lr)
    /\ RotatedDim(ComputedAs(cfg, fp, i), lr) = "all"
    /\ ~KvShared(ComputedAs(cfg, fp, i), lr)
    /\ i > fp => ~SharedLayer(cfg, lr)

BatchKeyValue(lr, h, i) == <<Key(lr, h, i - 1, "all"), Value(lr, h)>>

BatchKeyValuesOf(kvs, lr, rows, n) ==
  Rows(kvs, n) /\ \A i \in 1 .. n : kvs[i] = BatchKeyValue(lr, rows[i], i)

LEMMA BatchStored ==
  ASSUME NEW cfg, NEW fp, NEW lr, NEW n, FlatRows(cfg, fp, lr, n),
         NEW kvs, NEW rows, BatchKeyValuesOf(kvs, lr, rows, n),
         NEW above, \A i \in 1 .. n : rows[i] = above[i]
  PROVE  KeyValuesOf(Stored(cfg, lr, kvs), cfg, fp, lr, above, 0, n)
<1>1. Rows(kvs, n) /\ n \in Nat
  BY DEF BatchKeyValuesOf, Rows
<1>3. StoredOf(Stored(cfg, lr, kvs), cfg, lr, kvs, n)
  BY <1>1, StoredRows
<1>2. ASSUME NEW i \in 1 .. n
      PROVE  Stored(cfg, lr, kvs)[i] = KeyValue(cfg, fp, lr, TRUE, above[0 + i], 0 + i)
  <2>1. 0 + i = i
    BY <1>1
  <2>2. kvs[i] = <<Key(lr, above[i], i - 1, "all"), Value(lr, above[i])>>
    BY DEF BatchKeyValuesOf, BatchKeyValue
  <2>3. KeyValue(cfg, fp, lr, TRUE, above[i], i)
          = <<Key(lr, above[i], i - 1, "all"),
              IF SharedLayer(cfg, lr) THEN Key(lr, above[i], i - 1, "all")
              ELSE Value(lr, above[i])>>
    <3>1. RotatedDim(ComputedAs(cfg, fp, i), lr) = "all" /\ ~KvShared(ComputedAs(cfg, fp, i), lr)
      BY DEF FlatRows
    <3> QED
      BY <3>1 DEF KeyValue
  <2>4. Stored(cfg, lr, kvs)[i]
          = IF SharedLayer(cfg, lr) THEN <<kvs[i][1], kvs[i][1]>> ELSE kvs[i]
    BY <1>3 DEF StoredOf
  <2>5. kvs[i][1] = Key(lr, above[i], i - 1, "all")
    BY <2>2
  <2> QED
    BY <2>1, <2>2, <2>3, <2>4, <2>5
<1> QED
  BY <1>1, <1>2, <1>3 DEF KeyValuesOf, StoredOf

(* Over its valid prefix the block of a batch computes the reference.      *)
LEMMA PrefixRow ==
  ASSUME NEW cfg, IsConfig(cfg), NEW fp, NEW lr \in 1 .. NumLayers(cfg),
         NEW rows, NEW w, Rows(rows, w), NEW n, n <= w, FlatRows(cfg, fp, lr, n),
         NEW kvs, BatchKeyValuesOf(kvs, lr, rows, n), NEW i \in 1 .. n,
         NEW above, NEW z, Rows(above, z), n <= z, \A c \in 1 .. n : rows[c] = above[c]
  PROVE  AttendPrefix(lr, rows, kvs)[i] = ReferenceLayer(cfg, fp, lr, above)[i]
<1> DEFINE own == ComputedAs(cfg, fp, i)
<1>1. /\ DOMAIN rows = 1 .. w /\ w \in Nat /\ z \in Nat
      /\ Rows(kvs, n) /\ n \in Nat /\ Len(kvs) = n
  BY RowsAreSeq DEF BatchKeyValuesOf
<1>2. /\ i \in DOMAIN rows /\ i <= Len(kvs) /\ i \in 1 .. z /\ i \in Nat \ {0}
      /\ i - 1 + 1 = i /\ 1 \in 1 .. n /\ 1 <= i
      /\ \A c \in 1 .. i + 1 - 1 : 1 + c - 1 = c /\ c \in 1 .. n
  BY <1>1
<1>3. AttendPrefix(lr, rows, kvs)[i] = FinishBlock(lr, rows[i], i - 1, "all", SubSeq(kvs, 1, i))
  BY <1>2 DEF AttendPrefix, CausalGqaAttentionCached
<1>4. SubSeq(kvs, 1, i) = [c \in 1 .. i + 1 - 1 |-> kvs[1 + c - 1]]
  BY <1>1, <1>2, SubRows
<1>5. FirstSeen(own, lr, i) = 1 /\ RotatedDim(own, lr) = "all"
  BY <1>2, ClassOf, FirstSeenIs DEF FlatRows
<1>6. \A c \in 1 .. i + 1 - 1 :
        kvs[1 + c - 1] = KeyValue(cfg, fp, lr, i > fp, above[1 + c - 1], 1 + c - 1)
  <2> SUFFICES ASSUME NEW c \in 1 .. n
               PROVE  kvs[c] = KeyValue(cfg, fp, lr, i > fp, above[c], c)
    BY <1>2
  <2>1. kvs[c] = <<Key(lr, above[c], c - 1, "all"), Value(lr, above[c])>>
    BY DEF BatchKeyValuesOf, BatchKeyValue
  <2>2. /\ RotatedDim(ComputedAs(cfg, fp, c), lr) = "all" /\ ~KvShared(ComputedAs(cfg, fp, c), lr)
        /\ i > fp => ~SharedLayer(cfg, lr)
    BY DEF FlatRows
  <2>3. ~(KvShared(ComputedAs(cfg, fp, c), lr) \/ (i > fp /\ SharedLayer(cfg, lr)))
    BY <2>2
  <2> QED
    BY <2>1, <2>2, <2>3 DEF KeyValue
<1>7. ReferenceLayer(cfg, fp, lr, above)[i] = RowAfter(cfg, fp, lr, above, i)
  <2>1. \A c \in 1 .. z : ReferenceLayer(cfg, fp, lr, above)[c] = RowAfter(cfg, fp, lr, above, c)
    BY LayerRow
  <2> QED
    BY <1>2, <2>1
<1>8. RowAfter(cfg, fp, lr, above, i)
        = FinishBlock(lr, above[i], i - 1, "all",
            [c \in 1 .. i + 1 - 1 |->
              KeyValue(cfg, fp, lr, i > fp, above[1 + c - 1], 1 + c - 1)])
  BY <1>5 DEF RowAfter
<1>9. rows[i] = above[i]
  OBVIOUS
<1> HIDE DEF own
<1> QED
  BY <1>3, <1>4, <1>6, <1>7, <1>8, <1>9

-----------------------------------------------------------------------------
(* The inductive invariant.  k counts the tokens of the sequences that     *)
(* have not stopped, which is the number of passes that have ended.        *)
Layers == 1 .. NumLayers(job.cfg)

Rounds(k) ==
  /\ tokens \in [Seqs -> Seq(Vocab)] /\ stopped \in [Seqs -> BOOLEAN]
  /\ \A b \in Seqs : /\ Len(tokens[b]) <= k
                     /\ IF stopped[b] THEN tokens[b] # <<>> ELSE Len(tokens[b]) = k
  /\ \E b \in Seqs : ~stopped[b]

(* The tokens a pass adds to a sequence, the rows it runs for it, and the  *)
(* tokens before it.                                                       *)
Fresh(b, k) == IF k = 0 THEN SeqLens[b] ELSE 1
Width(k) == IF k = 0 THEN MaxPrompt ELSE 1
Before(b, k) == IF k = 0 THEN 0 ELSE SeqLens[b] + k - 1

(* The tokens layer l holds while layer li runs next. *)
Held(b, k, l) == IF Embedding THEN 0 ELSE Before(b, k) + (IF l < li THEN Fresh(b, k) ELSE 0)

Shaped ==
  /\ hidden = [b \in Seqs |-> hidden[b]]
  /\ cache = [l \in Layers |-> [b \in Seqs |-> cache[l][b]]]

InPass(k) ==
  /\ Rounds(k)
  /\ li \in 1 .. NumLayers(job.cfg) + 1
  /\ session = Shape(Cardinality(Seqs), Width(k))
  /\ MaxPrompt > 0
  /\ IF Embedding THEN k = 0 ELSE job.maxTokens > 0
  /\ \A b \in Seqs :
       /\ offsets[b] = Before(b, k)
       /\ Rows(hidden[b], Width(k))
       /\ \A l \in Layers : Rows(cache[l][b], Held(b, k, l))

Between(k) ==
  /\ Rounds(k)
  /\ ~Embedding /\ MaxPrompt > 0
  /\ \A b \in Seqs : \A l \in Layers : Rows(cache[l][b], SeqLens[b] + k)

(* The rows of the whole sequence so far, and its keys and values. *)
RowsOf(b, l) == ReferenceRows(job.cfg, FlatPrefix(b), job.prompts[b] \o tokens[b])[l]
KeptOf(b, l, n) == Kept(job.cfg, FlatPrefix(b), l, RowsOf(b, l - 1), n)

PassRows(k) ==
  \A b \in Seqs : ~stopped[b] =>
    /\ \A i \in 1 .. Fresh(b, k) : hidden[b][i] = RowsOf(b, li - 1)[Before(b, k) + i]
    /\ ~Embedding => \A l \in Layers : cache[l][b] = KeptOf(b, l, Held(b, k, l))

RowsBetween(k) ==
  \A b \in Seqs : ~stopped[b] =>
    /\ last[b] = RowsOf(b, NumLayers(job.cfg))[SeqLens[b] + k]
    /\ \A l \in Layers : cache[l][b] = KeptOf(b, l, SeqLens[b] + k)

AtStart ==
  /\ tokens = [b \in Seqs |-> <<>>]
  /\ stopped = [b \in Seqs |-> FALSE]
  /\ \A b \in Seqs : \A l \in Layers : cache[l][b] = <<>>

Embeds ==
  \A b \in Seqs : \A i \in 1 .. SeqLens[b] :
    hidden[b][i] = Reference(job.cfg, FlatPrefix(b), job.prompts[b])[i]

IInv ==
  /\ job \in Jobs
  /\ at \in {"start", "layer", "sample", "done", "error", "panic"}
  /\ Shaped
  /\ at = "start" => AtStart
  /\ at = "layer" =>
       \E k \in 0 .. job.maxTokens : InPass(k) /\ PassRows(k)
  /\ at = "sample" =>
       \E k \in 0 .. job.maxTokens - 1 : Between(k) /\ RowsBetween(k)
  /\ at = "panic" => job.mode = "batched" /\ \E b \in Seqs : SeqLens[b] = 0
  /\ at = "done" /\ Embedding => Embeds

LEMMA PrefixOf ==
  ASSUME NEW s, NEW n, Rows(s, n), NEW z \in 0 .. n
  PROVE  /\ Rows(SubSeq(s, 1, z), z)
         /\ \A i \in 1 .. z : SubSeq(s, 1, z)[i] = s[i]
<1> DEFINE S == {s[i] : i \in 1 .. n}
<1>1. s \in Seq(S) /\ Len(s) = n /\ n \in Nat
  BY RowsAreSeq
<1> HIDE DEF S
<1>2. \A i \in 1 .. z : s[i] \in S
  BY <1>1
<1>3. /\ SubSeq(s, 1, z) \in Seq(S)
      /\ Len(SubSeq(s, 1, z)) = IF 1 <= z THEN z - 1 + 1 ELSE 0
      /\ \A i \in 1 .. z - 1 + 1 : SubSeq(s, 1, z)[i] = s[1 + i - 1]
  BY <1>1, <1>2, SubSeqProperties
<1>4. Len(SubSeq(s, 1, z)) = z
  BY <1>1, <1>3
<1>5. Rows(SubSeq(s, 1, z), z)
  BY <1>3, <1>4, SeqIsRows
<1>6. ASSUME NEW i \in 1 .. z
      PROVE  SubSeq(s, 1, z)[i] = s[i]
  BY <1>1, <1>3
<1> QED
  BY <1>5, <1>6

-----------------------------------------------------------------------------
(* The job. *)
LEMMA JobFacts ==
  ASSUME job \in Jobs
  PROVE  /\ Len(job.prompts) \in Nat \ {0}
         /\ Seqs = 1 .. Len(job.prompts)
         /\ 1 .. Cardinality(Seqs) = Seqs
         /\ \A b \in Seqs : job.prompts[b] \in Seq(Vocab) /\ SeqLens[b] = Len(job.prompts[b])
         /\ SeqLens \in [Seqs -> Nat]
         /\ job.maxTokens \in Nat
         /\ IsConfig(job.cfg)
         /\ NumLayers(job.cfg) \in Nat /\ NumLayers(job.cfg) > 0
         /\ ~Embedding /\ ~Batched => job.mode = "single"
         /\ job.mode \in {"single", "embed"} => Seqs = {1}
<1>1. /\ job.prompts \in Seq(Seq(Vocab)) /\ job.prompts # <<>>
      /\ job.maxTokens \in Nat
      /\ IsConfig(job.cfg)
      /\ job.mode \in {"single", "batched", "embed", "embedBatched"}
      /\ job.mode \in {"single", "embed"} => Len(job.prompts) = 1
  BY JobsAssumption DEF IsConfig
<1>2. Len(job.prompts) \in Nat \ {0} /\ Seqs = 1 .. Len(job.prompts)
  BY <1>1 DEF Seqs
<1>3. Cardinality(Seqs) = Len(job.prompts)
  BY <1>2, FS_Interval
<1>4. \A b \in Seqs : job.prompts[b] \in Seq(Vocab) /\ SeqLens[b] = Len(job.prompts[b])
  BY <1>1, <1>2 DEF SeqLens
<1>5. SeqLens \in [Seqs -> Nat]
  BY <1>4 DEF SeqLens
<1>6. ~Embedding /\ ~Batched => job.mode = "single"
  BY <1>1 DEF Embedding, Batched
<1> QED
  BY <1>1, <1>2, <1>3, <1>4, <1>5, <1>6, LayerNumbers

LEMMA JobKept ==
  ASSUME job' = job
  PROVE  /\ Seqs' = Seqs /\ SeqLens' = SeqLens /\ MaxPrompt' = MaxPrompt
         /\ MaxCacheLen' = MaxCacheLen /\ Layers' = Layers
         /\ Embedding' = Embedding /\ Batched' = Batched /\ \A b : FlatPrefix(b)' = FlatPrefix(b)
         /\ job.cfg' = job.cfg /\ job.prompts' = job.prompts /\ job.maxTokens' = job.maxTokens
         /\ \A k : Width(k)' = Width(k)
         /\ \A b, k : Fresh(b, k)' = Fresh(b, k) /\ Before(b, k)' = Before(b, k)
BY DEF Seqs, SeqLens, MaxPrompt, MaxCacheLen, Layers, Embedding, Batched, FlatPrefix, Width, Fresh, Before

(* Of numbers in a row one is the greatest. *)
LEMMA GreatestExists ==
  ASSUME NEW m \in Nat \ {0}, NEW f \in [1 .. m -> Nat]
  PROVE  \E a \in 1 .. m : \A c \in 1 .. m : f[c] <= f[a]
<1> DEFINE Top(n) == \E a \in 1 .. n : \A c \in 1 .. n : f[c] <= f[a]
           Bad == {n \in 1 .. m : ~Top(n)}
<1>1. Top(1)
  OBVIOUS
<1>2. ASSUME NEW n \in 1 .. m, n # 1, Top(n - 1)
      PROVE  Top(n)
  <2>1. PICK a \in 1 .. n - 1 : \A c \in 1 .. n - 1 : f[c] <= f[a]
    BY <1>2
  <2>2. n \in 1 .. n /\ a \in 1 .. n /\ \A c \in 1 .. n : c \in 1 .. n - 1 \/ c = n
    OBVIOUS
  <2>3. f[n] \in Nat /\ f[a] \in Nat /\ \A c \in 1 .. n - 1 : f[c] \in Nat
    BY <2>2
  <2>4. CASE f[n] <= f[a]
    BY <2>1, <2>2, <2>4
  <2>5. CASE f[a] < f[n]
    <3>1. \A c \in 1 .. n : f[c] <= f[n]
      BY <2>1, <2>2, <2>3, <2>5
    <3> QED
      BY <2>2, <3>1
  <2> QED
    BY <2>3, <2>4, <2>5
<1> HIDE DEF Top
<1>3. ASSUME Bad # {}
      PROVE  FALSE
  <2>1. Bad \in SUBSET Nat
    OBVIOUS
  <2>2. PICK n \in Bad : \A y \in Bad : ~(y < n)
    BY <1>3, <2>1, LeastNat
  <2>3. n # 1
    BY <1>1, <2>2
  <2>4. n - 1 \in 1 .. m /\ n - 1 \notin Bad
    BY <2>2, <2>3
  <2> QED
    BY <1>2, <2>2, <2>3, <2>4
<1>4. m \in 1 .. m /\ m \notin Bad
  BY <1>3
<1> QED
  BY <1>4 DEF Top

LEMMA MaxPromptIs ==
  ASSUME job \in Jobs
  PROVE  /\ MaxPrompt \in Nat
         /\ \A b \in Seqs : SeqLens[b] <= MaxPrompt
         /\ \E b \in Seqs : SeqLens[b] = MaxPrompt
<1>1. Len(job.prompts) \in Nat \ {0} /\ Seqs = 1 .. Len(job.prompts) /\ SeqLens \in [Seqs -> Nat]
  BY JobFacts
<1>2. PICK a \in Seqs : \A c \in Seqs : SeqLens[c] <= SeqLens[a]
  BY <1>1, GreatestExists
<1>3. SeqLens[a] \in {SeqLens[b] : b \in Seqs} /\ \A b \in Seqs : SeqLens[b] <= SeqLens[a]
  BY <1>2
<1>4. MaxPrompt \in {SeqLens[b] : b \in Seqs} /\ \A b \in Seqs : SeqLens[b] <= MaxPrompt
  BY <1>3 DEF MaxPrompt
<1> QED
  BY <1>1, <1>4

LEMMA StepsAre ==
  ASSUME NEW k \in Nat, Rounds(k)
  PROVE  Steps = k /\ (Prefilling <=> k = 0)
<1>1. PICK a \in Seqs : ~stopped[a]
  BY DEF Rounds
<1>2. /\ \A b \in Seqs : Len(tokens[b]) \in Nat /\ Len(tokens[b]) <= k
      /\ \A b \in Seqs : tokens[b] = <<>> <=> Len(tokens[b]) = 0
      /\ Len(tokens[a]) = k
  BY <1>1 DEF Rounds
<1>3. k \in {Len(tokens[b]) : b \in Seqs} /\ \A b \in Seqs : Len(tokens[b]) <= k
  BY <1>1, <1>2
<1>4. Steps \in {Len(tokens[b]) : b \in Seqs} /\ \A b \in Seqs : Len(tokens[b]) <= Steps
  BY <1>3 DEF Steps
<1>5. Steps = k
  BY <1>1, <1>2, <1>4
<1>6. Prefilling <=> k = 0
  BY <1>1, <1>2 DEF Prefilling
<1> QED
  BY <1>5, <1>6

-----------------------------------------------------------------------------
(* What a block makes of the rows and of the cache.                        *)
LEMMA PassSizes ==
  ASSUME job \in Jobs, NEW k \in 0 .. job.maxTokens, NEW b \in Seqs
  PROVE  /\ k \in Nat /\ SeqLens[b] \in Nat /\ MaxPrompt \in Nat
         /\ Before(b, k) \in Nat /\ Fresh(b, k) \in Nat /\ Width(k) \in Nat
         /\ Fresh(b, k) <= Width(k)
         /\ Before(b, k) + Fresh(b, k) = SeqLens[b] + k
         /\ SeqLens[b] + k <= MaxCacheLen
<1>1. /\ job.maxTokens \in Nat /\ SeqLens[b] \in Nat /\ MaxPrompt \in Nat
      /\ SeqLens[b] <= MaxPrompt
  BY JobFacts, MaxPromptIs
<1> QED
  BY <1>1 DEF Before, Fresh, Width, MaxCacheLen

Projected(b) == ProjectQkv(job.cfg, li, hidden[b], offsets[b])
Valid(b) == ValidPrefix(ProjectBatched(li, hidden[b]), SeqLens[b])

(* The block of a cached pass, with and without a batch. *)
RunsCached ==
  /\ RunBlock.layer = [b \in Seqs |-> cache[li][b] \o Stored(job.cfg, li, Projected(b))]
  /\ RunBlock.hidden =
       [b \in Seqs |-> AttendCached(job.cfg, li, hidden[b],
                                    cache[li][b] \o Stored(job.cfg, li, Projected(b)), offsets[b])]

(* That of a pass that starts at position 0 of all sequences. *)
RunsPrefix ==
  /\ RunBlock.layer =
       [b \in Seqs |-> AppendPrefill(job.cfg, li, cache[li][b], Valid(b), MaxCacheLen)]
  /\ RunBlock.hidden = [b \in Seqs |-> AttendPrefix(li, hidden[b], Valid(b))]

LEMMA RunSingle ==
  ASSUME job \in Jobs, Shaped, NEW k \in 0 .. job.maxTokens, InPass(k), li \in Layers,
         ~Embedding, ~Batched
  PROVE  RunsCached
<1>1. Seqs = {1} /\ 1 \in Seqs
  BY JobFacts
<1>2. /\ cache[li] = [b \in Seqs |-> cache[li][b]] /\ hidden = [b \in Seqs |-> hidden[b]]
      /\ offsets[1] = Before(1, k) /\ Rows(hidden[1], Width(k)) /\ Rows(cache[li][1], Held(1, k, li))
  BY <1>1 DEF Shaped, InPass
<1>3. /\ Before(1, k) \in Nat /\ Fresh(1, k) \in Nat /\ Width(k) \in Nat
      /\ Before(1, k) + Fresh(1, k) = SeqLens[1] + k /\ SeqLens[1] + k <= MaxCacheLen
  BY <1>1, PassSizes
<1>4. Width(k) = Fresh(1, k)
  <2>1. SeqLens[1] = MaxPrompt
    BY <1>1, MaxPromptIs
  <2> QED
    BY <2>1 DEF Width, Fresh
<1>5. Held(1, k, li) = Before(1, k)
  <2>1. li \in Nat
    BY JobFacts DEF Layers
  <2> QED
    BY <1>3, <2>1 DEF Held
<1> DEFINE kvs == ProjectQkv(job.cfg, li, hidden[1], offsets[1])
           rows == cache[li][1]
<1>6. Rows(kvs, Width(k))
  BY <1>2, <1>3, ProjectedRows
<1>7. Len(kvs) = Width(k) /\ Len(rows) = Before(1, k)
  BY <1>2, <1>5, <1>6, RowsAreSeq
<1>8. ~(Len(rows) + Len(kvs) > MaxCacheLen)
  <2>1. Len(rows) + Len(kvs) = SeqLens[1] + k
    BY <1>3, <1>4, <1>7
  <2>2. MaxCacheLen \in Nat /\ SeqLens[1] + k \in Nat
    <3>1. job.maxTokens \in Nat /\ MaxPrompt \in Nat
      BY JobFacts, MaxPromptIs
    <3>2. MaxCacheLen \in Nat
      BY <3>1 DEF MaxCacheLen
    <3>3. SeqLens[1] + k \in Nat
      BY <1>3
    <3> QED
      BY <3>2, <3>3
  <2>3. SeqLens[1] + k <= MaxCacheLen
    BY <1>3
  <2> DEFINE held == Len(rows) + Len(kvs)
             max == MaxCacheLen
  <2>4. held \in Nat /\ max \in Nat /\ held <= max
    BY <2>1, <2>2, <2>3
  <2>5. held = Len(rows) + Len(kvs) /\ max = MaxCacheLen
    OBVIOUS
  <2> HIDE DEF held, max
  <2>6. ~(held > max)
    BY <2>4
  <2> QED
    BY <2>5, <2>6
<1>9. AppendPrefill(job.cfg, li, rows, kvs, MaxCacheLen) = rows \o Stored(job.cfg, li, kvs)
  BY <1>8 DEF AppendPrefill
<1> DEFINE cached == [cache[li] EXCEPT ![1] = AppendPrefill(job.cfg, li, @, kvs, MaxCacheLen)]
<1>10. cached = [b \in Seqs |-> cache[li][b] \o Stored(job.cfg, li, Projected(b))]
  BY <1>1, <1>2, <1>9 DEF Projected
<1>11. RunBlock = DecoderBlockCached(job.cfg, li, hidden, cache[li], offsets, MaxCacheLen)
  BY DEF RunBlock
<1>12. RunBlock.layer = cached
       /\ RunBlock.hidden = [hidden EXCEPT ![1] = AttendCached(job.cfg, li, @, cached[1], offsets[1])]
  BY <1>11 DEF DecoderBlockCached
<1> HIDE DEF cached
<1>13. RunBlock.hidden = [b \in Seqs |-> AttendCached(job.cfg, li, hidden[b], cached[b], offsets[b])]
  BY <1>1, <1>2, <1>12
<1> QED
  BY <1>10, <1>12, <1>13 DEF RunsCached

LEMMA RunDecode ==
  ASSUME job \in Jobs, Shaped, NEW k \in 0 .. job.maxTokens, InPass(k), li \in Layers,
         ~Embedding, Batched, k # 0
  PROVE  RunsCached
<1>1. /\ cache[li] = [b \in Seqs |-> cache[li][b]] /\ hidden = [b \in Seqs |-> hidden[b]]
      /\ DOMAIN cache[li] = Seqs /\ DOMAIN hidden = Seqs
      /\ \A b \in Seqs : /\ offsets[b] = Before(b, k) /\ Rows(hidden[b], 1)
                         /\ Rows(cache[li][b], Held(b, k, li))
  BY DEF Shaped, InPass, Width
<1>2. /\ li \in Nat /\ MaxCacheLen \in Nat
      /\ \A b \in Seqs : 1 .. b \subseteq Seqs
  BY JobFacts, MaxPromptIs DEF Layers, MaxCacheLen
<1>3. ASSUME NEW b \in Seqs
      PROVE  /\ Len(cache[li][b]) = Before(b, k) /\ Before(b, k) \in Nat
             /\ ~(Len(cache[li][b]) + 1 > MaxCacheLen)
  <2>1. /\ Before(b, k) \in Nat /\ Before(b, k) + 1 = SeqLens[b] + k
        /\ SeqLens[b] + k \in Nat /\ SeqLens[b] + k <= MaxCacheLen
    BY PassSizes DEF Fresh
  <2>2. Held(b, k, li) = Before(b, k)
    BY <1>2, <2>1 DEF Held
  <2>3. Len(cache[li][b]) = Before(b, k)
    BY <1>1, <2>2, RowsAreSeq
  <2> QED
    BY <1>2, <2>1, <2>3
<1> DEFINE kvs == [b \in Seqs |-> ProjectQkv(job.cfg, li, hidden[b], offsets[b])[1]]
           cached == AppendDecode(job.cfg, li, cache[li], kvs, MaxCacheLen)
<1>4. \A b \in Seqs : ~\E c \in 1 .. b : Len(cache[li][c]) + 1 > MaxCacheLen
  BY <1>2, <1>3
<1>5. cached = [b \in Seqs |-> Append(cache[li][b], Stored(job.cfg, li, <<kvs[b]>>)[1])]
  BY <1>1, <1>4 DEF AppendDecode
<1>6. ASSUME NEW b \in Seqs
      PROVE  Append(cache[li][b], Stored(job.cfg, li, <<kvs[b]>>)[1])
               = cache[li][b] \o Stored(job.cfg, li, Projected(b))
  <2>0. Rows(hidden[b], 1) /\ offsets[b] \in Nat
    BY <1>1, <1>3
  <2>1. Rows(Projected(b), 1)
    BY <2>0, ProjectedRows DEF Projected
  <2>2. <<kvs[b]>> = Projected(b)
    BY <2>1 DEF Rows, Projected
  <2>3. Rows(Stored(job.cfg, li, Projected(b)), 1)
    BY <2>1, StoredRows DEF StoredOf
  <2> QED
    BY <1>1, <2>2, <2>3, AppendIsJoin
<1> HIDE DEF kvs
<1>7. RunBlock = DecoderBlockCachedBatched(job.cfg, li, hidden, cache[li], offsets, MaxCacheLen)
  <2>1. ~Prefilling
    BY StepsAre, JobFacts DEF InPass
  <2> QED
    BY <2>1 DEF RunBlock
<1>8. RunBlock.layer = cached /\ RunBlock.hidden = AttendEach(job.cfg, li, hidden, cached, offsets)
  BY <1>1, <1>7 DEF DecoderBlockCachedBatched, kvs
<1> HIDE DEF cached
<1>9. cached = [b \in Seqs |-> cache[li][b] \o Stored(job.cfg, li, Projected(b))]
  BY <1>5, <1>6
<1> QED
  BY <1>1, <1>8, <1>9 DEF AttendEach, RunsCached

LEMMA RunPrefill ==
  ASSUME job \in Jobs, Shaped, NEW k \in 0 .. job.maxTokens, InPass(k), li \in Layers,
         Embedding \/ (Batched /\ k = 0)
  PROVE  RunsPrefix
<1>1. DOMAIN hidden = Seqs
  BY DEF Shaped
<1>2. Embedding \/ (Batched /\ Prefilling)
  BY StepsAre, JobFacts DEF InPass
<1>3. RunBlock = DecoderBlockBatched(job.cfg, li, hidden, cache[li], SeqLens, MaxCacheLen)
  BY <1>2 DEF RunBlock
<1> QED
  BY <1>1, <1>3 DEF DecoderBlockBatched, RunsPrefix, Valid

LEMMA ProjectedBatch ==
  ASSUME NEW lr, NEW rows, NEW n, Rows(rows, n)
  PROVE  BatchKeyValuesOf(ProjectBatched(lr, rows), lr, rows, n)
<1>1. n \in Nat /\ DOMAIN rows = 1 .. n
  BY RowsAreSeq
<1> QED
  BY <1>1 DEF ProjectBatched, BatchKeyValue, BatchKeyValuesOf, Rows

LEMMA AttendedRows ==
  ASSUME NEW cfg, NEW lr, NEW rows, NEW n, Rows(rows, n), NEW kvs, NEW o
  PROVE  Rows(AttendCached(cfg, lr, rows, kvs, o), n) /\ Rows(AttendPrefix(lr, rows, kvs), n)
<1>1. n \in Nat /\ DOMAIN rows = 1 .. n
  BY RowsAreSeq
<1> QED
  BY <1>1 DEF AttendCached, AttendPrefix, Rows

LEMMA HeldBefore ==
  ASSUME job \in Jobs, NEW k \in 0 .. job.maxTokens, NEW b \in Seqs, li \in Layers, ~Embedding
  PROVE  Held(b, k, li) = Before(b, k)
<1>1. li \in Nat /\ Before(b, k) \in Nat
  BY PassSizes, JobFacts DEF Layers
<1> QED
  BY <1>1 DEF Held

LEMMA ValidRows ==
  ASSUME job \in Jobs, NEW k \in 0 .. job.maxTokens, InPass(k), k = 0, NEW b \in Seqs
  PROVE  BatchKeyValuesOf(Valid(b), li, hidden[b], SeqLens[b])
<1>1. SeqLens[b] \in 0 .. MaxPrompt /\ MaxPrompt \in Nat
  BY PassSizes, MaxPromptIs
<1>2. Rows(hidden[b], MaxPrompt)
  BY DEF InPass, Width
<1> DEFINE rows == ProjectBatched(li, hidden[b])
<1>3. BatchKeyValuesOf(rows, li, hidden[b], MaxPrompt)
  BY <1>2, ProjectedBatch
<1> HIDE DEF rows
<1>4. /\ Rows(SubSeq(rows, 1, SeqLens[b]), SeqLens[b])
      /\ \A i \in 1 .. SeqLens[b] : SubSeq(rows, 1, SeqLens[b])[i] = rows[i]
  BY <1>1, <1>3, PrefixOf DEF BatchKeyValuesOf
<1>5. \A i \in 1 .. SeqLens[b] : i \in 1 .. MaxPrompt
  BY <1>1
<1> QED
  BY <1>3, <1>4, <1>5 DEF Valid, ValidPrefix, rows, BatchKeyValuesOf

(* The padding of a shorter sequence is not appended, and there is room.   *)
LEMMA PrefillAppends ==
  ASSUME job \in Jobs, NEW k \in 0 .. job.maxTokens, InPass(k), k = 0, NEW b \in Seqs,
         li \in Layers, ~Embedding
  PROVE  AppendPrefill(job.cfg, li, cache[li][b], Valid(b), MaxCacheLen)
           = cache[li][b] \o Stored(job.cfg, li, Valid(b))
<1>1. Rows(cache[li][b], 0)
  BY HeldBefore DEF InPass, Before
<1>2. Len(cache[li][b]) = 0 /\ Len(Valid(b)) = SeqLens[b]
  BY <1>1, ValidRows, RowsAreSeq DEF BatchKeyValuesOf
<1>3. SeqLens[b] \in Nat /\ SeqLens[b] <= MaxCacheLen /\ MaxCacheLen \in Nat
  BY PassSizes, JobFacts, MaxPromptIs DEF MaxCacheLen
<1>4. ~(Len(cache[li][b]) + Len(Valid(b)) > MaxCacheLen)
  BY <1>2, <1>3
<1> QED
  BY <1>4 DEF AppendPrefill

LEMMA RunsEither ==
  ASSUME job \in Jobs, Shaped, NEW k \in 0 .. job.maxTokens, InPass(k), li \in Layers
  PROVE  \/ k = 0 /\ (Embedding \/ Batched) /\ RunsPrefix
         \/ /\ ~Embedding /\ (~Batched \/ k # 0) /\ RunsCached
            /\ \A b \in Seqs : Width(k) = Fresh(b, k)
<1>1. Embedding => k = 0
  BY DEF InPass
<1>2. CASE Embedding \/ (Batched /\ k = 0)
  BY <1>1, <1>2, RunPrefill
<1>3. CASE ~Embedding /\ Batched /\ k # 0
  BY <1>3, RunDecode DEF Width, Fresh
<1>4. CASE ~Embedding /\ ~Batched
  <2>1. Seqs = {1}
    BY <1>4, JobFacts
  <2>2. \A b \in Seqs : SeqLens[b] = MaxPrompt
    BY <2>1, MaxPromptIs
  <2> QED
    BY <1>4, <2>2, RunSingle DEF Width, Fresh
<1> QED
  BY <1>2, <1>3, <1>4

LEMMA RunShape ==
  ASSUME job \in Jobs, Shaped, NEW k \in 0 .. job.maxTokens, InPass(k), li \in Layers
  PROVE  /\ RunBlock.hidden = [b \in Seqs |-> RunBlock.hidden[b]]
         /\ RunBlock.layer = [b \in Seqs |-> RunBlock.layer[b]]
         /\ \A b \in Seqs :
              /\ Rows(RunBlock.hidden[b], Width(k))
              /\ ~Embedding => Rows(RunBlock.layer[b], Before(b, k) + Fresh(b, k))
<1>1. ASSUME RunsCached \/ RunsPrefix
      PROVE  /\ RunBlock.hidden = [b \in Seqs |-> RunBlock.hidden[b]]
             /\ RunBlock.layer = [b \in Seqs |-> RunBlock.layer[b]]
             /\ \A b \in Seqs : Rows(RunBlock.hidden[b], Width(k))
  <2>1. \A b \in Seqs : Rows(hidden[b], Width(k))
    BY DEF InPass
  <2> QED
    BY <1>1, <2>1, AttendedRows DEF RunsCached, RunsPrefix
<1>2. ASSUME NEW b \in Seqs, ~Embedding
      PROVE  Rows(RunBlock.layer[b], Before(b, k) + Fresh(b, k))
  <2>1. Rows(cache[li][b], Before(b, k)) /\ Before(b, k) \in Nat /\ Fresh(b, k) \in Nat
    BY <1>2, HeldBefore, PassSizes DEF InPass
  <2>2. CASE k = 0 /\ RunsPrefix
    <3>1. RunBlock.layer[b] = cache[li][b] \o Stored(job.cfg, li, Valid(b))
      BY <1>2, <2>2, PrefillAppends DEF RunsPrefix
    <3>2. Rows(Stored(job.cfg, li, Valid(b)), Fresh(b, k))
      BY <2>2, ValidRows, StoredRows DEF Fresh, BatchKeyValuesOf, StoredOf
    <3> QED
      BY <2>1, <3>1, <3>2, JoinedRows DEF Joins
  <2>3. CASE RunsCached /\ Width(k) = Fresh(b, k)
    <3>1. RunBlock.layer[b] = cache[li][b] \o Stored(job.cfg, li, Projected(b))
      BY <2>3 DEF RunsCached
    <3>2. Rows(hidden[b], Fresh(b, k)) /\ offsets[b] \in Nat
      BY <2>1, <2>3 DEF InPass
    <3>3. Rows(Stored(job.cfg, li, Projected(b)), Fresh(b, k))
      BY <3>2, ProjectedRows, StoredRows DEF Projected, StoredOf
    <3> QED
      BY <2>1, <3>1, <3>3, JoinedRows DEF Joins
  <2> QED
    BY <1>2, <2>2, <2>3, RunsEither
<1> QED
  BY <1>1, <1>2, RunsEither

(* The tokens a sequence has so far, and the rows of the layers for them.  *)
LEMMA ContextRows ==
  ASSUME job \in Jobs, NEW k \in Nat, Rounds(k), NEW b \in Seqs, ~stopped[b]
  PROVE  /\ job.prompts[b] \o tokens[b] \in Seq(Vocab)
         /\ Len(job.prompts[b] \o tokens[b]) = SeqLens[b] + k
         /\ Rows(job.prompts[b] \o tokens[b], SeqLens[b] + k)
         /\ \A l \in 0 .. NumLayers(job.cfg) : Rows(RowsOf(b, l), SeqLens[b] + k)
         /\ \A l \in Layers : RowsOf(b, l) = ReferenceLayer(job.cfg, FlatPrefix(b), l, RowsOf(b, l - 1))
<1> DEFINE context == job.prompts[b] \o tokens[b]
<1>1. /\ job.prompts[b] \in Seq(Vocab) /\ Len(job.prompts[b]) = SeqLens[b]
      /\ tokens[b] \in Seq(Vocab) /\ Len(tokens[b]) = k
      /\ SeqLens[b] \in Nat
  BY JobFacts DEF Rounds
<1>2. context \in Seq(Vocab) /\ Len(context) = SeqLens[b] + k
  <2>1. /\ context \in Seq(Vocab)
        /\ Len(context) = Len(job.prompts[b]) + Len(tokens[b])
    BY <1>1, JoinedSeq
  <2> QED
    BY <1>1, <2>1
<1> HIDE DEF context
<1>3. Rows(context, SeqLens[b] + k)
  BY <1>2, SeqIsRows
<1>4. IsConfig(job.cfg) /\ NumLayers(job.cfg) \in Nat
  BY JobFacts
<1>5. \A l \in 0 .. NumLayers(job.cfg) : Rows(ReferenceRows(job.cfg, FlatPrefix(b), context)[l], SeqLens[b] + k)
  BY <1>3, <1>4, LayerIsRows
<1>6. \A l \in 1 .. NumLayers(job.cfg) :
        ReferenceRows(job.cfg, FlatPrefix(b), context)[l]
          = ReferenceLayer(job.cfg, FlatPrefix(b), l, ReferenceRows(job.cfg, FlatPrefix(b), context)[l - 1])
  <2>1. LayersOf(ReferenceRows(job.cfg, FlatPrefix(b), context), job.cfg, FlatPrefix(b), context, SeqLens[b] + k)
    BY <1>3, <1>4, ReferenceRowsAre
  <2> QED
    BY <2>1 DEF LayersOf
<1> QED
  BY <1>2, <1>3, <1>5, <1>6 DEF RowsOf, Layers, context

(* The batched blocks run whole prompts, which the reference takes for     *)
(* those of a flat model; the cached ones run after them.                  *)
LEMMA PromptIsFlat ==
  ASSUME job \in Jobs, li \in Layers, NEW b \in Seqs, Embedding \/ Batched
  PROVE  FlatRows(job.cfg, FlatPrefix(b), li, SeqLens[b])
<1>1. job.mode # "single" /\ IsConfig(job.cfg) /\ SeqLens[b] \in Nat
  BY JobFacts DEF Embedding, Batched
<1>2. CASE Uniform(job.cfg)
  <2>1. /\ FlatPrefix(b) = 0
        /\ IsGlobal(job.cfg, li) /\ RotatedDim(job.cfg, li) = "all"
        /\ ~KvShared(job.cfg, li) /\ ~SharedLayer(job.cfg, li)
    BY <1>2 DEF FlatPrefix, Uniform, Layers, RotatedDim, KvShared, SharedLayer
  <2>2. \A i \in 1 .. SeqLens[b] : ComputedAs(job.cfg, 0, i) = job.cfg
    BY <1>1 DEF ComputedAs
  <2> QED
    BY <2>1, <2>2 DEF FlatRows
<1>3. CASE ~Uniform(job.cfg)
  <2>1. FlatPrefix(b) = SeqLens[b]
    BY <1>1, <1>3 DEF FlatPrefix
  <2>2. \A i \in 1 .. SeqLens[b] :
          ComputedAs(job.cfg, SeqLens[b], i) = Flat(job.cfg) /\ ~(i > SeqLens[b])
    BY <1>1 DEF ComputedAs
  <2> QED
    BY <1>1, <2>1, <2>2, FlatIs DEF FlatRows
<1> QED
  BY <1>2, <1>3

LEMMA CachedIsLate ==
  ASSUME job \in Jobs, NEW k \in 0 .. job.maxTokens, NEW b \in Seqs, ~Embedding, ~Batched \/ k # 0
  PROVE  FlatPrefix(b) \in Nat /\ FlatPrefix(b) <= Before(b, k)
<1>1. SeqLens[b] \in Nat /\ k \in Nat /\ (~Batched => job.mode = "single")
  BY JobFacts
<1>2. FlatPrefix(b) \in {0, SeqLens[b]} /\ (~Batched => FlatPrefix(b) = 0)
  BY <1>1 DEF FlatPrefix
<1> QED
  BY <1>1, <1>2 DEF Before

LEMMA RunRows ==
  ASSUME job \in Jobs, Shaped, NEW k \in 0 .. job.maxTokens, InPass(k), li \in Layers,
         PassRows(k), NEW b \in Seqs, ~stopped[b]
  PROVE  /\ \A i \in 1 .. Fresh(b, k) :
              RunBlock.hidden[b][i] = RowsOf(b, li)[Before(b, k) + i]
         /\ ~Embedding => RunBlock.layer[b] = KeptOf(b, li, Before(b, k) + Fresh(b, k))
<1> DEFINE above == RowsOf(b, li - 1)
           fp == FlatPrefix(b)
           o == Before(b, k)
           m == Fresh(b, k)
           z == SeqLens[b] + k
<1>1. /\ o \in Nat /\ m \in Nat /\ z \in Nat /\ o + m = z /\ k \in Nat /\ m <= Width(k)
  BY PassSizes
<1>2. li \in 1 .. NumLayers(job.cfg) /\ IsConfig(job.cfg) /\ li - 1 \in 0 .. NumLayers(job.cfg)
  BY JobFacts DEF Layers
<1>3. Rows(above, z) /\ RowsOf(b, li) = ReferenceLayer(job.cfg, fp, li, above)
  BY <1>1, <1>2, ContextRows DEF InPass, Layers
<1>4. /\ Rows(hidden[b], Width(k)) /\ offsets[b] = o
      /\ \A i \in 1 .. m : hidden[b][i] = above[o + i]
      /\ ~Embedding => cache[li][b] = Kept(job.cfg, fp, li, above, o)
  BY HeldBefore DEF InPass, PassRows, KeptOf
<1> HIDE DEF above, o, m, z, fp
<1>5. CASE k = 0 /\ (Embedding \/ Batched) /\ RunsPrefix
  <2>1. o = 0 /\ m = SeqLens[b] /\ m = z
    BY <1>1, <1>5 DEF o, m, Before, Fresh
  <2>2. FlatRows(job.cfg, fp, li, m)
    BY <1>5, <2>1, PromptIsFlat DEF fp
  <2>3. BatchKeyValuesOf(Valid(b), li, hidden[b], m)
    BY <1>5, <2>1, ValidRows
  <2>4. \A i \in 1 .. m : hidden[b][i] = above[i]
    BY <1>4, <2>1
  <2>6. ASSUME NEW i \in 1 .. m
        PROVE  RunBlock.hidden[b][i] = ReferenceLayer(job.cfg, fp, li, above)[o + i]
    <3>1. RunBlock.hidden[b][i] = AttendPrefix(li, hidden[b], Valid(b))[i]
      BY <1>5 DEF RunsPrefix
    <3>2. m <= z /\ 0 + i = i
      BY <1>1, <2>1
    <3>3. AttendPrefix(li, hidden[b], Valid(b))[i] = ReferenceLayer(job.cfg, fp, li, above)[i]
      <4>1. Rows(hidden[b], Width(k)) /\ m <= Width(k) /\ Rows(above, z) /\ m <= z
        BY <1>1, <1>3, <1>4, <3>2
      <4> QED
        BY <1>2, <2>2, <2>3, <2>4, <4>1, PrefixRow
    <3> QED
      BY <2>1, <3>1, <3>2, <3>3
  <2>7. ASSUME ~Embedding
        PROVE  RunBlock.layer[b] = Kept(job.cfg, fp, li, above, z)
    <3>1. RunBlock.layer[b] = cache[li][b] \o Stored(job.cfg, li, Valid(b))
      BY <1>5, <2>7, PrefillAppends DEF RunsPrefix
    <3>2. KeyValuesOf(Stored(job.cfg, li, Valid(b)), job.cfg, fp, li, above, o, m)
      BY <2>1, <2>2, <2>3, <2>4, BatchStored
    <3>3. Kept(job.cfg, fp, li, above, o) \o Stored(job.cfg, li, Valid(b))
            = Kept(job.cfg, fp, li, above, o + m)
      BY <1>1, <3>2, KeptGrows
    <3> QED
      BY <1>1, <1>4, <2>7, <3>1, <3>3
  <2> QED
    BY <1>1, <1>3, <2>6, <2>7 DEF KeptOf, above, o, m, z, fp
<1>6. CASE /\ ~Embedding /\ (~Batched \/ k # 0) /\ RunsCached
           /\ \A c \in Seqs : Width(k) = Fresh(c, k)
  <2>1. Width(k) = m /\ fp \in Nat /\ fp <= o
    BY <1>6, CachedIsLate DEF m, fp, o
  <2>2. KeyValuesOf(Stored(job.cfg, li, Projected(b)), job.cfg, fp, li, above, o, m)
    BY <1>1, <1>4, <2>1, ProjectedAre DEF Projected
  <2>4. Kept(job.cfg, fp, li, above, o) \o Stored(job.cfg, li, Projected(b))
          = Kept(job.cfg, fp, li, above, o + m)
    BY <1>1, <2>2, KeptGrows
  <2>5. cache[li][b] \o Stored(job.cfg, li, Projected(b)) = Kept(job.cfg, fp, li, above, z)
    BY <1>1, <1>4, <1>6, <2>4
  <2>6. ASSUME NEW i \in 1 .. m
        PROVE  RunBlock.hidden[b][i] = ReferenceLayer(job.cfg, fp, li, above)[o + i]
    <3>1. RunBlock.hidden[b]
            = AttendCached(job.cfg, li, hidden[b], Kept(job.cfg, fp, li, above, z), o)
      BY <1>4, <1>6, <2>5 DEF RunsCached
    <3>2. i \in 1 .. Width(k) /\ o + i <= z /\ z <= z /\ hidden[b][i] = above[o + i]
      BY <1>1, <1>4, <2>1
    <3> QED
      BY <1>1, <1>2, <1>3, <1>4, <2>1, <3>1, <3>2, BlockRow
  <2> QED
    BY <1>1, <1>3, <1>6, <2>5, <2>6 DEF RunsCached, KeptOf, above, o, m, z, fp
<1> QED
  BY <1>5, <1>6, RunsEither

-----------------------------------------------------------------------------
(* Each action keeps the invariant. *)
LEMMA Initially == Init => IInv
<1> SUFFICES ASSUME Init PROVE IInv
  OBVIOUS
<1>1. job \in Jobs /\ at = "start"
  BY DEF Init
<1>2. 1 .. Cardinality(Seqs) = Seqs
  BY <1>1, JobFacts
<1>3. cache = [l \in Layers |-> [b \in Seqs |-> <<>>]] /\ hidden = [b \in Seqs |-> <<>>]
  BY <1>2 DEF Init, NewCache, Layers
<1>4. Shaped /\ \A b \in Seqs : \A l \in Layers : cache[l][b] = <<>>
  BY <1>3 DEF Shaped
<1> QED
  BY <1>1, <1>4 DEF Init, IInv, AtStart

(* What a step leaves alone. *)
LEMMA TokensKept ==
  ASSUME job' = job, tokens' = tokens, stopped' = stopped
  PROVE  /\ \A k : Rounds(k) => Rounds(k)'
         /\ \A b, l : RowsOf(b, l)' = RowsOf(b, l)
         /\ \A b, l, n : KeptOf(b, l, n)' = KeptOf(b, l, n)
<1>1. \A k : Rounds(k) => Rounds(k)'
  BY JobKept DEF Rounds
<1>2. \A b, l : RowsOf(b, l)' = RowsOf(b, l)
  BY JobKept DEF RowsOf
<1>3. \A b, l, n : KeptOf(b, l, n)' = KeptOf(b, l, n)
  BY <1>2, JobKept DEF KeptOf
<1> QED
  BY <1>1, <1>2, <1>3

LEMMA PaddedRows ==
  ASSUME NEW S, NEW prompt \in Seq(S), NEW n \in Nat, Len(prompt) <= n
  PROVE  /\ Rows(EmbedPadded(prompt, n), n)
         /\ \A i \in 1 .. Len(prompt) : EmbedPadded(prompt, n)[i] = EmbeddingLookup(prompt[i])
BY DEF EmbedPadded, Rows

LEMMA PrefillBegins ==
  ASSUME IInv, BeginPrefill
  PROVE  IInv'
<1>1. /\ job \in Jobs /\ at = "start" /\ AtStart /\ Shaped
      /\ MaxPrompt # 0 /\ (Embedding \/ job.maxTokens > 0)
  BY DEF IInv, BeginPrefill, Refused
<1>2. /\ job' = job /\ cache' = cache /\ tokens' = tokens /\ stopped' = stopped /\ li' = 1
      /\ hidden' = [b \in Seqs |-> EmbedPadded(job.prompts[b], MaxPrompt)]
      /\ session' = Shape(Cardinality(Seqs), MaxPrompt)
      /\ offsets' = [b \in Seqs |-> Len(cache[1][b])]
      /\ at' = IF \E b \in Seqs : Len(cache[1][b]) + MaxPrompt > MaxCacheLen /\ ~Embedding
               THEN "panic" ELSE "layer"
  BY DEF BeginPrefill, BeginPass
<1>3. /\ MaxPrompt \in Nat /\ MaxPrompt > 0 /\ job.maxTokens \in Nat
      /\ NumLayers(job.cfg) \in Nat /\ NumLayers(job.cfg) > 0 /\ 1 \in Layers /\ 0 \in 0 .. job.maxTokens
      /\ \E b \in Seqs : TRUE
      /\ \A l \in Layers : l \in Nat /\ ~(l < 1)
  BY <1>1, JobFacts, MaxPromptIs DEF Layers
<1>4. \A b \in Seqs : Len(cache[1][b]) = 0
  BY <1>1, <1>3 DEF AtStart
<1>5. at' = "layer"
  <2>1. ~(0 + MaxPrompt > MaxCacheLen)
    BY <1>3 DEF MaxCacheLen
  <2> QED
    BY <1>2, <1>4, <2>1
<1>6. Rounds(0) /\ \A b \in Seqs : ~stopped[b] /\ tokens[b] = <<>>
  <2>1. tokens \in [Seqs -> Seq(Vocab)] /\ stopped \in [Seqs -> BOOLEAN]
    BY <1>1 DEF AtStart
  <2>2. \A b \in Seqs : ~stopped[b] /\ tokens[b] = <<>>
    BY <1>1 DEF AtStart
  <2> QED
    BY <1>3, <2>1, <2>2 DEF Rounds
<1>7. Shaped'
  BY <1>1, <1>2, JobKept DEF Shaped
<1>8. ASSUME NEW b \in Seqs
      PROVE  /\ offsets'[b] = Before(b, 0)' /\ Rows(hidden'[b], Width(0)')
             /\ \A l \in Layers : Rows(cache'[l][b], Held(b, 0, l)')
             /\ \A i \in 1 .. SeqLens[b] : hidden'[b][i] = RowsOf(b, 0)[i]
  <2>1. job.prompts[b] \in Seq(Vocab) /\ Len(job.prompts[b]) = SeqLens[b] /\ SeqLens[b] <= MaxPrompt
    BY <1>1, JobFacts, MaxPromptIs
  <2>2. /\ Rows(hidden'[b], MaxPrompt)
        /\ \A i \in 1 .. SeqLens[b] : hidden'[b][i] = EmbeddingLookup(job.prompts[b][i])
    BY <1>2, <1>3, <2>1, PaddedRows
  <2>3. Before(b, 0)' = 0 /\ Width(0)' = MaxPrompt
    BY <1>2, JobKept DEF Before, Width
  <2>4. \A l \in Layers : Held(b, 0, l)' = 0
    BY <1>2, <1>3 DEF Held, Before
  <2>5. \A l \in Layers : cache'[l][b] = <<>>
    BY <1>1, <1>2 DEF AtStart
  <2>6. job.prompts[b] \o tokens[b] = job.prompts[b]
    BY <1>6, <2>1, ConcatEmptySeq
  <2>7. Rows(job.prompts[b], SeqLens[b]) /\ NumLayers(job.cfg) \in Nat
    BY <1>3, <2>1, SeqIsRows
  <2>8. \A i \in 1 .. SeqLens[b] : RowsOf(b, 0)[i] = EmbeddingLookup(job.prompts[b][i])
    <3>1. LayersOf(ReferenceRows(job.cfg, FlatPrefix(b), job.prompts[b]), job.cfg, FlatPrefix(b), job.prompts[b], SeqLens[b])
      BY <2>7, ReferenceRowsAre
    <3> QED
      BY <2>6, <3>1 DEF RowsOf, LayersOf
  <2> QED
    BY <1>2, <1>4, <2>2, <2>3, <2>4, <2>5, <2>8, NoRows
<1>9. InPass(0)'
  <2>1. Rounds(0)'
    BY <1>2, <1>6, TokensKept
  <2>2. Embedding' = Embedding /\ MaxPrompt' = MaxPrompt /\ Seqs' = Seqs /\ Layers' = Layers /\ Width(0)' = MaxPrompt
    BY <1>2, JobKept DEF Width
  <2> QED
    BY <1>1, <1>2, <1>3, <1>8, <2>1, <2>2 DEF InPass
<1>10. PassRows(0)'
  <2>1. /\ Seqs' = Seqs /\ Layers' = Layers
        /\ \A b : Fresh(b, 0)' = SeqLens[b] /\ Before(b, 0)' = 0
        /\ \A b, l : RowsOf(b, l)' = RowsOf(b, l)
        /\ \A b, l, n : KeptOf(b, l, n)' = KeptOf(b, l, n)
    BY <1>2, JobKept, TokensKept DEF Fresh, Before
  <2>2. li' - 1 = 0 /\ \A b \in Seqs : \A i \in 1 .. SeqLens[b] : 0 + i = i
    BY <1>1, <1>2, JobFacts
  <2>3. \A b \in Seqs : \A i \in 1 .. SeqLens[b] : hidden'[b][i] = RowsOf(b, li - 1)'[0 + i]
    <3>1. \A b : RowsOf(b, li - 1)' = RowsOf(b, 0)
      BY <1>2, <2>2, JobKept DEF RowsOf
    <3> QED
      BY <1>8, <2>2, <3>1
  <2>4. \A b \in Seqs : \A l \in Layers : cache'[l][b] = KeptOf(b, l, Held(b, 0, l))'
    <3>1. \A b : \A l \in Layers : KeptOf(b, l, Held(b, 0, l))' = <<>>
      <4>1. \A b : \A l \in Layers : Held(b, 0, l)' = 0
        BY <1>2, <1>3 DEF Held, Before
      <4> QED
        BY <4>1, KeptNone DEF KeptOf
    <3>2. \A b \in Seqs : \A l \in Layers : cache'[l][b] = <<>>
      BY <1>1, <1>2 DEF AtStart
    <3> QED
      BY <3>1, <3>2
  <2> QED
    BY <2>1, <2>3, <2>4 DEF PassRows
<1> QED
  BY <1>1, <1>2, <1>3, <1>5, <1>7, <1>9, <1>10, JobKept DEF IInv

(* A block grows the cache of its layer and makes the rows of the next. *)
LEMMA LayerRuns ==
  ASSUME IInv, RunLayer
  PROVE  IInv'
<1>1. job \in Jobs /\ Shaped /\ at = "layer"
  BY DEF IInv, RunLayer
<1>2. PICK k \in 0 .. job.maxTokens : InPass(k) /\ PassRows(k)
  BY <1>1 DEF IInv
<1>3. /\ li \in Layers /\ li \in Nat /\ NumLayers(job.cfg) \in Nat
      /\ li' \in 1 .. NumLayers(job.cfg) + 1 /\ li' = li + 1
      /\ \A l \in Layers : l \in Nat /\ (l < li + 1 <=> l < li \/ l = li)
  BY <1>1, <1>2, JobFacts DEF RunLayer, InPass, Layers
<1>4. /\ job' = job /\ offsets' = offsets /\ session' = session /\ tokens' = tokens
      /\ stopped' = stopped /\ last' = last
      /\ hidden' = RunBlock.hidden
      /\ cache' = IF Embedding THEN cache ELSE [cache EXCEPT ![li] = RunBlock.layer]
      /\ at' = IF OffloadLayer(job.cfg, li) /\ ~SessionFits THEN "panic" ELSE at
  BY DEF RunLayer, KeepLayer
<1>5. /\ RunBlock.hidden = [b \in Seqs |-> RunBlock.hidden[b]]
      /\ RunBlock.layer = [b \in Seqs |-> RunBlock.layer[b]]
      /\ \A b \in Seqs :
           /\ Rows(RunBlock.hidden[b], Width(k))
           /\ ~Embedding => Rows(RunBlock.layer[b], Before(b, k) + Fresh(b, k))
  BY <1>1, <1>2, <1>3, RunShape
<1>6. /\ Seqs' = Seqs /\ Layers' = Layers /\ Width(k)' = Width(k) /\ MaxPrompt' = MaxPrompt
      /\ Embedding' = Embedding
      /\ \A b : Fresh(b, k)' = Fresh(b, k) /\ Before(b, k)' = Before(b, k)
  BY <1>4, JobKept
<1>7. at' = "layer"
  <2>1. \A b \in Seqs : Len(hidden[b]) = Width(k)
    BY <1>2, RowsAreSeq DEF InPass
  <2>2. SessionFits
    BY <1>2, <2>1 DEF SessionFits, InPass, Shape
  <2> QED
    BY <1>1, <1>4, <2>2
<1>8. \A l \in Layers : \A b \in Seqs :
        cache'[l][b] = IF ~Embedding /\ l = li THEN RunBlock.layer[b] ELSE cache[l][b]
  BY <1>1, <1>3, <1>4 DEF Shaped
<1>9. Shaped'
  <2>1. hidden' = [b \in Seqs |-> hidden'[b]]
    BY <1>4, <1>5
  <2>2. cache' = [l \in Layers |-> [b \in Seqs |-> cache'[l][b]]]
    BY <1>1, <1>3, <1>4, <1>5 DEF Shaped
  <2> QED
    BY <1>6, <2>1, <2>2 DEF Shaped
<1>10. \A b \in Seqs : \A l \in Layers :
         Held(b, k, l)' = IF ~Embedding /\ l = li THEN Before(b, k) + Fresh(b, k) ELSE Held(b, k, l)
  BY <1>3, <1>6 DEF Held
<1>11. InPass(k)'
  <2>1. Rounds(k)'
    BY <1>2, <1>4, TokensKept DEF InPass
  <2>2. \A b \in Seqs :
          /\ offsets'[b] = Before(b, k)'
          /\ Rows(hidden'[b], Width(k)')
          /\ \A l \in Layers : Rows(cache'[l][b], Held(b, k, l)')
    BY <1>2, <1>4, <1>5, <1>6, <1>8, <1>10 DEF InPass
  <2> QED
    BY <1>2, <1>3, <1>4, <1>6, <2>1, <2>2 DEF InPass
<1>12. PassRows(k)'
  <2> SUFFICES ASSUME NEW b \in Seqs, ~stopped[b]
               PROVE  /\ \A i \in 1 .. Fresh(b, k) : hidden'[b][i] = RowsOf(b, li - 1)'[Before(b, k) + i]
                      /\ ~Embedding => \A l \in Layers : cache'[l][b] = KeptOf(b, l, Held(b, k, l))'
    BY <1>4, <1>6 DEF PassRows
  <2>1. /\ \A i \in 1 .. Fresh(b, k) : hidden'[b][i] = RowsOf(b, li)[Before(b, k) + i]
        /\ ~Embedding => RunBlock.layer[b] = KeptOf(b, li, Before(b, k) + Fresh(b, k))
    BY <1>1, <1>2, <1>3, <1>4, RunRows
  <2>2. RowsOf(b, li - 1)' = RowsOf(b, li)
    <3>1. li' - 1 = li
      BY <1>3
    <3> QED
      BY <1>4, <3>1, JobKept DEF RowsOf
  <2>3. ASSUME ~Embedding, NEW l \in Layers
        PROVE  cache'[l][b] = KeptOf(b, l, Held(b, k, l))'
    <3>1. KeptOf(b, l, Held(b, k, l))' = KeptOf(b, l, IF l = li THEN Before(b, k) + Fresh(b, k) ELSE Held(b, k, l))
      <4>1. Held(b, k, l)' = IF l = li THEN Before(b, k) + Fresh(b, k) ELSE Held(b, k, l)
        BY <1>10, <2>3
      <4> QED
        BY <1>4, <4>1, JobKept DEF KeptOf, RowsOf
    <3>2. l # li => cache[l][b] = KeptOf(b, l, Held(b, k, l))
      BY <1>2, <2>3 DEF PassRows
    <3> QED
      BY <1>8, <2>1, <2>3, <3>1, <3>2
  <2> QED
    BY <2>1, <2>2, <2>3
<1> QED
  BY <1>1, <1>4, <1>6, <1>7, <1>9, <1>11, <1>12 DEF IInv

(* The passes end with a row for each sequence. *)
LEMMA PrefillEnds ==
  ASSUME IInv, EndPrefill
  PROVE  IInv'
<1>1. job \in Jobs /\ Shaped /\ at = "layer"
  BY DEF IInv, EndPrefill
<1>2. PICK k \in 0 .. job.maxTokens : InPass(k) /\ PassRows(k)
  BY <1>1 DEF IInv
<1>3. /\ job' = job /\ hidden' = hidden /\ cache' = cache /\ tokens' = tokens
      /\ stopped' = stopped /\ li' = li /\ Prefilling
  BY DEF EndPrefill
<1>4. k = 0 /\ Rounds(0) /\ \A b \in Seqs : ~stopped[b] /\ tokens[b] = <<>>
  <2>1. k \in Nat /\ Rounds(k)
    BY <1>1, <1>2, JobFacts DEF InPass
  <2>2. k = 0
    BY <1>3, <2>1, StepsAre
  <2> QED
    BY <1>3, <2>1, <2>2 DEF Rounds, Prefilling
<1>5. /\ NumLayers(job.cfg) \in Nat /\ li = NumLayers(job.cfg) + 1
      /\ \A l \in Layers : l < li
      /\ \A b \in Seqs : SeqLens[b] \in Nat
  BY <1>1, <1>2, JobFacts DEF EndPrefill, InPass, Layers
<1>6. /\ Seqs' = Seqs /\ Layers' = Layers /\ Embedding' = Embedding /\ Batched' = Batched
      /\ SeqLens' = SeqLens /\ MaxPrompt' = MaxPrompt
      /\ Shaped'
  BY <1>1, <1>3, JobKept DEF Shaped
<1>7. ASSUME NEW b \in Seqs, NEW i \in 1 .. SeqLens[b]
      PROVE  hidden[b][i] = RowsOf(b, NumLayers(job.cfg))[i]
  <2>1. li - 1 = NumLayers(job.cfg) /\ 0 + i = i
    BY <1>5
  <2> QED
    BY <1>2, <1>4, <1>7, <2>1 DEF PassRows, Fresh, Before
<1>8. CASE Embedding /\ at' = "done"
  <2>1. ASSUME NEW b \in Seqs, NEW i \in 1 .. SeqLens[b]
        PROVE  hidden[b][i] = Reference(job.cfg, FlatPrefix(b), job.prompts[b])[i]
    <3>1. job.prompts[b] \o tokens[b] = job.prompts[b]
      BY <1>1, <1>4, JobFacts, ConcatEmptySeq
    <3> QED
      BY <1>7, <2>1, <3>1 DEF RowsOf, Reference
  <2>2. Embeds'
    BY <1>3, <1>6, <2>1, JobKept DEF Embeds
  <2> QED
    BY <1>1, <1>3, <1>6, <1>8, <2>2 DEF IInv
<1>9. CASE ~Embedding /\ (\E b \in Seqs : SeqLens[b] = 0) /\ at' = "panic"
  <2>1. job.mode = "batched"
    <3>1. CASE job.mode = "single"
      <4>1. Seqs = {1} /\ SeqLens[1] = MaxPrompt /\ MaxPrompt > 0 /\ MaxPrompt \in Nat
        BY <1>1, <1>2, <3>1, JobFacts, MaxPromptIs DEF InPass
      <4> QED
        BY <1>9, <4>1
    <3> QED
      BY <1>1, <1>9, <3>1, JobFacts DEF Embedding, Batched
  <2> QED
    BY <1>1, <1>3, <1>6, <1>9, <2>1 DEF IInv
<1>10. CASE /\ ~Embedding /\ \A b \in Seqs : SeqLens[b] > 0
            /\ last' = [b \in Seqs |-> hidden[b][SeqLens[b]]] /\ at' = "sample"
  <2>1. job.maxTokens \in Nat /\ 0 \in 0 .. job.maxTokens - 1
    BY <1>1, <1>2, <1>10, JobFacts DEF InPass
  <2>2. \A b \in Seqs : \A l \in Layers : Held(b, 0, l) = SeqLens[b] + 0
    BY <1>5, <1>10 DEF Held, Before, Fresh
  <2>3. Between(0)'
    <3>1. Rounds(0)'
      BY <1>3, <1>4, TokensKept
    <3>2. \A b \in Seqs : \A l \in Layers : Rows(cache'[l][b], SeqLens[b] + 0)
      BY <1>2, <1>3, <1>4, <2>2 DEF InPass
    <3> QED
      BY <1>2, <1>6, <1>10, <3>1, <3>2 DEF Between, InPass
  <2>4. RowsBetween(0)'
    <3> SUFFICES ASSUME NEW b \in Seqs
                 PROVE  /\ last'[b] = RowsOf(b, NumLayers(job.cfg))'[SeqLens[b] + 0]
                        /\ \A l \in Layers : cache'[l][b] = KeptOf(b, l, SeqLens[b] + 0)'
      BY <1>6 DEF RowsBetween
    <3>1. RowsOf(b, NumLayers(job.cfg))' = RowsOf(b, NumLayers(job.cfg))
      BY <1>3, JobKept DEF RowsOf
    <3>2. SeqLens[b] \in 1 .. SeqLens[b] /\ SeqLens[b] + 0 = SeqLens[b]
      BY <1>5, <1>10
    <3>3. last'[b] = RowsOf(b, NumLayers(job.cfg))[SeqLens[b]]
      BY <1>7, <1>10, <3>2
    <3>4. ASSUME NEW l \in Layers
          PROVE  cache'[l][b] = KeptOf(b, l, SeqLens[b] + 0)'
      <4>1. KeptOf(b, l, SeqLens[b] + 0)' = KeptOf(b, l, SeqLens[b] + 0)
        BY <1>3, <1>6, JobKept DEF KeptOf, RowsOf
      <4> QED
        BY <1>2, <1>3, <1>4, <1>10, <2>2, <4>1 DEF PassRows
    <3> QED
      BY <3>1, <3>2, <3>3, <3>4
  <2> QED
    BY <1>1, <1>3, <1>6, <1>10, <2>1, <2>3, <2>4 DEF IInv
<1> QED
  BY <1>8, <1>9, <1>10 DEF EndPrefill

LEMMA DecodeEnds ==
  ASSUME IInv, EndDecode
  PROVE  IInv'
<1>1. job \in Jobs /\ Shaped /\ at = "layer"
  BY DEF IInv, EndDecode
<1>2. PICK k \in 0 .. job.maxTokens : InPass(k) /\ PassRows(k)
  BY <1>1 DEF IInv
<1>3. /\ job' = job /\ hidden' = hidden /\ cache' = cache /\ tokens' = tokens
      /\ stopped' = stopped /\ li' = li /\ ~Prefilling
      /\ last' = [b \in Seqs |-> IF stopped[b] THEN last[b] ELSE hidden[b][1]]
      /\ at' = IF Steps >= job.maxTokens THEN "done" ELSE "sample"
  BY DEF EndDecode
<1>4. k \in Nat /\ job.maxTokens \in Nat /\ Rounds(k) /\ Steps = k /\ k # 0 /\ ~Embedding
  BY <1>1, <1>2, <1>3, JobFacts, StepsAre DEF InPass
<1>5. /\ NumLayers(job.cfg) \in Nat /\ li = NumLayers(job.cfg) + 1 /\ li - 1 = NumLayers(job.cfg)
      /\ \A l \in Layers : l < li
      /\ \A b \in Seqs : SeqLens[b] \in Nat
  <2>1. NumLayers(job.cfg) \in Nat /\ SeqLens \in [Seqs -> Nat]
    BY <1>1, JobFacts
  <2>2. li \in 1 .. NumLayers(job.cfg) + 1 /\ li > NumLayers(job.cfg)
    BY <1>2 DEF EndDecode, InPass
  <2> HIDE DEF Layers
  <2>3. li = NumLayers(job.cfg) + 1
    BY <2>1, <2>2
  <2> QED
    BY <2>1, <2>3 DEF Layers
<1>6. /\ Seqs' = Seqs /\ Layers' = Layers /\ Embedding' = Embedding /\ Batched' = Batched
      /\ SeqLens' = SeqLens /\ MaxPrompt' = MaxPrompt
      /\ Shaped'
  BY <1>1, <1>3, JobKept DEF Shaped
<1>7. CASE at' = "done"
  BY <1>1, <1>3, <1>4, <1>6, <1>7 DEF IInv
<1>8. CASE at' = "sample"
  <2>1. k \in 0 .. job.maxTokens - 1
    BY <1>3, <1>4, <1>8
  <2>2. \A b \in Seqs : \A l \in Layers : Held(b, k, l) = SeqLens[b] + k
    BY <1>4, <1>5 DEF Held, Before, Fresh
  <2>3. Between(k)'
    <3>1. Rounds(k)'
      BY <1>3, <1>4, TokensKept
    <3>2. \A b \in Seqs : \A l \in Layers : Rows(cache'[l][b], SeqLens[b] + k)
      BY <1>2, <1>3, <2>2 DEF InPass
    <3> QED
      BY <1>2, <1>4, <1>6, <3>1, <3>2 DEF Between, InPass
  <2>4. RowsBetween(k)'
    <3> SUFFICES ASSUME NEW b \in Seqs, ~stopped[b]
                 PROVE  /\ last'[b] = RowsOf(b, NumLayers(job.cfg))'[SeqLens[b] + k]
                        /\ \A l \in Layers : cache'[l][b] = KeptOf(b, l, SeqLens[b] + k)'
      BY <1>3, <1>6 DEF RowsBetween
    <3>1. RowsOf(b, NumLayers(job.cfg))' = RowsOf(b, NumLayers(job.cfg))
      BY <1>3, JobKept DEF RowsOf
    <3>2. Fresh(b, k) = 1 /\ 1 \in 1 .. Fresh(b, k) /\ Before(b, k) + 1 = SeqLens[b] + k
      BY <1>4, <1>5 DEF Fresh, Before
    <3>3. last'[b] = RowsOf(b, NumLayers(job.cfg))[SeqLens[b] + k]
      BY <1>2, <1>3, <1>5, <3>2 DEF PassRows
    <3>4. ASSUME NEW l \in Layers
          PROVE  cache'[l][b] = KeptOf(b, l, SeqLens[b] + k)'
      <4>1. KeptOf(b, l, SeqLens[b] + k)' = KeptOf(b, l, SeqLens[b] + k)
        BY <1>3, <1>6, JobKept DEF KeptOf, RowsOf
      <4> QED
        BY <1>2, <1>3, <1>4, <2>2, <4>1 DEF PassRows
    <3> QED
      BY <3>1, <3>3, <3>4
  <2> QED
    BY <1>1, <1>3, <1>6, <1>8, <2>1, <2>3, <2>4 DEF IInv
<1> QED
  BY <1>3, <1>7, <1>8

(* A sampled token lengthens the sequence without changing a row of it. *)
LEMMA TokenAppended ==
  ASSUME job \in Jobs, NEW k \in Nat, Rounds(k), NEW b \in Seqs, ~stopped[b], NEW t \in Vocab,
         job' = job, tokens'[b] = Append(tokens[b], t)
  PROVE  /\ RowsOf(b, 0)'[SeqLens[b] + k + 1] = EmbeddingLookup(t)
         /\ \A l \in Layers : KeptOf(b, l, SeqLens[b] + k)' = KeptOf(b, l, SeqLens[b] + k)
<1> DEFINE s == job.prompts[b] \o tokens[b]
           u == job.prompts[b] \o Append(tokens[b], t)
           n == SeqLens[b] + k
<1>1. /\ IsConfig(job.cfg) /\ NumLayers(job.cfg) \in Nat
      /\ SeqLens[b] \in Nat /\ Len(job.prompts[b]) = SeqLens[b]
      /\ job.prompts[b] \in Seq(Vocab) /\ tokens[b] \in Seq(Vocab) /\ Len(tokens[b]) = k
  BY JobFacts DEF Rounds
<1>2. /\ Rows(job.prompts[b], SeqLens[b]) /\ Rows(tokens[b], k)
  BY <1>1, SeqIsRows
<1>3. Appends(Append(tokens[b], t), tokens[b], k, t)
  BY <1>2, AppendedRow
<1>4. Joins(s, job.prompts[b], SeqLens[b], tokens[b], k)
  BY <1>2, JoinedRows
<1>5. Joins(u, job.prompts[b], SeqLens[b], Append(tokens[b], t), k + 1)
  BY <1>2, <1>3, JoinedRows DEF Appends
<1> HIDE DEF s, u
<1>14. n \in Nat /\ SeqLens[b] + (k + 1) = n + 1 /\ k + 1 \in 1 .. k + 1
  <2>1. \A x, y \in Nat : x + y \in Nat /\ x + (y + 1) = x + y + 1 /\ y + 1 \in 1 .. y + 1
    OBVIOUS
  <2> QED
    BY <1>1, <2>1
<1>6. n \in Nat /\ Rows(s, n) /\ Rows(u, n + 1)
  BY <1>4, <1>5, <1>14 DEF Joins
<1>7. u[n + 1] = t
  <2>1. k + 1 \in 1 .. k + 1 /\ SeqLens[b] + (k + 1) = n + 1
    BY <1>14
  <2> QED
    BY <1>3, <1>5, <2>1 DEF Joins, Appends
<1>8. ASSUME NEW i \in 1 .. n
      PROVE  u[i] = s[i]
  <2>1. CASE i \in 1 .. SeqLens[b]
    BY <1>4, <1>5, <2>1 DEF Joins
  <2>2. CASE i \notin 1 .. SeqLens[b]
    <3> DEFINE j == i - SeqLens[b]
    <3>1. j \in 1 .. k /\ j \in 1 .. k + 1 /\ SeqLens[b] + j = i
      BY <1>1, <2>2
    <3> HIDE DEF j
    <3> QED
      BY <1>3, <1>4, <1>5, <3>1 DEF Joins, Appends
  <2> QED
    BY <2>1, <2>2
<1> HIDE DEF n
<1>9. \A l \in 0 .. NumLayers(job.cfg) : \A j \in 1 .. n :
        ReferenceRows(job.cfg, FlatPrefix(b), u)[l][j] = ReferenceRows(job.cfg, FlatPrefix(b), s)[l][j]
  <2> DEFINE m == n + 1
  <2>1. n <= m /\ (\A i \in 1 .. n : u[i] = s[i]) /\ Rows(u, m)
    BY <1>6, <1>8
  <2> HIDE DEF m
  <2>2. IsConfig(job.cfg) /\ Rows(s, n)
    BY <1>1, <1>6
  <2> QED
    BY <2>1, <2>2, PrefixRows
<1>10. \A l : RowsOf(b, l) = ReferenceRows(job.cfg, FlatPrefix(b), s)[l] /\ RowsOf(b, l)' = ReferenceRows(job.cfg, FlatPrefix(b), u)[l]
  BY JobKept DEF RowsOf, s, u
<1>11. RowsOf(b, 0)'[n + 1] = EmbeddingLookup(t)
  <2>1. n + 1 \in 1 .. n + 1
    BY <1>6
  <2>2. LayersOf(ReferenceRows(job.cfg, FlatPrefix(b), u), job.cfg, FlatPrefix(b), u, n + 1)
    BY <1>1, <1>6, ReferenceRowsAre
  <2> QED
    BY <1>7, <1>10, <2>1, <2>2 DEF LayersOf
<1>12. ASSUME NEW l \in Layers
       PROVE  KeptOf(b, l, n)' = KeptOf(b, l, n)
  <2>1. l - 1 \in 0 .. NumLayers(job.cfg)
    BY <1>1 DEF Layers
  <2>2. \A j \in 1 .. n : RowsOf(b, l - 1)'[j] = RowsOf(b, l - 1)[j]
    BY <1>9, <1>10, <2>1
  <2>3. n' = n
    BY JobKept DEF n
  <2>4. KeptOf(b, l, n)' = Kept(job.cfg, FlatPrefix(b), l, RowsOf(b, l - 1)', n)
    BY <2>3, JobKept DEF KeptOf
  <2> QED
    BY <2>2, <2>4, JobKept DEF KeptOf, Kept
<1>13. n' = n
  BY JobKept DEF n
<1> QED
  BY <1>11, <1>12, <1>13 DEF n

LEMMA Samples ==
  ASSUME IInv, NEW next \in [Seqs -> Vocab], Sample(next)
  PROVE  IInv'
<1>1. job \in Jobs /\ Shaped /\ at = "sample"
  BY DEF IInv, Sample
<1>2. PICK k \in 0 .. job.maxTokens - 1 : Between(k) /\ RowsBetween(k)
  BY <1>1 DEF IInv
<1>3. /\ job' = job /\ cache' = cache
      /\ tokens' = [b \in Seqs |-> Sampled(b, next[b])]
      /\ stopped' = [b \in Seqs |-> stopped[b] \/ Stops(next[b])]
  BY DEF Sample
<1>4. /\ k \in Nat /\ k + 1 \in Nat /\ k + 1 # 0 /\ k + 1 - 1 = k /\ k + 1 \in 0 .. job.maxTokens
      /\ job.maxTokens \in Nat /\ job.maxTokens > 0 /\ Rounds(k) /\ ~Embedding
      /\ NumLayers(job.cfg) \in Nat /\ NumLayers(job.cfg) > 0 /\ 1 \in Layers
      /\ \A l \in Layers : ~(l < 1)
  BY <1>1, <1>2, JobFacts DEF Between, Layers
<1>5. /\ Seqs' = Seqs /\ Layers' = Layers /\ Embedding' = Embedding /\ Batched' = Batched
      /\ SeqLens' = SeqLens /\ MaxPrompt' = MaxPrompt
      /\ \A b : Fresh(b, k + 1)' = 1 /\ Before(b, k + 1)' = SeqLens[b] + k
      /\ Width(k + 1)' = 1
  BY <1>3, <1>4, JobKept DEF Fresh, Before, Width
<1>6. CASE (\A b \in Seqs : stopped'[b]) /\ at' = "done" /\ UNCHANGED <<hidden, session, offsets, li>>
  <2>1. Shaped'
    BY <1>1, <1>3, <1>5, <1>6 DEF Shaped
  <2> QED
    BY <1>1, <1>3, <1>4, <1>5, <1>6, <2>1 DEF IInv
<1>7. CASE /\ ~\A b \in Seqs : stopped'[b]
           /\ BeginPass([b \in Seqs |-> <<EmbeddingLookup(NextToken(b, next[b]))>>], 1)
  <2>1. /\ hidden' = [b \in Seqs |-> <<EmbeddingLookup(NextToken(b, next[b]))>>]
        /\ session' = Shape(Cardinality(Seqs), 1)
        /\ offsets' = [b \in Seqs |-> Len(cache[1][b])]
        /\ li' = 1
        /\ at' = IF \E b \in Seqs : Len(cache[1][b]) + 1 > MaxCacheLen /\ ~Embedding
                 THEN "panic" ELSE "layer"
    BY <1>7 DEF BeginPass
  <2>2. \A b \in Seqs : Len(cache[1][b]) = SeqLens[b] + k /\ SeqLens[b] \in Nat
    BY <1>1, <1>2, <1>4, RowsAreSeq, JobFacts DEF Between
  <2>3. at' = "layer"
    <3>1. ASSUME NEW b \in Seqs
          PROVE  ~(SeqLens[b] + k + 1 > MaxCacheLen)
      <4>1. SeqLens[b] + (k + 1) <= MaxCacheLen /\ MaxCacheLen \in Nat /\ SeqLens[b] \in Nat
        BY <1>1, <1>4, PassSizes, MaxPromptIs DEF MaxCacheLen
      <4> QED
        BY <1>4, <4>1
    <3> QED
      BY <2>1, <2>2, <3>1
  <2>4. Shaped'
    BY <1>1, <1>3, <1>5, <2>1 DEF Shaped
  <2>5. ASSUME NEW b \in Seqs
        PROVE  /\ tokens'[b] \in Seq(Vocab) /\ stopped'[b] \in BOOLEAN
               /\ ~stopped'[b] => ~stopped[b]
               /\ ~stopped[b] => /\ tokens'[b] = Append(tokens[b], next[b])
                                 /\ Len(tokens'[b]) = k + 1 /\ tokens'[b] # <<>>
               /\ stopped[b] => tokens'[b] = tokens[b] /\ tokens[b] # <<>> /\ Len(tokens[b]) <= k
    <3>1. tokens[b] \in Seq(Vocab) /\ stopped[b] \in BOOLEAN /\ next[b] \in Vocab
      BY <1>4 DEF Rounds
    <3>2. stopped'[b] \in BOOLEAN /\ (~stopped'[b] => ~stopped[b])
      BY <1>3, <3>1 DEF Stops
    <3>3. CASE stopped[b]
      BY <1>3, <1>4, <3>1, <3>2, <3>3 DEF Sampled, Rounds
    <3>4. CASE ~stopped[b]
      <4>1. tokens'[b] = Append(tokens[b], next[b]) /\ Len(tokens[b]) = k
        BY <1>3, <1>4, <3>4 DEF Sampled, Rounds
      <4>2. /\ tokens'[b] \in Seq(Vocab) /\ Len(tokens'[b]) = k + 1
            /\ tokens'[b] # <<>>
        BY <1>4, <3>1, <4>1
      <4> QED
        BY <3>2, <3>4, <4>1, <4>2
    <3> QED
      BY <3>1, <3>3, <3>4
  <2>6. Rounds(k + 1)'
    <3>1. tokens' \in [Seqs -> Seq(Vocab)] /\ stopped' \in [Seqs -> BOOLEAN]
      BY <1>3, <2>5
    <3>2. ASSUME NEW b \in Seqs
          PROVE  /\ Len(tokens'[b]) <= k + 1
                 /\ IF stopped'[b] THEN tokens'[b] # <<>> ELSE Len(tokens'[b]) = k + 1
      <4>1. CASE stopped[b]
        <5>1. tokens'[b] \in Seq(Vocab) /\ Len(tokens'[b]) <= k /\ tokens'[b] # <<>> /\ stopped'[b]
          BY <2>5, <4>1
        <5> QED
          BY <1>4, <5>1
      <4>2. CASE ~stopped[b]
        BY <1>4, <2>5, <4>2
      <4> QED
        BY <4>1, <4>2
    <3> QED
      BY <1>5, <1>7, <3>1, <3>2 DEF Rounds
  <2>7. \A b \in Seqs : \A l \in Layers : Held(b, k + 1, l)' = SeqLens[b] + k
    <3>1. ASSUME NEW b \in Seqs, NEW l \in Layers
          PROVE  Held(b, k + 1, l)' = SeqLens[b] + k
      <4>1. SeqLens[b] + k + 0 = SeqLens[b] + k
        BY <1>4, <2>2
      <4> QED
        BY <1>4, <1>5, <2>1, <4>1 DEF Held
    <3> QED
      BY <3>1
  <2>8. InPass(k + 1)'
    <3>1. \A b \in Seqs : Rows(hidden'[b], 1)
      BY <2>1 DEF Rows
    <3>2. li' \in 1 .. NumLayers(job.cfg) + 1
      BY <1>4, <2>1
    <3>3. \A b \in Seqs : offsets'[b] = SeqLens[b] + k
      BY <2>1, <2>2
    <3>4. \A b \in Seqs : \A l \in Layers : Rows(cache'[l][b], Held(b, k + 1, l)')
      BY <1>2, <1>3, <2>7 DEF Between
    <3> QED
      BY <1>2, <1>3, <1>4, <1>5, <2>1, <2>6, <3>1, <3>2, <3>3, <3>4 DEF InPass, Between
  <2>9. PassRows(k + 1)'
    <3> SUFFICES ASSUME NEW b \in Seqs, ~stopped'[b]
                 PROVE  /\ \A i \in 1 .. 1 : hidden'[b][i] = RowsOf(b, li - 1)'[SeqLens[b] + k + i]
                        /\ \A l \in Layers : cache'[l][b] = KeptOf(b, l, Held(b, k + 1, l))'
      BY <1>5 DEF PassRows
    <3>1. ~stopped[b] /\ tokens'[b] = Append(tokens[b], next[b]) /\ next[b] \in Vocab
      BY <2>5
    <3>2. /\ RowsOf(b, 0)'[SeqLens[b] + k + 1] = EmbeddingLookup(next[b])
          /\ \A l \in Layers : KeptOf(b, l, SeqLens[b] + k)' = KeptOf(b, l, SeqLens[b] + k)
      BY <1>1, <1>3, <1>4, <3>1, TokenAppended
    <3>3. hidden'[b][1] = EmbeddingLookup(next[b])
      BY <2>1, <3>1 DEF NextToken
    <3>4. RowsOf(b, li - 1)' = RowsOf(b, 0)'
      <4>1. li' - 1 = 0
        BY <2>1
      <4> QED
        BY <4>1, JobKept DEF RowsOf
    <3>5. ASSUME NEW l \in Layers
          PROVE  cache'[l][b] = KeptOf(b, l, Held(b, k + 1, l))'
      <4>1. KeptOf(b, l, Held(b, k + 1, l))' = KeptOf(b, l, SeqLens[b] + k)'
        BY <1>5, <2>7, JobKept DEF KeptOf
      <4> QED
        BY <1>2, <1>3, <3>1, <3>2, <4>1 DEF RowsBetween
    <3> QED
      BY <3>2, <3>3, <3>4, <3>5
  <2> QED
    BY <1>1, <1>3, <1>4, <1>5, <2>3, <2>4, <2>8, <2>9 DEF IInv
<1> QED
  BY <1>6, <1>7 DEF Sample

LEMMA CallReturns ==
  ASSUME IInv, Refuse \/ NothingToDo \/ LogitsFail
  PROVE  IInv'
<1>1. /\ job' = job /\ hidden' = hidden /\ cache' = cache
      /\ at' = "error" \/ (at' = "done" /\ ~Embedding)
  BY DEF Refuse, NothingToDo, LogitsFail, Return
<1>2. Seqs' = Seqs /\ Layers' = Layers /\ Embedding' = Embedding
  BY <1>1, JobKept
<1>3. Shaped'
  BY <1>1, <1>2 DEF IInv, Shaped
<1> QED
  BY <1>1, <1>2, <1>3 DEF IInv

LEMMA OffloadFails ==
  ASSUME IInv, LayerFails
  PROVE  IInv'
<1>1. /\ job \in Jobs /\ Shaped /\ at = "layer" /\ job' = job /\ hidden' = hidden /\ at' = "error"
      /\ cache' = cache \/ cache' = [cache EXCEPT ![li] = RunBlock.layer]
  BY DEF IInv, LayerFails, KeepLayer
<1>2. PICK k \in 0 .. job.maxTokens : InPass(k)
  BY <1>1 DEF IInv
<1>3. li \in Layers
  BY <1>1, <1>2, JobFacts DEF LayerFails, InPass, Layers
<1>4. RunBlock.layer = [b \in Seqs |-> RunBlock.layer[b]]
  BY <1>1, <1>2, <1>3, RunShape
<1>5. cache' = [l \in Layers |-> [b \in Seqs |-> cache'[l][b]]]
  BY <1>1, <1>3, <1>4 DEF Shaped
<1>6. Shaped'
  BY <1>1, <1>5, JobKept DEF Shaped
<1> QED
  BY <1>1, <1>6 DEF IInv

LEMMA NothingHappens ==
  ASSUME IInv, UNCHANGED vars
  PROVE  IInv'
<1>1. /\ job' = job /\ at' = at /\ li' = li /\ hidden' = hidden /\ offsets' = offsets
      /\ cache' = cache /\ session' = session /\ last' = last /\ tokens' = tokens
      /\ stopped' = stopped
  BY DEF vars
<1>2. /\ Seqs' = Seqs /\ SeqLens' = SeqLens /\ MaxPrompt' = MaxPrompt /\ Layers' = Layers
      /\ Embedding' = Embedding
      /\ \A k : Width(k)' = Width(k)
      /\ \A b, k : Fresh(b, k)' = Fresh(b, k) /\ Before(b, k)' = Before(b, k)
  BY <1>1, JobKept
<1>3. \A b, k, l : Held(b, k, l)' = Held(b, k, l)
  BY <1>1, <1>2 DEF Held
<1>4. \A k : Rounds(k) => Rounds(k)'
  BY <1>1, TokensKept
<1>5. \A k : InPass(k) => InPass(k)'
  BY <1>1, <1>2, <1>3, <1>4 DEF InPass
<1>6. \A k : Between(k) => Between(k)'
  BY <1>1, <1>2, <1>4 DEF Between
<1>7. ASSUME NEW k, PassRows(k)
      PROVE  PassRows(k)'
  <2>1. \A b, l : KeptOf(b, l, Held(b, k, l))' = KeptOf(b, l, Held(b, k, l))
    BY <1>1, <1>3, JobKept DEF KeptOf, RowsOf
  <2>2. \A b : RowsOf(b, li - 1)' = RowsOf(b, li - 1)
    BY <1>1, JobKept DEF RowsOf
  <2> QED
    BY <1>1, <1>2, <1>7, <2>1, <2>2 DEF PassRows
<1>8. ASSUME NEW k, RowsBetween(k)
      PROVE  RowsBetween(k)'
  <2>1. \A b, l : KeptOf(b, l, SeqLens[b] + k)' = KeptOf(b, l, SeqLens[b] + k)
    BY <1>1, <1>2, JobKept DEF KeptOf, RowsOf
  <2>2. \A b : RowsOf(b, NumLayers(job.cfg))' = RowsOf(b, NumLayers(job.cfg))
    BY <1>1, JobKept DEF RowsOf
  <2> QED
    BY <1>1, <1>2, <1>8, <2>1, <2>2 DEF RowsBetween
<1>9. Shaped => Shaped'
  BY <1>1, <1>2 DEF Shaped
<1>10. (AtStart => AtStart') /\ (Embeds => Embeds')
  BY <1>1, <1>2, JobKept DEF AtStart, Embeds
<1> QED
  BY <1>1, <1>2, <1>5, <1>6, <1>7, <1>8, <1>9, <1>10 DEF IInv

LEMMA StepKeepsInv == IInv /\ [Next]_vars => IInv'
<1> SUFFICES ASSUME IInv, [Next]_vars PROVE IInv'
  OBVIOUS
<1>1. CASE Refuse \/ NothingToDo \/ LogitsFail
  BY <1>1, CallReturns
<1>2. CASE BeginPrefill
  BY <1>2, PrefillBegins
<1>3. CASE RunLayer
  BY <1>3, LayerRuns
<1>4. CASE LayerFails
  BY <1>4, OffloadFails
<1>5. CASE EndPrefill
  BY <1>5, PrefillEnds
<1>6. CASE EndDecode
  BY <1>6, DecodeEnds
<1>7. CASE \E next \in [Seqs -> Vocab] : Sample(next)
  BY <1>7, Samples
<1>8. CASE UNCHANGED vars
  BY <1>8, NothingHappens
<1> QED
  BY <1>1, <1>2, <1>3, <1>4, <1>5, <1>6, <1>7, <1>8 DEF Next

-----------------------------------------------------------------------------
(* What the invariant says of the rows handed out, the cache and the       *)
(* panics.                                                                 *)
LEMMA InvGivesRows ==
  ASSUME IInv
  PROVE  RowsMatchReference
<1>1. ASSUME at = "sample", NEW b \in Seqs, ~stopped[b]
      PROVE  LET context == job.prompts[b] \o tokens[b]
             IN  last[b] = Reference(job.cfg, FlatPrefix(b), context)[Len(context)]
  <2>1. PICK k \in 0 .. job.maxTokens - 1 : Between(k) /\ RowsBetween(k)
    BY <1>1 DEF IInv
  <2>2. job \in Jobs /\ k \in Nat /\ Rounds(k)
    BY <2>1, JobFacts DEF IInv, Between
  <2>3. Len(job.prompts[b] \o tokens[b]) = SeqLens[b] + k
    BY <1>1, <2>2, ContextRows
  <2> QED
    BY <1>1, <2>1, <2>3 DEF RowsBetween, RowsOf, Reference
<1>2. at = "done" /\ Embedding => Embeds
  BY DEF IInv
<1> QED
  BY <1>1, <1>2 DEF RowsMatchReference, Embeds

LEMMA InvGivesLockstep ==
  ASSUME IInv
  PROVE  LayersInLockstep
<1> SUFFICES ASSUME ~Embedding, at \in {"layer", "sample"},
                    NEW l \in DOMAIN cache, NEW b \in Seqs
             PROVE  Len(cache[l][b]) =
                      IF at = "sample" THEN Len(cache[1][b])
                      ELSE offsets[b] + (IF l >= li THEN 0 ELSE IF Prefilling THEN SeqLens[b] ELSE 1)
  BY DEF LayersInLockstep
<1>1. job \in Jobs /\ l \in Layers /\ l \in Nat /\ 1 \in Layers /\ job.maxTokens \in Nat
  BY JobFacts DEF IInv, Shaped, Layers
<1>2. CASE at = "sample"
  <2>1. PICK k \in 0 .. job.maxTokens - 1 : Between(k)
    BY <1>2 DEF IInv
  <2> QED
    BY <1>1, <1>2, <2>1, RowsAreSeq DEF Between
<1>3. CASE at = "layer"
  <2>1. PICK k \in 0 .. job.maxTokens : InPass(k)
    BY <1>3 DEF IInv
  <2>2. k \in Nat /\ (Prefilling <=> k = 0) /\ li \in Nat
    BY <1>1, <2>1, StepsAre, JobFacts DEF InPass
  <2>3. Len(cache[l][b]) = Held(b, k, l) /\ offsets[b] = Before(b, k)
    BY <1>1, <2>1, RowsAreSeq DEF InPass
  <2>4. Fresh(b, k) = IF Prefilling THEN SeqLens[b] ELSE 1
    BY <2>2 DEF Fresh
  <2>5. l >= li <=> ~(l < li)
    BY <1>1, <2>2
  <2> QED
    BY <1>3, <2>3, <2>4, <2>5 DEF Held
<1> QED
  BY <1>2, <1>3

(* The rows generate hands to the sampler, and those the embedders pool,   *)
(* are the rows of the whole sequence computed at once, for every batch of *)
(* prompts and every sequence of sampled tokens: those of the model, for   *)
(* every model in generate and for a uniform one elsewhere; the batched    *)
(* and the embedding calls of another model compute the prompt as a flat   *)
(* model does and the answer as the model does over the prompt's flat keys.*)
THEOREM RowsCorrect == Spec => []RowsMatchReference
<1>1. IInv => RowsMatchReference
  BY InvGivesRows
<1> QED
  BY <1>1, Initially, StepKeepsInv, PTL DEF Spec

(* The layers of the KV cache grow together, whatever the batch.           *)
THEOREM Lockstep == Spec => []LayersInLockstep
<1>1. IInv => LayersInLockstep
  BY InvGivesLockstep
<1> QED
  BY <1>1, Initially, StepKeepsInv, PTL DEF Spec

(* The capacity generate reserves is enough for every pass, and the        *)
(* session is opened for the rows it runs: only the empty prompt of a      *)
(* batch panics.                                                           *)
THEOREM OnlyEmptyPromptPanics == Spec => []PanicsOnlyOnEmptyPrompt
<1>1. IInv => PanicsOnlyOnEmptyPrompt
  BY DEF IInv, PanicsOnlyOnEmptyPrompt
<1> QED
  BY <1>1, Initially, StepKeepsInv, PTL DEF Spec

=============================================================================
