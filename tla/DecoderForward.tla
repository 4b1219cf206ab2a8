---------------------------- MODULE DecoderForward ----------------------------
(***************************************************************************)
(* The decoder's forward pass (crates/gelo-embedder, decoder/forward.rs)   *)
(* with its KV cache.  A row of a matrix is the term that computes it: the *)
(* token it embeds, or the layer that produced it from an earlier row, the *)
(* position and dimensions it was rotated for, and the keys and values it  *)
(* attended to.  Two rows are equal when they are computed alike, so what  *)
(* the cache, the padding and the position offsets do to a row shows.      *)
(* Offloading a matrix product does not change the row it returns.         *)
(*                                                                         *)
(* A configuration has one attention class for each layer, 0 for global    *)
(* and the window for local; the sequence is empty when the model declares *)
(* none.                                                                   *)
(***************************************************************************)
EXTENDS Naturals, Sequences

(* Layers, and the attention class of each. *)
NumLayers(cfg) == cfg.numLayers

EffectiveAttentionClass(cfg, li) == IF cfg.classes = <<>> THEN 0 ELSE cfg.classes[li]

IsGlobal(cfg, li) == EffectiveAttentionClass(cfg, li) = 0

RotatedDim(cfg, li) == IF IsGlobal(cfg, li) /\ cfg.partialRope THEN "partial" ELSE "all"

(* Global layers may use the keys, rotated, as their values. *)
KvShared(cfg, li) == cfg.kvShared /\ IsGlobal(cfg, li)

OffloadLayer(cfg, li) ==
  li > cfg.skipFirst /\ ~(cfg.skipLast /\ li = NumLayers(cfg))

-----------------------------------------------------------------------------
(* Rows. *)

EmbeddingLookup(token) == <<"embed", token>>

(* The buffer of a batch is zero where a sequence is shorter than n_max. *)
PadRow == <<"zero">>

EmbedPadded(prompt, nMax) ==
  [i \in 1 .. nMax |-> IF i <= Len(prompt) THEN EmbeddingLookup(prompt[i]) ELSE PadRow]

Key(li, h, pos, dims) == <<"key", li, pos, dims, h>>
Value(li, h) == <<"value", li, h>>

(* What the rest of a block makes of a row and what it attended to: the    *)
(* output projection, both residuals and the feed-forward network.         *)
FinishBlock(li, h, pos, dims, kvs) == <<"block", li, pos, dims, h, kvs>>

(* The columns the causal mask leaves to the row at position pos, which    *)
(* counts from 0, and those a window leaves.                               *)
CausalGqaAttentionCached(kvs, pos) == SubSeq(kvs, 1, pos + 1)

CausalGqaAttentionSwaCached(kvs, pos, window) ==
  LET lo == IF pos >= window - 1 THEN pos - (window - 1) ELSE 0
  IN  SubSeq(kvs, lo + 1, pos + 1)

Attend(cfg, li, kvs, pos) ==
  IF IsGlobal(cfg, li) THEN CausalGqaAttentionCached(kvs, pos)
  ELSE CausalGqaAttentionSwaCached(kvs, pos, EffectiveAttentionClass(cfg, li))

-----------------------------------------------------------------------------
(* The cache: for each layer and sequence the keys and values of the       *)
(* tokens so far.                                                          *)

NewCache(cfg, batch) == [li \in 1 .. NumLayers(cfg) |-> [b \in 1 .. batch |-> <<>>]]

(* A layer laid out as shared keeps the keys and returns them as values.   *)
SharedLayer(cfg, li) == cfg.classes # <<>> /\ KvShared(cfg, li)

Stored(cfg, li, kvs) ==
  IF SharedLayer(cfg, li) THEN [i \in DOMAIN kvs |-> <<kvs[i][1], kvs[i][1]>>] ELSE kvs

(* An append that does not fit leaves the sequence as it is. *)
AppendPrefill(cfg, li, rows, kvs, capacity) ==
  IF Len(rows) + Len(kvs) > capacity THEN rows ELSE rows \o Stored(cfg, li, kvs)

(* One row for each sequence; the first that is full ends the loop. *)
AppendDecode(cfg, li, layer, kvs, capacity) ==
  [b \in DOMAIN layer |->
    IF \E c \in 1 .. b : Len(layer[c]) + 1 > capacity THEN layer[b]
    ELSE Append(layer[b], Stored(cfg, li, <<kvs[b]>>)[1])]

-----------------------------------------------------------------------------
(* The blocks.  Each returns the rows of the next layer and what the layer *)
(* holds in the cache.                                                     *)

(* Queries, keys and values of rows that start at position offset. *)
ProjectQkv(cfg, li, rows, offset) ==
  [i \in DOMAIN rows |->
    LET k == Key(li, rows[i], offset + i - 1, RotatedDim(cfg, li))
    IN  <<k, IF KvShared(cfg, li) THEN k ELSE Value(li, rows[i])>>]

AttendCached(cfg, li, rows, cached, offset) ==
  [i \in DOMAIN rows |->
    FinishBlock(li, rows[i], offset + i - 1, RotatedDim(cfg, li),
                Attend(cfg, li, cached, offset + i - 1))]

DecoderBlockCached(cfg, li, hidden, layer, offsets, capacity) ==
  LET kvs == ProjectQkv(cfg, li, hidden[1], offsets[1])
      cached == [layer EXCEPT ![1] = AppendPrefill(cfg, li, @, kvs, capacity)]
  IN  [hidden |-> [hidden EXCEPT ![1] = AttendCached(cfg, li, @, cached[1], offsets[1])],
       layer |-> cached]

(* Each sequence attends to its own part of the cache. *)
AttendEach(cfg, li, hidden, cached, offsets) ==
  [b \in DOMAIN hidden |-> AttendCached(cfg, li, hidden[b], cached[b], offsets[b])]

(* One row for each sequence, each at its own position. *)
DecoderBlockCachedBatched(cfg, li, hidden, layer, offsets, capacity) ==
  LET kvs == [b \in DOMAIN hidden |-> ProjectQkv(cfg, li, hidden[b], offsets[b])[1]]
      cached == AppendDecode(cfg, li, layer, kvs, capacity)
  IN  [hidden |-> AttendEach(cfg, li, hidden, cached, offsets), layer |-> cached]

(* The block of run_batched and run_prefill_batched rotates all dimensions *)
(* from position 0, attends globally and keeps keys and values apart,      *)
(* whatever the attention class of the layer.                              *)
ProjectBatched(li, rows) ==
  [i \in DOMAIN rows |-> <<Key(li, rows[i], i - 1, "all"), Value(li, rows[i])>>]

(* Mutant: padding rows are kept as keys and values. *)
WholePrefix(kvs, validN) == kvs

ValidPrefix(kvs, validN) == SubSeq(kvs, 1, validN)

(* Padding rows attend to nothing.  A sequence without tokens is skipped.  *)
AttendPrefix(li, rows, kvs) ==
  [i \in DOMAIN rows |->
    FinishBlock(li, rows[i], i - 1, "all",
                IF i <= Len(kvs) THEN CausalGqaAttentionCached(kvs, i - 1) ELSE <<>>)]

DecoderBlockBatched(cfg, li, hidden, layer, seqLens, capacity) ==
  LET valid == [b \in DOMAIN hidden |-> ValidPrefix(ProjectBatched(li, hidden[b]), seqLens[b])]
  IN  [hidden |-> [b \in DOMAIN hidden |-> AttendPrefix(li, hidden[b], valid[b])],
       layer |-> [b \in DOMAIN hidden |-> AppendPrefill(cfg, li, layer[b], valid[b], capacity)]]

-----------------------------------------------------------------------------
(* What a row is meant to be, computed without a cache.  The first m rows  *)
(* of a sequence may have been computed by the batched blocks, as if the   *)
(* model had neither windows, nor partial rotation, nor shared keys.       *)
Flat(cfg) == [cfg EXCEPT !.classes = <<>>, !.partialRope = FALSE, !.kvShared = FALSE]

ComputedAs(cfg, m, i) == IF i <= m THEN Flat(cfg) ELSE cfg

(* The columns a model with these attention classes leaves to the row at   *)
(* index i of a layer, and the first of them.                              *)
Seen(cfg, li, i) ==
  {j \in 1 .. i : IsGlobal(cfg, li) \/ i - j < EffectiveAttentionClass(cfg, li)}

FirstSeen(cfg, li, i) ==
  CHOOSE j \in Seen(cfg, li, i) : \A k \in Seen(cfg, li, i) : j <= k

(* The key and the value of a row at index j.  Those of the first m rows   *)
(* are apart in the pass that computes them; a later pass, when late, has  *)
(* them from the cache, where a shared layer keeps the keys alone.         *)
KeyValue(cfg, m, li, late, h, j) ==
  LET own == ComputedAs(cfg, m, j)
      k == Key(li, h, j - 1, RotatedDim(own, li))
  IN  <<k, IF KvShared(own, li) \/ (late /\ SharedLayer(cfg, li)) THEN k ELSE Value(li, h)>>

ReferenceLayer(cfg, m, li, rows) ==
  [i \in DOMAIN rows |->
    LET own == ComputedAs(cfg, m, i)
        first == FirstSeen(own, li, i)
    IN  FinishBlock(li, rows[i], i - 1, RotatedDim(own, li),
          [c \in 1 .. i + 1 - first |->
            KeyValue(cfg, m, li, i > m, rows[first + c - 1], first + c - 1)])]

(* The rows of every layer for a sequence of tokens, all at once and       *)
(* without a cache, and those of the last layer.                           *)
ReferenceRows(cfg, m, tokens) ==
  LET Layer[li \in 0 .. NumLayers(cfg)] ==
        IF li = 0 THEN [i \in DOMAIN tokens |-> EmbeddingLookup(tokens[i])]
        ELSE ReferenceLayer(cfg, m, li, Layer[li - 1])
  IN  Layer

Reference(cfg, m, tokens) == ReferenceRows(cfg, m, tokens)[NumLayers(cfg)]

(* Models that a flat one computes alike.                                  *)
Uniform(cfg) ==
  ~cfg.partialRope /\ ~cfg.kvShared /\ \A li \in 1 .. NumLayers(cfg) : IsGlobal(cfg, li)
===============================================================================
