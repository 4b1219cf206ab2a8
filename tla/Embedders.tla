------------------------------ MODULE Embedders ------------------------------
(***************************************************************************)
(* The two sentence embedders of gelo-embedder, from the checkpoint to the *)
(* pooled vector: GeloBertEmbedder and the decoder in GeloQwenEmbedder.    *)
(*                                                                         *)
(* A row, or a head of a row, is the term that computes it, so two         *)
(* vectors are equal when they are computed alike.  A shard is a record of *)
(* its bytes and its tensors, a function of <<prefix, layer, name>> with   *)
(* layer 0 for what belongs to no layer; a tensor has a rank, a dtype and  *)
(* its data.  An executor is the function from handles to the weights      *)
(* provisioned under them, and a masked product is the product with the    *)
(* provisioned weight.  An optional setting is a set of at most one value. *)
(***************************************************************************)
EXTENDS Naturals, Sequences, FiniteSets

Good(v) == [ok |-> TRUE, value |-> v]
Bad(e) == [ok |-> FALSE, value |-> e]
UnwrapOr(option, default) == IF option = {} THEN default ELSE CHOOSE v \in option : TRUE
AtMost(n, bound) == IF n < bound THEN n ELSE bound

-----------------------------------------------------------------------------
(* Configurations.                                                         *)
Layers(cfg) == 1 .. cfg.num_hidden_layers

OffloadLayer(cfg, li) == li > cfg.skip_first_layers /\ ~(cfg.skip_last_layer /\ li = cfg.num_hidden_layers)

Offloaded(cfg) == {li \in Layers(cfg) : OffloadLayer(cfg, li)}

OutAttnMultEnabledFor(cfg, n) == cfg.use_out_attn_mult /\ n >= UnwrapOr(cfg.out_attn_mult_min_seq_len, cfg.hidden_size)

PermAttentionEnabledFor(cfg, n) ==
  cfg.use_perm_attention /\ ~OutAttnMultEnabledFor(cfg, n) /\ n >= UnwrapOr(cfg.perm_attention_min_seq_len, 64)

-----------------------------------------------------------------------------
(* Checkpoints.                                                            *)
Roots(shard) == {name[1] : name \in DOMAIN shard.tensors}

BertDetectPrefix(shard) ==
  IF "bert." \in Roots(shard) THEN "bert." ELSE IF "roberta." \in Roots(shard) THEN "roberta." ELSE ""

DetectPrefix(shards) == IF \E i \in DOMAIN shards : "model." \in Roots(shards[i]) THEN "model." ELSE ""

(* The first shard that has the tensor. *)
LookupView(shards, name) ==
  LET having == {s \in DOMAIN shards : name \in DOMAIN shards[s].tensors}
      first == CHOOSE s \in having : \A r \in having : s <= r
  IN IF having = {} THEN Bad("missing") ELSE Good(shards[first].tensors[name])

Converted(view, dtypes, as) ==
  IF view.dtype \in dtypes THEN Good(<<as, view.dtype, view.data>>) ELSE Bad("dtype")

BertViewToF32(view) == Converted(view, {"F32", "F16"}, "f32")
ViewToF32(view) == Converted(view, {"F32", "F16", "BF16"}, "f32")
ViewToBf16(view) == Converted(view, {"F32", "F16", "BF16"}, "bf16")

BertTensorTo1d(view) == IF view.rank # 1 THEN Bad("rank") ELSE BertViewToF32(view)
BertTensorTo2d(view) == IF view.rank # 2 THEN Bad("rank") ELSE BertViewToF32(view)
TensorTo1d(view) == IF view.rank # 1 THEN Bad("rank") ELSE ViewToF32(view)
TensorTo2dBf16(view) == IF view.rank # 2 THEN Bad("rank") ELSE ViewToBf16(view)

(* A linear layer is stored as (out, in) and read as (in, out). *)
Transposed(m) == IF m.ok THEN Good(<<"t", m.value>>) ELSE m

Loaded(read, shards) ==
  IF \E k \in DOMAIN read : ~read[k].ok THEN Bad("checkpoint")
  ELSE Good([t |-> [k \in DOMAIN read |-> read[k].value],
             model_identity |-> <<"sha256", [i \in DOMAIN shards |-> shards[i].bytes]>>])

BertKinds == [Q |-> "wq", K |-> "wk", V |-> "wv", O |-> "wo", FfnUp |-> "w_ffn_up", FfnDown |-> "w_ffn_down"]
BertMatrices == {BertKinds[kind] : kind \in DOMAIN BertKinds}
BertVectors == {"bq", "bk", "bv", "bo", "attn_ln_w", "attn_ln_b", "b_ffn_up", "b_ffn_down", "ffn_ln_w", "ffn_ln_b"}
BertTables == {"word_embeddings", "position_embeddings", "token_type_embeddings"}
BertTensors(cfg) ==
  ({0} \X (BertTables \cup {"LayerNorm.weight", "LayerNorm.bias"})) \cup (Layers(cfg) \X (BertMatrices \cup BertVectors))

BertFromSafetensors(shard, cfg) ==
  LET View(k) == LookupView(<<shard>>, <<BertDetectPrefix(shard), k[1], k[2]>>)
      Read(k) == IF ~View(k).ok THEN View(k)
                 ELSE IF k[2] \in BertMatrices THEN Transposed(BertTensorTo2d(View(k).value))
                 ELSE IF k[2] \in BertTables THEN BertTensorTo2d(View(k).value)
                 ELSE BertTensorTo1d(View(k).value)
  IN Loaded([k \in BertTensors(cfg) |-> Read(k)], <<shard>>)

Kinds == [Q |-> "wq", K |-> "wk", V |-> "wv", O |-> "wo", FfnGate |-> "w_gate", FfnUp |-> "w_up", FfnDown |-> "w_down"]
Matrices == {Kinds[kind] : kind \in DOMAIN Kinds}
DecoderTensors(cfg) ==
  ({0} \X {"embed_tokens", "norm"}) \cup (Layers(cfg) \X (Matrices \cup {"norm_attn", "norm_ffn", "q_norm", "k_norm"}))

(* The norms of queries and keys may be missing. *)
FromSafetensors(shards, cfg) ==
  LET View(k) == LookupView(shards, <<DetectPrefix(shards), k[1], k[2]>>)
      Optional(k) == k[2] \in {"q_norm", "k_norm"}
      Read(k) == IF ~View(k).ok THEN View(k)
                 ELSE IF k[2] \in Matrices THEN Transposed(TensorTo2dBf16(View(k).value))
                 ELSE IF k[2] = "embed_tokens" THEN TensorTo2dBf16(View(k).value)
                 ELSE TensorTo1d(View(k).value)
  IN Loaded([k \in {k \in DecoderTensors(cfg) : ~Optional(k) \/ View(k).ok} |-> Read(k)], shards)

-----------------------------------------------------------------------------
(* Provisioning.  The decoder's matrices are taken out of its weights, or  *)
(* shared with them; what was taken before cannot be provisioned again.    *)
Handles(cfg, kinds) == Offloaded(cfg) \X DOMAIN kinds
Provisioned(cfg, kinds, t) == [h \in Handles(cfg, kinds) |-> t[<<h[1], kinds[h[2]]>>]]

BertProvisionInto(weights, cfg) == Provisioned(cfg, BertKinds, weights.t)

Taken(weights, cfg) == \E h \in Handles(cfg, Kinds) : <<h[1], Kinds[h[2]]>> \notin DOMAIN weights.t

ProvisionInto(weights, cfg) ==
  IF Taken(weights, cfg) THEN Bad("taken")
  ELSE Good([exec |-> Provisioned(cfg, Kinds, weights.t),
             weights |-> [weights EXCEPT !.t = [k \in {k \in DOMAIN @ : k[1] \notin Offloaded(cfg) \/ k[2] \notin Matrices} |-> @[k]]]])

ProvisionIntoShared(weights, cfg) ==
  IF Taken(weights, cfg) THEN Bad("taken")
  ELSE Good([exec |-> Provisioned(cfg, Kinds, weights.t), weights |-> weights])

-----------------------------------------------------------------------------
(* Terms.                                                                  *)
Times(x, w) == <<"times", x, w>>
Plus(x, y) == <<"plus", x, y>>
LayerNorm(x, gamma, beta) == <<"layer_norm", x, gamma, beta>>
RmsNorm(x, gamma) == <<"rms_norm", x, gamma>>
Gelu(x) == <<"gelu", x>>
Swiglu(gate, up) == <<"swiglu", gate, up>>
HeadOf(h, rows) == [t \in DOMAIN rows |-> <<"head", h, rows[t]>>]

(* The matrix a product uses: provisioned or the host's own. *)
Operand(e, kinds, li, kind) ==
  IF OffloadLayer(e.cfg, li) THEN e.exec[<<li, kind>>] ELSE e.weights.t[<<li, kinds[kind]>>]

HasOperands(e, kinds, li) ==
  \A kind \in DOMAIN kinds :
    IF OffloadLayer(e.cfg, li) THEN <<li, kind>> \in DOMAIN e.exec ELSE <<li, kinds[kind]>> \in DOMAIN e.weights.t

Dots(q, k) == [t \in DOMAIN q |-> [j \in DOMAIN k |-> <<"dot", q[t], k[j]>>]]
OffloadAttentionQktBatched(q, k) == [h \in DOMAIN q |-> Dots(q[h], k[h])]

(* Softmax over the scores of row t and the product with the values; the   *)
(* causal mask leaves the scores up to t.                                  *)
SoftmaxAv(scores, v) == [t \in DOMAIN scores |-> <<"softmax", [j \in DOMAIN scores[t] |-> <<scores[t][j], v[j]>>]>>]
ApplyCausalMask(scores) == [t \in DOMAIN scores |-> SubSeq(scores[t], 1, t)]
Concat(heads) == [t \in DOMAIN heads[1] |-> [h \in DOMAIN heads |-> heads[h][t]]]

-----------------------------------------------------------------------------
(* BERT.                                                                   *)
BuildEmbedding(e, ids) ==
  LET T(name) == e.weights.t[<<0, name>>]
  IN [i \in DOMAIN ids |-> Plus(Plus(<<"row", T("word_embeddings"), ids[i]>>, <<"row", T("position_embeddings"), i - 1>>),
                                <<"row", T("token_type_embeddings"), 0>>)]

MultiHeadAttention(q, k, v, heads) ==
  Concat([h \in 1 .. heads |-> SoftmaxAv(Dots(HeadOf(h, q), HeadOf(h, k)), HeadOf(h, v))])

MultiHeadAttentionWithOffload(q, k, v, heads) ==
  LET scores == OffloadAttentionQktBatched([h \in 1 .. heads |-> HeadOf(h, q)], [h \in 1 .. heads |-> HeadOf(h, k)])
  IN Concat([h \in 1 .. heads |-> SoftmaxAv(scores[h], HeadOf(h, v))])

BertAttention(e, li, rows) ==
  LET Project(kind, bias) == [i \in DOMAIN rows |-> Plus(Times(rows[i], Operand(e, BertKinds, li, kind)), e.weights.t[<<li, bias>>])]
      q == Project("Q", "bq")
      k == Project("K", "bk")
      v == Project("V", "bv")
  IN IF OffloadLayer(e.cfg, li) /\ OutAttnMultEnabledFor(e.cfg, Len(rows))
     THEN MultiHeadAttentionWithOffload(q, k, v, e.cfg.num_attention_heads)
     ELSE MultiHeadAttention(q, k, v, e.cfg.num_attention_heads)

EncoderBlock(e, li, rows) ==
  LET T(name) == e.weights.t[<<li, name>>]
      Linear(x, kind, bias) == Plus(Times(x, Operand(e, BertKinds, li, kind)), T(bias))
      ctx == BertAttention(e, li, rows)
      Attended(i) == LayerNorm(Plus(rows[i], Linear(ctx[i], "O", "bo")), T("attn_ln_w"), T("attn_ln_b"))
      Ffn(x) == Linear(Gelu(Linear(x, "FfnUp", "b_ffn_up")), "FfnDown", "b_ffn_down")
  IN [i \in DOMAIN rows |-> LayerNorm(Plus(Attended(i), Ffn(Attended(i))), T("ffn_ln_w"), T("ffn_ln_b"))]

(* A product without its weight fails, a position past the table panics;   *)
(* the session is closed either way.                                       *)
BertRun(e, ids) ==
  LET embedded == [i \in DOMAIN ids |-> LayerNorm(BuildEmbedding(e, ids)[i], e.weights.t[<<0, "LayerNorm.weight">>],
                                                  e.weights.t[<<0, "LayerNorm.bias">>])]
      after[li \in 0 .. e.cfg.num_hidden_layers] == IF li = 0 THEN embedded ELSE EncoderBlock(e, li, after[li - 1])
  IN IF Len(ids) > e.cfg.max_position_embeddings \/ \E li \in Layers(e.cfg) : ~HasOperands(e, BertKinds, li) THEN Bad("forward")
     ELSE Good(after[e.cfg.num_hidden_layers])

MeanL2(rows) == Good(<<"l2", <<"mean", rows>>>>)

-----------------------------------------------------------------------------
(* The decoder.  Heads are contiguous; each key head serves a group of     *)
(* consecutive query heads.                                                *)
EmbeddingLookup(e, ids) == [i \in DOMAIN ids |-> <<"row", e.weights.t[<<0, "embed_tokens">>], ids[i]>>]

ApplyQkNorm(e, li, name, heads) ==
  IF <<li, name>> \notin DOMAIN e.weights.t THEN heads
  ELSE [h \in DOMAIN heads |-> [i \in DOMAIN heads[h] |-> RmsNorm(heads[h][i], e.weights.t[<<li, name>>])]]

RopeApply(heads) == [h \in DOMAIN heads |-> [i \in DOMAIN heads[h] |-> <<"rope", i - 1, heads[h][i]>>]]

(* Mutant: key heads are dealt out in turn. *)
KvHeadInTurn(cfg, qh) == 1 + ((qh - 1) % cfg.num_key_value_heads)

KvHead(cfg, qh) == 1 + ((qh - 1) \div (cfg.num_attention_heads \div cfg.num_key_value_heads))

Replicated(cfg, kv) == [qh \in 1 .. cfg.num_attention_heads |-> kv[KvHead(cfg, qh)]]

CausalGqaAttention(cfg, q, k, v) ==
  Concat([qh \in DOMAIN q |-> SoftmaxAv(ApplyCausalMask(Dots(q[qh], k[KvHead(cfg, qh)])), v[KvHead(cfg, qh)])])

CausalGqaAttentionWithOffload(cfg, q, k, v) ==
  LET scores == OffloadAttentionQktBatched(q, Replicated(cfg, k))
  IN Concat([qh \in DOMAIN q |-> SoftmaxAv(ApplyCausalMask(scores[qh]), v[KvHead(cfg, qh)])])

(* The permuted offload is causal attention of every head over its rows.   *)
OffloadAttentionPermuted(q, k, v) == [h \in DOMAIN q |-> SoftmaxAv(ApplyCausalMask(Dots(q[h], k[h])), v[h])]

CausalGqaAttentionPermuted(cfg, q, k, v) ==
  Concat(OffloadAttentionPermuted(q, Replicated(cfg, k), Replicated(cfg, v)))

DecoderAttention(e, li, rows) ==
  LET cfg == e.cfg
      Project(kind, heads) ==
        LET projected == [i \in DOMAIN rows |-> Times(RmsNorm(rows[i], e.weights.t[<<li, "norm_attn">>]), Operand(e, Kinds, li, kind))]
        IN [h \in 1 .. heads |-> HeadOf(h, projected)]
      q == RopeApply(ApplyQkNorm(e, li, "q_norm", Project("Q", cfg.num_attention_heads)))
      k == RopeApply(ApplyQkNorm(e, li, "k_norm", Project("K", cfg.num_key_value_heads)))
      v == Project("V", cfg.num_key_value_heads)
  IN IF OffloadLayer(cfg, li) /\ OutAttnMultEnabledFor(cfg, Len(rows)) THEN CausalGqaAttentionWithOffload(cfg, q, k, v)
     ELSE IF OffloadLayer(cfg, li) /\ PermAttentionEnabledFor(cfg, Len(rows)) THEN CausalGqaAttentionPermuted(cfg, q, k, v)
     ELSE CausalGqaAttention(cfg, q, k, v)

DecoderBlock(e, li, rows) ==
  LET Weight(kind) == Operand(e, Kinds, li, kind)
      ctx == DecoderAttention(e, li, rows)
      Attended(i) == Plus(rows[i], Times(ctx[i], Weight("O")))
      Ffn(x) == LET normed == RmsNorm(x, e.weights.t[<<li, "norm_ffn">>])
                IN Times(Swiglu(Times(normed, Weight("FfnGate")), Times(normed, Weight("FfnUp"))), Weight("FfnDown"))
  IN [i \in DOMAIN rows |-> Plus(Attended(i), Ffn(Attended(i)))]

DecoderRun(e, ids) ==
  LET after[li \in 0 .. e.cfg.num_hidden_layers] == IF li = 0 THEN EmbeddingLookup(e, ids) ELSE DecoderBlock(e, li, after[li - 1])
      rows == after[e.cfg.num_hidden_layers]
  IN IF Len(ids) > e.cfg.max_position_embeddings \/ \E li \in Layers(e.cfg) : ~HasOperands(e, Kinds, li) THEN Bad("forward")
     ELSE Good([i \in DOMAIN rows |-> RmsNorm(rows[i], e.weights.t[<<0, "norm">>])])

(* There is no last row of no rows. *)
LastL2(rows) == IF rows = <<>> THEN Bad("empty") ELSE Good(<<"l2", rows[Len(rows)]>>)

-----------------------------------------------------------------------------
(* Embedders.                                                              *)
MaxLen(cfg) == AtMost(cfg.max_seq_len, cfg.max_position_embeddings)

BertNew(cfg, weights) ==
  Good([family |-> "bert", cfg |-> cfg, weights |-> weights, exec |-> BertProvisionInto(weights, cfg),
        max_len |-> MaxLen(cfg), close |-> {102}])

BertFromLocal(cfg, shard) ==
  LET weights == BertFromSafetensors(shard, cfg) IN IF weights.ok THEN BertNew(cfg, weights.value) ELSE weights

QwenWith(cfg, provisioned) ==
  IF ~provisioned.ok THEN provisioned
  ELSE Good([family |-> "decoder", cfg |-> cfg, weights |-> provisioned.value.weights, exec |-> provisioned.value.exec,
             max_len |-> MaxLen(cfg), close |-> {}])

QwenNew(cfg, weights) == QwenWith(cfg, ProvisionInto(weights, cfg))
WithSharedWeights(cfg, weights) == QwenWith(cfg, ProvisionIntoShared(weights, cfg))

QwenFromLocal(cfg, shards) ==
  LET weights == FromSafetensors(shards, cfg) IN IF weights.ok THEN QwenNew(cfg, weights.value) ELSE weights

(* One file, or those the index names, in the order of their names.        *)
Sorted(names) ==
  CHOOSE s \in [1 .. Cardinality(names) -> names] : \A i, j \in 1 .. Cardinality(names) : i < j => s[i] < s[j]

FindSafetensorsShards(repo) ==
  IF repo.single # {} THEN Good(<<CHOOSE s \in repo.single : TRUE>>)
  ELSE IF repo.index = {} THEN Bad("absent")
  ELSE IF ~(repo.index \subseteq DOMAIN repo.files) THEN Bad("download")
  ELSE Good([i \in 1 .. Cardinality(repo.index) |-> repo.files[Sorted(repo.index)[i]]])

QwenFromPretrained(cfg, repo) ==
  LET shards == FindSafetensorsShards(repo) IN IF shards.ok THEN QwenFromLocal(cfg, shards.value) ELSE shards

WithMaxLen(e, n) == [e EXCEPT !.max_len = AtMost(n, e.cfg.max_position_embeddings)]

Encode(e, text) ==
  LET cut == SubSeq(text, 1, e.max_len)
  IN IF Len(text) <= e.max_len THEN text
     ELSE IF cut = <<>> \/ e.close = {} THEN cut
     ELSE [cut EXCEPT ![Len(cut)] = CHOOSE t \in e.close : TRUE]

BertEmbedOne(e, text) ==
  LET hidden == BertRun(e, Encode(e, text)) IN IF hidden.ok THEN MeanL2(hidden.value) ELSE hidden

EmbedOne(e, text) ==
  LET hidden == DecoderRun(e, Encode(e, text)) IN IF hidden.ok THEN LastL2(hidden.value) ELSE hidden

(* Texts in parallel, their vectors in order; the first failure is the     *)
(* batch's.                                                                *)
EmbedAll(e, texts) ==
  LET vectors == [i \in DOMAIN texts |-> IF e.family = "bert" THEN BertEmbedOne(e, texts[i]) ELSE EmbedOne(e, texts[i])]
  IN IF \E i \in DOMAIN texts : ~vectors[i].ok THEN Bad("embed")
     ELSE Good([i \in DOMAIN texts |-> vectors[i].value])
=============================================================================
