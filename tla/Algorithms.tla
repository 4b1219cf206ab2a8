---------------------------- MODULE Algorithms ----------------------------
(***************************************************************************)
(* The pure algorithms of the repository, each evaluated on an input and   *)
(* compared with an independent definition of what it computes.            *)
(***************************************************************************)
EXTENDS PermutedAttention, TLC

CONSTANTS
  W,      \* bits of the word the tree layout is computed in
  Fuel,   \* rounds of the chunking loop that are followed
  Inputs  \* the calls to evaluate

R == INSTANCE Reranker
E == INSTANCE Embedders
Att == INSTANCE Attestation
Keys == INSTANCE Keying
Chk == INSTANCE Chunker
Tree == INSTANCE OramTree

VARIABLES input, output

vars == <<input, output>>

None == [fn |-> "none"]

-----------------------------------------------------------------------------
(* Masked offloads. *)
SignedPermutation(n, words) ==
  [i \in 1 .. n |-> [j \in 1 .. n |-> IF j = (i % n) + 1 THEN SampleDiag(n, words)[i] ELSE 0]]

FreshMask(kind, n, words) ==
  IF kind = "hd3" THEN Hd3Fresh(n, words)
  ELSE IF kind = "dct4" THEN Dct4Fresh(n, words)
  ELSE [kind |-> "haar", n |-> n, a |-> SignedPermutation(n, words), bf16 |-> words[1] = 0]

OffloadOf(i) ==
  LET masks == <<FreshMask(i.kind, i.n, i.words), FreshMask(i.kind, i.n, Reverse(i.words))>>
  IN OffloadLinear(i.data, i.shield, masks, i.w, i.isa)

Bf16RoundTrip(i) ==
  LET mask == FreshMask(i.kind, i.n, i.words)  buf == Buffer(i.x)
  IN IF i.kind = "hd3" THEN Hd3UnapplyInPlaceBf16(mask, Hd3ApplyInPlaceBf16(mask, buf, "scalar"), "scalar")
     ELSE Dct4UnapplyInPlaceBf16(mask, Dct4ApplyInPlaceBf16(mask, buf))

(* What a kernel squares to, three times over, once the two inv_norms that *)
(* undo it are counted.                                                    *)
Gain(kind, n, norms) ==
  IF norms = 0 \/ kind = "haar" THEN 1 ELSE IF kind = "hd3" THEN n ^ 3 ELSE n ^ 6

WalshSign(i, j) ==
  IF Cardinality({e \in 0 .. 6 : (i \div 2 ^ e) % 2 = 1 /\ (j \div 2 ^ e) % 2 = 1}) % 2 = 0 THEN 1 ELSE -1
Walsh(n) == [i \in 1 .. n |-> [j \in 1 .. n |-> WalshSign(i - 1, j - 1)]]

-----------------------------------------------------------------------------
(* Attention. *)
Cfg(i) == [causal_mask_neg |-> 60, decode_softmax_on_gpu |-> i.gpu]

AttentionOf(i) ==
  IF i.fn = "uncached"
  THEN PermutedAttention(i.q, i.k, i.v, 1, i.causal, Cfg(i), i.perm_q, i.noise)
  ELSE PermutedAttentionCached(i.q, i.k, i.v, 1, i.offset, i.causal, Cfg(i), i.perm_q, i.perm_kv, i.noise)

(* Attention written from its formula: query t of head h looks at the keys *)
(* up to its own position, each through the noise drawn for its row.       *)
PlainAttention(i) ==
  LET Noised(x, noise, perm) ==
        [h \in DOMAIN x |-> [t \in DOMAIN x[h] |-> [c \in DOMAIN x[h][t] |->
           x[h][t][c] + noise[h][CHOOSE r \in DOMAIN perm : perm[r] = t][c]]]]
      q == Noised(i.q, i.noise.q, i.perm_q)
      k == Noised(i.k, i.noise.k, i.perm_kv)
      Seen(t) == {j \in DOMAIN i.perm_kv : i.causal => j <= i.offset + t}
      Weight(h, t, j) ==
        LET top == CHOOSE m \in {Dot(q[h][t], k[h][l]) : l \in Seen(t)} :
                     \A l \in Seen(t) : Dot(q[h][t], k[h][l]) <= m
            s == Dot(q[h][t], k[h][j]) - top
        IN IF j \notin Seen(t) \/ s < -Depth THEN 0 ELSE 2 ^ (Depth + s)
      Sum(f) == FoldFunction(+, 0, f)
      keys == DOMAIN i.perm_kv
  IN [h \in DOMAIN q |-> [t \in DOMAIN q[h] |->
       [num |-> [c \in DOMAIN i.v[h][1] |-> Sum([j \in keys |-> Weight(h, t, j) * i.v[h][j][c]])],
        den |-> Sum([j \in keys |-> Weight(h, t, j)])]]]

-----------------------------------------------------------------------------
(* Embedding.  The data of a tensor is its layer and name; a checkpoint is *)
(* damaged at one tensor or at none.                                       *)
Matrix2d == E!BertMatrices \cup E!BertTables \cup E!Matrices \cup {"embed_tokens"}

Tensor(k, dtype) == [rank |-> IF k[2] \in Matrix2d THEN 2 ELSE 1, dtype |-> dtype, data |-> k]

Damaged(t, damage) ==
  IF damage.what = "rank" THEN [t EXCEPT !.rank = 3 - @] ELSE [t EXCEPT !.dtype = "I8"]

Shard(keys, prefix, dtype, damage, bytes) ==
  LET kept == {k \in keys : k # damage.at \/ damage.what # "missing"}
      at(name) == <<name[2], name[3]>>
  IN [bytes |-> bytes,
      tensors |-> [name \in {<<prefix, k[1], k[2]>> : k \in kept} \cup {<<"", 0, "position_ids">>} |->
        IF at(name) = damage.at THEN Damaged(Tensor(at(name), dtype), damage)
        ELSE Tensor(at(name), dtype)]]

DecoderShards(i) ==
  LET keys == E!DecoderTensors(i.cfg)
      inner == {k \in keys : k[1] = 1}
  IN <<Shard(inner, i.prefix, i.dtype, i.damage, "a"), Shard(keys \ inner, i.prefix, i.dtype, i.damage, "b")>>

Built(i) ==
  IF i.family = "bert"
  THEN E!BertFromLocal(i.cfg, Shard(E!BertTensors(i.cfg), i.prefix, i.dtype, i.damage, "a"))
  ELSE IF i.build = "local" THEN E!QwenFromLocal(i.cfg, DecoderShards(i))
  ELSE IF i.build = "hub"
  THEN E!QwenFromPretrained(i.cfg, [single |-> {}, index |-> {1, 2}, files |-> DecoderShards(i)])
  ELSE LET weights == E!FromSafetensors(DecoderShards(i), i.cfg)
           first == E!QwenNew(i.cfg, weights.value)
       IN IF ~weights.ok THEN weights
          ELSE E!WithSharedWeights(i.cfg, IF i.build = "shared" THEN weights.value ELSE first.value.weights)

EmbedOf(i) ==
  LET built == Built(i)
      e == IF i.max_len = {} THEN built.value ELSE E!WithMaxLen(built.value, CHOOSE n \in i.max_len : TRUE)
  IN IF built.ok THEN E!EmbedAll(e, i.texts) ELSE built

TensorsOf(i) == IF i.family = "bert" THEN E!BertTensors(i.cfg) ELSE E!DecoderTensors(i.cfg)

(* The vector of a text by the models' formulas over the tensors' data.    *)
Tokens(i, text) ==
  LET asked == IF i.max_len = {} THEN i.cfg.max_seq_len ELSE CHOOSE m \in i.max_len : TRUE
      n == R!Least(Len(text), R!Least(asked, i.cfg.max_position_embeddings))
  IN [k \in 1 .. n |-> IF i.family = "bert" /\ k = n /\ n < Len(text) THEN 102 ELSE text[k]]

BertLayer(i, li, x) ==
  LET T(name) == <<"f32", i.dtype, <<li, name>>>>
      Lin(y, w, b) == <<"plus", <<"times", y, <<"t", T(w)>>>>, T(b)>>
      Norm(y, g, b) == <<"layer_norm", y, T(g), T(b)>>
      S(h, t, w, b) == <<"head", h, Lin(x[t], w, b)>>
      Ctx(t) == [h \in 1 .. i.cfg.num_attention_heads |-> <<"softmax", [j \in DOMAIN x |->
                  <<<<"dot", S(h, t, "wq", "bq"), S(h, j, "wk", "bk")>>, S(h, j, "wv", "bv")>>]>>]
      A(t) == Norm(<<"plus", x[t], Lin(Ctx(t), "wo", "bo")>>, "attn_ln_w", "attn_ln_b")
      F(y) == Lin(<<"gelu", Lin(y, "w_ffn_up", "b_ffn_up")>>, "w_ffn_down", "b_ffn_down")
  IN [t \in DOMAIN x |-> Norm(<<"plus", A(t), F(A(t))>>, "ffn_ln_w", "ffn_ln_b")]

DecoderLayer(i, li, x) ==
  LET cfg == i.cfg
      group == cfg.num_attention_heads \div cfg.num_key_value_heads
      M(name) == <<"t", <<"bf16", i.dtype, <<li, name>>>>>>
      Norm(y, name) == <<"rms_norm", y, <<"f32", i.dtype, <<li, name>>>>>>
      QkNorm(y, name) == IF i.damage = [at |-> <<li, name>>, what |-> "missing"] THEN y ELSE Norm(y, name)
      S(h, t, w) == <<"head", h, <<"times", Norm(x[t], "norm_attn"), M(w)>>>>
      Q(h, t) == <<"rope", t - 1, QkNorm(S(h, t, "wq"), "q_norm")>>
      K(h, t) == <<"rope", t - 1, QkNorm(S(h, t, "wk"), "k_norm")>>
      Serving(h) == CHOOSE g \in 1 .. cfg.num_key_value_heads : h \in (g - 1) * group + 1 .. g * group
      Ctx(t) == [h \in 1 .. cfg.num_attention_heads |-> <<"softmax", [j \in 1 .. t |->
                  <<<<"dot", Q(h, t), K(Serving(h), j)>>, S(Serving(h), j, "wv")>>]>>]
      A(t) == <<"plus", x[t], <<"times", Ctx(t), M("wo")>>>>
      F(y) == LET n == Norm(y, "norm_ffn")
              IN <<"times", <<"swiglu", <<"times", n, M("w_gate")>>, <<"times", n, M("w_up")>>>>, M("w_down")>>
  IN [t \in DOMAIN x |-> <<"plus", A(t), F(A(t))>>]

BertStart(i, ids) ==
  LET T(name) == <<"f32", i.dtype, <<0, name>>>>
  IN [t \in DOMAIN ids |->
       <<"layer_norm", <<"plus", <<"plus", <<"row", T("word_embeddings"), ids[t]>>, <<"row", T("position_embeddings"), t - 1>>>>,
                                 <<"row", T("token_type_embeddings"), 0>>>>,
         T("LayerNorm.weight"), T("LayerNorm.bias")>>]

DecoderStart(i, ids) == [t \in DOMAIN ids |-> <<"row", <<"bf16", i.dtype, <<0, "embed_tokens">>>>, ids[t]>>]

Hidden(i, ids) ==
  LET H[li \in 0 .. i.cfg.num_hidden_layers] ==
        IF li = 0 THEN IF i.family = "bert" THEN BertStart(i, ids) ELSE DecoderStart(i, ids)
        ELSE IF i.family = "bert" THEN BertLayer(i, li, H[li - 1]) ELSE DecoderLayer(i, li, H[li - 1])
  IN H[i.cfg.num_hidden_layers]

Vector(i, ids) ==
  IF i.family = "bert" THEN <<"l2", <<"mean", Hidden(i, ids)>>>>
  ELSE <<"l2", <<"rms_norm", Hidden(i, ids)[Len(ids)], <<"f32", i.dtype, <<0, "norm">>>>>>>>

-----------------------------------------------------------------------------
(* Keys and evidence. *)
(* Every key a session of either policy holds, by policy and child. *)
KeysOf(x) ==
  LET v1 == Keys!Derive(Keys!HkdfPolicyV1, x.user, x.tee, x.tenant)
      v2 == Keys!DeriveV2(x.user, x.tee, x.tenant)
  IN [k \in ({"v1"} \X DOMAIN v1) \cup ({"v2"} \X DOMAIN v2) |-> IF k[1] = "v1" THEN v1[k[2]] ELSE v2[k[2]]]

KeysResult(i) ==
  [same_v1 |-> Keys!DigestV1(i.a.params) = Keys!DigestV1(i.b.params), same_v2 |-> Keys!DigestV2(i.a.params) = Keys!DigestV2(i.b.params),
   a |-> KeysOf(i.a), b |-> KeysOf(i.b)]

(* What the relying party binds the report to, and how the answer reaches  *)
(* it.                                                                     *)
Binding(expected) ==
  [model |-> expected.model, scheme |-> Att!ComposeSchemeIdentity(expected.scheme, expected.digest), nonce |-> expected.nonce]

Ways == {"intact", "cut", "measurement", "identity", "certificate"}

Arriving(issued, arrives) ==
  LET report == issued.report
  IN [report |-> [data |-> IF arrives = "identity" THEN Att!Build(<<<<3>>>>, <<<<2>>>>, {}) ELSE report.data,
                  measurement |-> IF arrives = "measurement" THEN 1 ELSE report.measurement,
                  policy |-> report.policy, parses |-> arrives # "cut", sig |-> report.sig],
      vcek_cert |-> IF arrives = "certificate" THEN Att!Certificate("vcek", "vcek", 2, 5) ELSE issued.vcek_cert]

ConfigOf(file) == IF file = {} THEN Att!DefaultConfig ELSE CHOOSE c \in file : TRUE

AttestResult(i) ==
  LET state == Att!Run(i.env, i.file)
      issued == Att!ExecutorEvidence(state.value, i.env, i.nonce)
      got == Arriving(issued.value, i.arrives)
      unread == Att!Err("nothing to verify")
  IN [up |-> state.ok,
      extract |-> IF state.ok THEN Att!ExtractStatus(state.value) ELSE 0,
      attest |-> IF state.ok THEN Att!AttestRoute(state.value, i.env).status ELSE 0,
      verdict |-> IF state.ok /\ issued.ok THEN Att!Verify(i.verifier, got.report, got.vcek_cert, Binding(i.expected)).ok ELSE FALSE,
      cross_check |-> IF state.ok /\ issued.ok
                      THEN Att!AdapterVerify(i.verifier, Att!BuildEvidence(state.value, i.env).value).ok ELSE FALSE]

-----------------------------------------------------------------------------
Result(i) ==
  CASE i.fn = "fwht" -> FwhtRowsInplace(Buffer(i.x), i.isa).rows
    [] i.fn = "mask" -> OffloadOf(i)
    [] i.fn = "bf16" -> Bf16RoundTrip(i)
    [] i.fn \in {"attention", "uncached"} -> AttentionOf(i)
    [] i.fn = "qkt" -> OffloadQktBatched(i.q, i.kt, i.draws)
    [] i.fn = "rerank" -> R!RerankRoute({i.svc}, i.request, i.legacy, i.ties, i.order)
    [] i.fn = "embed" -> EmbedOf(i)
    [] i.fn = "keys" -> KeysResult(i)
    [] i.fn = "attest" -> AttestResult(i)
    [] i.fn = "layout" -> Tree!PathByParents(i.leaf, i.n)
    [] i.fn = "chunk" -> Chk!Chunk(i.text, i.cfg)

(* The layouts asked for: more leaves than 2^(W-2) take W levels, and       *)
(* total_buckets then shifts by the whole word.                            *)
LayoutOK(i) ==
  /\ i.n \in Nat \ {0} /\ 2 <= W /\ i.n <= 2 ^ (W - 2)
  /\ i.leaf \in 0 .. i.n - 1

(* The texts given: UTF-8, so that a character has four bytes at most and   *)
(* a separator found in a text ends where one of its characters does.      *)
ChunkOK(i) ==
  LET text == i.text  cfg == i.cfg  Bytes == STRING
  IN /\ text \in Seq(Bytes) /\ Len(text) < Fuel
     /\ \A p \in 1 .. Len(text) - 3 : \E q \in p .. p + 3 : text[q] # "~"
     /\ cfg.chunk_size \in Nat /\ cfg.chunk_overlap \in Nat /\ cfg.min_chunk_size \in Nat
     /\ cfg.separators \in Seq(Seq(Bytes) \ {<<>>})
     /\ \A k \in DOMAIN cfg.separators : \A p \in 0 .. Len(text) - Len(cfg.separators[k]) :
          LET end == p + Len(cfg.separators[k])
          IN Chk!Slice(text, p, end) = cfg.separators[k] => Chk!IsCharBoundary(text, end)

(* The embedders asked for: a group of query heads for each key head, as    *)
(* the code asserts, and a checkpoint in a form that safetensors has.      *)
EmbedOK(i) ==
  LET cfg == i.cfg
  IN /\ i.family \in {"bert", "decoder"} /\ i.dtype \in {"F32", "F16", "BF16"}
     /\ i.prefix \in (IF i.family = "bert" THEN {"bert.", "roberta.", ""} ELSE {"model.", ""})
     /\ i.damage.what \in {"missing", "rank", "dtype"} /\ i.damage = [at |-> i.damage.at, what |-> i.damage.what]
     /\ i.build \in (IF i.family = "bert" THEN {"local"} ELSE {"local", "hub", "shared", "consumed"})
     /\ {cfg.num_hidden_layers, cfg.skip_first_layers, cfg.max_seq_len, cfg.max_position_embeddings} \subseteq Nat
     /\ {cfg.num_attention_heads, cfg.num_key_value_heads} \subseteq Nat \ {0}
     /\ cfg.num_attention_heads % cfg.num_key_value_heads = 0
     /\ cfg.skip_last_layer \in BOOLEAN
     /\ \A n \in i.max_len : n \in Nat /\ i.max_len = {n}
     /\ i.texts \in Seq(Seq(Nat))

(* The keys asked for: parameters have the fields of SchemeParamsV2. *)
KeysOK(i) ==
  \A x \in {i.a, i.b} : x.params = [l \in ToSet(Keys!SchemeParamsV2) |-> x.params[l]]

Symbols == {<<b>> : b \in 0 .. 255}

(* The evidence asked for.  Identities and nonces are bytes, digests have   *)
(* one length, and nobody forges: the mock authority certifies no chip,    *)
(* and a relying party that pins an authority pins no report's own key.    *)
AttestOK(i) ==
  LET env == i.env  cfg == ConfigOf(i.file)
  IN /\ {cfg.model, cfg.scheme, i.expected.model, i.expected.scheme} \subseteq Seq(Symbols)
     /\ Att!BytesOf(i.nonce) \in Seq(Symbols) /\ Att!BytesOf(i.expected.nonce) \in Seq(Symbols)
     /\ \A digest \in {env.service_digest, i.expected.digest} : digest = <<digest[1]>>
     /\ {cfg.parses, env.device, env.poisoned, env.ioctl} \subseteq BOOLEAN
     /\ env.certs \in Seq(ToSet(env.certs))
     /\ \A k \in DOMAIN env.certs :
          LET cert == env.certs[k].cert
          IN cert.key = "chip" => cert.sig # Att!Sign(i.verifier.ask.key, Att!CertBody(cert))
     /\ i.verifier.ask.key # "vcek"
     /\ i.arrives \in Ways

ASSUME InputsAssumption ==
  /\ W \in Nat \ {0} /\ Fuel \in Nat
  /\ \A i \in Inputs :
       /\ i.fn = "layout" => LayoutOK(i)
       /\ i.fn = "chunk" => ChunkOK(i)
       /\ i.fn = "embed" => EmbedOK(i)
       /\ i.fn = "keys" => KeysOK(i)
       /\ i.fn = "attest" => AttestOK(i)

Init ==
  /\ input \in Inputs
  /\ output = None

Evaluate ==
  /\ output = None
  /\ output' = [fn |-> input.fn, value |-> Result(input)]
  /\ UNCHANGED input

Next == Evaluate
Spec == Init /\ [][Next]_vars

-----------------------------------------------------------------------------
(* A masked offload returns the plain product: every family's unapply      *)
(* undoes its apply through the engine's multiplication, with shields and  *)
(* pads in the block, and the radix-8/radix-2, vector and scalar kernels   *)
(* all compute the Walsh-Hadamard transform.                               *)
OffloadIsPlainProduct ==
  /\ output.fn = "fwht" => output.value = MatMul(Walsh(Len(input.x)), input.x)
  /\ output.fn = "mask" =>
       \A b \in 1 .. 2 :
         LET out == output.value[b]
         IN /\ out.norms \in {0, 2}
            /\ out.rows = ScaleMat(MatMul(input.data[b], input.w), Gain(input.kind, input.n, out.norms))
  /\ output.fn = "bf16" =>
       output.value.rows = ScaleMat(input.x, Gain(input.kind, input.n, output.value.norms))

(* The permuted, noised and partly offloaded attention equals attention    *)
(* computed in place, and the masked Q.K^T recovers the plain one.         *)
AttentionIsPlain ==
  /\ output.fn \in {"attention", "uncached"} => output.value = PlainAttention(input)
  /\ output.fn = "qkt" =>
       \A h \in 1 .. 2 : output.value[h] = MatMul(input.q[h], input.kt[h])

(* The score the model gives a candidate, one by one and unpadded.         *)
ReferenceScore(i, c) ==
  LET text == IF i.svc.family = "cross-encoder"
              THEN <<1>> \o i.request.query \o <<2, 2>> \o c.text \o <<2>>
              ELSE <<1>> \o (IF Len(i.request.query) = 1 THEN <<4>> ELSE <<5>> \o c.text) \o <<2>> \o c.text \o <<3>>
      n == IF Len(text) < i.svc.max_len THEN Len(text) ELSE i.svc.max_len
      seen == [k \in 1 .. n |-> IF k = n /\ n < Len(text) /\ i.svc.close # {} THEN 2 ELSE text[k]]
      total == SumFunction(seen)
      x == ((total + 1) % 5) - 2
      hidden == <<R!Tanh((2 * x) + 1), R!Tanh(x - 1)>>
  IN IF i.svc.family = "cross-encoder" THEN [num |-> hidden[1] + (2 * hidden[2]) + 2, den |-> 1, nan |-> FALSE]
     ELSE R!YesScore(i.svc, <<(total + n) % 3, seen[n]>>)

(* A request within bounds returns k_max items that open, under its own    *)
(* query key and no other, to the top_k best candidates in order: batched  *)
(* or one by one, whatever the ties and the shuffles, NaN last.            *)
BundleOpensToRanking ==
  output.fn = "rerank" =>
    LET req == input.request
        bundle == output.value.bundle
        key == R!DeriveQueryKey(R!DeriveSession(req.secret), req.query_id)
        opened == R!Open(bundle.value, key)
        id(r) == opened.value[r].chunk_id
        score(c) == ReferenceScore(input, req.candidates[c])
    IN /\ bundle.ok <=> req.top_k \in 1 .. req.k_max /\ req.secret.bytes >= 16
       /\ output.value.status = IF bundle.ok THEN 200 ELSE 500
       /\ bundle.ok =>
            /\ Len(bundle.value.items) = req.k_max
            /\ IsInjective([k \in 1 .. req.k_max |-> bundle.value.items[k].nonce])
            /\ ~R!Open(bundle.value, R!DeriveQueryKey(R!DeriveSession(req.secret), 2)).ok
            /\ opened.ok
            /\ LET ranks == DOMAIN opened.value
               IN /\ Len(opened.value) = R!Least(req.top_k, Len(req.candidates))
                  /\ IsInjective([r \in ranks |-> id(r)])
                  /\ \A r \in ranks : opened.value[r].rank = r - 1
                                    /\ opened.value[r].text = req.candidates[id(r)].text
                  /\ \A r \in ranks : \A c \in DOMAIN req.candidates :
                       R!Above(score(c), score(id(r))) => \E q \in 1 .. r - 1 : id(q) = c

(* An embedder comes up unless its checkpoint lacks a tensor it needs or   *)
(* holds it in a form it cannot read, or its matrices went to the engine   *)
(* with an earlier embedder.  Then each text's vector is the model's,      *)
(* whichever layers are offloaded, however attention is dispatched, and    *)
(* wherever in the batch and the shards its text and its weights lie.      *)
EmbeddingsMatchReference ==
  output.fn = "embed" =>
    LET i == input
        optional == i.family = "decoder" /\ i.damage.at[2] \in {"q_norm", "k_norm"} /\ i.damage.what = "missing"
        offloaded == {li \in 1 .. i.cfg.num_hidden_layers :
                        li > i.cfg.skip_first_layers /\ (li < i.cfg.num_hidden_layers \/ ~i.cfg.skip_last_layer)}
    IN /\ output.value.ok <=>
            /\ i.damage.at \notin TensorsOf(i) \/ optional
            /\ i.family = "bert" => i.dtype # "BF16"
            /\ i.build = "consumed" => offloaded = {}
            /\ i.family = "decoder" => \A b \in DOMAIN i.texts : Tokens(i, i.texts[b]) # <<>>
       /\ output.value.ok =>
            output.value.value = [b \in DOMAIN i.texts |-> Vector(i, Tokens(i, i.texts[b]))]

(* A runner comes up only in a mode it was built for, and evidence is      *)
(* accepted exactly when a mock-mode runner issued it over the model, the  *)
(* configuration, the CAPRISE parameters and the nonce the relying party   *)
(* expects, it arrived intact, the pinned certificates are the authority's *)
(* of its certificate, and the pins and the certificate's window are met.  Two V2 digests are  *)
(* equal only when every parameter is, and no key serves two purposes,     *)
(* policies, sessions or tenants.                                          *)
EvidencePinsWhatRuns ==
  /\ output.fn = "attest" =>
       LET i == input  out == output.value  v == input.verifier  env == input.env
           cfg == ConfigOf(i.file)
           mock == env.snp_mode = {"mock"}
           hardware == ~env.poisoned /\ env.ioctl /\ \E k \in DOMAIN env.certs : env.certs[k].type = "VCEK"
       IN /\ out.up <=> /\ cfg.parses
                        /\ \/ mock /\ "mock" \in env.features
                           \/ env.snp_mode = {"production"} /\ env.device /\ "snp" \in env.features
          /\ out.up => /\ out.extract = (IF cfg.decoder = {} \/ cfg.embedder = {} THEN 503 ELSE 200)
                       /\ out.attest = (IF mock \/ hardware THEN 200 ELSE 500)
          /\ out.verdict <=>
               /\ out.up /\ mock
               /\ i.expected.model = cfg.model /\ i.expected.scheme = cfg.scheme
               /\ i.expected.digest = env.service_digest
               /\ Att!BytesOf(i.expected.nonce) = Att!BytesOf(i.nonce)
               /\ i.arrives = "intact"
               /\ "mock" \in v.features /\ v.use_mock_chain /\ v.now \in 2 .. 5
               /\ v.ask.key = "ask"
               /\ \A c \in {v.ark, v.ask} : /\ c.pem /\ c.alg = "ecdsa-with-SHA384"
                                            /\ c.sig = Att!Sign(v.ark.key, Att!CertBody(c))
               /\ v.measurement \in {{}, {0}} /\ v.policy \in {{}, {0}} /\ v.model_id \in {{}, {Att!Sha256(cfg.model)}}
  /\ output.fn = "keys" =>
       LET a == input.a  b == input.b  keys == output.value
           pinned == {"caprise-scale-bits", "caprise-beta-bits"}
           samePrk == a.user = b.user /\ a.tee = b.tee /\ a.tenant = b.tenant
       IN /\ keys.same_v2 <=> a.params = b.params
          /\ keys.same_v1 <=> \A l \in pinned : a.params[l] = b.params[l]
          /\ \A k, l \in DOMAIN keys.a : keys.a[k] = keys.b[l] <=> k = l /\ samePrk

(* path_buckets walks from the leaf bucket to the root through the child   *)
(* of each bucket, all of them allocated; two paths share a prefix and     *)
(* nothing else, and the treetop is the top levels of every path.          *)
PathsFormTheTree ==
  output.fn = "layout" =>
    LET out == output.value  n == input.n
    IN /\ out = Tree!PathBuckets(input.leaf, n)
       /\ Len(out) = Tree!TreeLevels(n) /\ out[1] = 0
       /\ \A k \in 1 .. Len(out) - 1 : out[k + 1] \in {2 * out[k] + 1, 2 * out[k] + 2}
       /\ ToSet(out) \subseteq 0 .. Tree!TotalBuckets(n) - 1
       /\ \A leaf \in 0 .. n - 1, k, l \in DOMAIN out :
            LET other == Tree!PathByParents(leaf, n)
            IN out[k] = other[l] => k = l /\ \A j \in 1 .. k : out[j] = other[j]
       /\ \A t \in 0 .. Len(out) - 1, k \in DOMAIN out : Tree!BucketInTreetop(out[k], t) <=> k <= t

(* With an overlap of at most half the target the chunker ends, cuts only  *)
(* between characters, and the chunks it keeps overlap as configured; none *)
(* of the text is lost while the minimum is within what a cut leaves.  A   *)
(* request that sets the overlap to the target or more never ends.         *)
ChunksCoverText ==
  output.fn = "chunk" =>
    LET text == input.text  cfg == input.cfg  out == output.value
        target == 4 * cfg.chunk_size  overlap == 4 * cfg.chunk_overlap  min == 4 * cfg.min_chunk_size
        blank == \A k \in DOMAIN text : text[k] = "_"
        chunks == out.chunks
    IN /\ blank => out.done /\ chunks = <<>>
       /\ ~blank /\ overlap >= target => (out.done <=> Len(text) <= target)
       /\ ~blank /\ 0 < target /\ 2 * overlap <= target =>
            /\ out.done
            /\ \A k \in DOMAIN chunks : \A e \in 1 .. 2 : Chk!IsCharBoundary(text, chunks[k][e])
            /\ chunks[Len(chunks)][2] = Len(text)
            /\ \A k \in 1 .. Len(chunks) - 1 :
                 /\ chunks[k][1] < chunks[k + 1][1] /\ chunks[k][2] < chunks[k + 1][2]
                 /\ chunks[k][2] - chunks[k][1] \in min .. target
            /\ 2 * min <= target =>
                 /\ chunks[1][1] = 0
                 /\ \A k \in 1 .. Len(chunks) - 1 : chunks[k + 1][1] <= chunks[k][2]
                                                    /\ chunks[k][2] - chunks[k + 1][1] <= overlap

(* The identities an answer carries as strings let its reader cross-check  *)
(* the report, as the comment in build_evidence has it.                    *)
EvidenceCrossChecks ==
  output.fn = "attest" => (output.value.verdict => output.value.cross_check)
=============================================================================
