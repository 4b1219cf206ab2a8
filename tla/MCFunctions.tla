---------------------------- MODULE MCFunctions ----------------------------
(* Small inputs for the pure algorithms.                                   *)
EXTENDS Algorithms

Perms(n) == {p \in [1 .. n -> 1 .. n] : IsInjective(p)}
Matrix(n, d, seed) == [i \in 1 .. n |-> [k \in 1 .. d |-> (((i * i * seed) + (k * (seed + 2)) + (i * k)) % 5) - 2]]
Words(seed) == [i \in 1 .. 24 |-> (seed * i * i + 3 * i + seed) % 4]

-----------------------------------------------------------------------------
FwhtInputs ==
  {[fn |-> "fwht", x |-> Matrix(n, d, seed), isa |-> isa] :
     n \in {1, 2, 4, 8, 16, 64}, d \in {1, 9, 17}, seed \in {1, 2}, isa \in {"scalar", "avx2", "avx512"}}

MaskInputs ==
  {[fn |-> "mask", kind |-> kind, n |-> n, words |-> Words(seed), w |-> Matrix(3, 2, seed),
    data |-> <<Matrix(rows, 3, seed), Matrix(rows, 3, seed + 1)>>,
    shield |-> [b \in 1 .. 2 |-> Matrix(shields, 3, 4)], isa |-> "scalar"] :
      kind \in {"hd3", "dct4", "haar"}, n \in {1, 2, 4, 8}, seed \in {1, 2, 3}, rows \in 1 .. 3,
      shields \in 0 .. 1}

WellSized == {i \in MaskInputs : Len(i.data[1]) + Len(i.shield[1]) <= i.n}

Bf16Inputs ==
  {[fn |-> "bf16", kind |-> kind, n |-> n, words |-> Words(seed), x |-> Matrix(n, 3, seed)] :
     kind \in {"hd3", "dct4"}, n \in {1, 2, 4}, seed \in {1, 2, 3}}

-----------------------------------------------------------------------------
Heads(n, d, seed) == <<Matrix(n, d, seed), Matrix(n, d, seed + 1)>>

AttentionInputs ==
  {[fn |-> "attention", q |-> Heads(nQ, 2, seed), k |-> Heads(3, 2, seed + 2), v |-> Heads(3, 2, seed + 1),
    offset |-> offset, causal |-> causal, gpu |-> gpu, perm_q |-> permQ, perm_kv |-> permKv,
    noise |-> [q |-> Heads(nQ, 2, noise), k |-> Heads(3, 2, noise + 1)]] :
      nQ \in {1}, permQ \in Perms(1), permKv \in Perms(3), offset \in 0 .. 2,
      causal \in BOOLEAN, gpu \in BOOLEAN, seed \in {1}, noise \in {2}}
  \cup
  {[fn |-> "attention", q |-> Heads(2, 2, 1), k |-> Heads(3, 2, 3), v |-> Heads(3, 2, 2),
    offset |-> offset, causal |-> causal, gpu |-> gpu, perm_q |-> permQ, perm_kv |-> permKv,
    noise |-> [q |-> Heads(2, 2, 4), k |-> Heads(3, 2, 1)]] :
      permQ \in Perms(2), permKv \in Perms(3), offset \in 0 .. 1, causal \in BOOLEAN, gpu \in BOOLEAN}
  \cup
  {[fn |-> "uncached", q |-> Heads(3, 2, 1), k |-> Heads(3, 2, seed), v |-> Heads(3, 2, 2),
    offset |-> 0, causal |-> causal, gpu |-> FALSE, perm_q |-> perm, perm_kv |-> perm,
    noise |-> [q |-> Heads(3, 2, 4), k |-> Heads(3, 2, 1)]] :
      perm \in Perms(3), causal \in BOOLEAN, seed \in {2, 3}}

QktInputs ==
  {[fn |-> "qkt", q |-> Heads(2, 2, 1), kt |-> Heads(2, 2, 3),
    draws |-> [h \in 1 .. 2 |-> [r_q |-> Matrix(2, 2, h), r_kt |-> Matrix(2, 2, h + 2), a |-> a, b |-> b,
                                 lambda_q |-> IF h = 1 THEN p ELSE Reverse(p), lambda_k |-> Reverse(p)]]] :
     a \in {1, -2}, b \in {-1, 3}, p \in Perms(4)}

-----------------------------------------------------------------------------
(* Reranking.                                                              *)
CausalFiles(poison) ==
  [vocab |-> {"yes", "no", "other"}, ids |-> [yes |-> 8, no |-> 9, other |-> 4],
   embedding |-> [t \in 8 .. 9 |-> <<t - 9, 9 - t>>], max_seq_len |-> 6, max_position |-> 9,
   poison |-> poison, depth |-> 4, weights |-> "w"]

CrossFiles(w) ==
  [tensors |-> [k \in {<<"roberta.", "dense.weight">>, <<"", "dense.bias">>,
                                            <<"model.", "out_proj.weight">>, <<"", "out_proj.bias">>} |->
     CASE k[2] = "dense.weight" -> [rank |-> 2, data |-> <<<<w, 0>>, <<1, -1>>>>]
       [] k[2] = "dense.bias" -> [rank |-> 1, data |-> <<1, 0>>]
       [] k[2] = "out_proj.weight" -> [rank |-> 2, data |-> <<<<1, w>>>>]
       [] k[2] = "out_proj.bias" -> [rank |-> 1, data |-> <<2>>]],
   cls |-> 1, sep |-> 2, max_seq_len |-> 9, max_position |-> 7, weights |-> "w"]

Texts == <<<<4>>, <<5, 4>>, <<4, 4, 5, 5>>, <<>>>>
Candidates == {[i \in 1 .. n |-> [chunk_id |-> i, text |-> Texts[1 + ((i + shift) % 4)]]] :
                 n \in 0 .. 4, shift \in 0 .. 1}
Draws == {<<1, 2, 3, 4, 5>>, <<3, 5, 1, 4, 2>>}

RerankInputs ==
  {[fn |-> "rerank", svc |-> svc.value, legacy |-> legacy, ties |-> ties, order |-> order,
    request |-> [query |-> query, candidates |-> cands, top_k |-> topK, k_max |-> kMax,
                 query_id |-> 1, secret |-> [id |-> 1, bytes |-> bytes]]] :
     svc \in {R!CausalNew(CausalFiles(1)), R!CausalNew(CausalFiles(7)), R!CrossEncoderNew(CrossFiles(2))},
     legacy \in BOOLEAN, ties \in Draws, order \in Draws, query \in {<<4>>, <<5, R!DocumentSlot>>},
     cands \in Candidates, topK \in 0 .. 3, kMax \in {2, 5}, bytes \in {8, 32}}

RerankSupported ==
  {i \in RerankInputs : /\ i.svc.family = "cross-encoder" => i.request.query = <<4>>
                        /\ i.request.secret.bytes = 8 => i.request.candidates = <<>>}

-----------------------------------------------------------------------------
(* Embedding. *)
EmbedCfg(layers, heads, kvHeads, first, last, outMin, permMin) ==
  [num_hidden_layers |-> layers, num_attention_heads |-> heads, num_key_value_heads |-> kvHeads,
   skip_first_layers |-> first, skip_last_layer |-> last, hidden_size |-> 4,
   use_out_attn_mult |-> outMin # {}, out_attn_mult_min_seq_len |-> outMin,
   use_perm_attention |-> TRUE, perm_attention_min_seq_len |-> permMin,
   max_seq_len |-> 3, max_position_embeddings |-> 3]

Damages(keys) == {[at |-> k, what |-> what] : k \in keys, what \in {"missing", "rank", "dtype"}}

EmbedTexts == {<<>>, <<<<101, 7, 102>>>>, <<<<101, 7, 8, 9, 102>>, <<101, 102>>>>}

Undamaged == [at |-> <<0, "nothing">>, what |-> "missing"]

BertBase ==
  [fn |-> "embed", family |-> "bert", cfg |-> EmbedCfg(2, 2, 2, 0, FALSE, {2}, {}), prefix |-> "bert.",
   dtype |-> "F32", damage |-> Undamaged, max_len |-> {}, build |-> "local", texts |-> <<<<101, 7>>>>]
DecoderBase ==
  [BertBase EXCEPT !.family = "decoder", !.cfg = EmbedCfg(2, 2, 1, 0, FALSE, {}, {2}), !.prefix = "model.", !.dtype = "BF16"]

EmbedInputs ==
  {[BertBase EXCEPT !.cfg = EmbedCfg(layers, 2, 2, first, last, outMin, {}), !.prefix = prefix, !.max_len = maxLen, !.texts = texts] :
     layers \in 1 .. 2, first \in 0 .. 1, last \in BOOLEAN, outMin \in {{}, {3}}, prefix \in {"bert.", "roberta.", ""},
     maxLen \in {{}, {2}, {9}}, texts \in EmbedTexts}
  \cup {[BertBase EXCEPT !.damage = damage, !.dtype = dtype] :
          damage \in Damages(E!BertTensors(BertBase.cfg) \cup {<<9, "spare">>}), dtype \in {"F16", "BF16"}}
  \cup {[DecoderBase EXCEPT !.cfg = EmbedCfg(layers, 2 * kvHeads, kvHeads, first, last, outMin, permMin), !.build = build,
                            !.texts = texts, !.max_len = maxLen] :
          layers \in 1 .. 2, kvHeads \in 1 .. 2, first \in 0 .. 1, last \in BOOLEAN, outMin \in {{}, {3}}, permMin \in {{}, {2}},
          build \in {"local", "hub", "shared", "consumed"}, texts \in EmbedTexts, maxLen \in {{}, {9}, {0}}}
  \cup {[DecoderBase EXCEPT !.damage = damage, !.prefix = prefix] :
          damage \in Damages(E!DecoderTensors(DecoderBase.cfg)), prefix \in {"model.", ""}}

(* Smaller where both layers and heads are doubled. *)
EmbedSupported ==
  {i \in EmbedInputs : i.family = "decoder" /\ i.cfg.num_hidden_layers = 2 => i.cfg.num_key_value_heads = 1}

-----------------------------------------------------------------------------
(* Keys and parameters.                                                    *)
Param(p, l, v) == [p EXCEPT ![l] = v]
ParamSets == {Keys!DefaultParamsV2} \cup {Param(Keys!DefaultParamsV2, l, Keys!DefaultParamsV2[l] + 1) : l \in DOMAIN Keys!DefaultParamsV2}

KeyInputs ==
  {[fn |-> "keys", a |-> [params |-> p, user |-> u, tee |-> t, tenant |-> tenant],
    b |-> [params |-> q, user |-> 1, tee |-> 2, tenant |-> 3]] :
     p \in ParamSets, q \in ParamSets, u \in 1 .. 2, t \in 1 .. 2, tenant \in 3 .. 4}

(* Attestation. *)
DefaultDigest == <<Keys!DigestV1(Keys!DefaultParamsV2)>>
OtherBetaDigest == <<Keys!DigestV1(Param(Keys!DefaultParamsV2, "caprise-beta-bits", 16))>>

Env ==
  [snp_mode |-> {"mock"}, device |-> TRUE, features |-> {"snp", "mock"}, poisoned |-> FALSE, ioctl |-> TRUE,
   certs |-> <<[type |-> "ARK", cert |-> Att!Ark], [type |-> "VCEK", cert |-> Att!Certificate("chip", "vendor", 0, 9)]>>, service_digest |-> DefaultDigest]
Envs ==
  {[Env EXCEPT !.snp_mode = mode, !.device = device, !.features = features, !.service_digest = digest] :
     mode \in {{}, {"mock"}, {"production"}, {"moc"}}, device \in BOOLEAN, features \in SUBSET {"snp", "mock"},
     digest \in {DefaultDigest, OtherBetaDigest}}
  \cup {[Env EXCEPT !.snp_mode = {"production"}, !.poisoned = poisoned, !.ioctl = ioctl, !.certs = certs] :
     poisoned \in BOOLEAN, ioctl \in BOOLEAN, certs \in {<<>>, SubSeq(Env.certs, 1, 1), Env.certs}}

ConfigFile(model, scheme, decoder, embedder, parses) ==
  [model |-> model, scheme |-> scheme, decoder |-> decoder, embedder |-> embedder, parses |-> parses]
ConfigFiles ==
  {{}, {ConfigFile(<<<<3>>>>, <<<<2>>>>, {}, {}, FALSE)}} \cup
  {{ConfigFile(<<<<model>>>>, <<<<2>>>>, decoder, embedder, TRUE)} : model \in {1, 3}, decoder \in {{}, {"d"}}, embedder \in {{}, {"e"}}}

Verifier ==
  [features |-> {"mock"}, use_mock_chain |-> TRUE, ark |-> Att!Ark, ask |-> Att!Ask, now |-> 3,
   measurement |-> {}, policy |-> {}, model_id |-> {}]
Verifiers ==
  {[Verifier EXCEPT !.features = features, !.use_mock_chain = use, !.now = now] :
     features \in {{}, {"mock"}}, use \in BOOLEAN, now \in 1 .. 6}
  \cup {[Verifier EXCEPT !.measurement = measurement, !.policy = policy, !.model_id = model] :
     measurement \in {{}, {0}, {7}}, policy \in {{}, {0}, {3}}, model \in {{}, {Att!Sha256(<<<<1>>>>)}, {Att!Sha256(<<<<9>>>>)}}}
  \cup {[Verifier EXCEPT !.ark = Att!Certificate("ark2", "ark2", 0, 9)], [Verifier EXCEPT !.ask = Att!Certificate("ask2", "ark", 0, 9)],
        [Verifier EXCEPT !.ask = Att!Certificate("ask", "ark2", 0, 9)], [Verifier EXCEPT !.ask.alg = "other"]}

Nonce == {<<<<5>>>>}
Expected(model, digest, nonce) == [model |-> <<<<model>>>>, scheme |-> <<<<2>>>>, digest |-> digest, nonce |-> nonce]
Expectations ==
  {Expected(model, digest, nonce) : model \in {1, 3}, digest \in {DefaultDigest, OtherBetaDigest}, nonce \in {{}, Nonce, {<<<<6>>>>}}}
  \cup {[Expected(1, DefaultDigest, Nonce) EXCEPT !.scheme = <<>>, !.nonce = {<<>>}], [Expected(1, DefaultDigest, Nonce) EXCEPT !.nonce = {<<>>}]}

AttestInputs ==
  {[fn |-> "attest", env |-> env, file |-> file, verifier |-> Verifier, expected |-> Expected(1, DefaultDigest, Nonce),
    nonce |-> Nonce, arrives |-> "intact"] : env \in Envs, file \in ConfigFiles}
  \cup {[fn |-> "attest", env |-> [Env EXCEPT !.service_digest = digest], file |-> file, verifier |-> Verifier, expected |-> expected,
         nonce |-> nonce, arrives |-> arrives] :
          digest \in {DefaultDigest, OtherBetaDigest}, file \in ConfigFiles, expected \in Expectations, nonce \in {{}, Nonce},
          arrives \in Ways}
  \cup {[fn |-> "attest", env |-> env, file |-> {}, verifier |-> verifier, expected |-> Expected(1, DefaultDigest, {}),
         nonce |-> {}, arrives |-> "intact"] : env \in {Env, [Env EXCEPT !.snp_mode = {"production"}]}, verifier \in Verifiers}

-----------------------------------------------------------------------------
(* Layouts and chunks.                                                     *)
LayoutInputs == {[fn |-> "layout", n |-> n, leaf |-> leaf] : n \in 1 .. 16, leaf \in 0 .. 15}

Characters == {<<"a">>, <<".">>, <<"_">>, <<"e", "~", "~">>}
TextsUpTo(n) == UNION {{FlattenSeq(cs) : cs \in [1 .. m -> Characters]} : m \in 1 .. n}

ChunkInputs ==
  {[fn |-> "chunk", text |-> text,
    cfg |-> Chk!BuildChunkerConfig([chunk_size |-> size, chunk_overlap |-> overlap, min_chunk_size |-> min])
            @@ [separators |-> <<<<".", "_">>, <<".">>, <<"_">>>>]] :
     text \in TextsUpTo(4) \cup {t \o t \o <<"a">> : t \in {u \in TextsUpTo(3) : Len(u) <= 6}},
     size \in 0 .. 2, overlap \in 0 .. 2, min \in 0 .. 2}

-----------------------------------------------------------------------------
MCInputs ==
  FwhtInputs \cup WellSized \cup Bf16Inputs \cup AttentionInputs \cup QktInputs
    \cup RerankSupported \cup EmbedSupported \cup KeyInputs \cup AttestInputs
    \cup {i \in LayoutInputs : i.leaf < i.n} \cup ChunkInputs
=============================================================================
