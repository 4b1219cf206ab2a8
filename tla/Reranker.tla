------------------------------- MODULE Reranker -------------------------------
(***************************************************************************)
(* gelo-reranker: candidates are scored by a causal yes/no discriminator   *)
(* or by a cross-encoder with a classifier head, ranked with shuffled      *)
(* ties, padded with decoys to k_max and sealed under a per-query key.     *)
(*                                                                         *)
(* A text is a sequence of tokens, embedding rows and head weights hold    *)
(* integers, exp is a power of two, and a score is a fraction or NaN.  A   *)
(* key is the term it was derived from; `draw' is what an RNG shuffle      *)
(* drew, a permutation longer than anything it shuffles.                   *)
(***************************************************************************)
EXTENDS Integers, SequencesExt, TLC

Accept(v) == [ok |-> TRUE, value |-> v]
Reject(e) == [ok |-> FALSE, value |-> e]
Inner(x, y) == SumFunction([i \in DOMAIN x |-> x[i] * y[i]])
Least(a, b) == IF a < b THEN a ELSE b
Sha(parts) == <<"sha256", parts>>

-----------------------------------------------------------------------------
(* Tokenizing.  A truncated input ends in the close token, when there is   *)
(* one.                                                                    *)
QuerySlot == -1      \* {query}
DocumentSlot == -2   \* {document}
Template == <<1, QuerySlot, 2, DocumentSlot, 3>>

Replaced(text, slot, by) ==
  FlattenSeq([i \in DOMAIN text |-> IF text[i] = slot THEN by ELSE <<text[i]>>])

Prompt(query, document) == Replaced(Replaced(Template, QuerySlot, query), DocumentSlot, document)

Encode(svc, text) ==
  LET cut == SubSeq(text, 1, svc.max_len)
  IN IF Len(text) <= svc.max_len THEN text
     ELSE IF cut = <<>> \/ svc.close = {} THEN cut
     ELSE [cut EXCEPT ![Len(cut)] = CHOOSE t \in svc.close : TRUE]

EncodePair(svc, query, document) ==
  Encode(svc, <<svc.cls>> \o query \o <<svc.sep, svc.sep>> \o document \o <<svc.sep>>)

(* Hidden rows as far as the heads see them: a causal row depends on the   *)
(* tokens before it, an encoder row on all of them; rows past a sequence's *)
(* own length in a batch belong to the padding.                            *)
Sum(ids) == SumFunction(ids)
CausalRow(ids, i) == <<(Sum(SubSeq(ids, 1, i)) + i) % 3, ids[i]>>
ForwardRun(ids) == [i \in DOMAIN ids |-> CausalRow(ids, i)]
BertForward(ids) == [i \in DOMAIN ids |-> <<((Sum(ids) + i) % 5) - 2, ids[i]>>]

ForwardRunBatched(prompts) ==
  LET nMax == FoldSeq(LAMBDA p, n : IF Len(p) > n THEN Len(p) ELSE n, 0, prompts)
      Padded(p) == [i \in 1 .. nMax |-> IF i <= Len(p) THEN p[i] ELSE 0]
  IN [hidden |-> [b \in DOMAIN prompts |-> ForwardRun(Padded(prompts[b]))],
      seq_lens |-> [b \in DOMAIN prompts |-> Len(prompts[b])]]

-----------------------------------------------------------------------------
(* The causal discriminator.                                               *)
YesScore(svc, row) ==
  LET yes == Inner(row, svc.embedding[svc.yes])
      no == Inner(row, svc.embedding[svc.no])
      mx == IF yes > no THEN yes ELSE no
      Exp(x) == IF mx - x > svc.depth THEN 0 ELSE 2 ^ (svc.depth - (mx - x))
  IN [num |-> Exp(yes), den |-> Exp(yes) + Exp(no), nan |-> row[1] = svc.poison]

CausalNew(files) ==
  IF files.vocab \cap {"yes", "no"} # {"yes", "no"} THEN Reject("no discriminator tokens")
  ELSE Accept([family |-> "causal-discriminator", embedding |-> files.embedding,
               yes |-> files.ids["yes"], no |-> files.ids["no"],
               max_len |-> Least(files.max_seq_len, files.max_position), close |-> {},
               poison |-> files.poison, depth |-> files.depth,
               identity |-> Sha(<<files.weights, files.ids["yes"], files.ids["no"], Template>>)])

WithMaxLen(svc, files, n) == [svc EXCEPT !.max_len = Least(n, files.max_position)]

Scored(cand, score) == [chunk_id |-> cand.chunk_id, text |-> cand.text, score |-> score]

ScorePair(svc, query, document) ==
  LET hidden == ForwardRun(Encode(svc, Prompt(query, document)))
  IN YesScore(svc, hidden[Len(hidden)])

ScoreCandidatesParallel(svc, request) ==
  [i \in DOMAIN request.candidates |->
     Scored(request.candidates[i], ScorePair(svc, request.query, request.candidates[i].text))]

(* Mutant: the row gathered is the last of the padded batch. *)
ScoreLastPaddedRow(svc, request) ==
  LET run == ForwardRunBatched([i \in DOMAIN request.candidates |->
                Encode(svc, Prompt(request.query, request.candidates[i].text))])
  IN [b \in DOMAIN request.candidates |->
        Scored(request.candidates[b], YesScore(svc, run.hidden[b][Len(run.hidden[b])]))]

ScoreCandidatesBatched(svc, request) ==
  LET run == ForwardRunBatched([i \in DOMAIN request.candidates |->
                Encode(svc, Prompt(request.query, request.candidates[i].text))])
  IN [b \in DOMAIN request.candidates |->
        Scored(request.candidates[b], YesScore(svc, run.hidden[b][run.seq_lens[b]]))]

CausalScoreCandidates(svc, request, legacy) ==
  IF legacy \/ Len(request.candidates) <= 1 THEN ScoreCandidatesParallel(svc, request)
  ELSE ScoreCandidatesBatched(svc, request)

-----------------------------------------------------------------------------
(* The cross-encoder.  Checkpoints store a linear layer as (out, in) under *)
(* an optional model prefix; tanh is replaced by another odd monotone      *)
(* function.                                                               *)
LookupFirst(st, name) ==
  LET found == SelectSeq(<<"", "model.", "roberta.", "bert.">>, LAMBDA root : <<root, name>> \in DOMAIN st)
  IN IF found = <<>> THEN Reject("missing") ELSE Accept(st[<<found[1], name>>])

TensorTo2d(t) == [j \in DOMAIN t.data[1] |-> [i \in DOMAIN t.data |-> t.data[i][j]]]   \* and t()

HeadNames == <<"dense.weight", "dense.bias", "out_proj.weight", "out_proj.bias">>

HeadFromSafetensors(st) ==
  LET t == [i \in 1 .. 4 |-> LookupFirst(st, HeadNames[i])]
  IN IF \E i \in 1 .. 4 : ~t[i].ok THEN Reject("missing tensor")
     ELSE IF \E i \in 1 .. 4 : t[i].value.rank # (IF i \in {1, 3} THEN 2 ELSE 1) THEN Reject("shape")
     ELSE IF Len(t[3].value.data) # 1 THEN Reject("not single-label")
     ELSE Accept([dense_w |-> TensorTo2d(t[1].value), dense_b |-> t[2].value.data,
                  out_w |-> TensorTo2d(t[3].value), out_b |-> t[4].value.data,
                  identity |-> Sha([i \in 1 .. 4 |-> t[i].value.data])])

Tanh(x) == IF x > 3 THEN 3 ELSE IF x < -3 THEN -3 ELSE x

HeadScore(head, cls) ==
  LET h == [j \in DOMAIN head.dense_b |->
              Tanh(Inner(cls, [i \in DOMAIN cls |-> head.dense_w[i][j]]) + head.dense_b[j])]
  IN Inner(h, [i \in DOMAIN h |-> head.out_w[i][1]]) + head.out_b[1]

CrossEncoderNew(files) ==
  LET head == HeadFromSafetensors(files.tensors)
  IN IF ~head.ok THEN head
     ELSE Accept([family |-> "cross-encoder", head |-> head.value, cls |-> files.cls, sep |-> files.sep,
                  max_len |-> Least(files.max_seq_len, files.max_position), close |-> {files.sep},
                  identity |-> Sha(<<files.weights, head.value.identity>>)])

CrossScorePair(svc, query, document) ==
  [num |-> HeadScore(svc.head, BertForward(EncodePair(svc, query, document))[1]), den |-> 1, nan |-> FALSE]

CrossScoreCandidates(svc, request) ==
  [i \in DOMAIN request.candidates |->
     Scored(request.candidates[i], CrossScorePair(svc, request.query, request.candidates[i].text))]

ScoreCandidates(svc, request, legacy) ==
  IF svc.family = "cross-encoder" THEN CrossScoreCandidates(svc, request)
  ELSE CausalScoreCandidates(svc, request, legacy)

-----------------------------------------------------------------------------
(* Ranking.                                                                *)
Above(s, t) == ~s.nan /\ (t.nan \/ s.num * t.den > t.num * s.den)
Tied(s, t) == ~s.nan /\ ~t.nan /\ s.num * t.den = t.num * s.den

Shuffled(items, draw) ==
  LET order == SelectSeq(draw, LAMBDA i : i <= Len(items))
  IN [i \in DOMAIN items |-> items[order[i]]]

(* Runs of equal scores are shuffled where they stand; NaN equals nothing, *)
(* so the NaNs keep the order they came in.                                *)
TieShuffled(sorted, draw) ==
  LET Run(i) == {j \in DOMAIN sorted : j = i \/ Tied(sorted[i].score, sorted[j].score)}
      First(i) == CHOOSE j \in Run(i) : \A l \in Run(i) : j <= l
  IN [i \in DOMAIN sorted |->
        Shuffled(SubSeq(sorted, First(i), First(i) + Cardinality(Run(i)) - 1), draw)[i - First(i) + 1]]

TopKWithTieShuffle(scored, topK, draw) ==
  LET Before(i, j) == Above(scored[i].score, scored[j].score)
                        \/ (~Above(scored[j].score, scored[i].score) /\ i < j)
      order == SetToSortSeq(DOMAIN scored, Before)
      shuffled == TieShuffled([i \in DOMAIN order |-> scored[order[i]]], draw)
  IN [i \in 1 .. Least(topK, Len(scored)) |->
        [rank |-> i - 1, chunk_id |-> shuffled[i].chunk_id, text |-> shuffled[i].text]]

-----------------------------------------------------------------------------
(* Sealing and opening.  AES-GCM opens under the key it was sealed with.   *)
Scheme == "aes-256-gcm.v1"
DeriveSession(secret) == <<"gelo-rerank.session.v1", secret>>
DeriveQueryKey(session, queryId) == <<"gelo-rerank.query.v1", session, queryId>>

EncryptPayload(key, nonce, payload) == [nonce |-> <<key, nonce>>, key |-> key, plain |-> payload]
Decoy == [kind |-> "decoy"]

Seal(key, ranked, kMax, draw) ==
  LET reals == [i \in DOMAIN ranked |-> EncryptPayload(key, i, [kind |-> "real", item |-> ranked[i]])]
      decoys == [i \in 1 .. kMax - Len(ranked) |-> EncryptPayload(key, Len(ranked) + i, Decoy)]
  IN IF Len(ranked) > kMax THEN Reject("ranked exceeds k_max")
     ELSE Accept([scheme |-> Scheme, items |-> Shuffled(reals \o decoys, draw)])

Open(bundle, key) ==
  LET reals == SelectSeq(bundle.items, LAMBDA it : it.plain.kind = "real")
  IN IF bundle.scheme # Scheme THEN Reject("scheme")
     ELSE IF \E i \in DOMAIN bundle.items : bundle.items[i].key # key THEN Reject("decrypt")
     ELSE Accept(SortSeq([i \in DOMAIN reals |-> reals[i].plain.item], LAMBDA a, b : a.rank < b.rank))

Rerank(svc, session, request, legacy, ties, order) ==
  LET key == DeriveQueryKey(session, request.query_id)
      ranked == TopKWithTieShuffle(ScoreCandidates(svc, request, legacy), request.top_k, ties)
  IN IF request.top_k = 0 THEN Reject("top_k must be > 0")
     ELSE IF request.top_k > request.k_max THEN Reject("top_k exceeds k_max")
     ELSE Seal(key, ranked, request.k_max, order)

(* The route: no reranker, a short secret, then the service.               *)
RerankRoute(handle, request, legacy, ties, order) ==
  IF handle = {} THEN [status |-> 501, bundle |-> Reject("not configured")]
  ELSE LET svc == CHOOSE s \in handle : TRUE
           bundle == Rerank(svc, DeriveSession(request.secret), request, legacy, ties, order)
       IN IF request.secret.bytes < 16 THEN [status |-> 500, bundle |-> Reject("session_secret")]
          ELSE [status |-> IF bundle.ok THEN 200 ELSE 500, bundle |-> bundle]
=============================================================================
