------------------------------ MODULE Generation ------------------------------
(***************************************************************************)
(* Autoregressive generation (decoder/generation.rs) and the cacheless     *)
(* passes of the embedders, a layer at a time.  A job is one call: its     *)
(* mode, configuration, prompts and limit.  The engine may fail in every   *)
(* offloaded layer and in the language-model head; which token is sampled  *)
(* is left open.                                                           *)
(***************************************************************************)
EXTENDS DecoderForward, FiniteSets

CONSTANTS
  Jobs,         \* the calls: records with mode, cfg, prompts and maxTokens
  Vocab,        \* tokens
  Eos,          \* those that stop a sequence
  Pad,          \* the token fed to a stopped sequence
  MaxPositions  \* cfg.max_position_embeddings

ASSUME VocabAssumption == Eos \subseteq Vocab /\ Pad \in Vocab

(* A model has layers and, when it declares attention classes, one for     *)
(* each; an empty batch is refused before anything (generation.rs:250).    *)
Config ==
  [numLayers : Nat \ {0}, classes : Seq(Nat), partialRope : BOOLEAN, kvShared : BOOLEAN,
   skipFirst : Nat, skipLast : BOOLEAN]

ASSUME JobsAssumption ==
  \A j \in Jobs :
    /\ j.mode \in {"single", "batched", "embed", "embedBatched"}
    /\ j.cfg \in Config
    /\ j.cfg.classes = <<>> \/ Len(j.cfg.classes) = j.cfg.numLayers
    /\ j.prompts \in Seq(Seq(Vocab)) /\ j.prompts # <<>>
    /\ j.mode \in {"single", "embed"} => Len(j.prompts) = 1
    /\ j.maxTokens \in Nat

VARIABLES
  job,
  at,       \* start, layer, sample, done, error or panic
  li,       \* the layer that runs next
  hidden,   \* hidden[b]: the rows of sequence b in the current pass
  offsets,  \* offsets[b]: the position of the first of them
  cache,
  session,  \* the executor's ForwardSessionShape, NoShape outside a pass
  last,     \* last[b]: the row sequence b is sampled from
  tokens,   \* tokens[b]: what was sampled
  stopped   \* stopped[b]: a stop token was

vars == <<job, at, li, hidden, offsets, cache, session, last, tokens, stopped>>

NoShape == [batch |-> 0, n |-> 0]
Shape(batch, n) == [batch |-> batch, n |-> n]

Seqs == DOMAIN job.prompts
Batched == job.mode \in {"batched", "embedBatched"}
Embedding == job.mode \in {"embed", "embedBatched"}
SeqLens == [b \in Seqs |-> Len(job.prompts[b])]
MaxPrompt == CHOOSE n \in {SeqLens[b] : b \in Seqs} : \A b \in Seqs : SeqLens[b] <= n

(* Mutant: no room for the pass that follows the last sampled token. *)
TightMaxCacheLen == MaxPrompt + job.maxTokens - 1
MaxCacheLen == MaxPrompt + job.maxTokens

Init ==
  /\ job \in Jobs
  /\ at = "start"
  /\ li = 1
  /\ hidden = [b \in Seqs |-> <<>>]
  /\ offsets = [b \in Seqs |-> 0]
  /\ cache = NewCache(job.cfg, Cardinality(Seqs))
  /\ session = NoShape
  /\ last = [b \in Seqs |-> PadRow]
  /\ tokens = [b \in Seqs |-> <<>>]
  /\ stopped = [b \in Seqs |-> FALSE]

-----------------------------------------------------------------------------
(* Prompts that are all empty (one that is, without a batch) and requests  *)
(* past the model's positions are errors; no tokens asked for is an answer.*)
Refused ==
  \/ MaxPrompt = 0
  \/ ~Embedding /\ MaxCacheLen > MaxPositions

Return(how) ==
  /\ at' = how
  /\ UNCHANGED <<job, li, hidden, offsets, cache, last, tokens, stopped>>

Refuse ==
  /\ at = "start"
  /\ Refused /\ (~Embedding /\ job.maxTokens = 0 => ~Batched /\ MaxPrompt = 0)
  /\ Return("error") /\ UNCHANGED session

NothingToDo ==
  /\ at = "start"
  /\ ~Embedding /\ job.maxTokens = 0
  /\ Batched \/ MaxPrompt > 0
  /\ Return("done") /\ UNCHANGED session

(* with_forward_session: a pass over these rows, from the first layer. *)
BeginPass(rows, n) ==
  /\ hidden' = rows
  /\ session' = Shape(Cardinality(Seqs), n)
  /\ offsets' = [b \in Seqs |-> Len(cache[1][b])]
  /\ li' = 1
  /\ at' = IF \E b \in Seqs : Len(cache[1][b]) + n > MaxCacheLen /\ ~Embedding
           THEN "panic" ELSE "layer"

BeginPrefill ==
  /\ at = "start" /\ ~Refused /\ (Embedding \/ job.maxTokens > 0)
  /\ BeginPass([b \in Seqs |-> EmbedPadded(job.prompts[b], MaxPrompt)], MaxPrompt)
  /\ UNCHANGED <<job, cache, last, tokens, stopped>>

Prefilling == \A b \in Seqs : tokens[b] = <<>>

(* The block the pass runs: run and run_batched keep no cache.             *)
RunBlock ==
  IF Embedding \/ (Batched /\ Prefilling)
  THEN DecoderBlockBatched(job.cfg, li, hidden, cache[li], SeqLens, MaxCacheLen)
  ELSE IF Batched THEN DecoderBlockCachedBatched(job.cfg, li, hidden, cache[li], offsets, MaxCacheLen)
  ELSE DecoderBlockCached(job.cfg, li, hidden, cache[li], offsets, MaxCacheLen)

(* Mutant: every layer appends to the first. *)
KeepInFirstLayer(layer) ==
  cache' = IF Embedding THEN cache ELSE [cache EXCEPT ![1] = layer]

KeepLayer(layer) ==
  cache' = IF Embedding THEN cache ELSE [cache EXCEPT ![li] = layer]

(* Mutant: the loop over the layers stops one short. *)
RunLayerButLast ==
  /\ at = "layer" /\ li < NumLayers(job.cfg)
  /\ LET out == RunBlock
     IN  hidden' = out.hidden /\ KeepLayer(out.layer)
  /\ li' = li + 1
  /\ UNCHANGED <<job, at, offsets, session, last, tokens, stopped>>

(* The executor panics on rows other than those of its session. *)
SessionFits ==
  /\ session.batch = Cardinality(Seqs)
  /\ \A b \in Seqs : Len(hidden[b]) = session.n

RunLayer ==
  /\ at = "layer" /\ li <= NumLayers(job.cfg)
  /\ LET out == RunBlock
     IN  hidden' = out.hidden /\ KeepLayer(out.layer)
  /\ li' = li + 1
  /\ at' = IF OffloadLayer(job.cfg, li) /\ ~SessionFits THEN "panic" ELSE at
  /\ UNCHANGED <<job, offsets, session, last, tokens, stopped>>

(* An offload of the layer fails, before or after the cache has grown; the *)
(* session is closed on the way out and the call fails.                    *)
LayerFails ==
  /\ at = "layer" /\ li <= NumLayers(job.cfg)
  /\ OffloadLayer(job.cfg, li)
  /\ UNCHANGED cache \/ KeepLayer(RunBlock.layer)
  /\ session' = NoShape
  /\ at' = "error"
  /\ UNCHANGED <<job, li, hidden, offsets, last, tokens, stopped>>

(* The row to sample from: the last of the prompt, or the only one of a    *)
(* decode step.  An empty prompt of a batch has none, and the index         *)
(* seq_lens[b] - 1 is out of bounds.                                        *)
EndPrefill ==
  /\ at = "layer" /\ li > NumLayers(job.cfg) /\ Prefilling
  /\ session' = NoShape
  /\ \/ /\ Embedding
        /\ at' = "done" /\ UNCHANGED last
     \/ /\ ~Embedding /\ \E b \in Seqs : SeqLens[b] = 0
        /\ at' = "panic" /\ UNCHANGED last
     \/ /\ ~Embedding /\ \A b \in Seqs : SeqLens[b] > 0
        /\ last' = [b \in Seqs |-> hidden[b][SeqLens[b]]]
        /\ at' = "sample"
  /\ UNCHANGED <<job, li, hidden, offsets, cache, tokens, stopped>>

Steps == CHOOSE n \in {Len(tokens[b]) : b \in Seqs} : \A b \in Seqs : Len(tokens[b]) <= n

EndDecode ==
  /\ at = "layer" /\ li > NumLayers(job.cfg) /\ ~Prefilling
  /\ session' = NoShape
  /\ last' = [b \in Seqs |-> IF stopped[b] THEN last[b] ELSE hidden[b][1]]
  /\ at' = IF Steps >= job.maxTokens THEN "done" ELSE "sample"
  /\ UNCHANGED <<job, li, hidden, offsets, cache, tokens, stopped>>

-----------------------------------------------------------------------------
(* A stopped sequence keeps its tokens. *)
Sampled(b, t) == IF stopped[b] THEN tokens[b] ELSE Append(tokens[b], t)

(* What the next pass is fed: the token sampled, or the pad token. *)
NextToken(b, t) == IF stopped[b] THEN Pad ELSE t

Stops(t) == t \in Eos

(* One round over the sequences: the head, the sampler and the stop check; *)
(* the call returns when all have stopped, else a decode step begins.      *)
Sample(next) ==
  /\ at = "sample"
  /\ tokens' = [b \in Seqs |-> Sampled(b, next[b])]
  /\ stopped' = [b \in Seqs |-> stopped[b] \/ Stops(next[b])]
  /\ IF \A b \in Seqs : stopped'[b]
     THEN at' = "done" /\ UNCHANGED <<hidden, session, offsets, li>>
     ELSE BeginPass([b \in Seqs |-> <<EmbeddingLookup(NextToken(b, next[b]))>>], 1)
  /\ UNCHANGED <<job, cache, last>>

(* The head fails: compute_logits leaves its session open. *)
LogitsFail ==
  /\ at = "sample"
  /\ session' = Shape(1, 1)
  /\ Return("error")

Next ==
  \/ Refuse \/ NothingToDo \/ BeginPrefill
  \/ RunLayer \/ LayerFails \/ EndPrefill \/ EndDecode
  \/ \E next \in [Seqs -> Vocab] : Sample(next)
  \/ LogitsFail

Spec == Init /\ [][Next]_vars

(* The call is a thread that runs until it returns. *)
FairSpec == Spec /\ WF_vars(Next)

-----------------------------------------------------------------------------
(* Properties. *)

(* How many rows of a sequence are those of a flat model: the prompt's,     *)
(* where the batched blocks run it and the model is not one they know.      *)
FlatPrefix(b) ==
  IF job.mode = "single" \/ Uniform(job.cfg) THEN 0 ELSE SeqLens[b]

(* The rows a call hands out (to the sampler, or to the pooling of an       *)
(* embedder) are those of the whole sequence computed at once: prefill plus *)
(* decode steps over the cache, padding to the longest prompt, stopped      *)
(* neighbours fed with pad tokens and windows across the boundary between   *)
(* prompt and answer change nothing.  A model with windows, partial rope or *)
(* shared keys is computed in full by generate alone.  The blocks of a      *)
(* batch and of an embedder compute its prompt as a flat model, and decode  *)
(* steps of a batch the answer as the model itself, over the flat keys.     *)
RowsMatchReference ==
  /\ at = "sample" =>
       \A b \in Seqs : ~stopped[b] =>
         LET context == job.prompts[b] \o tokens[b]
         IN  last[b] = Reference(job.cfg, FlatPrefix(b), context)[Len(context)]
  /\ at = "done" /\ Embedding =>
       \A b \in Seqs : \A i \in 1 .. SeqLens[b] :
         hidden[b][i] = Reference(job.cfg, FlatPrefix(b), job.prompts[b])[i]

(* The layers of the cache grow together: the layers a pass has run hold    *)
(* its tokens, the others do not yet, and between passes all are equal.     *)
LayersInLockstep ==
  ~Embedding /\ at \in {"layer", "sample"} =>
    \A l \in DOMAIN cache : \A b \in Seqs :
      Len(cache[l][b]) =
        IF at = "sample" THEN Len(cache[1][b])
        ELSE offsets[b] + (IF l >= li THEN 0 ELSE IF Prefilling THEN SeqLens[b] ELSE 1)

(* The capacity reserved before the first token is enough for every decode  *)
(* step, those of sequences that have stopped and the one after the last    *)
(* sampled token included, and every offload has the rows its session was   *)
(* opened for: the only panic is the empty prompt of a batch.               *)
PanicsOnlyOnEmptyPrompt ==
  at = "panic" => job.mode = "batched" /\ \E b \in Seqs : SeqLens[b] = 0

(* Every call returns. *)
Returns == <>(at \in {"done", "error", "panic"})
===============================================================================
