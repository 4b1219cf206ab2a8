# TLA+ models of gelo-lightrag

This directory is a verification project kept beside the code: TLA+ modules
that model the parts of the system whose correctness depends on order, failure,
concurrency or on an algorithm that is easy to get wrong, TLC configurations
that check them on small instances, and TLAPS proofs of the properties that
matter most for every instance. `PROJECT.json` maps each definition to the
lines it models and lists, line by line, what is hard to test here (`hazards`).

## 1. The system and its parts

The repository serves private retrieval-augmented generation from a
confidential VM. Documents are chunked, embedded, turned into a knowledge graph
and stored so that the storage side learns neither content nor access pattern;
matrix products go to an untrusted accelerator under masks; a tenant's requests
are answered from the stores.

| part | state | operations | talks to |
|---|---|---|---|
| `ring-oram` client | position map, stash, write counters, eviction queue and cursor, treetop mirror | `admit`, `read`, `write`, `set_defer_evictions`, `flush_evictions` | a `BlockBackend` through awaits |
| `ring-oram` layout | none | `tree_levels`, `path_buckets`, treetop test | the client |
| `compass-rest-backend` | a sled tree per tenant and index | `init`, `read_path`, `write_buckets` | HTTP client of the ORAM client |
| `compass-index` | HNSW graph, upper layers in memory, an ORAM client for layer 0 | build, `search` (defer, descent, beam, flush) | ORAM client |
| `xormm-emm` | cuckoo buckets and a stash | `build`, `get`, `get_batch` | byte store |
| `light-kg-store` | three Compass indices, two multimaps, chunk store | `build_from_kg`, `query_context` | all of the above |
| `lightrag-private` service | map tenant -> locked store and secret | `ingest_kg_for`, `query_for`, `forget_tenant` | `light-kg-store` |
| `lightrag-private` extraction | entities and relations under merge | batches of chunks, parser, merges | decoder |
| `gelo-rag` (CAPRISE) service | tenant secrets, encrypted indices | ingest, query, rotate, forget | embedder |
| `gelo-embedder` | weights, KV cache, generation state | embed, prefill, decode, batched generation | GELO executor |
| `gelo-protocol` executor | session mask, operand pools, random stream, provisioned weights | provision, begin/end pass, offloads | untrusted accelerator |
| `gelo-protocol` masks, attention | none | mask cascades, permuted attention, masked Q.K^T | executor |
| `gelo-reranker` | none per request | score, rank, seal | decoder or cross-encoder |
| `gelo-tee-sev-snp` | runtime mode, issuer | evidence, verification | hardware or mock issuer |
| `core` keying | none | two derivation policies, scheme identities | both services |
| `gelo-chunker` | none | `chunk` | the routes |
| `gelo-snp-runner` | the services and engines behind mutexes | boot, HTTP routes | all services |

Hard behaviours: backend calls that fail, are cut short or are cancelled at an
await, while the ORAM client changes its own state on both sides of each one;
evictions inside other calls or queued for later; concurrent requests on a map
of locks, and panics that poison them; a restart that loses all secrets;
counters that form nonces; session and buffer state that outlives the pass it
was for; caches whose layers and sequences must advance together; kernels that
treat block boundaries and tails differently.

What makes each part correct is in the tables of sections 2 and 3: the ORAM
client is a map, the tenant services keep tenants and secrets apart, the
multimap and graph store answer like their plain references, a graph search is
exact when its beam is wide and catches up with its evictions, cached generation equals the
uncached model, a masked offload equals the plain product, evidence pins what runs.

## 2. Modules

State machines:

| module | models | variables correspond to |
|---|---|---|
| `BlockStore` | abstract specification: what the ORAM client promises | -- |
| `RingOram` | the ORAM client and its backend, split at the backend awaits | the fields of `RingOramClient`, the backend's tree, the call under way |
| `Compass` over `PlainHnsw`, `Ranking` | index build and search over layer 0 behind the ORAM | `CompassIndex`, the locals of `layered_search_inner`, the client's deferral |
| `LightRagTenants` | the LightRAG tenant service as tasks split at their lock awaits | `tenants`, the mutexes, each task's place |
| `LightRagPipeline` over `KgExtraction`, `LightKgStore`, `XorMmEmm` | the runner's extract-and-build, ingest and query routes for one tenant | requests, the two engine mutexes, the tenant's store |
| `CapriseTenants` | the CAPRISE service behind its routes | `TwoPartyState`: secrets and indices; the last answer |
| `GeloExecutor` | the masked executor and its attested wrapper as the embedders drive them | `InProcessTrustedExecutor`'s session, pools and random stream, one clone per text |
| `Generation` over `DecoderForward` | prefill, decode, batched generation and embedding passes, a layer at a time | the KV cache and the locals of `generate`, `generate_batched` |

Pure algorithms, each evaluated and compared with a reference in `Algorithms`:

| module | models |
|---|---|
| `OramTree` | tree layout in a `W`-bit word |
| `MaskCascade` | Walsh-Hadamard and DCT-IV cascades, the dense mask, a whole masked offload |
| `PermutedAttention` | permuted attention, cached and not; masked Q.K^T |
| `Reranker` | both rerankers, ranking, sealing, the route |
| `Embedders` | both sentence embedders, from checkpoint to vectors |
| `Attestation`, `Keying` | boot modes, evidence and its verification; key derivation |
| `Chunker` | the chunker |

`Tenancy` names the tenants, users and secrets of the two tenant services. `MC*` modules
give the constants values, `MCFunctions` the inputs of `Algorithms`; `*Proofs` hold theorems, `LoopProofs` those
about loops, sorted lists and concatenations that several share. Operators commented `Mutant:` are wrong versions
of the definition after them. No specification uses them; substituting one must
break the property `PROJECT.json` pairs it with.

### RingOram

Each field of `RingOramClient` is a variable (`accesses_since_evict` is
`accesses`, `evict_cursor` is `cursor`, `treetop_cache` is `cache`). `tree` is
the backend. `pc`, `call` and `reply` are the call under way; `latest` and
`sealed` are history. A bucket is the plaintext it decrypts to, a function from
blocks to payloads, and carries the counter it was sealed under; `sealed` records
the counters each bucket was encrypted under and whether one came twice.

Calls do not interleave, since the client is borrowed mutably; but a call is
several steps because an eviction may run inside it. `read` is `Access` (fetch,
drain, remap, overwrite with dummies, count), then `EvictPath` if the threshold
was reached and deferral is off, then `ReturnRead`. `write` ends in `ReturnWrite`
or `WritePanics`. `Placements` is the set of outcomes of the greedy re-pack over
every order in which the hash map can list the stash. Random paths are `\E leaf`.

Faults end the call: `FetchFails`, `ClearFails`, `EvictFetchFails`,
`EvictStoreFails`. A failed batch may have been stored up to any bucket, all of it
included. Dropping the caller's future at the await is the same step. `Spec` has
a reliable backend, `FaultySpec` a failing one. Left out: corrupted frames (the
backend is semi-honest and AES-GCM authenticates) and the asserts on sizes.

### Compass

`InsertNext` inserts one node with the code's descent, beam, neighbour selection,
links back and pruning (`PlainHnsw`). Embeddings are angles on a circle and the
zero vector; cosine distance orders them as the shorter arc. A search is
`StartSearch`, `ReadEntry` when the entry has to be read, then `Expand`, `Fetch`
and `NextCandidate` until `LoopDone` or a read that fails (`ReadFails`); then the flush, one
`Evict` per queued eviction, up to `Return` or to the first that fails (`EvictFails`). A failed
body reports its own error, whatever the flush did. The future may be dropped at
any await, of a read or of an eviction (`Drop`). The ORAM is abstracted to its deferral flag,
its queue and its count of accesses (`Read`), with the accesses and evictions done so far
as history: `RingOram` shows that it is a map. What an eviction that fails loses of
the tree's content is `RingOram`'s matter too (`faults`). Directional hints choose any `efn` neighbours.

### LightRagTenants

`tenants` maps a tenant to a handle, an index into `heap`, as the code's `HashMap`
maps it to an `Arc<Mutex<Tenant>>`; replacing a store allocates a new handle, and
tasks may still hold the old one. `mapLock` is the holder of the map's lock across
an await: only `or_create_tee_secret` does that. A task is at one of nine places,
the awaits of its request. Building and searching the in-memory store never
suspends, so `Disconnect` (a dropped future) happens only at lock awaits. After a
`Restart` the map is empty and no lock is held.

### LightRagPipeline

A request of `extract_and_build` is chunked (`ExtractAndBuild`), locks both engines
(`LockEngines`; a poisoned mutex fails it), generates, parses and merges batch by
batch (`GenerateBatch`), may fail or panic in between, hands its KG back
(`FinishExtraction`) and rebuilds the store (`IngestExtracted`), which can panic or
be refused first. `Ingest` takes a KG from a client, with duplicate names,
unnormalised relations and stray chunk tags. `Query` joins over the store with
any result of the two searches. A client that disconnects drops its handler but
not the blocking task. `XorMmEmm` builds each multimap with truncation to the volume
bound, kicks and stash, under seeded hashes that collide.

### CapriseTenants

A route holds the service's one mutex for the whole request, so a request is a
step: `Ingest`, the ingest that stops at some chunk (`IngestStops`) or in the
embedder (`EmbedFails`), `Query`, the query that fails to be embedded or encrypted
(`QueryEmbedFails`), `Rotate`, `ForgetTenant`, and `Restart`, which
forgets secrets and indices. A key is the triple it is derived from; `sent` and
`acked` are history. The ranking may return any records. A failed query answers 500 whatever
failed; the model's answer also says which (`cause`), so that `QueryFailsOnlyOnMixedKeys`
can be about decryption alone.

### GeloExecutor

`Provision` and `SetVerifyProbes` set up the base executor; `Embed` clones it for
each text of a batch and moves each clone to its own stream; `Begin` opens a
session of some shape, the `Offload*` actions send operands, `End` closes it,
`Collect` ends the batch. A matrix is which rows it holds (data, shield, padding
or what an earlier offload left in the pooled buffer), a mask the place in the
random stream it was drawn from, an answer of the engine `right`, `wrong` or `nan`.
Behind the attested wrapper only the methods it forwards reach the executor; the
others fall to the trait's defaults (`Forwards`).

### Generation

A job is one call: mode, configuration, prompts, limit. A row is the term that
computes it, so equality of rows is "computed alike": token, layer, position it
was rotated for, keys and values it attended to. `RunLayer` runs the current layer
over all sequences and appends to the cache; `LayerFails` and `LogitsFail` are
engine errors; `Sample` takes any tokens. Sampling itself is left open.

`Reference` computes the rows of a whole sequence at once. It has one parameter besides model and
tokens, the length of a flat prefix: positions computed without windows, partial rope or
shared keys. `generate` has none. The blocks of a batch and of an embedder know
only flat models, so their prompt is the prefix; the decode steps of a batch follow the layers'
classes again, over the prompt's flat keys. For a uniform model flat and whole are the
same. `RowsMatchReference` says this of every call.

### The pure algorithms

`Algorithms` has one initial state per input and one step that evaluates it
(`Evaluate`); the invariants compare the result with an independent definition.
`InputsAssumption` says which inputs are meant: what a caller can pass.
Matrix entries are integers and keep what is at stake (structure, indices,
order); rounding is modelled only where the code rounds to bf16. `exp` is a power
of two, a softmax row is a fraction, a derived key is the term of its arguments, a
certificate is a record signed by a key. Identities and nonces are sequences of
symbols: a byte is one symbol and so is a digest, the term of what was hashed. Thus
concatenations that a verifier recomputes are equal or not as the bytes are.

## 3. Runs

| run | shows | distinct states |
|---|---|---|
| `functions` | `OffloadIsPlainProduct`, `AttentionIsPlain`, `BundleOpensToRanking`, `EmbeddingsMatchReference`, `EvidencePinsWhatRuns`, `PathsFormTheTree`, `ChunksCoverText` | 53,900 |
| `ring_oram` | `TypeOK`, `OneHome`, `CacheMirrorsBackend`, `ReadsCurrent`, `ImplementsBlockStore`, `CallsEnd` over a reliable backend | 160,000 |
| `faults` | `BucketCapacity`, `NonceFresh`, `OnlyEvictionLosesBlocks` over a failing backend | 143,000 |
| `tenants` | `SearchExclusive`, `LocksNest`, `TenantIsolation`, `SecretKeptUnlessRaced`, `RequestsEnd` | 113,000 |
| `gelo_executor` | `OperandIsFresh`, `PassFitsSession`, `MasksDistinct`, `VerifiedNotWrong` | 384,000 |
| `generation` | `RowsMatchReference`, `LayersInLockstep`, `PanicsOnlyOnEmptyPrompt`, `Returns` | 9,200 |
| `kg_pipeline` | `KgOfWholeDocument`, `AnswerJoinsTheGraph`, `QueryFailsOnlyOnStrayChunk`, `TasksEnd` | 25,000 |
| `caprise` | `RecordsUnderLiveSecret`, `AckedIsHeld`, `QueryFailsOnlyOnMixedKeys`, `HitsAreSends` | 94,000 |
| `compass` | `NoDeadEnd`, `WideBeamIsExact`, `EvictionsCatchUp` | 1,134,000 |

Each property is stated in words above its definition.

Bounds, and why they are enough.

* `ring_oram`, `faults`: 2 blocks and 2 leaves with one slot per bucket make every
  case of the re-pack happen (full bucket, shallower bucket, no room, block
  already deeper); eviction every 2nd access runs inside and outside reads; the
  root is mirrored, the leaves are not. `MaxPending` caps the eviction queue,
  `CounterMod` is the counters' width; where nonces are not the question they run
  modulo 1. Without `LongLived` no call starts that could wrap a counter. The
  theorems remove these bounds.
* `tenants`: 3 tasks on 2 tenants are a race of two ingests that a query or forget
  observes; `MaxIngests` 2 caps stores and secrets.
* `gelo_executor`: 2 workers, shapes of 1, 9, 2x2 and 2 rows with shield 8 (15
  for the small shapes), so that padding to a power of two is both needed and
  not; `MaxOffloads` 2 lets the second find what the first left in a pool.
* `generation`: 3 layers, once uniform with the first layer not offloaded and
  once local-global-local with window 2, partial rope, keys as values and the
  last layer not offloaded; prompts of 0 to 3 tokens, up to 9 new ones against
  `MaxPositions` 8; a vocabulary of 3 with a stop token that is also the pad.
* `kg_pipeline`: 2 requests, 6 documents (blank chunks, long prompts, dangling
  relations, duplicates, no entities, a key too long for a value), batches of 2,
  2 buckets per table, volume bound 1, 2 kicks, hashes that all collide and
  hashes that chain.
* `caprise`: 2 tenants, 2 users, 2 chunks, requests of up to 2, 3 secrets: a
  tenant, its second life and another tenant.
* `compass`: 5 nodes in 3 layouts (all apart, four of five equal, and one with
  a tie and zero vectors), neighbour lists of 2 and 1 so that pruning happens at every insertion,
  a search that is wide enough to be exact and one that is not, 2 searches.
* `functions`: transforms of 1 to 64 rows (radix 8, radix 2 and both) and 1, 9 and 17
  columns (vector loops and tails), tiles of 2 columns; up to 3 heads, tokens and
  candidates; every leaf count that a 6-bit word holds the tree of (16); texts of up to
  13 bytes with one, two and four byte characters, targets, overlaps and minima on both sides of
  each other; boot modes, features, devices and certificate tables in all
  combinations, identities that are and are not UTF-8, nonces absent, empty and not.

Symmetry is used in `faults` and `caprise`, which check no liveness.
`CHECK_DEADLOCK FALSE` stands where the system stops: `functions` (the input is
evaluated), `generation` (the call has returned) and `compass` (`MaxSearches`
searches were served).

Fairness. `RingOram`: once called, the client's future is polled to its end (weak
fairness of `Step`); nothing is assumed about callers. `LightRagTenants`: tokio's
mutex queues its waiters first in, first out, so a task whose lock is free again
and again gets it (strong fairness of `Proceed(r)`). `LightRagPipeline`: the
blocking pool runs every task it was given and a decoder call returns (weak
fairness of `TaskStep(j)`; std's mutex is enough because a request locks the
engines once and then ends). `Generation`: a called function continues (weak
fairness of `Next`).

### Where the code and its comments disagree

Three runs expect a violation:

| run | what happens |
|---|---|
| `write_panic` | `write` panics when the eviction inside its `read` moves the block to the tree (`ring-oram/src/client.rs:317`) |
| `empty_kg_panics` | a document with chunks but no entities passes the route's guard and panics in `PlainHnsw::build` (`lightrag_routes.rs:439`) |
| `lossy_identity` | evidence carries the composed scheme identity as a lossy string; cross-checking by the strings refuses genuine evidence (`evidence.rs:30`) |

Seen while modelling and visible in the models, without a run of their own:

* `ring-oram`: above 2^30 leaves `1u32 << levels` overflows where `path.rs:9` allows
  2^31. A failed eviction write loses its blocks (`client.rs:474`), a failed
  write-back can bring an old payload back (`:294`), and counters wrap in a
  release build (`:284`), and a failed write leaves the mirror ahead of the backend
  (`:182`): why `ImplementsBlockStore` and `CacheMirrorsBackend` are claimed for a reliable
  backend, `OnlyEvictionLosesBlocks` has its exception and `NonceFresh` and its theorem are
  for a client that is retired before a counter wraps, which nothing in the code
  enforces. `pending_evictions` is not "always 0 when
  `defer_evictions` is off" (`:382`) after a flush that failed or deferral that was
  switched off with evictions queued.
* `compass-index`: pruning and equal embeddings can leave a node that layer 0 does
  not reach; `WideBeamIsExact` is about the nodes it does reach. A search may read
  a block twice where `search.rs:6` says once. A search whose flush fails returns with
  evictions queued, where `search.rs:70` has them drained before the next search starts;
  `EvictionsCatchUp` says what does hold. A later threshold does not drain the queue
  either, as `ring-oram/src/client.rs:365` has it: only a flush does.
* Tenant services: two overlapping first ingests each draw a secret
  (`lightrag-private/src/two_party_service.rs:173`); a re-ingest that waits for one
  tenant's query blocks all tenants (`:162`); after a restart an ingest mints a
  fresh secret where `gelo-snp-runner/src/lib.rs:625` promises to fail loudly.
* `gelo-protocol`: the attested wrapper does not forward `begin_prefill_pass`,
  `begin_decode_pass`, `begin_forward_session`, `provision_ple_table`, `ple_gather`
  and the permuted attention calls although `executor.rs:4` says every method; its
  sessions then share one mask over all sequences. A NaN passes the integrity
  probe, so `VerifiedNotWrong` is about wrong numbers. `dct4` with one row is the
  identity. The causal mask of -30 hides the future only while scores spread less.
* `gelo-embedder`: an empty prompt in a batch panics (the exception in
  `PanicsOnlyOnEmptyPrompt`); batched prefill and the embedders' blocks ignore windows, partial
  rope and shared keys (`decoder/forward.rs:1185`), so for a model with local and global layers
  a batch computes other rows than `generate`, where `generation.rs:227` has them alike
  but for rounding: the flat prefix of `RowsMatchReference`; an embedder made from
  weights that were already provisioned away fails; `with_max_len(0)` panics in
  `last_l2`; embedding a single text clones an executor whose stream never moves.
* `gelo-snp-runner`: comments say V2 parameters are pinned in the attestation, but
  `run` composes the V1 digest only; `AppState` says the models share one engine.
* `gelo-chunker`: an overlap of the target or more never terminates;
  `min_chunk_size` drops inner chunks too and never the last one.

## 4. Proofs

All proofs assume only the named `ASSUME`s of the component modules: positive
parameters, sentinels outside the sets, finite sets of blocks, nodes and workers, shapes
made by the three constructors, and paths that list buckets of the tree without
repetition (`PathAssumption`, which `LayoutMeetsPathAssumption` proves of the
code's paths). `JobsAssumption` says what a generation
call and a model configuration are (`Config`), `HnswAssumption` and `CompassAssumption`
that the corpus is not empty, that the list bounds are positive (`paper_defaults`) and that a
heap's order of equal distances is an order. For the LightRAG routes, names are finitely many
and numbered in string order (`NameAssumption`), a hash maps names to buckets and an iteration
of a map meets every name (`HashAssumption`), and documents and supplied KGs are what the code
can parse them into (`DocAssumption`, `KgAssumption`); any name, tag or duplicate is allowed.

`InputsAssumption` says of the inputs of `Algorithms`, beyond their types, only this. A layout
has at most 2^(W-2) leaves: with more the shift in `total_buckets` takes the whole word.
A text is UTF-8: of four bytes in a row one begins a character, and a separator found in a
text ends where a character does; `Fuel`, the rounds followed, exceeds the text's length.
Key parameters have the fields of `SchemeParamsV2`. Identities and nonces are bytes, digests
are of one length, and nobody forges: no certificate of a real chip is signed by the mock
authority, and the certificate a relying party pins is not the report's own key.
An embedder's heads divide into groups, one for each key head, as the code asserts;
its checkpoint holds every tensor in one of the supported types but for one damaged tensor at most
(missing, of another rank or in another type), and its layers, heads, lengths and tokens are numbers.

| theorem | of |
|---|---|
| `RingOramProofs`: `TypeCorrect`, `OneHomeHolds`, `CacheMirrorsBackendHolds` | the ORAM client over any tree |
| -- `ReadsCurrentHolds`, `ImplementsBlockStoreHolds` | the client is a map |
| -- `BucketCapacityHolds`, `NonceFreshHolds`, `OnlyEvictionLosesBlocksHolds` | the client over a failing backend |
| `TenantProofs`: `SearchExclusiveHolds`, `LocksNestHolds`, `TenantIsolationHolds`, `SecretKeptUnlessRacedHolds` | any number of tasks, tenants and ingests |
| `TenantProofs`: `CapriseTypeCorrect`, `LiveSecrets`, `AcknowledgedChunks`, `QueryFailures`, `HitsBounded` | any tenants, users, chunks and requests |
| `GeloExecutorProofs`: `SessionsFit`, `MasksDiffer`, `WrongProductsRefused`, `OperandsFresh` | any workers, shapes, mask kinds and shields |
| `GenerationProofs`: `RowsCorrect`, `Lockstep`, `OnlyEmptyPromptPanics` | any model, uniform or not, prompts, limits and batches |
| `CompassProofs`: `NoNodeIsLost`, `WideSearchIsExact`, `NoEvictionIsLost`, `ListsStaySound` | any corpus, levels, list bounds, beams and faults |
| `LightRagPipelineProofs`: `RoutesStaySound`, `WholeDocument`, `AnswersJoin`, `OnlyStrayChunksFail` | any hashes, bucket counts, kick and volume bounds, documents, batch sizes and requests |
| `FunctionProofs`: `PathsFormTheTreeHolds`, `LayoutMeetsPathAssumption` | any word width, and every tree the word holds |
| -- `ChunksCoverTextHolds` | any text, separators, target, overlap and minimum |
| -- `EmbeddingsMatchReferenceHolds` | any depth, heads, skipped layers, dispatch thresholds, length limits, checkpoint and batch |
| -- `EvidencePinsWhatRunsHolds` | any identities, nonces, boot modes, certificate tables, verifiers, secrets and parameters |

* `RingOramProofs`. `OneHome` is inductive only with types, the
  mirror (a drain reads it) and what the control state implies (an operation under
  way has an admitted block). The core lemmas say what a drain collects and that
  clearing or re-packing a path keeps every block in exactly one place.
  For the refinement the
  invariant adds that the one copy of a block holds its latest payload. A step
  maps to one `BlockStore` step (a call takes effect when it returns) or a stutter.
  Under faults `NonceFresh`, for clients that are not `LongLived`, follows from the
  invariant that every counter used so far is at most the current one.
* `TenantProofs`, LightRAG. `IInv` adds what each task holds at each place (`TaskOK`).
* `TenantProofs`, CAPRISE. The
  properties are not inductive: `IInv` adds that the key of every record derives from the
  tenant's secret and from an entry of `sent` (`Traced`), and that what was acknowledged is among
  what was sent and in the index (`Held`). `HitsBounded` counts, so it needs more: an injection
  from the records of the index to the sends they are the work of (`Matched`), which every
  ingest extends by the chunks it got to.
* `GeloExecutorProofs`. `IInv` adds what each clone is
  at each place of its pass (`WorkerOK`), that clones in a batch are on different streams
  (`StreamsApart`) and that every mask used was drawn by a worker of the batch from
  that worker's own stream (`MasksTraced`). `OperandsFresh` needs only that the
  pooled buffers are sequences (`Sized`), never what they hold: stacking overwrites or zeroes every row.
* `GenerationProofs`. The induction is over layers and tokens at once. `RowsOf` names the rows
  the reference computes for a whole sequence; a prefix of the sequence gives a prefix of the
  rows, because attention looks back only. `IInv` says that in pass `k` the layers
  done have appended exactly the reference keys of the tokens so far, the others
  those of the pass before (`InPass`, `PassRows`), and that between passes all layers hold `SeqLens[b] + k`
  (`Between`, `RowsBetween`); the capacity check then cannot fire, since `k` stays
  below the limit the cache was sized for. Rows of stopped sequences are left open, as
  in the code they are computed and dropped. A prompt that the batched blocks run is that of a
  flat model (`PromptIsFlat`, `PrefixRow`); whatever is decoded over a cache, its prefix flat or not,
  follows the model (`CachedIsLate`, `BlockRow`).
* `CompassProofs`. The loops of `PlainHnsw` are functions of the round, so a loop's invariant is a set of
  rounds that holds the first and the successor of each (`EveryRound` of `LoopProofs`), and a loop that
  keeps a set of states has a run (`LoopExists`). `RankedLists`: sorting by a strict order gives each element one
  place. For `NoDeadEnd`: a beam over a graph with sound lists
  finds a node other than the new one; `algorithm4_select` of a list with such a node is not empty,
  its first candidate is never pruned; so linking and pruning exchange neighbours but never take the last
  (`LinkLayerKeeps`). For `WideBeamIsExact`: a beam that never fills keeps all it has seen, all it has seen is
  reachable, and the neighbours of each node it took are seen or still to do (`WideInv`); when
  no candidate is left the seen nodes are closed, hence all that is reachable. `EvictionsCatchUp` needs
  the count behind it (`Accounted`: accesses since the last due eviction plus `EvictRate` for each
  that fell due are all accesses, and what is done and queued is what fell due) and, while a
  search stands, that the client defers in its body and no longer in its flush (`CaughtUp`). `ListsStaySound` is not a property of a run: it
  justifies that `Compass` reads a neighbour list without the cut to the block's capacity and `PlainHnsw` without the
  filter on inserted nodes, which the code has.

* `LightRagPipelineProofs`. From the multimap up. A kick displaces an entry and never loses it, and leaves
  it in a bucket of one of its hashes (`KickKeeps`), so what is built is found or
  stashed: `Get` after `Build` is the list cut to `VolumeBound` in whatever order the map
  was iterated (`BuildHolds`, `GetFinds`), and a query over a built store is the join over
  its KG, or meets a tag of no chunk (`QueryAnswers`). Merging a batch extends `merged` by
  what its chunks' drafts describe. Chunk ids only grow, so a key's row stays what its
  drafts so far add up to (`MergeAll`), and since batches are consecutive stretches of the
  document this is `Progress` through it (`MergeChunksKeep`); sorting then gives the KG
  of the document at once, whose every tag is one of its chunks (`Assembled`).
  `PipelineInv` says of each request what it has merged, of the store that it is the
  build of one KG under the tenant's hashes, and of the answer that it is a join
  over that KG.

* `FunctionProofs`, layout. Level `l` of the tree holds the `2^l` numbers from `2^l - 1`
  (`Places`), and the parent of a number in a level is its half in the level above (`Numbering`), so
  walking up from a leaf is dividing its index by powers of two (`ParentsAreThePath`); two
  paths that share a bucket then share its quotient and every one above it.
* `FunctionProofs`, chunks. A cut takes more than three quarters of the target, or all of it
  but part of a character (`CutIs`, `CutPasses`), so with an overlap of at most half the target each round
  moves on and begins its chunk no later than the last one ended (`Sound`, kept by every round,
  `RoundKeepsSound`); a text has fewer rounds than bytes (`ChunkingEnds`). With an overlap
  of the target or more each round returns to where it began (`ChunkingGoesOn`).
* `FunctionProofs`, evidence. A concatenation of parts of one length fixes its parts (`EqualLengths`),
  digests are of one length and fix what was hashed, so the report data fix the model, the configuration, the
  service's digest and the nonce (`ComposeFixes`, `BindingFixes`). Then what a booted
  runner holds (`RunIs`), what each issuer issues (`IssueIs`), what can arrive (`ArrivingIs`) and
  what a verifier accepts (`VerifyIs`) are compared case by case; evidence of real hardware is
  refused, as no pinned chain of the mock certifies the chip (`HardwareVerdict`). Keys: the labels
  of a digest or an info string fix its fields (`Labels`, `DigestsFix`) and the infos
  differ from each other (`InfosDiffer`).

* `FunctionProofs`, embedding. Each tensor is found under the detected prefix in whichever shard has it
  and is read whole or refused (`BertReads`, `DecoderReads`); so an embedder that comes up has every weight where the
  forward pass looks for it, on the engine for offloaded layers and on the host for the others, whether its matrices were
  taken or shared (`Provides`, `BuiltIs`), and one built over weights whose matrices were taken comes up only
  if no layer is offloaded (`ConsumedWeights`). The dispatches of attention agree (`BertDispatches`,
  `DecoderDispatches`, with `ServingIs` for the grouped heads), hence each block is the model's layer
  (`BertLayerIs`, `DecoderLayerIs`). Rows after every layer exist and are unique by induction over the
  layers, whatever a row is (`RecursExists`, `RecursUnique`), and the forward pass computes
  them (`FollowsIs`). A text's tokens are cut as the formula has it (`EncodeIs`).

What refers to loops is proved by induction on their rounds, within
first-order logic (a least counterexample); nothing is taken from recursive operators.

Only model-checked:

* liveness (`CallsEnd`, `RequestsEnd`, `TasksEnd`, `Returns`): under fairness, out of this prover's reach;
* `OffloadIsPlainProduct`, `AttentionIsPlain`, `BundleOpensToRanking`: they rest on what the
  sums, folds and sorts of the community modules compute, which only an induction over data gives.

Every other safety invariant and action property of a passing run is stated by a theorem above.

## 5. Not modelled

* `rest backend`: the server's namespaces and init handshake. The client awaits each
  answer before its next request, so late writes need a dropped connection; partial
  batches and lost answers are in `RingOram`.
* Compass codec: packing a node into a block (a byte format), the hint table beyond
  what the search sees of it.
* Per-layer embeddings of Gemma 3n, the snapshot recorder and profiling hooks.
* LightRAG prompts and the perturbation of query embeddings: wording and floating
  point, no control state.
* The single-tenant service of the first prototype, which the runner does not mount.
* GPU backend and SIMD bindings: device code; its answers are the untrusted engine.
* Distribution of random draws, rounding error, CAPRISE and SAP geometry, statistics of the
  attention noise: numeric, not checkable here.
* The unbounded stash (`client.rs:453`): its bound is probabilistic, and a
  nondeterministic model may pick all paths equal.
* Certificate byte formats, the vendor's certificate store, TLS, routing.
* Benchmarks, evaluation, Python and vendored code: not part of the served system.
