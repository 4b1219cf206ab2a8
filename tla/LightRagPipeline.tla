-------------------------- MODULE LightRagPipeline --------------------------
(* The runner's LightRAG routes for one tenant: extract_and_build requests     *)
(* share one decoder and one embedder behind std mutexes and end in a rebuild  *)
(* of the tenant's store; ingest rebuilds it from a KG the client supplies;    *)
(* query joins over it.  The service's own locking is in LightRagTenants.      *)
EXTENDS KgExtraction, LightKgStore

CONSTANTS Jobs,            \* extract_and_build requests
          Docs,            \* documents as the sequences of chunks the chunker made
          SuppliedKgs,     \* KGs a client sends to /lightrag/ingest
          HashPairs,       \* the values hash may have
          Orders,          \* orders a HashMap of names may iterate in
          BatchSize,       \* ExtractionConfig::extraction_batch_size
          TopK, TopChunks  \* top_k of the two searches, top_k_chunks_per_entity

ASSUME PipelineAssumption == BatchSize \in Nat /\ TopK \in Nat /\ TopChunks \in Nat

(* A hash maps each name to a bucket, and an iteration meets every name.       *)
IsHash(h) == \A w \in {1, 2}, n \in DOMAIN NameBytes : h[w][n] \in 0 .. NumBuckets - 1

ASSUME HashAssumption ==
    /\ \A pair \in HashPairs : IsHash(pair.adjacency) /\ IsHash(pair.sources)
    /\ \A order \in Orders : order \in Seq(DOMAIN NameBytes) /\ ToSet(order) = DOMAIN NameBytes

(* What a client sends to /lightrag/ingest. *)
IsKg(kg) ==
    /\ kg.chunks \in Seq(ToSet(kg.chunks))
    /\ \A i \in DOMAIN kg.chunks : kg.chunks[i] = <<kg.chunks[i][1], kg.chunks[i][2]>>
    /\ kg.entities \in Seq(ToSet(kg.entities))
    /\ \A i \in DOMAIN kg.entities :
          /\ kg.entities[i].name \in DOMAIN NameBytes
          /\ kg.entities[i].sources \in Seq(ToSet(kg.entities[i].sources))
    /\ kg.relations \in Seq(ToSet(kg.relations))
    /\ \A i \in DOMAIN kg.relations : {kg.relations[i].src, kg.relations[i].tgt} \subseteq DOMAIN NameBytes

ASSUME KgAssumption == \A kg \in SuppliedKgs : IsKg(kg)

(* The chunks of a document and what the decoder makes of each: the names its  *)
(* records are read to have are names.                                         *)
IsDoc(doc) ==
    /\ doc \in Seq(ToSet(doc))
    /\ \A i \in DOMAIN doc :
          /\ doc[i].output \in Seq(ToSet(doc[i].output))
          /\ \A r \in ToSet(doc[i].output) :
                /\ ParsedEntity(r) => r.fields[1] \in DOMAIN NameBytes
                /\ ParsedRelation(r) => {r.fields[1], r.fields[2]} \subseteq DOMAIN NameBytes

ASSUME DocAssumption == \A doc \in Docs : IsDoc(doc)

VARIABLES jobs,      \* the state of each request
          engines,   \* the two mutexes, always taken together
          store,     \* the tenant's LightKgStore
          hash,      \* the seeded hashes of the tenant's two multimaps
          answer     \* what the last query returned from this store

vars == <<jobs, engines, store, hash, answer>>

NoKg == [chunks |-> <<>>, entities |-> <<>>, relations |-> <<>>]
NoStore == [kg |-> NoKg]
NoAnswer == [ok |-> TRUE, entities |-> <<>>, relations |-> <<>>, chunks |-> <<>>]
NoJob == [pc |-> "idle", client |-> TRUE, doc |-> <<>>, next |-> 1,
          merged |-> [entities |-> NoneYet, relations |-> NoneYet], kg |-> NoKg]

(* The chunks that are not blank, with the ids chunk-000000... of the raw list. *)
Live(doc) == FlattenSeq([i \in DOMAIN doc |-> IF doc[i].blank THEN <<>> ELSE << <<i, doc[i]>> >>])

(* Mutant: the chunks kept are numbered anew. *)
RowsRenumbered(doc) == [i \in DOMAIN Live(doc) |-> <<i, Live(doc)[i][2].text>>]

Rows(doc) == [i \in DOMAIN Live(doc) |-> <<Live(doc)[i][1], Live(doc)[i][2].text>>]

Batch(job) ==
    LET size == IF BatchSize < 1 THEN 1 ELSE BatchSize
        last == IF job.next + size - 1 < Len(Live(job.doc)) THEN job.next + size - 1 ELSE Len(Live(job.doc))
    IN SubSeq(Live(job.doc), job.next, last)

(* The merge loop: the outputs of a batch are parsed and merged chunk by chunk, *)
(* in input order.                                                             *)
MergeChunk(merged, chunk) ==
    [entities |-> Merge(merged.entities, EntityDrafts(chunk[1], chunk[2].output)),
     relations |-> Merge(merged.relations, RelationDrafts(chunk[1], chunk[2].output))]

MergeChunks(merged, chunks) ==
    LET after[i \in 0 .. Len(chunks)] ==
            IF i = 0 THEN merged ELSE MergeChunk(after[i - 1], chunks[i])
    IN after[Len(chunks)]

MergeBatch(job) ==
    [job EXCEPT !.next = @ + Len(Batch(job)), !.merged = MergeChunks(@, Batch(job))]

-----------------------------------------------------------------------------
Init ==
    /\ jobs = [j \in Jobs |-> NoJob]
    /\ engines = "free"
    /\ store = NoStore
    /\ hash \in HashPairs
    /\ answer = NoAnswer

(* extract_and_build: the document is chunked and a blocking task spawned. *)
ExtractAndBuild(j, doc) ==
    /\ jobs[j].pc = "idle"
    /\ jobs' = [jobs EXCEPT ![j].pc = "queued", ![j].doc = doc]
    /\ UNCHANGED <<engines, store, hash, answer>>

(* What the request becomes when its task ends: nothing hears of it when the   *)
(* handler has been dropped.                                                   *)
Over(pc) == [NoJob EXCEPT !.pc = pc]
Ended(j, outcome) == [jobs EXCEPT ![j] = Over(IF jobs[j].client THEN outcome ELSE "dropped")]

LockEngines(j) ==
    /\ jobs[j].pc = "queued"
    /\ CASE engines = "free" -> engines' = j /\ jobs' = [jobs EXCEPT ![j].pc = "extracting"]
         [] engines = "poisoned" -> engines' = engines /\ jobs' = Ended(j, "failed")
         [] OTHER -> FALSE
    /\ UNCHANGED <<store, hash, answer>>

(* One decoder call for the next batch, then parse and merge in chunk order. *)
GenerateBatch(j) ==
    /\ jobs[j].pc = "extracting"
    /\ Batch(jobs[j]) # <<>>
    /\ \A i \in DOMAIN Batch(jobs[j]) : ~Batch(jobs[j])[i][2].long
    /\ UNCHANGED <<engines, store, hash, answer>>
    /\ jobs' = [jobs EXCEPT ![j] = MergeBatch(@)]

(* Mutant: the guards outlive the error. *)
ExtractionFailsHolding(j) ==
    /\ jobs[j].pc = "extracting"
    /\ jobs' = Ended(j, "failed")
    /\ UNCHANGED <<engines, store, hash, answer>>

(* A prompt over the context window, or any error of the engines, ends the     *)
(* whole document; the guards are released on the way out.                     *)
ExtractionFails(j) ==
    /\ jobs[j].pc = "extracting"
    /\ engines' = "free"
    /\ jobs' = Ended(j, "failed")
    /\ UNCHANGED <<store, hash, answer>>

(* A panic under the guards poisons both mutexes. *)
EnginePanics(j) ==
    /\ jobs[j].pc = "extracting"
    /\ engines' = "poisoned"
    /\ jobs' = Ended(j, "failed")
    /\ UNCHANGED <<store, hash, answer>>

(* Dangling relations dropped, everything embedded, the KG handed back. *)
FinishExtraction(j) ==
    /\ jobs[j].pc = "extracting"
    /\ Batch(jobs[j]) = <<>>
    /\ engines' = "free"
    /\ UNCHANGED <<store, hash, answer>>
    /\ jobs' = IF jobs[j].client
               THEN [jobs EXCEPT ![j].pc = "extracted", ![j].kg =
                       Assemble(Rows(jobs[j].doc), jobs[j].merged.entities, jobs[j].merged.relations)]
               ELSE Ended(j, "dropped")

Replace(kg, order) ==
    /\ store' = BuildFromKg(kg, hash, order)
    /\ answer' = NoAnswer

(* The rest of the handler: nothing to build from an empty KG, else a full     *)
(* rebuild, which can panic or be refused before it replaces the store.        *)
IngestExtracted(j, order) ==
    /\ jobs[j].pc = "extracted"
    /\ LET kg == jobs[j].kg
       IN IF kg.entities = <<>> /\ kg.chunks = <<>>
          THEN jobs' = Ended(j, "done") /\ UNCHANGED <<store, answer>>
          ELSE IF BuildPanics(kg)
          THEN jobs' = [jobs EXCEPT ![j].pc = "panicked"] /\ UNCHANGED <<store, answer>>
          ELSE IF ValueTooLong(kg)
          THEN jobs' = Ended(j, "refused") /\ UNCHANGED <<store, answer>>
          ELSE jobs' = Ended(j, "done") /\ Replace(kg, order)
    /\ UNCHANGED <<engines, hash>>

(* The client goes away: the handler is dropped at its await, the blocking     *)
(* task is not.                                                                *)
Disconnect(j) ==
    /\ jobs[j].client
    /\ CASE jobs[j].pc \in {"queued", "extracting"} -> jobs' = [jobs EXCEPT ![j].client = FALSE]
         [] jobs[j].pc = "extracted" -> jobs' = [jobs EXCEPT ![j] = Over("dropped")]
         [] OTHER -> FALSE
    /\ UNCHANGED <<engines, store, hash, answer>>

(* /lightrag/ingest. *)
Ingest(kg, order) ==
    /\ ~BuildPanics(kg) /\ ~ValueTooLong(kg)
    /\ Replace(kg, order)
    /\ UNCHANGED <<jobs, engines, hash>>

(* /lightrag/query, Hybrid when relations are searched too. *)
Query(entities, relations) ==
    /\ store # NoStore
    /\ answer' = QueryContext(store, hash, entities, relations, TopChunks)
    /\ UNCHANGED <<jobs, engines, store, hash>>

(* A search answers with at most TopK different ids, in some order. *)
Found(rows) ==
    UNION { { ids \in [1 .. n -> DOMAIN rows] : \A i, k \in 1 .. n : ids[i] = ids[k] => i = k } :
              n \in 0 .. TopK }

TaskStep(j) ==
    \/ LockEngines(j)
    \/ ExtractionFails(j)
    \/ EnginePanics(j)
    \/ GenerateBatch(j)
    \/ FinishExtraction(j)

Next ==
    \/ \E j \in Jobs : TaskStep(j) \/ Disconnect(j)
    \/ \E j \in Jobs, doc \in Docs : ExtractAndBuild(j, doc)
    \/ \E j \in Jobs, order \in Orders : IngestExtracted(j, order)
    \/ \E kg \in SuppliedKgs, order \in Orders : Ingest(kg, order)
    \/ store # NoStore /\ \E e \in Found(store.kg.entities), r \in Found(store.kg.relations) : Query(e, r)

Spec == Init /\ [][Next]_vars

(* The blocking pool runs every task it was given and a decoder call ends      *)
(* (Generation!Returns).                                                       *)
FairSpec == Spec /\ \A j \in Jobs : WF_vars(TaskStep(j))

-----------------------------------------------------------------------------
Extracted == {"extracted", "panicked"}
Terminal == {"done", "failed", "panicked", "refused", "dropped"}

(* All that the parser takes from the outputs of a document. *)
EntitiesOf(doc) ==
    UNION { ToSet(EntityDrafts(Live(doc)[i][1], Live(doc)[i][2].output)) : i \in DOMAIN Live(doc) }
RelationsOf(doc) ==
    UNION { ToSet(RelationDrafts(Live(doc)[i][1], Live(doc)[i][2].output)) : i \in DOMAIN Live(doc) }

(* A row stands for exactly the drafts mine: it names each of their chunks     *)
(* once and in order, loses no description and repeats none.                   *)
MergedFrom(row, mine) ==
    /\ ToSet(row.sources) = { d.chunk : d \in mine }
    /\ \A i, k \in DOMAIN row.sources : i < k => row.sources[i] < row.sources[k]
    /\ \A d \in mine : d.description = 0 \/ Describes(row.description, d.description)
    /\ \A i, k \in DOMAIN row.description : i < k => ~Describes(<<row.description[i]>>, row.description[k])
    /\ ToSet(row.description) \subseteq { d.description : d \in mine }

(* However the chunks are batched, the KG of a document is that of all its     *)
(* chunks: an entity per name, a relation per undirected pair of entities,     *)
(* none dangling (extract_kg_from_chunks: "must stay sequential in             *)
(* chunk-input order").                                                        *)
IsKgOf(kg, doc) ==
    /\ kg.chunks = Rows(doc)
    /\ Names(kg) = { d.key : d \in EntitiesOf(doc) }
    /\ \A i \in DOMAIN kg.entities :
          MergedFrom(kg.entities[i], { d \in EntitiesOf(doc) : d.key = kg.entities[i].name })
    /\ { CanonicalKey(kg.relations[i]) : i \in DOMAIN kg.relations }
          = { k \in { d.key : d \in RelationsOf(doc) } : {k[1], k[2]} \subseteq Names(kg) }
    /\ \A i \in DOMAIN kg.relations :
          MergedFrom(kg.relations[i], { d \in RelationsOf(doc) : d.key = CanonicalKey(kg.relations[i]) })

(* The KG an extraction hands over is that of its document. *)
KgOfWholeDocument ==
    \A j \in Jobs : jobs[j].pc \in Extracted => IsKgOf(jobs[j].kg, jobs[j].doc)

FirstOf(list, n) == { list[i] : i \in { k \in DOMAIN list : k <= n } }

(* The join reads one graph and loses nothing on the way through the cuckoo    *)
(* tables: of each entity it names, every adjacent relation and every source   *)
(* chunk up to the volume bound, with the texts of this store and nothing else.*)
AnswerJoinsTheGraph ==
    answer.ok /\ answer.entities # <<>> =>
        LET named == ToSet(answer.entities)
            cut == IF TopChunks < VolumeBound THEN TopChunks ELSE VolumeBound
        IN /\ \A n \in named : FirstOf(Adjacent(store.kg, n), VolumeBound) \subseteq ToSet(answer.relations)
           /\ \A k \in ToSet(answer.relations) : {k[1], k[2]} \cap named # {}
           /\ { c[1] : c \in ToSet(answer.chunks) } = UNION { FirstOf(Sources(store.kg, n), cut) : n \in named }
           /\ ToSet(answer.chunks) \subseteq ToSet(store.kg.chunks)

(* A query over an extracted KG never fails; one over a supplied KG fails only *)
(* when that KG tags an entity with a chunk it does not contain.               *)
QueryFailsOnlyOnStrayChunk ==
    ~answer.ok => /\ store.kg \in SuppliedKgs
                  /\ \E i \in DOMAIN store.kg.entities :
                       ~ (ToSet(store.kg.entities[i].sources) \subseteq DOMAIN store.texts)

(* "empty KGs are valid (no entities surfaced) and we don't need to spin up an *)
(* empty store" (lightrag_routes.rs): no extracted KG makes the handler panic. *)
EmptyKgsAreValid == \A j \in Jobs : jobs[j].pc # "panicked"

(* Every extraction task ends, whatever the other requests do: with a KG to    *)
(* ingest, an error, or dropped.                                               *)
TasksEnd == \A j \in Jobs : jobs[j].pc = "queued" ~> jobs[j].pc \in Terminal \cup {"extracted"}
=============================================================================
