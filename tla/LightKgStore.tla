---------------------------- MODULE LightKgStore ----------------------------
(* light-kg-store: the store built from one KG and the join a query makes over *)
(* it.  The three Compass indices are the rows of the KG by block id; a search *)
(* answers with some of the ids.  Chunk texts are what the AES store decrypts  *)
(* to.  The two multimaps are tables of XorMmEmm under hashes hash.adjacency   *)
(* and hash.sources.                                                           *)
EXTENDS XorMmEmm, SequencesExt

CONSTANTS NameBytes,     \* the length of each entity name
          ValueBytes     \* XorMmParams::value_bytes

(* Names are numbered in the order of their strings, 0 the empty one.          *)
ASSUME NameAssumption == IsFiniteSet(DOMAIN NameBytes) /\ DOMAIN NameBytes \subseteq Nat

(* What a HashSet lets through: each element where it first occurs. *)
Distinct(seq) ==
    LET kept[i \in 0 .. Len(seq)] ==
            IF i = 0 THEN <<>>
            ELSE IF seq[i] \in ToSet(kept[i - 1]) THEN kept[i - 1] ELSE Append(kept[i - 1], seq[i])
    IN kept[Len(seq)]

(* Relation::canonical_key: sorted, joined by one NUL byte. *)
CanonicalKey(r) == IF r.src <= r.tgt THEN <<r.src, r.tgt>> ELSE <<r.tgt, r.src>>
KeyBytes(key) == NameBytes[key[1]] + 1 + NameBytes[key[2]]

Names(kg) == { kg.entities[i].name : i \in DOMAIN kg.entities }
Ends(kg) == UNION { {kg.relations[i].src, kg.relations[i].tgt} : i \in DOMAIN kg.relations }

(* adjacency_entries: each relation under both its ends, once if they are one. *)
Adjacent(kg, name) ==
    FlattenSeq([i \in DOMAIN kg.relations |->
        IF name \in {kg.relations[i].src, kg.relations[i].tgt}
        THEN <<CanonicalKey(kg.relations[i])>> ELSE <<>>])

(* src_chunks_entries: entities of the same name share one list. *)
Sources(kg, name) ==
    FlattenSeq([i \in DOMAIN kg.entities |->
        IF kg.entities[i].name = name THEN kg.entities[i].sources ELSE <<>>])

(* CompassIndex::from_plaintext_corpus_on of no rows: PlainHnsw::build asserts. *)
BuildPanics(kg) == kg.entities = <<>> \/ kg.relations = <<>> \/ kg.chunks = <<>>

(* string_to_value refuses a key longer than a multimap value. *)
ValueTooLong(kg) == \E i \in DOMAIN kg.relations : KeyBytes(CanonicalKey(kg.relations[i])) > ValueBytes

(* AesChunkStore::put_all: the last chunk of an id is the one kept. *)
ChunkTexts(kg) ==
    [id \in { kg.chunks[i][1] : i \in DOMAIN kg.chunks } |->
        kg.chunks[CHOOSE i \in DOMAIN kg.chunks :
                    kg.chunks[i][1] = id /\ \A j \in DOMAIN kg.chunks : kg.chunks[j][1] = id => j <= i][2]]

(* build_inner; order is the order the two HashMaps happen to iterate in. *)
BuildFromKg(kg, hash, order) ==
    [kg |-> kg, texts |-> ChunkTexts(kg),
     adjacency |-> Build(hash.adjacency, [n \in Ends(kg) |-> Adjacent(kg, n)], order),
     sources |-> Build(hash.sources, [n \in Names(kg) |-> Sources(kg, n)], order)]

(* entity_id_to_name and relation_id_to_canon invert a map that kept the last  *)
(* id of a name, so an earlier id of the same name has none.                   *)
NamesAt(kg, ids) ==
    FlattenSeq([i \in DOMAIN ids |->
        IF \E j \in DOMAIN kg.entities : j > ids[i] /\ kg.entities[j].name = kg.entities[ids[i]].name
        THEN <<>> ELSE <<kg.entities[ids[i]].name>>])

KeysAt(kg, ids) ==
    LET key(i) == CanonicalKey(kg.relations[i])
    IN FlattenSeq([i \in DOMAIN ids |->
           IF \E j \in DOMAIN kg.relations : j > ids[i] /\ key(j) = key(ids[i])
           THEN <<>> ELSE <<key(ids[i])>>])

(* query_context: entities are the ids of the entity search, relations those   *)
(* of the relation search (none in Local mode).                                *)
QueryContext(store, hash, entities, relations, topChunks) ==
    LET ends == FlattenSeq([i \in DOMAIN relations |->
                    <<store.kg.relations[relations[i]].src, store.kg.relations[relations[i]].tgt>>])
        names == Distinct(NamesAt(store.kg, entities) \o ends)
        keys == Distinct(KeysAt(store.kg, relations)
                  \o FlattenSeq([i \in DOMAIN names |-> Get(hash.adjacency, store.adjacency, names[i])]))
        first(list) == SubSeq(list, 1, IF Len(list) < topChunks THEN Len(list) ELSE topChunks)
        ids == Distinct(FlattenSeq([i \in DOMAIN names |->
                    first(Get(hash.sources, store.sources, names[i]))]))
    IN IF \E i \in DOMAIN ids : ids[i] \notin DOMAIN store.texts
       THEN [ok |-> FALSE, entities |-> <<>>, relations |-> <<>>, chunks |-> <<>>]
       ELSE [ok |-> TRUE, entities |-> names, relations |-> keys,
             chunks |-> [i \in DOMAIN ids |-> <<ids[i], store.texts[ids[i]]>>]]
=============================================================================
