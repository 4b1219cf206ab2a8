--------------------------- MODULE KgExtraction ---------------------------
(* From decoder output to a knowledge graph: parse_tuple_stream and the merge *)
(* of extract_kg_from_chunks.  Entity names are numbers in the order of their *)
(* strings (0 is the empty string) and descriptions are sets' elements (0 is  *)
(* empty); Within says which description is a substring of which.             *)
EXTENDS Integers, Sequences, FiniteSets, SequencesExt, Ranking

CONSTANT Within      \* the pairs <<d, e>> of different descriptions with d inside e

(* One record of the stream: its parentheses, its quoted kind and its fields. *)
Closed(record) == record.parens

(* parse_entity: name, type, description. *)
ParsedEntity(record) ==
    Closed(record) /\ record.kind = "entity" /\ Len(record.fields) >= 3 /\ record.fields[1] # 0

(* parse_relationship: both ends named and the strength a number (field 5 = 1). *)
ParsedRelation(record) ==
    /\ Closed(record) /\ record.kind = "relationship" /\ Len(record.fields) >= 5
    /\ record.fields[5] = 1 /\ record.fields[1] # 0 /\ record.fields[2] # 0

(* parse_tuple_stream: what precedes the completion marker, record by record.  *)
Stream(records) ==
    LET markers == { i \in DOMAIN records : records[i].kind = "COMPLETE" }
    IN IF markers = {} THEN records
       ELSE SubSeq(records, 1, (CHOOSE i \in markers : \A j \in markers : i <= j) - 1)

(* A draft is a parsed record with the chunk it comes from and the key it is  *)
(* merged under.  Relations are undirected: theirs is the sorted pair of ends. *)
EntityDraft(id, record) ==
    [chunk |-> id, key |-> record.fields[1], description |-> record.fields[3]]

RelationDraft(id, record) ==
    LET f == record.fields
    IN [chunk |-> id, key |-> IF f[1] <= f[2] THEN <<f[1], f[2]>> ELSE <<f[2], f[1]>>,
        description |-> f[3]]

(* The parsers of the two kinds run over the whole stream; what neither takes *)
(* is skipped.                                                                 *)
EntityDrafts(id, records) ==
    LET stream == Stream(records)
    IN FlattenSeq([i \in DOMAIN stream |->
           IF ParsedEntity(stream[i]) THEN <<EntityDraft(id, stream[i])>> ELSE <<>>])

RelationDrafts(id, records) ==
    LET stream == Stream(records)
    IN FlattenSeq([i \in DOMAIN stream |->
           IF ParsedRelation(stream[i]) THEN <<RelationDraft(id, stream[i])>> ELSE <<>>])

(* A merged description is the sequence of its newline-separated parts.       *)
Describes(description, d) ==
    \E i \in DOMAIN description : description[i] = d \/ <<d, description[i]>> \in Within

Appended(description, d) ==
    IF d # 0 /\ ~Describes(description, d) THEN Append(description, d) ELSE description

Tagged(sources, id) == IF id \in ToSet(sources) THEN sources ELSE Append(sources, id)

NewRow == [description |-> <<>>, sources |-> <<>>]

(* merge_entities and merge_relations, FirstWinsAppendDescription: a draft is  *)
(* merged into the row of its key, which is made when there is none.           *)
MergeDraft(acc, d) ==
    LET old == IF d.key \in DOMAIN acc THEN acc[d.key] ELSE NewRow
        row == [description |-> Appended(old.description, d.description),
                sources |-> Tagged(old.sources, d.chunk)]
    IN [k \in DOMAIN acc \cup {d.key} |-> IF k = d.key THEN row ELSE acc[k]]

(* The drafts of one chunk, in order. *)
Merge(acc, drafts) ==
    LET after[i \in 0 .. Len(drafts)] ==
            IF i = 0 THEN acc ELSE MergeDraft(after[i - 1], drafts[i])
    IN after[Len(drafts)]

(* entities or relations with nothing merged yet. *)
NoneYet == [k \in {} |-> 0]

(* Mutant: one end is enough. *)
WithoutFloating(entities, relations) ==
    [key \in { k \in DOMAIN relations : k[1] \in DOMAIN entities \/ k[2] \in DOMAIN entities }
        |-> relations[key]]

(* Relations whose two ends are entities of the whole document. *)
WithoutDangling(entities, relations) ==
    [key \in { k \in DOMAIN relations : k[1] \in DOMAIN entities /\ k[2] \in DOMAIN entities }
        |-> relations[key]]

(* The rows of the KG in the order of the BTreeMaps: by key. *)
EntityRows(entities) ==
    LET names == DOMAIN entities
        keys == Ranked(names, { p \in names \X names : p[1] < p[2] })
    IN [i \in DOMAIN keys |-> [name |-> keys[i], description |-> entities[keys[i]].description,
                               sources |-> entities[keys[i]].sources]]

RelationRows(relations) ==
    LET pairs == DOMAIN relations
        keys == Ranked(pairs, { p \in pairs \X pairs :
                    p[1][1] < p[2][1] \/ (p[1][1] = p[2][1] /\ p[1][2] < p[2][2]) })
    IN [i \in DOMAIN keys |-> [src |-> keys[i][1], tgt |-> keys[i][2],
                               description |-> relations[keys[i]].description,
                               sources |-> relations[keys[i]].sources]]

(* ExtractedKg::chunks, rows <<id, text>>, and the graph over them. *)
Assemble(live, entities, relations) ==
    [chunks |-> live, entities |-> EntityRows(entities),
     relations |-> RelationRows(WithoutDangling(entities, relations))]
=============================================================================
