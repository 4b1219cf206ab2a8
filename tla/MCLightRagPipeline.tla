------------------------- MODULE MCLightRagPipeline -------------------------
(* Small instance: three names of which two do not fit one multimap value      *)
(* together, hashes that fill the stash and chain kicks, documents for each way a request ends.  *)
EXTENDS LightRagPipeline

Record(kind, fields) == [kind |-> kind, fields |-> fields, parens |-> TRUE]
Entity(n, d) == Record("entity", <<n, 1, d>>)
Relation(a, b, d) == Record("relationship", <<a, b, d, 1, 1>>)
Complete == Record("COMPLETE", <<>>)
Chunk(output) == [output |-> output, blank |-> FALSE, long |-> FALSE, text |-> "text"]
Blank == [Chunk(<<>>) EXCEPT !.blank = TRUE]

MCNameBytes == <<10, 20, 60>>
MCWithin == {<<2, 1>>}
MCJobs == {"j1", "j2"}

MCDocs == {
    <<Blank, Chunk(<<Entity(1, 1), Entity(2, 3), Relation(2, 1, 1), Relation(1, 3, 2)>>),
      Chunk(<<Entity(1, 2), Relation(1, 2, 3), Entity(0, 1), [Entity(3, 1) EXCEPT !.parens = FALSE]>>),
      Chunk(<<Entity(2, 1), Relation(1, 1, 0), Record("other", <<1>>), Complete, Entity(3, 3)>>)>>,
    <<Chunk(<<Entity(1, 1), Relation(1, 2, 1)>>)>>,
    <<Blank, Chunk(<<Entity(1, 1), Relation(1, 1, 1)>>)>>,
    <<Chunk(<<Entity(2, 1), Entity(3, 1), Relation(3, 2, 1)>>)>>,
    <<[Chunk(<<>>) EXCEPT !.long = TRUE]>>,
    <<Blank>> }

Row(n, sources) == [sources |-> sources, name |-> n, description |-> <<1>>]
Edge(a, b) == [sources |-> <<1>>, description |-> <<1>>, src |-> a, tgt |-> b]
MCSuppliedKgs == {
    [chunks |-> <<<<1, "old">>, <<1, "text">>, <<2, "text">>>>,
     entities |-> <<Row(1, <<1>>), Row(1, <<2, 1>>), Row(2, <<7>>)>>,
     relations |-> <<Edge(1, 1), Edge(2, 1), Edge(1, 2)>>] }

Clash == << <<1, 1, 1>>, <<1, 1, 1>> >>
Chain == << <<0, 0, 0>>, <<1, 1, 1>> >>
MCHashPairs == { [sources |-> Chain, adjacency |-> Clash], [sources |-> Clash, adjacency |-> Chain] }
MCOrders == { <<1, 2, 3>>, <<3, 2, 1>> }
=============================================================================
