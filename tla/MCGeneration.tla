----------------------------- MODULE MCGeneration -----------------------------
(* Generation over three layers: all global, the first not offloaded; and a *)
(* hybrid whose outer layers are local, with a window of two tokens, and    *)
(* whose middle one rotates partially and has its keys for values.          *)
EXTENDS Generation

Cfg(classes, partialRope, kvShared, skipFirst, skipLast) ==
  [numLayers |-> 3, classes |-> classes, partialRope |-> partialRope,
   kvShared |-> kvShared, skipFirst |-> skipFirst, skipLast |-> skipLast]

Plain == Cfg(<<>>, FALSE, FALSE, 1, FALSE)
Hybrid == Cfg(<<2, 0, 2>>, TRUE, TRUE, 0, TRUE)

Job(mode, cfg, prompts, maxTokens) ==
  [mode |-> mode, cfg |-> cfg, prompts |-> prompts, maxTokens |-> maxTokens]

MCJobs ==
  {Job("single", cfg, <<p>>, n) :
     cfg \in {Plain, Hybrid}, p \in {<<>>, <<1>>, <<1, 2, 1>>}, n \in {0, 3}} \cup
  {Job("batched", cfg, ps, n) :
     cfg \in {Plain, Hybrid},
     ps \in {<<<<>>, <<>>>>, <<<<1>>, <<>>>>, <<<<1>>, <<2, 1>>>>, <<<<1, 1>>, <<2>>>>}, n \in {0, 3}} \cup
  {Job("embed", cfg, <<p>>, 0) : cfg \in {Plain, Hybrid}, p \in {<<1>>, <<1, 2, 1>>}} \cup
  {Job("embedBatched", cfg, ps, 0) :
     cfg \in {Plain, Hybrid}, ps \in {<<<<>>, <<>>>>, <<<<1>>, <<>>>>, <<<<1>>, <<2, 1>>>>}} \cup
  {Job("single", Plain, <<<<1, 2, 1>>>>, 9)}
===============================================================================
