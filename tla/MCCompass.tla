----------------------------- MODULE MCCompass -----------------------------
(***************************************************************************)
(* Compass over five nodes: all angles different, several of them equal,   *)
(* and the zero vector among them.                                         *)
(***************************************************************************)
EXTENDS Compass

MCNodes == {0, 1, 2, 3, 4}

(* The embeddings of the nodes 0 to 4. *)
Layout(a, b, c, d, e) ==
  [x \in MCNodes |-> CASE x = 0 -> a [] x = 1 -> b [] x = 2 -> c [] x = 3 -> d [] x = 4 -> e]

MCLayouts ==
  {Layout(0, 3, 6, 1, 4), Layout(0, 0, 0, 0, 4), Layout(2, 8, 0, 8, 5)}

MCParams == {[ef |-> 5, efn |-> 2], [ef |-> 1, efn |-> 1]}

MCTieOrders == {[x \in MCNodes |-> x], [x \in MCNodes |-> 4 - x]}
=============================================================================
