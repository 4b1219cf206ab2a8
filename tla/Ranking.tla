------------------------------ MODULE Ranking ------------------------------
(* The elements of a finite set listed by rank: what the code keeps sorted     *)
(* (BTreeMap, BinaryHeap, sort_by) is a list the models read by position.      *)
EXTENDS Naturals, FiniteSets

(* The elements of a finite set in the order given by a set of pairs. *)
Ranked(S, before) ==
  [k \in 1 .. Cardinality(S) |->
     CHOOSE x \in S : Cardinality({y \in S : <<y, x>> \in before}) = k - 1]
=============================================================================
