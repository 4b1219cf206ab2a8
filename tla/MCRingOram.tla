----------------------------- MODULE MCRingOram -----------------------------
(***************************************************************************)
(* Ring-ORAM on concrete trees.  The layouts are written out so that TLC   *)
(* need not recompute them in every state; the assumption checks them      *)
(* against the arithmetic of OramTree.                                     *)
(***************************************************************************)
EXTENDS RingOram, OramTree, SequencesExt, TLC

CONSTANT TreetopLevels   \* treetop_levels

TwoLeaves == (0 :> <<0, 1>>) @@ (1 :> <<0, 2>>)

ASSUME LayoutAssumption ==
  /\ Path = [leaf \in 0 .. NLeaves - 1 |-> PathBuckets(leaf, NLeaves)]
  /\ Buckets = 0 .. TotalBuckets(NLeaves) - 1
  /\ Treetop = {k \in Buckets : BucketInTreetop(k, TreetopLevels)}

Symmetry == Permutations(Blocks) \cup Permutations(Values)
=============================================================================
