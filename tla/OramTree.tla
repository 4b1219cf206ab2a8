------------------------------ MODULE OramTree ------------------------------
(***************************************************************************)
(* Tree-layout arithmetic of the Ring-ORAM crate (ring-oram/src/path.rs    *)
(* and params.rs): how many levels a leaf count needs, how many buckets    *)
(* that makes, which buckets lie on the path to a leaf and which of them   *)
(* are in the treetop cache.                                               *)
(***************************************************************************)
EXTENDS Naturals, Sequences

CONSTANT W   \* bits of the machine word the layout is computed in (u32)

ASSUME WidthAssumption == W \in Nat \ {0}

(* 1u32 << n: an optimised build masks the shift amount to the word size. *)
Shl(n) == 2 ^ (n % W)

(* Leading zero bits of x in a W-bit word. *)
LeadingZeros(x) == CHOOSE z \in 0 .. W :
                     /\ x < 2 ^ (W - z)
                     /\ z < W => x >= 2 ^ (W - z - 1)

TreeLevels(n) == IF n <= 1 THEN 1 ELSE W - LeadingZeros(n - 1) + 1

TotalBuckets(n) == Shl(TreeLevels(n)) - 1

(* Mutant: the first leaf taken one bucket too far. *)
LeafBucketOffByOne(leaf, n) == Shl(TreeLevels(n) - 1) + leaf

LeafBucket(leaf, n) == Shl(TreeLevels(n) - 1) - 1 + leaf

(* path_buckets: the leaf bucket and its parents, reversed.                *)
PathByParents(leaf, n) ==
  LET up[k \in 0 .. TreeLevels(n) - 1] == IF k = 0 THEN LeafBucket(leaf, n) ELSE (up[k - 1] - 1) \div 2
  IN [i \in 1 .. TreeLevels(n) |-> up[TreeLevels(n) - i]]

(* The same path in closed form: depth d holds 2^d buckets, and the one above       *)
(* `leaf' is named by the leading d bits of the leaf number.               *)
PathBuckets(leaf, n) ==
  [i \in 1 .. TreeLevels(n) |-> 2 ^ (i - 1) - 1 + leaf \div 2 ^ (TreeLevels(n) - i)]

TreetopBucketCount(t) == IF t = 0 THEN 0 ELSE Shl(t) - 1

BucketInTreetop(b, t) == b < TreetopBucketCount(t)
=============================================================================
