-------------------------- MODULE PermutedAttention --------------------------
(***************************************************************************)
(* Attention handed to an untrusted engine (gelo-protocol attention.rs,    *)
(* out_attn_mult.rs and the engine defaults of substrate.rs): token        *)
(* permutations with noise, and the masked and stacked Q.K^T product.      *)
(*                                                                         *)
(* Entries are integers.  exp is a power of two that underflows to zero    *)
(* Depth steps below the row's maximum, and a softmax row stays a pair of  *)
(* its weights and their sum, so an attention row is a fraction.  A head   *)
(* is a sequence of rows; `noise' and the permutations are what the RNG    *)
(* drew.                                                                   *)
(***************************************************************************)
EXTENDS MaskCascade

CONSTANT Depth   \* how far below the maximum exp still registers

ASSUME DepthAssumption == Depth \in Nat

(* softmax_rowwise, softmax_batched: exp(v - max), then divide by the sum. *)
SoftmaxRow(row) ==
  LET top == CHOOSE m \in ToSet(row) : \A x \in ToSet(row) : x <= m
      w == [j \in DOMAIN row |-> IF row[j] - top < -Depth THEN 0 ELSE 2 ^ (Depth + row[j] - top)]
  IN [w |-> w, sum |-> FoldFunction(+, 0, w)]

SoftmaxRows(scores) == [i \in DOMAIN scores |-> SoftmaxRow(scores[i])]

(* probs . V, each row over its common denominator.                        *)
WeightedRows(probs, v) ==
  [i \in DOMAIN probs |-> [num |-> MatMul(<<probs[i].w>>, v)[1], den |-> probs[i].sum]]

RunRuntimeMatmul(lhs, rhs) == [h \in DOMAIN lhs |-> MatMul(lhs[h], rhs[h])]
Scaled(scores, scale) ==
  [h \in DOMAIN scores |-> [i \in DOMAIN scores[h] |->
     [j \in DOMAIN scores[h][i] |-> scale * scores[h][i][j]]]]
AddMask(scores, m) ==
  [h \in DOMAIN scores |-> [i \in DOMAIN scores[h] |->
     [j \in DOMAIN scores[h][i] |-> scores[h][i][j] + m[i][j]]]]
Kt(k) == [h \in DOMAIN k |-> Transposed(k[h])]

(* The engine's default: scores, scale, softmax and . V in one call.       *)
FusedAttentionBatched(q, k, v, scale) ==
  LET scores == Scaled(RunRuntimeMatmul(q, Kt(k)), scale)
  IN [h \in DOMAIN v |-> WeightedRows(SoftmaxRows(scores[h]), v[h])]

-----------------------------------------------------------------------------
PermuteRows(m, perm) == [i \in DOMAIN m |-> m[perm[i]]]
PermuteCols(m, perm) == [i \in DOMAIN m |-> PermuteRows(m[i], perm)]
PermuteHeads(x, perm) == [h \in DOMAIN x |-> PermuteRows(x[h], perm)]

AddGaussian(x, noise) ==
  [h \in DOMAIN x |-> [i \in DOMAIN x[h] |-> [c \in DOMAIN x[h][i] |-> x[h][i][c] + noise[h][i][c]]]]

(* out[perm[i]] := out_perm[i], per head.                                  *)
Unpermute(x, perm) ==
  [h \in DOMAIN x |-> [t \in DOMAIN x[h] |-> x[h][CHOOSE i \in DOMAIN perm : perm[i] = t]]]

(* Blocked positions get a large negative score, not minus infinity.       *)
CausalMask(permQ, permKv, offset, neg) ==
  [i \in DOMAIN permQ |-> [j \in DOMAIN permKv |->
     IF permKv[j] > offset + permQ[i] THEN -neg ELSE 0]]

AttentionProbs(qp, kp, scale, mask) ==
  LET scores == AddMask(Scaled(RunRuntimeMatmul(qp, Kt(kp)), scale), mask)
  IN [h \in DOMAIN scores |-> SoftmaxRows(scores[h])]

PermutedAttention(q, k, v, scale, causal, cfg, perm, noise) ==
  LET qp == AddGaussian(PermuteHeads(q, perm), noise.q)
      kp == AddGaussian(PermuteHeads(k, perm), noise.k)
      vp == PermuteHeads(v, perm)
      mask == CausalMask(perm, perm, 0, IF causal THEN cfg.causal_mask_neg ELSE 0)
      probs == AttentionProbs(qp, kp, scale, mask)
  IN Unpermute([h \in DOMAIN vp |-> WeightedRows(probs[h], vp[h])], perm)

(* Mutant: one query is taken to see every key, wherever it stands. *)
SingleRowMaskIsNoop(causal, nQ, nKv, offset) == ~causal \/ nQ = 1

MaskIsNoop(causal, nQ, nKv, offset) == ~causal \/ (nQ = 1 /\ offset + nQ = nKv)

PermutedAttentionCached(q, k, v, scale, offset, causal, cfg, permQ, permKv, noise) ==
  LET qp == AddGaussian(PermuteHeads(q, permQ), noise.q)
      kp == AddGaussian(PermuteHeads(k, permKv), noise.k)
      vp == PermuteHeads(v, permKv)
      mask == CausalMask(permQ, permKv, offset, IF causal THEN cfg.causal_mask_neg ELSE 0)
      probs == AttentionProbs(qp, kp, scale, mask)
      out == IF cfg.decode_softmax_on_gpu /\ MaskIsNoop(causal, Len(q[1]), Len(k[1]), offset)
             THEN FusedAttentionBatched(qp, kp, vp, scale)
             ELSE [h \in DOMAIN vp |-> WeightedRows(probs[h], vp[h])]
  IN Unpermute(out, permQ)

-----------------------------------------------------------------------------
(* OutAttnMult: [Q + R ; a R] and [K^T + S , b S], rows and columns        *)
(* shuffled, multiplied by the engine, unshuffled and recombined.          *)
AddMat(x, y) == [i \in DOMAIN x |-> [j \in DOMAIN x[i] |-> x[i][j] + y[i][j]]]
ScaleMat(x, a) == [i \in DOMAIN x |-> [j \in DOMAIN x[i] |-> a * x[i][j]]]

StackedQ(q, draw) == PermuteRows(AddMat(q, draw.r_q) \o ScaleMat(draw.r_q, draw.a), draw.lambda_q)
StackedKt(kt, draw) ==
  PermuteCols([i \in DOMAIN kt |-> AddMat(kt, draw.r_kt)[i] \o ScaleMat(draw.r_kt, draw.b)[i]],
              draw.lambda_k)

InversePermute(m, lambdaRows, lambdaCols) ==
  [i \in DOMAIN m |-> [j \in DOMAIN m[i] |->
     m[CHOOSE r \in DOMAIN lambdaRows : lambdaRows[r] = i][CHOOSE c \in DOMAIN lambdaCols : lambdaCols[c] = j]]]

(* x / a for an x that a divides.                                          *)
Exact(x, a) == IF a > 0 THEN x \div a ELSE -(x \div (-a))

Recover(tilde, n, draw) ==
  LET t == InversePermute(tilde, draw.lambda_q, draw.lambda_k)
  IN [i \in 1 .. n |-> [j \in 1 .. n |->
        t[i][j] - Exact(t[i][n + j], draw.b) - Exact(t[n + i][j], draw.a)
          + Exact(t[n + i][n + j], draw.a * draw.b)]]

OffloadQkt(q, kt, draw) == Recover(MatMul(StackedQ(q, draw), StackedKt(kt, draw)), Len(q), draw)

OffloadQktBatched(q, kt, draws) ==
  LET tilde == RunRuntimeMatmul([h \in DOMAIN q |-> StackedQ(q[h], draws[h])],
                                [h \in DOMAIN kt |-> StackedKt(kt[h], draws[h])])
  IN [h \in DOMAIN q |-> Recover(tilde[h], Len(q[h]), draws[h])]
=============================================================================
