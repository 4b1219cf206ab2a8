---------------------------- MODULE MaskCascade ----------------------------
(***************************************************************************)
(* The orthogonal masks of gelo-protocol as the loops they are: the HD3    *)
(* Walsh-Hadamard cascade (hd3.rs), the tiled DCT-IV cascade (dct4.rs) and *)
(* the dense mask (mask.rs).                                               *)
(*                                                                         *)
(* A row-major (n, d) slice is a sequence of n rows of integers.  The      *)
(* scalar inv_norm would leave the integers, so a buffer counts in `norms' *)
(* how often it was multiplied in; a mask scales its kernel n times over   *)
(* (Walsh-Hadamard squares to n, the stand-in kernel for DCT-IV to n*n),   *)
(* and two inv_norms undo three such squares.                              *)
(***************************************************************************)
EXTENDS Integers, SequencesExt

CONSTANTS
  RngBits,   \* sign bits taken from one RNG word (32 in the code)
  TileWidth  \* DCT4_CASCADE_TILE, columns per tile (16 in the code)

ASSUME MaskCascadeAssumption == RngBits \in Nat \ {0} /\ TileWidth \in Nat \ {0}

Buffer(rows) == [rows |-> rows, norms |-> 0]
Cols(rows) == IF rows = <<>> THEN 0 ELSE Len(rows[1])
Dot(x, y) == FoldFunction(+, 0, [k \in DOMAIN x |-> x[k] * y[k]])
Column(m, j) == [i \in DOMAIN m |-> m[i][j]]
Transposed(m) == [j \in 1 .. Cols(m) |-> Column(m, j)]
MatMul(a, b) == [i \in DOMAIN a |-> [j \in 1 .. Cols(b) |-> Dot(a[i], Column(b, j))]]
CeilDiv(a, b) == (a + b - 1) \div b
IsPow2(n) == \E e \in 0 .. n : n = 2 ^ e

(***************************************************************************)
(* Sampling.  A diagonal takes its signs from the low bits of successive   *)
(* RNG words, a fresh word for each diagonal.                              *)
(***************************************************************************)
SampleDiag(n, words) ==
  [i \in 1 .. n |-> LET bits == words[1 + ((i - 1) \div RngBits)] \div 2 ^ ((i - 1) % RngBits)
                    IN IF bits % 2 = 0 THEN -1 ELSE 1]

Diagonals(n, words) ==
  LET take == CeilDiv(n, RngBits)
      From(k) == SampleDiag(n, SubSeq(words, (k * take) + 1, (k + 1) * take))
  IN [n |-> n, d1 |-> From(0), d2 |-> From(1), d3 |-> From(2)]

Hd3FreshPanics(n) == ~IsPow2(n)
Hd3Fresh(n, words) == [kind |-> "hd3"] @@ Diagonals(n, words)
Dct4FreshPanics(n) == n = 0
Dct4Fresh(n, words) == [kind |-> "dct4"] @@ Diagonals(n, words)

(***************************************************************************)
(* Walsh-Hadamard butterflies.  The vector kernels take `lanes' columns at *)
(* a time while that many are left and finish with the scalar loop; both   *)
(* overwrite the rows they read.                                           *)
(***************************************************************************)
PairAt(rows, ks) ==
  <<[k \in DOMAIN rows[1] |-> IF k \in ks THEN rows[1][k] + rows[2][k] ELSE rows[1][k]],
    [k \in DOMAIN rows[2] |-> IF k \in ks THEN rows[1][k] - rows[2][k] ELSE rows[2][k]]>>

OctOfColumn(x) ==
  LET s01 == x[1] + x[2]  d01 == x[1] - x[2]  s23 == x[3] + x[4]  d23 == x[3] - x[4]
      s45 == x[5] + x[6]  d45 == x[5] - x[6]  s67 == x[7] + x[8]  d67 == x[7] - x[8]
      p0 == s01 + s23  p2 == s01 - s23  p1 == d01 + d23  p3 == d01 - d23
      p4 == s45 + s67  p6 == s45 - s67  p5 == d45 + d67  p7 == d45 - d67
  IN <<p0 + p4, p1 + p5, p2 + p6, p3 + p7, p0 - p4, p1 - p5, p2 - p6, p3 - p7>>

OctAt(rows, ks) ==
  [r \in 1 .. 8 |-> [k \in DOMAIN rows[r] |->
     IF k \in ks THEN OctOfColumn(Column(rows, k))[r] ELSE rows[r][k]]]

(* The columns the vector loop covers, lane group by lane group, and then  *)
(* those of the scalar tail, one by one.                                   *)
LaneSets(d, lanes) ==
  [i \in 1 .. d \div lanes |-> ((i - 1) * lanes) + 1 .. i * lanes]
    \o [i \in 1 .. d % lanes |-> {(d - (d % lanes)) + i}]
PairByLanes(rows, lanes) == FoldLeft(PairAt, rows, LaneSets(Cols(rows), lanes))
OctByLanes(rows, lanes) == FoldLeft(OctAt, rows, LaneSets(Cols(rows), lanes))

ButterflyPairScalar(rows) == PairAt(rows, DOMAIN rows[1])
ButterflyPairAvx512(rows) == PairByLanes(rows, 16)
ButterflyPairAvx2(rows) == PairByLanes(rows, 8)
ButterflyPair(rows, isa) ==
  IF isa = "avx512" THEN ButterflyPairAvx512(rows)
  ELSE IF isa = "avx2" THEN ButterflyPairAvx2(rows)
  ELSE ButterflyPairScalar(rows)

ButterflyOctScalar(rows) == OctAt(rows, DOMAIN rows[1])
ButterflyOctAvx512(rows) == OctByLanes(rows, 16)
ButterflyOctAvx2(rows) == OctByLanes(rows, 8)
ButterflyOct(rows, isa) ==
  IF isa = "avx512" THEN ButterflyOctAvx512(rows)
  ELSE IF isa = "avx2" THEN ButterflyOctAvx2(rows)
  ELSE ButterflyOctScalar(rows)

(* Rows j, j+h, ... of a chunk form one butterfly; a group that runs past  *)
(* the end of the chunk ends the loop.                                     *)
StageChunk(chunk, h, isa) ==
  [r \in DOMAIN chunk |->
     LET j == (r - 1) % h  q == (r - 1) \div h
     IN IF q < 2 /\ j + h < Len(chunk)
        THEN ButterflyPair(<<chunk[j + 1], chunk[j + h + 1]>>, isa)[q + 1] ELSE chunk[r]]

StageChunkRadix8(chunk, h, isa) ==
  [r \in DOMAIN chunk |->
     LET j == (r - 1) % h  q == (r - 1) \div h
     IN IF q < 8 /\ j + (7 * h) < Len(chunk)
        THEN ButterflyOct([i \in 1 .. 8 |-> chunk[j + ((i - 1) * h) + 1]], isa)[q + 1]
        ELSE chunk[r]]

Chunks(rows, size) ==
  [c \in 1 .. CeilDiv(Len(rows), size) |->
     SubSeq(rows, ((c - 1) * size) + 1, IF c * size > Len(rows) THEN Len(rows) ELSE c * size)]

(* One pass of the loop over h: radix 8 while a chunk of 8h fits, then 2.   *)
FwhtPass(s, isa) ==
  LET radix8 == 8 * s.h <= Len(s.rows)
      size == IF radix8 THEN 8 * s.h ELSE 2 * s.h
      chunks == Chunks(s.rows, size)
      stage == [c \in DOMAIN chunks |->
                  IF radix8 THEN StageChunkRadix8(chunks[c], s.h, isa) ELSE StageChunk(chunks[c], s.h, isa)]
  IN IF s.h >= Len(s.rows) THEN s ELSE [rows |-> FlattenSeq(stage), h |-> size]

(* A pass doubles h at least, so Len(rows) of them reach the end.          *)
FwhtFrom(rows, h, isa) ==
  LET after[n \in 0 .. Len(rows)] ==
        IF n = 0 THEN [rows |-> rows, h |-> h] ELSE FwhtPass(after[n - 1], isa)
  IN after[Len(rows)].rows

FwhtRowsInplace(buf, isa) ==
  IF Len(buf.rows) < 2 \/ Cols(buf.rows) = 0 THEN buf
  ELSE [buf EXCEPT !.rows = FwhtFrom(buf.rows, 1, isa)]

Signed(rows, diag) == [i \in DOMAIN rows |-> [k \in DOMAIN rows[i] |-> diag[i] * rows[i][k]]]
ApplyDiagInplace(buf, diag) == [buf EXCEPT !.rows = Signed(@, diag)]
ApplyDiagScaledInplace(buf, diag) ==
  IF Cols(buf.rows) = 0 THEN buf ELSE [buf EXCEPT !.rows = Signed(@, diag), !.norms = @ + 1]

Hd3ApplyInPlace(mask, buf, isa) ==
  LET b1 == ApplyDiagInplace(FwhtRowsInplace(buf, isa), mask.d1)
      b2 == ApplyDiagInplace(FwhtRowsInplace(b1, isa), mask.d2)
  IN ApplyDiagScaledInplace(FwhtRowsInplace(b2, isa), mask.d3)

Hd3UnapplyInPlace(mask, buf, isa) ==
  LET b1 == FwhtRowsInplace(ApplyDiagScaledInplace(buf, mask.d3), isa)
      b2 == FwhtRowsInplace(ApplyDiagInplace(b1, mask.d2), isa)
  IN FwhtRowsInplace(ApplyDiagInplace(b2, mask.d1), isa)

(***************************************************************************)
(* bf16 storage keeps eight significant bits, rounding to even.            *)
(***************************************************************************)
BitLen(a) == CHOOSE e \in 0 .. a : a < 2 ^ e /\ (e = 0 \/ 2 ^ (e - 1) <= a)

Bf16(x) ==
  LET a == IF x < 0 THEN -x ELSE x
      e == BitLen(a) - 8
      u == 2 ^ e  q == a \div u  r == 2 * (a % u)
      rounded == IF r > u \/ (r = u /\ q % 2 = 1) THEN (q + 1) * u ELSE q * u
  IN IF e <= 0 THEN x ELSE IF x < 0 THEN -rounded ELSE rounded

NarrowRows(rows) == [i \in DOMAIN rows |-> [k \in DOMAIN rows[i] |-> Bf16(rows[i][k])]]
Narrow(buf) == [buf EXCEPT !.rows = NarrowRows(@)]

Hd3ApplyInPlaceBf16(mask, buf, isa) == Narrow(Hd3ApplyInPlace(mask, buf, isa))
Hd3UnapplyInPlaceBf16(mask, buf, isa) == Narrow(Hd3UnapplyInPlace(mask, buf, isa))

(***************************************************************************)
(* DCT-IV, tile by tile.  A tile is TileWidth columns copied out, one      *)
(* contiguous vector per column.  The library's transform is a symmetric   *)
(* matrix whose square is a multiple of the identity; n*I - 2*J is one     *)
(* over the integers.                                                      *)
(***************************************************************************)
Dct4Kernel(col) ==
  LET n == Len(col)  sum == FoldFunction(+, 0, col)
  IN [i \in 1 .. n |-> (n * col[i]) - (2 * sum)]

CopyTileIn(rows, start, width) == [j \in 1 .. width |-> Column(rows, start + j)]

CopyTileOut(tile, start, rows) ==
  [i \in DOMAIN rows |-> [k \in DOMAIN rows[i] |->
     IF k \in start + 1 .. start + Len(tile) THEN tile[k - start][i] ELSE rows[i][k]]]

DctTile(tile) == [j \in DOMAIN tile |-> Dct4Kernel(tile[j])]
SignDiagInTile(tile, diag) == [j \in DOMAIN tile |-> [i \in DOMAIN tile[j] |-> diag[i] * tile[j][i]]]
ScaledDiagInTile(tile, diag) == SignDiagInTile(tile, diag)   \* its inv_norm: StoreTiles

CascadeApplyInTile(mask, tile) ==
  LET t1 == SignDiagInTile(DctTile(tile), mask.d1)
      t2 == SignDiagInTile(DctTile(t1), mask.d2)
  IN ScaledDiagInTile(DctTile(t2), mask.d3)

(* Mutant: the signs undone in the order they were put on. *)
CascadeUnapplySameOrder(mask, tile) ==
  LET t1 == DctTile(ScaledDiagInTile(tile, mask.d3))
      t2 == DctTile(SignDiagInTile(t1, mask.d1))
  IN DctTile(SignDiagInTile(t2, mask.d2))

CascadeUnapplyInTile(mask, tile) ==
  LET t1 == DctTile(ScaledDiagInTile(tile, mask.d3))
      t2 == DctTile(SignDiagInTile(t1, mask.d2))
  IN DctTile(SignDiagInTile(t2, mask.d1))

(* The tiles touch disjoint columns, so they may all be read first.        *)
Tiles(rows) ==
  LET d == Cols(rows)
  IN [t \in 1 .. CeilDiv(d, TileWidth) |->
        LET start == (t - 1) * TileWidth
            width == (IF start + TileWidth > d THEN d ELSE start + TileWidth) - start
        IN CopyTileIn(rows, start, width)]

StoreTiles(buf, tiles) ==
  IF Len(buf.rows) < 2 \/ Cols(buf.rows) = 0 THEN buf
  ELSE [rows |-> FoldLeft(LAMBDA rows, t : CopyTileOut(tiles[t], (t - 1) * TileWidth, rows),
                          buf.rows, [t \in DOMAIN tiles |-> t]),
        norms |-> buf.norms + 1]

CascadeApply(mask, buf) ==
  LET in == Tiles(buf.rows) IN [t \in DOMAIN in |-> CascadeApplyInTile(mask, in[t])]
CascadeUnapply(mask, buf) ==
  LET in == Tiles(buf.rows) IN [t \in DOMAIN in |-> CascadeUnapplyInTile(mask, in[t])]

Dct4ApplyInPlace(mask, buf) == StoreTiles(buf, CascadeApply(mask, buf))
Dct4UnapplyInPlace(mask, buf) == StoreTiles(buf, CascadeUnapply(mask, buf))

(* The bf16 variants narrow each tile as it is copied out.                 *)
NarrowTiles(tiles) == [t \in DOMAIN tiles |-> NarrowRows(tiles[t])]
Dct4ApplyInPlaceBf16(mask, buf) == StoreTiles(buf, NarrowTiles(CascadeApply(mask, buf)))
Dct4UnapplyInPlaceBf16(mask, buf) == StoreTiles(buf, NarrowTiles(CascadeUnapply(mask, buf)))

(***************************************************************************)
(* The dense mask and the family's dispatch.                               *)
(***************************************************************************)
SgemmBlis(a, b, trans) == MatMul(IF trans THEN Transposed(a) ELSE a, b)

HaarApply(mask, buf) ==
  [buf EXCEPT !.rows = IF mask.bf16 THEN MatMul(NarrowRows(mask.a), NarrowRows(@))
                       ELSE SgemmBlis(mask.a, @, FALSE)]
HaarUnapply(mask, buf) ==
  [buf EXCEPT !.rows = IF mask.bf16 THEN MatMul(Transposed(NarrowRows(mask.a)), NarrowRows(@))
                       ELSE SgemmBlis(mask.a, @, TRUE)]

FamilyApply(mask, buf, isa) ==
  CASE mask.kind = "haar" -> HaarApply(mask, buf)
    [] mask.kind = "hd3" -> Hd3ApplyInPlace(mask, buf, isa)
    [] mask.kind = "dct4" -> Dct4ApplyInPlace(mask, buf)

FamilyUnapply(mask, buf, isa) ==
  CASE mask.kind = "haar" -> HaarUnapply(mask, buf)
    [] mask.kind = "hd3" -> Hd3UnapplyInPlace(mask, buf, isa)
    [] mask.kind = "dct4" -> Dct4UnapplyInPlace(mask, buf)

(***************************************************************************)
(* A masked offload: every sequence's rows are stacked with its shield     *)
(* rows, the pad rows are zeroed, each block is masked, the engine         *)
(* multiplies all blocks at once, and the data rows of each unmasked block *)
(* are kept.                                                               *)
(***************************************************************************)
ZeroRow(d) == [c \in 1 .. d |-> 0]

StackBlock(data, shield, stackedN) ==
  [i \in 1 .. stackedN |->
     IF i <= Len(data) THEN data[i]
     ELSE IF i - Len(data) <= Len(shield) THEN shield[i - Len(data)] ELSE ZeroRow(Cols(data))]

BuildPerSequenceMasked(data, shield, masks, isa) ==
  [b \in DOMAIN data |->
     FamilyApply(masks[b], Buffer(StackBlock(data[b], shield[b], masks[b].n)), isa)]

EngineMatmul(masked, weight) == [masked EXCEPT !.rows = MatMul(@, weight)]

UnmaskPerSequence(outputs, masks, dataN, isa) ==
  [b \in DOMAIN outputs |->
     LET plain == FamilyUnapply(masks[b], outputs[b], isa)
     IN [plain EXCEPT !.rows = SubSeq(@, 1, dataN)]]

OffloadLinear(data, shield, masks, weight, isa) ==
  LET masked == BuildPerSequenceMasked(data, shield, masks, isa)
      output == [b \in DOMAIN masked |-> EngineMatmul(masked[b], weight)]
  IN UnmaskPerSequence(output, masks, Len(data[1]), isa)
=============================================================================
