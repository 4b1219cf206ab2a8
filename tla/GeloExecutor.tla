----------------------------- MODULE GeloExecutor -----------------------------
(***************************************************************************)
(* InProcessTrustedExecutor (crates/gelo-protocol, sim.rs) as the          *)
(* embedders drive it: a base executor takes the weights, every text of a  *)
(* batch gets a clone moved to a random stream of its own, and each clone  *)
(* brackets its forward pass with begin and end and offloads linear maps   *)
(* in between.  Matrices are abstracted to which rows they hold, masks to  *)
(* the place in the random stream they were drawn from, and an answer of   *)
(* the engine to whether it is right, wrong or not a number.               *)
(***************************************************************************)
EXTENDS Naturals, Sequences, FiniteSets

CONSTANTS
  Workers,      \* clones of the executor, one for each text of a batch
  Shapes,       \* forward passes a worker may run, each a ForwardSessionShape
  Kinds,        \* MaskKinds the executor may be configured with
  ShieldK,      \* shield rows of a normal pass (8)
  SmallShieldK, \* shield rows when a pass has one row (15)
  MaxOffloads   \* bound on the offloads of one batch

ASSUME ShieldAssumption == ShieldK \in Nat \ {0} /\ SmallShieldK \in Nat

(* The ForwardSessionShapes. *)
Single(n) == [n |-> n, shape |-> "single", batch |-> 1]
PrefillBatch(b, n) == [n |-> n, shape |-> "prefill", batch |-> b]
DecodeBatch(b) == [n |-> 1, shape |-> "decode", batch |-> b]

ASSUME WorkersAssumption == IsFiniteSet(Workers)
ASSUME ShapesAssumption ==
  \A s \in Shapes :
    /\ s.batch \in Nat /\ s.n \in Nat
    /\ \/ s = Single(s.n)
       \/ s = PrefillBatch(s.batch, s.n)
       \/ s = DecodeBatch(s.batch)

Weights == {"Q", "K", "V", "O", "Gate", "Up", "Down"}

(* Widths of the operands: Down reads the intermediate activations. *)
Width(handle) == IF handle = "Down" THEN "intermediate" ELSE "hidden"
Widths == {"hidden", "intermediate"}

VARIABLES
  base,     \* the executor the embedder owns; it is only ever cloned
  ex,       \* ex[w]: the clone worker w uses
  pass,     \* pass[w]: the forward pass of worker w, and how far it is
  count,    \* number of operands built in this batch
  operand,  \* what the engine was sent last: the rows, by the offload they are from
  used,     \* the masks of this batch, with the worker that drew them
  answers   \* answers[w]: what the offloads of worker w returned

vars == <<base, ex, pass, count, operand, used, answers>>

-----------------------------------------------------------------------------
(* Shapes of masks and shields. *)

NextPowerOfTwo(n) ==
  2 ^ (CHOOSE i \in 0 .. n : 2 ^ i >= n /\ \A j \in 0 .. i - 1 : 2 ^ j < n)
AtLeast(n, lo) == IF n < lo THEN lo ELSE n

ShieldKForBatch(n, kBase) ==
  LET p == NextPowerOfTwo(n + kBase) IN AtLeast(p - n, kBase)

(* Auto takes HD3 where rounding up to a power of two costs at most 8/5. *)
ResolveMaskKind(kind, s) ==
  IF kind # "Auto" THEN kind
  ELSE IF 5 * AtLeast(NextPowerOfTwo(s), 2) <= 8 * s THEN "Hd3" ELSE "Dct4"

MaskSize(kind, s) ==
  IF ResolveMaskKind(kind, s) = "Hd3" THEN AtLeast(NextPowerOfTwo(s), 2) ELSE s

-----------------------------------------------------------------------------
(* The executor's state. *)

NoSession == [masks |-> <<>>, dataN |-> 0, size |-> 0, perSequence |-> FALSE]
EmptyPool == [d \in Widths |-> <<>>]

NewExecutor(kind, perForward, sharedA, attested) ==
  [kind |-> kind, perForward |-> perForward, sharedA |-> sharedA, attested |-> attested,
   shield |-> IF perForward THEN ShieldK ELSE 0, probes |-> FALSE, cached |-> {},
   registered |-> {}, stream |-> 0, drawn |-> 0,
   session |-> NoSession, scratch |-> EmptyPool, perSeqScratch |-> EmptyPool]

(* Clone leaves the session and the pools behind and keeps the place in    *)
(* the random stream.                                                      *)
CloneExecutor(e) ==
  [e EXCEPT !.session = NoSession, !.scratch = EmptyPool, !.perSeqScratch = EmptyPool]

(* What SnpTrustedExecutor, the wrapper that issues attestation evidence,  *)
(* passes on to the executor it wraps.  Every other call is answered by    *)
(* the default bodies of TrustedExecutor.                                  *)
Forwarded ==
  {"begin_forward_pass", "end_forward_pass", "provision_weight", "offload_linear",
   "offload_qkv", "offload_linear_many", "set_rng_stream", "offload_attention_qkt"}

Forwards(e, method) == ~e.attested \/ method \in Forwarded

(* Mutant: the clones of a batch stay on the stream of the base.           *)
SetNoStream(e, stream) == e

SetRngStream(e, stream) == [e EXCEPT !.stream = stream]

(* The next n masks of the stream. *)
Draw(e, n) == [i \in 1 .. n |-> <<e.stream, e.drawn + i>>]

ShieldFor(e, n) == IF n <= 1 THEN SmallShieldK ELSE ShieldK

Open(e, shield, masks, dataN, perSequence) ==
  [e EXCEPT !.shield = shield,
            !.drawn = @ + masks,
            !.session = [masks |-> Draw(e, masks), dataN |-> dataN,
                         size |-> MaskSize(e.kind, dataN + shield),
                         perSequence |-> perSequence],
            !.scratch = EmptyPool, !.perSeqScratch = EmptyPool]

BeginForwardPass(e, n) == Open(e, ShieldFor(e, n), 1, n, FALSE)

BeginPrefillPass(e, b, n) == Open(e, ShieldFor(e, n), b, n, TRUE)

(* Mutant: the shared mask of a decode step is sized for one sequence.     *)
BeginDecodePassForOne(e, b) == Open(e, ShieldFor(e, 1), 1, 1, FALSE)

BeginDecodePass(e, b) ==
  IF e.sharedA THEN Open(e, ShieldKForBatch(b, ShieldK), 1, b, FALSE)
               ELSE Open(e, ShieldFor(e, 1), b, 1, TRUE)

(* The default brackets: one pass over the rows of all sequences. *)
DefaultBeginPrefillPass(e, b, n) == BeginForwardPass(e, b * n)
DefaultBeginDecodePass(e, b) == BeginForwardPass(e, b)

(* In per-offload mode the brackets do nothing. *)
BeginForwardSession(e, s) ==
  IF ~e.perForward THEN e
  ELSE CASE s.shape = "single"  -> BeginForwardPass(e, s.n)
         [] s.shape = "prefill" /\ Forwards(e, "begin_prefill_pass") ->
              BeginPrefillPass(e, s.batch, s.n)
         [] s.shape = "prefill" /\ ~Forwards(e, "begin_prefill_pass") ->
              DefaultBeginPrefillPass(e, s.batch, s.n)
         [] s.shape = "decode" /\ Forwards(e, "begin_decode_pass") ->
              BeginDecodePass(e, s.batch)
         [] s.shape = "decode" /\ ~Forwards(e, "begin_decode_pass") ->
              DefaultBeginDecodePass(e, s.batch)

EndForwardPass(e) ==
  [e EXCEPT !.session = NoSession, !.scratch = EmptyPool, !.perSeqScratch = EmptyPool]

-----------------------------------------------------------------------------
(* Operands.  A row is the number of the offload that wrote it, 0 for a    *)
(* row of zeros.                                                           *)

FromPool(pool, rows) == IF Len(pool) = rows THEN pool ELSE [i \in 1 .. rows |-> 0]

(* Mutant: the rows past the shield are left as the pool returned them.    *)
PopulateFilledOnly(buf, c, filled) == [i \in DOMAIN buf |-> IF i <= filled THEN c ELSE buf[i]]

(* The data rows, then the shield, then zeros up to the mask's size.  Where *)
(* the mask is no larger than that, nothing is left to clear.               *)
Populate(buf, c, filled) ==
  [i \in DOMAIN buf |-> IF i <= filled THEN c ELSE 0]

(* build_shielded_and_apply, with a session (a pooled buffer) or without.  *)
StackSingle(e, d, n, c) ==
  LET rows == MaskSize(e.kind, n + e.shield)
  IN  IF e.perForward THEN Populate(FromPool(e.scratch[d], rows), c, n + e.shield)
                      ELSE Populate([i \in 1 .. rows |-> 0], c, n + e.shield)

(* build_per_sequence_masked: one block of rows for each sequence. *)
StackPerSequence(e, d, c) ==
  LET s == e.session
      b == Len(s.masks)
      pooled == FromPool(e.perSeqScratch[d], b * s.size)
      block(i) == Populate(SubSeq(pooled, (i - 1) * s.size + 1, i * s.size), c, s.dataN + e.shield)
  IN  [r \in 1 .. b * s.size |-> block(1 + ((r - 1) \div s.size))[1 + ((r - 1) % s.size)]]

(* Masking mixes the rows of the buffer, which goes back to the pool. *)
Masked(buf, c) == [i \in DOMAIN buf |-> c]

ReturnApplyScratch(e, d, buf) ==
  IF e.perForward /\ e.shield > 0 /\ e.kind # "Haar" THEN [e EXCEPT !.scratch[d] = buf] ELSE e

ReturnPerSeqScratch(e, d, buf) ==
  IF e.perForward /\ e.kind # "Haar" THEN [e EXCEPT !.perSeqScratch[d] = buf] ELSE e

(* What verify_offload accepts: a wrong product shows in a probe, but a    *)
(* difference that is not a number is not greater than the tolerance.      *)
ProbeAccepts(answer) == answer # "wrong"

(* Mutant: only the first product of an offload is probed. *)
VerifiedFirst(e, handles, replies) ==
  ~e.probes \/ (handles[1] \in e.cached /\ ProbeAccepts(replies[1]))

Verified(e, handles, replies) ==
  ~e.probes \/ \A i \in DOMAIN handles : handles[i] \in e.cached /\ ProbeAccepts(replies[i])

-----------------------------------------------------------------------------
(* The embedder's batch. *)

Idle == [at |-> "idle", shape |-> Single(1)]

Init ==
  /\ \E kind \in Kinds, perForward \in BOOLEAN, sharedA \in BOOLEAN,
        attested \in BOOLEAN :
       base = NewExecutor(kind, perForward, sharedA, attested)
  /\ ex = [w \in Workers |-> base]
  /\ pass = [w \in Workers |-> Idle]
  /\ count = 0
  /\ operand = <<>>
  /\ used = {}
  /\ answers = [w \in Workers |-> {}]

Resting == \A w \in Workers : pass[w].at = "idle"

(* provision_into registers all weights; the f32 path keeps a copy of each  *)
(* for the probes if these are on, the bf16 path never does.               *)
Provision(bf16) ==
  /\ Resting /\ base.registered = {}
  /\ base' = [base EXCEPT !.registered = Weights,
                          !.cached = IF base.probes /\ ~bf16 THEN Weights ELSE {}]
  /\ UNCHANGED <<ex, pass, count, operand, used, answers>>

SetVerifyProbes ==
  /\ Resting /\ ~base.probes
  /\ base' = [base EXCEPT !.probes = TRUE]
  /\ UNCHANGED <<ex, pass, count, operand, used, answers>>

(* The texts of a batch, in some order. *)
Index(texts) ==
  CHOOSE f \in [texts -> 0 .. Cardinality(texts) - 1] :
    \A u, v \in texts : u # v => f[u] # f[v]

(* A clone for each text, the i-th moved to stream i - 1.  One text is     *)
(* served by a clone that stays on the base's stream.                      *)
CloneFor(texts, w) ==
  IF Cardinality(texts) = 1 THEN CloneExecutor(base)
  ELSE SetRngStream(CloneExecutor(base), Index(texts)[w])

Embed(texts) ==
  /\ Resting /\ count = 0
  /\ ex' = [w \in Workers |-> IF w \in texts THEN CloneFor(texts, w) ELSE ex[w]]
  /\ pass' = [w \in Workers |-> IF w \in texts THEN [Idle EXCEPT !.at = "cloned"] ELSE Idle]
  /\ used' = {}
  /\ answers' = [w \in Workers |-> {}]
  /\ count' = 1
  /\ UNCHANGED <<base, operand>>

Begin(w, s) ==
  /\ pass[w].at = "cloned"
  /\ ex' = [ex EXCEPT ![w] = BeginForwardSession(@, s)]
  /\ pass' = [pass EXCEPT ![w] = [at |-> "open", shape |-> s]]
  /\ used' = used \cup {<<w, m>> : m \in {ex'[w].session.masks[i] : i \in DOMAIN ex'[w].session.masks}}
  /\ UNCHANGED <<base, count, operand, answers>>

(* Offloads of worker w have the rows of its pass.  The executor panics    *)
(* where its session is not for these rows; PassFitsSession says it never  *)
(* comes to that.                                                          *)
Rows(s) == s.batch * s.n

Fits(e, n) ==
  \/ ~e.perForward
  \/ e.session.perSequence /\ n = Len(e.session.masks) * e.session.dataN
  \/ /\ ~e.session.perSequence
     /\ e.session.dataN = n
     /\ e.session.size = MaskSize(e.kind, n + e.shield)

(* One operand for all handles; the engine's replies may differ.  A reply  *)
(* the probes refuse, a weight they have no copy of, or an engine error    *)
(* ends the pass, and the buffer is dropped.                               *)
Answer(w, e, handles, buf, pooled) ==
  /\ count <= MaxOffloads
  /\ count' = count + 1
  /\ operand' = buf
  /\ \/ \E replies \in [DOMAIN handles -> {"right", "wrong", "nan"}] :
          /\ \A i \in DOMAIN handles : handles[i] \in e.registered
          /\ Verified(e, handles, replies)
          /\ answers' = [answers EXCEPT ![w] = @ \cup {replies[i] : i \in DOMAIN replies}]
          /\ ex' = [ex EXCEPT ![w] = pooled]
          /\ UNCHANGED pass
     \/ /\ ex' = [ex EXCEPT ![w] = EndForwardPass(e)]
        /\ pass' = [pass EXCEPT ![w].at = "failed"]
        /\ UNCHANGED answers
  /\ UNCHANGED base

OffloadSingle(w, handles) ==
  LET drawn == IF ex[w].perForward THEN ex[w] ELSE [ex[w] EXCEPT !.drawn = @ + 1]
      d == Width(handles[1])
      buf == StackSingle(drawn, d, Rows(pass[w].shape), count)
  IN  /\ ~ex[w].session.perSequence
      /\ used' = IF ex[w].perForward THEN used ELSE used \cup {<<w, Draw(ex[w], 1)[1]>>}
      /\ Answer(w, drawn, handles, buf, ReturnApplyScratch(drawn, d, Masked(buf, count)))

OffloadPerSequence(w, handles) ==
  LET d == Width(handles[1])
      buf == StackPerSequence(ex[w], d, count)
  IN  /\ ex[w].session.perSequence
      /\ UNCHANGED used
      /\ Answer(w, ex[w], handles, buf, ReturnPerSeqScratch(ex[w], d, Masked(buf, count)))

Offload(w, handles) ==
  /\ pass[w].at = "open" /\ Fits(ex[w], Rows(pass[w].shape))
  /\ OffloadSingle(w, handles) \/ OffloadPerSequence(w, handles)

OffloadLinear(w, handle) == Offload(w, <<handle>>)
OffloadQkv(w) == Offload(w, <<"Q", "K", "V">>)
OffloadLinearMany(w) == Offload(w, <<"Gate", "Up">>)

End(w) ==
  /\ pass[w].at = "open"
  /\ ex' = [ex EXCEPT ![w] = EndForwardPass(@)]
  /\ pass' = [pass EXCEPT ![w].at = "done"]
  /\ UNCHANGED <<base, count, operand, used, answers>>

(* The batch is over when every text has been embedded or has failed. *)
Collect ==
  /\ ~Resting /\ \A w \in Workers : pass[w].at \in {"idle", "done", "failed"}
  /\ pass' = [w \in Workers |-> Idle]
  /\ count' = 0
  /\ operand' = <<>>
  /\ used' = {}
  /\ answers' = [w \in Workers |-> {}]
  /\ ex' = [w \in Workers |-> base]
  /\ UNCHANGED base

Next ==
  \/ \E bf16 \in BOOLEAN : Provision(bf16)
  \/ SetVerifyProbes
  \/ \E texts \in SUBSET Workers : texts # {} /\ Embed(texts)
  \/ \E w \in Workers :
       \/ \E s \in Shapes : Begin(w, s)
       \/ \E h \in {"O", "Down"} : OffloadLinear(w, h)
       \/ OffloadQkv(w) \/ OffloadLinearMany(w) \/ End(w)
  \/ Collect

Spec == Init /\ [][Next]_vars

-----------------------------------------------------------------------------
(* Properties. *)

(* What the engine is sent holds the rows of the offload it is sent for and *)
(* zeros, and nothing an earlier offload left in a pooled buffer: a pooled  *)
(* buffer comes back masked, with its padding rows no longer zero.          *)
OperandIsFresh ==
  \A i \in DOMAIN operand : operand[i] \in {0, count - 1}

(* The mask of a session is for the rows the pass offloads, with the shield *)
(* it is given, whatever passes came before: the panics of the offloads     *)
(* about a session for another shape are out of the embedders' reach, behind  *)
(* the attested wrapper and its default brackets too.                       *)
PassFitsSession ==
  \A w \in Workers : pass[w].at = "open" => Fits(ex[w], Rows(pass[w].shape))

(* set_rng_stream is there so that the per-text mask differs across the     *)
(* batch: no two workers of a batch draw the same mask.                     *)
MasksDistinct ==
  \A u, v \in used : u[2] = v[2] => u[1] = v[1]

(* With the probes on, no product the engine got wrong is returned.         *)
VerifiedNotWrong ==
  base.probes => \A w \in Workers : "wrong" \notin answers[w]

===============================================================================
