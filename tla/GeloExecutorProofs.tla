------------------------- MODULE GeloExecutorProofs -------------------------
(***************************************************************************)
(* Proofs about GeloExecutor for any workers, shapes and mask kinds.       *)
(***************************************************************************)
EXTENDS GeloExecutor, FiniteSetTheorems, FunctionTheorems, SequenceTheorems, TLAPS

Fields ==
  {"kind", "perForward", "sharedA", "attested", "shield", "probes", "cached",
   "registered", "stream", "drawn", "session", "scratch", "perSeqScratch"}

IsExecutor(e) == DOMAIN e = Fields

(* Two states of an executor with the same configuration and the same      *)
(* place among the random streams.                                         *)
Alike(e, f) ==
  /\ e.kind = f.kind /\ e.perForward = f.perForward
  /\ e.probes = f.probes /\ e.stream = f.stream

(* The masks of the session were drawn from the stream. *)
MasksFrom(e, stream) == \A i \in DOMAIN e.session.masks : e.session.masks[i][1] = stream

(* A session with one mask for all rows. *)
LEMMA OpenedForAll ==
  ASSUME NEW e, IsExecutor(e), NEW shield, NEW dataN, NEW f,
         f = Open(e, shield, 1, dataN, FALSE)
  PROVE  /\ IsExecutor(f) /\ Alike(f, e) /\ Fits(f, dataN)
         /\ MasksFrom(f, e.stream)
<1> DEFINE session == [masks |-> Draw(e, 1), dataN |-> dataN,
                       size |-> MaskSize(e.kind, dataN + shield), perSequence |-> FALSE]
<1>1. IsExecutor(f) /\ Alike(f, e) /\ f.shield = shield /\ f.session = session
  BY DEF Open, IsExecutor, Fields, Alike
<1>2. Len(Draw(e, 1)) = 1 /\ \A i \in DOMAIN Draw(e, 1) : Draw(e, 1)[i][1] = e.stream
  BY DEF Draw
<1>3. /\ session.masks = Draw(e, 1) /\ session.dataN = dataN
      /\ session.size = MaskSize(e.kind, dataN + shield) /\ ~session.perSequence
  OBVIOUS
<1> HIDE DEF session
<1>4. MasksFrom(f, e.stream)
  BY <1>1, <1>2, <1>3 DEF MasksFrom
<1>5. Fits(f, dataN)
  BY <1>1, <1>2, <1>3 DEF Fits, Alike
<1> QED
  BY <1>1, <1>4, <1>5

(* A session with a mask for each sequence. *)
LEMMA OpenedForEach ==
  ASSUME NEW e, IsExecutor(e), NEW shield, NEW masks \in Nat, NEW dataN, NEW f,
         f = Open(e, shield, masks, dataN, TRUE)
  PROVE  /\ IsExecutor(f) /\ Alike(f, e) /\ Fits(f, masks * dataN)
         /\ MasksFrom(f, e.stream)
<1> DEFINE session == [masks |-> Draw(e, masks), dataN |-> dataN,
                       size |-> MaskSize(e.kind, dataN + shield), perSequence |-> TRUE]
<1>1. IsExecutor(f) /\ Alike(f, e) /\ f.shield = shield /\ f.session = session
  BY DEF Open, IsExecutor, Fields, Alike
<1>2. Len(Draw(e, masks)) = masks /\ \A i \in DOMAIN Draw(e, masks) : Draw(e, masks)[i][1] = e.stream
  BY DEF Draw
<1>3. /\ session.masks = Draw(e, masks) /\ session.dataN = dataN
      /\ session.size = MaskSize(e.kind, dataN + shield) /\ session.perSequence
  OBVIOUS
<1> HIDE DEF session
<1>4. MasksFrom(f, e.stream)
  BY <1>1, <1>2, <1>3 DEF MasksFrom
<1>5. Fits(f, masks * dataN)
  BY <1>1, <1>2, <1>3 DEF Fits, Alike
<1> QED
  BY <1>1, <1>4, <1>5

(* Ending a pass. *)
LEMMA Ended ==
  ASSUME NEW e, IsExecutor(e)
  PROVE  IsExecutor(EndForwardPass(e)) /\ Alike(EndForwardPass(e), e)
BY DEF EndForwardPass, IsExecutor, Fields, Alike

(* A buffer that returns to its pool changes nothing else. *)
LEMMA Returned ==
  ASSUME NEW e, IsExecutor(e), NEW d, NEW buf,
         NEW f \in {ReturnApplyScratch(e, d, buf), ReturnPerSeqScratch(e, d, buf)}
  PROVE  /\ IsExecutor(f) /\ Alike(f, e)
         /\ f.shield = e.shield /\ f.session = e.session
BY DEF ReturnApplyScratch, ReturnPerSeqScratch, IsExecutor, Fields, Alike

(* A bracket opens a session for the rows of its shape and draws its masks *)
(* from the stream of the executor.                                        *)
LEMMA Bracketed ==
  ASSUME NEW e, IsExecutor(e), NEW s \in Shapes, e.session = NoSession,
         NEW f, f = BeginForwardSession(e, s)
  PROVE  /\ IsExecutor(f) /\ Alike(f, e) /\ Fits(f, Rows(s))
         /\ MasksFrom(f, e.stream)
<1>1. /\ s.batch \in Nat /\ s.n \in Nat
      /\ s = Single(s.n) \/ s = PrefillBatch(s.batch, s.n) \/ s = DecodeBatch(s.batch)
  BY ShapesAssumption
<1>2. CASE ~e.perForward
  BY <1>2 DEF BeginForwardSession, NoSession, Fits, Alike, MasksFrom
<1>5. CASE e.perForward /\ s = Single(s.n)
  <2>1. s.shape = "single" /\ Rows(s) = s.n
    BY <1>1, <1>5 DEF Single, Rows
  <2>2. f = Open(e, ShieldFor(e, s.n), 1, s.n, FALSE)
    BY <1>5, <2>1 DEF BeginForwardSession, BeginForwardPass
  <2> QED
    BY <2>1, <2>2, OpenedForAll
<1>6. CASE e.perForward /\ s = PrefillBatch(s.batch, s.n)
  <2>1. s.shape = "prefill" /\ Rows(s) = s.batch * s.n
    BY <1>6 DEF PrefillBatch, Rows
  <2>2. CASE Forwards(e, "begin_prefill_pass")
    <3>1. f = Open(e, ShieldFor(e, s.n), s.batch, s.n, TRUE)
      BY <1>6, <2>1, <2>2 DEF BeginForwardSession, BeginPrefillPass
    <3> QED
      BY <1>1, <2>1, <3>1, OpenedForEach
  <2>3. CASE ~Forwards(e, "begin_prefill_pass")
    <3>1. f = Open(e, ShieldFor(e, s.batch * s.n), 1, s.batch * s.n, FALSE)
      BY <1>6, <2>1, <2>3 DEF BeginForwardSession, DefaultBeginPrefillPass, BeginForwardPass
    <3> QED
      BY <2>1, <3>1, OpenedForAll
  <2> QED
    BY <2>2, <2>3
<1>7. CASE e.perForward /\ s = DecodeBatch(s.batch)
  <2>1. s.shape = "decode" /\ Rows(s) = s.batch
    BY <1>1, <1>7 DEF DecodeBatch, Rows
  <2>2. CASE Forwards(e, "begin_decode_pass") /\ e.sharedA
    <3>1. f = Open(e, ShieldKForBatch(s.batch, ShieldK), 1, s.batch, FALSE)
      BY <1>7, <2>1, <2>2 DEF BeginForwardSession, BeginDecodePass
    <3> QED
      BY <2>1, <3>1, OpenedForAll
  <2>3. CASE Forwards(e, "begin_decode_pass") /\ ~e.sharedA
    <3>1. f = Open(e, ShieldFor(e, 1), s.batch, 1, TRUE)
      BY <1>7, <2>1, <2>3 DEF BeginForwardSession, BeginDecodePass
    <3>2. s.batch \in Nat /\ s.batch * 1 = Rows(s)
      BY <1>1, <2>1
    <3> QED
      BY <3>1, <3>2, OpenedForEach
  <2>4. CASE ~Forwards(e, "begin_decode_pass")
    <3>1. f = Open(e, ShieldFor(e, s.batch), 1, s.batch, FALSE)
      BY <1>7, <2>1, <2>4 DEF BeginForwardSession, DefaultBeginDecodePass, BeginForwardPass
    <3> QED
      BY <2>1, <3>1, OpenedForAll
  <2> QED
    BY <2>2, <2>3, <2>4
<1> QED
  BY <1>1, <1>2, <1>5, <1>6, <1>7

(* The texts of a batch have different places in it. *)
LEMMA IndexInjective ==
  ASSUME NEW texts \in SUBSET Workers
  PROVE  \A u, v \in texts : u # v => Index(texts)[u] # Index(texts)[v]
<1> DEFINE n == Cardinality(texts)
           Injective(f) == \A u, v \in texts : u # v => f[u] # f[v]
<1>1. IsFiniteSet(texts)
  BY WorkersAssumption, FS_Subset
<1>2. n \in Nat /\ ExistsBijection(1 .. n, texts)
  BY <1>1, FS_CardinalityType
<1> HIDE DEF n
<1>3. PICK g : g \in Bijection(texts, 1 .. n)
  BY <1>2, Fun_ExistsBijSymmetric DEF ExistsBijection
<1>4. g \in [texts -> 1 .. n] /\ \A u, v \in texts : g[u] = g[v] => u = v
  BY <1>3 DEF Bijection, Injection, IsInjective
<1>5. [t \in texts |-> g[t] - 1] \in [texts -> 0 .. n - 1]
  BY <1>2, <1>4
<1>6. Injective([t \in texts |-> g[t] - 1])
  BY <1>2, <1>4
<1>7. \E f \in [texts -> 0 .. n - 1] : Injective(f)
  BY <1>5, <1>6
<1> HIDE DEF Injective
<1>8. Injective(CHOOSE f \in [texts -> 0 .. n - 1] : Injective(f))
  BY <1>7
<1> QED
  BY <1>8 DEF Index, Injective, n

-----------------------------------------------------------------------------
Pass == [at : {"idle", "cloned", "open", "done", "failed"}, shape : Shapes \cup {Single(1)}]

Answers == SUBSET {"right", "wrong", "nan"}

Typed ==
  /\ IsExecutor(base) /\ base.session = NoSession
  /\ ex = [w \in Workers |-> ex[w]] /\ \A w \in Workers : IsExecutor(ex[w])
  /\ pass \in [Workers -> Pass]
  /\ answers \in [Workers -> Answers]

(* A worker between its pass and its offloads. *)
WorkerOK(w) ==
  /\ pass[w].at = "cloned" => ex[w].session = NoSession
  /\ pass[w].at = "open" => pass[w].shape \in Shapes /\ Fits(ex[w], Rows(pass[w].shape))
  /\ pass[w].at # "idle" => ex[w].probes = base.probes
  /\ pass[w].at = "idle" => answers[w] = {}
  /\ base.probes => "wrong" \notin answers[w]

(* The workers of a batch are on streams of their own, and every mask of   *)
(* the batch is from the stream of the worker that drew it.                *)
StreamsApart ==
  \A v, w \in Workers :
    v # w /\ pass[v].at # "idle" /\ pass[w].at # "idle" => ex[v].stream # ex[w].stream

MasksTraced ==
  \A u \in used : u[1] \in Workers /\ pass[u[1]].at # "idle" /\ u[2][1] = ex[u[1]].stream

IInv == Typed /\ (\A w \in Workers : WorkerOK(w)) /\ StreamsApart /\ MasksTraced

(* A step of one worker of the batch, whose executor becomes f and whose   *)
(* pass becomes p.                                                         *)
StepOf(w, f, p) ==
  /\ base' = base
  /\ ex' = [ex EXCEPT ![w] = f] /\ IsExecutor(f) /\ Alike(f, ex[w])
  /\ pass' = [pass EXCEPT ![w] = p] /\ p \in Pass /\ p.at \in {"open", "done", "failed"}
  /\ p.at = "open" => p.shape \in Shapes /\ Fits(f, Rows(p.shape))
  /\ \E new \in Answers :
       /\ answers' = [answers EXCEPT ![w] = @ \cup new]
       /\ base.probes => "wrong" \notin new
  /\ \A u \in used' : u \in used \/ (u[1] = w /\ u[2][1] = ex[w].stream)

LEMMA WorkerStep ==
  ASSUME IInv, NEW w \in Workers, pass[w].at # "idle", NEW f, NEW p, StepOf(w, f, p)
  PROVE  IInv'
<1>1. /\ Typed /\ StreamsApart /\ MasksTraced
      /\ \A v \in Workers : WorkerOK(v)
  BY DEF IInv
<1>9. PICK new \in Answers :
        /\ answers' = [answers EXCEPT ![w] = @ \cup new]
        /\ base.probes => "wrong" \notin new
  BY DEF StepOf
<1>10. /\ base' = base /\ ex' = [ex EXCEPT ![w] = f] /\ pass' = [pass EXCEPT ![w] = p]
       /\ IsExecutor(f) /\ p \in Pass
  BY DEF StepOf
<1>11. ex = [v \in Workers |-> ex[v]] /\ pass \in [Workers -> Pass] /\ answers \in [Workers -> Answers]
  BY <1>1 DEF Typed
<1>12. answers[w] \cup new \in Answers
  BY <1>9, <1>11 DEF Answers
<1>2. /\ ex'[w] = f /\ pass'[w] = p /\ answers'[w] = answers[w] \cup new
      /\ \A v \in Workers \ {w} : ex'[v] = ex[v] /\ pass'[v] = pass[v] /\ answers'[v] = answers[v]
  <2>1. DOMAIN ex = Workers
    BY <1>11
  <2> QED
    BY <1>9, <1>10, <1>11, <2>1
<1>3. f.stream = ex[w].stream /\ f.probes = ex[w].probes
  BY DEF Alike, StepOf
<1>4. Typed'
  <2>1. ex' = [v \in Workers |-> ex'[v]]
    BY <1>1, <1>10 DEF Typed
  <2>2. \A v \in Workers : IsExecutor(ex'[v])
    BY <1>1, <1>2, <1>10 DEF Typed
  <2>3. pass' \in [Workers -> Pass] /\ answers' \in [Workers -> Answers]
    BY <1>9, <1>10, <1>11, <1>12
  <2> QED
    BY <1>1, <1>10, <2>1, <2>2, <2>3 DEF Typed, IsExecutor
<1>5. WorkerOK(w)'
  <2>1. WorkerOK(w)
    BY <1>1
  <2>2. base.probes => "wrong" \notin answers'[w]
    <3>1. base.probes => "wrong" \notin answers[w] /\ "wrong" \notin new
      BY <1>9, <2>1 DEF WorkerOK
    <3> QED
      BY <1>2, <3>1
  <2>3. p.at \in {"open", "done", "failed"} /\ (p.at = "open" => p.shape \in Shapes /\ Fits(f, Rows(p.shape)))
    BY DEF StepOf
  <2> QED
    BY <1>2, <1>3, <1>10, <2>1, <2>2, <2>3 DEF WorkerOK, Fits, Rows
<1>6. ASSUME NEW v \in Workers \ {w}
      PROVE  WorkerOK(v)'
  BY <1>1, <1>2, <1>10 DEF WorkerOK, Fits, Rows
<1>7. StreamsApart'
  BY <1>1, <1>2, <1>3 DEF StreamsApart
<1>8. MasksTraced'
  <2>1. \A u \in used' : u \in used \/ (u[1] = w /\ u[2][1] = ex[w].stream)
    BY DEF StepOf
  <2>2. pass'[w].at # "idle"
    BY <1>2 DEF StepOf
  <2> QED
    BY <1>1, <1>2, <1>3, <2>1, <2>2 DEF MasksTraced
<1> QED
  BY <1>4, <1>5, <1>6, <1>7, <1>8 DEF IInv

LEMMA BeginKeepsInv ==
  ASSUME IInv, NEW w \in Workers, NEW s \in Shapes, Begin(w, s)
  PROVE  IInv'
<1> DEFINE f == BeginForwardSession(ex[w], s)
           p == [at |-> "open", shape |-> s]
<1>1. Typed /\ WorkerOK(w) /\ pass[w].at = "cloned" /\ IsExecutor(ex[w]) /\ ex[w].session = NoSession
  BY DEF IInv, Typed, WorkerOK, Begin
<1>2. IsExecutor(f) /\ Alike(f, ex[w]) /\ Fits(f, Rows(s)) /\ MasksFrom(f, ex[w].stream)
  BY <1>1, Bracketed
<1>3. ex' = [ex EXCEPT ![w] = f] /\ base' = base
  BY DEF Begin
<1>4. p \in Pass /\ pass' = [pass EXCEPT ![w] = p] /\ p.at = "open" /\ p.shape = s
  BY DEF Begin, Pass
<1> HIDE DEF f, p
<1>5. ex'[w] = f
  BY <1>1, <1>3 DEF Typed
<1>6. ASSUME NEW u \in used'
      PROVE  u \in used \/ (u[1] = w /\ u[2][1] = ex[w].stream)
  <2>1. CASE u \in {<<w, m>> : m \in {f.session.masks[i] : i \in DOMAIN f.session.masks}}
    <3>1. PICK i \in DOMAIN f.session.masks : u = <<w, f.session.masks[i]>>
      BY <2>1
    <3>2. f.session.masks[i][1] = ex[w].stream
      BY <1>2 DEF MasksFrom
    <3> QED
      BY <3>1, <3>2
  <2>2. used' = used \cup {<<w, m>> : m \in {f.session.masks[i] : i \in DOMAIN f.session.masks}}
    BY <1>5 DEF Begin
  <2> QED
    BY <2>1, <2>2
<1>7. {} \in Answers /\ answers' = [answers EXCEPT ![w] = @ \cup {}]
  BY <1>1 DEF Begin, Typed, Answers
<1>8. StepOf(w, f, p)
  BY <1>2, <1>3, <1>4, <1>6, <1>7 DEF StepOf
<1> QED
  BY <1>1, <1>8, WorkerStep

LEMMA AnswerKeepsInv ==
  ASSUME IInv, NEW w \in Workers, pass[w].at = "open",
         NEW e, Alike(e, ex[w]),
         NEW pooled, IsExecutor(pooled), Alike(pooled, ex[w]),
         pooled.session = ex[w].session, pooled.shield = ex[w].shield,
         NEW handles, NEW buf, Answer(w, e, handles, buf, pooled), IsExecutor(e),
         \A u \in used' : u \in used \/ (u[1] = w /\ u[2][1] = ex[w].stream)
  PROVE  IInv'
<1>1. /\ Typed /\ WorkerOK(w) /\ IsExecutor(ex[w]) /\ pass[w] \in Pass
      /\ pass[w].shape \in Shapes /\ Fits(ex[w], Rows(pass[w].shape))
      /\ ex[w].probes = base.probes /\ base' = base
  BY DEF IInv, Typed, WorkerOK, Answer
<1>2. ASSUME NEW replies \in [DOMAIN handles -> {"right", "wrong", "nan"}],
             Verified(e, handles, replies),
             answers' = [answers EXCEPT ![w] = @ \cup {replies[i] : i \in DOMAIN replies}],
             ex' = [ex EXCEPT ![w] = pooled], pass' = pass
      PROVE  IInv'
  <2> DEFINE new == {replies[i] : i \in DOMAIN replies}
  <2>1. new \in Answers
    BY DEF Answers
  <2>2. base.probes => "wrong" \notin new
    <3>1. e.probes = base.probes
      BY <1>1 DEF Alike
    <3> QED
      BY <1>2, <3>1 DEF Verified, ProbeAccepts
  <2>3. Fits(pooled, Rows(pass[w].shape))
    BY <1>1 DEF Fits, Alike
  <2>4. pass' = [pass EXCEPT ![w] = pass[w]]
    BY <1>1, <1>2 DEF Typed
  <2>5. answers' = [answers EXCEPT ![w] = @ \cup new]
    BY <1>2
  <2> HIDE DEF new
  <2>6. StepOf(w, pooled, pass[w])
    BY <1>1, <1>2, <2>1, <2>2, <2>3, <2>4, <2>5 DEF StepOf
  <2> QED
    BY <2>6, WorkerStep
<1>3. ASSUME ex' = [ex EXCEPT ![w] = EndForwardPass(e)],
             pass' = [pass EXCEPT ![w].at = "failed"], answers' = answers
      PROVE  IInv'
  <2> DEFINE f == EndForwardPass(e)
             p == [at |-> "failed", shape |-> pass[w].shape]
  <2>1. IsExecutor(f) /\ Alike(f, ex[w])
    BY Ended DEF Alike
  <2>2. p \in Pass /\ p.at = "failed" /\ pass' = [pass EXCEPT ![w] = p]
    <3>1. pass' = [pass EXCEPT ![w] = [pass[w] EXCEPT !.at = "failed"]]
      BY <1>3
    <3>2. [pass[w] EXCEPT !.at = "failed"] = p
      BY <1>1 DEF Pass
    <3>3. p \in Pass
      BY <1>1 DEF Pass
    <3> QED
      BY <3>1, <3>2, <3>3
  <2>3. {} \in Answers /\ answers' = [answers EXCEPT ![w] = @ \cup {}]
    BY <1>1, <1>3 DEF Typed, Answers
  <2>4. ex' = [ex EXCEPT ![w] = f]
    BY <1>3
  <2> HIDE DEF f, p
  <2>5. StepOf(w, f, p)
    BY <1>1, <2>1, <2>2, <2>3, <2>4 DEF StepOf
  <2> QED
    BY <2>5, WorkerStep
<1> QED
  BY <1>2, <1>3 DEF Answer

LEMMA OffloadKeepsInv ==
  ASSUME IInv, NEW w \in Workers, NEW handles, Offload(w, handles)
  PROVE  IInv'
<1>1. pass[w].at = "open" /\ IsExecutor(ex[w])
  BY DEF IInv, Typed, Offload
<1> DEFINE drawn == IF ex[w].perForward THEN ex[w] ELSE [ex[w] EXCEPT !.drawn = @ + 1]
           d == Width(handles[1])
<1>2. IsExecutor(drawn) /\ Alike(drawn, ex[w]) /\ drawn.session = ex[w].session /\ drawn.shield = ex[w].shield
  BY <1>1 DEF IsExecutor, Fields, Alike
<1>3. CASE OffloadSingle(w, handles)
  <2> DEFINE buf == StackSingle(drawn, d, Rows(pass[w].shape), count)
             pooled == ReturnApplyScratch(drawn, d, Masked(buf, count))
  <2>1. Answer(w, drawn, handles, buf, pooled)
    BY <1>3 DEF OffloadSingle
  <2>2. ASSUME NEW u \in used'
        PROVE  u \in used \/ (u[1] = w /\ u[2][1] = ex[w].stream)
    <3>1. Draw(ex[w], 1)[1] = <<ex[w].stream, ex[w].drawn + 1>>
      BY DEF Draw
    <3>2. used' = used \/ used' = used \cup {<<w, Draw(ex[w], 1)[1]>>}
      BY <1>3 DEF OffloadSingle
    <3> QED
      BY <3>1, <3>2
  <2> HIDE DEF drawn, d, buf
  <2>3. /\ IsExecutor(pooled) /\ Alike(pooled, drawn)
        /\ pooled.shield = drawn.shield /\ pooled.session = drawn.session
    BY <1>2, Returned
  <2> HIDE DEF pooled
  <2>4. Alike(pooled, ex[w]) /\ pooled.session = ex[w].session /\ pooled.shield = ex[w].shield
    BY <1>2, <2>3 DEF Alike
  <2> QED
    BY <1>1, <1>2, <2>1, <2>2, <2>3, <2>4, AnswerKeepsInv
<1>4. CASE OffloadPerSequence(w, handles)
  <2> DEFINE buf == StackPerSequence(ex[w], d, count)
             pooled == ReturnPerSeqScratch(ex[w], d, Masked(buf, count))
  <2>1. Answer(w, ex[w], handles, buf, pooled) /\ used' = used
    BY <1>4 DEF OffloadPerSequence
  <2> HIDE DEF d, buf
  <2>2. /\ IsExecutor(pooled) /\ Alike(pooled, ex[w])
        /\ pooled.shield = ex[w].shield /\ pooled.session = ex[w].session
    BY <1>1, Returned
  <2>3. Alike(ex[w], ex[w])
    BY DEF Alike
  <2> HIDE DEF pooled
  <2> QED
    BY <1>1, <2>1, <2>2, <2>3, AnswerKeepsInv
<1> QED
  BY <1>3, <1>4 DEF Offload

LEMMA EndKeepsInv ==
  ASSUME IInv, NEW w \in Workers, End(w)
  PROVE  IInv'
<1> DEFINE f == EndForwardPass(ex[w])
           p == [at |-> "done", shape |-> pass[w].shape]
<1>1. Typed /\ IsExecutor(ex[w]) /\ pass[w] \in Pass /\ pass[w].at = "open"
  BY DEF IInv, Typed, End
<1>2. IsExecutor(f) /\ Alike(f, ex[w])
  BY <1>1, Ended
<1>3. ex' = [ex EXCEPT ![w] = f] /\ base' = base /\ used' = used
  BY DEF End
<1>4. p \in Pass /\ p.at = "done" /\ pass' = [pass EXCEPT ![w] = p]
  <2>1. pass' = [pass EXCEPT ![w] = [pass[w] EXCEPT !.at = "done"]]
    BY DEF End
  <2>2. [pass[w] EXCEPT !.at = "done"] = p
    BY <1>1 DEF Pass
  <2>3. p \in Pass
    BY <1>1 DEF Pass
  <2> QED
    BY <2>1, <2>2, <2>3
<1>5. {} \in Answers /\ answers' = [answers EXCEPT ![w] = @ \cup {}]
  BY <1>1 DEF Typed, End, Answers
<1> HIDE DEF f, p
<1>6. StepOf(w, f, p)
  BY <1>2, <1>3, <1>4, <1>5 DEF StepOf
<1> QED
  BY <1>1, <1>6, WorkerStep

(* The clones of a batch are on streams of their own. *)
LEMMA ClonesApart ==
  ASSUME IsExecutor(base), base.session = NoSession, NEW texts \in SUBSET Workers
  PROVE  /\ \A w \in texts : /\ IsExecutor(CloneFor(texts, w))
                            /\ CloneFor(texts, w).session = NoSession
                            /\ CloneFor(texts, w).probes = base.probes
         /\ \A v, w \in texts : v # w => CloneFor(texts, v).stream # CloneFor(texts, w).stream
<1>1. /\ IsExecutor(CloneExecutor(base)) /\ CloneExecutor(base).session = NoSession
      /\ CloneExecutor(base).probes = base.probes
  BY DEF CloneExecutor, IsExecutor, Fields
<1>2. CASE Cardinality(texts) = 1
  <2>1. IsFiniteSet(texts)
    BY WorkersAssumption, FS_Subset
  <2>2. \E x : texts = {x}
    BY <1>2, <2>1, FS_Singleton
  <2>3. \A w \in texts : CloneFor(texts, w) = CloneExecutor(base)
    BY <1>2 DEF CloneFor
  <2> QED
    BY <1>1, <2>2, <2>3
<1>3. CASE Cardinality(texts) # 1
  <2> DEFINE c == CloneExecutor(base)
  <2>1. \A x : /\ IsExecutor(SetRngStream(c, x)) /\ SetRngStream(c, x).session = NoSession
               /\ SetRngStream(c, x).probes = base.probes /\ SetRngStream(c, x).stream = x
    <3> HIDE DEF c
    <3>1. IsExecutor(c) /\ c.session = NoSession /\ c.probes = base.probes
      BY <1>1 DEF c
    <3> QED
      BY <3>1 DEF SetRngStream, IsExecutor, Fields
  <2>2. \A w \in texts : CloneFor(texts, w) = SetRngStream(c, Index(texts)[w])
    BY <1>3 DEF CloneFor
  <2> HIDE DEF c
  <2>3. \A v, w \in texts : v # w => Index(texts)[v] # Index(texts)[w]
    BY IndexInjective
  <2> QED
    BY <2>1, <2>2, <2>3
<1> QED
  BY <1>2, <1>3

LEMMA EmbedKeepsInv ==
  ASSUME IInv, NEW texts \in SUBSET Workers, Embed(texts)
  PROVE  IInv'
<1>1. Typed /\ \A w \in Workers : pass[w].at = "idle"
  BY DEF IInv, Embed, Resting
<1>2. /\ base' = base /\ used' = {} /\ answers' = [w \in Workers |-> {}]
      /\ ex' = [w \in Workers |-> IF w \in texts THEN CloneFor(texts, w) ELSE ex[w]]
      /\ pass' = [w \in Workers |-> IF w \in texts THEN [Idle EXCEPT !.at = "cloned"] ELSE Idle]
  BY DEF Embed
<1>3. IsExecutor(base) /\ base.session = NoSession
  BY <1>1 DEF Typed
<1>4. /\ \A w \in texts : /\ IsExecutor(CloneFor(texts, w)) /\ CloneFor(texts, w).session = NoSession
                         /\ CloneFor(texts, w).probes = base.probes
      /\ \A v, w \in texts : v # w => CloneFor(texts, v).stream # CloneFor(texts, w).stream
  BY <1>3, ClonesApart
<1>5. /\ Idle \in Pass /\ [Idle EXCEPT !.at = "cloned"] \in Pass
      /\ Idle.at = "idle" /\ [Idle EXCEPT !.at = "cloned"].at = "cloned"
  BY DEF Idle, Pass
<1>6. \A w \in Workers : IF w \in texts THEN pass'[w].at = "cloned" /\ ex'[w] = CloneFor(texts, w)
                                        ELSE pass'[w].at = "idle" /\ ex'[w] = ex[w]
  BY <1>2, <1>5
<1>7. Typed'
  <2>1. ex' = [w \in Workers |-> ex'[w]]
    BY <1>2
  <2>2. \A w \in Workers : IsExecutor(ex'[w])
    BY <1>1, <1>4, <1>6 DEF Typed
  <2>3. pass' \in [Workers -> Pass] /\ answers' \in [Workers -> Answers]
    BY <1>2, <1>5 DEF Answers
  <2> QED
    BY <1>2, <1>3, <2>1, <2>2, <2>3 DEF Typed, IsExecutor
<1>8. \A w \in Workers : WorkerOK(w)'
  BY <1>2, <1>4, <1>6 DEF WorkerOK
<1>9. StreamsApart' /\ MasksTraced'
  BY <1>2, <1>4, <1>6 DEF StreamsApart, MasksTraced
<1> QED
  BY <1>7, <1>8, <1>9 DEF IInv

LEMMA CollectKeepsInv ==
  ASSUME IInv, Collect
  PROVE  IInv'
<1>1. Typed
  BY DEF IInv
<1>2. /\ base' = base /\ used' = {} /\ answers' = [w \in Workers |-> {}]
      /\ ex' = [w \in Workers |-> base] /\ pass' = [w \in Workers |-> Idle]
  BY DEF Collect
<1>3. Idle \in Pass /\ Idle.at = "idle"
  BY DEF Idle, Pass
<1>4. Typed'
  BY <1>1, <1>2, <1>3 DEF Typed, IsExecutor, Answers
<1>5. \A w \in Workers : WorkerOK(w)'
  BY <1>2, <1>3 DEF WorkerOK
<1>6. StreamsApart' /\ MasksTraced'
  BY <1>2, <1>3 DEF StreamsApart, MasksTraced
<1> QED
  BY <1>4, <1>5, <1>6 DEF IInv

(* The base changes only between batches. *)
LEMMA BaseKeepsInv ==
  ASSUME IInv, (\E bf16 \in BOOLEAN : Provision(bf16)) \/ SetVerifyProbes
  PROVE  IInv'
<1>1. Typed /\ StreamsApart /\ MasksTraced /\ \A w \in Workers : WorkerOK(w) /\ pass[w].at = "idle"
  BY DEF IInv, Provision, SetVerifyProbes, Resting
<1>2. UNCHANGED <<ex, pass, used, answers>>
  BY DEF Provision, SetVerifyProbes
<1>3. IsExecutor(base') /\ base'.session = NoSession
  <2>1. IsExecutor(base) /\ base.session = NoSession
    BY <1>1 DEF Typed
  <2> QED
    BY <2>1 DEF IsExecutor, Fields, Provision, SetVerifyProbes
<1>4. Typed'
  BY <1>1, <1>2, <1>3 DEF Typed, IsExecutor
<1>5. \A w \in Workers : WorkerOK(w)'
  BY <1>1, <1>2 DEF WorkerOK
<1>6. StreamsApart' /\ MasksTraced'
  BY <1>1, <1>2 DEF StreamsApart, MasksTraced
<1> QED
  BY <1>4, <1>5, <1>6 DEF IInv

LEMMA Initially == Init => IInv
<1> SUFFICES ASSUME Init PROVE IInv
  OBVIOUS
<1>1. IsExecutor(base) /\ base.session = NoSession
  BY DEF Init, NewExecutor, IsExecutor, Fields
<1>2. Idle \in Pass /\ Idle.at = "idle"
  BY DEF Idle, Pass
<1>3. /\ used = {} /\ answers = [w \in Workers |-> {}]
      /\ ex = [w \in Workers |-> base] /\ pass = [w \in Workers |-> Idle]
  BY DEF Init
<1>4. Typed
  BY <1>1, <1>2, <1>3 DEF Typed, Answers
<1>5. \A w \in Workers : WorkerOK(w)
  BY <1>2, <1>3 DEF WorkerOK
<1>6. StreamsApart /\ MasksTraced
  BY <1>2, <1>3 DEF StreamsApart, MasksTraced
<1> QED
  BY <1>4, <1>5, <1>6 DEF IInv

LEMMA StepKeepsInv == IInv /\ [Next]_vars => IInv'
<1> SUFFICES ASSUME IInv, [Next]_vars PROVE IInv'
  OBVIOUS
<1>1. CASE (\E bf16 \in BOOLEAN : Provision(bf16)) \/ SetVerifyProbes
  BY <1>1, BaseKeepsInv
<1>2. CASE \E texts \in SUBSET Workers : texts # {} /\ Embed(texts)
  BY <1>2, EmbedKeepsInv
<1>3. ASSUME NEW w \in Workers, NEW s \in Shapes, Begin(w, s)
      PROVE  IInv'
  BY <1>3, BeginKeepsInv
<1>4. ASSUME NEW w \in Workers, NEW h \in {"O", "Down"}, OffloadLinear(w, h)
      PROVE  IInv'
  BY <1>4, OffloadKeepsInv DEF OffloadLinear
<1>5. ASSUME NEW w \in Workers, OffloadQkv(w) \/ OffloadLinearMany(w)
      PROVE  IInv'
  BY <1>5, OffloadKeepsInv DEF OffloadQkv, OffloadLinearMany
<1>6. ASSUME NEW w \in Workers, End(w)
      PROVE  IInv'
  BY <1>6, EndKeepsInv
<1>7. CASE Collect
  BY <1>7, CollectKeepsInv
<1>8. CASE UNCHANGED vars
  <2>1. /\ Typed' /\ StreamsApart' /\ MasksTraced'
    BY <1>8 DEF vars, IInv, Typed, StreamsApart, MasksTraced, IsExecutor
  <2>2. \A w \in Workers : WorkerOK(w)'
    BY <1>8 DEF vars, IInv, WorkerOK, Fits, Rows
  <2> QED
    BY <2>1, <2>2 DEF IInv
<1> QED
  BY <1>1, <1>2, <1>3, <1>4, <1>5, <1>6, <1>7, <1>8 DEF Next

-----------------------------------------------------------------------------
(* What the engine is sent.  The rows of an operand are where the buffers  *)
(* and the masks say they are, which takes their sizes to be numbers.      *)

LEMMA PowerOfTwo ==
  ASSUME NEW n \in Nat
  PROVE  2 ^ n \in Nat /\ 2 ^ n >= n
<1> DEFINE N == 1 .. n
<1>1. IsFiniteSet(N) /\ Cardinality(N) = n
  BY FS_Interval
<1>2. IsFiniteSet(SUBSET N) /\ Cardinality(SUBSET N) = 2 ^ n
  BY <1>1, FS_SUBSET
<1>3. [i \in N |-> {i}] \in Injection(N, SUBSET N)
  BY DEF Injection, IsInjective
<1>4. Cardinality(N) <= Cardinality(SUBSET N)
  BY <1>2, <1>3, FS_Injection
<1>5. Cardinality(SUBSET N) \in Nat
  BY <1>2, FS_CardinalityType
<1> QED
  BY <1>1, <1>2, <1>4, <1>5

LEMMA PowerIsNat ==
  ASSUME NEW n \in Nat
  PROVE  NextPowerOfTwo(n) \in Nat
<1> DEFINE Big == {i \in Nat : 2 ^ i >= n}
<1>1. \A i \in Nat : 2 ^ i \in Nat
  BY PowerOfTwo
<1>2. n \in Big
  BY PowerOfTwo
<1>3. PICK m \in Big : \A j \in Big : ~(j < m)
  <2>1. \E x \in Big : \A y \in Big : ~(<<y, x>> \in OpToRel(<, Nat))
    BY <1>2, NatLessThanWellFounded, WFMin, Zenon
  <2> QED
    BY <2>1 DEF OpToRel
<1>4. m \in 0 .. n
  BY <1>2, <1>3
<1>5. \A j \in 0 .. m - 1 : 2 ^ j < n
  <2> SUFFICES ASSUME NEW j \in 0 .. m - 1 PROVE 2 ^ j < n
    OBVIOUS
  <2>1. j \in Nat /\ j < m /\ j \notin Big
    BY <1>3
  <2>2. 2 ^ j \in Nat
    BY <1>1, <2>1
  <2> QED
    BY <2>1, <2>2
<1> DEFINE Least(i) == 2 ^ i >= n /\ \A j \in 0 .. i - 1 : 2 ^ j < n
<1>6. Least(m)
  BY <1>3, <1>5
<1> HIDE DEF Least
<1>7. (CHOOSE i \in 0 .. n : Least(i)) \in 0 .. n
  BY <1>4, <1>6
<1>8. (CHOOSE i \in 0 .. n : Least(i)) \in Nat
  BY <1>7
<1>9. 2 ^ (CHOOSE i \in 0 .. n : Least(i)) \in Nat
  BY <1>1, <1>8
<1> QED
  BY <1>9 DEF NextPowerOfTwo, Least

LEMMA MaskSizeIsNat ==
  ASSUME NEW kind, NEW s \in Nat
  PROVE  MaskSize(kind, s) \in Nat
BY PowerIsNat DEF MaskSize, AtLeast

LEMMA ShieldIsNat ==
  ASSUME NEW e, NEW n \in Nat
  PROVE  ShieldFor(e, n) \in Nat /\ ShieldKForBatch(n, ShieldK) \in Nat
<1>1. ShieldK \in Nat /\ SmallShieldK \in Nat
  BY ShieldAssumption
<1>2. NextPowerOfTwo(n + ShieldK) \in Nat
  BY <1>1, PowerIsNat
<1> QED
  BY <1>1, <1>2 DEF ShieldFor, ShieldKForBatch, AtLeast

(* An executor whose numbers are numbers and whose pools of blocks hold    *)
(* buffers.                                                                *)
Sized(e) ==
  /\ e.shield \in Nat
  /\ Len(e.session.masks) \in Nat
  /\ e.session.size \in Nat
  /\ e.perSeqScratch \in [Widths -> Seq(Nat)]

LEMMA SizedPools == EmptyPool \in [Widths -> Seq(Nat)] /\ Len(NoSession.masks) \in Nat /\ NoSession.size \in Nat
BY DEF EmptyPool, NoSession

LEMMA SizedOpen ==
  ASSUME NEW e, IsExecutor(e), Sized(e), NEW shield \in Nat, NEW masks \in Nat,
         NEW dataN \in Nat, NEW perSequence
  PROVE  Sized(Open(e, shield, masks, dataN, perSequence))
<1> DEFINE f == Open(e, shield, masks, dataN, perSequence)
           session == [masks |-> Draw(e, masks), dataN |-> dataN,
                       size |-> MaskSize(e.kind, dataN + shield), perSequence |-> perSequence]
<1>1. f.shield = shield /\ f.session = session /\ f.perSeqScratch = EmptyPool
  BY DEF Open, IsExecutor, Fields
<1>2. Len(Draw(e, masks)) = masks
  BY DEF Draw
<1>3. MaskSize(e.kind, dataN + shield) \in Nat
  BY MaskSizeIsNat
<1>4. session.masks = Draw(e, masks) /\ session.size = MaskSize(e.kind, dataN + shield)
  OBVIOUS
<1> HIDE DEF f, session
<1> QED
  BY <1>1, <1>2, <1>3, <1>4, SizedPools DEF Sized, f

LEMMA SizedBracket ==
  ASSUME NEW e, IsExecutor(e), Sized(e), NEW s \in Shapes
  PROVE  Sized(BeginForwardSession(e, s))
<1>1. /\ s.batch \in Nat /\ s.n \in Nat
      /\ s = Single(s.n) \/ s = PrefillBatch(s.batch, s.n) \/ s = DecodeBatch(s.batch)
  BY ShapesAssumption
<1>2. s.shape \in {"single", "prefill", "decode"}
  BY <1>1 DEF Single, PrefillBatch, DecodeBatch
<1>3. s.batch * s.n \in Nat
  BY <1>1
<1>4. \A n \in Nat, m \in Nat, per \in BOOLEAN, d \in Nat :
         /\ Sized(Open(e, ShieldFor(e, n), m, d, per))
         /\ Sized(Open(e, ShieldKForBatch(n, ShieldK), m, d, per))
  BY SizedOpen, ShieldIsNat
<1> QED
  BY <1>1, <1>2, <1>3, <1>4
     DEF BeginForwardSession, BeginForwardPass, BeginPrefillPass, BeginDecodePass,
         DefaultBeginPrefillPass, DefaultBeginDecodePass

LEMMA SizedEnd ==
  ASSUME NEW e, IsExecutor(e), Sized(e)
  PROVE  Sized(EndForwardPass(e)) /\ Sized(CloneExecutor(e)) /\ \A n : Sized(SetRngStream(e, n))
<1>1. Sized(EndForwardPass(e)) /\ Sized(CloneExecutor(e))
  BY SizedPools DEF EndForwardPass, CloneExecutor, Sized, IsExecutor, Fields
<1>2. \A n : Sized(SetRngStream(e, n))
  BY DEF SetRngStream, Sized, IsExecutor, Fields
<1> QED
  BY <1>1, <1>2

LEMMA SizedReturn ==
  ASSUME NEW e, IsExecutor(e), Sized(e), NEW d \in Widths, NEW buf
  PROVE  /\ Sized(ReturnApplyScratch(e, d, buf))
         /\ buf \in Seq(Nat) => Sized(ReturnPerSeqScratch(e, d, buf))
<1>1. Sized(ReturnApplyScratch(e, d, buf))
  BY DEF ReturnApplyScratch, Sized, IsExecutor, Fields
<1>2. ASSUME buf \in Seq(Nat)
      PROVE  Sized(ReturnPerSeqScratch(e, d, buf))
  <2>1. [e.perSeqScratch EXCEPT ![d] = buf] \in [Widths -> Seq(Nat)]
    BY <1>2 DEF Sized
  <2>2. CASE e.perForward /\ e.kind # "Haar"
    <3> DEFINE f == [e EXCEPT !.perSeqScratch[d] = buf]
    <3>1. /\ f.shield = e.shield /\ f.session = e.session
          /\ f.perSeqScratch = [e.perSeqScratch EXCEPT ![d] = buf]
      BY DEF IsExecutor, Fields
    <3>2. ReturnPerSeqScratch(e, d, buf) = f
      BY <2>2 DEF ReturnPerSeqScratch
    <3> HIDE DEF f
    <3> QED
      BY <2>1, <3>1, <3>2 DEF Sized
  <2> QED
    BY <2>2 DEF ReturnPerSeqScratch
<1> QED
  BY <1>1, <1>2

(* The rows of a buffer are those of this offload and zeros. *)
FreshRows(buf, c) == \A i \in DOMAIN buf : buf[i] \in {0, c}

LEMMA SingleIsFresh ==
  ASSUME NEW e, NEW d, NEW n, NEW c
  PROVE  FreshRows(StackSingle(e, d, n, c), c)
BY DEF FreshRows, StackSingle, Populate

(* Where row r of b blocks of m rows lies. *)
LEMMA BlockOfRow ==
  ASSUME NEW b \in Nat, NEW m \in Nat, NEW r \in 1 .. b * m
  PROVE  /\ 1 + ((r - 1) \div m) \in 1 .. b
         /\ 1 + ((r - 1) % m) \in 1 .. m
<1>1. b * m \in Nat /\ r \in Nat /\ 1 <= r /\ r <= b * m
  OBVIOUS
<1>2. m # 0
  BY <1>1
<1>3. m >= 1
  BY <1>2
<1> DEFINE q == (r - 1) \div m
           k == (r - 1) % m
<1>4. r - 1 \in Nat
  BY <1>1
<1>5. q \in Int /\ k \in 0 .. m - 1 /\ r - 1 = m * q + k
  BY <1>3, <1>4
<1> HIDE DEF q, k
<1>6. q >= 0
  <2> SUFFICES ASSUME q <= -1 PROVE FALSE
    BY <1>5
  <2>1. m * q <= -m
    BY <1>3, <1>5
  <2> QED
    BY <1>4, <1>5, <2>1
<1>7. q < b
  <2> SUFFICES ASSUME q >= b PROVE FALSE
    BY <1>5
  <2>1. m * q >= b * m
    BY <1>3, <1>5
  <2> QED
    BY <1>1, <1>5, <2>1
<1> QED
  BY <1>5, <1>6, <1>7 DEF q, k

LEMMA BlockBounds ==
  ASSUME NEW b \in Nat, NEW m \in Nat, NEW i \in 1 .. b
  PROVE  /\ (i - 1) * m + 1 \in Int /\ i * m \in Int
         /\ i * m - ((i - 1) * m + 1) + 1 = m
         /\ 1 <= (i - 1) * m + 1 /\ i * m <= b * m
<1>1. i * m \in Nat /\ (i - 1) * m \in Nat /\ (b - i) * m \in Nat
  <2>1. i \in Nat /\ i - 1 \in Nat /\ b - i \in Nat
    OBVIOUS
  <2> QED
    BY <2>1
<1>2. (i - 1) * m = i * m - m /\ (b - i) * m = b * m - i * m
  OBVIOUS
<1>3. b * m \in Nat
  OBVIOUS
<1> QED
  BY <1>1, <1>2, <1>3

LEMMA PerSequenceIsFresh ==
  ASSUME NEW e, Sized(e), NEW d \in Widths, NEW c \in Nat
  PROVE  /\ FreshRows(StackPerSequence(e, d, c), c)
         /\ Masked(StackPerSequence(e, d, c), c) \in Seq(Nat)
<1> DEFINE m == e.session.size
           b == Len(e.session.masks)
           pooled == FromPool(e.perSeqScratch[d], b * m)
           block(i) == Populate(SubSeq(pooled, (i - 1) * m + 1, i * m), c, e.session.dataN + e.shield)
           buf == StackPerSequence(e, d, c)
<1>1. m \in Nat /\ b \in Nat /\ e.perSeqScratch[d] \in Seq(Nat)
  BY DEF Sized
<1>2. b * m \in Nat
  BY <1>1
<1>3. pooled \in Seq(Nat) /\ Len(pooled) = b * m
  <2>1. [i \in 1 .. b * m |-> 0] \in Seq(Nat) /\ Len([i \in 1 .. b * m |-> 0]) = b * m
    BY <1>2
  <2> QED
    BY <1>1, <2>1 DEF FromPool
<1>4. buf = [r \in 1 .. b * m |-> block(1 + ((r - 1) \div m))[1 + ((r - 1) % m)]]
  BY DEF StackPerSequence
<1>5. ASSUME NEW i \in 1 .. b, NEW k \in 1 .. m
      PROVE  block(i)[k] \in {0, c}
  <2> DEFINE lo == (i - 1) * m + 1
             hi == i * m
  <2>1. lo \in Int /\ hi \in Int /\ hi - lo + 1 = m /\ 1 <= lo /\ hi <= b * m
    <3> HIDE DEF m, b
    <3> QED
      BY <1>1, BlockBounds
  <2> HIDE DEF lo, hi, pooled, m, b
  <2>2. \A j \in lo .. hi : pooled[j] \in Nat
    BY <1>2, <1>3, <2>1
  <2>3. SubSeq(pooled, lo, hi) \in Seq(Nat) /\ Len(SubSeq(pooled, lo, hi)) = m
    <3>1. /\ SubSeq(pooled, lo, hi) \in Seq(Nat)
          /\ Len(SubSeq(pooled, lo, hi)) = IF lo <= hi THEN hi - lo + 1 ELSE 0
      BY <2>1, <2>2, SubSeqProperties
    <3>2. m >= 1
      BY <1>1, <1>5
    <3> QED
      BY <2>1, <3>1, <3>2
  <2>4. k \in DOMAIN SubSeq(pooled, lo, hi)
    BY <1>1, <1>5, <2>3
  <2> HIDE DEF lo, hi
  <2>5. Populate(SubSeq(pooled, lo, hi), c, e.session.dataN + e.shield)[k] \in {0, c}
    BY <2>4 DEF Populate
  <2> QED
    BY <2>5 DEF lo, hi
<1>6. \A r \in 1 .. b * m : 1 + ((r - 1) \div m) \in 1 .. b /\ 1 + ((r - 1) % m) \in 1 .. m
  BY <1>1, BlockOfRow
<1>7. DOMAIN buf = 1 .. b * m
  BY <1>4
<1> HIDE DEF block, m, b
<1>8. \A r \in 1 .. b * m : buf[r] \in {0, c}
  BY <1>4, <1>5, <1>6
<1> HIDE DEF buf
<1>9. Masked(buf, c) \in Seq(Nat)
  BY <1>2, <1>7 DEF Masked
<1> QED
  BY <1>7, <1>8, <1>9 DEF FreshRows, buf

Fresh ==
  /\ count \in Nat
  /\ count = 0 => operand = <<>>
  /\ OperandIsFresh
  /\ Sized(base) /\ \A w \in Workers : Sized(ex[w])

(* An offload sends a fresh operand, and what it leaves in the pools is    *)
(* as long as the buffer it took.                                          *)
LEMMA OffloadKeepsFresh ==
  ASSUME IInv, Fresh, NEW w \in Workers, NEW handles, Offload(w, handles)
  PROVE  Fresh'
<1> DEFINE d == Width(handles[1])
<1>1. /\ IsExecutor(ex[w]) /\ Sized(ex[w]) /\ d \in Widths /\ count \in Nat
      /\ ex = [v \in Workers |-> ex[v]]
  BY DEF IInv, Typed, Fresh, Width, Widths
<1> HIDE DEF d
<1>2. ASSUME NEW e, IsExecutor(e), Sized(e), NEW buf, FreshRows(buf, count),
             NEW pooled, Sized(pooled), Answer(w, e, handles, buf, pooled)
      PROVE  Fresh'
  <2>1. Sized(EndForwardPass(e))
    BY <1>2, SizedEnd
  <2>2. /\ count' = count + 1 /\ operand' = buf /\ base' = base
        /\ \/ ex' = [ex EXCEPT ![w] = pooled]
           \/ ex' = [ex EXCEPT ![w] = EndForwardPass(e)]
    BY <1>2 DEF Answer
  <2>3. \A v \in Workers : Sized(ex'[v])
    BY <1>1, <1>2, <2>1, <2>2 DEF Fresh
  <2>4. count' \in Nat /\ count' # 0 /\ count' - 1 = count
    BY <1>1, <2>2
  <2>5. OperandIsFresh'
    BY <1>2, <2>2, <2>4 DEF OperandIsFresh, FreshRows
  <2>6. Sized(base)'
    BY <2>2 DEF Fresh, Sized
  <2> QED
    BY <2>3, <2>4, <2>5, <2>6 DEF Fresh, Sized
<1>3. CASE OffloadSingle(w, handles)
  <2> DEFINE drawn == IF ex[w].perForward THEN ex[w] ELSE [ex[w] EXCEPT !.drawn = @ + 1]
             buf == StackSingle(drawn, d, Rows(pass[w].shape), count)
             pooled == ReturnApplyScratch(drawn, d, Masked(buf, count))
  <2>1. Answer(w, drawn, handles, buf, pooled)
    BY <1>3 DEF OffloadSingle, d
  <2>2. IsExecutor(drawn) /\ Sized(drawn)
    BY <1>1 DEF IsExecutor, Fields, Sized
  <2>3. FreshRows(buf, count)
    BY SingleIsFresh
  <2> HIDE DEF drawn, buf
  <2>4. Sized(pooled)
    BY <1>1, <2>2, SizedReturn
  <2> HIDE DEF pooled
  <2> QED
    BY <1>2, <2>1, <2>2, <2>3, <2>4
<1>4. CASE OffloadPerSequence(w, handles)
  <2> DEFINE buf == StackPerSequence(ex[w], d, count)
             pooled == ReturnPerSeqScratch(ex[w], d, Masked(buf, count))
  <2>1. Answer(w, ex[w], handles, buf, pooled)
    BY <1>4 DEF OffloadPerSequence, d
  <2>2. FreshRows(buf, count) /\ Masked(buf, count) \in Seq(Nat)
    BY <1>1, PerSequenceIsFresh
  <2> HIDE DEF buf
  <2>3. Sized(pooled)
    BY <1>1, <2>2, SizedReturn
  <2> HIDE DEF pooled
  <2> QED
    BY <1>1, <1>2, <2>1, <2>2, <2>3
<1> QED
  BY <1>3, <1>4 DEF Offload

LEMMA FreshInitially == Init => Fresh
<1> SUFFICES ASSUME Init PROVE Fresh
  OBVIOUS
<1>1. Sized(base)
  <2>1. base.shield \in Nat /\ base.session = NoSession /\ base.perSeqScratch = EmptyPool
    BY ShieldAssumption DEF Init, NewExecutor
  <2> QED
    BY <2>1, SizedPools DEF Sized
<1>2. \A w \in Workers : Sized(ex[w])
  BY <1>1 DEF Init
<1>3. count = 0 /\ operand = <<>> /\ DOMAIN <<>> = {}
  BY DEF Init
<1> QED
  BY <1>1, <1>2, <1>3 DEF Fresh, OperandIsFresh

LEMMA StepKeepsFresh == IInv /\ Fresh /\ [Next]_vars => Fresh'
<1> SUFFICES ASSUME IInv, Fresh, [Next]_vars PROVE Fresh'
  OBVIOUS
<1>0. Typed /\ IsExecutor(base) /\ Sized(base) /\ \A w \in Workers : IsExecutor(ex[w]) /\ Sized(ex[w])
  BY DEF IInv, Typed, Fresh
<1>1. CASE (\E bf16 \in BOOLEAN : Provision(bf16)) \/ SetVerifyProbes
  <2>1. UNCHANGED <<ex, count, operand>>
    BY <1>1 DEF Provision, SetVerifyProbes
  <2>2. Sized(base)'
    BY <1>0, <1>1 DEF Provision, SetVerifyProbes, IsExecutor, Fields, Sized
  <2>3. \A w \in Workers : Sized(ex[w])'
    BY <1>0, <2>1 DEF Sized
  <2> QED
    BY <2>1, <2>2, <2>3 DEF Fresh, OperandIsFresh
<1>2. CASE \E texts \in SUBSET Workers : texts # {} /\ Embed(texts)
  <2>1. PICK texts \in SUBSET Workers : Embed(texts)
    BY <1>2
  <2>2. count = 0 /\ count' = 1 /\ operand' = <<>> /\ base' = base
    BY <2>1 DEF Embed, Fresh
  <2>3. \A w \in Workers : Sized(CloneFor(texts, w))
    <3>1. IsExecutor(CloneExecutor(base)) /\ Sized(CloneExecutor(base))
      BY <1>0, SizedEnd DEF CloneExecutor, IsExecutor, Fields
    <3> QED
      BY <3>1, SizedEnd DEF CloneFor
  <2>4. \A w \in Workers : Sized(ex'[w])
    BY <1>0, <2>1, <2>3 DEF Embed
  <2>5. OperandIsFresh' /\ Sized(base)'
    BY <1>0, <2>2 DEF OperandIsFresh, Sized
  <2> QED
    BY <2>2, <2>4, <2>5 DEF Fresh, Sized
<1>3. ASSUME NEW w \in Workers, NEW s \in Shapes, Begin(w, s)
      PROVE  Fresh'
  <2>1. Sized(BeginForwardSession(ex[w], s))
    BY <1>0, SizedBracket
  <2>2. \A v \in Workers : Sized(ex'[v])
    BY <1>0, <1>3, <2>1 DEF Begin, Typed
  <2>3. UNCHANGED <<base, count, operand>>
    BY <1>3 DEF Begin
  <2> QED
    BY <1>0, <2>2, <2>3 DEF Fresh, OperandIsFresh, Sized
<1>4. ASSUME NEW w \in Workers, NEW handles, Offload(w, handles)
      PROVE  Fresh'
  BY <1>4, OffloadKeepsFresh
<1>5. ASSUME NEW w \in Workers, End(w)
      PROVE  Fresh'
  <2>1. Sized(EndForwardPass(ex[w]))
    BY <1>0, SizedEnd
  <2>2. \A v \in Workers : Sized(ex'[v])
    BY <1>0, <1>5, <2>1 DEF End, Typed
  <2>3. UNCHANGED <<base, count, operand>>
    BY <1>5 DEF End
  <2> QED
    BY <1>0, <2>2, <2>3 DEF Fresh, OperandIsFresh, Sized
<1>6. CASE Collect
  BY <1>0, <1>6 DEF Collect, Fresh, OperandIsFresh, Sized
<1>7. CASE UNCHANGED vars
  BY <1>7 DEF vars, Fresh, OperandIsFresh, Sized
<1> QED
  BY <1>1, <1>2, <1>3, <1>4, <1>5, <1>6, <1>7 DEF Next, OffloadLinear, OffloadQkv, OffloadLinearMany

-----------------------------------------------------------------------------
(* The mask of a session is for the rows the pass offloads, for every      *)
(* shape, mask kind and mode, behind the attested wrapper too              *)
(* (begin_forward_session and the row checks of build_shielded_and_apply). *)
THEOREM SessionsFit == Spec => []PassFitsSession
<1>1. IInv => PassFitsSession
  BY DEF IInv, WorkerOK, PassFitsSession
<1> QED
  BY <1>1, Initially, StepKeepsInv, PTL DEF Spec

(* No two texts of a batch are masked alike (set_rng_stream in embed). *)
THEOREM MasksDiffer == Spec => []MasksDistinct
<1>1. IInv => MasksDistinct
  BY DEF IInv, StreamsApart, MasksTraced, MasksDistinct
<1> QED
  BY <1>1, Initially, StepKeepsInv, PTL DEF Spec

(* With the probes on, a product verify_offload finds wrong is not         *)
(* returned, however many batches and offloads there are.                  *)
THEOREM WrongProductsRefused == Spec => []VerifiedNotWrong
<1>1. IInv => VerifiedNotWrong
  BY DEF IInv, WorkerOK, VerifiedNotWrong
<1> QED
  BY <1>1, Initially, StepKeepsInv, PTL DEF Spec

(* What the engine is sent holds the rows of the offload at hand and       *)
(* zeros, whatever buffers the pools of apply_scratch and                  *)
(* per_seq_scratch handed back (build_shielded_and_apply,                  *)
(* build_per_sequence_masked).                                             *)
THEOREM OperandsFresh == Spec => []OperandIsFresh
<1>1. Init => IInv /\ Fresh
  BY Initially, FreshInitially
<1>2. IInv /\ Fresh /\ [Next]_vars => IInv' /\ Fresh'
  BY StepKeepsInv, StepKeepsFresh
<1>3. Fresh => OperandIsFresh
  BY DEF Fresh
<1> QED
  BY <1>1, <1>2, <1>3, PTL DEF Spec
=============================================================================
