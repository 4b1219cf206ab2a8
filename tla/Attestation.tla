------------------------------ MODULE Attestation ------------------------------
(***************************************************************************)
(* gelo-tee-sev-snp and the runner's use of it: the runner boots in a      *)
(* mode, composes its identities, issues a report for every request, and a *)
(* relying party verifies it.                                              *)
(*                                                                         *)
(* Identities are sequences of symbols.  A byte b is <<b>>; a digest is     *)
(* one symbol, the term of what was hashed, as all digests are of one      *)
(* length, and like almost every digest it is not UTF-8.  A signature is   *)
(* the pair of the key and what was signed.                                *)
(***************************************************************************)
EXTENDS Integers, SequencesExt

Ok(v) == [ok |-> TRUE, value |-> v]
Err(e) == [ok |-> FALSE, value |-> e]

Sha256(bytes) == <<<<"sha256", bytes>>>>
FromUtf8Lossy(bytes) ==
  FlattenSeq([i \in DOMAIN bytes |-> IF Len(bytes[i]) = 2 THEN <<<<239>>, <<191>>, <<189>>>> ELSE <<bytes[i]>>])

-----------------------------------------------------------------------------
(* REPORT_DATA.  A nonce is a set of at most one byte sequence.            *)
BytesOf(nonce) == IF nonce = {} THEN <<>> ELSE CHOOSE n \in nonce : TRUE

(* Mutant: the session nonce is left out of the hash. *)
BuildWithoutNonce(model, scheme, nonce) == [model |-> Sha256(model), scheme |-> Sha256(scheme)]

Build(model, scheme, nonce) ==
  [model |-> Sha256(model), scheme |-> Sha256(scheme \o BytesOf(nonce))]

ComposeSchemeIdentity(cfgBytes, serviceDigest) == Sha256(cfgBytes \o <<<<0>>>> \o serviceDigest)

-----------------------------------------------------------------------------
(* Certificates and issuers.                                               *)
Sign(key, content) == [by |-> key, content |-> content]
CertBody(cert) == [key |-> cert.key, not_before |-> cert.not_before, not_after |-> cert.not_after]
Certificate(key, issuer, from, until) ==
  LET body == [key |-> key, not_before |-> from, not_after |-> until]
  IN [key |-> key, not_before |-> from, not_after |-> until, pem |-> TRUE,
      alg |-> "ecdsa-with-SHA384", sig |-> Sign(issuer, body)]

Ark == Certificate("ark", "ark", 0, 9)
Ask == Certificate("ask", "ark", 0, 9)
Vcek == Certificate("vcek", "ask", 2, 5)

(* The measurable prefix is everything but the signature; the little-      *)
(* endian packing of (r, s) is undone by the verifier's library.           *)
Measurable(report) == [data |-> report.data, measurement |-> report.measurement, policy |-> report.policy]

Report(body, key) ==
  [data |-> body.data, measurement |-> body.measurement, policy |-> body.policy,
   parses |-> TRUE, sig |-> Sign(key, body)]

MockIssue(data) ==
  Ok([report |-> Report([data |-> data, measurement |-> 0, policy |-> 0], "vcek"), vcek_cert |-> Vcek])

HardwareNew(env) == IF env.device THEN Ok([hardware |-> TRUE]) ELSE Err("opening /dev/sev-guest")

HardwareIssue(env, data) ==
  LET vceks == {k \in DOMAIN env.certs : env.certs[k].type = "VCEK"}
      vcek == env.certs[CHOOSE k \in vceks : \A l \in vceks : k <= l]
  IN IF env.poisoned THEN Err("mutex poisoned")
     ELSE IF ~env.ioctl THEN Err("SNP_GET_EXT_REPORT failed")
     ELSE IF env.certs = <<>> THEN Err("no cert table")
     ELSE IF vceks = {} THEN Err("no VCEK entry")
     ELSE Ok([report |-> Report([data |-> data, measurement |-> 7, policy |-> 3], "chip"), vcek_cert |-> vcek.cert])

-----------------------------------------------------------------------------
(* Boot.                                                                   *)
ModeFromEnv(env) ==
  CASE env.snp_mode = {} -> Err("unset")
    [] env.snp_mode = {"production"} -> IF env.device THEN Ok("production") ELSE Err("missing device")
    [] env.snp_mode = {"mock"} -> Ok("mock")
    [] OTHER -> Err("unrecognised")

ForMode(mode, env) ==
  IF mode = "production"
  THEN IF "snp" \notin env.features THEN Err("built without snp") ELSE HardwareNew(env)
  ELSE IF "mock" \notin env.features THEN Err("built without mock") ELSE Ok([hardware |-> FALSE])

IssueBy(issuer, env, data) == IF issuer.hardware THEN HardwareIssue(env, data) ELSE MockIssue(data)

DefaultConfig == [model |-> <<<<1>>>>, scheme |-> <<<<2>>>>, decoder |-> {}, embedder |-> {}, parses |-> TRUE]
LoadConfig(file) ==
  IF file = {} THEN Ok(DefaultConfig)
  ELSE LET cfg == CHOOSE c \in file : TRUE IN IF cfg.parses THEN Ok(cfg) ELSE Err("parsing config")

(* Extraction is loaded when both of its paths are set.                    *)
Run(env, file) ==
  LET mode == ModeFromEnv(env)
      cfg == LoadConfig(file)
      issuer == ForMode(mode.value, env)
  IN IF ~mode.ok THEN mode
     ELSE IF ~cfg.ok THEN cfg
     ELSE IF ~issuer.ok THEN issuer
     ELSE Ok([issuer |-> issuer.value, model |-> cfg.value.model,
              scheme |-> ComposeSchemeIdentity(cfg.value.scheme, env.service_digest),
              extraction |-> cfg.value.decoder # {} /\ cfg.value.embedder # {}])

ExtractStatus(state) == IF state.extraction THEN 200 ELSE 503

(* The strings are what a JSON answer can carry of the identities.         *)
BuildEvidence(state, env) ==
  LET issued == IssueBy(state.issuer, env, Build(state.model, state.scheme, {}))
  IN IF ~issued.ok THEN issued
     ELSE Ok([model_identity |-> FromUtf8Lossy(state.model), scheme_identity |-> FromUtf8Lossy(state.scheme),
              report |-> {issued.value.report}, vcek_cert |-> {issued.value.vcek_cert}])

AttestRoute(state, env) ==
  LET evidence == BuildEvidence(state, env)
  IN [status |-> IF evidence.ok THEN 200 ELSE 500, evidence |-> evidence]

(* SnpTrustedExecutor::evidence binds a caller's nonce as well.            *)
ExecutorEvidence(state, env, nonce) == IssueBy(state.issuer, env, Build(state.model, state.scheme, nonce))

-----------------------------------------------------------------------------
(* Verification.                                                           *)
VerifySignedBy(parent, child) ==
  child.alg = "ecdsa-with-SHA384" /\ child.sig = Sign(parent.key, CertBody(child))

VerifyMockChain(ark, ask, vcek) ==
  /\ ark.pem /\ ask.pem /\ vcek.pem
  /\ VerifySignedBy(ark, ark) /\ VerifySignedBy(ark, ask) /\ VerifySignedBy(ask, vcek)

ValidityWindow(cert) == cert.not_before .. cert.not_after

ValidateChainAndWindow(verifier, vcek) ==
  IF "mock" \notin verifier.features \/ ~verifier.use_mock_chain THEN Err("unsupported production chain")
  ELSE IF ~VerifyMockChain(verifier.ark, verifier.ask, vcek) THEN Err("chain")
  ELSE IF verifier.now \notin ValidityWindow(vcek) THEN Err("expired")
  ELSE Ok(vcek)

VerifyReportSignature(report, vcek) == report.sig = Sign(vcek.key, Measurable(report))

Verify(verifier, report, vcek, binding) ==
  LET chain == ValidateChainAndWindow(verifier, vcek)
      expected == Build(binding.model, binding.scheme, binding.nonce)
  IN IF ~report.parses THEN Err("parse")
     ELSE IF ~chain.ok THEN chain
     ELSE IF ~VerifyReportSignature(report, vcek) THEN Err("signature")
     ELSE IF report.data # expected THEN Err("report data")
     ELSE IF verifier.measurement \notin {{}, {report.measurement}} THEN Err("measurement")
     ELSE IF verifier.policy \notin {{}, {report.policy}} THEN Err("policy")
     ELSE IF verifier.model_id \notin {{}, {report.data.model}} THEN Err("model id")
     ELSE Ok(report)

(* SnpVerifierAdapter takes the identities from the evidence itself.       *)
AdapterVerify(verifier, evidence) ==
  IF evidence.report = {} THEN Err("report missing")
  ELSE IF evidence.vcek_cert = {} THEN Err("vcek_cert missing")
  ELSE Verify(verifier, CHOOSE r \in evidence.report : TRUE, CHOOSE c \in evidence.vcek_cert : TRUE,
              [model |-> evidence.model_identity, scheme |-> evidence.scheme_identity, nonce |-> {}])
=============================================================================
