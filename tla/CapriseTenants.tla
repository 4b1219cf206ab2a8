--------------------------- MODULE CapriseTenants ---------------------------
(***************************************************************************)
(* GeloRagTwoPartyService (crates/gelo-rag, two_party_service.rs) behind   *)
(* the routes of gelo-snp-runner: per tenant a secret drawn by the enclave *)
(* and an index of chunks encrypted under a key that binds the user's      *)
(* secret, the enclave's and the tenant.  A route holds the service's one  *)
(* tokio mutex for the whole request, so a request is one step; what is    *)
(* hard is the sequence: requests that fail half way, keys that change     *)
(* between requests, and a restart, which forgets every secret.            *)
(***************************************************************************)
EXTENDS Tenancy, Naturals, Sequences, FiniteSets

CONSTANTS
  Users,        \* values of user_x_sk
  Chunks,       \* chunks of text
  MaxSecrets,   \* bound on the secrets drawn
  MaxSends      \* bound on the chunks sent to one tenant

ASSUME BoundsAssumption == MaxSecrets \in Nat /\ MaxSends \in Nat

VARIABLES
  secrets,   \* secret of each tenant, 0 if it has none
  indices,   \* index of each tenant: its records, in the order of insertion
  drawn,     \* number of secrets drawn so far; secret s is the s-th
  sent,      \* history: <<chunk, user>> sent to each tenant since its index was empty
  acked,     \* history: <<chunk, user>> acknowledged to each tenant since then
  reply      \* the answer to the last request

caprise_vars == <<secrets, indices, drawn, sent, acked, reply>>

(* HkdfPolicy::derive: the keys are a function of the three inputs, and    *)
(* different inputs give different keys.                                   *)
Derive(user, secret, t) == <<user, secret, t>>

Key == Users \X Nat \X Tenants

Record == [chunk : Chunks, key : Key]

Silence == [to |-> "none", status |-> 0, user |-> <<>>, tenant |-> <<>>, hits |-> <<>>,
            cause |-> "none"]

Reply(kind, status, u, t, hits) ==
  [to |-> kind, status |-> status, user |-> <<u>>, tenant |-> <<t>>, hits |-> hits,
   cause |-> "none"]

(* TwoPartyError::Inner of a query: 500 whatever the cause, "embed" for    *)
(* its own embedding and encryption, "decrypt" for a hit.                  *)
QueryFailed(cause, u, t) == [Reply("query", 500, u, t, <<>>) EXCEPT !.cause = cause]

(* Every field is typed: secrets are numbers, 0 where a tenant has none.   *)
CapriseTypeOK ==
  /\ secrets \in [Tenants -> Nat]
  /\ indices \in [Tenants -> Seq(Record)]
  /\ drawn \in Nat
  /\ sent \in [Tenants -> Seq(Chunks \X Users)]
  /\ acked \in [Tenants -> SUBSET (Chunks \X Users)]

CapriseInit ==
  /\ secrets = [t \in Tenants |-> 0]
  /\ indices = [t \in Tenants |-> <<>>]
  /\ drawn = 0
  /\ sent = [t \in Tenants |-> <<>>]
  /\ acked = [t \in Tenants |-> {}]
  /\ reply = Silence

-----------------------------------------------------------------------------
(* ingest_chunks_for *)

(* Mutant: a fresh secret for every ingest. *)
AlwaysCreateTeeSecret(t) ==
  /\ drawn < MaxSecrets
  /\ secrets' = [secrets EXCEPT ![t] = drawn + 1]
  /\ drawn' = drawn + 1

(* or_create_tee_secret: the tenant's secret, drawn at its first ingest. *)
OrCreateTeeSecret(t) ==
  IF secrets[t] # 0
  THEN UNCHANGED <<secrets, drawn>>
  ELSE /\ drawn < MaxSecrets
       /\ secrets' = [secrets EXCEPT ![t] = drawn + 1]
       /\ drawn' = drawn + 1

Encrypted(cs, key) == [i \in 1 .. Len(cs) |-> [chunk |-> cs[i], key |-> key]]

Tagged(cs, u) == [i \in 1 .. Len(cs) |-> <<cs[i], u>>]

(* Mutant: the index of the tenant is replaced. *)
PushAfresh(t, cs, key) == indices' = [indices EXCEPT ![t] = Encrypted(cs, key)]

(* Mutant: the first chunk is pushed twice. *)
PushTwice(t, cs, key) ==
  indices' = [indices EXCEPT ![t] =
                @ \o Encrypted(cs, key) \o Encrypted(SubSeq(cs, 1, IF cs = <<>> THEN 0 ELSE 1), key)]

(* The loop of inserts. *)
Push(t, cs, key) == indices' = [indices EXCEPT ![t] = @ \o Encrypted(cs, key)]

(* A request with the chunks cs of which the loop inserts the first n; the *)
(* rest meets an embedding that cannot be encrypted.                       *)
IngestUpTo(t, u, cs, n, status) ==
  /\ Len(sent[t]) + Len(cs) <= MaxSends
  /\ OrCreateTeeSecret(t)
  /\ Push(t, SubSeq(cs, 1, n), Derive(u, secrets'[t], t))
  /\ sent' = [sent EXCEPT ![t] = @ \o Tagged(cs, u)]
  /\ acked' = IF status = 200
              THEN [acked EXCEPT ![t] = @ \cup {<<cs[i], u>> : i \in 1 .. Len(cs)}]
              ELSE acked
  /\ reply' = Reply("ingest", status, u, t, <<>>)

Ingest(t, u, cs) == IngestUpTo(t, u, cs, Len(cs), 200)

(* One embedding is empty: encrypt_document fails and the chunks before it *)
(* stay in the index.                                                      *)
IngestStops(t, u, cs) == \E n \in 0 .. Len(cs) - 1 : IngestUpTo(t, u, cs, n, 500)

(* embed fails: the secret has been drawn already, the index is untouched. *)
EmbedFails(t, u, cs) ==
  /\ Len(sent[t]) + Len(cs) <= MaxSends
  /\ OrCreateTeeSecret(t)
  /\ sent' = [sent EXCEPT ![t] = @ \o Tagged(cs, u)]
  /\ reply' = Reply("ingest", 500, u, t, <<>>)
  /\ UNCHANGED <<indices, acked>>

-----------------------------------------------------------------------------
(* query_for *)

(* InMemoryEncryptedIndex::search: the k records whose vectors are closest *)
(* to the query's, best first.  The vectors carry noise, and under another *)
(* key they are noise, so any k records may come out.                      *)
Ranking(t, k) ==
  LET n == Len(indices[t])
      m == IF k < n THEN k ELSE n
  IN {r \in [1 .. m -> 1 .. n] : \A i, j \in 1 .. m : r[i] = r[j] => i = j}

(* The secret is required before anything else; a chunk that does not      *)
(* decrypt under the query's key fails the whole request.                  *)
Query(t, u, k) ==
  /\ reply' \in
       IF secrets[t] = 0
       THEN {Reply("query", 410, u, t, <<>>)}
       ELSE {IF \A i \in DOMAIN r : indices[t][r[i]].key = Derive(u, secrets[t], t)
             THEN Reply("query", 200, u, t, [i \in DOMAIN r |-> indices[t][r[i]].chunk])
             ELSE QueryFailed("decrypt", u, t) : r \in Ranking(t, k)}
  /\ UNCHANGED <<secrets, indices, drawn, sent, acked>>

(* The text of a known tenant's query is not embedded, or its embedding    *)
(* not encrypted, whether or not the tenant has an index.                  *)
QueryEmbedFails(t, u) ==
  /\ secrets[t] # 0
  /\ reply' = QueryFailed("embed", u, t)
  /\ UNCHANGED <<secrets, indices, drawn, sent, acked>>

(* rotate_tenant is a stub: it looks at the secret and changes nothing. *)
Rotate(t, u) ==
  /\ reply' = Reply("rotate", IF secrets[t] = 0 THEN 410 ELSE 501, u, t, <<>>)
  /\ UNCHANGED <<secrets, indices, drawn, sent, acked>>

-----------------------------------------------------------------------------
(* forget_tenant, and the end of the process *)

(* Mutant: the index outlives the secret. *)
ForgetSecret(t) ==
  /\ secrets' = [secrets EXCEPT ![t] = 0]
  /\ sent' = [sent EXCEPT ![t] = <<>>]
  /\ acked' = [acked EXCEPT ![t] = {}]
  /\ reply' = Silence
  /\ UNCHANGED <<indices, drawn>>

ForgetCapriseTenant(t) ==
  /\ secrets' = [secrets EXCEPT ![t] = 0]
  /\ indices' = [indices EXCEPT ![t] = <<>>]
  /\ sent' = [sent EXCEPT ![t] = <<>>]
  /\ acked' = [acked EXCEPT ![t] = {}]
  /\ reply' = Silence
  /\ UNCHANGED drawn

(* Secrets and indices are in memory only. *)
CapriseRestart ==
  /\ secrets' = [t \in Tenants |-> 0]
  /\ indices' = [t \in Tenants |-> <<>>]
  /\ sent' = [t \in Tenants |-> <<>>]
  /\ acked' = [t \in Tenants |-> {}]
  /\ reply' = Silence
  /\ UNCHANGED drawn

Batches == UNION {[1 .. n -> Chunks] : n \in 0 .. 2}

CapriseNext ==
  \/ \E t \in Tenants, u \in Users, cs \in Batches :
       Ingest(t, u, cs) \/ IngestStops(t, u, cs) \/ EmbedFails(t, u, cs)
  \/ \E t \in Tenants, u \in Users, k \in 1 .. 2 : Query(t, u, k)
  \/ \E t \in Tenants, u \in Users : QueryEmbedFails(t, u) \/ Rotate(t, u)
  \/ \E t \in Tenants : ForgetCapriseTenant(t)
  \/ CapriseRestart

CapriseSpec == CapriseInit /\ [][CapriseNext]_caprise_vars

-----------------------------------------------------------------------------
(* Every record of a tenant is encrypted under the secret the tenant has   *)
(* now, and a tenant without a secret has no records: whatever sequence of *)
(* ingests, failures, forgets and restarts, no record is left that its own *)
(* user cannot decrypt (two_party_service.rs:128, 136).                    *)
RecordsUnderLiveSecret ==
  \A t \in Tenants : \A i \in DOMAIN indices[t] :
    /\ secrets[t] # 0
    /\ \E u \in Users : indices[t][i].key = Derive(u, secrets[t], t)

(* A chunk acknowledged to a user stays in the tenant's index, under the   *)
(* key that user's queries derive, until the tenant is forgotten or the    *)
(* process ends, whatever other requests fail (ingest_chunks_for, 158).    *)
AckedIsHeld ==
  \A t \in Tenants : \A a \in acked[t] :
    \E i \in DOMAIN indices[t] :
      indices[t][i] = [chunk |-> a[1], key |-> Derive(a[2], secrets[t], t)]

(* A hit fails to decrypt, and the whole query with it (231), only for a   *)
(* tenant that chunks were sent to under another user's secret: no failed  *)
(* ingest, forget or restart leaves a record behind that its sender's own  *)
(* query meets and cannot open.                                            *)
QueryFailsOnlyOnMixedKeys ==
  reply.cause = "decrypt" =>
    \E i \in DOMAIN sent[reply.tenant[1]] : sent[reply.tenant[1]][i][2] # reply.user[1]

(* A chunk comes out of a query at most as often as it was sent to the     *)
(* tenant: only a client that retries an ingest meets duplicates (180).    *)
HitsAreSends ==
  reply.to = "query" =>
    \A c \in Chunks :
      Cardinality({i \in DOMAIN reply.hits : reply.hits[i] = c}) <=
        Cardinality({i \in DOMAIN sent[reply.tenant[1]] :
                       sent[reply.tenant[1]][i] = <<c, reply.user[1]>>})

=============================================================================
