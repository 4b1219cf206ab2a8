-------------------------------- MODULE Keying --------------------------------
(***************************************************************************)
(* core/src/keying.rs: the two key-derivation policies and the scheme      *)
(* identities that pin their parameters.                                   *)
(*                                                                         *)
(* A fragment is the sequence of its lines, each a label and a value;      *)
(* floats are their bits.  HKDF is the term of its arguments.              *)
(***************************************************************************)
EXTENDS Naturals, Sequences, TLC

HkdfPolicyV1 ==
  [version |-> "v1", salt |-> "tenant_id",
   info |-> [caprise |-> "v1.caprise.seed", aes |-> "v1.aes-chunks"]]

HkdfPolicyV2 ==
  [version |-> "v2", salt |-> "tenant_id",
   info |-> [caprise |-> "v2.caprise.seed", aes |-> "v2.aes-chunks", oram_entities |-> "v2.oram-entities",
             oram_relations |-> "v2.oram-relations", oram_chunks |-> "v2.oram-chunks",
             emm_adjacency |-> "v2.emm-adjacency", emm_src_chunks |-> "v2.emm-src-chunks",
             search_pattern |-> "v2.search-pattern"]]

(* Secrets have one length, so their concatenation determines them. *)
HkdfExtract(salt, ikm) == <<"extract", salt, ikm>>
HkdfExpand(prk, info) == <<"expand", prk, info>>

(* Two keys under V1, eight under V2. *)
Derive(policy, userXSk, teeUserXSk, tenant) ==
  LET prk == HkdfExtract(tenant, <<userXSk, teeUserXSk>>)
  IN [child \in DOMAIN policy.info |-> HkdfExpand(prk, policy.info[child])]

DeriveV2(userXSk, teeUserXSk, tenant) == Derive(HkdfPolicyV2, userXSk, teeUserXSk, tenant)

-----------------------------------------------------------------------------
(* Parameters by the labels of their lines.                                *)
SchemeParams == <<"caprise-scale-bits", "caprise-beta-bits">>

CompassParams ==
  <<"compass-z", "compass-s", "compass-a", "compass-block-bytes", "compass-hnsw-m", "compass-hnsw-ef",
    "compass-hnsw-ef-spec", "compass-hnsw-ef-n", "compass-treetop-levels", "compass-hint-bits",
    "compass-hnsw-m-l0", "compass-hnsw-m-upper", "compass-hnsw-ef-construction", "compass-hnsw-ml-bits",
    "compass-hnsw-neighbour-heuristic", "compass-hnsw-build-seed">>

XorMmParams == <<"xormm-volume-bound", "xormm-stash-size">>

LightRagParams ==
  <<"lightrag-top-k", "lightrag-chunk-top-k", "lightrag-max-entity-tokens", "lightrag-max-relation-tokens",
    "lightrag-max-total-tokens", "lightrag-search-eps-bits">>

SchemeParamsV2 == SchemeParams \o CompassParams \o XorMmParams \o LightRagParams

(* The defaults; floats and the seed stand as small numbers.               *)
DefaultSchemeParams == "caprise-scale-bits" :> 32 @@ "caprise-beta-bits" :> 15

DefaultCompassParams ==
  LET m == 12
  IN "compass-z" :> 4 @@ "compass-s" :> 5 @@ "compass-a" :> 3 @@ "compass-block-bytes" :> 2048
     @@ "compass-hnsw-m" :> m @@ "compass-hnsw-ef" :> 64 @@ "compass-hnsw-ef-spec" :> 16
     @@ "compass-hnsw-ef-n" :> 4 @@ "compass-treetop-levels" :> 4 @@ "compass-hint-bits" :> 4
     @@ "compass-hnsw-m-l0" :> 2 * m @@ "compass-hnsw-m-upper" :> m @@ "compass-hnsw-ef-construction" :> 200
     @@ "compass-hnsw-ml-bits" :> 0 @@ "compass-hnsw-neighbour-heuristic" :> 4 @@ "compass-hnsw-build-seed" :> 0

DefaultXorMmParams == "xormm-volume-bound" :> 64 @@ "xormm-stash-size" :> 128

DefaultLightRagParams ==
  "lightrag-top-k" :> 20 @@ "lightrag-chunk-top-k" :> 60 @@ "lightrag-max-entity-tokens" :> 4000
  @@ "lightrag-max-relation-tokens" :> 4000 @@ "lightrag-max-total-tokens" :> 32000 @@ "lightrag-search-eps-bits" :> 2

DefaultParamsV2 == DefaultSchemeParams @@ DefaultCompassParams @@ DefaultXorMmParams @@ DefaultLightRagParams

Lines(labels, params) == [i \in DOMAIN labels |-> <<labels[i], params[labels[i]]>>]

PolicyLines(policy, children) ==
  <<<<"version", policy.version>>, <<"kdf", "hkdf-sha256">>>>
    \o [i \in DOMAIN children |-> <<"kdf-info", children[i], policy.info[children[i]]>>]
    \o <<<<"kdf-salt", policy.salt>>>>

FragmentV1(params) == PolicyLines(HkdfPolicyV1, <<"caprise", "aes">>) \o Lines(SchemeParams, params)

(* Mutant: the parameters of the layered build are left out. *)
FragmentWithoutBuildParams(params) ==
  PolicyLines(HkdfPolicyV2, <<"caprise", "aes", "oram_entities", "oram_relations", "oram_chunks",
                              "emm_adjacency", "emm_src_chunks", "search_pattern">>)
    \o Lines(SchemeParams \o SubSeq(CompassParams, 1, 10) \o XorMmParams \o LightRagParams, params)

FragmentV2(params) ==
  PolicyLines(HkdfPolicyV2, <<"caprise", "aes", "oram_entities", "oram_relations", "oram_chunks",
                              "emm_adjacency", "emm_src_chunks", "search_pattern">>)
    \o Lines(SchemeParamsV2, params)

DigestV1(params) == <<"sha256", FragmentV1(params)>>
DigestV2(params) == <<"sha256", FragmentV2(params)>>
=============================================================================
