--------------------------- MODULE LightRagTenants ---------------------------
(***************************************************************************)
(* LightRagTwoPartyService (crates/lightrag-private, two_party_service.rs) *)
(* under concurrent requests: a mutex-guarded map from tenants to shared   *)
(* handles, and behind each handle a mutex-guarded Tenant with its secret  *)
(* and its store.  A request is split at its awaits, which are all waits   *)
(* for one of these locks; between two awaits it runs without stopping.    *)
(* The stores live in memory, so building and searching one never waits.   *)
(***************************************************************************)
EXTENDS Tenancy, Naturals, Sequences, FiniteSets

CONSTANTS
  Requests,    \* request tasks; a task serves one request after another
  Nobody,      \* no task: the lock is free
  MaxIngests   \* bound on the secrets drawn and the stores built

ASSUME NobodyAssumption == Nobody \notin Requests
ASSUME TenantsAssumption == Tenants # {}
ASSUME BoundAssumption == MaxIngests \in Nat

VARIABLES
  tenants,   \* the map: handle of each tenant, 0 if it has none
  mapLock,   \* task that holds the map's lock across an await
  heap,      \* heap[h]: the Tenant behind handle h and the holder of its lock
  minted,    \* number of secrets drawn so far; secret s is the s-th
  pc,        \* where each task is
  req        \* the request each task serves and what it has picked up for it

vars == <<tenants, mapLock, heap, minted, pc, req>>

Tenant == [tenant : Tenants, secret : Nat, owner : Requests \cup {Nobody}]

Request(t) == [tenant |-> t, secret |-> 0, handle |-> 0]

Labels == {"idle", "secret", "clone", "build", "insert", "lookup", "wait", "search", "forget"}

(* Every field is typed and every handle a task or the map holds exists.    *)
TypeOK ==
  /\ heap \in Seq(Tenant)
  /\ tenants \in [Tenants -> 0 .. Len(heap)]
  /\ mapLock \in Requests \cup {Nobody}
  /\ minted \in Nat
  /\ pc \in [Requests -> Labels]
  /\ req \in [Requests -> [tenant : Tenants, secret : Nat, handle : 0 .. Len(heap)]]

Init ==
  /\ tenants = [t \in Tenants |-> 0]
  /\ mapLock = Nobody
  /\ heap = <<>>
  /\ minted = 0
  /\ pc = [r \in Requests |-> "idle"]
  /\ req = [r \in Requests |-> Request(CHOOSE t \in Tenants : TRUE)]

Goto(r, label) == pc' = [pc EXCEPT ![r] = label]

-----------------------------------------------------------------------------
(* ingest_kg_for *)

Ingesting == {r \in Requests : pc[r] \in {"secret", "clone", "build", "insert"}}

(* Within the bounds, counting what the ingests under way may still use. *)
Room ==
  /\ Len(heap) + Cardinality(Ingesting) < MaxIngests
  /\ minted + Cardinality({r \in Requests : pc[r] = "secret"}) < MaxIngests

StartIngest(r, t) ==
  /\ pc[r] = "idle"
  /\ Room
  /\ req' = [req EXCEPT ![r] = Request(t)]
  /\ Goto(r, "secret")
  /\ UNCHANGED <<tenants, mapLock, heap, minted>>

(* or_create_tee_secret of a tenant that is not in the map: draw a secret, *)
(* let go of the map and leave no placeholder in it.                       *)
MintSecret(r) ==
  /\ pc[r] = "secret" /\ mapLock = Nobody
  /\ tenants[req[r].tenant] = 0
  /\ minted' = minted + 1
  /\ req' = [req EXCEPT ![r].secret = minted + 1]
  /\ Goto(r, "build")
  /\ UNCHANGED <<tenants, mapLock, heap>>

(* or_create_tee_secret of a known tenant: keep the map's lock while       *)
(* waiting for the tenant's ...                                            *)
FindSecret(r) ==
  /\ pc[r] = "secret" /\ mapLock = Nobody
  /\ tenants[req[r].tenant] # 0
  /\ mapLock' = r
  /\ req' = [req EXCEPT ![r].handle = tenants[req[r].tenant]]
  /\ Goto(r, "clone")
  /\ UNCHANGED <<tenants, heap, minted>>

(* Mutant: a fresh secret instead of the tenant's. *)
CloneFreshSecret(r) ==
  /\ pc[r] = "clone"
  /\ heap[req[r].handle].owner = Nobody
  /\ minted' = minted + 1
  /\ req' = [req EXCEPT ![r].secret = minted + 1]
  /\ mapLock' = Nobody
  /\ Goto(r, "build")
  /\ UNCHANGED <<tenants, heap>>

(* ... then copy the secret and release both. *)
CloneSecret(r) ==
  /\ pc[r] = "clone"
  /\ heap[req[r].handle].owner = Nobody
  /\ req' = [req EXCEPT ![r].secret = heap[req[r].handle].secret]
  /\ mapLock' = Nobody
  /\ Goto(r, "build")
  /\ UNCHANGED <<tenants, heap, minted>>

(* LightKgStore::build_from_kg, which may fail; no lock is held. *)
BuildStore(r) ==
  /\ pc[r] = "build"
  /\ Goto(r, "insert") \/ Goto(r, "idle")
  /\ UNCHANGED <<tenants, mapLock, heap, minted, req>>

(* Mutant: the new Tenant is built inside the old one's handle. *)
InsertInPlace(r) ==
  /\ pc[r] = "insert" /\ mapLock = Nobody
  /\ LET fresh == [tenant |-> req[r].tenant, secret |-> req[r].secret, owner |-> Nobody]
         h == tenants[req[r].tenant]
     IN IF h = 0
        THEN /\ heap' = Append(heap, fresh)
             /\ tenants' = [tenants EXCEPT ![req[r].tenant] = Len(heap) + 1]
        ELSE heap' = [heap EXCEPT ![h] = fresh] /\ UNCHANGED tenants
  /\ Goto(r, "idle")
  /\ UNCHANGED <<mapLock, minted, req>>

(* The new Tenant replaces whatever the map holds by now. *)
InsertTenant(r) ==
  /\ pc[r] = "insert" /\ mapLock = Nobody
  /\ heap' = Append(heap, [tenant |-> req[r].tenant, secret |-> req[r].secret,
                           owner |-> Nobody])
  /\ tenants' = [tenants EXCEPT ![req[r].tenant] = Len(heap) + 1]
  /\ Goto(r, "idle")
  /\ UNCHANGED <<mapLock, minted, req>>

-----------------------------------------------------------------------------
(* query_for *)

StartQuery(r, t) ==
  /\ pc[r] = "idle"
  /\ req' = [req EXCEPT ![r] = Request(t)]
  /\ Goto(r, "lookup")
  /\ UNCHANGED <<tenants, mapLock, heap, minted>>

(* Mutant: the handle of any tenant will do. *)
LookupShared(r) ==
  /\ pc[r] = "lookup" /\ mapLock = Nobody
  /\ \E t \in Tenants :
       /\ tenants[t] # 0
       /\ req' = [req EXCEPT ![r].handle = tenants[t]]
  /\ Goto(r, "wait")
  /\ UNCHANGED <<tenants, mapLock, heap, minted>>

(* The handle is cloned under the map's lock, which is released at once;   *)
(* a tenant that is not in the map is UnknownTenant (410 Gone).            *)
Lookup(r) ==
  /\ pc[r] = "lookup" /\ mapLock = Nobody
  /\ \/ /\ tenants[req[r].tenant] = 0
        /\ Goto(r, "idle")
        /\ UNCHANGED req
     \/ /\ tenants[req[r].tenant] # 0
        /\ req' = [req EXCEPT ![r].handle = tenants[req[r].tenant]]
        /\ Goto(r, "wait")
  /\ UNCHANGED <<tenants, mapLock, heap, minted>>

LockTenant(r) ==
  /\ pc[r] = "wait"
  /\ heap[req[r].handle].owner = Nobody
  /\ heap' = [heap EXCEPT ![req[r].handle].owner = r]
  /\ Goto(r, "search")
  /\ UNCHANGED <<tenants, mapLock, minted, req>>

(* Mutant: the guard outlives the request. *)
FinishHoldingLock(r) ==
  /\ pc[r] = "search"
  /\ Goto(r, "idle")
  /\ UNCHANGED <<tenants, mapLock, heap, minted, req>>

(* kg_query on the store, then the guard is dropped. *)
FinishSearch(r) ==
  /\ pc[r] = "search"
  /\ heap' = [heap EXCEPT ![req[r].handle].owner = Nobody]
  /\ Goto(r, "idle")
  /\ UNCHANGED <<tenants, mapLock, minted, req>>

-----------------------------------------------------------------------------
(* forget_tenant, disconnects and restarts *)

StartForget(r, t) ==
  /\ pc[r] = "idle"
  /\ req' = [req EXCEPT ![r] = Request(t)]
  /\ Goto(r, "forget")
  /\ UNCHANGED <<tenants, mapLock, heap, minted>>

ForgetTenant(r) ==
  /\ pc[r] = "forget" /\ mapLock = Nobody
  /\ tenants' = [tenants EXCEPT ![req[r].tenant] = 0]
  /\ Goto(r, "idle")
  /\ UNCHANGED <<mapLock, heap, minted, req>>

(* Mutant: the dropped future leaves the map locked. *)
DisconnectHoldingMap(r) ==
  /\ pc[r] \in {"secret", "clone", "insert", "lookup", "wait", "forget"}
  /\ Goto(r, "idle")
  /\ UNCHANGED <<tenants, mapLock, heap, minted, req>>

(* The client goes away while its request waits for a lock: the future is  *)
(* dropped and with it the guard it holds.                                 *)
Disconnect(r) ==
  /\ pc[r] \in {"secret", "clone", "insert", "lookup", "wait", "forget"}
  /\ mapLock' = IF mapLock = r THEN Nobody ELSE mapLock
  /\ Goto(r, "idle")
  /\ UNCHANGED <<tenants, heap, minted, req>>

(* The CVM restarts.  Secrets and stores are held in memory only. *)
Restart ==
  /\ tenants' = [t \in Tenants |-> 0]
  /\ mapLock' = Nobody
  /\ heap' = [h \in DOMAIN heap |-> [heap[h] EXCEPT !.owner = Nobody]]
  /\ pc' = [r \in Requests |-> "idle"]
  /\ UNCHANGED <<minted, req>>

-----------------------------------------------------------------------------
(* The steps of a request that has been admitted. *)
Proceed(r) ==
  \/ MintSecret(r) \/ FindSecret(r) \/ CloneSecret(r) \/ BuildStore(r)
  \/ InsertTenant(r) \/ Lookup(r) \/ LockTenant(r) \/ FinishSearch(r)
  \/ ForgetTenant(r)

Next ==
  \/ \E r \in Requests :
       \/ \E t \in Tenants : StartIngest(r, t) \/ StartQuery(r, t) \/ StartForget(r, t)
       \/ Proceed(r)
       \/ Disconnect(r)
  \/ Restart

Spec == Init /\ [][Next]_vars

(* tokio's Mutex serves its waiters in turn, so a request that could take  *)
(* a lock again and again gets it; a runnable task is polled.              *)
FairSpec == Spec /\ \A r \in Requests : SF_vars(Proceed(r))

-----------------------------------------------------------------------------
(* Properties *)

(* LightKgStore::query needs &mut: no two requests are ever inside the     *)
(* same store, whichever of them still finds it in the map.                *)
SearchExclusive ==
  \A r, s \in Requests :
    pc[r] = "search" /\ pc[s] = "search" /\ req[r].handle = req[s].handle => r = s

(* A tenant's lock is held only by a request that is searching its store   *)
(* and needs no further lock, and the map's only by one that waits for a   *)
(* tenant's lock: the two locks are never taken in opposite orders.        *)
LocksNest ==
  /\ \A h \in DOMAIN heap : heap[h].owner # Nobody =>
       pc[heap[h].owner] = "search" /\ req[heap[h].owner].handle = h
  /\ mapLock # Nobody => pc[mapLock] = "clone"

(* The map leads a tenant's requests to that tenant's store, and a search  *)
(* runs on a store of the tenant that asked, through every race of         *)
(* ingests, forgets and restarts.                                          *)
TenantIsolation ==
  /\ \A t \in Tenants : tenants[t] # 0 => heap[tenants[t]].tenant = t
  /\ \A r \in Requests : pc[r] \in {"wait", "search"} => heap[req[r].handle].tenant = req[r].tenant

Secret(t) == heap[tenants[t]].secret

(* `On a known tenant we require it': the secret of a tenant in the map is *)
(* replaced only by an ingest that found the map in a different state, so  *)
(* never by one that nothing overtook.                                     *)
SecretKeptUnlessRaced ==
  [][\A t \in Tenants :
       tenants[t] # 0 /\ tenants'[t] # 0 /\ Secret(t)' # Secret(t) =>
         \E r \in Requests : /\ pc[r] = "insert" /\ req[r].tenant = t
                             /\ req[r].handle # tenants[t]]_vars

(* Every request ends: it is answered, refused or abandoned. *)
RequestsEnd == \A r \in Requests : pc[r] # "idle" ~> pc[r] = "idle"
=============================================================================
