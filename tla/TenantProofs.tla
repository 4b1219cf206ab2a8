---------------------------- MODULE TenantProofs ----------------------------
(***************************************************************************)
(* Proofs about the two tenant services, for any tenants: LightRagTenants  *)
(* with any number of tasks, and CapriseTenants with any users and chunks. *)
(* The services share nothing but the ids of their tenants.                *)
(***************************************************************************)
EXTENDS LightRagTenants, CapriseTenants, SequenceTheorems, FiniteSetTheorems, TLAPS

-----------------------------------------------------------------------------
(* LightRagTwoPartyService.                                                *)
(* What a task has picked up and holds at each place of its request. *)
TaskOK(r) ==
  /\ pc[r] \in {"clone", "wait", "search"} => req[r].handle # 0
  /\ pc[r] = "secret" => req[r].handle = 0
  /\ pc[r] = "clone" => mapLock = r
  /\ pc[r] = "search" => heap[req[r].handle].owner = r
  /\ pc[r] \in {"build", "insert"} /\ req[r].handle # 0 =>
       heap[req[r].handle].secret = req[r].secret

IInv == TypeOK /\ LocksNest /\ TenantIsolation /\ \A r \in Requests : TaskOK(r)

(* The Tenant behind a handle keeps its tenant and its secret for good,    *)
(* and handles stay valid.                                                 *)
HeapGrows ==
  /\ Len(heap) <= Len(heap')
  /\ \A h \in DOMAIN heap : /\ h \in DOMAIN heap'
                            /\ heap'[h].tenant = heap[h].tenant
                            /\ heap'[h].secret = heap[h].secret

LEMMA HeapFacts ==
  ASSUME TypeOK
  PROVE  /\ Len(heap) \in Nat
         /\ DOMAIN heap = 1 .. Len(heap)
         /\ \A h \in DOMAIN heap : heap[h] \in Tenant
         /\ \A r \in Requests : req[r].handle # 0 => req[r].handle \in DOMAIN heap
         /\ \A t \in Tenants : tenants[t] # 0 => tenants[t] \in DOMAIN heap
<1>1. heap \in Seq(Tenant)
  BY DEF TypeOK
<1> QED
  BY <1>1 DEF TypeOK

(* Setting or clearing the owner of a handle. *)
LEMMA OwnerUpdate ==
  ASSUME TypeOK, NEW h \in DOMAIN heap, NEW o \in Requests \cup {Nobody},
         heap' = [heap EXCEPT ![h].owner = o]
  PROVE  /\ heap' \in Seq(Tenant) /\ Len(heap') = Len(heap)
         /\ DOMAIN heap' = DOMAIN heap
         /\ HeapGrows
         /\ \A g \in DOMAIN heap : heap'[g].owner = IF g = h THEN o ELSE heap[g].owner
<1>1. heap \in Seq(Tenant)
  BY DEF TypeOK
<1>2. [heap[h] EXCEPT !.owner = o] \in Tenant
  <2>1. heap[h] \in Tenant
    BY <1>1
  <2> QED
    BY <2>1 DEF Tenant
<1>3. heap' = [heap EXCEPT ![h] = [heap[h] EXCEPT !.owner = o]]
  OBVIOUS
<1>4. heap' \in Seq(Tenant) /\ Len(heap') = Len(heap) /\ DOMAIN heap' = DOMAIN heap
  BY <1>1, <1>2, <1>3
<1>5. \A g \in DOMAIN heap : heap'[g] = IF g = h THEN [heap[h] EXCEPT !.owner = o] ELSE heap[g]
  BY <1>1, <1>3
<1>6. \A g \in DOMAIN heap : heap[g] \in Tenant
  BY <1>1
<1>7. HeapGrows
  BY <1>1, <1>4, <1>5, <1>6 DEF HeapGrows, Tenant
<1> QED
  BY <1>4, <1>5, <1>6, <1>7 DEF Tenant

(* Installing a Tenant. *)
LEMMA HeapAppend ==
  ASSUME TypeOK, NEW x \in Tenant, heap' = Append(heap, x)
  PROVE  /\ heap' \in Seq(Tenant) /\ Len(heap') = Len(heap) + 1
         /\ HeapGrows
         /\ \A g \in DOMAIN heap : heap'[g] = heap[g]
         /\ heap'[Len(heap) + 1] = x
         /\ DOMAIN heap' = DOMAIN heap \cup {Len(heap) + 1}
<1>1. heap \in Seq(Tenant)
  BY DEF TypeOK
<1> QED
  BY <1>1 DEF HeapGrows

(* Clearing every owner. *)
LEMMA HeapRestart ==
  ASSUME TypeOK, heap' = [h \in DOMAIN heap |-> [heap[h] EXCEPT !.owner = Nobody]]
  PROVE  /\ heap' \in Seq(Tenant) /\ Len(heap') = Len(heap)
         /\ HeapGrows
         /\ \A g \in DOMAIN heap' : heap'[g].owner = Nobody
<1>1. heap \in Seq(Tenant) /\ Len(heap) \in Nat /\ DOMAIN heap = 1 .. Len(heap)
  BY DEF TypeOK
<1>2. \A h \in DOMAIN heap : [heap[h] EXCEPT !.owner = Nobody] \in Tenant
  <2>1. \A h \in DOMAIN heap : heap[h] \in Tenant
    BY <1>1
  <2> QED
    BY <2>1 DEF Tenant
<1>3. heap' \in [1 .. Len(heap) -> Tenant]
  BY <1>1, <1>2
<1>4. heap' \in Seq(Tenant) /\ Len(heap') = Len(heap)
  <2>1. heap' \in Seq(Tenant)
    BY <1>1, <1>3, SeqDef
  <2> QED
    BY <1>1, <1>3, <2>1
<1>5. \A h \in DOMAIN heap : heap[h] \in Tenant
  BY <1>1
<1> QED
  BY <1>1, <1>4, <1>5 DEF HeapGrows, Tenant

LEMMA InvInit == Init => IInv
<1> SUFFICES ASSUME Init PROVE IInv
  OBVIOUS
<1> DEFINE some == CHOOSE t \in Tenants : TRUE
<1>1. some \in Tenants
  BY TenantsAssumption
<1>2. /\ req = [r \in Requests |-> [tenant |-> some, secret |-> 0, handle |-> 0]]
      /\ pc = [r \in Requests |-> "idle"] /\ tenants = [t \in Tenants |-> 0]
      /\ mapLock = Nobody /\ heap = <<>> /\ minted = 0
  BY Zenon DEF Init, Request
<1> HIDE DEF some
<1>3. TypeOK
  BY <1>1, <1>2 DEF TypeOK, Labels
<1>4. LocksNest /\ TenantIsolation /\ \A r \in Requests : TaskOK(r)
  BY <1>2 DEF LocksNest, TenantIsolation, TaskOK
<1> QED
  BY <1>3, <1>4 DEF IInv

(* A step of task r to place x that leaves every Tenant alone: it may take *)
(* or drop the map's lock, and take a tenant out of the map.               *)
Quiet(r, x, v) ==
  /\ pc[r] # "search" /\ x \in Labels \ {"search"}
  /\ v \in [tenant : Tenants, secret : Nat, handle : 0 .. Len(heap)]
  /\ heap' = heap /\ minted' \in Nat
  /\ pc' = [pc EXCEPT ![r] = x]
  /\ req' = [req EXCEPT ![r] = v]
  /\ tenants' \in [Tenants -> 0 .. Len(heap)]
  /\ \A t \in Tenants : tenants'[t] \in {0, tenants[t]}
  /\ \/ x # "clone" /\ mapLock # r /\ mapLock' = mapLock
     \/ x # "clone" /\ mapLock = r /\ mapLock' = Nobody
     \/ x = "clone" /\ mapLock = Nobody /\ mapLock' = r
  /\ x \in {"clone", "wait"} => v.handle # 0
  /\ x = "secret" => v.handle = 0
  /\ x = "wait" => heap[v.handle].tenant = v.tenant
  /\ x \in {"build", "insert"} /\ v.handle # 0 => heap[v.handle].secret = v.secret

LEMMA QuietStep ==
  ASSUME IInv, NEW r \in Requests, NEW x, NEW v, Quiet(r, x, v)
  PROVE  IInv' /\ HeapGrows
<1>a. /\ Len(heap) \in Nat
      /\ DOMAIN heap = 1 .. Len(heap)
      /\ \A h \in DOMAIN heap : heap[h] \in Tenant
      /\ \A q \in Requests : req[q].handle # 0 => req[q].handle \in DOMAIN heap
      /\ \A t \in Tenants : tenants[t] # 0 => tenants[t] \in DOMAIN heap
  BY HeapFacts DEF IInv
<1>1. /\ pc'[r] = x /\ req'[r] = v
      /\ \A q \in Requests \ {r} : pc'[q] = pc[q] /\ req'[q] = req[q]
  BY DEF Quiet, IInv, TypeOK
<1>2. TypeOK'
  <2>1. heap' \in Seq(Tenant) /\ minted' \in Nat /\ tenants' \in [Tenants -> 0 .. Len(heap')]
    BY DEF Quiet, IInv, TypeOK
  <2>2. mapLock' \in Requests \cup {Nobody}
    BY DEF Quiet, IInv, TypeOK
  <2>3. pc' \in [Requests -> Labels]
    BY DEF Quiet, IInv, TypeOK
  <2>4. req' \in [Requests -> [tenant : Tenants, secret : Nat, handle : 0 .. Len(heap')]]
    BY DEF Quiet, IInv, TypeOK
  <2> QED
    BY <2>1, <2>2, <2>3, <2>4 DEF TypeOK
<1>3. LocksNest'
  <2>1. \A h \in DOMAIN heap : heap[h].owner # Nobody =>
          /\ heap[h].owner \in Requests \ {r}
          /\ pc'[heap[h].owner] = "search" /\ req'[heap[h].owner].handle = h
    BY <1>a, <1>1 DEF Quiet, IInv, LocksNest, Tenant
  <2>2. mapLock' # Nobody => pc'[mapLock'] = "clone"
    BY <1>1 DEF Quiet, IInv, TypeOK, LocksNest
  <2> QED
    BY <2>1, <2>2 DEF LocksNest, Quiet
<1>4. TenantIsolation'
  BY <1>1 DEF Quiet, IInv, TenantIsolation
<1>5. \A q \in Requests : TaskOK(q)'
  <2>1. TaskOK(r)'
    BY <1>1 DEF Quiet, TaskOK
  <2>2. ASSUME NEW q \in Requests \ {r} PROVE TaskOK(q)'
    <3>1. TaskOK(q) /\ pc'[q] = pc[q] /\ req'[q] = req[q] /\ heap' = heap
      BY <1>1 DEF IInv, Quiet
    <3>2. mapLock = q => mapLock' = q
      BY NobodyAssumption DEF Quiet
    <3> QED
      BY <3>1, <3>2 DEF TaskOK
  <2> QED
    BY <2>1, <2>2
<1>6. HeapGrows
  BY <1>a DEF Quiet, HeapGrows
<1> QED
  BY <1>2, <1>3, <1>4, <1>5, <1>6 DEF IInv

(* The places where the map's lock is awaited or not needed. *)
LEMMA QuietActions ==
  ASSUME IInv, NEW r \in Requests,
         \/ \E t \in Tenants : StartIngest(r, t) \/ StartQuery(r, t) \/ StartForget(r, t)
         \/ MintSecret(r) \/ FindSecret(r) \/ CloneSecret(r) \/ BuildStore(r)
         \/ Lookup(r) \/ ForgetTenant(r) \/ Disconnect(r)
  PROVE  \E x, v : Quiet(r, x, v)
<1>a. /\ Len(heap) \in Nat
      /\ DOMAIN heap = 1 .. Len(heap)
      /\ \A h \in DOMAIN heap : heap[h] \in Tenant
      /\ \A q \in Requests : req[q].handle # 0 => req[q].handle \in DOMAIN heap
      /\ \A t \in Tenants : tenants[t] # 0 => tenants[t] \in DOMAIN heap
  BY HeapFacts DEF IInv
<1>b. /\ req[r] \in [tenant : Tenants, secret : Nat, handle : 0 .. Len(heap)]
      /\ req = [req EXCEPT ![r] = req[r]]
      /\ pc[r] \in Labels /\ minted \in Nat
      /\ tenants \in [Tenants -> 0 .. Len(heap)]
      /\ \A t \in Tenants : tenants[t] \in {0, tenants[t]}
      /\ mapLock = r => pc[r] = "clone"
      /\ TaskOK(r) /\ r # Nobody
  BY NobodyAssumption DEF IInv, TypeOK, LocksNest
<1>1. ASSUME NEW t \in Tenants,
             StartIngest(r, t) \/ StartQuery(r, t) \/ StartForget(r, t)
      PROVE  \E x \in {"secret", "lookup", "forget"} : Quiet(r, x, Request(t))
  <2>1. Request(t) \in [tenant : Tenants, secret : Nat, handle : 0 .. Len(heap)]
    BY <1>a DEF Request
  <2> QED
    BY <1>1, <1>b, <2>1 DEF StartIngest, StartQuery, StartForget, Request, Goto, Quiet, Labels
<1>2. CASE MintSecret(r)
  <2> DEFINE v == [req[r] EXCEPT !.secret = minted + 1]
  <2>1. /\ v \in [tenant : Tenants, secret : Nat, handle : 0 .. Len(heap)]
        /\ v.handle = 0
    BY <1>2, <1>b DEF TaskOK, MintSecret
  <2>2. req' = [req EXCEPT ![r] = v] /\ minted' \in Nat /\ mapLock # r
    BY <1>2, <1>b DEF MintSecret
  <2> HIDE DEF v
  <2>3. Quiet(r, "build", v)
    BY <1>2, <1>b, <2>1, <2>2 DEF MintSecret, Goto, Quiet, Labels
  <2> QED
    BY <2>3
<1>3. CASE FindSecret(r)
  <2> DEFINE v == [req[r] EXCEPT !.handle = tenants[req[r].tenant]]
  <2>1. /\ v \in [tenant : Tenants, secret : Nat, handle : 0 .. Len(heap)]
        /\ v.handle # 0
    BY <1>3, <1>b DEF FindSecret
  <2>2. req' = [req EXCEPT ![r] = v]
    BY <1>3 DEF FindSecret
  <2> HIDE DEF v
  <2>3. Quiet(r, "clone", v)
    BY <1>3, <1>b, <2>1, <2>2 DEF FindSecret, Goto, Quiet, Labels
  <2> QED
    BY <2>3
<1>4. CASE CloneSecret(r)
  <2> DEFINE v == [req[r] EXCEPT !.secret = heap[req[r].handle].secret]
  <2>1. req[r].handle \in DOMAIN heap /\ heap[req[r].handle].secret \in Nat
    BY <1>4, <1>a, <1>b DEF CloneSecret, TaskOK, Tenant
  <2>2. /\ v \in [tenant : Tenants, secret : Nat, handle : 0 .. Len(heap)]
        /\ heap[v.handle].secret = v.secret
    BY <1>b, <2>1
  <2>3. req' = [req EXCEPT ![r] = v]
    BY <1>4 DEF CloneSecret
  <2> HIDE DEF v
  <2>4. Quiet(r, "build", v)
    BY <1>4, <1>b, <2>2, <2>3 DEF CloneSecret, Goto, Quiet, Labels, TaskOK
  <2> QED
    BY <2>4
<1>5. CASE BuildStore(r)
  <2>1. ASSUME NEW x \in {"insert", "idle"}, Goto(r, x) PROVE Quiet(r, x, req[r])
    BY <1>5, <1>b, <2>1 DEF BuildStore, Goto, Quiet, Labels, TaskOK
  <2> QED
    BY <1>5, <2>1 DEF BuildStore
<1>6. CASE Lookup(r)
  <2> DEFINE v == [req[r] EXCEPT !.handle = tenants[req[r].tenant]]
  <2>1. CASE tenants[req[r].tenant] = 0
    <3>1. Quiet(r, "idle", req[r])
      BY <1>6, <1>b, <2>1 DEF Lookup, Goto, Quiet, Labels
    <3> QED
      BY <3>1
  <2>2. CASE tenants[req[r].tenant] # 0
    <3>1. /\ v \in [tenant : Tenants, secret : Nat, handle : 0 .. Len(heap)]
          /\ v.handle # 0 /\ heap[v.handle].tenant = v.tenant
      BY <1>b, <2>2 DEF IInv, TenantIsolation
    <3>2. req' = [req EXCEPT ![r] = v]
      BY <1>6, <2>2 DEF Lookup
    <3> HIDE DEF v
    <3>3. Quiet(r, "wait", v)
      BY <1>6, <1>b, <2>2, <3>1, <3>2 DEF Lookup, Goto, Quiet, Labels
    <3> QED
      BY <3>3
  <2> QED
    BY <2>1, <2>2
<1>7. CASE ForgetTenant(r)
  <2>1. Quiet(r, "idle", req[r])
    BY <1>7, <1>b DEF ForgetTenant, Goto, Quiet, Labels
  <2> QED
    BY <2>1
<1>8. CASE Disconnect(r)
  <2>1. Quiet(r, "idle", req[r])
    BY <1>8, <1>b DEF Disconnect, Goto, Quiet, Labels
  <2> QED
    BY <2>1
<1> QED
  BY <1>1, <1>2, <1>3, <1>4, <1>5, <1>6, <1>7, <1>8

(* A search takes its tenant's lock, and drops it. *)
LEMMA LockStep ==
  ASSUME IInv, NEW r \in Requests, LockTenant(r) \/ FinishSearch(r)
  PROVE  IInv' /\ HeapGrows
<1> DEFINE h == req[r].handle
           o == IF LockTenant(r) THEN r ELSE Nobody
<1> USE DEF IInv
<1>a. /\ Len(heap) \in Nat
      /\ DOMAIN heap = 1 .. Len(heap)
      /\ \A g \in DOMAIN heap : heap[g] \in Tenant
      /\ \A q \in Requests : req[q].handle # 0 => req[q].handle \in DOMAIN heap
      /\ \A t \in Tenants : tenants[t] # 0 => tenants[t] \in DOMAIN heap
  BY HeapFacts
<1>1. h \in DOMAIN heap
  BY <1>a DEF LockTenant, FinishSearch, TaskOK
<1>2. /\ heap' = [heap EXCEPT ![h].owner = o]
      /\ pc' = [pc EXCEPT ![r] = IF LockTenant(r) THEN "search" ELSE "idle"]
      /\ pc[r] = IF LockTenant(r) THEN "wait" ELSE "search"
      /\ LockTenant(r) => heap[h].owner = Nobody
      /\ UNCHANGED <<tenants, mapLock, minted, req>>
  BY DEF LockTenant, FinishSearch, Goto
<1>3. /\ heap' \in Seq(Tenant) /\ Len(heap') = Len(heap)
      /\ DOMAIN heap' = DOMAIN heap
      /\ HeapGrows
      /\ \A g \in DOMAIN heap : heap'[g].owner = IF g = h THEN o ELSE heap[g].owner
  <2>1. o \in Requests \cup {Nobody}
    OBVIOUS
  <2> HIDE DEF o, h
  <2> QED
    BY <1>1, <1>2, <2>1, OwnerUpdate
<1>4. TypeOK'
  <2>1. pc' \in [Requests -> Labels]
    BY <1>2 DEF TypeOK, Labels
  <2> QED
    BY <1>2, <1>3, <2>1 DEF TypeOK
<1>5. LocksNest'
  <2>1. ASSUME NEW g \in DOMAIN heap', heap'[g].owner # Nobody
        PROVE  pc'[heap'[g].owner] = "search" /\ req'[heap'[g].owner].handle = g
    <3>1. CASE g = h
      <4>1. heap'[g].owner = r /\ LockTenant(r)
        BY <1>3, <2>1, <3>1
      <4>2. pc'[r] = "search" /\ req'[r].handle = g
        BY <1>2, <3>1, <4>1 DEF TypeOK
      <4> QED
        BY <4>1, <4>2
    <3>2. CASE g # h
      <4>1. /\ heap'[g].owner = heap[g].owner /\ heap[g].owner \in Requests
            /\ pc[heap[g].owner] = "search" /\ req[heap[g].owner].handle = g
        BY <1>3, <1>a, <2>1, <3>2 DEF LocksNest, Tenant
      <4> QED
        BY <1>2, <3>2, <4>1 DEF TypeOK
    <3> QED
      BY <3>1, <3>2
  <2>2. mapLock' # Nobody => pc'[mapLock'] = "clone"
    BY <1>2 DEF LocksNest, TypeOK
  <2> QED
    BY <2>1, <2>2 DEF LocksNest
<1>6. TenantIsolation'
  BY <1>2, <1>3, <1>a, <1>1 DEF TenantIsolation, HeapGrows, TypeOK, TaskOK
<1>7. \A q \in Requests : TaskOK(q)'
  BY <1>2, <1>3, <1>a, <1>1, NobodyAssumption DEF TaskOK, HeapGrows, TypeOK, LocksNest
<1> QED
  BY <1>3, <1>4, <1>5, <1>6, <1>7

(* An ingest installs its Tenant under a handle nobody has. *)
LEMMA InsertStep ==
  ASSUME IInv, NEW r \in Requests, InsertTenant(r)
  PROVE  IInv' /\ HeapGrows
<1>a. /\ Len(heap) \in Nat
      /\ DOMAIN heap = 1 .. Len(heap)
      /\ \A h \in DOMAIN heap : heap[h] \in Tenant
      /\ \A q \in Requests : req[q].handle # 0 => req[q].handle \in DOMAIN heap
      /\ \A t \in Tenants : tenants[t] # 0 => tenants[t] \in DOMAIN heap
  BY HeapFacts DEF IInv
<1> DEFINE n == [tenant |-> req[r].tenant, secret |-> req[r].secret, owner |-> Nobody]
<1>1. n \in Tenant /\ r # Nobody
  BY NobodyAssumption DEF IInv, TypeOK, Tenant
<1>2. /\ heap' = Append(heap, n)
      /\ tenants' = [tenants EXCEPT ![req[r].tenant] = Len(heap) + 1]
      /\ pc' = [pc EXCEPT ![r] = "idle"] /\ pc[r] = "insert" /\ mapLock = Nobody
      /\ mapLock' = mapLock /\ minted' = minted /\ req' = req
  BY DEF InsertTenant, Goto
<1>3. n.tenant = req[r].tenant /\ n.owner = Nobody
  OBVIOUS
<1> HIDE DEF n
<1>4. /\ heap' \in Seq(Tenant) /\ Len(heap') = Len(heap) + 1
      /\ HeapGrows
      /\ \A g \in DOMAIN heap : heap'[g] = heap[g]
      /\ heap'[Len(heap) + 1] = n
      /\ DOMAIN heap' = DOMAIN heap \cup {Len(heap) + 1}
  BY <1>1, <1>2, HeapAppend DEF IInv
<1>5. TypeOK'
  <2>1. pc' \in [Requests -> Labels]
    BY <1>2 DEF IInv, TypeOK, Labels
  <2>2. tenants' \in [Tenants -> 0 .. Len(heap')]
    BY <1>2, <1>4, <1>a DEF IInv, TypeOK
  <2>3. req' \in [Requests -> [tenant : Tenants, secret : Nat, handle : 0 .. Len(heap')]]
    BY <1>2, <1>4, <1>a DEF IInv, TypeOK
  <2> QED
    BY <1>2, <1>4, <2>1, <2>2, <2>3 DEF IInv, TypeOK
<1>6. LocksNest'
  <2>1. ASSUME NEW g \in DOMAIN heap', heap'[g].owner # Nobody
        PROVE  pc'[heap'[g].owner] = "search" /\ req'[heap'[g].owner].handle = g
    <3>1. g \in DOMAIN heap /\ heap'[g] = heap[g]
      BY <1>3, <1>4, <2>1
    <3>2. heap[g].owner \in Requests /\ pc[heap[g].owner] = "search" /\ req[heap[g].owner].handle = g
      BY <1>a, <2>1, <3>1 DEF IInv, LocksNest, Tenant
    <3> QED
      BY <1>2, <3>1, <3>2 DEF IInv, TypeOK
  <2> QED
    BY <1>2, <2>1 DEF LocksNest
<1>7. TenantIsolation'
  <2>1. ASSUME NEW t \in Tenants, tenants'[t] # 0 PROVE heap'[tenants'[t]].tenant = t
    <3>1. CASE t = req[r].tenant
      BY <1>2, <1>3, <1>4, <3>1 DEF IInv, TypeOK
    <3>2. CASE t # req[r].tenant
      <4>1. tenants'[t] = tenants[t]
        BY <1>2, <3>2 DEF IInv, TypeOK
      <4> QED
        BY <1>4, <1>a, <2>1, <4>1 DEF IInv, TenantIsolation
    <3> QED
      BY <3>1, <3>2
  <2>2. ASSUME NEW q \in Requests, pc'[q] \in {"wait", "search"}
        PROVE  heap'[req'[q].handle].tenant = req'[q].tenant
    <3>1. pc[q] = pc'[q]
      BY <1>2, <2>2 DEF IInv, TypeOK
    <3>2. req[q].handle \in DOMAIN heap
      BY <1>a, <2>2, <3>1 DEF IInv, TaskOK
    <3> QED
      BY <1>2, <1>4, <2>2, <3>1, <3>2 DEF IInv, TenantIsolation
  <2> QED
    BY <2>1, <2>2 DEF TenantIsolation
<1>8. ASSUME NEW q \in Requests PROVE TaskOK(q)'
  <2>1. pc'[q] = "idle" \/ pc'[q] = pc[q]
    BY <1>2 DEF IInv, TypeOK
  <2> QED
    BY <1>2, <1>4, <1>a, <2>1 DEF IInv, TaskOK
<1> QED
  BY <1>4, <1>5, <1>6, <1>7, <1>8 DEF IInv

(* A restart empties the map, frees every lock and ends every request. *)
LEMMA RestartStep ==
  ASSUME IInv, Restart
  PROVE  IInv' /\ HeapGrows
<1>a. /\ Len(heap) \in Nat
      /\ DOMAIN heap = 1 .. Len(heap)
      /\ \A h \in DOMAIN heap : heap[h] \in Tenant
      /\ \A q \in Requests : req[q].handle # 0 => req[q].handle \in DOMAIN heap
      /\ \A t \in Tenants : tenants[t] # 0 => tenants[t] \in DOMAIN heap
  BY HeapFacts DEF IInv
<1>1. /\ heap' \in Seq(Tenant) /\ Len(heap') = Len(heap)
      /\ HeapGrows
      /\ \A g \in DOMAIN heap' : heap'[g].owner = Nobody
  BY HeapRestart DEF IInv, Restart
<1>2. TypeOK'
  <2>1. pc' \in [Requests -> Labels]
    BY DEF Restart, Labels
  <2>2. tenants' \in [Tenants -> 0 .. Len(heap')]
    BY <1>1, <1>a DEF Restart
  <2> QED
    BY <1>1, <2>1, <2>2 DEF IInv, TypeOK, Restart
<1>3. LocksNest' /\ TenantIsolation' /\ \A q \in Requests : TaskOK(q)'
  BY <1>1 DEF Restart, LocksNest, TenantIsolation, TaskOK
<1> QED
  BY <1>1, <1>2, <1>3 DEF IInv

LEMMA InvStep == IInv /\ [Next]_vars => IInv' /\ HeapGrows
<1> SUFFICES ASSUME IInv, [Next]_vars PROVE IInv' /\ HeapGrows
  OBVIOUS
<1>1. ASSUME NEW r \in Requests,
             \/ \E t \in Tenants : StartIngest(r, t) \/ StartQuery(r, t) \/ StartForget(r, t)
             \/ MintSecret(r) \/ FindSecret(r) \/ CloneSecret(r) \/ BuildStore(r)
             \/ Lookup(r) \/ ForgetTenant(r) \/ Disconnect(r)
      PROVE  IInv' /\ HeapGrows
  <2>1. PICK x, v : Quiet(r, x, v)
    BY <1>1, QuietActions
  <2> QED
    BY <2>1, QuietStep
<1>2. ASSUME NEW r \in Requests, LockTenant(r) \/ FinishSearch(r)
      PROVE  IInv' /\ HeapGrows
  BY <1>2, LockStep
<1>3. ASSUME NEW r \in Requests, InsertTenant(r) PROVE IInv' /\ HeapGrows
  BY <1>3, InsertStep
<1>4. CASE Restart
  BY <1>4, RestartStep
<1>5. CASE UNCHANGED vars
  BY <1>5, HeapFacts DEF vars, IInv, TypeOK, LocksNest, TenantIsolation, TaskOK, HeapGrows
<1> QED
  BY <1>1, <1>2, <1>3, <1>4, <1>5 DEF Next, Proceed

LEMMA InvHolds == Spec => []IInv
  BY InvInit, InvStep, PTL DEF Spec

-----------------------------------------------------------------------------
(* No two tasks are ever inside the same LightKgStore: the `&mut' that     *)
(* query_for takes is exclusive even when an ingest, a forget or a restart *)
(* has taken the store out of the map in the meantime.                     *)
THEOREM SearchExclusiveHolds == Spec => []SearchExclusive
<1>1. IInv => SearchExclusive
  BY DEF IInv, TaskOK, SearchExclusive
<1> QED
  BY <1>1, InvHolds, PTL

(* The map's lock and the tenants' locks are always taken in that order,   *)
(* and whoever holds a tenant's lock needs no other.                       *)
THEOREM LocksNestHolds == Spec => []LocksNest
<1>1. IInv => LocksNest
  BY DEF IInv
<1> QED
  BY <1>1, InvHolds, PTL

(* A tenant's requests only ever reach that tenant's stores. *)
THEOREM TenantIsolationHolds == Spec => []TenantIsolation
<1>1. IInv => TenantIsolation
  BY DEF IInv
<1> QED
  BY <1>1, InvHolds, PTL

(* The secret of a tenant in the map changes only when an ingest installs  *)
(* a store that was begun before the one in the map.                       *)
THEOREM SecretKeptUnlessRacedHolds == Spec => SecretKeptUnlessRaced
<1> DEFINE Kept(t) ==
      tenants[t] # 0 /\ tenants'[t] # 0 /\ Secret(t)' # Secret(t) =>
        \E r \in Requests : /\ pc[r] = "insert" /\ req[r].tenant = t
                            /\ req[r].handle # tenants[t]
<1>1. IInv /\ [Next]_vars => \A t \in Tenants : Kept(t)
  <2> SUFFICES ASSUME IInv, [Next]_vars, NEW t \in Tenants,
                      tenants[t] # 0, tenants'[t] # 0, Secret(t)' # Secret(t)
               PROVE  \E r \in Requests : /\ pc[r] = "insert" /\ req[r].tenant = t
                                          /\ req[r].handle # tenants[t]
    OBVIOUS
  <2>1. tenants[t] \in DOMAIN heap /\ HeapGrows
    BY InvStep, HeapFacts DEF IInv
  <2>2. tenants'[t] # tenants[t]
    BY <2>1 DEF HeapGrows, Secret
  <2>3. PICK r \in Requests : InsertTenant(r)
    BY <2>2 DEF Next, Proceed, vars, IInv, TypeOK, StartIngest, StartQuery, StartForget,
       MintSecret, FindSecret, CloneSecret, BuildStore, Lookup, LockTenant, FinishSearch,
       ForgetTenant, Disconnect, Restart
  <2>4. req[r].tenant = t /\ pc[r] = "insert"
    BY <2>2, <2>3 DEF InsertTenant, IInv, TypeOK
  <2>5. Secret(t)' = req[r].secret
    <3> DEFINE n == [tenant |-> req[r].tenant, secret |-> req[r].secret, owner |-> Nobody]
    <3>1. n \in Tenant /\ n.secret = req[r].secret
      BY DEF IInv, TypeOK, Tenant
    <3>2. heap' = Append(heap, n) /\ tenants'[t] = Len(heap) + 1
      BY <2>3, <2>4 DEF InsertTenant, IInv, TypeOK
    <3> HIDE DEF n
    <3>3. heap'[Len(heap) + 1] = n
      BY <3>1, <3>2, HeapAppend DEF IInv
    <3> QED
      BY <3>1, <3>2, <3>3 DEF Secret
  <2>6. ASSUME req[r].handle = tenants[t] PROVE FALSE
    BY <2>4, <2>5, <2>6 DEF IInv, TaskOK, Secret
  <2> QED
    BY <2>4, <2>6
<1> QED
  BY <1>1, InvHolds, PTL DEF Spec, SecretKeptUnlessRaced

-----------------------------------------------------------------------------
(* GeloRagTwoPartyService.                                                 *)
(* Every record of the tenant was sent to it and is encrypted under the    *)
(* key its sender derives from the secret the tenant has now.              *)
Traced(t) ==
  \A i \in DOMAIN indices[t] :
    /\ secrets[t] # 0
    /\ \E j \in DOMAIN sent[t] :
         indices[t][i] = [chunk |-> sent[t][j][1], key |-> Derive(sent[t][j][2], secrets[t], t)]

Held(t) ==
  \A a \in acked[t] : \E i \in DOMAIN indices[t] :
    indices[t][i] = [chunk |-> a[1], key |-> Derive(a[2], secrets[t], t)]

CapriseInv == CapriseTypeOK /\ \A t \in Tenants : Traced(t) /\ Held(t)

(* The requests that end with a secret in place: it was there before, or   *)
(* the tenant had none.                                                    *)
LEMMA SecretDrawn ==
  ASSUME CapriseTypeOK, NEW t \in Tenants, OrCreateTeeSecret(t)
  PROVE  /\ secrets' \in [Tenants -> Nat] /\ drawn' \in Nat
         /\ secrets'[t] # 0
         /\ secrets[t] # 0 => secrets'[t] = secrets[t]
         /\ \A v \in Tenants \ {t} : secrets'[v] = secrets[v]
<1>1. secrets \in [Tenants -> Nat] /\ drawn \in Nat
  BY DEF CapriseTypeOK
<1>2. CASE secrets[t] # 0
  BY <1>1, <1>2 DEF OrCreateTeeSecret
<1>3. CASE secrets[t] = 0
  <2>1. drawn' = drawn + 1 /\ secrets' = [secrets EXCEPT ![t] = drawn + 1]
    BY <1>3 DEF OrCreateTeeSecret
  <2> QED
    BY <1>1, <1>3, <2>1
<1> QED
  BY <1>2, <1>3

LEMMA SeqConcat ==
  ASSUME NEW S, NEW r \in Seq(S), NEW s \in Seq(S)
  PROVE  /\ r \o s \in Seq(S)
         /\ DOMAIN r \subseteq DOMAIN (r \o s)
         /\ \A i \in DOMAIN r : (r \o s)[i] = r[i]
         /\ \A i \in DOMAIN s : Len(r) + i \in DOMAIN (r \o s) /\ (r \o s)[Len(r) + i] = s[i]
         /\ \A i \in DOMAIN (r \o s) :
              i \in DOMAIN r \/ \E j \in DOMAIN s : i = Len(r) + j
<1>1. \A i \in DOMAIN (r \o s) : i \in DOMAIN r \/ (i - Len(r) \in DOMAIN s /\ i = Len(r) + (i - Len(r)))
  OBVIOUS
<1> QED
  BY <1>1

LEMMA Requested ==
  ASSUME NEW cs \in Batches
  PROVE  /\ cs \in Seq(Chunks) /\ Len(cs) \in Nat /\ DOMAIN cs = 1 .. Len(cs)
         /\ \A i \in 1 .. Len(cs) : cs[i] \in Chunks
<1>1. PICK n \in 0 .. 2 : cs \in [1 .. n -> Chunks]
  BY DEF Batches
<1> QED
  BY <1>1

(* The records a request inserts, and what is noted of it. *)
LEMMA EncryptedRecords ==
  ASSUME NEW cs \in Batches, NEW n \in 0 .. Len(cs), NEW u \in Users, NEW k \in Key
  PROVE  /\ Encrypted(SubSeq(cs, 1, n), k) \in Seq(Record)
         /\ DOMAIN Encrypted(SubSeq(cs, 1, n), k) = 1 .. n
         /\ \A i \in 1 .. n : Encrypted(SubSeq(cs, 1, n), k)[i] = [chunk |-> cs[i], key |-> k]
         /\ Tagged(cs, u) \in Seq(Chunks \X Users)
         /\ DOMAIN Tagged(cs, u) = DOMAIN cs
         /\ \A i \in DOMAIN cs : Tagged(cs, u)[i] = <<cs[i], u>>
<1>1. cs \in Seq(Chunks) /\ Len(cs) \in Nat /\ DOMAIN cs = 1 .. Len(cs)
  BY Requested
<1>2. /\ SubSeq(cs, 1, n) \in Seq(Chunks) /\ Len(SubSeq(cs, 1, n)) = n
      /\ \A i \in 1 .. n : SubSeq(cs, 1, n)[i] = cs[i] /\ cs[i] \in Chunks
  BY <1>1
<1>3. \A i \in 1 .. n : [chunk |-> cs[i], key |-> k] \in Record
  BY <1>2 DEF Record
<1>4. Encrypted(SubSeq(cs, 1, n), k) = [i \in 1 .. n |-> [chunk |-> SubSeq(cs, 1, n)[i], key |-> k]]
  BY <1>2 DEF Encrypted
<1>5. Encrypted(SubSeq(cs, 1, n), k) = [i \in 1 .. n |-> [chunk |-> cs[i], key |-> k]]
  BY <1>2, <1>4
<1>6. Encrypted(SubSeq(cs, 1, n), k) \in Seq(Record)
  BY <1>1, <1>3, <1>5
<1>7. Tagged(cs, u) \in Seq(Chunks \X Users) /\ DOMAIN Tagged(cs, u) = DOMAIN cs
  BY <1>1 DEF Tagged
<1> QED
  BY <1>1, <1>5, <1>6, <1>7 DEF Tagged

LEMMA DerivedKey ==
  ASSUME NEW u \in Users, NEW s \in Nat, NEW t \in Tenants
  PROVE  Derive(u, s, t) \in Key
BY DEF Derive, Key

(* An ingest of the requested chunks cs of which the first n were inserted *)
(* keeps the records traced and what was acknowledged held.                *)
LEMMA IngestKeepsInv ==
  ASSUME CapriseInv, NEW t \in Tenants, NEW u \in Users, NEW cs \in Batches,
         NEW n \in 0 .. Len(cs), OrCreateTeeSecret(t),
         Push(t, SubSeq(cs, 1, n), Derive(u, secrets'[t], t)),
         sent' = [sent EXCEPT ![t] = @ \o Tagged(cs, u)],
         \/ acked' = acked
         \/ /\ n = Len(cs)
            /\ acked' = [acked EXCEPT ![t] = @ \cup {<<cs[i], u>> : i \in 1 .. Len(cs)}]
  PROVE  CapriseInv'
<1> DEFINE k == Derive(u, secrets'[t], t)
           r == Encrypted(SubSeq(cs, 1, n), k)
           g == Tagged(cs, u)
           Sent == Chunks \X Users
           N == {<<cs[i], u>> : i \in 1 .. Len(cs)}
<1>1. CapriseTypeOK
  BY DEF CapriseInv
<1>2. /\ secrets' \in [Tenants -> Nat] /\ drawn' \in Nat /\ secrets'[t] # 0
      /\ secrets[t] # 0 => secrets'[t] = secrets[t]
      /\ \A v \in Tenants \ {t} : secrets'[v] = secrets[v]
  BY <1>1, SecretDrawn
<1>3. k \in Key
  BY <1>2, DerivedKey
<1>4. /\ cs \in Seq(Chunks) /\ Len(cs) \in Nat /\ DOMAIN cs = 1 .. Len(cs)
      /\ \A i \in 1 .. Len(cs) : cs[i] \in Chunks
  BY Requested
<1>5. /\ r \in Seq(Record) /\ DOMAIN r = 1 .. n
      /\ \A i \in 1 .. n : r[i] = [chunk |-> cs[i], key |-> k]
      /\ g \in Seq(Chunks \X Users) /\ DOMAIN g = DOMAIN cs
      /\ \A i \in DOMAIN cs : g[i] = <<cs[i], u>>
  BY <1>3, EncryptedRecords
<1>6. indices' = [indices EXCEPT ![t] = @ \o r]
  BY DEF Push
<1>7. indices[t] \in Seq(Record) /\ sent[t] \in Seq(Sent)
  BY <1>1 DEF CapriseTypeOK
<1>16. /\ N \subseteq Sent
       /\ \A a \in N : \E m \in 1 .. Len(cs) : a = <<cs[m], u>>
       /\ acked' = acked \/ (n = Len(cs) /\ acked' = [acked EXCEPT ![t] = @ \cup N])
  <2>1. \A i \in 1 .. Len(cs) : <<cs[i], u>> \in Sent
    BY <1>4
  <2> QED
    BY <2>1
<1>17. g \in Seq(Sent)
  BY <1>5
<1>18. 1 .. n \subseteq DOMAIN cs
  <2>1. \A l \in Nat : n \in 0 .. l => 1 .. n \subseteq 1 .. l
    OBVIOUS
  <2> QED
    BY <1>4, <2>1
<1> HIDE DEF r, g, k, Sent, N
<1>8. /\ indices'[t] = indices[t] \o r /\ sent'[t] = sent[t] \o g
      /\ \A v \in Tenants \ {t} : indices'[v] = indices[v] /\ sent'[v] = sent[v]
  BY <1>1, <1>6 DEF CapriseTypeOK, g
<1>9. /\ indices[t] \o r \in Seq(Record)
      /\ DOMAIN indices[t] \subseteq DOMAIN (indices[t] \o r)
      /\ \A i \in DOMAIN indices[t] : (indices[t] \o r)[i] = indices[t][i]
      /\ \A i \in DOMAIN r : /\ Len(indices[t]) + i \in DOMAIN (indices[t] \o r)
                            /\ (indices[t] \o r)[Len(indices[t]) + i] = r[i]
      /\ \A i \in DOMAIN (indices[t] \o r) :
           i \in DOMAIN indices[t] \/ \E j \in DOMAIN r : i = Len(indices[t]) + j
  BY <1>5, <1>7, SeqConcat
<1>10. /\ sent[t] \o g \in Seq(Sent)
       /\ DOMAIN sent[t] \subseteq DOMAIN (sent[t] \o g)
       /\ \A i \in DOMAIN sent[t] : (sent[t] \o g)[i] = sent[t][i]
       /\ \A i \in DOMAIN g : /\ Len(sent[t]) + i \in DOMAIN (sent[t] \o g)
                             /\ (sent[t] \o g)[Len(sent[t]) + i] = g[i]
  BY <1>7, <1>17, SeqConcat
<1>11. \A i \in DOMAIN indices[t] : secrets[t] # 0
  BY DEF CapriseInv, Traced
<1>12. CapriseTypeOK'
  <2>1. acked' \in [Tenants -> SUBSET (Chunks \X Users)]
    <3>1. acked \in [Tenants -> SUBSET Sent]
      BY <1>1 DEF CapriseTypeOK, Sent
    <3>2. acked[t] \cup N \in SUBSET Sent
      BY <1>16, <3>1
    <3>3. acked' \in [Tenants -> SUBSET Sent]
      BY <1>16, <3>1, <3>2
    <3> QED
      BY <3>3 DEF Sent
  <2>2. indices' \in [Tenants -> Seq(Record)]
    BY <1>1, <1>6, <1>9 DEF CapriseTypeOK
  <2>3. sent' \in [Tenants -> Seq(Chunks \X Users)]
    BY <1>1, <1>10 DEF CapriseTypeOK, g, Sent
  <2> QED
    BY <1>2, <2>1, <2>2, <2>3 DEF CapriseTypeOK
<1>13. ASSUME NEW v \in Tenants, v # t
       PROVE  Traced(v)' /\ Held(v)'
  <2>1. Traced(v) /\ Held(v)
    BY DEF CapriseInv
  <2>2. acked'[v] = acked[v]
    BY <1>1, <1>13, <1>16 DEF CapriseTypeOK
  <2>3. secrets'[v] = secrets[v] /\ indices'[v] = indices[v] /\ sent'[v] = sent[v]
    BY <1>2, <1>8, <1>13
  <2>4. Traced(v)'
    <3> SUFFICES ASSUME NEW i \in DOMAIN indices'[v]
                 PROVE  /\ secrets'[v] # 0
                        /\ \E j \in DOMAIN sent'[v] :
                             indices'[v][i] = [chunk |-> sent'[v][j][1], key |-> Derive(sent'[v][j][2], secrets'[v], v)]
      BY DEF Traced
    <3>1. /\ secrets[v] # 0
          /\ \E j \in DOMAIN sent[v] :
               indices[v][i] = [chunk |-> sent[v][j][1], key |-> Derive(sent[v][j][2], secrets[v], v)]
      BY <2>1, <2>3 DEF Traced
    <3> QED
      BY <2>3, <3>1
  <2>5. Held(v)'
    BY <2>1, <2>2, <2>3 DEF Held, Derive
  <2> QED
    BY <2>4, <2>5
<1>14. Traced(t)'
  <2> SUFFICES ASSUME NEW i \in DOMAIN indices'[t]
               PROVE  \E j \in DOMAIN sent'[t] :
                        indices'[t][i] = [chunk |-> sent'[t][j][1], key |-> Derive(sent'[t][j][2], secrets'[t], t)]
    BY <1>2 DEF Traced
  <2>1. CASE i \in DOMAIN indices[t]
    <3>1. PICK j \in DOMAIN sent[t] :
            indices[t][i] = [chunk |-> sent[t][j][1], key |-> Derive(sent[t][j][2], secrets[t], t)]
      BY <2>1 DEF CapriseInv, Traced
    <3>2. j \in DOMAIN sent'[t] /\ sent'[t][j] = sent[t][j] /\ indices'[t][i] = indices[t][i]
      BY <1>8, <1>9, <1>10, <2>1
    <3> QED
      BY <1>2, <1>11, <2>1, <3>1, <3>2
  <2>2. CASE \E m \in DOMAIN r : i = Len(indices[t]) + m
    <3>1. PICK m \in DOMAIN r : i = Len(indices[t]) + m
      BY <2>2
    <3>2. m \in 1 .. n /\ m \in DOMAIN g /\ g[m] = <<cs[m], u>>
      BY <1>5, <1>18
    <3>3. indices'[t][i] = [chunk |-> cs[m], key |-> k]
      BY <1>5, <1>8, <1>9, <3>1, <3>2
    <3>4. Len(sent[t]) + m \in DOMAIN sent'[t] /\ sent'[t][Len(sent[t]) + m] = <<cs[m], u>>
      BY <1>8, <1>10, <3>2
    <3> QED
      BY <3>3, <3>4 DEF k
  <2> QED
    BY <1>8, <1>9, <2>1, <2>2
<1>15. Held(t)'
  <2> SUFFICES ASSUME NEW a \in acked'[t]
               PROVE  \E i \in DOMAIN indices'[t] :
                        indices'[t][i] = [chunk |-> a[1], key |-> Derive(a[2], secrets'[t], t)]
    BY DEF Held
  <2>1. CASE a \in acked[t]
    <3>1. PICK i \in DOMAIN indices[t] :
            indices[t][i] = [chunk |-> a[1], key |-> Derive(a[2], secrets[t], t)]
      BY <2>1 DEF CapriseInv, Held
    <3>2. i \in DOMAIN indices'[t] /\ indices'[t][i] = indices[t][i]
      BY <1>8, <1>9
    <3> QED
      BY <1>2, <1>11, <3>1, <3>2
  <2>2. CASE n = Len(cs) /\ a \in N
    <3>1. PICK m \in 1 .. Len(cs) : a = <<cs[m], u>>
      BY <1>16, <2>2
    <3>2. m \in DOMAIN r /\ r[m] = [chunk |-> a[1], key |-> k] /\ a[2] = u
      BY <1>5, <2>2, <3>1
    <3>3. Len(indices[t]) + m \in DOMAIN indices'[t] /\ indices'[t][Len(indices[t]) + m] = r[m]
      BY <1>8, <1>9, <3>2
    <3> QED
      BY <3>2, <3>3 DEF k
  <2>3. a \in acked[t] \/ (n = Len(cs) /\ a \in N)
    BY <1>1, <1>16 DEF CapriseTypeOK
  <2> QED
    BY <2>1, <2>2, <2>3
<1> QED
  BY <1>12, <1>13, <1>14, <1>15 DEF CapriseInv

(* A request that fails before the index is touched. *)
LEMMA FailedPushesNothing ==
  ASSUME CapriseInv, NEW t \in Tenants, NEW u \in Users, NEW cs \in Batches, EmbedFails(t, u, cs)
  PROVE  Push(t, SubSeq(cs, 1, 0), Derive(u, secrets'[t], t))
<1>1. CapriseTypeOK /\ indices[t] \in Seq(Record)
  BY DEF CapriseInv, CapriseTypeOK
<1>2. Encrypted(SubSeq(cs, 1, 0), Derive(u, secrets'[t], t)) = <<>>
  BY DEF Encrypted
<1>3. indices[t] \o <<>> = indices[t]
  BY <1>1
<1> QED
  BY <1>1, <1>2, <1>3 DEF Push, EmbedFails, CapriseTypeOK

LEMMA EmbedFailsKeepsInv ==
  ASSUME CapriseInv, NEW t \in Tenants, NEW u \in Users, NEW cs \in Batches, EmbedFails(t, u, cs)
  PROVE  CapriseInv'
<1>1. Len(cs) \in Nat /\ 0 \in 0 .. Len(cs)
  BY Requested
<1>2. Push(t, SubSeq(cs, 1, 0), Derive(u, secrets'[t], t))
  BY FailedPushesNothing
<1> QED
  BY <1>1, <1>2, IngestKeepsInv DEF EmbedFails

(* The records of a tenant that is forgotten, and of all tenants when the  *)
(* process ends, go with its secret.                                       *)
LEMMA ForgetKeepsInv ==
  ASSUME CapriseInv, (\E t \in Tenants : ForgetCapriseTenant(t)) \/ CapriseRestart
  PROVE  CapriseInv'
<1>1. CapriseTypeOK /\ \A v \in Tenants : Traced(v) /\ Held(v)
  BY DEF CapriseInv
<1>2. <<>> \in Seq(Record) /\ <<>> \in Seq(Chunks \X Users) /\ DOMAIN <<>> = {}
  OBVIOUS
<1>3. CASE CapriseRestart
  <2>1. CapriseTypeOK'
    BY <1>1, <1>2, <1>3 DEF CapriseRestart, CapriseTypeOK
  <2>2. \A v \in Tenants : DOMAIN indices'[v] = {} /\ acked'[v] = {}
    BY <1>2, <1>3 DEF CapriseRestart
  <2> QED
    BY <2>1, <2>2 DEF CapriseInv, Traced, Held
<1>4. ASSUME NEW t \in Tenants, ForgetCapriseTenant(t)
      PROVE  CapriseInv'
  <2>1. CapriseTypeOK'
    BY <1>1, <1>2, <1>4 DEF ForgetCapriseTenant, CapriseTypeOK
  <2>2. DOMAIN indices'[t] = {} /\ acked'[t] = {}
    BY <1>1, <1>2, <1>4 DEF ForgetCapriseTenant, CapriseTypeOK
  <2>3. Traced(t)' /\ Held(t)'
    BY <2>2 DEF Traced, Held
  <2>4. ASSUME NEW v \in Tenants, v # t
        PROVE  Traced(v)' /\ Held(v)'
    <3>1. secrets'[v] = secrets[v] /\ indices'[v] = indices[v] /\ sent'[v] = sent[v] /\ acked'[v] = acked[v]
      BY <1>1, <1>4, <2>4 DEF ForgetCapriseTenant, CapriseTypeOK
    <3> QED
      BY <1>1, <3>1 DEF Traced, Held
  <2> QED
    BY <2>1, <2>3, <2>4 DEF CapriseInv
<1> QED
  BY <1>3, <1>4

LEMMA CapriseStarts ==
  ASSUME CapriseInit
  PROVE  CapriseInv /\ QueryFailsOnlyOnMixedKeys
<1>1. <<>> \in Seq(Record) /\ <<>> \in Seq(Chunks \X Users) /\ DOMAIN <<>> = {}
  OBVIOUS
<1>2. CapriseTypeOK
  BY <1>1 DEF CapriseInit, CapriseTypeOK
<1>3. \A t \in Tenants : Traced(t) /\ Held(t)
  BY <1>1 DEF CapriseInit, Traced, Held
<1>4. QueryFailsOnlyOnMixedKeys
  BY DEF CapriseInit, Silence, QueryFailsOnlyOnMixedKeys
<1> QED
  BY <1>2, <1>3, <1>4 DEF CapriseInv

(* Every step of the service keeps the invariant. *)
LEMMA CapriseStepKeepsInv ==
  ASSUME CapriseInv, [CapriseNext]_caprise_vars
  PROVE  CapriseInv'
<1>1. CASE \E t \in Tenants, u \in Users, cs \in Batches : Ingest(t, u, cs) \/ IngestStops(t, u, cs)
  <2>1. PICK t \in Tenants, u \in Users, cs \in Batches : Ingest(t, u, cs) \/ IngestStops(t, u, cs)
    BY <1>1
  <2>2. Len(cs) \in Nat
    BY Requested
  <2>3. PICK n \in 0 .. Len(cs), status \in {200, 500} :
          IngestUpTo(t, u, cs, n, status) /\ (status = 200 => n = Len(cs))
    BY <2>1, <2>2 DEF Ingest, IngestStops
  <2>4. /\ OrCreateTeeSecret(t)
        /\ Push(t, SubSeq(cs, 1, n), Derive(u, secrets'[t], t))
        /\ sent' = [sent EXCEPT ![t] = @ \o Tagged(cs, u)]
    BY <2>3 DEF IngestUpTo
  <2>5. \/ acked' = acked
        \/ /\ n = Len(cs)
           /\ acked' = [acked EXCEPT ![t] = @ \cup {<<cs[i], u>> : i \in 1 .. Len(cs)}]
    BY <2>3 DEF IngestUpTo
  <2> QED
    BY <2>4, <2>5, IngestKeepsInv
<1>2. CASE \E t \in Tenants, u \in Users, cs \in Batches : EmbedFails(t, u, cs)
  BY <1>2, EmbedFailsKeepsInv
<1>3. CASE (\E t \in Tenants : ForgetCapriseTenant(t)) \/ CapriseRestart
  BY <1>3, ForgetKeepsInv
<1>4. ASSUME UNCHANGED <<secrets, indices, drawn, sent, acked>>
      PROVE  CapriseInv'
  <2>1. CapriseTypeOK'
    BY <1>4 DEF CapriseInv, CapriseTypeOK
  <2>2. ASSUME NEW t \in Tenants
        PROVE  Traced(t)' /\ Held(t)'
    <3>1. Traced(t) /\ Held(t)
      BY DEF CapriseInv
    <3>2. secrets' = secrets /\ indices' = indices /\ sent' = sent /\ acked' = acked
      BY <1>4
    <3>3. Held(t)'
      BY <3>1, <3>2 DEF Held, Derive
    <3>4. Traced(t)'
      BY <3>1, <3>2, Zenon DEF Traced, Derive
    <3> QED
      BY <3>3, <3>4
  <2> QED
    BY <2>1, <2>2 DEF CapriseInv
<1>5. CASE \E t \in Tenants, u \in Users :
             QueryEmbedFails(t, u) \/ Rotate(t, u) \/ \E k \in 1 .. 2 : Query(t, u, k)
  BY <1>4, <1>5 DEF QueryEmbedFails, Rotate, Query
<1>6. CASE UNCHANGED caprise_vars
  BY <1>4, <1>6 DEF caprise_vars
<1> QED
  BY <1>1, <1>2, <1>3, <1>5, <1>6 DEF CapriseNext

(* A query fails to decrypt a record only where another user sent one.     *)
LEMMA QueryMeetsSenders ==
  ASSUME CapriseInv, NEW t \in Tenants, NEW u \in Users, NEW k \in 1 .. 2, Query(t, u, k)
  PROVE  QueryFailsOnlyOnMixedKeys'
<1> SUFFICES ASSUME reply'.cause = "decrypt"
             PROVE  \E j \in DOMAIN sent'[reply'.tenant[1]] : sent'[reply'.tenant[1]][j][2] # reply'.user[1]
  BY DEF QueryFailsOnlyOnMixedKeys
<1>1. PICK r \in Ranking(t, k) :
        /\ reply' = QueryFailed("decrypt", u, t)
        /\ ~\A i \in DOMAIN r : indices[t][r[i]].key = Derive(u, secrets[t], t)
  BY DEF Query, Reply
<1>2. reply'.tenant[1] = t /\ reply'.user[1] = u
  BY <1>1 DEF QueryFailed, Reply
<1>3. PICK i \in DOMAIN r : indices[t][r[i]].key # Derive(u, secrets[t], t)
  BY <1>1
<1>4. r[i] \in DOMAIN indices[t]
  <2>1. indices[t] \in Seq(Record) /\ Len(indices[t]) \in Nat /\ DOMAIN indices[t] = 1 .. Len(indices[t])
    BY DEF CapriseInv, CapriseTypeOK
  <2> QED
    BY <2>1 DEF Ranking
<1>5. PICK j \in DOMAIN sent[t] :
        indices[t][r[i]] = [chunk |-> sent[t][j][1], key |-> Derive(sent[t][j][2], secrets[t], t)]
  BY <1>4 DEF CapriseInv, Traced
<1>6. sent[t][j][2] # u
  BY <1>3, <1>5
<1> QED
  BY <1>2, <1>6 DEF Query

(* Only a query answers a query, and only one that searches decrypts.      *)
LEMMA OtherReplies ==
  ASSUME [CapriseNext]_caprise_vars
  PROVE  \/ \E t \in Tenants, u \in Users, k \in 1 .. 2 : Query(t, u, k)
         \/ \E t \in Tenants, u \in Users : QueryEmbedFails(t, u) /\ reply'.cause = "embed"
         \/ UNCHANGED caprise_vars
         \/ reply'.to # "query" /\ reply'.cause = "none"
<1>1. CASE \E t \in Tenants, u \in Users, cs \in Batches :
             Ingest(t, u, cs) \/ IngestStops(t, u, cs) \/ EmbedFails(t, u, cs)
  BY <1>1 DEF Ingest, IngestStops, IngestUpTo, EmbedFails, Reply
<1>2. CASE \E t \in Tenants, u \in Users : QueryEmbedFails(t, u) \/ Rotate(t, u)
  BY <1>2 DEF QueryEmbedFails, QueryFailed, Rotate, Reply
<1>3. CASE (\E t \in Tenants : ForgetCapriseTenant(t)) \/ CapriseRestart
  BY <1>3 DEF ForgetCapriseTenant, CapriseRestart, Silence
<1> QED
  BY <1>1, <1>2, <1>3 DEF CapriseNext

-----------------------------------------------------------------------------
(* Every record of the tenant is the work of a send of its own: g leads    *)
(* from the records to the sends.                                          *)
Matches(t, g) ==
  /\ g \in [DOMAIN indices[t] -> DOMAIN sent[t]]
  /\ \A i, j \in DOMAIN indices[t] : g[i] = g[j] => i = j
  /\ \A i \in DOMAIN indices[t] :
       indices[t][i] = [chunk |-> sent[t][g[i]][1], key |-> Derive(sent[t][g[i]][2], secrets[t], t)]

Matched(t) == \E g : Matches(t, g)

(* One sequence after another, and a map of the first carried over to both. *)
LEMMA JoinedSeqs ==
  ASSUME NEW S, NEW p \in Seq(S), NEW q \in Seq(S)
  PROVE  /\ DOMAIN (p \o q) = 1 .. (Len(p) + Len(q))
         /\ \A i \in 1 .. Len(p) : (p \o q)[i] = p[i]
         /\ \A i \in 1 .. Len(q) : (p \o q)[Len(p) + i] = q[i]
  OBVIOUS

Injects(g, a, b) == g \in [1 .. a -> 1 .. b] /\ \A i, j \in 1 .. a : g[i] = g[j] => i = j

Continues(h, g, a, b, n) ==
  /\ \A i \in 1 .. a : h[i] = g[i]
  /\ \A i \in 1 .. n : h[a + i] = b + i

LEMMA JoinedMap ==
  ASSUME NEW a \in Nat, NEW b \in Nat, NEW m \in Nat, NEW n \in 0 .. m,
         NEW g, Injects(g, a, b)
  PROVE  \E h : Injects(h, a + n, b + m) /\ Continues(h, g, a, b, n)
<1> DEFINE h == [i \in 1 .. (a + n) |-> IF i <= a THEN g[i] ELSE b + (i - a)]
<1>0. g \in [1 .. a -> 1 .. b] /\ \A i, j \in 1 .. a : g[i] = g[j] => i = j
  BY DEF Injects
<1>1. \A i \in 1 .. a : h[i] = g[i] /\ g[i] \in 1 .. b
  BY <1>0
<1>2. \A i \in 1 .. (a + n) : i \in 1 .. a \/ (h[i] = b + (i - a) /\ i > a)
  OBVIOUS
<1>3. h \in [1 .. (a + n) -> 1 .. (b + m)]
  <2>1. \A i \in 1 .. (a + n) : i > a => b + (i - a) \in 1 .. (b + m)
    OBVIOUS
  <2>2. \A i \in 1 .. a : g[i] \in 1 .. (b + m)
    BY <1>0
  <2> QED
    BY <2>1, <2>2
<1>4. \A i \in 1 .. n : h[a + i] = b + i
  BY <1>2
<1>5. DOMAIN h = 1 .. (a + n)
  OBVIOUS
<1> HIDE DEF h
<1>6. \A i, j \in 1 .. (a + n) : h[i] = h[j] => i = j
  BY <1>0, <1>1, <1>2
<1> QED
  BY <1>1, <1>3, <1>4, <1>6 DEF Injects, Continues

LEMMA IngestKeepsMatched ==
  ASSUME CapriseInv, \A v \in Tenants : Matched(v),
         NEW t \in Tenants, NEW u \in Users, NEW cs \in Batches,
         NEW n \in 0 .. Len(cs), OrCreateTeeSecret(t),
         Push(t, SubSeq(cs, 1, n), Derive(u, secrets'[t], t)),
         sent' = [sent EXCEPT ![t] = @ \o Tagged(cs, u)]
  PROVE  \A v \in Tenants : Matched(v)'
<1> DEFINE k == Derive(u, secrets'[t], t)
           r == Encrypted(SubSeq(cs, 1, n), k)
           s == Tagged(cs, u)
           Sent == Chunks \X Users
<1>1. CapriseTypeOK /\ indices[t] \in Seq(Record) /\ sent[t] \in Seq(Sent)
  BY DEF CapriseInv, CapriseTypeOK
<1>2. /\ secrets' \in [Tenants -> Nat]
      /\ secrets[t] # 0 => secrets'[t] = secrets[t]
      /\ \A v \in Tenants \ {t} : secrets'[v] = secrets[v]
  BY <1>1, SecretDrawn
<1>3. k \in Key
  BY <1>2, DerivedKey
<1>4. Len(cs) \in Nat /\ DOMAIN cs = 1 .. Len(cs) /\ 1 .. n \subseteq DOMAIN cs
  BY Requested
<1>5. /\ r \in Seq(Record) /\ DOMAIN r = 1 .. n
      /\ \A i \in 1 .. n : r[i] = [chunk |-> cs[i], key |-> k]
      /\ s \in Seq(Sent) /\ DOMAIN s = DOMAIN cs
      /\ \A i \in DOMAIN cs : s[i] = <<cs[i], u>>
  BY <1>3, EncryptedRecords
<1>6. /\ indices'[t] = indices[t] \o r /\ sent'[t] = sent[t] \o s
      /\ \A v \in Tenants \ {t} : indices'[v] = indices[v] /\ sent'[v] = sent[v]
  BY <1>1 DEF Push, CapriseTypeOK
<1> HIDE DEF r, s, k, Sent
<1>7. PICK li \in Nat, ls \in Nat : li = Len(indices[t]) /\ ls = Len(sent[t])
  BY <1>1
<1>8. DOMAIN indices[t] = 1 .. li /\ DOMAIN sent[t] = 1 .. ls
  BY <1>1, <1>7
<1>9. Len(r) = n /\ Len(s) = Len(cs)
  BY <1>4, <1>5
<1>12. /\ DOMAIN indices'[t] = 1 .. (li + n)
       /\ \A i \in 1 .. li : indices'[t][i] = indices[t][i]
       /\ \A i \in 1 .. n : indices'[t][li + i] = r[i]
  <2>1. /\ DOMAIN (indices[t] \o r) = 1 .. (Len(indices[t]) + Len(r))
        /\ \A i \in 1 .. Len(indices[t]) : (indices[t] \o r)[i] = indices[t][i]
        /\ \A i \in 1 .. Len(r) : (indices[t] \o r)[Len(indices[t]) + i] = r[i]
    BY <1>1, <1>5, JoinedSeqs
  <2> QED
    BY <2>1, <1>6, <1>7, <1>9
<1>13. /\ DOMAIN sent'[t] = 1 .. (ls + Len(cs))
       /\ \A i \in 1 .. ls : sent'[t][i] = sent[t][i]
       /\ \A i \in 1 .. Len(cs) : sent'[t][ls + i] = s[i]
  <2>1. /\ DOMAIN (sent[t] \o s) = 1 .. (Len(sent[t]) + Len(s))
        /\ \A i \in 1 .. Len(sent[t]) : (sent[t] \o s)[i] = sent[t][i]
        /\ \A i \in 1 .. Len(s) : (sent[t] \o s)[Len(sent[t]) + i] = s[i]
    BY <1>1, <1>5, JoinedSeqs
  <2> QED
    BY <2>1, <1>6, <1>7, <1>9
<1>10. ASSUME NEW v \in Tenants, v # t
       PROVE  Matched(v)'
  <2>1. secrets'[v] = secrets[v] /\ indices'[v] = indices[v] /\ sent'[v] = sent[v]
    BY <1>2, <1>6, <1>10
  <2>2. PICK g : Matches(v, g)
    BY DEF Matched
  <2>3. Matches(v, g)'
    BY <2>1, <2>2, Zenon DEF Matches, Derive
  <2> QED
    BY <2>3 DEF Matched
<1>11. Matched(t)'
  <2>1. PICK g : Matches(t, g)
    BY DEF Matched
  <2>2. Injects(g, li, ls)
    BY <1>8, <2>1, Zenon DEF Matches, Injects
  <2>3. PICK h : Injects(h, li + n, ls + Len(cs)) /\ Continues(h, g, li, ls, n)
    BY <1>4, <2>2, JoinedMap
  <2>4. ASSUME NEW i \in 1 .. li
        PROVE  indices'[t][i] = [chunk |-> sent'[t][h[i]][1],
                                 key |-> Derive(sent'[t][h[i]][2], secrets'[t], t)]
    <3>1. h[i] = g[i] /\ g[i] \in 1 .. ls
      BY <2>2, <2>3 DEF Injects, Continues
    <3>2. secrets'[t] = secrets[t]
      BY <1>2, <1>8 DEF CapriseInv, Traced
    <3>3. sent'[t][h[i]] = sent[t][g[i]] /\ indices'[t][i] = indices[t][i]
      BY <1>12, <1>13, <3>1
    <3> QED
      BY <1>8, <2>1, <3>2, <3>3, Zenon DEF Matches
  <2>5. ASSUME NEW i \in 1 .. n
        PROVE  indices'[t][li + i] = [chunk |-> sent'[t][h[li + i]][1],
                                      key |-> Derive(sent'[t][h[li + i]][2], secrets'[t], t)]
    <3>1. i \in 1 .. Len(cs) /\ i \in DOMAIN cs
      BY <1>4
    <3>2. indices'[t][li + i] = r[i] /\ sent'[t][h[li + i]] = s[i]
      BY <1>12, <1>13, <2>3, <3>1 DEF Continues
    <3>3. r[i] = [chunk |-> cs[i], key |-> k] /\ s[i] = <<cs[i], u>>
      BY <1>5, <3>1
    <3>4. s[i][1] = cs[i] /\ s[i][2] = u
      BY <3>3
    <3> QED
      BY <3>2, <3>3, <3>4 DEF k
  <2>6. \A i \in 1 .. (li + n) : i \in 1 .. li \/ \E j \in 1 .. n : i = li + j
    <3>1. \A i \in 1 .. (li + n) : i \in 1 .. li \/ (i - li \in 1 .. n /\ i = li + (i - li))
      BY <1>7
    <3> QED
      BY <3>1, Zenon
  <2>7. \A i \in 1 .. (li + n) :
          indices'[t][i] = [chunk |-> sent'[t][h[i]][1],
                            key |-> Derive(sent'[t][h[i]][2], secrets'[t], t)]
    BY <2>4, <2>5, <2>6, Zenon
  <2>8. Matches(t, h)'
    BY <1>12, <1>13, <2>3, <2>7, Zenon DEF Matches, Derive, Injects
  <2> QED
    BY <2>8 DEF Matched
<1> QED
  BY <1>10, <1>11

(* A tenant without records. *)
LEMMA NoRecordsMatched ==
  ASSUME NEW t, indices[t] = <<>>
  PROVE  Matched(t)
<1>1. Matches(t, <<>>)
  BY DEF Matches
<1> QED
  BY <1>1 DEF Matched

LEMMA StepKeepsMatched ==
  ASSUME CapriseInv, \A v \in Tenants : Matched(v), [CapriseNext]_caprise_vars
  PROVE  \A v \in Tenants : Matched(v)'
<1>1. ASSUME NEW t \in Tenants, NEW u \in Users, NEW cs \in Batches,
             Ingest(t, u, cs) \/ IngestStops(t, u, cs)
      PROVE  \A v \in Tenants : Matched(v)'
  <2>1. Len(cs) \in Nat
    BY Requested
  <2>2. PICK n \in 0 .. Len(cs), status \in {200, 500} : IngestUpTo(t, u, cs, n, status)
    BY <1>1, <2>1 DEF Ingest, IngestStops
  <2> QED
    BY <2>2, IngestKeepsMatched DEF IngestUpTo
<1>2. ASSUME NEW t \in Tenants, NEW u \in Users, NEW cs \in Batches, EmbedFails(t, u, cs)
      PROVE  \A v \in Tenants : Matched(v)'
  <2>1. Len(cs) \in Nat /\ 0 \in 0 .. Len(cs)
    BY Requested
  <2>2. Push(t, SubSeq(cs, 1, 0), Derive(u, secrets'[t], t))
    BY <1>2, FailedPushesNothing
  <2> QED
    BY <1>2, <2>1, <2>2, IngestKeepsMatched DEF EmbedFails
<1>3. ASSUME UNCHANGED <<secrets, indices, sent>>
      PROVE  \A v \in Tenants : Matched(v)'
  <2> SUFFICES ASSUME NEW v \in Tenants PROVE Matched(v)'
    OBVIOUS
  <2>1. PICK g : Matches(v, g)
    BY DEF Matched
  <2>2. Matches(v, g)'
    BY <1>3, <2>1, Zenon DEF Matches, Derive
  <2> QED
    BY <2>2 DEF Matched
<1>4. CASE \E t \in Tenants, u \in Users :
             QueryEmbedFails(t, u) \/ Rotate(t, u) \/ \E k \in 1 .. 2 : Query(t, u, k)
  BY <1>3, <1>4 DEF QueryEmbedFails, Rotate, Query
<1>5. ASSUME NEW t \in Tenants, ForgetCapriseTenant(t)
      PROVE  \A v \in Tenants : Matched(v)'
  <2>1. indices'[t] = <<>>
    BY <1>5 DEF ForgetCapriseTenant, CapriseInv, CapriseTypeOK
  <2>2. Matched(t)'
    <3>1. Matches(t, <<>>)'
      BY <2>1 DEF Matches
    <3> QED
      BY <3>1 DEF Matched
  <2>3. ASSUME NEW v \in Tenants, v # t
        PROVE  Matched(v)'
    <3>1. secrets'[v] = secrets[v] /\ indices'[v] = indices[v] /\ sent'[v] = sent[v]
      BY <1>5, <2>3 DEF ForgetCapriseTenant, CapriseInv, CapriseTypeOK
    <3>2. PICK g : Matches(v, g)
      BY DEF Matched
    <3>3. Matches(v, g)'
      BY <3>1, <3>2, Zenon DEF Matches, Derive
    <3> QED
      BY <3>3 DEF Matched
  <2> QED
    BY <2>2, <2>3
<1>6. CASE CapriseRestart
  <2> SUFFICES ASSUME NEW v \in Tenants PROVE Matched(v)'
    OBVIOUS
  <2>1. indices'[v] = <<>>
    BY <1>6 DEF CapriseRestart
  <2>2. Matches(v, <<>>)'
    BY <2>1 DEF Matches
  <2> QED
    BY <2>2 DEF Matched
<1>7. CASE UNCHANGED caprise_vars
  BY <1>3, <1>7 DEF caprise_vars
<1> QED
  BY <1>1, <1>2, <1>4, <1>5, <1>6, <1>7 DEF CapriseNext

LEMMA SameCardinality ==
  ASSUME NEW S
  PROVE  Cardinality(S) = Cardinality(S)
BY Zenon DEF Cardinality, Cardinality

(* The hits of a query are records of different sends.                     *)
LEMMA QueryReturnsSends ==
  ASSUME CapriseInv, \A v \in Tenants : Matched(v),
         NEW t \in Tenants, NEW u \in Users, NEW k \in 1 .. 2,
         Query(t, u, k) \/ QueryEmbedFails(t, u)
  PROVE  HitsAreSends'
<1> SUFFICES ASSUME NEW c \in Chunks
             PROVE  Cardinality({i \in DOMAIN reply'.hits : reply'.hits[i] = c}) <=
                      Cardinality({i \in DOMAIN sent'[reply'.tenant[1]] :
                                     sent'[reply'.tenant[1]][i] = <<c, reply'.user[1]>>})
  BY SameCardinality DEF HitsAreSends
<1>1. reply'.tenant[1] = t /\ reply'.user[1] = u /\ sent' = sent
  BY DEF Query, QueryEmbedFails, QueryFailed, Reply
<1> DEFINE T == {i \in DOMAIN sent[t] : sent[t][i] = <<c, u>>}
           H == {i \in DOMAIN reply'.hits : reply'.hits[i] = c}
<1>2. IsFiniteSet(T) /\ Cardinality(T) \in Nat
  <2>1. DOMAIN sent[t] = 1 .. Len(sent[t]) /\ Len(sent[t]) \in Nat
    BY DEF CapriseInv, CapriseTypeOK
  <2>2. IsFiniteSet(1 .. Len(sent[t]))
    BY <2>1, FS_Interval
  <2>3. T \in SUBSET (1 .. Len(sent[t]))
    BY <2>1
  <2> QED
    BY <2>2, <2>3, FS_Subset, FS_CardinalityType
<1>3. CASE reply'.hits = <<>>
  <2>1. H = {} /\ Cardinality(H) = 0
    BY <1>3, FS_EmptySet
  <2> HIDE DEF H, T
  <2>2. Cardinality(H) <= Cardinality(T)
    BY <1>2, <2>1
  <2> QED
    BY <1>1, <2>2 DEF H, T
<1>4. ASSUME NEW r \in Ranking(t, k),
             \A i \in DOMAIN r : indices[t][r[i]].key = Derive(u, secrets[t], t),
             reply' = Reply("query", 200, u, t, [i \in DOMAIN r |-> indices[t][r[i]].chunk])
      PROVE  Cardinality(H) <= Cardinality(T)
  <2>1. PICK g : Matches(t, g)
    BY DEF Matched
  <2>2. /\ \A i \in DOMAIN r : r[i] \in DOMAIN indices[t]
        /\ \A i, j \in DOMAIN r : r[i] = r[j] => i = j
    <3>1. indices[t] \in Seq(Record) /\ Len(indices[t]) \in Nat /\ DOMAIN indices[t] = 1 .. Len(indices[t])
      BY DEF CapriseInv, CapriseTypeOK
    <3> QED
      BY <3>1 DEF Ranking
  <2>3. reply'.hits = [i \in DOMAIN r |-> indices[t][r[i]].chunk]
    BY <1>4 DEF Reply
  <2>4. H = {i \in DOMAIN r : indices[t][r[i]].chunk = c}
    BY <2>3
  <2>5. ASSUME NEW i \in H
        PROVE  g[r[i]] \in T
    <3>1. i \in DOMAIN r /\ r[i] \in DOMAIN indices[t] /\ indices[t][r[i]].chunk = c
      BY <2>2, <2>4
    <3>2. indices[t][r[i]] = [chunk |-> sent[t][g[r[i]]][1],
                              key |-> Derive(sent[t][g[r[i]]][2], secrets[t], t)]
      BY <2>1, <3>1 DEF Matches
    <3>3. sent[t][g[r[i]]][1] = c
      BY <3>1, <3>2
    <3>4. Derive(sent[t][g[r[i]]][2], secrets[t], t) = Derive(u, secrets[t], t)
      BY <1>4, <3>1, <3>2
    <3>5. sent[t][g[r[i]]][2] = u
      BY <3>4 DEF Derive
    <3>6. g[r[i]] \in DOMAIN sent[t]
      BY <2>1, <3>1 DEF Matches
    <3>7. sent[t][g[r[i]]] \in Chunks \X Users
      BY <3>6 DEF CapriseInv, CapriseTypeOK
    <3> QED
      BY <3>3, <3>5, <3>6, <3>7
  <2>6. ASSUME NEW i \in H, NEW j \in H, g[r[i]] = g[r[j]]
        PROVE  i = j
    BY <2>1, <2>2, <2>4, <2>6 DEF Matches
  <2> HIDE DEF H, T
  <2>7. [i \in H |-> g[r[i]]] \in Injection(H, T)
    BY <2>5, <2>6 DEF Injection, IsInjective
  <2> QED
    BY <1>2, <2>7, FS_Injection
<1>5. \/ reply'.hits = <<>>
      \/ \E r \in Ranking(t, k) :
           /\ \A i \in DOMAIN r : indices[t][r[i]].key = Derive(u, secrets[t], t)
           /\ reply' = Reply("query", 200, u, t, [i \in DOMAIN r |-> indices[t][r[i]].chunk])
  BY DEF Query, QueryEmbedFails, QueryFailed, Reply
<1>6. Cardinality(H) <= Cardinality(T)
  BY <1>1, <1>3, <1>4, <1>5
<1> QED
  BY <1>1, <1>6

-----------------------------------------------------------------------------
(* The secrets, the indices and the histories have their types. *)
THEOREM CapriseTypeCorrect == CapriseSpec => []CapriseTypeOK
<1>1. CapriseInit => CapriseInv
  BY CapriseStarts
<1>2. CapriseInv /\ [CapriseNext]_caprise_vars => CapriseInv'
  BY CapriseStepKeepsInv
<1>3. CapriseInv => CapriseTypeOK
  BY DEF CapriseInv
<1> QED
  BY <1>1, <1>2, <1>3, PTL DEF CapriseSpec

LEMMA TracedRecordsAreLive ==
  ASSUME CapriseInv
  PROVE  RecordsUnderLiveSecret
<1>1. SUFFICES ASSUME NEW t \in Tenants, NEW i \in DOMAIN indices[t]
               PROVE  secrets[t] # 0 /\ \E u \in Users : indices[t][i].key = Derive(u, secrets[t], t)
  BY DEF RecordsUnderLiveSecret
<1>2. PICK j \in DOMAIN sent[t] :
        /\ secrets[t] # 0
        /\ indices[t][i] = [chunk |-> sent[t][j][1], key |-> Derive(sent[t][j][2], secrets[t], t)]
  BY DEF CapriseInv, Traced
<1>3. sent[t][j] \in Chunks \X Users
  BY DEF CapriseInv, CapriseTypeOK
<1>4. sent[t][j][2] \in Users
  BY <1>3
<1> QED
  BY <1>2, <1>4

(* No request, however it ends, leaves a record that its user cannot       *)
(* decrypt (ingest_for, forget_tenant and the restart of the service).     *)
THEOREM LiveSecrets == CapriseSpec => []RecordsUnderLiveSecret
<1>1. CapriseInit => CapriseInv
  BY CapriseStarts
<1>2. CapriseInv /\ [CapriseNext]_caprise_vars => CapriseInv'
  BY CapriseStepKeepsInv
<1>3. CapriseInv => RecordsUnderLiveSecret
  BY TracedRecordsAreLive
<1> QED
  BY <1>1, <1>2, <1>3, PTL DEF CapriseSpec

(* What ingest_for acknowledged stays in the index under its user's key.   *)
THEOREM AcknowledgedChunks == CapriseSpec => []AckedIsHeld
<1>1. CapriseInit => CapriseInv
  BY CapriseStarts
<1>2. CapriseInv /\ [CapriseNext]_caprise_vars => CapriseInv'
  BY CapriseStepKeepsInv
<1>3. CapriseInv => AckedIsHeld
  BY DEF CapriseInv, Held, AckedIsHeld
<1> QED
  BY <1>1, <1>2, <1>3, PTL DEF CapriseSpec

(* query_for fails to decrypt a hit only where a chunk was sent under      *)
(* another user's secret.                                                  *)
THEOREM QueryFailures == CapriseSpec => []QueryFailsOnlyOnMixedKeys
<1>1. CapriseInit => CapriseInv /\ QueryFailsOnlyOnMixedKeys
  BY CapriseStarts
<1>2. CapriseInv /\ [CapriseNext]_caprise_vars => CapriseInv'
  BY CapriseStepKeepsInv
<1>3. CapriseInv /\ QueryFailsOnlyOnMixedKeys /\ [CapriseNext]_caprise_vars => QueryFailsOnlyOnMixedKeys'
  <2> SUFFICES ASSUME CapriseInv, QueryFailsOnlyOnMixedKeys, [CapriseNext]_caprise_vars
               PROVE  QueryFailsOnlyOnMixedKeys'
    OBVIOUS
  <2>1. CASE \E t \in Tenants, u \in Users, k \in 1 .. 2 : Query(t, u, k)
    BY <2>1, QueryMeetsSenders
  <2>2. CASE UNCHANGED caprise_vars
    BY <2>2 DEF caprise_vars, QueryFailsOnlyOnMixedKeys
  <2>3. ASSUME reply'.cause # "decrypt"
        PROVE  QueryFailsOnlyOnMixedKeys'
    BY <2>3 DEF QueryFailsOnlyOnMixedKeys
  <2> QED
    BY <2>1, <2>2, <2>3, OtherReplies
<1> QED
  BY <1>1, <1>2, <1>3, PTL DEF CapriseSpec

(* A chunk comes out of query_for at most as often as it was sent to the   *)
(* tenant under the user's secret, however many ingests failed half way.   *)
THEOREM HitsBounded == CapriseSpec => []HitsAreSends
<1> DEFINE Inv == CapriseInv /\ (\A v \in Tenants : Matched(v)) /\ HitsAreSends
<1>1. CapriseInit => Inv
  <2> SUFFICES ASSUME CapriseInit PROVE Inv
    OBVIOUS
  <2>1. \A v \in Tenants : Matched(v)
    BY NoRecordsMatched DEF CapriseInit
  <2>2. HitsAreSends
    BY DEF CapriseInit, Silence, HitsAreSends
  <2> QED
    BY <2>1, <2>2, CapriseStarts
<1>2. Inv /\ [CapriseNext]_caprise_vars => Inv'
  <2> SUFFICES ASSUME Inv, [CapriseNext]_caprise_vars PROVE Inv'
    OBVIOUS
  <2>1. CapriseInv' /\ \A v \in Tenants : Matched(v)'
    BY CapriseStepKeepsInv, StepKeepsMatched
  <2>2. CASE \E t \in Tenants, u \in Users :
               QueryEmbedFails(t, u) \/ \E k \in 1 .. 2 : Query(t, u, k)
    <3>1. 1 \in 1 .. 2
      OBVIOUS
    <3> QED
      BY <2>1, <2>2, <3>1, QueryReturnsSends
  <2>3. CASE UNCHANGED caprise_vars
    BY <2>1, <2>3 DEF caprise_vars, HitsAreSends
  <2>4. ASSUME reply'.to # "query"
        PROVE  Inv'
    BY <2>1, <2>4 DEF HitsAreSends
  <2> QED
    BY <2>2, <2>3, <2>4, OtherReplies
<1>3. Inv => HitsAreSends
  OBVIOUS
<1> HIDE DEF Inv
<1> QED
  BY <1>1, <1>2, <1>3, PTL DEF CapriseSpec
=============================================================================
