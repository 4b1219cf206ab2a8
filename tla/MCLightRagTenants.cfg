\* Three tasks on two tenants: every race of two ingests with a query or a
\* forget, with disconnects and restarts in between.  No symmetry: a liveness
\* property is checked.
SPECIFICATION FairSpec
CONSTANTS
  Tenants = {t1, t2}
  Requests = {r1, r2, r3}
  Nobody = Nobody
  MaxIngests = 2
INVARIANTS
  SearchExclusive
  LocksNest
  TenantIsolation
PROPERTIES
  SecretKeptUnlessRaced
  RequestsEnd
