\* Two tenants, two users, two chunks, requests of up to two chunks, three
\* secrets: a tenant, a second life of it, and a second tenant.
SPECIFICATION CapriseSpec
CONSTANTS
  Tenants = {t1, t2}
  Users = {u1, u2}
  Chunks = {c1, c2}
  MaxSecrets = 3
  MaxSends = 2
SYMMETRY Symmetry
INVARIANTS
  RecordsUnderLiveSecret
  AckedIsHeld
  QueryFailsOnlyOnMixedKeys
  HitsAreSends
