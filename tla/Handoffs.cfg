\* Two tasks, two handoffs and a reclaim after an expired lease.
CONSTANTS
  t1 = t1
  t2 = t2
  a1 = a1
  a2 = a2
  Tasks = {t1, t2}
  Agents = {a1}
  Branches = {b1, b2}
  Globs = {g1}
  ClaimIds = {c1, c2, c3}
  HandoffIds = {h1, h2}
  Operators = {a1}
  RepoOf <- OneRepository
  Overlap <- SameGlob
  Leases = {1}
  Nobody = Nobody
  MaxNow = 2
  MaxGrants = 0
SYMMETRY Symmetry
SPECIFICATION Spec
CHECK_DEADLOCK FALSE
INVARIANTS
  TypeOK
  OneOwner
  ReservationsCollideOnlyAfterExpiry
PROPERTIES
  ImplementsTaskBoard
