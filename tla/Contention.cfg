\* Two tasks of one repository fight for branches and scopes; no handoffs.
CONSTANTS
  t1 = t1
  t2 = t2
  a1 = a1
  a2 = a2
  Tasks = {t1, t2}
  Agents = {a1, a2}
  Branches = {b1, b2}
  Globs = {g1, g2}
  ClaimIds = {c1, c2}
  HandoffIds = {}
  Operators = {a1}
  RepoOf <- OneRepository
  Overlap <- SameGlob
  Leases = {1}
  Nobody = Nobody
  MaxNow = 2
  MaxGrants = 1
SYMMETRY Symmetry
SPECIFICATION Spec
CHECK_DEADLOCK FALSE
INVARIANTS
  BranchExclusive
  OverlapIsRecorded
PROPERTIES
  TakeoverIsAtomic
