\* Outcome hooks arrive in time, and no two pushes make the same update at once;
\* Git may die under the lock.
CONSTANTS
  zero = zero
  r1 = r1
  op1 = op1
  Pushes = {p1, p2, p3}
  Agents = {g1, g2}
  Revs = {zero, r1}
  Zero = zero
  Ops = {op1}
  Needs <- LeavingR1Governed
  NoOne = NoOne
  Frozen = Frozen
  Free = Free
  MaxApprovals = 2
  MayLose = FALSE
  MayDie = TRUE
  MayRace = FALSE
  MayMaintain = FALSE
SYMMETRY Symmetry
SPECIFICATION Spec
CHECK_DEADLOCK FALSE
INVARIANTS
  TypeOK
  ApprovalAuthorizesOnce
  LedgerTellsTruth
PROPERTIES
  MovesArePaid
  ImplementsPaidRef
