\* A committed hook is lost and the ref returns to its old value.
CONSTANTS
  zero = zero
  r1 = r1
  op1 = op1
  Pushes = {p1, p2, p3}
  Agents = {g1}
  Revs = {zero, r1}
  Zero = zero
  Ops = {op1}
  Needs <- LeavingR1Governed
  NoOne = NoOne
  Frozen = Frozen
  Free = Free
  MaxApprovals = 2
  MayLose = TRUE
  MayDie = FALSE
  MayRace = FALSE
  MayMaintain = FALSE
SYMMETRY Symmetry
SPECIFICATION Spec
CHECK_DEADLOCK FALSE
INVARIANT
  ApprovalAuthorizesOnce
