\* Everything goes wrong: lost and late hooks, dead processes, identical pushes.
CONSTANTS
  zero = zero
  r1 = r1
  op1 = op1
  Pushes = {p1, p2}
  Agents = {g1, g2}
  Revs = {zero, r1, r2}
  Zero = zero
  Ops = {op1}
  Needs <- LeavingR1Governed
  NoOne = NoOne
  Frozen = Frozen
  Free = Free
  MaxApprovals = 2
  MayLose = TRUE
  MayDie = TRUE
  MayRace = TRUE
  MayMaintain = TRUE
SYMMETRY Symmetry
CONSTRAINT Unclaimed
SPECIFICATION Spec
CHECK_DEADLOCK FALSE
INVARIANTS
  SpendingBalances
  OneLiveInstance
  RowsAreNotShared
