\* Hooks are lost and Git dies; time passes and doctor runs.
CONSTANTS
  zero = zero
  r1 = r1
  op1 = op1
  Pushes = {p1, p2}
  Agents = {g1}
  Revs = {zero, r1}
  Zero = zero
  Ops = {op1}
  Needs <- LeavingR1Governed
  NoOne = NoOne
  Frozen = Frozen
  Free = Free
  MaxApprovals = 2
  MayLose = TRUE
  MayDie = TRUE
  MayRace = FALSE
  MayMaintain = FALSE
SPECIFICATION FairSpec
CHECK_DEADLOCK FALSE
PROPERTIES
  NothingSpentForNothing
  PreparedIsSettled
