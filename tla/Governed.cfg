SPECIFICATION Spec
CONSTANTS
  Updates = {u1, u2, u3}
  Refs <- MCRefs
  Default = main
  Commits <- MCCommits
  Zero = Zero
  Reach <- MCReach
  Paths <- MCPaths
  Touches <- MCTouches
  Globs <- MCGlobs
  Covers <- MCCovers
  Claimable <- MCClaimable
  Pushable <- MCPushable
  InitialHubs <- MCHubs
  InitialRules <- MCRules
  MaxRuleChanges = 1
  MaxGlob = 3
  MaxPath = 3
  root = root
  mine = mine
  secret = secret
  merge = merge
  main = main
  feat = feat
  wip = wip
SYMMETRY Sym
INVARIANTS
  TypeOK
  PlanMatchesGate
PROPERTIES
  FreshContentIsGoverned
  ClaimedBranchCarriesScopedWork
  ApprovalsStayValid
CHECK_DEADLOCK FALSE
