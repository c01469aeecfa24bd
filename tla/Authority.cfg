\* Roles and policy change around the votes on two instances.
CONSTANTS
  Agents = {a1, a2, a3}
  Nobody = Nobody
  Inherit = Inherit
  Defaults <- TwoDefaults
  Overrides <- OneOverride
  MaxInstances = 2
SPECIFICATION Spec
CHECK_DEADLOCK FALSE
SYMMETRY Symmetry
INVARIANTS
  TypeOK
  DenialWins
  TwoPersonRule
  EngineAgrees
PROPERTIES
  OthersSuffice
  BootstrapEndsForGood
