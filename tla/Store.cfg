SPECIFICATION FairSpec
CONSTANTS
  Inits <- MCInits
  Commands <- MCCommands
  Nobody = Nobody
  Build <- MCBuild
  Top = 2
  Statements = 2
  Creating <- MCCreating
  MaxFaults = 3
  init1 = init1
  init2 = init2
  old = old
  new = new
CHECK_DEADLOCK FALSE
INVARIANTS
  TypeOK
  MigrationsAreWhole
PROPERTIES
  CommandsFindTheirSchema
  InitConverges
  ImplementsSerialStore
