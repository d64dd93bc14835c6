SPECIFICATION FairSpec
CONSTANTS
  MaxPieces = 2
  MaxWrites = 2
  MaxOpens = 2
  MaxControls = 1
  MaxFailures = 1
INVARIANTS
  PositionsMatch
  IdleIsQuiet
PROPERTIES
  CallsReturn
CHECK_DEADLOCK FALSE
