SPECIFICATION SoundSpec
CONSTANTS
  MaxPieces = 2
  MaxWrites = 2
  MaxOpens = 2
  MaxControls = 1
  MaxFailures = 0
INVARIANTS
  PlaybackAssert
CHECK_DEADLOCK FALSE
