SPECIFICATION Spec
CONSTANTS
  Pictures = {1, 2}
  Palettes = {1, 2}
  Geometries = {1, 2}
  Setups <- MCSetups
INVARIANTS
  CallsLegal
  LayersMatchFlags
  ShaderCurrent
  FrameIsSeen
  EnabledIsShown
  PacedByVblank
