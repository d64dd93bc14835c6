SPECIFICATION FairSpec
CONSTANTS
  Key = {f12, ret, cbm, f7}
  MenuKey = f12
  ReturnKey = ret
  ModifierKey = cbm
  ComboKey = f7
  MaxReports = 5
  None = None
INVARIANTS
  OnlyOsdWhileRunning
  MenuHasTrap
  StuckOnlyAcrossMenu
PROPERTIES
  MenuAfterSubmit
  CountdownEnds
  EventsReachEmulator
  SlotIsServed
