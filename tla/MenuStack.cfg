SPECIFICATION Spec
CONSTANTS
  Menus <- MCMenus
  Levels <- MCLevels
  Lists <- MCLists
  PageRows = 2
  Roots = 5
  MaxBatch = 2
INVARIANTS CursorInView CallbacksMatch ClosedIsClean ChoicesAreEnabled
PROPERTIES LossesAreExplained
CHECK_DEADLOCK FALSE
