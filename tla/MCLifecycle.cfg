SPECIFICATION Spec
CONSTANTS
  r1 = r1
  r2 = r2
  Rules = {r1, r2}
  Clones = {c, d}
  Selections <- MCSelections
  Workspaces <- MCWorkspaces
  InitialFiles <- MCInitialFiles
  MaxAge = 0
  Threshold = 50
  MaxDay = 1
  MaxVersion = 2
  MaxPrs = 2
  MaxCommands = 2
SYMMETRY Interchangeable
INVARIANT NothingToldUnearned
PROPERTIES PromotionsStamped 
CHECK_DEADLOCK FALSE
