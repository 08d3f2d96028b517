SPECIFICATION Spec
CONSTANTS
  Appliers = {a1}
  Pruners = {p1}
  Bodies = {b1}
  PortalBody = portal
  MaxEdits = 2
  MaxRetries = 1
INVARIANTS NothingUnseenOverwritten AppliedOnce SuccessTookEffect
PROPERTY ConclusiveIsFinal
CHECK_DEADLOCK FALSE
