SPECIFICATION Spec
CONSTANTS
  r1 = r1
  r2 = r2
  r3 = r3
  Rules = {r1, r2}
  Kind <- OneKind
  Statuses = {"test", "production"}
  Flows = {"rollback", "retry"}
  MaxDeletes = 1
  MaxApply = 1
  FetchMayFail = FALSE
  MaxFiles = 1
  MaxCommits = 3
  MaxRuns = 3
SYMMETRY Interchangeable
INVARIANTS OnlyClearedTextsLive SuccessIsRemembered
PROPERTIES OnlyRollbackGoesBack ReplaysHonourLocks
CHECK_DEADLOCK FALSE
