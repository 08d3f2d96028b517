SPECIFICATION FairSpec
CONSTANTS
  r1 = r1
  r2 = r2
  r3 = r3
  Rules = {r1, r2, r3}
  Kind <- OneKind
  Statuses = {"production"}
  Flows = {"prune"}
  MaxDeletes = 1
  MaxApply = 2
  FetchMayFail = TRUE
  MaxFiles = 2
  MaxCommits = 2
  MaxRuns = 2
INVARIANTS PruneStaysInBounds
PROPERTIES EveryRunEnds
CHECK_DEADLOCK FALSE
