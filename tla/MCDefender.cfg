SPECIFICATION FairSpec
CONSTANTS
  Names = {"x", "y", "z"}
  Bodies = {"b", "c"}
  Checkouts <- MCCheckouts
  InitialRules <- MCInitialRules
  MaxVerify = 2
  MaxRuns = 3
  MaxEdits = 1
  MaxRetries = 1
INVARIANT NoSecondRule
PROPERTIES RenamedInPlace EveryRunEnds
CHECK_DEADLOCK FALSE
