SPECIFICATION Spec
CONSTANTS
  None = None
  NoArm = None
  Old = Old
  New = New
  Bodies = {Old, New}
  Drafts <- MCDrafts
  Slug <- MCSlug
  Guid <- MCGuid
  HandMade <- MCHandMade
  MaxGit = 3
  MaxPortal = 3
  MaxRuns = 5
  MaxFaults = 1
PROPERTIES
  NeverHalfDeployed
  RulesFindTheirTargets
  CollectedAppliesAsNoOp
  PrunesSpareOthers
CHECK_DEADLOCK FALSE
