SPECIFICATION Spec
CONSTANTS
  NoRule = NoRule
  Nothing = Nothing
  Absent = Absent
  Slug <- MCSlug
  Strict <- MCStrict
  Climbing <- MCClimbing
  Loose <- MCLoose
  Tactics <- MCTactics
  OtherTactics <- MCOtherTactics
  FiledUnder <- MCFiledUnder
  ParentOf <- MCParentOf
  Spelt <- MCSpelt
  TacticNamed <- MCTacticNamed
  Stripped <- MCStripped
  NoId = NoId
  Assets <- MCAssets
CHECK_DEADLOCK FALSE
INVARIANTS
  ChecksMeanWhatTheySay
  AlertsAccountedFor
  
  RoundTrips
  CoverageTold
