SPECIFICATION Spec
CONSTANTS
  s = s
  t = t
  g = g
  h = h
  PathRank <- MCPathRank
  Slugs = {s, t}
  Guids = {g, h}
  Bodies = {b1, b2}
  None = None
  Suppressions <- MCSuppressions
  MaxVersion = 3
  MaxPortal = 2
  MaxGit = 2
  MaxRuns = 2
PROPERTIES RoundTrip OneFilePerRule ImportKeepsFiles
CHECK_DEADLOCK FALSE
SYMMETRY MCInterchangeable
