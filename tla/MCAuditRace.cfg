SPECIFICATION FairSpec
CONSTANTS
  Writers = {w1, w2, w3}
  Retrying = {w1, w2}
  MaxAttempts = 2
  MaxDay = 2
  Batches <- MCOneRecord
  Overlap = "free"
INVARIANT CollisionsPaidFor
PROPERTY EveryWriterFinishes
