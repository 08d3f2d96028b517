SPECIFICATION Spec
CONSTANTS
  Writers = {w1, w2, w3}
  Retrying = {w1, w2}
  MaxAttempts = 2
  MaxDay = 2
  Batches <- MCBatches
  Overlap = "staging"
INVARIANTS ChainLinked AllOrNothing TrailIsWhole
PROPERTIES AppendOnly ImplementsAuditLog
