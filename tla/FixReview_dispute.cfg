CONSTANTS
  NumSlots = 1
  MaxImages = 2
  MaxRounds = 2
  MaxCount = 3
  MaxRetries = 1
  Syncs = {"active"}
  Features = {"dispute", "expire"}
SPECIFICATION FairSpec
INVARIANTS
  DisputedOnce
  QueuedDisputeHasTask
PROPERTIES
  RecountOnlyAfterAlert
  DisputeSettles
