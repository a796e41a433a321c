CONSTANTS
  NumSlots = 2
  MaxImages = 2
  MaxRounds = 2
  MaxCount = 2
  MaxRetries = 0
  Syncs = {"active"}
  Features <- Moves
SPECIFICATION Spec
INVARIANTS
  WorkedFixIsReleased
