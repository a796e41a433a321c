CONSTANTS
  NumSlots = 2
  MaxImages = 2
  MaxRounds = 2
  MaxCount = 2
  MaxRetries = 1
  Syncs = {"active", "selected"}
  Features = {}
SPECIFICATION FairSpec
INVARIANTS
  SubmissionNeverSilentlyLost
  FixCountedOnce
  ReviewCarriesItsImages
PROPERTIES
  SubmissionSettles
