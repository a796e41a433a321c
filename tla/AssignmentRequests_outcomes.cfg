CONSTANTS
  NumRequests = 2
  Asking = {1}
  Syncs = {s1}
  MaxFaults = 1
  MaxTries = 2
SPECIFICATION FairSpec
CHECK_DEADLOCK FALSE
INVARIANTS
  OutcomeIsHonest
  FailureIsAnnounced
  MirrorIsTrue
PROPERTIES
  RequestEnds
