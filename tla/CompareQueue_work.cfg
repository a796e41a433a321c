CONSTANTS
  Orders = {o1}
  Agents = {a1, a2}
  MaxJobs = 2
  MaxSearches = 1
  MaxGrants = 1
  MaxFaults = 1
SPECIFICATION FairSpec
INVARIANTS
  ComparedOnce
  BatchIsNotComparedWithItself
PROPERTIES
  ImplementsRegister
  WorkEnds
CHECK_DEADLOCK FALSE
