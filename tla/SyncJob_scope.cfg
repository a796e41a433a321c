CONSTANTS
  Requests = {r1, r2}
  Places = {"celery", "local"}
  JobFaults = {"late", "crash"}
SPECIFICATION JobFairSpec
INVARIANTS
  OneActiveJob
PROPERTIES
  EndedStaysEnded
  JobEnds
