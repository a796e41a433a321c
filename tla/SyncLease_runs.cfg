CONSTANTS
  Runs = {r1, r2, r3}
  NoRun = NoRun
  Faults = {"late", "crash", "db", "reset"}
SPECIFICATION FairSpec
PROPERTIES
  LossIsFinal
  AbandonedLeaseIsFreed
  ReclaimedRunFindsOut
