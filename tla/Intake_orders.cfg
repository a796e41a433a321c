CONSTANTS
  Callers = {c1, c2}
  NoCaller = NoCaller
  Faults = {"raise", "slow", "crash"}
  Sessions = {"scan", "refresh", "scrape"}
  MaxEdits = 2
SYMMETRY CyclesAlike
SPECIFICATION IntakeSpec
INVARIANTS
  AnswersStand
  EffectOnce
  SettledImportIsAnswered
PROPERTIES
  FileImportedOnce
  RichGalleryStays
