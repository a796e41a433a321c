CONSTANTS
  Candidates = {c1, c2}
  Supports = {s1, s2}
  Admins = {}
  Workers = {w1, w2}
  NoCandidate = NoCandidate
  MaxFailures = 1
SPECIFICATION PairSpec
INVARIANTS
  OneVerdict
  LotTagHasVerdict
  ChosenPairIsOpen
  SettledPairIsWithdrawn
