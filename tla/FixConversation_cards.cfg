CONSTANTS
  Admins = {a1, a2}
  Shared = Shared
  Sessions = {p1, p2}
  MaxCards = 1
  MaxPrompts = 1
SPECIFICATION Spec
SYMMETRY Symmetry
INVARIANTS
  OneReleasePerCard
  OneAlertPerRelease
