CONSTANTS
  InHouse = {d1}
  Trello = {t1, t2}
  Admin = Admin
  NoOne = NoOne
  CrossDrag = FALSE
SPECIFICATION FairSpec
INVARIANTS
  CardIsTagged
  OneTrelloHolder
PROPERTIES
  LeaseOfTakenCardRunsOut
