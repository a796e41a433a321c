CONSTANTS
  Orders = {o1, o2}
  Designers = {d1, d2}
  Nobody = Nobody
  Payers = {p1}
  Rates = {1, 2}
  MaxChanges = 3
SPECIFICATION Spec
INVARIANTS
  RecordedOncePerPayment
  PagesMatchHistory
PROPERTIES
  TransferIsRecorded
