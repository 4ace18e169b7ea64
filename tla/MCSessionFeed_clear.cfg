SPECIFICATION Spec
CONSTANTS
  Devices = {1}
  Memberships <- OneOrNone
  Workers = 1
  MaxChanges = 2
  MaxEdits = 0
INVARIANTS NothingFedShowsNothing
CHECK_DEADLOCK FALSE
