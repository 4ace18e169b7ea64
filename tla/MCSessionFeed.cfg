SPECIFICATION FairSpec
CONSTANTS
  Devices = {1}
  Memberships <- OneOrNone
  Workers = 2
  MaxChanges = 2
  MaxEdits = 1
INVARIANTS NoCallLost QuietShowsDevices QuietDrawsOneFrame
PROPERTIES FeedSettles
CHECK_DEADLOCK FALSE
