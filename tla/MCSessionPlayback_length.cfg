SPECIFICATION Spec
CONSTANTS
  DeviceCount = 1
  Counts = {2, 3}
  Ranges <- OneRange
  Positions = {}
  LoopRegions <- NoRegions
  Timelines <- MCTimelines
  MaxAdvance = 2
  MaxCalls = 2
  MaxEdits = 1
INVARIANTS PlaysTheLengthItShows
