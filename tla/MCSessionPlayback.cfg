SPECIFICATION FairSpec
CONSTANTS
  DeviceCount = 1
  Counts = {0, 3}
  Ranges <- MCRanges
  Positions <- MCPositions
  LoopRegions <- MCRegions
  Timelines <- MCTimelines
  MaxAdvance = 2
  MaxCalls = 2
  MaxEdits = 1
PROPERTIES AdvanceStaysInLoop PlayingRealigns OneShotEnds
