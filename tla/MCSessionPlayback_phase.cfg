SPECIFICATION Spec
CONSTANTS
  DeviceCount = 2
  Counts = {3}
  Ranges <- OneRange
  Positions = {}
  LoopRegions <- NoRegions
  Timelines <- Default
  MaxAdvance = 2
  MaxCalls = 2
  MaxEdits = 0
INVARIANTS PausedInPhase
