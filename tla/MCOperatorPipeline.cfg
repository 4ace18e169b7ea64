SPECIFICATION FairSpec
CONSTANTS
  NumWorkers = 2
  MaxQueueSize = 0
  MaxFrames = 4
  MaxRebuilds = 1
INVARIANTS
  OneHolderPerFrame
  NoWorkerOutlivesPipeline
  NewestIsKept
PROPERTIES
  ImplementsMailbox
  NewestIsShown
  StopEndsOrMissedAbort
CHECK_DEADLOCK FALSE
