SPECIFICATION Spec
CONSTANTS
  NumWorkers = 2
  MaxQueueSize = 0
  MaxFrames = 2
  MaxRebuilds = 0
PROPERTY OutputMonotonic
CHECK_DEADLOCK FALSE
