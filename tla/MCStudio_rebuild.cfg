SPECIFICATION StudioSpec
CONSTANTS
  Cameras = {"cam"}
  MaxEvents = 0
  MaxPlugs = 0
  DeviceLabels = {"ply_1", "ply_2"}
  GroupLabels = {"group_1", "group_2"}
  SessionLabels = {"session_1", "session_2"}
  OperatorLabels = {"noise_1", "noise_2"}
  MaxNodes = 4
  MaxOperators = 3
  MaxSessions = 2
  MaxCalls = 0
  Opening <- GroupWithDevice
  FrameQueueMax = 1
  DepthModulus = 8
  MaxFrames = 0
  MaxTakes = 0
  Configurations <- Workspaces
  LoadedDevices = {"PlyDevice", "OrbbecDevice"}
  LoadedOperators = {"Noise"}
  FieldValues = {0, 1}
  MaxApplies = 2
  MaxSets = 1
  Clips = {"a"}
  Folders = {"d"}
  MaxFileEdits = 3
  None = "none"
  Placements = {0, 10, 30}
  PickErrors = {0, 10}
  MaxPairs = 3
  MaxSnapshots = 2
  MaxPlacings = 2
PROPERTIES
  UnchangedKeepsPipeline
CHECK_DEADLOCK FALSE
