SPECIFICATION StreamSpec
CONSTANTS
  Channels = {"session_1", "cam"}
  PublishEveryFrame = FALSE
  WireLimit = 1
  MaxMoves = 5
INVARIANT StoppedChannelsClear
CHECK_DEADLOCK FALSE
