SPECIFICATION PlaybackSpec
CONSTANTS
  Scenarios <- Played
  FramesPerGen = 2
  SocketCap = 2
  SeekThreshold = 3
  GateWindow = 5
  Threshold = 0
  TargetFrames = 2
  ReadyWait = 2
  MaxConsecutiveEarly = 2
  NoFrame = NoFrame
INVARIANTS
  PlaybackInv
  NothingHeardAgain
PROPERTIES
  TrackKept
CHECK_DEADLOCK FALSE
