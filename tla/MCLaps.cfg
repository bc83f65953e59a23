SPECIFICATION LapSpec
CONSTANTS
  a = a
  b = b
  c = c
  Tracks = {a, b, c}
  NoTrack = NoTrack
  Duration <- NoDurations
  ScrobbleCap = 2
  RestartThreshold = 0
  MaxPos = 0
  MaxQueue = 3
  Volumes = {2}
  FullVolume = 2
PROPERTIES
  EveryTrackComesRound
  PlaysOut
CHECK_DEADLOCK FALSE
