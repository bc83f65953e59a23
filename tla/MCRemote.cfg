CONSTANTS
  a = a
  b = b
  Tracks = {a, b}
  NoTrack = NoTrack
  Duration <- NoDurations
  ScrobbleCap = 2
  RestartThreshold = 0
  MaxPos = 1
  MaxQueue = 4
  Volumes = {1, 2}
  FullVolume = 2
  Uploads <- ThreeUploads
  MaxIndex = 1
  MaxSends = 3
  MaxUnread = 1
SPECIFICATION MCSpec
VIEW WithoutOutputs
INVARIANTS
  RemoteTypeOK
  BridgeConverges
PROPERTIES
  PlayPauseTurns
  EveryCommandTaken
CHECK_DEADLOCK FALSE
