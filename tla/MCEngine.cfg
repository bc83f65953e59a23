SPECIFICATION MCSpec
CONSTANTS
  a = a
  b = b
  c = c
  Tracks = {a, b}
  NoTrack = NoTrack
  Duration <- TwoDurations
  ScrobbleCap = 2
  RestartThreshold = 1
  MaxPos = 3
  MaxQueue = 3
  Volumes = {1, 2}
  FullVolume = 2
INVARIANTS
  TypeOK
  PlayOrderInSync
  CurrentIsQueued
  SnapshotAgrees
  FactorOfCurrent
  StoppedIsDark
PROPERTIES
  StatusAnnounced
  EveryListenRecordedOnce
  PlayNextComesNext
  ImplementsPlaylist
VIEW FocusWithoutOutputs
CHECK_DEADLOCK FALSE
