SPECIFICATION Spec
CONSTANTS
  a = a
  b = b
  c = c
  Tracks = {a, b}
  NoTrack = NoTrack
  Duration <- TwoDurations
  ScrobbleCap = 2
  RestartThreshold = 0
  MaxPos = 1
  MaxQueue = 2
  Volumes = {2}
  FullVolume = 2
PROPERTIES
  AdditionsAreAudible
VIEW WithoutOutputs
CHECK_DEADLOCK FALSE
