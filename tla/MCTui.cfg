CONSTANTS
  s1 = s1  s2 = s2  p1 = p1  p2 = p2  x1 = x1  x2 = x2
  NoId = NoId
  Songs <- TwoSongs
  Matching <- OneFilter
  MaxScroll = 1
  Playing <- NoSongOrSome
  Nothing = "nothing"
  APPLY_LOG_LINES = 1
  MaxHead = 3
  MaxEvents = 3
  MaxJobs = 2
  PlaylistIds = {p1, p2}
  Tracklists <- SmallTracklists
  Shelves <- SmallShelves
  Dashboards <- SmallDashboards
  Queues <- SmallQueues
  FirstPlaylists <- SmallPlaylists
  HOME_PREVIEW_ROWS = 2
  MaxDepth = 3
  MaxPlaylist = 3
SPECIFICATION MCSpec
VIEW WithoutSent
INVARIANTS
  TypeOK
  MarksAreListed
  OverlaysFit
  JobMatchesState
  AppliedMeansBoth
  PanelShowsCurrent
PROPERTIES
  CursorLostOnlyByRefetch
  OnlyChosenRemoved
  PlaysWhatIsListed
  MarkedStarsAgree
CHECK_DEADLOCK FALSE
