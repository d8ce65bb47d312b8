SPECIFICATION ViewingSpec
CONSTANTS
  Callers = {"a", "b"}
  Interval = 2
  Cooldown = 3
  Sleeps = TRUE
  MaxNow = 7
  FocusJobs = 2
  FocusFaults = {}
  StagePlays = 2
  StagePictures = 2
  StageGens = 4
  StageFaults = {}
  Series = {"s", "t"}
  LastEpisode = 3
  EpisodeFaults = {}
  FrameSlots = 4
  FrameSets = 3
  FramePictures = 5
  FrameFaults = {}
  FilmLength = 2
  FilmSound = {2}
  FilmLive = TRUE
  LowLatency = FALSE
  AheadSecs = 2
  AheadBytes = 2
  Cushions = {1, 2}
  PicturesWaiting = 2
  RetriesAtEnd = 1
  SeeksMade = 1
  RingSize = 5
  PieceSize = 2
  FrameSizes = {1, 3}
  SamplesMade = 7
  SoundFaults = {}
  WindowSizes <- WindowsMade
  OpeningSize <- Opened
  SmallSize <- Shrunk
  ScreenSize <- Monitor
  MainSize <- MainWindow
  QualitySize <- Drawn
  FreezeTime = 1
  SettleTime = 2
  WindowWaits = 1
  WindowFaults = {}
  PlayerEngines = {"libmpv", "ipc", "libav", "ffplay", "external"}
  PlayerVolumes = {0, 1, 2}
  PlayerFaults = {"route"}
  StartBuilds <- Devices
  StartSettings <- Choices
  StartProcesses = {1, 2, 3}
  StartPlays = 2
INVARIANTS
  TypesOK
  PagesSound
  NamesRead
  GuideIsRight
  EpisodesFollow
  EngineAsShown
  UserPauseStays
  StoppedIsOver
  FilmInOrder
PROPERTIES
  KnownStays
  CallersSpaced
  LateStepsHarmless
CHECK_DEADLOCK FALSE
