INIT MCInit
NEXT MCNext
CONSTANTS
  Bins = 5
  MaxTracks = 2
  Segment = 2
  MaxFrames = 3
  BinSet = {0, 1, 2, 3, 4, 5, 6, 7}
  Frames = 4
  Tiles <- MCTiles
  CenterBins = {7}
  Hold = 2
  LongBurst = 8
  MaxBursts = 2
  MaxTiles = 4
  History = 3
  Lead = 2
  Airtime = 2
  MaxActive = 2
  RecentCapacity = 2
  Waveforms <- MCWaveforms
  Self = "s"
  MaxSample = 6
  MaxSegment = 2
  MaxCandidates = 3
  Subbands = {1, 2, 3}
  Places = {0, 2, 3}
  Times = {0, 2}
  Scores = {1, 2}
  PlaceTolerance = 2
  TimeTolerance = 1
  Capacity = 2
  MaxFits = 3
  Centers = {1000, 6000000}
  Spans = {26000}
  Offsets <- MCOffsets
  MaxEdits = 2
  Paths = {"a", "b"}
  NoPath = NoPath
  Period = 2
  MaxClock = 4
  Units = {"u1", "u2", "u3"}
  Ports = {"p1", "p2", "p3"}
  SerialOf <- MCSerial
  NoSerial = NoSerial
  None = None
  MaxMoves = 4
  Surveys <- MCSurveys
  Queries <- MCQueries
  BinRange = {0, 1, 2, 3}
  Cells = {"c1", "c2"}
  NoFix = "none"
  FrameTicks = 4
  Forever = 40
  MaxObservations = 2
  MaxBins = 3
  MaxGaps = 1
  MaxGroups = 3
  MaxCells = 2
  RowLimit = 5
  FileNames = {"r.csv", "r.geojson", "r.png"}
  ExtensionOf <- MCExtension
  NoEntry = NoEntry
  Sections = 1
  MaxFiles = 2
INVARIANTS
  EventsPartitionActivity
  BurstsAccountable
  CandidatesAccounted
  ReplayIsExact
  ObservationsFaithful
  SettingsSurvive
  SizeIsOfItsSession
  OpenedAsChosen
  SummariesExact
  ExportAsReviewed
PROPERTIES
  FinishedFilesKept
CHECK_DEADLOCK FALSE
