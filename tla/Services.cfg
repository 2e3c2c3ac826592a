SPECIFICATION ServicesSpec
CONSTANTS
  Width = 4
  Height = 2
  Start <- MCStart
  Cols = 4
  Rows = 4
  SpawnX = 0
  Pieces = {0, 1}
  Target <- MCTarget
  Base <- MCBase
  MaxWord = 2
  MaxText = 4
  MaxRoadText = 3
  StartReserve = 3
  Penalty = 12
  SoftPenalty = 2
  MaxScore = 5
  MaxMistakes = 2
  MaxKeys = 4
  PullStart = 1
  PullGain = 2
  PullLoss = 1
  PullFull = 7
  AssistLimit = 5
  TensionStart = 1
  TensionFull = 4
  Strains = {1, 3}
  Lanes = 2
  RoadLength = 3
  RowDepth = 2
  MaxObstacles = 2
  StartFuel = 1
  FuelGain = 1
  FuelMax = 1
  CrashCost = 1
  NoteLanes = 2
  Notes = 2
  LeadIn = 4
  HalfBeat = 2
  PerfectWindow = 1
  GoodWindow = 2
  LateWindow = 3
  EndPause = 2
  FullHealth = 3
  MissCost = 3
  BadCost = 2
  MaxExtra = 2
  Length = 4
  Spaces = {2}
  NChars = 3
  Cap = 5
  Apps = {"word", "mail"}
  Chunks = 2
  MaxRequests = 2
  Docs = {1, 2}
  Contexts = {11, 12, 21}
  Owner <- MCOwner
  MaxEdits = 3
  MaxChanges = 2
  MaxBatch = 2
  Emitters = {"hook", "consumer"}
  SlabSize = 4
  Shapes <- MCShapes
  MaxSends = 2
  Folders = {"ui", "bridge"}
  Thresholds <- MCThresholds
  MaxXp = 100
  Rewards <- MCRewards
  KeysFor <- MCKeysFor
  Cuts = {"keys", "xp"}
  RunXp = 1
  MaxTyped = 1
  MaxRuns = 1
  MaxRestarts = 1
  Trainers = {"ui"}
  Capacity = 2
  MinBatch = 2
  MaxSamples = 4
  MaxOptOuts = 1
  MaxTrains = 2
  MaxRivalStarts = 1
  Ids = {"telex", "slow"}
  RaisedBy <- MCRaisedBy
  Policy <- MCPolicy
  Hour = 3
  GlobalGap = 1
  MinUndos = 1
  UndoWeight = 80
  AcceptWeight = 30
  UndoWindow = 1
  MaxTime = 3
  MaxExpansions = 2
  MaxDepth = 1
  MaxShown = 2
  Registries <- MCRegistries
  Texts <- MCTexts
  MaxChoices = 2
  MaxBoots = 2
INVARIANTS GamesAreSound TextsArrive   NoticesAllowed
   
PROPERTIES NothingAfterEnd 
CHECK_DEADLOCK FALSE
