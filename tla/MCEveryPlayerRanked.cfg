SPECIFICATION Spec
CONSTANTS
  Clients = {c1, c2}
  p1 = p1
  p2 = p2
  PlayerIDs = {p1, p2}
  NoClient = NoClient
  NoFile = NoFile
  EmptyFile = EmptyFile
  TornFile = TornFile
  LongTornFile = LongTornFile
  NoSave = NoSave
  NoPlayer = NoPlayer
  NoSettle = NoSettle
  NoState = NoState
  NoPage = NoPage
  LevelIDs = {}
  Levels = {}
  LevelStates = {}
  Faults = {}
  Clock = {1700000000}
  StackTail = {}
  RemoveOutcomes = {TRUE}
  InitialFiles <- MCInitialFiles
  Texts = {200}
  Kills = {}
  SpendTimes = {}
  Golds = {}
  SendOutcomes = {TRUE}
  MaxMoney = 0
  PlayerPerPage = 10
  IntValues = 1024
  Pages = {0}
INVARIANT
  EveryPlayerRanked
