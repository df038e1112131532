SPECIFICATION Spec
CONSTANTS
  Clients = {c1, c2}
  p1 = p1
  p2 = p2
  PlayerIDs = {p1, p2}
  NoClient = NoClient
  NoFile = NoFile
  EmptyFile = EmptyFile
  TornFile = TornFile
  LongTornFile = LongTornFile
  NoSave = NoSave
  NoPlayer = NoPlayer
  NoSettle = NoSettle
  NoState = NoState
  NoPage = NoPage
  LevelIDs = {1}
  Levels = {1}
  LevelStates = {}
  Faults = {}
  Clock = {1700000000}
  StackTail = {}
  RemoveOutcomes = {TRUE}
  InitialFiles <- MCInitialFiles
  Texts = {200}
  Kills = {0}
  SpendTimes = {0}
  Golds = {0}
  SendOutcomes = {TRUE}
  MaxMoney = 0
  PlayerPerPage = 1
  IntValues = 1024
  Pages = {1}
SYMMETRY ClientSymmetry
INVARIANTS
  CacheFresh
  RankBoundsScores
PROPERTIES
  RankRisesWhenPaid
