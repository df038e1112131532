SPECIFICATION Spec
CONSTANTS
  Clients = {c1, c2}
  p1 = p1
  s1 = s1
  PlayerIDs = {p1}
  NoClient = NoClient
  NoFile = NoFile
  EmptyFile = EmptyFile
  TornFile = TornFile
  LongTornFile = LongTornFile
  NoSave = NoSave
  NoPlayer = NoPlayer
  NoSettle = NoSettle
  NoState = NoState
  NoPage = NoPage
  LevelIDs = {1, 2}
  Levels = {1}
  LevelStates = {s1}
  Faults = {"open", "short"}
  Clock <- MCClock
  StackTail <- MCStackTail
  RemoveOutcomes = {TRUE, FALSE}
  InitialFiles <- MCInitialFiles
  Texts = {200}
  Kills = {0}
  SpendTimes = {1, 62}
  Golds = {1}
  SendOutcomes = {TRUE}
  MaxMoney = 1
  PlayerPerPage = 10
  IntValues = 1024
  Pages = {}
SYMMETRY ClientSymmetry
INVARIANTS
  TypeOK
  PaidOnce
PROPERTIES
  GameLeavesWithPlayer
  PaidMeansSettled
  ImplementsLedger
CHECK_DEADLOCK FALSE
