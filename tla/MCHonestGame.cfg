SPECIFICATION HonestSpec
CONSTANTS
  Clients = {c1, c2}
  p1 = p1
  PlayerIDs = {p1}
  NoClient = NoClient
  NoFile = NoFile
  EmptyFile = EmptyFile
  TornFile = TornFile
  LongTornFile = LongTornFile
  NoSave = NoSave
  NoPlayer = NoPlayer
  NoSettle = NoSettle
  NoState = NoState
  NoPage = NoPage
  LevelIDs = {1, 2}
  Levels = {1, 2}
  s1 = s1
  s2 = s2
  LevelOf <- MCLevelOf
  LevelStates = {s1, s2}
  Faults = {}
  Clock <- MCClock
  StackTail = {}
  RemoveOutcomes = {TRUE}
  InitialFiles <- MCInitialFiles
  Texts = {200}
  Kills = {}
  SpendTimes = {}
  Golds = {}
  SendOutcomes = {TRUE}
  MaxMoney = 0
  PlayerPerPage = 10
  IntValues = 1024
  Pages = {0}
INVARIANT
  PlayedTimeAccepted
