SPECIFICATION BoardSpec
CONSTANTS
  Clients = {}
  PlayerIDs = {p1, p2, p3}
  PlayerPerPage = 2
  IntValues = 16
  Pages <- MCPages
  NoPage = NoPage
  Scores = {0, 1, 2}
  Golds = {0}
INVARIANTS
  RankTypeOK
  RankSorted
  RankUnique
  CacheFresh
  PageAgrees
PROPERTIES
  ImplementsLeaderboard
  OthersKeepOrder
