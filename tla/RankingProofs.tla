---------------------------- MODULE RankingProofs ----------------------------
(***************************************************************************)
(* The leaderboard against sessions and files: a listed player is never    *)
(* ranked below what his session or his file holds, although the list is   *)
(* told only of the scores that beat those of the session and every login  *)
(* resets these.                                                           *)
(***************************************************************************)
EXTENDS GameServerProofs

\* No score is negative, which is what makes the 0 of a login harmless.
ScoresPositive ==
  /\ \A i \in DOMAIN rankList : rankList[i].score >= 0
  /\ \A c \in Clients : playerMap[c] # NoPlayer => playerMap[c].score >= 0
  /\ \A p \in PlayerIDs : playerFile[p] \notin NoRecords => playerFile[p].score >= 0

\* The list the constructor builds meets no session.
DownWithoutPlayers == ~up => playerMap = NoPlayers

ScoreInv == RankBoundsScores /\ ScoresPositive /\ DownWithoutPlayers

-----------------------------------------------------------------------------
(* The parts of a step.                                                    *)

\* The types the comparisons of scores need.
LEMMA ScoreTypes ==
  ASSUME ServerInv
  PROVE  /\ \A i \in DOMAIN rankList :
              rankList[i].pid \in PlayerIDs /\ rankList[i].score \in Int
         /\ \A c \in Clients : playerMap[c] # NoPlayer =>
              playerMap[c].pid \in PlayerIDs /\ playerMap[c].score \in Int
         /\ \A p \in PlayerIDs : playerFile[p] \notin NoRecords =>
              playerFile[p].score \in Int
<1>1. rankList \in Seq(RankItem) /\ DOMAIN rankList = 1 .. Len(rankList)
  BY LenProperties DEF ServerInv, RankInv, RankTypeOK
<1> QED
  BY <1>1, ItemTypes DEF ServerInv, TypeOK, PlayerTypeOK, FileTypeOK, PlayerRecord

\* And after a step.
LEMMA ScoreTypesNext ==
  ASSUME ServerInv'
  PROVE  /\ \A i \in DOMAIN rankList' :
              rankList'[i].pid \in PlayerIDs /\ rankList'[i].score \in Int
         /\ \A c \in Clients : playerMap'[c] # NoPlayer =>
              playerMap'[c].pid \in PlayerIDs /\ playerMap'[c].score \in Int
         /\ \A p \in PlayerIDs : playerFile'[p] \notin NoRecords =>
              playerFile'[p].score \in Int
<1>1. rankList' \in Seq(RankItem) /\ DOMAIN rankList' = 1 .. Len(rankList')
  BY LenProperties DEF ServerInv, RankInv, RankTypeOK
<1> QED
  BY <1>1, ItemTypes DEF ServerInv, TypeOK, PlayerTypeOK, FileTypeOK, PlayerRecord

\* An update lowers nobody, and ranks its player at least as it says.
LEMMA UpdateRaises ==
  ASSUME NEW list \in Seq(RankItem), Descending(list), UniquePlayers(list),
         NEW item \in RankItem, NEW j \in 1 .. Len(Updated(list, item))
  PROVE  /\ \E i \in 1 .. Len(list) :
              /\ Updated(list, item)[j].pid = list[i].pid
              /\ Updated(list, item)[j].score >= list[i].score
         /\ Updated(list, item)[j].pid = item.pid
              => Updated(list, item)[j].score >= item.score
<1> DEFINE new == Updated(list, item)
<1>1. new \in Seq(RankItem) /\ Len(new) = Len(list) /\ Len(list) \in Nat
  BY UpdatedType, LenProperties
<1>2. \E i \in 1 .. Len(list) :
        new[j].pid = list[i].pid /\ new[j].score >= list[i].score
  <2>1. PICK source \in [1 .. Len(list) -> 1 .. Len(list)] :
          \A k \in 1 .. Len(list) :
            /\ new[k].pid = list[source[k]].pid
            /\ new[k].score >= list[source[k]].score
    BY UpdatedPlayers
  <2> QED
    BY <1>1, <2>1
<1>3. ASSUME new[j].pid = item.pid
      PROVE  new[j].score >= item.score
  <2>1. CASE ~(Position(list, item.pid) # 0
                 /\ item.score > list[Position(list, item.pid)].score)
    <3>1. new = list
      BY <2>1, NotUpdated
    <3>2. Position(list, item.pid) = j
      BY <1>1, <1>3, <3>1, PositionUnique
    <3>3. list[j].score \in Int /\ item.score \in Int
      BY <1>1, <3>1, ItemTypes DEF RankItem
    <3> QED
      BY <1>1, <2>1, <3>1, <3>2, <3>3
  <2>2. CASE /\ Position(list, item.pid) # 0
             /\ item.score > list[Position(list, item.pid)].score
    <3>1. PICK from \in 1 .. Len(list), to \in 1 .. Len(list) :
            /\ from = Position(list, item.pid)
            /\ to <= from
            /\ Updated(list, item) \in Seq(RankItem)
            /\ Len(Updated(list, item)) = Len(list)
            /\ \A k \in 1 .. Len(list) :
                 Updated(list, item)[k] =
                   IF k = to THEN item
                   ELSE IF to < k /\ k <= from THEN list[k - 1] ELSE list[k]
            /\ \A k \in 1 .. to - 1 : list[k].score >= item.score
            /\ list[to].score < item.score
      BY <2>2, UpdatedProperties
    <3>2. new[to] = item /\ UniquePlayers(new) /\ DOMAIN new = 1 .. Len(new)
      BY <1>1, <3>1, UpdatedUnique, LenProperties
    <3>3. j = to
      BY <1>1, <1>3, <3>1, <3>2 DEF UniquePlayers
    <3> QED
      BY <3>2, <3>3 DEF RankItem
  <2> QED
    BY <2>1, <2>2
<1> QED
  BY <1>2, <1>3

\* The list is told of an item: nobody is lowered.
Raised ==
  \A j \in DOMAIN rankList' :
    \E i \in DOMAIN rankList :
      rankList'[j].pid = rankList[i].pid /\ rankList'[j].score >= rankList[i].score

\* What update leaves of the list.
LEMMA RankUpdateRaises ==
  ASSUME ServerInv, NEW item \in RankItem, RankUpdate(item)
  PROVE  /\ Raised
         /\ \A j \in DOMAIN rankList' :
              rankList'[j].pid = item.pid => rankList'[j].score >= item.score
<1>1. /\ rankList \in Seq(RankItem) /\ Descending(rankList) /\ UniquePlayers(rankList)
      /\ rankList' = Updated(rankList, item)
  BY DEF ServerInv, RankInv, RankTypeOK, RankSorted, RankUnique, RankUpdate
<1>2. rankList' \in Seq(RankItem)
  BY <1>1, UpdatedType
<1>3. DOMAIN rankList = 1 .. Len(rankList) /\ DOMAIN rankList' = 1 .. Len(rankList')
  BY <1>1, <1>2, LenProperties
<1> QED
  BY <1>1, <1>3, UpdateRaises DEF Raised

\* The general step: nobody is lowered, a session that changes holds 0 or no
\* more than the list, a file that changes holds 0 or what a session held.
LEMMA RaisedScores ==
  ASSUME ServerInv, ServerInv', ScoreInv, Raised, up, up',
         \A c \in Clients : playerMap'[c] # NoPlayer =>
           \/ playerMap'[c] = playerMap[c]
           \/ playerMap'[c].score = 0
           \/ /\ playerMap'[c].score >= 0
              /\ \A j \in DOMAIN rankList' :
                   rankList'[j].pid = playerMap'[c].pid
                     => playerMap'[c].score <= rankList'[j].score,
         \A p \in PlayerIDs : playerFile'[p] \notin NoRecords =>
           \/ playerFile'[p] = playerFile[p]
           \/ playerFile'[p].score = 0
           \/ \E c \in Sessions(p) : playerFile'[p] = playerMap[c]
  PROVE  ScoreInv'
<1>1. \A i \in DOMAIN rankList :
        /\ rankList[i].score >= 0
        /\ \A c \in Clients : playerMap[c] # NoPlayer /\ playerMap[c].pid = rankList[i].pid
             => playerMap[c].score <= rankList[i].score
        /\ playerFile[rankList[i].pid] \notin NoRecords
             => playerFile[rankList[i].pid].score <= rankList[i].score
  BY DEF ScoreInv, RankBoundsScores, ScoresPositive, Sessions
<1>2. \A j \in DOMAIN rankList' : rankList'[j].score >= 0
  BY <1>1, ScoreTypes, ScoreTypesNext DEF Raised
<1>3. ASSUME NEW j \in DOMAIN rankList', NEW c \in Clients,
             playerMap'[c] # NoPlayer, playerMap'[c].pid = rankList'[j].pid
      PROVE  playerMap'[c].score <= rankList'[j].score
  <2>1. CASE playerMap'[c] = playerMap[c]
    <3>1. PICK i \in DOMAIN rankList :
            rankList'[j].pid = rankList[i].pid /\ rankList'[j].score >= rankList[i].score
      BY DEF Raised
    <3>2. playerMap[c].score <= rankList[i].score
      BY <1>1, <1>3, <2>1, <3>1
    <3>3. playerMap[c].score \in Int /\ rankList[i].score \in Int /\ rankList'[j].score \in Int
      BY <1>3, <2>1, ScoreTypes, ScoreTypesNext
    <3> QED
      BY <2>1, <3>1, <3>2, <3>3
  <2>2. CASE playerMap'[c].score = 0
    BY <1>2, <2>2, ScoreTypesNext
  <2> QED
    BY <1>3, <2>1, <2>2
<1>4. ASSUME NEW j \in DOMAIN rankList', playerFile'[rankList'[j].pid] \notin NoRecords
      PROVE  playerFile'[rankList'[j].pid].score <= rankList'[j].score
  <2> DEFINE p == rankList'[j].pid
  <2>1. PICK i \in DOMAIN rankList :
          p = rankList[i].pid /\ rankList'[j].score >= rankList[i].score
    BY DEF Raised
  <2>2. p \in PlayerIDs /\ rankList[i].score \in Int /\ rankList'[j].score \in Int
    BY ScoreTypes, ScoreTypesNext
  <2>3. CASE playerFile'[p] = playerFile[p]
    BY <1>1, <1>4, <2>1, <2>2, <2>3, ScoreTypes
  <2>4. CASE playerFile'[p].score = 0
    BY <1>2, <2>4
  <2>5. ASSUME NEW c \in Sessions(p), playerFile'[p] = playerMap[c]
        PROVE  playerFile'[p].score <= rankList'[j].score
    BY <1>1, <2>1, <2>2, <2>5, ScoreTypes DEF Sessions
  <2> QED
    BY <1>4, <2>2, <2>3, <2>4, <2>5
<1>5. ScoresPositive'
  <2>1. \A c \in Clients : playerMap'[c] # NoPlayer => playerMap'[c].score >= 0
    BY DEF ScoreInv, ScoresPositive
  <2>2. \A p \in PlayerIDs : playerFile'[p] \notin NoRecords => playerFile'[p].score >= 0
    BY DEF ScoreInv, ScoresPositive, Sessions
  <2> QED
    BY <1>2, <2>1, <2>2 DEF ScoresPositive
<1>6. RankBoundsScores'
  BY <1>3, <1>4 DEF RankBoundsScores, Sessions
<1> QED
  BY <1>5, <1>6 DEF ScoreInv, DownWithoutPlayers

\* A step that touches neither list, nor sessions, nor player files.
LEMMA QuietScores ==
  ASSUME ScoreInv, up' = up, playerMap' = playerMap, playerFile' = playerFile,
         rankList' = rankList
  PROVE  ScoreInv'
BY DEF ScoreInv, RankBoundsScores, ScoresPositive, DownWithoutPlayers, Sessions

\* The process ends, perhaps at a registration that tore the new file or made
\* it too long for the leaderboard.
LEMMA LostScores ==
  ASSUME ScoreInv, MemoryLost,
         \A p \in PlayerIDs : \/ playerFile'[p] \in {playerFile[p]} \cup NoRecords
                              \/ playerFile'[p].score = 0
  PROVE  ScoreInv'
<1>1. DOMAIN rankList' = {} /\ playerMap' = NoPlayers
  BY DEF MemoryLost
<1>2. RankBoundsScores' /\ DownWithoutPlayers'
  BY <1>1 DEF RankBoundsScores, DownWithoutPlayers
<1>3. ScoresPositive'
  BY <1>1 DEF ScoreInv, ScoresPositive, NoPlayers
<1> QED
  BY <1>2, <1>3 DEF ScoreInv

-----------------------------------------------------------------------------
(* The steps.                                                              *)

\* The list is built from the files, before anybody is online.
LEMMA LoadedScores ==
  ASSUME NEW list \in RankFromFiles, NEW i \in DOMAIN list
  PROVE  \E p \in PlayerIDs :
           playerFile[p] # NoFile /\ list[i] = ItemOf(p, playerFile[p])
<1>1. list[i] \in {ItemOf(p, playerFile[p]) : p \in ListedPlayers}
  BY DEF RankFromFiles, LoadedLists
<1> QED
  BY <1>1 DEF ListedPlayers

\* The first start.
LEMMA InitScores ==
  ASSUME FilesScored
  PROVE  Init => ScoreInv
<1> SUFFICES ASSUME Init PROVE ScoreInv
  OBVIOUS
<1>1. ServerInv
  BY InitInv
<1>2. playerMap = NoPlayers /\ rankList \in RankFromFiles /\ CanStart
  BY DEF Init
<1>3. \A p \in PlayerIDs : playerFile[p] \notin NoRecords => playerFile[p].score >= 0
  BY DEF Init, FilesScored
<1>4. ASSUME NEW i \in DOMAIN rankList
      PROVE  /\ playerFile[rankList[i].pid] \notin NoRecords
             /\ rankList[i].pid \in PlayerIDs
             /\ rankList[i].score = playerFile[rankList[i].pid].score
  BY <1>2, LoadedScores DEF ItemOf, CanStart, ListedPlayers, Readable
<1>5. RankBoundsScores
  BY <1>1, <1>2, <1>4, ScoreTypes DEF RankBoundsScores, Sessions, NoPlayers
<1>6. ScoresPositive
  BY <1>2, <1>3, <1>4 DEF ScoresPositive, NoPlayers
<1> QED
  BY <1>2, <1>5, <1>6 DEF ScoreInv, DownWithoutPlayers

\* A restart.
LEMMA StartScores ==
  ASSUME ServerInv, ScoreInv, Start
  PROVE  ScoreInv'
<1>1. /\ playerMap' = NoPlayers /\ playerFile' = playerFile
      /\ rankList' \in RankFromFiles /\ CanStart
  BY DEF Start, ScoreInv, DownWithoutPlayers, fileVars
<1>2. ASSUME NEW i \in DOMAIN rankList'
      PROVE  /\ playerFile[rankList'[i].pid] \notin NoRecords
             /\ rankList'[i].pid \in PlayerIDs
             /\ rankList'[i].score = playerFile[rankList'[i].pid].score
  BY <1>1, LoadedScores DEF ItemOf, CanStart, ListedPlayers, Readable
<1>3. RankBoundsScores'
  BY <1>1, <1>2, ScoreTypes DEF RankBoundsScores, Sessions, NoPlayers
<1>4. ScoresPositive'
  BY <1>1, <1>2 DEF ScoresPositive, ScoreInv, NoPlayers
<1> QED
  BY <1>1, <1>3, <1>4 DEF ScoreInv, DownWithoutPlayers

\* A close writes the record of the session to the file of its player.
LEMMA CloseScores ==
  ASSUME ServerInv, ServerInv', ScoreInv, NEW c \in Clients, Close(c)
  PROVE  ScoreInv'
<1>1. up /\ up' /\ rankList' = rankList /\ PlayerTypeOK /\ FileTypeOK
  BY DEF Close, rankVars, ServerInv, TypeOK
<1>2. CASE playerMap[c] = NoPlayer
  BY <1>1, <1>2, QuietScores DEF Close, PlayerClose
<1>3. CASE playerMap[c] # NoPlayer
  <2>1. PICK p \in PlayerIDs : playerMap[c].pid = p
    BY <1>1, <1>3 DEF PlayerTypeOK, PlayerRecord
  <2>2. PICK w \in PlayerWrites(p, playerMap[c]) :
          /\ playerFile' = [playerFile EXCEPT ![p] = w.file]
          /\ playerMap' = [playerMap EXCEPT ![c] = NoPlayer]
    BY <1>3, <2>1 DEF Close, PlayerClose
  <2>3. w.file \in NoRecords \cup {playerMap[c], playerFile[p]}
    BY DEF PlayerWrites, Writes, TornTexts, NoRecords
  <2>4. \A q \in PlayerIDs : playerFile'[q] \notin NoRecords =>
          playerFile'[q] = playerFile[q] \/ \E d \in Sessions(q) : playerFile'[q] = playerMap[d]
    BY <1>1, <1>3, <2>1, <2>2, <2>3 DEF FileTypeOK, Sessions
  <2>5. \A d \in Clients : playerMap'[d] # NoPlayer => playerMap'[d] = playerMap[d]
    BY <1>1, <2>2 DEF PlayerTypeOK
  <2>6. Raised
    BY <1>1, ScoreTypes DEF Raised
  <2> QED
    BY <1>1, <2>4, <2>5, <2>6, RaisedScores
<1> QED
  BY <1>2, <1>3

\* A login enters a score of 0, whatever the file holds.
LEMMA LoginScores ==
  ASSUME ServerInv, ServerInv', ScoreInv, NEW c \in Clients, NEW p \in PlayerIDs,
         NEW matches \in BOOLEAN, Login(c, p, matches)
  PROVE  ScoreInv'
<1>1. PlayerTypeOK
  BY DEF ServerInv, TypeOK
<1>2. CASE Dies
  BY <1>2, LostScores DEF Dies, fileVars
<1>3. CASE ~Dies
  <2>1. /\ up /\ up' /\ rankList' = rankList /\ playerFile' = playerFile
        /\ playerMap' = playerMap \/ playerMap' = PlayerMapWith(c, LoginRecord(p))
    BY <1>3 DEF Login, Handling, Sends, Silent, fileVars, rankVars
  <2>2. \A d \in Clients : playerMap'[d] # NoPlayer =>
          playerMap'[d] = playerMap[d] \/ playerMap'[d].score = 0
    BY <1>1, <2>1 DEF PlayerMapWith, LoginRecord, PlayerTypeOK
  <2>3. Raised
    BY <2>1, ScoreTypes DEF Raised
  <2> QED
    BY <2>1, <2>2, <2>3, RaisedScores
<1> QED
  BY <1>2, <1>3

\* A registration tells the list of a score that is in the file.
LEMMA CreateScores ==
  ASSUME ServerInv, ServerInv', ScoreInv, NEW c \in Clients, NEW p \in PlayerIDs,
         Create(c, p)
  PROVE  ScoreInv'
<1>1. PlayerTypeOK /\ FileTypeOK
  BY DEF ServerInv, TypeOK
<1>2. CASE Dies
  BY <1>2, LostScores DEF Dies, fileVars
<1>3. CASE /\ playerFile[p] \notin NoRecords
           /\ Sends(c, <<Answer(c, "CREATE", "EXISTING_PLAYER")>>)
           /\ RankUpdate(ItemOf(p, playerFile[p]))
           /\ UNCHANGED <<playerMap, fileVars>>
  <2>1. up /\ up' /\ playerMap' = playerMap /\ playerFile' = playerFile
    BY <1>3 DEF Create, Handling, Sends, fileVars
  <2>2. Raised
    BY <1>1, <1>3, FileItemType, RankUpdateRaises
  <2> QED
    BY <2>1, <2>2, RaisedScores
<1>4. CASE /\ playerFile[p] = NoFile
           /\ \E text \in Texts : \E w \in PlayerWrites(p, NewRecord(p, text)) :
                /\ playerFile' = [playerFile EXCEPT ![p] = w.file]
                /\ IF w.result = 0 /\ Readable(w.file, RankBuffer)
                   THEN /\ playerMap' = PlayerMapWith(c, NewRecord(p, text))
                        /\ Sends(c, <<Answer(c, "CREATE", "OK")>>)
                        /\ RankUpdate(ItemOf(p, w.file))
                   ELSE MemoryLost
  <2>1. PICK text \in Texts : \E w \in PlayerWrites(p, NewRecord(p, text)) :
          /\ playerFile' = [playerFile EXCEPT ![p] = w.file]
          /\ IF w.result = 0 /\ Readable(w.file, RankBuffer)
             THEN /\ playerMap' = PlayerMapWith(c, NewRecord(p, text))
                  /\ Sends(c, <<Answer(c, "CREATE", "OK")>>)
                  /\ RankUpdate(ItemOf(p, w.file))
             ELSE MemoryLost
    BY <1>4
  <2>2. PICK w \in PlayerWrites(p, NewRecord(p, text)) :
          /\ playerFile' = [playerFile EXCEPT ![p] = w.file]
          /\ IF w.result = 0 /\ Readable(w.file, RankBuffer)
             THEN /\ playerMap' = PlayerMapWith(c, NewRecord(p, text))
                  /\ Sends(c, <<Answer(c, "CREATE", "OK")>>)
                  /\ RankUpdate(ItemOf(p, w.file))
             ELSE MemoryLost
    BY <2>1
  <2>3. w.file \in NoRecords \/ w.file = NewRecord(p, text)
    BY <1>4 DEF PlayerWrites, Writes, TornTexts, NoRecords
  <2>4. NewRecord(p, text).score = 0
    BY DEF NewRecord
  <2>5. playerFile'[p] = w.file /\ \A q \in PlayerIDs \ {p} : playerFile'[q] = playerFile[q]
    BY <1>1, <2>2 DEF FileTypeOK
  <2>6. CASE MemoryLost
    <3>1. \A q \in PlayerIDs : \/ playerFile'[q] \in {playerFile[q]} \cup NoRecords
                               \/ playerFile'[q].score = 0
      BY <2>3, <2>4, <2>5
    <3> QED
      BY <2>6, <3>1, LostScores
  <2>7. CASE w.result = 0 /\ Readable(w.file, RankBuffer)
    <3>1. w.file = NewRecord(p, text)
      BY <2>7 DEF PlayerWrites, Writes
    <3>2. ItemOf(p, w.file) \in RankItem
      BY <3>1 DEF NewRecord, ItemOf, RankItem, InitialCapital
    <3>3. Raised
      BY <2>2, <2>7, <3>2, RankUpdateRaises
    <3>4. up /\ up'
      BY <2>2, <2>7 DEF Create, Handling, Sends
    <3>5. \A d \in Clients : playerMap'[d] # NoPlayer =>
            playerMap'[d] = playerMap[d] \/ playerMap'[d].score = 0
      BY <1>1, <2>2, <2>4, <2>7 DEF PlayerMapWith, PlayerTypeOK
    <3>6. \A q \in PlayerIDs :
            playerFile'[q] = playerFile[q] \/ playerFile'[q].score = 0
      BY <2>4, <2>5, <3>1
    <3> QED
      BY <3>3, <3>4, <3>5, <3>6, RaisedScores
  <2> QED
    BY <2>2, <2>6, <2>7
<1> QED
  BY <1>2, <1>3, <1>4 DEF Create, Readable

\* A payment raises the score of a session only together with the list.
LEMMA SettleScores ==
  ASSUME ServerInv, ServerInv', ScoreInv, NEW c \in Clients, NEW p \in PlayerIDs,
         NEW kills \in Kills, NEW spendTime \in SpendTimes, NEW gold \in Golds,
         LevelSettle(c, p, kills, spendTime, gold)
  PROVE  ScoreInv'
<1>1. PlayerTypeOK /\ up /\ up' /\ playerFile' = playerFile
  BY DEF ServerInv, TypeOK, LevelSettle, Handling, Sends
<1>2. CASE UNCHANGED <<playerMap, rankVars>>
  BY <1>1, <1>2, QuietScores DEF rankVars
<1>3. ASSUME NEW d \in Sessions(p), Pay(d, Score(kills, spendTime), gold)
      PROVE  ScoreInv'
  <2> DEFINE score == Score(kills, spendTime)
             paid  == PaidRecord(playerMap[d], score, gold)
  <2>1. gold \in Int /\ score \in Int /\ score >= 0
    <3>1. kills \in Int /\ spendTime \in Int /\ gold \in Int
      BY ServerAssumption
    <3> QED
      BY <3>1, ScoreType DEF Score, GhostValue, ParTime, SecondValue
  <2>2. d \in Clients /\ playerMap[d] \in PlayerRecord /\ playerMap[d].pid = p
    BY <1>1, SessionType
  <2>3. /\ playerMap' = [playerMap EXCEPT ![d] = paid]
        /\ IF score > playerMap[d].score
           THEN RankUpdate([pid |-> paid.pid, gold |-> paid.money, score |-> paid.score])
           ELSE UNCHANGED rankVars
    BY <1>3 DEF Pay, PaidRecord
  <2> HIDE DEF score
  <2>4. paid = [pid   |-> p,
                money |-> playerMap[d].money + gold,
                score |-> IF score > playerMap[d].score THEN score ELSE playerMap[d].score,
                text  |-> playerMap[d].text]
    BY <2>1, <2>2, PaidRecordIs
  <2> HIDE DEF paid
  <2>5. \A e \in Clients : e # d => playerMap'[e] = playerMap[e]
    BY <1>1, <2>3 DEF PlayerTypeOK
  <2>6. playerMap'[d] = paid
    BY <1>1, <2>2, <2>3 DEF PlayerTypeOK
  <2>7. CASE score > playerMap[d].score
    <3> DEFINE item == [pid |-> p, gold |-> playerMap[d].money + gold, score |-> score]
    <3>1. item \in RankItem /\ RankUpdate(item)
      BY <2>1, <2>2, <2>3, <2>7, <2>4 DEF RankItem, PlayerRecord
    <3>2. /\ Raised
          /\ \A j \in DOMAIN rankList' : rankList'[j].pid = p => rankList'[j].score >= score
      BY <3>1, RankUpdateRaises
    <3>3. playerMap'[d].pid = p /\ playerMap'[d].score = score
      BY <2>2, <2>6, <2>7, <2>4
    <3>4. \A j \in DOMAIN rankList' : rankList'[j].pid = p => score <= rankList'[j].score
      BY <2>1, <3>2, ScoreTypesNext
    <3> QED
      BY <1>1, <2>1, <2>5, <3>2, <3>3, <3>4, RaisedScores
  <2>8. CASE ~(score > playerMap[d].score)
    <3>1. rankList' = rankList /\ Raised
      BY <2>3, <2>8, ScoreTypes DEF rankVars, Raised
    <3>2. playerMap'[d].pid = p /\ playerMap'[d].score = playerMap[d].score
      BY <2>2, <2>6, <2>8, <2>4
    <3>3. playerMap[d] # NoPlayer
      BY DEF Sessions
    <3>4. /\ playerMap[d].score >= 0
          /\ \A j \in DOMAIN rankList' :
               rankList'[j].pid = p => playerMap[d].score <= rankList'[j].score
      BY <2>2, <3>1, <3>3 DEF ScoreInv, ScoresPositive, RankBoundsScores
    <3> QED
      BY <1>1, <2>5, <3>1, <3>2, <3>4, RaisedScores
  <2> QED
    BY <2>7, <2>8
<1> QED
  BY <1>2, <1>3 DEF LevelSettle

\* Every step keeps the list above sessions and files.
LEMMA NextScores == ServerInv /\ ServerInv' /\ ScoreInv /\ [Next]_vars => ScoreInv'
<1> SUFFICES ASSUME ServerInv, ServerInv', ScoreInv, [Next]_vars PROVE ScoreInv'
  OBVIOUS
<1>1. CASE Dies
  BY <1>1, LostScores DEF Dies, fileVars
<1>2. CASE Start
  BY <1>2, StartScores
<1>3. CASE Tick \/ UNCHANGED vars
  BY <1>3, QuietScores DEF Tick, vars, serverVars, fileVars, rankVars
<1>4. ASSUME NEW c \in Clients, Accept(c) \/ Refuse(c)
      PROVE  ScoreInv'
  BY <1>4, QuietScores DEF Accept, Refuse, fileVars, rankVars
<1>5. ASSUME NEW c \in Clients, Close(c)
      PROVE  ScoreInv'
  BY <1>5, CloseScores
<1>6. ASSUME NEW c \in Clients, Silent(c) \/ \E packets : Sends(c, packets),
             playerMap' = playerMap, playerFile' = playerFile, rankList' = rankList
      PROVE  ScoreInv'
  BY <1>6, QuietScores DEF Silent, Sends
<1>7. ASSUME NEW c \in Clients, Request(c)
      PROVE  ScoreInv'
  <2>1. CASE Query(c)
    BY <1>6, <2>1 DEF Query, fileVars, rankVars
  <2>2. ASSUME NEW p \in PlayerIDs, Backpack(c, p)
        PROVE  ScoreInv'
    BY <1>1, <1>6, <2>2 DEF Backpack, fileVars, rankVars
  <2>3. ASSUME NEW p \in PlayerIDs, NEW matches \in BOOLEAN, Login(c, p, matches)
        PROVE  ScoreInv'
    BY <2>3, LoginScores
  <2>4. ASSUME NEW p \in PlayerIDs, Create(c, p)
        PROVE  ScoreInv'
    BY <2>4, CreateScores
  <2>5. ASSUME NEW p \in PlayerIDs, NEW level \in LevelIDs, LevelData(c, p, level)
        PROVE  ScoreInv'
    BY <1>6, <2>5 DEF LevelData, fileVars, rankVars
  <2>6. ASSUME NEW p \in PlayerIDs, LevelStart(c, p)
        PROVE  ScoreInv'
    BY <1>6, <2>6 DEF LevelStart, fileVars, rankVars
  <2>7. ASSUME NEW p \in PlayerIDs, NEW kills \in Kills, NEW spendTime \in SpendTimes,
               NEW gold \in Golds, LevelSettle(c, p, kills, spendTime, gold)
        PROVE  ScoreInv'
    BY <2>7, SettleScores
  <2>8. ASSUME NEW p \in PlayerIDs, NEW page \in Pages, RankReq(c, p, page)
        PROVE  ScoreInv'
    BY <1>1, <1>6, <2>8 DEF RankReq, RankRequest, fileVars
  <2>9. ASSUME NEW state \in LevelStates, LevelUpdate(c, state)
        PROVE  ScoreInv'
    BY <1>6, <2>9 DEF LevelUpdate, fileVars, rankVars
  <2> QED
    BY <1>7, <2>1, <2>2, <2>3, <2>4, <2>5, <2>6, <2>7, <2>8, <2>9 DEF Request
<1> QED
  BY <1>1, <1>2, <1>3, <1>4, <1>5, <1>7 DEF Next, Stop

\* For every number of players, files and scores that are not negative, no
\* listed player is ranked below what his session or his file holds.
THEOREM ServerRankBounds ==
  ASSUME FilesScored
  PROVE  Spec => []RankBoundsScores
<1>1. ScoreInv => RankBoundsScores
  BY DEF ScoreInv
<1> QED
  BY <1>1, InitScores, NextScores, ServerInvariant, PTL DEF Spec

-----------------------------------------------------------------------------
(* Who moves the list.                                                     *)

\* The condition RankRisesWhenPaid puts on a step.
RankStep ==
  LET before == ScoresOf(rankList)
      after  == ScoresOf(rankList')
  IN  /\ DOMAIN after = DOMAIN before
      /\ \A p \in DOMAIN before :
           after[p] # before[p]
           => /\ after[p] > before[p]
              /\ \E c \in Clients : reply' = <<Answer(c, "SETTLE", "OK")>>
              /\ \E c \in Clients : /\ playerMap'[c] # NoPlayer
                                    /\ playerMap'[c].pid = p
                                    /\ playerMap'[c].score = after[p]

\* A step that leaves the list alone.
LEMMA QuietRank ==
  ASSUME rankList' = rankList
  PROVE  RankStep
  BY DEF RankStep

\* An update with a score its player is ranked with or above changes nothing.
LEMMA VainUpdate ==
  ASSUME ServerInv, NEW item \in RankItem, RankUpdate(item),
         \A i \in DOMAIN rankList : rankList[i].pid = item.pid => item.score <= rankList[i].score
  PROVE  rankList' = rankList
<1> DEFINE at == Position(rankList, item.pid)
<1>1. rankList \in Seq(RankItem) /\ rankList' = Updated(rankList, item)
  BY DEF ServerInv, RankInv, RankTypeOK, RankUpdate
<1>2. DOMAIN rankList = 1 .. Len(rankList)
  BY <1>1, LenProperties
<1>3. at = 0 \/ (at \in DOMAIN rankList /\ rankList[at].pid = item.pid)
  BY <1>1, <1>2, PositionProperties
<1>4. at # 0 => rankList[at].score \in Int /\ item.score \in Int
  BY <1>3, ScoreTypes DEF RankItem
<1> HIDE DEF at
<1>5. ~(at # 0 /\ item.score > rankList[at].score)
  BY <1>3, <1>4
<1> QED
  BY <1>1, <1>5, NotUpdated DEF at

\* A registration tells the list of a score it ranks already, or of somebody
\* it does not hold, or of a new player with a score of 0.
LEMMA CreateRank ==
  ASSUME ServerInv, ScoreInv, NEW c \in Clients, NEW p \in PlayerIDs, Create(c, p), up'
  PROVE  RankStep
<1>1. FileTypeOK
  BY DEF ServerInv, TypeOK
<1>2. CASE /\ playerFile[p] \notin NoRecords
           /\ RankUpdate(ItemOf(p, playerFile[p]))
  <2> DEFINE item == ItemOf(p, playerFile[p])
  <2>1. item \in RankItem /\ item.pid = p /\ item.score = playerFile[p].score
    BY <1>1, <1>2, FileItemType DEF ItemOf
  <2>2. \A i \in DOMAIN rankList : rankList[i].pid = p => playerFile[p].score <= rankList[i].score
    BY <1>2 DEF ScoreInv, RankBoundsScores
  <2> HIDE DEF item
  <2>3. rankList' = rankList
    BY <1>2, <2>1, <2>2, VainUpdate DEF item
  <2> QED
    BY <2>3, QuietRank
<1>3. ASSUME NEW text, NEW w \in PlayerWrites(p, NewRecord(p, text)), w.result = 0,
             RankUpdate(ItemOf(p, w.file))
      PROVE  RankStep
  <2> DEFINE item == ItemOf(p, w.file)
  <2>1. w.file = NewRecord(p, text)
    BY <1>3 DEF PlayerWrites, Writes
  <2>2. item \in RankItem /\ item.pid = p /\ item.score = 0
    BY <2>1 DEF ItemOf, NewRecord, RankItem, InitialCapital
  <2>3. \A i \in DOMAIN rankList : 0 <= rankList[i].score
    BY ScoreTypes DEF ScoreInv, ScoresPositive
  <2> HIDE DEF item
  <2>4. rankList' = rankList
    BY <1>3, <2>2, <2>3, VainUpdate DEF item
  <2> QED
    BY <2>4, QuietRank
<1>4. ~MemoryLost
  BY DEF MemoryLost
<1> QED
  BY <1>2, <1>3, <1>4 DEF Create, Dies, Readable

\* A settlement tells it of the score the session it pays has from then on.
LEMMA SettleRank ==
  ASSUME ServerInv, NEW c \in Clients, NEW p \in PlayerIDs,
         NEW kills \in Kills, NEW spendTime \in SpendTimes, NEW gold \in Golds,
         LevelSettle(c, p, kills, spendTime, gold)
  PROVE  RankStep
<1>1. PlayerTypeOK
  BY DEF ServerInv, TypeOK
<1>2. CASE UNCHANGED rankVars
  BY <1>2, QuietRank DEF rankVars
<1>3. ASSUME NEW d \in Sessions(p), Pay(d, Score(kills, spendTime), gold),
             Sends(c, <<Answer(c, "SETTLE", "OK")>>)
      PROVE  RankStep
  <2> DEFINE score == Score(kills, spendTime)
             item  == [pid |-> p, gold |-> playerMap[d].money + gold, score |-> score]
             paid  == PaidRecord(playerMap[d], score, gold)
  <2>1. gold \in Int /\ score \in Int
    BY ServerAssumption, ScoreType
  <2>2. d \in Clients /\ playerMap[d] \in PlayerRecord /\ playerMap[d].pid = p
    BY <1>1, SessionType
  <2> HIDE DEF score
  <2>3. CASE ~(score > playerMap[d].score)
    BY <1>2, <1>3, <2>3 DEF Pay, score
  <2>4. CASE score > playerMap[d].score
    <3>1. item \in RankItem /\ item.pid = p /\ item.score = score
      BY <2>1, <2>2 DEF RankItem, PlayerRecord
    <3>2. /\ paid \in PlayerRecord
          /\ paid = [pid   |-> p,
                     money |-> playerMap[d].money + gold,
                     score |-> score,
                     text  |-> playerMap[d].text]
      BY <2>1, <2>2, <2>4, PaidRecordIs
    <3>3. /\ playerMap' = [playerMap EXCEPT ![d] = paid]
          /\ RankUpdate([pid |-> paid.pid, gold |-> paid.money, score |-> paid.score])
      BY <1>3, <2>4 DEF Pay, PaidRecord, score
    <3> HIDE DEF paid
    <3>4. playerMap'[d] = paid /\ RankUpdate(item)
      BY <1>1, <2>2, <3>3, <3>2 DEF PlayerTypeOK
    <3>5. playerMap'[d] # NoPlayer /\ playerMap'[d].pid = p /\ playerMap'[d].score = score
      BY <3>4, <3>2, PlayerAssumption
    <3>6. reply' = <<Answer(c, "SETTLE", "OK")>>
      BY <1>3 DEF Sends
    <3> HIDE DEF item
    <3>7. \/ ScoresOf(rankList') = ScoresOf(rankList)
          \/ /\ p \in DOMAIN ScoresOf(rankList)
             /\ score > ScoresOf(rankList)[p]
             /\ ScoresOf(rankList') = [ScoresOf(rankList) EXCEPT ![p] = score]
      <4>1. /\ rankList \in Seq(RankItem) /\ Descending(rankList) /\ UniquePlayers(rankList)
            /\ rankList' = Updated(rankList, item)
        BY <3>4 DEF ServerInv, RankInv, RankTypeOK, RankSorted, RankUnique, RankUpdate
      <4> QED
        BY <3>1, <4>1, UpdateImproves
    <3>8. CASE ScoresOf(rankList') = ScoresOf(rankList)
      BY <3>8 DEF RankStep
    <3>9. CASE /\ p \in DOMAIN ScoresOf(rankList)
               /\ score > ScoresOf(rankList)[p]
               /\ ScoresOf(rankList') = [ScoresOf(rankList) EXCEPT ![p] = score]
      <4>1. /\ DOMAIN ScoresOf(rankList') = DOMAIN ScoresOf(rankList)
            /\ ScoresOf(rankList')[p] = score
            /\ \A q \in DOMAIN ScoresOf(rankList) :
                 q # p => ScoresOf(rankList')[q] = ScoresOf(rankList)[q]
        BY <3>9
      <4> QED
        BY <2>2, <3>5, <3>6, <3>9, <4>1 DEF RankStep
    <3> QED
      BY <3>7, <3>8, <3>9
  <2> QED
    BY <2>3, <2>4
<1> QED
  BY <1>2, <1>3 DEF LevelSettle

\* No other step of a running server touches the list.
LEMMA NextRank ==
  ASSUME ServerInv, ScoreInv, [Next]_vars, up, up'
  PROVE  RankStep
<1>1. ~MemoryLost /\ ~Dies /\ ~Stop /\ ~Start
  BY DEF MemoryLost, Dies, Stop, Start
<1>2. CASE UNCHANGED rankVars
  BY <1>2, QuietRank DEF rankVars
<1>3. CASE Tick \/ UNCHANGED vars
  BY <1>2, <1>3 DEF Tick, vars
<1>4. ASSUME NEW c \in Clients, Accept(c) \/ Refuse(c) \/ Close(c)
      PROVE  RankStep
  BY <1>2, <1>4 DEF Accept, Refuse, Close
<1>5. ASSUME NEW c \in Clients, Request(c)
      PROVE  RankStep
  <2>1. CASE Query(c) \/ \E state \in LevelStates : LevelUpdate(c, state)
    BY <1>2, <2>1 DEF Query, LevelUpdate
  <2>2. ASSUME NEW p \in PlayerIDs,
               \/ Backpack(c, p)
               \/ \E matches \in BOOLEAN : Login(c, p, matches)
               \/ \E level \in LevelIDs : LevelData(c, p, level)
               \/ LevelStart(c, p)
        PROVE  RankStep
    BY <1>1, <1>2, <2>2 DEF Backpack, Login, LevelData, LevelStart
  <2>3. ASSUME NEW p \in PlayerIDs, Create(c, p)
        PROVE  RankStep
    BY <2>3, CreateRank
  <2>4. ASSUME NEW p \in PlayerIDs, NEW kills \in Kills, NEW spendTime \in SpendTimes,
               NEW gold \in Golds, LevelSettle(c, p, kills, spendTime, gold)
        PROVE  RankStep
    BY <2>4, SettleRank
  <2>5. ASSUME NEW p \in PlayerIDs, NEW page \in Pages, RankReq(c, p, page)
        PROVE  RankStep
    BY <1>1, <2>5, QuietRank DEF RankReq, RankRequest
  <2> QED
    BY <1>5, <2>1, <2>2, <2>3, <2>4, <2>5 DEF Request
<1> QED
  BY <1>1, <1>3, <1>4, <1>5 DEF Next

\* For every number of players, files, addresses and reports: while the server
\* runs, a ranked score changes only upwards, to that of a session, in a
\* settlement that is answered OK, and nobody enters or leaves the list.
THEOREM ServerRankRises ==
  ASSUME FilesScored
  PROVE  Spec => RankRisesWhenPaid
<1>1. ServerInv /\ ScoreInv /\ [Next]_vars => (up /\ up' => RankStep)
  BY NextRank
<1>2. (up /\ up' => RankStep)
        <=> (up /\ up' =>
               LET before == ScoresOf(rankList)
                   after  == ScoresOf(rankList')
               IN  /\ DOMAIN after = DOMAIN before
                   /\ \A p \in DOMAIN before :
                        after[p] # before[p]
                        => /\ after[p] > before[p]
                           /\ \E c \in Clients : reply' = <<Answer(c, "SETTLE", "OK")>>
                           /\ \E c \in Clients : /\ playerMap'[c] # NoPlayer
                                                 /\ playerMap'[c].pid = p
                                                 /\ playerMap'[c].score = after[p])
  BY DEF RankStep
<1> QED
  BY <1>1, <1>2, InitScores, NextScores, ServerInvariant, PTL DEF Spec, RankRisesWhenPaid

=============================================================================
