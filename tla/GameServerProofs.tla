--------------------------- MODULE GameServerProofs ---------------------------
(***************************************************************************)
(* Invariants of the server for every set of players, addresses, levels,   *)
(* files and failures: first the types together with the invariant of the  *)
(* leaderboard, then who is logged in where.                               *)
(***************************************************************************)
EXTENDS GameServer, RankMgrProofs

\* The invariant the other proofs rest on. RankInv belongs to it because the
\* items the list is told of come from files and sessions.
ServerInv == TypeOK /\ RankInv

-----------------------------------------------------------------------------
(* What the parts of the handlers leave behind.                            *)

\* sendData leaves the handle table well typed.
LEMMA SendsType ==
  ASSUME ConnTypeOK, NEW c \in Clients, NEW packets \in Seq(Packet), Sends(c, packets)
  PROVE  ConnTypeOK'
  BY DEF ConnTypeOK, Sends

\* So does a handler that sends nothing.
LEMMA SilentType ==
  ASSUME ConnTypeOK, NEW c \in Clients, Silent(c)
  PROVE  ConnTypeOK'
  BY DEF ConnTypeOK, Silent

\* A process that died has empty tables, and empty tables are well typed.
LEMMA MemoryLostType ==
  ASSUME MemoryLost, now \in Clock, now' = now
  PROVE  ConnTypeOK' /\ PlayerTypeOK' /\ LevelTypeOK' /\ RankTypeOK' /\ RankInv'
<1>1. PlayerTypeOK' /\ LevelTypeOK'
  BY DEF MemoryLost, PlayerTypeOK, LevelTypeOK, NoGames, NoStates, NoPlayers
<1>2. ConnTypeOK'
  <2>1. << >> \in Seq(Packet)
    OBVIOUS
  <2> QED
    BY <2>1 DEF MemoryLost, ConnTypeOK, AllFree
<1>3. rankList' = << >> /\ rankCache' = EmptyCache
  BY DEF MemoryLost
<1>4. << >> \in Seq(RankItem) /\ DOMAIN << >> = {}
  OBVIOUS
<1> QED
  BY <1>1, <1>2, <1>3, <1>4
  DEF RankInv, RankTypeOK, RankSorted, RankUnique, CacheFresh, Descending,
      UniquePlayers, EmptyCache

\* Whatever save() of a player's text leaves in the file is well typed.
LEMMA PlayerWritesType ==
  ASSUME FileTypeOK, NEW p \in PlayerIDs, NEW record \in PlayerRecord,
         NEW w \in PlayerWrites(p, record)
  PROVE  w.file \in PlayerRecord \cup NoRecords
  BY DEF FileTypeOK, PlayerWrites, Writes, TornTexts, NoRecords

\* Whatever save() of a saved game leaves in the file is well typed.
LEMMA SaveWritesType ==
  ASSUME FileTypeOK, NEW p \in PlayerIDs, NEW record \in SaveRecord,
         NEW w \in SaveWrites(p, record)
  PROVE  w.file \in SaveRecord \cup {NoSave}
<1>1. [record EXCEPT !.time = 0] \in SaveRecord
  BY DEF SaveRecord
<1> QED
  BY <1>1 DEF FileTypeOK, SaveWrites, Writes

\* The item the list is told of when a file is read.
LEMMA FileItemType ==
  ASSUME FileTypeOK, NEW p \in PlayerIDs, playerFile[p] \notin NoRecords
  PROVE  ItemOf(p, playerFile[p]) \in RankItem
  BY DEF FileTypeOK, ItemOf, PlayerRecord, RankItem

\* The entry a login or a registration makes is well typed.
LEMMA PlayerMapWithType ==
  ASSUME PlayerTypeOK, NEW c \in Clients, NEW record \in PlayerRecord,
         playerMap' = PlayerMapWith(c, record)
  PROVE  PlayerTypeOK'
  BY DEF PlayerTypeOK, PlayerMapWith

\* The times are those of the clock, so all differences are integers.
LEMMA NowType ==
  ASSUME LevelTypeOK
  PROVE  now \in Int
  BY LevelAssumption DEF LevelTypeOK

\* on_player_diconnect.
LEMMA GameSuspendedType ==
  ASSUME FileTypeOK, LevelTypeOK, now' = now, NEW p \in PlayerIDs, GameSuspended(p)
  PROVE  /\ LevelTypeOK'
         /\ saveFile' \in [PlayerIDs -> SaveRecord \cup {NoSave}]
<1>1. CASE settle[p] = NoSettle
  BY <1>1 DEF GameSuspended, LevelTypeOK, FileTypeOK
<1>2. CASE settle[p] # NoSettle /\ levelState[p] = NoState
  BY <1>2 DEF GameSuspended, LevelTypeOK, FileTypeOK
<1>3. CASE settle[p] # NoSettle /\ levelState[p] # NoState
  <2>1. SaveOf(p) \in SaveRecord
    BY <1>3, NowType DEF SaveOf, SaveRecord, LevelTypeOK, SettleStatus
  <2>2. PICK w \in SaveWrites(p, SaveOf(p)) :
          saveFile' = [saveFile EXCEPT ![p] = w.file]
    BY <1>3 DEF GameSuspended
  <2>3. w.file \in SaveRecord \cup {NoSave}
    BY <2>1, SaveWritesType
  <2> QED
    BY <1>3, <2>2, <2>3 DEF GameSuspended, LevelTypeOK, FileTypeOK
<1> QED
  BY <1>1, <1>2, <1>3

\* reconnect.
LEMMA GameResumedType ==
  ASSUME LevelTypeOK, now' = now, NEW p \in PlayerIDs, NEW save \in SaveRecord,
         GameResumed(p, save)
  PROVE  LevelTypeOK'
<1>1. CASE Expired(save)
  BY <1>1 DEF GameResumed, LevelTypeOK
<1>2. CASE ~Expired(save)
  <2> DEFINE status == [started |-> FALSE, level |-> save.level,
                        start |-> 1, spend |-> save.spend]
  <2>1. save.state \in LevelStates /\ save.level \in LevelIDs /\ save.spend \in Int
    BY DEF SaveRecord
  <2>2. status \in SettleStatus
    BY <2>1 DEF SettleStatus
  <2>3. /\ levelState' = [levelState EXCEPT ![p] = save.state]
        /\ settle' = [settle EXCEPT ![p] = status]
    BY <1>2 DEF GameResumed
  <2> HIDE DEF status
  <2> QED
    BY <2>1, <2>2, <2>3 DEF LevelTypeOK
<1> QED
  BY <1>1, <1>2

\* on_client_close.
LEMMA PlayerCloseType ==
  ASSUME FileTypeOK, PlayerTypeOK, NEW c \in Clients, PlayerClose(c)
  PROVE  /\ PlayerTypeOK'
         /\ playerFile' \in [PlayerIDs -> PlayerRecord \cup NoRecords]
<1>1. CASE playerMap[c] = NoPlayer
  BY <1>1 DEF PlayerClose, PlayerTypeOK, FileTypeOK
<1>2. CASE playerMap[c] # NoPlayer
  <2>1. playerMap[c] \in PlayerRecord /\ playerMap[c].pid \in PlayerIDs
    BY <1>2 DEF PlayerTypeOK, PlayerRecord
  <2>2. PICK w \in PlayerWrites(playerMap[c].pid, playerMap[c]) :
          /\ playerFile' = [playerFile EXCEPT ![playerMap[c].pid] = w.file]
          /\ playerMap' = [playerMap EXCEPT ![c] = NoPlayer]
    BY <1>2 DEF PlayerClose
  <2>3. w.file \in PlayerRecord \cup NoRecords
    BY <2>1, PlayerWritesType
  <2> QED
    BY <2>2, <2>3 DEF PlayerTypeOK, FileTypeOK
<1> QED
  BY <1>1, <1>2

\* A step that leaves the leaderboard alone preserves its invariant.
LEMMA RankUnchanged ==
  ASSUME RankInv, UNCHANGED rankVars
  PROVE  RankInv'
  BY DEF RankInv, RankTypeOK, RankSorted, RankUnique, CacheFresh, rankVars

-----------------------------------------------------------------------------
(* The invariant, action by action.                                        *)

\* The first start of the server establishes the invariant.
LEMMA InitInv == Init => ServerInv
<1> SUFFICES ASSUME Init PROVE ServerInv
  OBVIOUS
<1>1. FileTypeOK
  BY ServerAssumption DEF Init, FileTypeOK
<1>2. PlayerTypeOK /\ LevelTypeOK
  BY DEF Init, PlayerTypeOK, LevelTypeOK, NoPlayers, NoGames, NoStates
<1>3. ConnTypeOK
  <2>1. << >> \in Seq(Packet)
    OBVIOUS
  <2> QED
    BY <2>1 DEF Init, ConnTypeOK, AllFree
<1>4. unpaid \in [PlayerIDs -> BOOLEAN]
  BY DEF Init
<1>5. RankInv
  <2>1. rankList \in RankFromFiles /\ CanStart /\ rankCache = EmptyCache
    BY DEF Init
  <2>2. {ItemOf(p, playerFile[p]) : p \in ListedPlayers} \subseteq RankItem
    BY <1>1, <2>1, FileItemType DEF ListedPlayers, CanStart, Readable
  <2>3. \A x, y \in {ItemOf(p, playerFile[p]) : p \in ListedPlayers} :
          x.pid = y.pid => x = y
    BY DEF ItemOf
  <2> QED
    BY <2>1, <2>2, <2>3, ServerAssumption, LoadedRankInv DEF RankFromFiles
<1>6. RankTypeOK
  BY <1>5 DEF RankInv
<1> QED
  BY <1>1, <1>2, <1>3, <1>4, <1>5, <1>6 DEF ServerInv, TypeOK

\* The end of the process, by a signal or by its own fault.
LEMMA DiesInv ==
  ASSUME ServerInv, Dies
  PROVE  ServerInv'
<1>1. now \in Clock /\ now' = now /\ MemoryLost
  BY DEF ServerInv, TypeOK, LevelTypeOK, Dies
<1>2. ConnTypeOK' /\ PlayerTypeOK' /\ LevelTypeOK' /\ RankTypeOK' /\ RankInv'
  BY <1>1, MemoryLostType
<1> QED
  BY <1>2 DEF ServerInv, TypeOK, FileTypeOK, Dies, fileVars

\* A restart rebuilds the leaderboard from the files.
LEMMA StartInv ==
  ASSUME ServerInv, Start
  PROVE  ServerInv'
<1>1. FileTypeOK /\ ConnTypeOK /\ PlayerTypeOK /\ LevelTypeOK
  BY DEF ServerInv, TypeOK
<1>2. rankList' \in RankFromFiles /\ CanStart /\ rankCache' = EmptyCache
  BY DEF Start
<1>3. {ItemOf(p, playerFile[p]) : p \in ListedPlayers} \subseteq RankItem
  BY <1>1, <1>2, FileItemType DEF ListedPlayers, CanStart, Readable
<1>4. \A list \in RankFromFiles :
        list \in Seq(RankItem) /\ Descending(list) /\ UniquePlayers(list)
  <2>1. \A x, y \in {ItemOf(p, playerFile[p]) : p \in ListedPlayers} :
          x.pid = y.pid => x = y
    BY DEF ItemOf
  <2> QED
    BY <1>3, <2>1, ServerAssumption, LoadedListsProperties DEF RankFromFiles
<1>5. RankInv'
  <2>1. (rankCache \in [Pages -> CachedPage \cup {NoPage}])' /\ CacheFresh'
    BY <1>2 DEF EmptyCache, CacheFresh
  <2> QED
    BY <1>2, <1>4, <2>1 DEF RankInv, RankTypeOK, RankSorted, RankUnique
<1>6. ConnTypeOK'
  BY <1>1 DEF Start, ConnTypeOK
<1> QED
  BY <1>1, <1>5, <1>6
  DEF ServerInv, TypeOK, Start, FileTypeOK, PlayerTypeOK, LevelTypeOK, RankInv,
      fileVars, gameVars

\* Time passes.
LEMMA TickInv ==
  ASSUME ServerInv, Tick
  PROVE  ServerInv'
<1>1. << >> \in Seq(Packet)
  OBVIOUS
<1>2. RankInv'
  BY RankUnchanged DEF ServerInv, Tick
<1> QED
  BY <1>1, <1>2
  DEF ServerInv, TypeOK, Tick, ConnTypeOK, FileTypeOK, PlayerTypeOK, LevelTypeOK,
      RankInv, fileVars, gameVars

\* A connection is accepted or refused.
LEMMA AcceptRefuseInv ==
  ASSUME ServerInv, NEW c \in Clients, Accept(c) \/ Refuse(c)
  PROVE  ServerInv'
<1>1. << >> \in Seq(Packet)
  OBVIOUS
<1>2. RankInv'
  BY RankUnchanged DEF ServerInv, Accept, Refuse
<1>3. ConnTypeOK'
  BY <1>1 DEF ServerInv, TypeOK, ConnTypeOK, Accept, Refuse
<1> QED
  BY <1>2, <1>3
  DEF ServerInv, TypeOK, Accept, Refuse, FileTypeOK, PlayerTypeOK, LevelTypeOK,
      RankInv, fileVars, gameVars

\* A connection is closed: the game is suspended and the player saved.
LEMMA CloseInv ==
  ASSUME ServerInv, NEW c \in Clients, Close(c)
  PROVE  ServerInv'
<1>1. FileTypeOK /\ PlayerTypeOK /\ LevelTypeOK /\ ConnTypeOK
  BY DEF ServerInv, TypeOK
<1>2. PlayerTypeOK' /\ playerFile' \in [PlayerIDs -> PlayerRecord \cup NoRecords]
  BY <1>1, PlayerCloseType DEF Close
<1>3. LevelTypeOK' /\ saveFile' \in [PlayerIDs -> SaveRecord \cup {NoSave}]
  <2>1. CASE playerMap[c] = NoPlayer
    BY <1>1, <2>1 DEF Close, gameVars, LevelTypeOK, FileTypeOK
  <2>2. CASE playerMap[c] # NoPlayer
    <3>1. playerMap[c].pid \in PlayerIDs
      BY <1>1, <2>2 DEF PlayerTypeOK, PlayerRecord
    <3>2. GameSuspended(playerMap[c].pid) /\ now' = now
      BY <2>2 DEF Close
    <3> QED
      BY <1>1, <3>1, <3>2, GameSuspendedType
  <2> QED
    BY <2>1, <2>2
<1>4. ConnTypeOK'
  <2>1. << >> \in Seq(Packet)
    OBVIOUS
  <2> QED
    BY <1>1, <2>1 DEF ConnTypeOK, Close
<1>5. RankInv'
  BY RankUnchanged DEF ServerInv, Close
<1> QED
  BY <1>2, <1>3, <1>4, <1>5 DEF ServerInv, TypeOK, Close, FileTypeOK, RankInv

\* Requests that only read.
LEMMA QueryInv ==
  ASSUME ServerInv, NEW c \in Clients, Query(c)
  PROVE  ServerInv'
<1>1. << >> \in Seq(Packet)
  OBVIOUS
<1>2. ConnTypeOK'
  BY <1>1, SendsType, SilentType DEF Query, ServerInv, TypeOK
<1>3. RankInv'
  BY RankUnchanged DEF ServerInv, Query
<1> QED
  BY <1>2, <1>3
  DEF ServerInv, TypeOK, Query, FileTypeOK, PlayerTypeOK, LevelTypeOK, RankInv,
      fileVars, gameVars

\* The backpack is read from the file; the process may die of it.
LEMMA BackpackInv ==
  ASSUME ServerInv, NEW c \in Clients, NEW p \in PlayerIDs, Backpack(c, p)
  PROVE  ServerInv'
<1>1. CASE Dies
  BY <1>1, DiesInv
<1>2. CASE Query(c)
  BY <1>2, QueryInv
<1> QED
  BY <1>1, <1>2 DEF Backpack, Query

\* The packets of an accepted login.
LEMMA LoginPacketsType ==
  ASSUME NEW c \in Clients, NEW p, NEW resumed \in BOOLEAN, NEW save
  PROVE  LoginPackets(c, p, resumed, save) \in Seq(Packet)
<1>1. Answer(c, "LOGIN", "OK") \in Packet /\ Answer(c, "RECONNECT", "OK") \in Packet
  BY DEF Answer, Packet
<1>2. << >> \in Seq(Packet) /\ <<Answer(c, "LOGIN", "OK")>> \in Seq(Packet)
        /\ <<Answer(c, "RECONNECT", "OK")>> \in Seq(Packet)
  BY <1>1
<1>3. \A s, t \in Seq(Packet) : s \o t \in Seq(Packet)
  OBVIOUS
<1> QED
  BY <1>2, <1>3 DEF LoginPackets

\* A login, in each of its four outcomes.
LEMMA LoginInv ==
  ASSUME ServerInv, NEW c \in Clients, NEW p \in PlayerIDs,
         NEW passwordMatches \in BOOLEAN, Login(c, p, passwordMatches)
  PROVE  ServerInv'
<1>1. FileTypeOK /\ PlayerTypeOK /\ LevelTypeOK /\ ConnTypeOK
  BY DEF ServerInv, TypeOK
<1>2. CASE Dies
  BY <1>2, DiesInv
<1>3. CASE /\ Silent(c) \/ Sends(c, <<Answer(c, "LOGIN", "FAIL")>>)
           /\ UNCHANGED <<unpaid, now, gameVars, playerMap, fileVars, rankVars>>
  <2>1. <<Answer(c, "LOGIN", "FAIL")>> \in Seq(Packet)
    BY DEF Answer, Packet
  <2>2. ConnTypeOK'
    BY <1>1, <1>3, <2>1, SendsType, SilentType
  <2>3. RankInv'
    BY <1>3, RankUnchanged DEF ServerInv
  <2> QED
    BY <1>3, <2>2, <2>3
    DEF ServerInv, TypeOK, FileTypeOK, PlayerTypeOK, LevelTypeOK, RankInv,
        fileVars, gameVars
<1>4. CASE /\ LoginAccepted(p, passwordMatches)
           /\ playerMap' = PlayerMapWith(c, LoginRecord(p))
           /\ IF saveFile[p] = NoSave
              THEN /\ Sends(c, LoginPackets(c, p, FALSE, NoSave))
                   /\ UNCHANGED gameVars
              ELSE \E save \in Parsed(p) :
                     /\ GameResumed(p, save)
                     /\ Sends(c, LoginPackets(c, p, TRUE, save))
           /\ UNCHANGED <<unpaid, now, fileVars, rankVars>>
  <2>1. LoginRecord(p) \in PlayerRecord
    <3>1. playerFile[p] \in PlayerRecord
      BY <1>1, <1>4 DEF FileTypeOK, LoginAccepted, Readable
    <3> QED
      BY <3>1 DEF LoginRecord, PlayerRecord
  <2>2. PlayerTypeOK'
    BY <1>1, <1>4, <2>1, PlayerMapWithType
  <2>3. ConnTypeOK' /\ LevelTypeOK'
    <3>1. CASE saveFile[p] = NoSave
      <4>1. LoginPackets(c, p, FALSE, NoSave) \in Seq(Packet)
        BY LoginPacketsType
      <4> QED
        BY <1>1, <1>4, <3>1, <4>1, SendsType DEF LevelTypeOK, gameVars
    <3>2. CASE saveFile[p] # NoSave
      <4>1. PICK save \in Parsed(p) :
              GameResumed(p, save) /\ Sends(c, LoginPackets(c, p, TRUE, save))
        BY <1>4, <3>2
      <4>2. save \in SaveRecord
        BY <1>1, <3>2, LevelAssumption DEF Parsed, FileTypeOK
      <4>3. LoginPackets(c, p, TRUE, save) \in Seq(Packet)
        BY LoginPacketsType
      <4>4. ConnTypeOK'
        BY <1>1, <4>1, <4>3, SendsType
      <4>5. LevelTypeOK'
        BY <1>1, <1>4, <4>1, <4>2, GameResumedType
      <4> QED
        BY <4>4, <4>5
    <3> QED
      BY <3>1, <3>2
  <2>4. RankInv'
    BY <1>4, RankUnchanged DEF ServerInv
  <2> QED
    BY <1>4, <2>2, <2>3, <2>4 DEF ServerInv, TypeOK, FileTypeOK, RankInv, fileVars
<1> QED
  BY <1>2, <1>3, <1>4 DEF Login

\* A registration, refused or accepted, with the update of the list after it.
LEMMA CreateInv ==
  ASSUME ServerInv, NEW c \in Clients, NEW p \in PlayerIDs, Create(c, p)
  PROVE  ServerInv'
<1>1. /\ FileTypeOK /\ PlayerTypeOK /\ LevelTypeOK /\ ConnTypeOK /\ RankInv
      /\ unpaid \in [PlayerIDs -> BOOLEAN]
  BY DEF ServerInv, TypeOK
<1>2. CASE Dies
  BY <1>2, DiesInv
<1>3. CASE /\ playerFile[p] \notin NoRecords
           /\ Sends(c, <<Answer(c, "CREATE", "EXISTING_PLAYER")>>)
           /\ RankUpdate(ItemOf(p, playerFile[p]))
           /\ UNCHANGED <<unpaid, now, gameVars, playerMap, fileVars>>
  <2>1. <<Answer(c, "CREATE", "EXISTING_PLAYER")>> \in Seq(Packet)
    BY DEF Answer, Packet
  <2>2. ConnTypeOK'
    BY <1>1, <1>3, <2>1, SendsType
  <2>3. RankInv'
    BY <1>1, <1>3, FileItemType, RankUpdateInv
  <2> QED
    BY <1>1, <1>3, <2>2, <2>3
    DEF ServerInv, TypeOK, FileTypeOK, PlayerTypeOK, LevelTypeOK, RankInv,
        fileVars, gameVars
<1>4. CASE /\ \E text \in Texts : \E w \in PlayerWrites(p, NewRecord(p, text)) :
                /\ playerFile' = [playerFile EXCEPT ![p] = w.file]
                /\ IF w.result = 0 /\ Readable(w.file, RankBuffer)
                   THEN /\ playerMap' = PlayerMapWith(c, NewRecord(p, text))
                        /\ Sends(c, <<Answer(c, "CREATE", "OK")>>)
                        /\ RankUpdate(ItemOf(p, w.file))
                        /\ UNCHANGED gameVars
                   ELSE MemoryLost
           /\ UNCHANGED <<unpaid, now, saveFile>>
  <2>1. PICK text \in Texts : \E w \in PlayerWrites(p, NewRecord(p, text)) :
          /\ playerFile' = [playerFile EXCEPT ![p] = w.file]
          /\ IF w.result = 0 /\ Readable(w.file, RankBuffer)
             THEN /\ playerMap' = PlayerMapWith(c, NewRecord(p, text))
                  /\ Sends(c, <<Answer(c, "CREATE", "OK")>>)
                  /\ RankUpdate(ItemOf(p, w.file))
                  /\ UNCHANGED gameVars
             ELSE MemoryLost
    BY <1>4
  <2>2. PICK w \in PlayerWrites(p, NewRecord(p, text)) :
          /\ playerFile' = [playerFile EXCEPT ![p] = w.file]
          /\ IF w.result = 0 /\ Readable(w.file, RankBuffer)
             THEN /\ playerMap' = PlayerMapWith(c, NewRecord(p, text))
                  /\ Sends(c, <<Answer(c, "CREATE", "OK")>>)
                  /\ RankUpdate(ItemOf(p, w.file))
                  /\ UNCHANGED gameVars
             ELSE MemoryLost
    BY <2>1
  <2>3. NewRecord(p, text) \in PlayerRecord
    BY ServerAssumption DEF NewRecord, PlayerRecord, InitialCapital
  <2>4. w.file \in PlayerRecord \cup NoRecords
    BY <1>1, <2>3, PlayerWritesType
  <2>5. FileTypeOK'
    BY <1>1, <1>4, <2>2, <2>4 DEF FileTypeOK
  <2>6. CASE MemoryLost
    <3>1. now \in Clock /\ now' = now
      BY <1>1, <1>4 DEF LevelTypeOK
    <3>2. ConnTypeOK' /\ PlayerTypeOK' /\ LevelTypeOK' /\ RankTypeOK' /\ RankInv'
      BY <2>6, <3>1, MemoryLostType
    <3> QED
      BY <1>1, <1>4, <2>5, <3>2 DEF ServerInv, TypeOK
  <2>7. CASE w.result = 0 /\ Readable(w.file, RankBuffer)
    <3>1. w.file = NewRecord(p, text)
      BY <2>7 DEF PlayerWrites, Writes
    <3>2. <<Answer(c, "CREATE", "OK")>> \in Seq(Packet)
      BY DEF Answer, Packet
    <3>3. ConnTypeOK'
      BY <1>1, <2>2, <2>7, <3>2, SendsType
    <3>4. PlayerTypeOK'
      BY <1>1, <2>3, <2>2, <2>7, PlayerMapWithType
    <3>5. ItemOf(p, w.file) \in RankItem
      BY <2>3, <3>1 DEF ItemOf, PlayerRecord, RankItem
    <3>6. RankInv'
      BY <1>1, <2>2, <2>7, <3>5, RankUpdateInv
    <3>7. LevelTypeOK'
      BY <1>1, <1>4, <2>2, <2>7 DEF LevelTypeOK, gameVars
    <3> QED
      BY <1>1, <1>4, <2>5, <3>3, <3>4, <3>6, <3>7 DEF ServerInv, TypeOK, RankInv
  <2> QED
    BY <2>2, <2>6, <2>7
<1> QED
  BY <1>2, <1>3, <1>4 DEF Create, Readable

\* A game is opened.
LEMMA LevelDataInv ==
  ASSUME ServerInv, NEW c \in Clients, NEW p \in PlayerIDs, NEW level \in LevelIDs,
         LevelData(c, p, level)
  PROVE  ServerInv'
<1>1. <<LevelDataPacket(c, p, level)>> \in Seq(Packet)
  <2>1. LevelDataPacket(c, p, level) \in Packet
    BY DEF LevelDataPacket, Answer, Packet
  <2> QED
    BY <2>1
<1>2. ConnTypeOK'
  BY <1>1, SendsType DEF LevelData, ServerInv, TypeOK
<1>3. RankInv'
  BY RankUnchanged DEF ServerInv, LevelData
<1>4. LevelTypeOK'
  BY DEF ServerInv, TypeOK, LevelData, GameOpened, LevelTypeOK, SettleStatus
<1> QED
  BY <1>2, <1>3, <1>4
  DEF ServerInv, TypeOK, LevelData, FileTypeOK, PlayerTypeOK, RankInv, fileVars

\* A game is started.
LEMMA LevelStartInv ==
  ASSUME ServerInv, NEW c \in Clients, NEW p \in PlayerIDs, LevelStart(c, p)
  PROVE  ServerInv'
<1>1. ConnTypeOK'
  BY SilentType DEF LevelStart, ServerInv, TypeOK
<1>2. RankInv'
  BY RankUnchanged DEF ServerInv, LevelStart
<1>3. LevelTypeOK'
  <2>1. LevelTypeOK /\ now \in Int
    BY NowType DEF ServerInv, TypeOK
  <2>2. now' = now /\ levelState' = levelState
    BY DEF LevelStart
  <2>3. CASE settle[p] = NoSettle
    BY <2>1, <2>2, <2>3 DEF LevelStart, GameStarted, LevelTypeOK
  <2>4. CASE settle[p] # NoSettle
    <3> DEFINE status == [started |-> TRUE, level |-> settle[p].level, start |-> now, spend |-> 0]
    <3>1. settle[p] \in SettleStatus
      BY <2>1, <2>4 DEF LevelTypeOK
    <3>2. status \in SettleStatus
      BY <2>1, <3>1 DEF SettleStatus
    <3>3. settle' = [settle EXCEPT ![p] = status]
      BY <2>4 DEF LevelStart, GameStarted
    <3> HIDE DEF status
    <3> QED
      BY <2>1, <2>2, <3>2, <3>3 DEF LevelTypeOK
  <2> QED
    BY <2>3, <2>4
<1> QED
  BY <1>1, <1>2, <1>3
  DEF ServerInv, TypeOK, LevelStart, FileTypeOK, PlayerTypeOK, RankInv, fileVars

\* A state is uploaded.
LEMMA LevelUpdateInv ==
  ASSUME ServerInv, NEW c \in Clients, NEW state \in LevelStates, LevelUpdate(c, state)
  PROVE  ServerInv'
<1>1. ConnTypeOK'
  BY SilentType DEF LevelUpdate, ServerInv, TypeOK
<1>2. RankInv'
  BY RankUnchanged DEF ServerInv, LevelUpdate
<1>3. LevelTypeOK'
  BY DEF ServerInv, TypeOK, LevelUpdate, StateUploaded, LevelTypeOK
<1> QED
  BY <1>1, <1>2, <1>3
  DEF ServerInv, TypeOK, LevelUpdate, FileTypeOK, PlayerTypeOK, RankInv, fileVars

\* A score that counts is an integer, and so is everything a settlement
\* writes into the record of a session.
LEMMA ScoreType ==
  ASSUME NEW kills \in Int, NEW spendTime \in Int
  PROVE  Score(kills, spendTime) \in Int
  BY DEF Score, GhostValue, ParTime, SecondValue

\* Every session is one of a connection and holds a record.
LEMMA SessionType ==
  ASSUME PlayerTypeOK, NEW p, NEW d \in Sessions(p)
  PROVE  d \in Clients /\ playerMap[d] \in PlayerRecord /\ playerMap[d].pid = p
  BY DEF Sessions, PlayerTypeOK

\* What the payment makes of the record of a session.
PaidRecord(record, score, gold) ==
  [record EXCEPT !.money = @ + gold, !.score = IF score > record.score THEN score ELSE @]

\* It is a record of the same player, with the same texts.
LEMMA PaidRecordIs ==
  ASSUME NEW record \in PlayerRecord, NEW score \in Int, NEW gold \in Int
  PROVE  /\ PaidRecord(record, score, gold)
              = [pid   |-> record.pid,
                 money |-> record.money + gold,
                 score |-> IF score > record.score THEN score ELSE record.score,
                 text  |-> record.text]
         /\ PaidRecord(record, score, gold) \in PlayerRecord
<1> DEFINE richer == [record EXCEPT !.money = @ + gold]
           higher == IF score > record.score THEN score ELSE record.score
           paid   == [pid |-> record.pid, money |-> record.money + gold,
                      score |-> higher, text |-> record.text]
<1>1. richer = [pid |-> record.pid, money |-> record.money + gold,
                score |-> record.score, text |-> record.text]
  BY DEF PlayerRecord
<1>2. PaidRecord(record, score, gold)
        = [richer EXCEPT !.score = IF score > record.score THEN score ELSE @]
  BY DEF PaidRecord
<1> HIDE DEF richer
<1>3. PaidRecord(record, score, gold) = paid
  BY <1>1, <1>2
<1>4. paid \in PlayerRecord
  BY DEF PlayerRecord
<1> QED
  BY <1>3, <1>4

\* The payment keeps the sessions and the leaderboard well typed.
LEMMA PayType ==
  ASSUME PlayerTypeOK, RankInv, NEW p, NEW d \in Sessions(p),
         NEW score \in Int, NEW gold \in Int, Pay(d, score, gold)
  PROVE  PlayerTypeOK' /\ RankInv'
<1> DEFINE record == playerMap[d]
           beaten == score > record.score
           paid   == PaidRecord(record, score, gold)
<1>1. d \in Clients /\ record \in PlayerRecord
  BY SessionType
<1>2. paid \in PlayerRecord
  BY <1>1, PaidRecordIs
<1>3. /\ playerMap' = [playerMap EXCEPT ![d] = paid]
      /\ IF beaten
         THEN RankUpdate([pid |-> paid.pid, gold |-> paid.money, score |-> paid.score])
         ELSE UNCHANGED rankVars
  BY DEF Pay, PaidRecord
<1> HIDE DEF paid, beaten
<1>4. PlayerTypeOK'
  BY <1>1, <1>2, <1>3 DEF PlayerTypeOK
<1>5. [pid |-> paid.pid, gold |-> paid.money, score |-> paid.score] \in RankItem
  BY <1>2 DEF PlayerRecord, RankItem
<1>6. RankInv'
  BY <1>3, <1>5, RankUpdateInv, RankUnchanged
<1> QED
  BY <1>4, <1>6

\* A settlement, whatever it comes to.
LEMMA LevelSettleInv ==
  ASSUME ServerInv, NEW c \in Clients, NEW p \in PlayerIDs, NEW kills \in Kills,
         NEW spendTime \in SpendTimes, NEW gold \in Golds,
         LevelSettle(c, p, kills, spendTime, gold)
  PROVE  ServerInv'
<1>1. /\ FileTypeOK /\ PlayerTypeOK /\ LevelTypeOK /\ ConnTypeOK /\ RankInv
      /\ unpaid \in [PlayerIDs -> BOOLEAN]
  BY DEF ServerInv, TypeOK
<1>2. PICK removed \in IF saveFile[p] = NoSave THEN {TRUE} ELSE RemoveOutcomes :
        /\ GameDiscarded(p, removed)
        /\ unpaid' = [unpaid EXCEPT ![p] = @ /\ ~removed]
  BY DEF LevelSettle
<1>3. now' = now /\ playerFile' = playerFile
  BY DEF LevelSettle
<1>4. LevelTypeOK' /\ FileTypeOK'
  BY <1>1, <1>2, <1>3 DEF GameDiscarded, LevelTypeOK, FileTypeOK
<1>5. unpaid' \in [PlayerIDs -> BOOLEAN]
  BY <1>1, <1>2
<1>6. ConnTypeOK'
  <2>1. \A code \in {"OK", "SERVER_ERROR", "CHEATING", "CAN_NOT_FIND_GAME"} :
          <<Answer(c, "SETTLE", code)>> \in Seq(Packet)
    BY DEF Answer, Packet
  <2>2. Verdict(p, spendTime) \in {"OK", "CHEATING", "CAN_NOT_FIND_GAME"}
    BY DEF Verdict
  <2>3. \E code \in {"OK", "SERVER_ERROR", "CHEATING", "CAN_NOT_FIND_GAME"} :
          Sends(c, <<Answer(c, "SETTLE", code)>>)
    BY <2>2 DEF LevelSettle
  <2> QED
    BY <1>1, <2>1, <2>3, SendsType
<1>7. PlayerTypeOK' /\ RankInv'
  <2>1. CASE UNCHANGED <<playerMap, rankVars>>
    BY <1>1, <2>1, RankUnchanged DEF PlayerTypeOK
  <2>2. ASSUME NEW d \in Sessions(p), Pay(d, Score(kills, spendTime), gold)
        PROVE  PlayerTypeOK' /\ RankInv'
    <3>1. kills \in Int /\ spendTime \in Int /\ gold \in Int
      BY ServerAssumption
    <3> QED
      BY <1>1, <2>2, <3>1, ScoreType, PayType
  <2> QED
    BY <2>1, <2>2 DEF LevelSettle
<1> QED
  BY <1>4, <1>5, <1>6, <1>7 DEF ServerInv, TypeOK, RankInv

\* A page of the leaderboard is asked for.
LEMMA RankReqInv ==
  ASSUME ServerInv, NEW c \in Clients, NEW p \in PlayerIDs, NEW page \in Pages,
         RankReq(c, p, page)
  PROVE  ServerInv'
<1>1. CASE Dies
  BY <1>1, DiesInv
<1>2. CASE /\ RankRequest(page, p)
           /\ Sends(c, << >>)
           /\ UNCHANGED <<unpaid, now, gameVars, playerMap, fileVars>>
  <2>1. << >> \in Seq(Packet)
    OBVIOUS
  <2>2. ConnTypeOK'
    BY <1>2, <2>1, SendsType DEF ServerInv, TypeOK
  <2>3. RankInv'
    BY <1>2, RankRequestInv DEF ServerInv
  <2> QED
    BY <1>2, <2>2, <2>3
    DEF ServerInv, TypeOK, FileTypeOK, PlayerTypeOK, LevelTypeOK, RankInv,
        fileVars, gameVars
<1> QED
  BY <1>1, <1>2 DEF RankReq

\* Every step preserves the invariant.
LEMMA NextInv == ServerInv /\ [Next]_vars => ServerInv'
<1> SUFFICES ASSUME ServerInv, [Next]_vars PROVE ServerInv'
  OBVIOUS
<1>1. CASE Stop
  BY <1>1, DiesInv DEF Stop
<1>2. CASE Start
  BY <1>2, StartInv
<1>3. CASE Tick
  BY <1>3, TickInv
<1>4. ASSUME NEW c \in Clients, Accept(c) \/ Refuse(c)
      PROVE  ServerInv'
  BY <1>4, AcceptRefuseInv
<1>5. ASSUME NEW c \in Clients, Close(c)
      PROVE  ServerInv'
  BY <1>5, CloseInv
<1>6. ASSUME NEW c \in Clients, Request(c)
      PROVE  ServerInv'
  <2>1. CASE Query(c)
    BY <2>1, QueryInv
  <2>2. ASSUME NEW p \in PlayerIDs, Backpack(c, p)
        PROVE  ServerInv'
    BY <2>2, BackpackInv
  <2>3. ASSUME NEW p \in PlayerIDs, NEW matches \in BOOLEAN, Login(c, p, matches)
        PROVE  ServerInv'
    BY <2>3, LoginInv
  <2>4. ASSUME NEW p \in PlayerIDs, Create(c, p)
        PROVE  ServerInv'
    BY <2>4, CreateInv
  <2>5. ASSUME NEW p \in PlayerIDs, NEW level \in LevelIDs, LevelData(c, p, level)
        PROVE  ServerInv'
    BY <2>5, LevelDataInv
  <2>6. ASSUME NEW p \in PlayerIDs, LevelStart(c, p)
        PROVE  ServerInv'
    BY <2>6, LevelStartInv
  <2>7. ASSUME NEW p \in PlayerIDs, NEW kills \in Kills, NEW spendTime \in SpendTimes,
               NEW gold \in Golds, LevelSettle(c, p, kills, spendTime, gold)
        PROVE  ServerInv'
    BY <2>7, LevelSettleInv
  <2>8. ASSUME NEW p \in PlayerIDs, NEW page \in Pages, RankReq(c, p, page)
        PROVE  ServerInv'
    BY <2>8, RankReqInv
  <2>9. ASSUME NEW state \in LevelStates, LevelUpdate(c, state)
        PROVE  ServerInv'
    BY <2>9, LevelUpdateInv
  <2> QED
    BY <1>6, <2>1, <2>2, <2>3, <2>4, <2>5, <2>6, <2>7, <2>8, <2>9 DEF Request
<1>7. CASE UNCHANGED vars
  <2>1. RankInv'
    BY <1>7, RankUnchanged DEF ServerInv, vars
  <2> QED
    BY <1>7, <2>1
    DEF ServerInv, TypeOK, ConnTypeOK, FileTypeOK, PlayerTypeOK, LevelTypeOK,
        RankInv, vars, serverVars, gameVars, fileVars
<1> QED
  BY <1>1, <1>2, <1>3, <1>4, <1>5, <1>6, <1>7 DEF Next

\* The whole invariant holds for ever.
THEOREM ServerInvariant == Spec => []ServerInv
  BY InitInv, NextInv, PTL DEF Spec

\* Every variable of the server keeps its type, through every request, crash
\* and restart.
THEOREM TypeCorrect == Spec => []TypeOK
<1>1. ServerInv => TypeOK
  BY DEF ServerInv
<1> QED
  BY <1>1, ServerInvariant, PTL

\* In the running server, too, the list stays ordered ...
THEOREM ServerRankSorted == Spec => []RankSorted
<1>1. ServerInv => RankSorted
  BY DEF ServerInv, RankInv
<1> QED
  BY <1>1, ServerInvariant, PTL

\* ... and a cached page is the page the list holds, although settlements and
\* registrations of other players change the list between two requests.
THEOREM ServerCacheFresh == Spec => []CacheFresh
<1>1. ServerInv => CacheFresh
  BY DEF ServerInv, RankInv
<1> QED
  BY <1>1, ServerInvariant, PTL

\* The rank in a reply and the rows next to it agree in the running server.
THEOREM ServerPageAgrees == Spec => []PageAgrees
<1>1. ServerInv => PageAgrees
  BY PagesAgree DEF ServerInv
<1> QED
  BY <1>1, ServerInvariant, PTL

-----------------------------------------------------------------------------
(* Nobody stays logged in on an address that is free.                      *)

\* No handle becomes free.
NothingFreed == \A c \in Clients : conn'[c] = "free" => conn[c] = "free"

\* Sending, and returning without an answer, free no handle, and the handle of
\* the packet that is handled is not free.
LEMMA HandlerConn ==
  ASSUME ConnTypeOK, NEW c \in Clients, Handling(c),
         Silent(c) \/ \E packets : Sends(c, packets)
  PROVE  NothingFreed /\ conn'[c] # "free"
  BY DEF ConnTypeOK, Handling, Silent, Sends, NothingFreed

\* The handler of a packet enters nobody on another connection.
LEMMA HandledLogins ==
  ASSUME NoLoginOutlivesHandle, ConnTypeOK, NEW c \in Clients, Handling(c),
         Silent(c) \/ \E packets : Sends(c, packets),
         \A d \in Clients \ {c} : playerMap'[d] # NoPlayer => playerMap[d] # NoPlayer
  PROVE  NoLoginOutlivesHandle'
  BY HandlerConn DEF NoLoginOutlivesHandle, NothingFreed

\* Every step keeps the logins on handles that are not free.
LEMMA NextLogins ==
  ServerInv /\ NoLoginOutlivesHandle /\ [Next]_vars => NoLoginOutlivesHandle'
<1> SUFFICES ASSUME ServerInv, NoLoginOutlivesHandle, [Next]_vars
             PROVE  NoLoginOutlivesHandle'
  OBVIOUS
<1>1. PlayerTypeOK /\ ConnTypeOK
  BY DEF ServerInv, TypeOK
<1>2. CASE MemoryLost
  BY <1>2 DEF MemoryLost, NoPlayers, NoLoginOutlivesHandle
<1>3. CASE Start \/ Tick
  BY <1>3 DEF Start, Tick, NoLoginOutlivesHandle
<1>4. ASSUME NEW c \in Clients, Accept(c) \/ Refuse(c)
      PROVE  NoLoginOutlivesHandle'
  BY <1>1, <1>4 DEF Accept, Refuse, ConnTypeOK, NoLoginOutlivesHandle
<1>5. ASSUME NEW c \in Clients, Close(c)
      PROVE  NoLoginOutlivesHandle'
  <2>1. conn' = [conn EXCEPT ![c] = "free"]
    BY <1>5 DEF Close
  <2>2. playerMap'[c] = NoPlayer /\ \A d \in Clients \ {c} : playerMap'[d] = playerMap[d]
    BY <1>1, <1>5 DEF Close, PlayerClose, PlayerTypeOK
  <2> QED
    BY <1>1, <2>1, <2>2 DEF ConnTypeOK, NoLoginOutlivesHandle
<1>6. ASSUME NEW c \in Clients, Handling(c),
             Silent(c) \/ \E packets : Sends(c, packets),
             playerMap' = playerMap
      PROVE  NoLoginOutlivesHandle'
  BY <1>1, <1>6, HandledLogins
<1>7. ASSUME NEW c \in Clients, Handling(c), \E packets : Sends(c, packets),
             NEW record, playerMap' = PlayerMapWith(c, record)
      PROVE  NoLoginOutlivesHandle'
  <2>1. \A d \in Clients \ {c} : playerMap'[d] = playerMap[d]
    BY <1>1, <1>7 DEF PlayerMapWith, PlayerTypeOK
  <2> QED
    BY <1>1, <1>7, <2>1, HandledLogins
<1>8. ASSUME NEW c \in Clients, Request(c)
      PROVE  NoLoginOutlivesHandle'
  <2>1. CASE Query(c)
    BY <1>6, <2>1 DEF Query
  <2>2. ASSUME NEW p \in PlayerIDs, Backpack(c, p)
        PROVE  NoLoginOutlivesHandle'
    BY <1>2, <1>6, <2>2 DEF Backpack, Dies
  <2>3. ASSUME NEW p \in PlayerIDs, NEW matches \in BOOLEAN, Login(c, p, matches)
        PROVE  NoLoginOutlivesHandle'
    BY <1>2, <1>6, <1>7, <2>3 DEF Login, Dies
  <2>4. ASSUME NEW p \in PlayerIDs, Create(c, p)
        PROVE  NoLoginOutlivesHandle'
    BY <1>2, <1>6, <1>7, <2>4 DEF Create, Dies
  <2>5. ASSUME NEW p \in PlayerIDs, NEW level \in LevelIDs, LevelData(c, p, level)
        PROVE  NoLoginOutlivesHandle'
    BY <1>6, <2>5 DEF LevelData
  <2>6. ASSUME NEW p \in PlayerIDs, LevelStart(c, p)
        PROVE  NoLoginOutlivesHandle'
    BY <1>6, <2>6 DEF LevelStart
  <2>7. ASSUME NEW p \in PlayerIDs, NEW kills \in Kills, NEW spendTime \in SpendTimes,
               NEW gold \in Golds, LevelSettle(c, p, kills, spendTime, gold)
        PROVE  NoLoginOutlivesHandle'
    <3>1. Handling(c) /\ \E packets : Sends(c, packets)
      BY <2>7 DEF LevelSettle
    <3>2. CASE playerMap' = playerMap
      BY <1>6, <3>1, <3>2
    <3>3. ASSUME NEW d \in Sessions(p), Pay(d, Score(kills, spendTime), gold)
          PROVE  NoLoginOutlivesHandle'
      <4>1. playerMap[d] # NoPlayer /\ \A e \in Clients \ {d} : playerMap'[e] = playerMap[e]
        BY <1>1, <3>3 DEF Pay, Sessions, PlayerTypeOK
      <4> QED
        BY <1>1, <3>1, <4>1, HandledLogins
    <3> QED
      BY <2>7, <3>2, <3>3 DEF LevelSettle
  <2>8. ASSUME NEW p \in PlayerIDs, NEW page \in Pages, RankReq(c, p, page)
        PROVE  NoLoginOutlivesHandle'
    BY <1>2, <1>6, <2>8 DEF RankReq, Dies
  <2>9. ASSUME NEW state \in LevelStates, LevelUpdate(c, state)
        PROVE  NoLoginOutlivesHandle'
    BY <1>6, <2>9 DEF LevelUpdate
  <2> QED
    BY <1>8, <2>1, <2>2, <2>3, <2>4, <2>5, <2>6, <2>7, <2>8, <2>9 DEF Request
<1>9. CASE UNCHANGED vars
  BY <1>9 DEF vars, serverVars, NoLoginOutlivesHandle
<1> QED
  BY <1>2, <1>3, <1>4, <1>5, <1>8, <1>9 DEF Next, Stop, Dies

\* No session outlives its handle, so no connection inherits one from the
\* handle that had its address before, whatever the files hold.
THEOREM NoInheritedLogin == Spec => []NoLoginOutlivesHandle
<1>1. Init => NoLoginOutlivesHandle
  BY DEF Init, NoPlayers, NoLoginOutlivesHandle
<1> QED
  BY <1>1, NextLogins, ServerInvariant, PTL DEF Spec

-----------------------------------------------------------------------------
(* Who is logged in where.                                                 *)

\* Every readable file stores the ID it is named after.
NamedFiles ==
  \A p \in PlayerIDs : playerFile[p] \notin NoRecords => playerFile[p].pid = p

\* The invariant of the sessions. NamedFiles ties the ID that is looked up to
\* the ID the new entry gets; that nobody else plays as the same player is what
\* keeps the write of a close from tearing the file of somebody online.
SessionInv ==
  /\ NamedFiles
  /\ OneConnectionPerPlayer
  /\ OnlineFileReadable

\* A step that touches neither sessions nor files.
LEMMA QuietSessions ==
  ASSUME SessionInv, playerMap' = playerMap, playerFile' = playerFile
  PROVE  SessionInv'
  BY DEF SessionInv, NamedFiles, OneConnectionPerPlayer, OnlineFileReadable,
         Online, Sessions

\* A process that died has no sessions.
LEMMA LostSessions ==
  ASSUME MemoryLost, NamedFiles'
  PROVE  SessionInv'
  BY DEF MemoryLost, NoPlayers, SessionInv, OneConnectionPerPlayer,
         OnlineFileReadable, Online, Sessions

\* A player who was not online is entered with the ID of his file, which a
\* login can read or his registration has written.
LEMMA EnteredSessions ==
  ASSUME SessionInv, PlayerTypeOK, FileTypeOK, NEW c \in Clients,
         NEW p \in PlayerIDs, ~Online(p),
         NEW record, record.pid = p, playerMap' = PlayerMapWith(c, record),
         \A q \in PlayerIDs \ {p} : playerFile'[q] = playerFile[q],
         playerFile'[p] \notin NoRecords, playerFile'[p].pid = p,
         \/ Readable(playerFile'[p], LoginBuffer)
         \/ playerFile'[p] = NewRecord(p, record.text)
  PROVE  SessionInv'
<1>1. NamedFiles'
  BY DEF SessionInv, NamedFiles
<1>2. \A d \in Clients :
        playerMap'[d] = playerMap[d] \/ (d = c /\ playerMap'[d].pid = p)
  BY DEF PlayerMapWith, PlayerTypeOK
<1>3. \A d \in Clients :
        playerMap'[d] # playerMap[d] => playerMap[d] = NoPlayer
  BY DEF PlayerMapWith, PlayerTypeOK
<1>4. \A d \in Clients : playerMap[d] # NoPlayer => playerMap[d].pid # p
  BY DEF Online, Sessions
<1>5. OneConnectionPerPlayer'
  BY <1>2, <1>3, <1>4 DEF SessionInv, OneConnectionPerPlayer
<1>6. OnlineFileReadable'
  <2> SUFFICES ASSUME NEW q \in PlayerIDs, NEW d \in Clients,
                      playerMap'[d] # NoPlayer, playerMap'[d].pid = q
               PROVE  /\ playerFile'[q] \notin NoRecords
                      /\ \/ Readable(playerFile'[q], LoginBuffer)
                         \/ \E e \in Clients :
                              /\ playerMap'[e] # NoPlayer /\ playerMap'[e].pid = q
                              /\ playerFile'[q] = NewRecord(q, playerMap'[e].text)
    BY DEF OnlineFileReadable, Online, Sessions
  <2>1. CASE q = p
    <3>1. playerMap'[d] # playerMap[d]
      BY <1>4, <2>1
    <3>2. d = c /\ playerMap'[d] = record
      BY <1>2, <3>1 DEF PlayerMapWith, PlayerTypeOK
    <3> QED
      BY <2>1, <3>2
  <2>2. CASE q # p
    <3>1. playerMap[d] # NoPlayer /\ playerMap[d].pid = q
      BY <1>2, <2>2
    <3>2. playerFile'[q] = playerFile[q]
      BY <2>2
    <3>3. /\ playerFile[q] \notin NoRecords
          /\ \/ Readable(playerFile[q], LoginBuffer)
             \/ \E e \in Clients :
                  /\ playerMap[e] # NoPlayer /\ playerMap[e].pid = q
                  /\ playerFile[q] = NewRecord(q, playerMap[e].text)
      BY <3>1 DEF SessionInv, OnlineFileReadable, Online, Sessions
    <3>4. \A e \in Clients : playerMap[e] # NoPlayer => playerMap'[e] = playerMap[e]
      BY <1>3
    <3> QED
      BY <3>2, <3>3, <3>4
  <2> QED
    BY <2>1, <2>2
<1> QED
  BY <1>1, <1>5, <1>6 DEF SessionInv

\* The close of a connection takes its session away; the write that may tear
\* the file of that player can hurt nobody who is online.
LEMMA ClosedSessions ==
  ASSUME SessionInv, PlayerTypeOK, FileTypeOK, NEW c \in Clients, Close(c)
  PROVE  SessionInv'
<1>1. PlayerClose(c)
  BY DEF Close
<1>2. CASE playerMap[c] = NoPlayer
  BY <1>1, <1>2, QuietSessions DEF PlayerClose
<1>3. CASE playerMap[c] # NoPlayer
  <2> DEFINE p == playerMap[c].pid
  <2>1. playerMap[c] \in PlayerRecord /\ p \in PlayerIDs
    BY <1>3 DEF PlayerTypeOK, PlayerRecord
  <2>2. PICK w \in PlayerWrites(p, playerMap[c]) :
          /\ playerFile' = [playerFile EXCEPT ![p] = w.file]
          /\ playerMap' = [playerMap EXCEPT ![c] = NoPlayer]
    BY <1>1, <1>3 DEF PlayerClose
  <2>3. w.file \in NoRecords \cup {playerMap[c], playerFile[p]}
    BY DEF PlayerWrites, Writes, TornTexts, NoRecords
  <2> HIDE DEF p
  <2>4. NamedFiles'
    BY <2>1, <2>2, <2>3 DEF SessionInv, NamedFiles, FileTypeOK, p
  <2>5. \A d \in Clients : d # c => playerMap'[d] = playerMap[d]
    BY <2>2 DEF PlayerTypeOK
  <2>6. playerMap'[c] = NoPlayer
    BY <2>2 DEF PlayerTypeOK
  <2>7. OneConnectionPerPlayer'
    BY <2>5, <2>6 DEF SessionInv, OneConnectionPerPlayer
  <2>8. OnlineFileReadable'
    <3> SUFFICES ASSUME NEW q \in PlayerIDs, NEW d \in Clients,
                        playerMap'[d] # NoPlayer, playerMap'[d].pid = q
                 PROVE  /\ playerFile'[q] \notin NoRecords
                        /\ \/ Readable(playerFile'[q], LoginBuffer)
                           \/ \E e \in Clients :
                                /\ playerMap'[e] # NoPlayer /\ playerMap'[e].pid = q
                                /\ playerFile'[q] = NewRecord(q, playerMap'[e].text)
      BY DEF OnlineFileReadable, Online, Sessions
    <3>1. d # c /\ playerMap[d] # NoPlayer /\ playerMap[d].pid = q
      BY <2>5, <2>6
    <3>2. q # p
      BY <1>3, <3>1 DEF SessionInv, OneConnectionPerPlayer, p
    <3>3. /\ playerFile[q] \notin NoRecords
          /\ \/ Readable(playerFile[q], LoginBuffer)
             \/ \E e \in Clients :
                  /\ playerMap[e] # NoPlayer /\ playerMap[e].pid = q
                  /\ playerFile[q] = NewRecord(q, playerMap[e].text)
      BY <3>1 DEF SessionInv, OnlineFileReadable, Online, Sessions
    <3>4. playerFile'[q] = playerFile[q]
      BY <2>2, <3>2 DEF FileTypeOK
    <3>5. \A e \in Clients : playerMap[e] # NoPlayer /\ playerMap[e].pid = q
                             => playerMap'[e] = playerMap[e]
      BY <2>5, <3>2 DEF p
    <3> QED
      BY <3>3, <3>4, <3>5
  <2> QED
    BY <2>4, <2>7, <2>8 DEF SessionInv
<1> QED
  BY <1>2, <1>3

\* The payment leaves every session with its player and his texts.
LEMMA PaidSessions ==
  ASSUME SessionInv, PlayerTypeOK, playerFile' = playerFile,
         NEW p, NEW d \in Sessions(p), NEW score \in Int, NEW gold \in Int,
         Pay(d, score, gold)
  PROVE  SessionInv'
<1>1. d \in Clients /\ playerMap[d] # NoPlayer
  BY DEF Sessions
<1>2. \A c \in Clients : c # d => playerMap'[c] = playerMap[c]
  BY DEF Pay, PlayerTypeOK
<1>3. playerMap[d] \in PlayerRecord
  BY <1>1 DEF PlayerTypeOK
<1> DEFINE paid == PaidRecord(playerMap[d], score, gold)
<1>4. paid.pid = playerMap[d].pid /\ paid.text = playerMap[d].text /\ paid \in PlayerRecord
  BY <1>3, PaidRecordIs
<1>5. playerMap'[d] = paid
  BY <1>1 DEF Pay, PaidRecord, PlayerTypeOK
<1>6. paid # NoPlayer
  BY <1>4, PlayerAssumption
<1> HIDE DEF paid
<1>7. \A c \in Clients : /\ (playerMap'[c] # NoPlayer) <=> (playerMap[c] # NoPlayer)
                         /\ playerMap'[c].pid = playerMap[c].pid
                         /\ playerMap'[c].text = playerMap[c].text
  BY <1>1, <1>2, <1>4, <1>5, <1>6
<1> QED
  BY <1>7
  DEF SessionInv, NamedFiles, OneConnectionPerPlayer, OnlineFileReadable,
      Online, Sessions

\* The server starts without sessions.
LEMMA InitSessions ==
  ASSUME FilesNamedAfterPlayers
  PROVE  Init => SessionInv
  BY DEF Init, FilesNamedAfterPlayers, SessionInv, NamedFiles, NoPlayers,
         OneConnectionPerPlayer, OnlineFileReadable, Online, Sessions

\* A login, accepted or not, keeps the sessions in order.
LEMMA LoginSessions ==
  ASSUME ServerInv, SessionInv, NEW c \in Clients, NEW p \in PlayerIDs,
         NEW passwordMatches \in BOOLEAN, Login(c, p, passwordMatches)
  PROVE  SessionInv'
<1>1. FileTypeOK /\ PlayerTypeOK /\ NamedFiles
  BY DEF ServerInv, TypeOK, SessionInv
<1>2. CASE Dies
  BY <1>1, <1>2, LostSessions DEF Dies, fileVars, NamedFiles
<1>3. CASE /\ Silent(c) \/ Sends(c, <<Answer(c, "LOGIN", "FAIL")>>)
           /\ UNCHANGED <<unpaid, now, gameVars, playerMap, fileVars, rankVars>>
  BY <1>3, QuietSessions DEF fileVars
<1>4. CASE /\ ~Online(p)
           /\ LoginAccepted(p, passwordMatches)
           /\ playerMap' = PlayerMapWith(c, LoginRecord(p))
           /\ \E packets : Sends(c, packets)
           /\ UNCHANGED fileVars
  <2>1. playerFile[p] \notin NoRecords /\ playerFile[p].pid = p
    BY <1>1, <1>4 DEF LoginAccepted, Readable, NamedFiles
  <2>2. LoginRecord(p).pid = p
    BY <2>1 DEF LoginRecord
  <2>3. playerFile' = playerFile
    BY <1>4 DEF fileVars
  <2> QED
    BY <1>1, <1>4, <2>1, <2>2, <2>3, EnteredSessions DEF LoginAccepted
<1> QED
  BY <1>2, <1>3, <1>4 DEF Login

\* A registration keeps them in order: when its write fails, the process ends
\* before the player is entered.
LEMMA CreateSessions ==
  ASSUME ServerInv, SessionInv, NEW c \in Clients, NEW p \in PlayerIDs, Create(c, p)
  PROVE  SessionInv'
<1>1. FileTypeOK /\ PlayerTypeOK /\ NamedFiles
  BY DEF ServerInv, TypeOK, SessionInv
<1>2. CASE Dies
  BY <1>1, <1>2, LostSessions DEF Dies, fileVars, NamedFiles
<1>3. CASE /\ Sends(c, <<Answer(c, "CREATE", "EXISTING_PLAYER")>>)
           /\ UNCHANGED <<unpaid, now, gameVars, playerMap, fileVars>>
  BY <1>3, QuietSessions DEF fileVars
<1>4. CASE /\ ~Online(p)
           /\ playerFile[p] = NoFile
           /\ \E text \in Texts : \E w \in PlayerWrites(p, NewRecord(p, text)) :
                /\ playerFile' = [playerFile EXCEPT ![p] = w.file]
                /\ IF w.result = 0 /\ Readable(w.file, RankBuffer)
                   THEN /\ playerMap' = PlayerMapWith(c, NewRecord(p, text))
                        /\ Sends(c, <<Answer(c, "CREATE", "OK")>>)
                   ELSE MemoryLost
  <2>1. PICK text \in Texts : \E w \in PlayerWrites(p, NewRecord(p, text)) :
          /\ playerFile' = [playerFile EXCEPT ![p] = w.file]
          /\ \/ playerMap' = PlayerMapWith(c, NewRecord(p, text)) /\ w.result = 0
             \/ MemoryLost
    BY <1>4
  <2>2. PICK w \in PlayerWrites(p, NewRecord(p, text)) :
          /\ playerFile' = [playerFile EXCEPT ![p] = w.file]
          /\ \/ playerMap' = PlayerMapWith(c, NewRecord(p, text)) /\ w.result = 0
             \/ MemoryLost
    BY <2>1
  <2>3. /\ NewRecord(p, text) \in PlayerRecord
        /\ NewRecord(p, text).pid = p /\ NewRecord(p, text).text = text
    BY ServerAssumption DEF NewRecord, PlayerRecord, InitialCapital
  <2>4. w.file \in NoRecords \/ w.file = NewRecord(p, text)
    BY <1>4 DEF PlayerWrites, Writes, TornTexts, NoRecords
  <2>5. playerFile'[p] = w.file /\ \A q \in PlayerIDs \ {p} : playerFile'[q] = playerFile[q]
    BY <1>1, <2>2 DEF FileTypeOK
  <2>6. CASE MemoryLost
    <3>1. NamedFiles'
      BY <1>1, <2>3, <2>4, <2>5 DEF NamedFiles
    <3> QED
      BY <2>6, <3>1, LostSessions
  <2>7. CASE playerMap' = PlayerMapWith(c, NewRecord(p, text)) /\ w.result = 0
    <3>1. w.file = NewRecord(p, text)
      BY <2>7 DEF PlayerWrites, Writes
    <3>2. playerFile'[p] \notin NoRecords
      BY <2>3, <2>5, <3>1, FileDBAssumption
    <3> QED
      BY <1>1, <1>4, <2>3, <2>5, <2>7, <3>1, <3>2, EnteredSessions
  <2> QED
    BY <2>2, <2>6, <2>7
<1> QED
  BY <1>2, <1>3, <1>4 DEF Create

\* Every step keeps the sessions in order.
LEMMA NextSessions == ServerInv /\ SessionInv /\ [Next]_vars => SessionInv'
<1> SUFFICES ASSUME ServerInv, SessionInv, [Next]_vars PROVE SessionInv'
  OBVIOUS
<1>1. FileTypeOK /\ PlayerTypeOK /\ NamedFiles
  BY DEF ServerInv, TypeOK, SessionInv
<1>2. CASE Dies
  BY <1>1, <1>2, LostSessions DEF Dies, fileVars, NamedFiles
<1>3. CASE Start \/ Tick
  BY <1>3, QuietSessions DEF Start, Tick, fileVars
<1>4. ASSUME NEW c \in Clients, Accept(c) \/ Refuse(c)
      PROVE  SessionInv'
  BY <1>4, QuietSessions DEF Accept, Refuse, fileVars
<1>5. ASSUME NEW c \in Clients, Close(c)
      PROVE  SessionInv'
  BY <1>1, <1>5, ClosedSessions
<1>6. CASE playerMap' = playerMap /\ playerFile' = playerFile
  BY <1>6, QuietSessions
<1>7. ASSUME NEW c \in Clients, Request(c)
      PROVE  SessionInv'
  <2>1. CASE Query(c)
    BY <1>6, <2>1 DEF Query, fileVars
  <2>2. ASSUME NEW p \in PlayerIDs, Backpack(c, p)
        PROVE  SessionInv'
    BY <1>2, <1>6, <2>2 DEF Backpack, fileVars
  <2>3. ASSUME NEW p \in PlayerIDs, NEW matches \in BOOLEAN, Login(c, p, matches)
        PROVE  SessionInv'
    BY <2>3, LoginSessions
  <2>4. ASSUME NEW p \in PlayerIDs, Create(c, p)
        PROVE  SessionInv'
    BY <2>4, CreateSessions
  <2>5. ASSUME NEW p \in PlayerIDs, NEW level \in LevelIDs, LevelData(c, p, level)
        PROVE  SessionInv'
    BY <1>6, <2>5 DEF LevelData, fileVars
  <2>6. ASSUME NEW p \in PlayerIDs, LevelStart(c, p)
        PROVE  SessionInv'
    BY <1>6, <2>6 DEF LevelStart, fileVars
  <2>7. ASSUME NEW p \in PlayerIDs, NEW kills \in Kills, NEW spendTime \in SpendTimes,
               NEW gold \in Golds, LevelSettle(c, p, kills, spendTime, gold)
        PROVE  SessionInv'
    <3>1. playerFile' = playerFile
      BY <2>7 DEF LevelSettle
    <3>2. CASE playerMap' = playerMap
      BY <1>6, <3>1, <3>2
    <3>3. ASSUME NEW d \in Sessions(p), Pay(d, Score(kills, spendTime), gold)
          PROVE  SessionInv'
      <4>1. Score(kills, spendTime) \in Int /\ gold \in Int
        BY ServerAssumption, ScoreType
      <4> QED
        BY <1>1, <3>1, <3>3, <4>1, PaidSessions
    <3> QED
      BY <2>7, <3>2, <3>3 DEF LevelSettle
  <2>8. ASSUME NEW p \in PlayerIDs, NEW page \in Pages, RankReq(c, p, page)
        PROVE  SessionInv'
    BY <1>2, <1>6, <2>8 DEF RankReq, fileVars
  <2>9. ASSUME NEW state \in LevelStates, LevelUpdate(c, state)
        PROVE  SessionInv'
    BY <1>6, <2>9 DEF LevelUpdate, fileVars
  <2> QED
    BY <1>7, <2>1, <2>2, <2>3, <2>4, <2>5, <2>6, <2>7, <2>8, <2>9 DEF Request
<1>8. CASE UNCHANGED vars
  BY <1>8, QuietSessions DEF vars, fileVars
<1> QED
  BY <1>2, <1>3, <1>4, <1>5, <1>7, <1>8 DEF Next, Stop

\* However logins, registrations, closes, crashes and restarts interleave, no
\* two connections are logged in as the same player.
THEOREM OneConnection ==
  ASSUME FilesNamedAfterPlayers
  PROVE  Spec => []OneConnectionPerPlayer
<1>1. SessionInv => OneConnectionPerPlayer
  BY DEF SessionInv
<1> QED
  BY <1>1, InitSessions, NextSessions, ServerInvariant, PTL DEF Spec

\* The file of a player who is online holds a whole record, which a login can
\* read, too, unless his registration wrote more than fits the login's buffer.
THEOREM OnlineReadable ==
  ASSUME FilesNamedAfterPlayers
  PROVE  Spec => []OnlineFileReadable
<1>1. SessionInv => OnlineFileReadable
  BY DEF SessionInv
<1> QED
  BY <1>1, InitSessions, NextSessions, ServerInvariant, PTL DEF Spec

-----------------------------------------------------------------------------
(* What can be settled.                                                    *)

\* A step that opens no game, writes no save and pays none.
LEMMA QuietGames ==
  ASSUME PaidOnce, unpaid' = unpaid,
         \A p \in PlayerIDs : settle'[p] \in {settle[p], NoSettle},
         \A p \in PlayerIDs : saveFile'[p] \in {saveFile[p], NoSave}
  PROVE  PaidOnce'
  BY DEF PaidOnce

\* A close writes a save only of a game that is open.
LEMMA ClosedGames ==
  ASSUME ServerInv, PaidOnce, NEW c \in Clients, Close(c)
  PROVE  PaidOnce'
<1>1. unpaid' = unpaid
  BY DEF Close
<1>2. CASE playerMap[c] = NoPlayer
  BY <1>1, <1>2, QuietGames DEF Close, gameVars
<1>3. CASE playerMap[c] # NoPlayer
  <2> DEFINE p == playerMap[c].pid
  <2>1. GameSuspended(p) /\ p \in PlayerIDs
    BY <1>3 DEF Close, ServerInv, TypeOK, PlayerTypeOK, PlayerRecord
  <2>2. settle \in [PlayerIDs -> SettleStatus \cup {NoSettle}]
        /\ saveFile \in [PlayerIDs -> SaveRecord \cup {NoSave}]
    BY DEF ServerInv, TypeOK, LevelTypeOK, FileTypeOK
  <2> HIDE DEF p
  <2>3. CASE settle[p] = NoSettle \/ levelState[p] = NoState
    BY <1>1, <2>1, <2>2, <2>3, QuietGames DEF GameSuspended
  <2>4. CASE settle[p] # NoSettle /\ levelState[p] # NoState
    <3>1. PICK w \in SaveWrites(p, SaveOf(p)) :
            saveFile' = [saveFile EXCEPT ![p] = w.file]
      BY <2>1, <2>4 DEF GameSuspended
    <3>2. settle' = [settle EXCEPT ![p] = NoSettle]
      BY <2>1, <2>4 DEF GameSuspended
    <3>3. unpaid[p]
      BY <2>1, <2>4 DEF PaidOnce
    <3> QED
      BY <1>1, <2>2, <3>1, <3>2, <3>3 DEF PaidOnce
  <2> QED
    BY <2>3, <2>4
<1> QED
  BY <1>2, <1>3

\* Every step keeps settlements to games that are not paid.
LEMMA NextGames == ServerInv /\ PaidOnce /\ [Next]_vars => PaidOnce'
<1> SUFFICES ASSUME ServerInv, PaidOnce, [Next]_vars PROVE PaidOnce'
  OBVIOUS
<1>1. /\ settle \in [PlayerIDs -> SettleStatus \cup {NoSettle}]
      /\ saveFile \in [PlayerIDs -> SaveRecord \cup {NoSave}]
      /\ unpaid \in [PlayerIDs -> BOOLEAN]
  BY DEF ServerInv, TypeOK, LevelTypeOK, FileTypeOK
<1>2. CASE unpaid' = unpaid /\ MemoryLost /\ saveFile' = saveFile
  BY <1>2, QuietGames DEF MemoryLost, NoGames
<1>3. CASE Dies
  BY <1>2, <1>3 DEF Dies, fileVars
<1>4. CASE unpaid' = unpaid /\ settle' = settle /\ saveFile' = saveFile
  BY <1>4, QuietGames
<1>5. CASE Start \/ Tick
  BY <1>4, <1>5 DEF Start, Tick, gameVars, fileVars
<1>6. ASSUME NEW c \in Clients, Accept(c) \/ Refuse(c)
      PROVE  PaidOnce'
  BY <1>4, <1>6 DEF Accept, Refuse, gameVars, fileVars
<1>7. ASSUME NEW c \in Clients, Close(c)
      PROVE  PaidOnce'
  BY <1>7, ClosedGames
<1>8. ASSUME NEW c \in Clients, Request(c)
      PROVE  PaidOnce'
  <2>1. CASE Query(c)
    BY <1>4, <2>1 DEF Query, gameVars, fileVars
  <2>2. ASSUME NEW p \in PlayerIDs, Backpack(c, p)
        PROVE  PaidOnce'
    BY <1>3, <1>4, <2>2 DEF Backpack, gameVars, fileVars
  <2>3. ASSUME NEW p \in PlayerIDs, NEW matches \in BOOLEAN, Login(c, p, matches)
        PROVE  PaidOnce'
    <3>1. CASE saveFile[p] = NoSave \/ UNCHANGED gameVars \/ Dies
      BY <1>3, <1>4, <2>3, <3>1 DEF Login, gameVars, fileVars
    <3>2. ASSUME saveFile[p] # NoSave, NEW save, GameResumed(p, save),
                 UNCHANGED <<unpaid, fileVars>>
          PROVE  PaidOnce'
      <4>1. unpaid[p] /\ unpaid' = unpaid /\ saveFile' = saveFile
        BY <3>2 DEF PaidOnce, fileVars
      <4>2. \A q \in PlayerIDs \ {p} : settle'[q] = settle[q]
        BY <1>1, <3>2 DEF GameResumed
      <4> QED
        BY <4>1, <4>2 DEF PaidOnce
    <3> QED
      BY <2>3, <3>1, <3>2 DEF Login
  <2>4. ASSUME NEW p \in PlayerIDs, Create(c, p)
        PROVE  PaidOnce'
    BY <1>2, <1>3, <1>4, <2>4 DEF Create, gameVars, fileVars
  <2>5. ASSUME NEW p \in PlayerIDs, NEW level \in LevelIDs, LevelData(c, p, level)
        PROVE  PaidOnce'
    BY <1>1, <2>5 DEF LevelData, GameOpened, PaidOnce, fileVars
  <2>6. ASSUME NEW p \in PlayerIDs, LevelStart(c, p)
        PROVE  PaidOnce'
    BY <1>1, <2>6 DEF LevelStart, GameStarted, PaidOnce, fileVars
  <2>7. ASSUME NEW p \in PlayerIDs, NEW kills \in Kills, NEW spendTime \in SpendTimes,
               NEW gold \in Golds, LevelSettle(c, p, kills, spendTime, gold)
        PROVE  PaidOnce'
    <3>1. PICK removed \in IF saveFile[p] = NoSave THEN {TRUE} ELSE RemoveOutcomes :
            /\ GameDiscarded(p, removed)
            /\ unpaid' = [unpaid EXCEPT ![p] = @ /\ ~removed]
      BY <2>7 DEF LevelSettle
    <3>2. removed \in BOOLEAN
      BY LevelAssumption
    <3>3. settle' = [settle EXCEPT ![p] = NoSettle]
      BY <3>1 DEF GameDiscarded
    <3>4. CASE removed
      BY <1>1, <3>1, <3>3, <3>4 DEF GameDiscarded, PaidOnce
    <3>5. CASE ~removed
      BY <1>1, <3>1, <3>3, <3>5 DEF GameDiscarded, PaidOnce
    <3> QED
      BY <3>2, <3>4, <3>5
  <2>8. ASSUME NEW p \in PlayerIDs, NEW page \in Pages, RankReq(c, p, page)
        PROVE  PaidOnce'
    BY <1>3, <1>4, <2>8 DEF RankReq, gameVars, fileVars
  <2>9. ASSUME NEW state \in LevelStates, LevelUpdate(c, state)
        PROVE  PaidOnce'
    BY <1>4, <2>9 DEF LevelUpdate, fileVars
  <2> QED
    BY <1>8, <2>1, <2>2, <2>3, <2>4, <2>5, <2>6, <2>7, <2>8, <2>9 DEF Request
<1>9. CASE UNCHANGED vars
  BY <1>4, <1>9 DEF vars, gameVars, fileVars
<1> QED
  BY <1>3, <1>5, <1>6, <1>7, <1>8, <1>9 DEF Next, Stop

\* A game that is paid leaves nothing behind from which it could be paid
\* again, whatever the order of openings, closes, resumes, settlements,
\* crashes and restarts.
THEOREM NeverPaidTwice == Spec => []PaidOnce
<1>1. Init => PaidOnce
  BY DEF Init, PaidOnce, NoGames
<1> QED
  BY <1>1, NextGames, ServerInvariant, PTL DEF Spec

=============================================================================
