------------------------------ MODULE GameServer ------------------------------
(***************************************************************************)
(* The game server: one libuv loop that accepts connections, handles one   *)
(* request after the other and closes connections, on top of PlayerMgr,    *)
(* LevelMgr, RankMgr and the files. An action is one run of a callback of  *)
(* the loop or of the handler of one packet, with every call it makes.     *)
(***************************************************************************)
EXTENDS PlayerMgr, LevelMgr, RankMgr

CONSTANTS
  NoClient,      \* no connection
  InitialFiles,  \* the contents of ./data the server may first start with
  Levels,        \* the levels whose data file exists
  Texts,         \* the lengths of what registrations bring: name, password, ID
  Kills, SpendTimes, Golds,  \* what settlement requests report
  SendOutcomes,  \* whether uv_write succeeds: a set of BOOLEANs
  MaxMoney       \* bound: no settlement takes a player's money beyond it

VARIABLES
  up,      \* the process runs
  conn,    \* the state of the handle at each address
  chunk,   \* the connection that is closing although the packets of the chunk
           \*   it sent last are still being handled
  reply,   \* the login, registration, level data and settlement packets the
           \*   last step handed to sendData
  unpaid   \* ghost: the player has a game that was opened and not settled yet,
           \*   or settled with a save that could not be removed

serverVars == <<up, conn, chunk, reply>>
gameVars   == <<settle, levelState>>
vars == <<serverVars, unpaid, now, gameVars, playerMap, fileVars, rankVars>>

Packet == [to:  Clients,
           cmd: {"LOGIN", "CREATE", "RECONNECT", "LEVEL_DATA", "SETTLE"},
           code: {"OK", "FAIL", "EXISTING_PLAYER", "CHEATING", "CAN_NOT_FIND_GAME",
                  "SERVER_ERROR", "LEVEL", "EMPTY", "MALFORMED"}]

Answer(c, cmd, code) == [to |-> c, cmd |-> cmd, code |-> code]

ASSUME ServerAssumption ==
  /\ NoClient \notin Clients
  /\ IsFiniteSet(PlayerIDs)
  /\ InitialFiles \subseteq [PlayerIDs -> PlayerRecord \cup NoRecords]
  /\ Texts \subseteq Nat
  /\ Levels \subseteq LevelIDs
  /\ Kills \cup SpendTimes \cup Golds \subseteq Int
  /\ MaxMoney \in Int
  /\ SendOutcomes \in (SUBSET BOOLEAN) \ {{}}
  /\ \A d \in Clients, p \in PlayerIDs : d # p

-----------------------------------------------------------------------------
(* The process.                                                            *)

\* The files list the constructor of RankMgr reads, and its two exit(1).
ListedPlayers == {p \in PlayerIDs : playerFile[p] # NoFile}

CanStart == /\ ListedPlayers # {}
            /\ \A p \in ListedPlayers : Readable(playerFile[p], RankBuffer)

RankFromFiles == LoadedLists({ItemOf(p, playerFile[p]) : p \in ListedPlayers})

AllFree == [c \in Clients |-> "free"]

Init ==
  /\ playerFile \in InitialFiles
  /\ saveFile = [p \in PlayerIDs |-> NoSave]
  /\ CanStart
  /\ up = TRUE
  /\ conn = AllFree
  /\ chunk = NoClient
  /\ reply = << >>
  /\ unpaid = [p \in PlayerIDs |-> FALSE]
  /\ now \in Clock
  /\ settle = NoGames
  /\ levelState = NoStates
  /\ playerMap = NoPlayers
  /\ rankList \in RankFromFiles
  /\ rankCache = EmptyCache

\* The process is gone and its memory with it; nothing is saved on the way.
MemoryLost ==
  /\ up' = FALSE
  /\ conn' = AllFree
  /\ chunk' = NoClient
  /\ reply' = << >>
  /\ settle' = NoGames
  /\ levelState' = NoStates
  /\ playerMap' = NoPlayers
  /\ rankList' = << >>
  /\ rankCache' = EmptyCache

\* A handler dereferences a null pointer or calls exit.
Dies == MemoryLost /\ UNCHANGED <<unpaid, now, fileVars>>

\* Somebody ends the process.
Stop == up /\ Dies

Start ==
  /\ ~up
  /\ CanStart
  /\ up' = TRUE
  /\ rankList' \in RankFromFiles
  /\ rankCache' = EmptyCache
  /\ UNCHANGED <<conn, chunk, reply, unpaid, now, gameVars, playerMap, fileVars>>

Tick ==
  /\ up
  /\ \E t \in Clock : t > now /\ now' = t
  /\ reply' = << >>
  /\ UNCHANGED <<up, conn, chunk, unpaid, gameVars, playerMap, fileVars, rankVars>>

-----------------------------------------------------------------------------
(* Connections.                                                            *)

\* on_new_connection and OnNewClient.
Accept(c) ==
  /\ up
  /\ conn[c] = "free"
  /\ conn' = [conn EXCEPT ![c] = "open"]
  /\ chunk' = NoClient
  /\ reply' = << >>
  /\ UNCHANGED <<up, unpaid, now, gameVars, playerMap, fileVars, rankVars>>

\* on_read: the peer is gone, or sent what OnRecv refuses, and the rest of
\* the chunk is dropped.
Refuse(c) ==
  /\ up
  /\ conn[c] = "open"
  /\ conn' = [conn EXCEPT ![c] = "closing"]
  /\ chunk' = NoClient
  /\ reply' = << >>
  /\ UNCHANGED <<up, unpaid, now, gameVars, playerMap, fileVars, rankVars>>

\* on_close, which libuv calls in a later phase of the loop than uv_close, with
\* OnCloseClient; the handle is freed and its address may be used again.
Close(c) ==
  /\ up
  /\ conn[c] = "closing"
  /\ IF playerMap[c] = NoPlayer
     THEN UNCHANGED <<gameVars, saveFile>>
     ELSE GameSuspended(playerMap[c].pid)
  /\ PlayerClose(c)
  /\ conn' = [conn EXCEPT ![c] = "free"]
  /\ chunk' = NoClient
  /\ reply' = << >>
  /\ UNCHANGED <<up, unpaid, now, rankVars>>

\* Mutation of Handling: packets of a closing connection are handled at any
\* time.
HandlingClosed(c) == up /\ conn[c] # "free"

\* A packet of c is handled. When the handle is closing the packet is a later
\* one of the same chunk: the loop of OnRecv does not look at the handle.
Handling(c) ==
  /\ up
  /\ conn[c] = "open" \/ (conn[c] = "closing" /\ chunk = c)

\* sendData: a failing uv_write closes a handle that is not closing yet.
Sends(c, packets) ==
  /\ \E sent \in SendOutcomes :
       conn' = IF sent THEN conn ELSE [conn EXCEPT ![c] = "closing"]
  /\ chunk' = IF conn'[c] = "closing" THEN c ELSE NoClient
  /\ reply' = packets
  /\ up' = up

\* The handler returns without an answer.
Silent(c) ==
  /\ chunk' = IF conn[c] = "closing" THEN c ELSE NoClient
  /\ reply' = << >>
  /\ UNCHANGED <<up, conn>>

-----------------------------------------------------------------------------
(* Requests to PlayerMgr.                                                  *)

\* Ping, addition, announcement, shop, level list and level detail read and
\* answer; buy_item looks for the player and returns.
Query(c) ==
  /\ Handling(c)
  /\ Sends(c, << >>) \/ Silent(c)
  /\ UNCHANGED <<unpaid, now, gameVars, playerMap, fileVars, rankVars>>

\* send_backpack_content reads the file of a player who is online; text that
\* does not parse ends in a string built from a null pointer.
Backpack(c, p) ==
  /\ Handling(c)
  /\ IF Online(p) /\ ParseCrashes(p)
     THEN Dies
     ELSE /\ Sends(c, << >>)
          /\ UNCHANGED <<unpaid, now, gameVars, playerMap, fileVars, rankVars>>

\* The packets of an accepted login: the result and, when the saved game is
\* resumed and its level data can be read, the game.
LoginPackets(c, p, resumed, save) ==
  <<Answer(c, "LOGIN", "OK")>>
    \o IF resumed /\ ~Expired(save) /\ save.level \in Levels
       THEN <<Answer(c, "RECONNECT", "OK")>>
       ELSE << >>

\* player_login with have_save and reconnect. The file is read before
\* anything is checked; a player who is online gets no answer.
Login(c, p, passwordMatches) ==
  /\ Handling(c)
  /\ \/ /\ ParseCrashes(p)
        /\ Dies
     \/ /\ ~ParseCrashes(p)
        /\ Online(p)
        /\ Silent(c)
        /\ UNCHANGED <<unpaid, now, gameVars, playerMap, fileVars, rankVars>>
     \/ /\ ~ParseCrashes(p)
        /\ ~Online(p)
        /\ ~LoginAccepted(p, passwordMatches)
        /\ Sends(c, <<Answer(c, "LOGIN", "FAIL")>>)
        /\ UNCHANGED <<unpaid, now, gameVars, playerMap, fileVars, rankVars>>
     \/ /\ ~Online(p)
        /\ LoginAccepted(p, passwordMatches)
        /\ playerMap' = PlayerMapWith(c, LoginRecord(p))
        /\ IF saveFile[p] = NoSave
           THEN /\ Sends(c, LoginPackets(c, p, FALSE, NoSave))
                /\ UNCHANGED gameVars
           ELSE \E save \in Parsed(p) :
                  /\ GameResumed(p, save)
                  /\ Sends(c, LoginPackets(c, p, TRUE, save))
        /\ UNCHANGED <<unpaid, now, fileVars, rankVars>>

\* player_create, after which _OnPackHandle always calls
\* add_new_player_in_rank: that reads the player's file, exits when it cannot,
\* also when it was written and is too long, and updates the list, which
\* holds no new player.
Create(c, p) ==
  /\ Handling(c)
  /\ \/ /\ Online(p) \/ playerFile[p] # NoFile
        /\ IF Readable(playerFile[p], RankBuffer)
           THEN /\ Sends(c, <<Answer(c, "CREATE", "EXISTING_PLAYER")>>)
                /\ RankUpdate(ItemOf(p, playerFile[p]))
                /\ UNCHANGED <<unpaid, now, gameVars, playerMap, fileVars>>
           ELSE Dies
     \/ /\ ~Online(p)
        /\ playerFile[p] = NoFile
        /\ \E text \in Texts : \E w \in PlayerWrites(p, NewRecord(p, text)) :
             /\ playerFile' = [playerFile EXCEPT ![p] = w.file]
             /\ IF w.result = 0 /\ Readable(w.file, RankBuffer)
                THEN /\ playerMap' = PlayerMapWith(c, NewRecord(p, text))
                     /\ Sends(c, <<Answer(c, "CREATE", "OK")>>)
                     /\ RankUpdate(ItemOf(p, w.file))
                     /\ UNCHANGED gameVars
                ELSE MemoryLost
        /\ UNCHANGED <<unpaid, now, saveFile>>

-----------------------------------------------------------------------------
(* Requests to LevelMgr and RankMgr.                                       *)

\* What on_level_data_req sends: the file when it could be read, a packet
\* without body when the player is offline, and a packet whose length field
\* is wrong when the file is missing. The result code set is never sent.
LevelDataPacket(c, p, level) ==
  Answer(c, "LEVEL_DATA", CASE ~Online(p) -> "EMPTY"
                            [] Online(p) /\ level \in Levels -> "LEVEL"
                            [] Online(p) /\ level \notin Levels -> "MALFORMED")

LevelData(c, p, level) ==
  /\ Handling(c)
  /\ GameOpened(p, level)
  /\ unpaid' = [unpaid EXCEPT ![p] = TRUE]
  /\ Sends(c, <<LevelDataPacket(c, p, level)>>)
  /\ UNCHANGED <<now, levelState, playerMap, fileVars, rankVars>>

LevelStart(c, p) ==
  /\ Handling(c)
  /\ GameStarted(p)
  /\ Silent(c)
  /\ UNCHANGED <<unpaid, now, levelState, playerMap, fileVars, rankVars>>

\* on_player_level_save: the state of a connection nobody is logged in on is
\* dropped.
LevelUpdate(c, state) ==
  /\ Handling(c)
  /\ IF playerMap[c] = NoPlayer
     THEN UNCHANGED levelState
     ELSE StateUploaded(playerMap[c].pid, state)
  /\ Silent(c)
  /\ UNCHANGED <<unpaid, now, settle, playerMap, fileVars, rankVars>>

\* Mutation of Pay: the list is told the score that was beaten.
PayTellsOldScore(d, score, gold) ==
  LET record == playerMap[d]
      beaten == score > record.score
      paid   == [record EXCEPT !.money = @ + gold, !.score = IF beaten THEN score ELSE @]
  IN  /\ playerMap' = [playerMap EXCEPT ![d] = paid]
      /\ IF beaten
         THEN RankUpdate([pid |-> paid.pid, gold |-> paid.money, score |-> record.score])
         ELSE UNCHANGED rankVars

\* The payment: money always grows, the score only when it is beaten, and
\* only then is the list told. d is the session find_player finds.
Pay(d, score, gold) ==
  LET record == playerMap[d]
      beaten == score > record.score
      paid   == [record EXCEPT !.money = @ + gold, !.score = IF beaten THEN score ELSE @]
  IN  /\ playerMap' = [playerMap EXCEPT ![d] = paid]
      /\ IF beaten
         THEN RankUpdate([pid |-> paid.pid, gold |-> paid.money, score |-> paid.score])
         ELSE UNCHANGED rankVars

\* Mutation of LevelSettle: a player who is online is paid before the checks.
LevelSettlePaysFirst(c, p, kills, spendTime, gold) ==
  /\ Handling(c)
  /\ \E removed \in IF saveFile[p] = NoSave THEN {TRUE} ELSE RemoveOutcomes :
       /\ GameDiscarded(p, removed)
       /\ unpaid' = [unpaid EXCEPT ![p] = @ /\ ~removed]
  /\ \E d \in Sessions(p) :
       /\ playerMap[d].money + gold <= MaxMoney
       /\ Pay(d, Score(kills, spendTime), gold)
  /\ Sends(c, <<Answer(c, "SETTLE", Verdict(p, spendTime))>>)
  /\ UNCHANGED <<now, playerFile>>

\* on_level_settle_req.
LevelSettle(c, p, kills, spendTime, gold) ==
  /\ Handling(c)
  /\ \E removed \in IF saveFile[p] = NoSave THEN {TRUE} ELSE RemoveOutcomes :
       /\ GameDiscarded(p, removed)
       /\ unpaid' = [unpaid EXCEPT ![p] = @ /\ ~removed]
  /\ \/ /\ Verdict(p, spendTime) # "OK"
        /\ Sends(c, <<Answer(c, "SETTLE", Verdict(p, spendTime))>>)
        /\ UNCHANGED <<playerMap, rankVars>>
     \/ /\ Verdict(p, spendTime) = "OK"
        /\ ~Online(p)
        /\ Sends(c, <<Answer(c, "SETTLE", "SERVER_ERROR")>>)
        /\ UNCHANGED <<playerMap, rankVars>>
     \/ /\ Verdict(p, spendTime) = "OK"
        /\ \E d \in Sessions(p) :
             /\ playerMap[d].money + gold <= MaxMoney
             /\ Pay(d, Score(kills, spendTime), gold)
        /\ Sends(c, <<Answer(c, "SETTLE", "OK")>>)
  /\ UNCHANGED <<now, playerFile>>

\* on_rank_req: the player is not checked before he is dereferenced.
RankReq(c, p, page) ==
  /\ Handling(c)
  /\ IF Online(p)
     THEN /\ RankRequest(page, p)
          /\ Sends(c, << >>)
          /\ UNCHANGED <<unpaid, now, gameVars, playerMap, fileVars>>
     ELSE Dies

-----------------------------------------------------------------------------

Request(c) ==
  \/ Query(c)
  \/ \E p \in PlayerIDs :
       \/ Backpack(c, p)
       \/ \E passwordMatches \in BOOLEAN : Login(c, p, passwordMatches)
       \/ Create(c, p)
       \/ \E level \in LevelIDs : LevelData(c, p, level)
       \/ LevelStart(c, p)
       \/ \E kills \in Kills, spendTime \in SpendTimes, gold \in Golds :
            LevelSettle(c, p, kills, spendTime, gold)
       \/ \E page \in Pages : RankReq(c, p, page)
  \/ \E state \in LevelStates : LevelUpdate(c, state)

Next ==
  \/ Stop
  \/ Start
  \/ Tick
  \/ \E c \in Clients : Accept(c) \/ Refuse(c) \/ Close(c) \/ Request(c)

\* libuv calls the close callback of every closing handle once its cancelled
\* requests have returned, so no closing handle is passed over for ever.
Spec == Init /\ [][Next]_vars /\ \A c \in Clients : WF_vars(Close(c))

-----------------------------------------------------------------------------
(* What the server owes its players.                                       *)

ConnTypeOK ==
  /\ up \in BOOLEAN
  /\ conn \in [Clients -> {"free", "open", "closing"}]
  /\ chunk \in Clients \cup {NoClient}
  /\ reply \in Seq(Packet)

TypeOK ==
  /\ ConnTypeOK
  /\ unpaid \in [PlayerIDs -> BOOLEAN]
  /\ FileTypeOK
  /\ PlayerTypeOK
  /\ LevelTypeOK
  /\ RankTypeOK

\* Every file stores the ID it is named after, as the comment of save() in
\* filedb.h has it. The files of ./data need not: see the violation runs.
FilesNamedAfterPlayers ==
  \A files \in InitialFiles, p \in PlayerIDs :
    files[p] \notin NoRecords => files[p].pid = p

\* No file of ./data holds a negative score; Score never returns one.
FilesScored ==
  \A files \in InitialFiles, p \in PlayerIDs :
    files[p] \notin NoRecords => files[p].score >= 0

\* player_login and player_create look for the ID in m_playerMap, but the new
\* entry gets the ID stored in the file: still no two connections are logged
\* in as the same player, however logins, registrations, closes and restarts
\* interleave. (Given FilesNamedAfterPlayers.)
OneConnectionPerPlayer ==
  \A c, d \in Clients :
    playerMap[c] # NoPlayer /\ playerMap[d] # NoPlayer
      /\ playerMap[c].pid = playerMap[d].pid
    => c = d

\* m_playerMap is keyed by the address of a handle that on_close frees. No
\* entry outlives its handle, although packets of a closing connection are
\* still handled and may log it in: the next connection at the same address
\* does not find itself logged in as somebody else.
NoLoginOutlivesHandle ==
  \A c \in Clients : playerMap[c] # NoPlayer => conn[c] # "free"

\* While a player is online his file holds a whole record: the one write that
\* may tear it takes place when he leaves, and a registration that tears it
\* never gets as far as m_playerMap. So neither send_backpack_content nor a
\* second login crashes. A login can read that file too, unless it is the one
\* his registration wrote, under a name that fits the buffer of the
\* leaderboard and not that of a login. (Given FilesNamedAfterPlayers.)
OnlineFileReadable ==
  \A p \in PlayerIDs :
    Online(p)
    => /\ playerFile[p] \notin NoRecords
       /\ \/ Readable(playerFile[p], LoginBuffer)
          \/ \E c \in Sessions(p) : playerFile[p] = NewRecord(p, playerMap[c].text)

\* The list is told of a score only when a settlement beats the score of the
\* session, which every login resets to 0. Still a listed player is never
\* ranked below what his session or his file holds. (Given FilesScored.)
RankBoundsScores ==
  \A i \in DOMAIN rankList :
    LET item == rankList[i]
    IN  /\ \A c \in Sessions(item.pid) : playerMap[c].score <= item.score
        /\ playerFile[item.pid] \notin NoRecords
              => playerFile[item.pid].score <= item.score

\* The list is told of scores by settlements and by registrations, and of what
\* they found in a file or a session. While the server runs nobody enters or
\* leaves it, and a score it ranks changes only upwards, to that of a session,
\* in a settlement that is answered OK: no registration under a name that is
\* taken moves anybody. (Given FilesScored.)
RankRisesWhenPaid ==
  [][up /\ up' =>
       LET before == ScoresOf(rankList)
           after  == ScoresOf(rankList')
       IN  /\ DOMAIN after = DOMAIN before
           /\ \A p \in DOMAIN before :
                after[p] # before[p]
                => /\ after[p] > before[p]
                   /\ \E c \in Clients : reply' = <<Answer(c, "SETTLE", "OK")>>
                   /\ \E c \in Clients : /\ playerMap'[c] # NoPlayer
                                         /\ playerMap'[c].pid = p
                                         /\ playerMap'[c].score = after[p]]_vars

\* A game is paid at most once: when it is settled, nothing remains from which
\* it could be settled again, neither an entry in __settle_status_Map, nor a
\* save from which a login would make one. Only a failing remove() leaves one.
PaidOnce ==
  \A p \in PlayerIDs :
    settle[p] # NoSettle \/ saveFile[p] # NoSave => unpaid[p]

\* A game in progress does not survive the session of its player: when the
\* connection closes it is discarded or written to disk, never left in
\* __settle_status_Map for the next login.
GameLeavesWithPlayer ==
  [][\A c \in Clients :
       playerMap[c] # NoPlayer /\ playerMap'[c] = NoPlayer
       => settle'[playerMap[c].pid] = NoSettle]_vars

\* The settlement of a game names a player, who need not be the one of the
\* connection it comes from. Whatever is asked on whichever connection, the
\* record of a session changes only by the settlement of a game its own player
\* has started, which is over with it, and the connection that asked is
\* answered OK. No login, registration or refused settlement touches it.
PaidMeansSettled ==
  [][\A d \in Clients :
       playerMap[d] # NoPlayer /\ playerMap'[d] # NoPlayer /\ playerMap'[d] # playerMap[d]
       => LET p == playerMap[d].pid
          IN  /\ playerMap'[d].pid = p
              /\ settle[p] # NoSettle /\ settle[p].started
              /\ settle'[p] = NoSettle
              /\ \E c \in Clients : /\ conn[c] # "free"
                                    /\ reply' = <<Answer(c, "SETTLE", "OK")>>]_vars

\* A closing connection is closed in the end, and then, whatever arrived
\* meanwhile, nobody is logged in on it.
ClosingCompletes ==
  \A c \in Clients :
    conn[c] = "closing" ~> conn[c] = "free" /\ playerMap[c] = NoPlayer

Life == INSTANCE HandleLife

\* Handles are opened, closed and freed in this order, and when the packets of
\* other connections have been handled none of a closing connection follows.
\* The callbacks of Connections keep to the same.
ImplementsHandleLife == Life!Spec

\* The money of the session find_player finds for p, if any.
MoneyOf(p) ==
  IF Online(p) THEN playerMap[CHOOSE c \in Sessions(p) : TRUE].money ELSE NoPlayer

ASSUME LedgerAssumption == NoPlayer \notin Int

Ledger == INSTANCE Accounts WITH
  NoAccount <- NoPlayer, Openings <- {0, InitialCapital}, Payments <- Golds,
  account <- [p \in PlayerIDs |-> MoneyOf(p)], owed <- unpaid

\* The money of a player changes as the ledger has it: it begins anew with
\* each session and grows only by a payment for a game that was opened and is
\* owed, whatever disconnections, crashes, failing saves and requests on other
\* connections come in between. (Given FilesNamedAfterPlayers.)
ImplementsLedger == Ledger!Spec

=============================================================================
