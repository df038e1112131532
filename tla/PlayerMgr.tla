------------------------------ MODULE PlayerMgr ------------------------------
(***************************************************************************)
(* The players who are logged in: server_demo/player/player.cpp. Each      *)
(* operation is the part of a handler that belongs to PlayerMgr;           *)
(* GameServer composes the handlers.                                       *)
(***************************************************************************)
EXTENDS FileDB

CONSTANT NoPlayer   \* the connection has no entry in m_playerMap

VARIABLE playerMap  \* m_playerMap: the logged-in player of each connection

ASSUME PlayerAssumption == NoPlayer \notin PlayerRecord

InitialCapital == 10000   \* CHARACTER_INITIAL_CAPITALISM

NoPlayers == [c \in Clients |-> NoPlayer]

PlayerTypeOK == playerMap \in [Clients -> PlayerRecord \cup {NoPlayer}]

\* The connections find_player(p) may find. It compares the ID stored in the
\* player object, which comes from the file.
Sessions(p) == {c \in Clients : playerMap[c] # NoPlayer /\ playerMap[c].pid = p}

\* Mutation of Online: find_player is not asked.
NeverOnline(p) == FALSE

Online(p) == Sessions(p) # {}

\* Mutation of PlayerMapWith: m_playerMap[client] is assigned.
PlayerMapOverwritten(c, record) == [playerMap EXCEPT ![c] = record]

\* m_playerMap.insert: an entry that is there already stays.
PlayerMapWith(c, record) ==
  IF playerMap[c] = NoPlayer
  THEN [playerMap EXCEPT ![c] = record]
  ELSE playerMap

\* TransformJsonStrToStruct goes on with the null pointer cJSON_Parse returned
\* and builds a string from it. A file that is empty or too long for the
\* buffer of a login is not parsed at all.
ParseCrashes(p) == playerFile[p] = TornFile

\* What a login finds when it reads the file: only the texts are taken over,
\* money and score start at the defaults of struct Player.
LoginRecord(p) ==
  [pid |-> playerFile[p].pid, money |-> 0, score |-> 0, text |-> playerFile[p].text]

LoginAccepted(p, passwordMatches) ==
  Readable(playerFile[p], LoginBuffer) /\ passwordMatches

NewRecord(p, text) ==
  [pid |-> p, money |-> InitialCapital, score |-> 0, text |-> text]

\* Mutations of PlayerClose: the player is forgotten only when he was saved;
\* he is never forgotten.
PlayerCloseIfSaved(c) ==
  IF playerMap[c] = NoPlayer
  THEN UNCHANGED <<playerMap, playerFile>>
  ELSE \E w \in PlayerWrites(playerMap[c].pid, playerMap[c]) :
         /\ playerFile' = [playerFile EXCEPT ![playerMap[c].pid] = w.file]
         /\ playerMap' = [playerMap EXCEPT ![c] = IF w.result < 0 THEN @ ELSE NoPlayer]

PlayerCloseNotErased(c) ==
  /\ IF playerMap[c] = NoPlayer
     THEN UNCHANGED playerFile
     ELSE \E w \in PlayerWrites(playerMap[c].pid, playerMap[c]) :
            playerFile' = [playerFile EXCEPT ![playerMap[c].pid] = w.file]
  /\ UNCHANGED playerMap

\* on_client_close: the player is written to the file its own ID names and
\* forgotten whether or not that succeeds.
PlayerClose(c) ==
  IF playerMap[c] = NoPlayer
  THEN UNCHANGED <<playerMap, playerFile>>
  ELSE \E w \in PlayerWrites(playerMap[c].pid, playerMap[c]) :
         /\ playerFile' = [playerFile EXCEPT ![playerMap[c].pid] = w.file]
         /\ playerMap' = [playerMap EXCEPT ![c] = NoPlayer]

=============================================================================
