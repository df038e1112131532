------------------------------- MODULE LevelMgr -------------------------------
(***************************************************************************)
(* The games in progress: server_demo/level/level.cpp. Times are whole     *)
(* seconds. The operations take the player ID their request names, as the  *)
(* code does; on_player_diconnect, reconnect and the settlement are called *)
(* from handlers that GameServer composes.                                 *)
(***************************************************************************)
EXTENDS FileDB

CONSTANTS
  NoSettle,       \* the player has no entry in __settle_status_Map
  NoState,        \* the player has no entry in __Level_state_Map
  Clock,          \* the instants, in seconds since 1970, at which things happen
  StackTail,      \* what else ParseFromArray may read, see Parsed
  RemoveOutcomes  \* whether remove() of a saved game succeeds: of {TRUE, FALSE}

VARIABLES
  settle,      \* __settle_status_Map
  levelState,  \* __Level_state_Map
  now          \* time(NULL)

MaxLag       == 60      \* seconds the server's timing may exceed the client's
ParTime      == 30      \* every second below it is worth SecondValue
SecondValue  == 300
GhostValue   == 100
SaveLifetime == 60000   \* seconds after which a save is not resumed

SettleStatus == [started: BOOLEAN, level: LevelIDs, start: Int, spend: Int]

ASSUME LevelAssumption ==
  /\ NoSettle \notin SettleStatus
  /\ NoState \notin LevelStates
  /\ \A t \in Clock : t \in Nat /\ t > SaveLifetime
  /\ StackTail \subseteq SaveRecord
  /\ RemoveOutcomes \in (SUBSET BOOLEAN) \ {{}}

NoGames == [p \in PlayerIDs |-> NoSettle]

NoStates == [p \in PlayerIDs |-> NoState]

LevelTypeOK ==
  /\ settle \in [PlayerIDs -> SettleStatus \cup {NoSettle}]
  /\ levelState \in [PlayerIDs -> LevelStates \cup {NoState}]
  /\ now \in Clock

-----------------------------------------------------------------------------
(* Opening and starting a game.                                            *)

\* on_level_data_req enters the player whatever became of the request.
GameOpened(p, level) ==
  settle' = [settle EXCEPT ![p] =
               [started |-> FALSE, level |-> level, start |-> 0, spend |-> 0]]

\* on_level_start_req.
GameStarted(p) ==
  IF settle[p] = NoSettle
  THEN UNCHANGED settle
  ELSE settle' = [settle EXCEPT ![p] =
                      [started |-> TRUE, level |-> @.level, start |-> now, spend |-> 0]]

\* __update_level_state.
StateUploaded(p, state) == levelState' = [levelState EXCEPT ![p] = state]

-----------------------------------------------------------------------------
(* Settling.                                                               *)

\* The checks of on_level_settle_req: is there a started game, and is the
\* server's timing neither shorter nor much longer than the client's?
Verdict(p, spendTime) ==
  IF settle[p] = NoSettle \/ ~settle[p].started
  THEN "CAN_NOT_FIND_GAME"
  ELSE LET timing == now - settle[p].start + settle[p].spend
       IN  IF timing + 1 < spendTime \/ timing - spendTime > MaxLag
           THEN "CHEATING"
           ELSE "OK"

Score(kills, spendTime) ==
  LET score == kills * GhostValue + (ParTime - spendTime) * SecondValue
  IN  IF score < 0 THEN 0 ELSE score

\* Mutations of GameDiscarded: the entry of __Level_state_Map is kept; that of
\* __settle_status_Map is.
GameDiscardedKeepsState(p, removed) ==
  /\ settle' = [settle EXCEPT ![p] = NoSettle]
  /\ saveFile' = IF removed THEN [saveFile EXCEPT ![p] = NoSave] ELSE saveFile
  /\ UNCHANGED levelState

GameDiscardedNotErased(p, removed) ==
  /\ levelState' = [levelState EXCEPT ![p] = NoState]
  /\ saveFile' = IF removed THEN [saveFile EXCEPT ![p] = NoSave] ELSE saveFile
  /\ UNCHANGED settle

\* The end of on_level_settle_req, reached from every branch: the game, its
\* state and its save are discarded, whether or not it was paid.
GameDiscarded(p, removed) ==
  /\ settle' = [settle EXCEPT ![p] = NoSettle]
  /\ levelState' = [levelState EXCEPT ![p] = NoState]
  /\ saveFile' = IF removed THEN [saveFile EXCEPT ![p] = NoSave] ELSE saveFile

-----------------------------------------------------------------------------
(* Suspending and resuming.                                                *)

\* The spent time is that of this connection only; for a game that was never
\* started it is the time since the epoch, or since second 1 after a resume.
SaveOf(p) ==
  [level |-> settle[p].level,
   state |-> levelState[p],
   spend |-> now - settle[p].start,
   time  |-> now]

\* Mutations of GameSuspended: a game without a state is saved as well; it is
\* left in __settle_status_Map.
GameSuspendedUnchecked(p) ==
  IF settle[p] = NoSettle
  THEN UNCHANGED <<settle, levelState, saveFile>>
  ELSE /\ \E w \in SaveWrites(p, SaveOf(p)) :
            saveFile' = [saveFile EXCEPT ![p] = w.file]
       /\ settle' = [settle EXCEPT ![p] = NoSettle]
       /\ levelState' = [levelState EXCEPT ![p] = NoState]

GameSuspendedIfStated(p) ==
  IF settle[p] = NoSettle \/ levelState[p] = NoState
  THEN UNCHANGED <<settle, levelState, saveFile>>
  ELSE /\ \E w \in SaveWrites(p, SaveOf(p)) :
            saveFile' = [saveFile EXCEPT ![p] = w.file]
       /\ settle' = [settle EXCEPT ![p] = NoSettle]
       /\ levelState' = [levelState EXCEPT ![p] = NoState]

\* on_player_diconnect.
GameSuspended(p) ==
  CASE settle[p] = NoSettle ->
         UNCHANGED <<settle, levelState, saveFile>>
    [] settle[p] # NoSettle /\ levelState[p] = NoState ->
         /\ settle' = [settle EXCEPT ![p] = NoSettle]
         /\ UNCHANGED <<levelState, saveFile>>
    [] settle[p] # NoSettle /\ levelState[p] # NoState ->
         /\ \E w \in SaveWrites(p, SaveOf(p)) :
              saveFile' = [saveFile EXCEPT ![p] = w.file]
         /\ settle' = [settle EXCEPT ![p] = NoSettle]
         /\ levelState' = [levelState EXCEPT ![p] = NoState]

\* What reconnect reads: it parses the whole stack buffer, of which load has
\* filled only the length of the file, so bytes left on the stack may be taken
\* for further fields.
Parsed(p) == {saveFile[p]} \cup StackTail

Expired(save) == now - save.time > SaveLifetime

\* The part of reconnect that changes state: m_start_time is set to true,
\* which is second 1, m_is_start stays false, and the file is kept.
GameResumed(p, save) ==
  IF Expired(save)
  THEN UNCHANGED <<settle, levelState>>
  ELSE /\ levelState' = [levelState EXCEPT ![p] = save.state]
       /\ settle' = [settle EXCEPT ![p] =
                       [started |-> FALSE, level |-> save.level,
                        start |-> 1, spend |-> save.spend]]

=============================================================================
