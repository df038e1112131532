----------------------------- MODULE HonestProofs -----------------------------
(***************************************************************************)
(* What the server does to clients that follow the protocol of a game, for *)
(* every set of players, levels, instants and reports: a state stays with  *)
(* its level, and time played on an earlier connection is held against     *)
(* them.                                                                   *)
(***************************************************************************)
EXTENDS HonestGame, GameServerProofs

\* Every step of an honest client is a step of the server.
LEMMA HonestStep == [HonestNext]_honestVars => [Next]_vars
<1>1. ASSUME NEW c \in Clients, NEW p \in PlayerIDs,
             \/ Login(c, p, TRUE) \/ Opens(c, p) \/ Starts(c, p)
             \/ Uploads(c, p) \/ Settles(c, p)
      PROVE  Request(c)
  <2>1. CASE Login(c, p, TRUE)
    BY <2>1 DEF Request
  <2>2. CASE Opens(c, p)
    BY <2>2, ServerAssumption DEF Opens, Request
  <2>3. CASE Starts(c, p)
    BY <2>3 DEF Starts, Request
  <2>4. CASE Uploads(c, p)
    BY <2>4 DEF Uploads, Request
  <2>5. CASE Settles(c, p)
    BY <2>5 DEF Settles, Request
  <2> QED
    BY <1>1, <2>1, <2>2, <2>3, <2>4, <2>5
<1> QED
  BY <1>1 DEF HonestNext, Leaves, Next, honestVars

\* So the invariant of the server holds.
LEMMA HonestServerInv == HonestSpec => []ServerInv
<1>1. HonestInit => ServerInv
  BY InitInv DEF HonestInit
<1>2. ServerInv /\ [HonestNext]_honestVars => ServerInv'
  BY HonestStep, NextInv
<1> QED
  BY <1>1, <1>2, PTL DEF HonestSpec

-----------------------------------------------------------------------------
(* The invariant.                                                          *)

\* What ParseFromArray may read behind a save fits like the save itself.
TailFits == \A save \in StackTail : LevelOf[save.state] = save.level

\* A state waits only beside its game: then a game that is opened or resumed
\* finds no state of another level.
StateHasGame == \A p \in PlayerIDs : settle[p] = NoSettle => levelState[p] = NoState

StatesInv == StateFitsLevel /\ StateHasGame

\* A started game has its whole timing on this connection.
CarriedInv ==
  /\ carried \in [PlayerIDs -> Nat]
  /\ \A p \in PlayerIDs :
       settle[p] # NoSettle /\ settle[p].started
       => settle[p].spend = 0 /\ settle[p].start \in Nat /\ settle[p].start <= now

\* What the proofs use of the types.
LEMMA GameTypes ==
  ASSUME ServerInv
  PROVE  /\ settle \in [PlayerIDs -> SettleStatus \cup {NoSettle}]
         /\ levelState \in [PlayerIDs -> LevelStates \cup {NoState}]
         /\ saveFile \in [PlayerIDs -> SaveRecord \cup {NoSave}]
         /\ playerMap \in [Clients -> PlayerRecord \cup {NoPlayer}]
         /\ now \in Nat
  BY LevelAssumption DEF ServerInv, TypeOK, LevelTypeOK, FileTypeOK, PlayerTypeOK

\* The requests of a client that plays, one by one, and the other steps, in
\* which the games, their states and the saves change in a known way.
LEMMA HonestCases ==
  ASSUME ServerInv, [HonestNext]_honestVars
  PROVE  \/ /\ settle' = settle /\ levelState' = levelState /\ saveFile' = saveFile
            /\ carried' = carried /\ (now' = now \/ (now' \in Nat /\ now' > now))
         \/ MemoryLost /\ saveFile' = saveFile /\ carried' = carried
         \/ \E c \in Clients : Leaves(c)
         \/ \E p \in PlayerIDs : \E save \in Parsed(p) :
              /\ saveFile[p] # NoSave /\ GameResumed(p, save)
              /\ saveFile' = saveFile /\ now' = now /\ carried' = carried
         \/ \E c \in Clients, p \in PlayerIDs :
              Opens(c, p) \/ Starts(c, p) \/ Uploads(c, p) \/ Settles(c, p)
<1>1. CASE UNCHANGED honestVars
  BY <1>1 DEF honestVars, vars, gameVars, fileVars
<1>2. CASE Stop /\ UNCHANGED carried
  BY <1>2 DEF Stop, Dies, fileVars
<1>3. CASE Start /\ UNCHANGED carried
  BY <1>3 DEF Start, gameVars, fileVars
<1>4. CASE Tick /\ UNCHANGED carried
  BY <1>4, LevelAssumption DEF Tick, gameVars, fileVars
<1>5. ASSUME NEW c \in Clients, Accept(c) \/ Refuse(c), UNCHANGED carried
      PROVE  /\ settle' = settle /\ levelState' = levelState /\ saveFile' = saveFile
             /\ carried' = carried /\ now' = now
  BY <1>5 DEF Accept, Refuse, gameVars, fileVars
<1>6. ASSUME NEW c \in Clients, NEW p \in PlayerIDs, Login(c, p, TRUE), UNCHANGED carried
      PROVE  \/ /\ settle' = settle /\ levelState' = levelState /\ saveFile' = saveFile
                /\ carried' = carried /\ now' = now
             \/ MemoryLost /\ saveFile' = saveFile /\ carried' = carried
             \/ \E save \in Parsed(p) :
                  /\ saveFile[p] # NoSave /\ GameResumed(p, save)
                  /\ saveFile' = saveFile /\ now' = now /\ carried' = carried
  BY <1>6 DEF Login, Dies, gameVars, fileVars
<1> QED
  BY <1>1, <1>2, <1>3, <1>4, <1>5, <1>6 DEF HonestNext

-----------------------------------------------------------------------------
(* States and levels.                                                      *)

\* on_player_diconnect writes the level and the state of one game.
LEMMA LeavesStates ==
  ASSUME ServerInv, StatesInv, NEW c \in Clients, Leaves(c)
  PROVE  StatesInv'
<1>1. CASE playerMap[c] = NoPlayer
  <2>1. settle' = settle /\ levelState' = levelState /\ saveFile' = saveFile
    BY <1>1 DEF Leaves, Close, gameVars
  <2> QED
    BY <2>1 DEF StatesInv, StateFitsLevel, StateHasGame
<1>2. CASE playerMap[c] # NoPlayer
  <2> DEFINE p == playerMap[c].pid
  <2>1. p \in PlayerIDs /\ GameSuspended(p)
    BY <1>2, GameTypes DEF Leaves, Close, PlayerRecord
  <2> HIDE DEF p
  <2>2. CASE settle[p] = NoSettle
    <3>1. settle' = settle /\ levelState' = levelState /\ saveFile' = saveFile
      BY <2>1, <2>2 DEF GameSuspended
    <3> QED
      BY <3>1 DEF StatesInv, StateFitsLevel, StateHasGame
  <2>3. CASE settle[p] # NoSettle /\ levelState[p] = NoState
    <3>1. /\ settle' = [settle EXCEPT ![p] = NoSettle]
          /\ levelState' = levelState /\ saveFile' = saveFile
      BY <2>1, <2>3 DEF GameSuspended
    <3> QED
      BY <2>1, <2>3, <3>1, GameTypes DEF StatesInv, StateFitsLevel, StateHasGame
  <2>4. CASE settle[p] # NoSettle /\ levelState[p] # NoState
    <3>1. /\ settle' = [settle EXCEPT ![p] = NoSettle]
          /\ levelState' = [levelState EXCEPT ![p] = NoState]
      BY <2>1, <2>4 DEF GameSuspended
    <3>2. PICK w \in SaveWrites(p, SaveOf(p)) : saveFile' = [saveFile EXCEPT ![p] = w.file]
      BY <2>1, <2>4 DEF GameSuspended
    <3>3. /\ SaveOf(p).level = settle[p].level /\ SaveOf(p).state = levelState[p]
          /\ [SaveOf(p) EXCEPT !.time = 0].level = settle[p].level
          /\ [SaveOf(p) EXCEPT !.time = 0].state = levelState[p]
      BY DEF SaveOf
    <3>4. w.file \in {saveFile[p], SaveOf(p), [SaveOf(p) EXCEPT !.time = 0]}
      BY DEF SaveWrites, Writes
    <3>5. w.file # NoSave => LevelOf[w.file.state] = w.file.level
      BY <2>1, <2>4, <3>3, <3>4 DEF StatesInv, StateFitsLevel
    <3>6. \A q \in PlayerIDs : /\ settle'[q] = IF q = p THEN NoSettle ELSE settle[q]
                               /\ levelState'[q] = IF q = p THEN NoState ELSE levelState[q]
                               /\ saveFile'[q] = IF q = p THEN w.file ELSE saveFile[q]
      BY <3>1, <3>2, GameTypes
    <3> QED
      BY <3>5, <3>6 DEF StatesInv, StateFitsLevel, StateHasGame
  <2> QED
    BY <2>2, <2>3, <2>4
<1> QED
  BY <1>1, <1>2

\* reconnect takes the level and the state out of one save.
LEMMA ResumedStates ==
  ASSUME ServerInv, StatesInv, TailFits, NEW p \in PlayerIDs, saveFile[p] # NoSave,
         NEW save \in Parsed(p), GameResumed(p, save), saveFile' = saveFile
  PROVE  StatesInv'
<1>1. CASE Expired(save)
  BY <1>1 DEF GameResumed, StatesInv, StateFitsLevel, StateHasGame
<1>2. CASE ~Expired(save)
  <2> DEFINE status == [started |-> FALSE, level |-> save.level,
                        start |-> 1, spend |-> save.spend]
  <2>1. /\ levelState' = [levelState EXCEPT ![p] = save.state]
        /\ settle' = [settle EXCEPT ![p] = status]
    BY <1>2 DEF GameResumed
  <2>2. save \in SaveRecord /\ LevelOf[save.state] = save.level
    BY GameTypes, LevelAssumption DEF Parsed, TailFits, StatesInv, StateFitsLevel
  <2>3. status \in SettleStatus /\ status.level = save.level
    BY <2>2 DEF SettleStatus, SaveRecord
  <2>4. status # NoSettle
    BY <2>3, LevelAssumption
  <2> HIDE DEF status
  <2>5. \A q \in PlayerIDs : /\ settle'[q] = IF q = p THEN status ELSE settle[q]
                             /\ levelState'[q] = IF q = p THEN save.state ELSE levelState[q]
    BY <2>1, GameTypes
  <2> QED
    BY <2>2, <2>3, <2>4, <2>5 DEF StatesInv, StateFitsLevel, StateHasGame
<1> QED
  BY <1>1, <1>2

\* The requests of a client that plays.
LEMMA PlayedStates ==
  ASSUME ServerInv, StatesInv, NEW c \in Clients, NEW p \in PlayerIDs,
         Opens(c, p) \/ Starts(c, p) \/ Uploads(c, p) \/ Settles(c, p)
  PROVE  StatesInv'
<1>1. CASE Opens(c, p)
  <2>1. PICK level \in Levels : LevelData(c, p, level)
    BY <1>1 DEF Opens
  <2> DEFINE status == [started |-> FALSE, level |-> level, start |-> 0, spend |-> 0]
  <2>2. /\ settle' = [settle EXCEPT ![p] = status]
        /\ levelState' = levelState /\ saveFile' = saveFile
    BY <2>1 DEF LevelData, GameOpened, fileVars
  <2>3. levelState[p] = NoState
    BY <1>1 DEF Opens, StatesInv, StateHasGame
  <2>4. status # NoSettle
    <3>1. status \in SettleStatus
      BY ServerAssumption DEF SettleStatus
    <3> QED
      BY <3>1, LevelAssumption
  <2> HIDE DEF status
  <2> QED
    BY <2>2, <2>3, <2>4, GameTypes DEF StatesInv, StateFitsLevel, StateHasGame
<1>2. CASE Starts(c, p)
  <2> DEFINE status == [started |-> TRUE, level |-> settle[p].level, start |-> now, spend |-> 0]
  <2>1. /\ settle[p] # NoSettle
        /\ settle' = [settle EXCEPT ![p] = status]
        /\ levelState' = levelState /\ saveFile' = saveFile
    BY <1>2 DEF Starts, LevelStart, GameStarted, fileVars
  <2>2. status.level = settle[p].level
    OBVIOUS
  <2>3. status # NoSettle
    <3>1. status \in SettleStatus
      BY <2>1, GameTypes DEF SettleStatus
    <3> QED
      BY <3>1, LevelAssumption
  <2> HIDE DEF status
  <2> QED
    BY <2>1, <2>2, <2>3, GameTypes DEF StatesInv, StateFitsLevel, StateHasGame
<1>3. CASE Uploads(c, p)
  <2>1. PICK state \in LevelStates :
          LevelOf[state] = settle[p].level /\ LevelUpdate(c, state)
    BY <1>3 DEF Uploads
  <2>2. /\ settle[p] # NoSettle
        /\ settle' = settle /\ saveFile' = saveFile
        /\ levelState' = [levelState EXCEPT ![p] = state]
    BY <1>3, <2>1 DEF Uploads, Plays, LevelUpdate, StateUploaded, fileVars
  <2> QED
    BY <2>1, <2>2, GameTypes DEF StatesInv, StateFitsLevel, StateHasGame
<1>4. CASE Settles(c, p)
  <2>1. PICK removed \in BOOLEAN : GameDiscarded(p, removed)
    BY <1>4, LevelAssumption DEF Settles, LevelSettle
  <2> QED
    BY <2>1, GameTypes DEF GameDiscarded, StatesInv, StateFitsLevel, StateHasGame
<1> QED
  BY <1>1, <1>2, <1>3, <1>4

\* Every step of honest clients keeps states with their levels.
LEMMA NextStates ==
  ASSUME TailFits
  PROVE  ServerInv /\ StatesInv /\ [HonestNext]_honestVars => StatesInv'
<1> SUFFICES ASSUME ServerInv, StatesInv, [HonestNext]_honestVars
             PROVE  StatesInv'
  OBVIOUS
<1>1. CASE settle' = settle /\ levelState' = levelState /\ saveFile' = saveFile
  BY <1>1 DEF StatesInv, StateFitsLevel, StateHasGame
<1>2. CASE MemoryLost /\ saveFile' = saveFile
  BY <1>2 DEF MemoryLost, NoGames, NoStates, StatesInv, StateFitsLevel, StateHasGame
<1> QED
  BY <1>1, <1>2, HonestCases, LeavesStates, ResumedStates, PlayedStates

\* level.cpp keeps the level of a game and its state in two maps: for clients
\* that upload states of the level they play the two belong together, in memory
\* and in the save, whatever closes, failing writes, restarts and resumes come
\* in between; provided reconnect parses nothing else behind the save.
THEOREM HonestStatesFit ==
  ASSUME TailFits
  PROVE  HonestSpec => []StateFitsLevel
<1>1. HonestInit => StatesInv
  BY DEF HonestInit, Init, NoGames, NoStates, StatesInv, StateFitsLevel, StateHasGame
<1>2. StatesInv => StateFitsLevel
  BY DEF StatesInv
<1> QED
  BY <1>1, <1>2, NextStates, HonestServerInv, PTL DEF HonestSpec

-----------------------------------------------------------------------------
(* The time that was played.                                               *)

\* A step that starts no game and keeps the other times.
LEMMA QuietCarried ==
  ASSUME ServerInv, ServerInv', CarriedInv, carried' = carried,
         now' = now \/ now' > now,
         \A p \in PlayerIDs : \/ settle'[p] \in {settle[p], NoSettle}
                              \/ settle'[p].started = FALSE
  PROVE  CarriedInv'
<1>1. now \in Nat /\ now' \in Nat /\ now <= now'
  BY LevelAssumption DEF ServerInv, TypeOK, LevelTypeOK
<1> SUFFICES ASSUME NEW p \in PlayerIDs, settle'[p] # NoSettle, settle'[p].started
             PROVE  /\ settle'[p].spend = 0 /\ settle'[p].start \in Nat
                    /\ settle'[p].start <= now'
  BY DEF CarriedInv
<1>2. settle'[p] = settle[p]
  OBVIOUS
<1>3. /\ settle[p].spend = 0 /\ settle[p].start \in Nat
      /\ settle[p].start <= now
  BY <1>2 DEF CarriedInv
<1> QED
  BY <1>1, <1>2, <1>3

\* The time of the game of a connection that is lost is added up.
LEMMA LeavesCarried ==
  ASSUME ServerInv, ServerInv', CarriedInv, NEW c \in Clients, Leaves(c)
  PROVE  CarriedInv'
<1>1. carried' \in [PlayerIDs -> Nat]
  <2> SUFFICES ASSUME NEW p \in PlayerIDs
               PROVE  (IF Plays(c, p) /\ settle[p] # NoSettle /\ settle[p].started
                       THEN carried[p] + now - settle[p].start
                       ELSE carried[p]) \in Nat
    BY DEF Leaves
  <2>1. carried[p] \in Nat /\ now \in Nat
    BY GameTypes DEF CarriedInv
  <2>2. CASE settle[p] # NoSettle /\ settle[p].started
    <3>1. settle[p].start \in Nat /\ settle[p].start <= now
      BY <2>2 DEF CarriedInv
    <3> QED
      BY <2>1, <3>1
  <2>3. CASE ~(settle[p] # NoSettle /\ settle[p].started)
    BY <2>1, <2>3
  <2> QED
    BY <2>2, <2>3
<1>2. \A p \in PlayerIDs : settle'[p] \in {settle[p], NoSettle}
  BY GameTypes DEF Leaves, Close, GameSuspended, gameVars, PlayerRecord
<1>3. now' = now
  BY DEF Leaves, Close
<1> QED
  BY <1>1, <1>2, <1>3 DEF CarriedInv

\* A game is started with nothing spent and from now on.
LEMMA PlayedCarried ==
  ASSUME ServerInv, ServerInv', CarriedInv, NEW c \in Clients, NEW p \in PlayerIDs,
         Opens(c, p) \/ Starts(c, p) \/ Uploads(c, p) \/ Settles(c, p)
  PROVE  CarriedInv'
<1>1. CASE Opens(c, p)
  <2>1. PICK level \in Levels : LevelData(c, p, level)
    BY <1>1 DEF Opens
  <2>2. /\ settle' = [settle EXCEPT ![p] =
                        [started |-> FALSE, level |-> level, start |-> 0, spend |-> 0]]
        /\ carried' = [carried EXCEPT ![p] = 0] /\ now' = now
    BY <1>1, <2>1 DEF Opens, LevelData, GameOpened
  <2>3. carried' \in [PlayerIDs -> Nat]
    BY <2>2 DEF CarriedInv
  <2>4. \A q \in PlayerIDs : settle'[q] = settle[q] \/ settle'[q].started = FALSE
    BY <2>2, GameTypes
  <2> QED
    BY <2>2, <2>3, <2>4 DEF CarriedInv
<1>2. CASE Starts(c, p)
  <2>1. /\ settle' = [settle EXCEPT ![p] =
                        [started |-> TRUE, level |-> @.level, start |-> now, spend |-> 0]]
        /\ carried' = carried /\ now' = now
    BY <1>2 DEF Starts, LevelStart, GameStarted
  <2>2. \A q \in PlayerIDs : \/ settle'[q] = settle[q]
                             \/ settle'[q].start = now /\ settle'[q].spend = 0
    BY <2>1, GameTypes
  <2>3. now \in Nat
    BY GameTypes
  <2> QED
    BY <2>1, <2>2, <2>3 DEF CarriedInv
<1>3. CASE Uploads(c, p)
  BY <1>3, QuietCarried DEF Uploads, LevelUpdate
<1>4. CASE Settles(c, p)
  <2>1. carried' = carried /\ now' = now /\ settle' = [settle EXCEPT ![p] = NoSettle]
    BY <1>4 DEF Settles, LevelSettle, GameDiscarded
  <2>2. \A q \in PlayerIDs : settle'[q] \in {settle[q], NoSettle}
    BY <2>1, GameTypes
  <2> QED
    BY <2>1, <2>2, QuietCarried
<1> QED
  BY <1>1, <1>2, <1>3, <1>4

\* Every step of honest clients keeps the timing of started games.
LEMMA NextCarried ==
  ServerInv /\ ServerInv' /\ CarriedInv /\ [HonestNext]_honestVars => CarriedInv'
<1> SUFFICES ASSUME ServerInv, ServerInv', CarriedInv, [HonestNext]_honestVars
             PROVE  CarriedInv'
  OBVIOUS
<1>1. CASE settle' = settle /\ carried' = carried /\ (now' = now \/ now' > now)
  BY <1>1, QuietCarried
<1>2. CASE MemoryLost /\ carried' = carried
  BY <1>2 DEF MemoryLost, NoGames, CarriedInv
<1>3. ASSUME NEW p \in PlayerIDs, NEW save, GameResumed(p, save),
             now' = now, carried' = carried
      PROVE  CarriedInv'
  <2>1. \A q \in PlayerIDs : settle'[q] = settle[q] \/ settle'[q].started = FALSE
    BY <1>3, GameTypes DEF GameResumed
  <2> QED
    BY <1>3, <2>1, QuietCarried
<1> QED
  BY <1>1, <1>2, <1>3, HonestCases, LeavesCarried, PlayedCarried

\* The reports of the time really played that the checks of
\* on_level_settle_req let pass. It describes the code and is nothing a player
\* would ask for: see PlayedTimeAccepted.
CarriedTimeRefused ==
  \A p \in PlayerIDs :
    settle[p] # NoSettle /\ settle[p].started
    => (Verdict(p, carried[p] + now - settle[p].start) = "OK" <=> carried[p] <= 1)

\* level.cpp:215 sets the time spent before the reconnect to zero when the
\* resumed game is started: a client that reports all the seconds it played is
\* called a cheat as soon as it had played more than one on an earlier
\* connection, and only then, whatever the clock and the failures.
THEOREM HonestTimeRefused == HonestSpec => []CarriedTimeRefused
<1>1. HonestInit => CarriedInv
  BY DEF HonestInit, Init, NoGames, CarriedInv
<1>2. ServerInv /\ CarriedInv => CarriedTimeRefused
  <2> SUFFICES ASSUME ServerInv, CarriedInv, NEW p \in PlayerIDs,
                      settle[p] # NoSettle, settle[p].started
               PROVE  Verdict(p, carried[p] + now - settle[p].start) = "OK" <=> carried[p] <= 1
    BY DEF CarriedTimeRefused
  <2> DEFINE k == carried[p]
             start == settle[p].start
             timing == now - start + settle[p].spend
  <2>1. /\ k \in Nat /\ now \in Nat /\ start \in Nat
        /\ timing = now - start
    BY GameTypes DEF CarriedInv
  <2>2. Verdict(p, k + now - start) = IF timing + 1 < k + now - start
                                         \/ timing - (k + now - start) > MaxLag
                                      THEN "CHEATING" ELSE "OK"
    BY DEF Verdict
  <2> HIDE DEF k, start, timing
  <2>3. /\ timing + 1 < k + now - start <=> k > 1
        /\ ~(timing - (k + now - start) > MaxLag)
    BY <2>1 DEF MaxLag
  <2>4. Verdict(p, k + now - start) = "OK" <=> k <= 1
    BY <2>1, <2>2, <2>3
  <2> QED
    BY <2>4 DEF k, start
<1> QED
  BY <1>1, <1>2, NextCarried, HonestServerInv, PTL DEF HonestSpec

=============================================================================
