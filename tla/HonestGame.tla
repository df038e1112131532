------------------------------ MODULE HonestGame ------------------------------
(***************************************************************************)
(* Clients that follow the protocol of a game: log in, open a level, start *)
(* it once, upload its state, lose the connection, log in again, start the *)
(* resumed game, settle. A client settles its game before it opens another *)
(* one. The server is the one of GameServer, unchanged.                    *)
(***************************************************************************)
EXTENDS GameServer

CONSTANT LevelOf   \* the level a state belongs to

ASSUME HonestAssumption == LevelOf \in [LevelStates -> LevelIDs]

VARIABLE carried   \* ghost: the seconds a player had played his game for when
                   \*   its connection was lost

honestVars == <<vars, carried>>

HonestInit == Init /\ carried = [p \in PlayerIDs |-> 0]

Plays(c, p) == playerMap[c] # NoPlayer /\ playerMap[c].pid = p

Opens(c, p) ==
  /\ Plays(c, p)
  /\ settle[p] = NoSettle
  /\ \E level \in Levels : LevelData(c, p, level)
  /\ carried' = [carried EXCEPT ![p] = 0]

Starts(c, p) ==
  /\ Plays(c, p)
  /\ settle[p] # NoSettle
  /\ ~settle[p].started
  /\ LevelStart(c, p)
  /\ UNCHANGED carried

Uploads(c, p) ==
  /\ Plays(c, p)
  /\ settle[p] # NoSettle
  /\ \E state \in LevelStates : LevelOf[state] = settle[p].level /\ LevelUpdate(c, state)
  /\ UNCHANGED carried

Settles(c, p) ==
  /\ Plays(c, p)
  /\ settle[p] # NoSettle /\ settle[p].started
  /\ \E kills \in Kills, spendTime \in SpendTimes, gold \in Golds :
       LevelSettle(c, p, kills, spendTime, gold)
  /\ UNCHANGED carried

Leaves(c) ==
  /\ Close(c)
  /\ carried' = [p \in PlayerIDs |->
                   IF Plays(c, p) /\ settle[p] # NoSettle /\ settle[p].started
                   THEN carried[p] + now - settle[p].start
                   ELSE carried[p]]

HonestNext ==
  \/ (Stop \/ Start \/ Tick) /\ UNCHANGED carried
  \/ \E c \in Clients :
       \/ Accept(c) /\ UNCHANGED carried
       \/ Refuse(c) /\ UNCHANGED carried
       \/ Leaves(c)
       \/ \E p \in PlayerIDs :
            \/ ~Online(p) /\ Login(c, p, TRUE) /\ UNCHANGED carried
            \/ Opens(c, p)
            \/ Starts(c, p)
            \/ Uploads(c, p)
            \/ Settles(c, p)

HonestSpec == HonestInit /\ [][HonestNext]_honestVars

\* level.cpp:249 adds m_spend_time to the timing of a settlement "because the
\* time accumulated before the reconnect is in it": a client that reports the
\* time really played, on both connections, is not called a cheat.
PlayedTimeAccepted ==
  \A p \in PlayerIDs :
    settle[p] # NoSettle /\ settle[p].started
    => Verdict(p, carried[p] + now - settle[p].start) = "OK"

\* The level of a game and its state are kept in two maps that are filled by
\* different requests and emptied by different branches of the settlement and
\* of on_player_diconnect; a save joins them. For a client that uploads states
\* of the level it plays they belong together, in memory and in its save.
StateFitsLevel ==
  \A p \in PlayerIDs :
    /\ settle[p] # NoSettle /\ levelState[p] # NoState
         => LevelOf[levelState[p]] = settle[p].level
    /\ saveFile[p] # NoSave => LevelOf[saveFile[p].state] = saveFile[p].level

=============================================================================
