----------------------------- MODULE LedgerProofs -----------------------------
(***************************************************************************)
(* What a step of the server may do: to handles, to games, to sessions and *)
(* to the money of the players, for every number of each.                  *)
(***************************************************************************)
EXTENDS GameServerProofs

-----------------------------------------------------------------------------
(* The shape of a request.                                                 *)

\* Every handler either ends the process or answers or keeps silent.
LEMMA RequestAnswers ==
  ASSUME NEW c \in Clients, Request(c)
  PROVE  /\ Handling(c)
         /\ MemoryLost \/ Silent(c) \/ \E packets : Sends(c, packets)
<1>1. CASE Query(c)
  BY <1>1 DEF Query
<1>2. ASSUME NEW p \in PlayerIDs, Backpack(c, p)
      PROVE  Handling(c) /\ (Dies \/ \E packets : Sends(c, packets))
  BY <1>2 DEF Backpack
<1>3. ASSUME NEW p \in PlayerIDs, NEW matches \in BOOLEAN, Login(c, p, matches)
      PROVE  Handling(c) /\ (Dies \/ Silent(c) \/ \E packets : Sends(c, packets))
  BY <1>3 DEF Login
<1>4. ASSUME NEW p \in PlayerIDs, Create(c, p)
      PROVE  Handling(c) /\ (MemoryLost \/ \E packets : Sends(c, packets))
  BY <1>4 DEF Create, Dies
<1>5. ASSUME NEW p \in PlayerIDs, NEW level \in LevelIDs, LevelData(c, p, level)
      PROVE  Handling(c) /\ \E packets : Sends(c, packets)
  BY <1>5 DEF LevelData
<1>6. ASSUME NEW p \in PlayerIDs, LevelStart(c, p)
      PROVE  Handling(c) /\ Silent(c)
  BY <1>6 DEF LevelStart
<1>7. ASSUME NEW p \in PlayerIDs, NEW kills \in Kills, NEW spendTime \in SpendTimes,
             NEW gold \in Golds, LevelSettle(c, p, kills, spendTime, gold)
      PROVE  Handling(c) /\ \E packets : Sends(c, packets)
  BY <1>7 DEF LevelSettle
<1>8. ASSUME NEW p \in PlayerIDs, NEW page \in Pages, RankReq(c, p, page)
      PROVE  Handling(c) /\ (Dies \/ \E packets : Sends(c, packets))
  BY <1>8 DEF RankReq
<1>9. ASSUME NEW state \in LevelStates, LevelUpdate(c, state)
      PROVE  Handling(c) /\ Silent(c)
  BY <1>9 DEF LevelUpdate
<1> QED
  BY <1>1, <1>2, <1>3, <1>4, <1>5, <1>6, <1>7, <1>8, <1>9 DEF Request, Dies

\* The game of p that was started is over, and a connection that is not free is
\* told that it was paid.
GamePaid(c, p) ==
  /\ settle[p] # NoSettle /\ settle[p].started
  /\ settle'[p] = NoSettle
  /\ conn[c] # "free"
  /\ reply' = <<Answer(c, "SETTLE", "OK")>>

\* A request leaves the sessions alone, loses them with the process, enters
\* a player, or pays one for a game of his.
LEMMA RequestPlayers ==
  ASSUME ServerInv, NEW c \in Clients, Request(c)
  PROVE  \/ playerMap' = playerMap
         \/ MemoryLost
         \/ \E record : playerMap' = PlayerMapWith(c, record)
         \/ \E score \in Int, gold \in Int, p \in PlayerIDs :
              GamePaid(c, p) /\ \E d \in Sessions(p) : Pay(d, score, gold)
<1>1. CASE Query(c)
  BY <1>1 DEF Query
<1>2. ASSUME NEW p \in PlayerIDs, Backpack(c, p)
      PROVE  playerMap' = playerMap \/ MemoryLost
  BY <1>2 DEF Backpack, Dies
<1>3. ASSUME NEW p \in PlayerIDs, NEW matches \in BOOLEAN, Login(c, p, matches)
      PROVE  \/ playerMap' = playerMap
             \/ MemoryLost
             \/ \E record : playerMap' = PlayerMapWith(c, record)
  BY <1>3 DEF Login, Dies
<1>4. ASSUME NEW p \in PlayerIDs, Create(c, p)
      PROVE  \/ playerMap' = playerMap
             \/ MemoryLost
             \/ \E record : playerMap' = PlayerMapWith(c, record)
  BY <1>4 DEF Create, Dies
<1>5. ASSUME NEW p \in PlayerIDs, NEW level \in LevelIDs, LevelData(c, p, level)
      PROVE  playerMap' = playerMap
  BY <1>5 DEF LevelData
<1>6. ASSUME NEW p \in PlayerIDs, LevelStart(c, p)
      PROVE  playerMap' = playerMap
  BY <1>6 DEF LevelStart
<1>7. ASSUME NEW p \in PlayerIDs, NEW kills \in Kills, NEW spendTime \in SpendTimes,
             NEW gold \in Golds, LevelSettle(c, p, kills, spendTime, gold)
      PROVE  \/ playerMap' = playerMap
             \/ /\ GamePaid(c, p)
                /\ Score(kills, spendTime) \in Int /\ gold \in Int
                /\ \E d \in Sessions(p) : Pay(d, Score(kills, spendTime), gold)
  <2>1. kills \in Int /\ spendTime \in Int /\ gold \in Int
    BY ServerAssumption
  <2>2. settle'[p] = NoSettle
    BY <1>7 DEF LevelSettle, GameDiscarded, ServerInv, TypeOK, LevelTypeOK
  <2>3. conn[c] # "free"
    BY <1>7 DEF LevelSettle, Handling
  <2>4. ASSUME Verdict(p, spendTime) = "OK", Sends(c, <<Answer(c, "SETTLE", "OK")>>)
        PROVE  GamePaid(c, p)
    BY <2>2, <2>3, <2>4 DEF Verdict, Sends, GamePaid
  <2> QED
    BY <1>7, <2>1, <2>4, ScoreType DEF LevelSettle
<1>8. ASSUME NEW p \in PlayerIDs, NEW page \in Pages, RankReq(c, p, page)
      PROVE  playerMap' = playerMap \/ MemoryLost
  BY <1>8 DEF RankReq, Dies
<1>9. ASSUME NEW state \in LevelStates, LevelUpdate(c, state)
      PROVE  playerMap' = playerMap
  BY <1>9 DEF LevelUpdate
<1> QED
  BY <1>1, <1>2, <1>3, <1>4, <1>5, <1>6, <1>7, <1>8, <1>9 DEF Request

-----------------------------------------------------------------------------
(* Handles.                                                                *)

\* A handler opens and frees no handle; it may close the one of its packet.
LEMMA HandlerLife ==
  ASSUME ConnTypeOK, NEW c \in Clients, Handling(c),
         Silent(c) \/ \E packets : Sends(c, packets)
  PROVE  Life!Next \/ UNCHANGED Life!lifeVars
<1>1. \/ conn[c] = "open"
      \/ conn[c] = "closing" /\ chunk = c
  BY DEF Handling
<1>2. /\ chunk' = IF conn'[c] = "closing" THEN c ELSE NoClient
      /\ conn' = conn \/ conn' = [conn EXCEPT ![c] = "closing"]
  BY DEF Silent, Sends
<1>3. CASE conn' = conn
  BY <1>1, <1>2, <1>3 DEF Life!Next, Life!ChunkEnds, Life!lifeVars
<1>4. CASE conn[c] = "open" /\ conn' = [conn EXCEPT ![c] = "closing"]
  <2>1. chunk' \in {c, NoClient}
    BY <1>2
  <2> QED
    BY <1>4, <2>1 DEF Life!Next, Life!Closes
<1>5. CASE conn[c] = "closing" /\ conn' = [conn EXCEPT ![c] = "closing"]
  <2>1. conn' = conn
    BY <1>5 DEF ConnTypeOK
  <2> QED
    BY <1>3, <2>1
<1> QED
  BY <1>1, <1>2, <1>3, <1>4, <1>5

\* For every set of addresses, the handlers keep to the life of the handles
\* that the callbacks of Connections keep to: the two models agree about it.
THEOREM ServerImplementsHandleLife == Spec => ImplementsHandleLife
<1>1. Init => Life!Gone
  BY DEF Init, AllFree, Life!Gone
<1>2. ServerInv /\ [Next]_vars => [Life!Next]_(Life!lifeVars)
  <2> SUFFICES ASSUME ServerInv, [Next]_vars
               PROVE  Life!Next \/ UNCHANGED Life!lifeVars
    OBVIOUS
  <2>1. CASE MemoryLost
    BY <2>1 DEF MemoryLost, AllFree, Life!Next, Life!Gone
  <2>2. CASE Start \/ Tick \/ UNCHANGED vars
    BY <2>2 DEF Start, Tick, vars, serverVars, Life!lifeVars
  <2>3. ASSUME NEW c \in Clients, Accept(c)
        PROVE  Life!Next
    BY <2>3 DEF Accept, Life!Next, Life!Opens
  <2>4. ASSUME NEW c \in Clients, Refuse(c)
        PROVE  Life!Next
    <3>1. conn[c] = "open" /\ conn' = [conn EXCEPT ![c] = "closing"] /\ chunk' \in {c, NoClient}
      BY <2>4 DEF Refuse
    <3> QED
      BY <3>1 DEF Life!Next, Life!Closes
  <2>5. ASSUME NEW c \in Clients, Close(c)
        PROVE  Life!Next
    BY <2>5 DEF Close, Life!Next, Life!Freed
  <2>6. ASSUME NEW c \in Clients, Request(c)
        PROVE  Life!Next \/ UNCHANGED Life!lifeVars
    BY <2>1, <2>6, RequestAnswers, HandlerLife DEF ServerInv, TypeOK
  <2> QED
    BY <2>1, <2>2, <2>3, <2>4, <2>5, <2>6 DEF Next, Stop, Dies
<1> QED
  BY <1>1, <1>2, ServerInvariant, PTL DEF Spec, ImplementsHandleLife, Life!Spec

-----------------------------------------------------------------------------
(* Sessions and games.                                                     *)

\* The record of a session changes only in the settlement of a game its own
\* player has started, which ends with it and is answered OK to whoever asked.
THEOREM ServerPaidMeansSettled == Spec => PaidMeansSettled
<1> DEFINE Settled(d) ==
      playerMap[d] # NoPlayer /\ playerMap'[d] # NoPlayer /\ playerMap'[d] # playerMap[d]
      => /\ playerMap'[d].pid = playerMap[d].pid
         /\ \E c \in Clients : GamePaid(c, playerMap[d].pid)
<1>1. ASSUME ServerInv, [Next]_vars, NEW d \in Clients
      PROVE  Settled(d)
  <2>1. PlayerTypeOK
    BY <1>1 DEF ServerInv, TypeOK
  <2>2. CASE playerMap' = playerMap \/ MemoryLost
    BY <2>2 DEF NoPlayers, MemoryLost
  <2>3. CASE Stop \/ Start \/ Tick \/ UNCHANGED vars
    BY <2>2, <2>3 DEF Stop, Dies, Start, Tick, vars
  <2>4. ASSUME NEW c \in Clients, Accept(c) \/ Refuse(c) \/ Close(c)
        PROVE  Settled(d)
    BY <2>1, <2>4 DEF Accept, Refuse, Close, PlayerClose, PlayerTypeOK
  <2>5. ASSUME NEW c \in Clients, NEW record, playerMap' = PlayerMapWith(c, record)
        PROVE  Settled(d)
    BY <2>1, <2>5 DEF PlayerMapWith, PlayerTypeOK
  <2>6. ASSUME NEW c \in Clients, NEW score \in Int, NEW gold \in Int, NEW p \in PlayerIDs,
               GamePaid(c, p), NEW e \in Sessions(p), Pay(e, score, gold)
        PROVE  Settled(d)
    <3>1. e \in Clients /\ playerMap[e] \in PlayerRecord /\ playerMap[e].pid = p
      BY <2>1, SessionType
    <3>2. playerMap'[e] = PaidRecord(playerMap[e], score, gold)
          /\ (d # e => playerMap'[d] = playerMap[d])
      BY <2>1, <2>6, <3>1 DEF Pay, PaidRecord, PlayerTypeOK
    <3>3. playerMap'[e].pid = p
      BY <3>1, <3>2, PaidRecordIs
    <3> QED
      BY <2>6, <3>1, <3>2, <3>3
  <2>7. ASSUME NEW c \in Clients, Request(c)
        PROVE  Settled(d)
    BY <1>1, <2>2, <2>5, <2>6, <2>7, RequestPlayers
  <2> QED
    BY <1>1, <2>3, <2>4, <2>7 DEF Next
<1>2. ASSUME NEW d \in Clients, Settled(d),
             playerMap[d] # NoPlayer, playerMap'[d] # NoPlayer, playerMap'[d] # playerMap[d]
      PROVE  LET p == playerMap[d].pid
             IN  /\ playerMap'[d].pid = p
                 /\ settle[p] # NoSettle /\ settle[p].started
                 /\ settle'[p] = NoSettle
                 /\ \E c \in Clients : /\ conn[c] # "free"
                                       /\ reply' = <<Answer(c, "SETTLE", "OK")>>
  BY <1>2 DEF GamePaid
<1> DEFINE Step ==
      \A d \in Clients :
        playerMap[d] # NoPlayer /\ playerMap'[d] # NoPlayer /\ playerMap'[d] # playerMap[d]
        => LET p == playerMap[d].pid
           IN  /\ playerMap'[d].pid = p
               /\ settle[p] # NoSettle /\ settle[p].started
               /\ settle'[p] = NoSettle
               /\ \E c \in Clients : /\ conn[c] # "free"
                                     /\ reply' = <<Answer(c, "SETTLE", "OK")>>
<1>3. ServerInv /\ [Next]_vars => [Step]_vars
  BY <1>1, <1>2
<1> QED
  BY <1>3, ServerInvariant, PTL DEF Spec, PaidMeansSettled

\* A game in progress does not survive the session of its player.
THEOREM ServerGameLeaves == Spec => GameLeavesWithPlayer
<1> DEFINE Leaves(c) ==
      playerMap[c] # NoPlayer /\ playerMap'[c] = NoPlayer
      => settle'[playerMap[c].pid] = NoSettle
<1>1. ASSUME ServerInv, [Next]_vars, NEW c \in Clients
      PROVE  Leaves(c)
  <2>1. /\ PlayerTypeOK
        /\ settle \in [PlayerIDs -> SettleStatus \cup {NoSettle}]
    BY <1>1 DEF ServerInv, TypeOK, LevelTypeOK
  <2>2. playerMap[c] # NoPlayer => playerMap[c].pid \in PlayerIDs
    BY <2>1 DEF PlayerTypeOK, PlayerRecord
  <2>3. CASE MemoryLost
    BY <2>2, <2>3 DEF MemoryLost, NoGames
  <2>4. CASE Start \/ Tick \/ UNCHANGED vars
    BY <2>4 DEF Start, Tick, vars
  <2>5. ASSUME NEW d \in Clients, Accept(d) \/ Refuse(d)
        PROVE  Leaves(c)
    BY <2>5 DEF Accept, Refuse
  <2>6. ASSUME NEW d \in Clients, Close(d)
        PROVE  Leaves(c)
    <3>1. CASE d # c
      BY <2>1, <2>6, <3>1 DEF Close, PlayerClose, PlayerTypeOK
    <3>2. CASE d = c /\ playerMap[c] # NoPlayer
      <4>1. GameSuspended(playerMap[c].pid)
        BY <2>6, <3>2 DEF Close
      <4> QED
        BY <2>1, <2>2, <3>2, <4>1 DEF GameSuspended
    <3> QED
      BY <3>1, <3>2
  <2>7. ASSUME NEW d \in Clients, NEW record, playerMap' = PlayerMapWith(d, record)
        PROVE  Leaves(c)
    BY <2>1, <2>7 DEF PlayerMapWith, PlayerTypeOK
  <2>8. ASSUME NEW score \in Int, NEW gold \in Int, NEW p \in PlayerIDs,
               NEW d \in Sessions(p), Pay(d, score, gold)
        PROVE  Leaves(c)
    <3>1. d \in Clients
      BY <2>1, SessionType
    <3>2. c # d => playerMap'[c] = playerMap[c]
      BY <2>1, <2>8, <3>1 DEF Pay, PlayerTypeOK
    <3>3. playerMap'[d] # NoPlayer
      <4>1. /\ playerMap[d] \in PlayerRecord
            /\ playerMap'[d] = PaidRecord(playerMap[d], score, gold)
        BY <2>1, <2>8, <3>1, SessionType DEF Pay, PaidRecord, PlayerTypeOK
      <4>2. playerMap'[d] \in PlayerRecord
        BY <4>1, PaidRecordIs
      <4> QED
        BY <4>2, PlayerAssumption
    <3> QED
      BY <3>2, <3>3
  <2>9. ASSUME NEW d \in Clients, Request(d)
        PROVE  Leaves(c)
    BY <1>1, <2>3, <2>7, <2>8, <2>9, RequestPlayers
  <2> QED
    BY <1>1, <2>3, <2>4, <2>5, <2>6, <2>9 DEF Next, Stop, Dies
<1>2. ServerInv /\ [Next]_vars => [\A c \in Clients : Leaves(c)]_vars
  BY <1>1
<1> QED
  BY <1>2, ServerInvariant, PTL DEF Spec, GameLeavesWithPlayer

-----------------------------------------------------------------------------
(* Money.                                                                  *)

\* The money of a player is that of the one connection he is logged in on.
LEMMA MoneyOfSession ==
  ASSUME OneConnectionPerPlayer, NEW p, NEW c \in Sessions(p)
  PROVE  MoneyOf(p) = playerMap[c].money
<1> DEFINE d == CHOOSE d \in Sessions(p) : TRUE
<1>1. d \in Sessions(p)
  OBVIOUS
<1>2. MoneyOf(p) = playerMap[d].money
  BY DEF MoneyOf, Online
<1> HIDE DEF d
<1>3. d = c
  BY <1>1 DEF Sessions, OneConnectionPerPlayer
<1> QED
  BY <1>2, <1>3

\* And so it is after a step.
LEMMA MoneyOfSessionNext ==
  ASSUME OneConnectionPerPlayer', NEW p, NEW c \in Sessions(p)'
  PROVE  MoneyOf(p)' = playerMap'[c].money
<1> DEFINE d == CHOOSE d \in Sessions(p)' : TRUE
<1>1. d \in Sessions(p)'
  OBVIOUS
<1>2. MoneyOf(p)' = playerMap'[d].money
  BY DEF MoneyOf, Online
<1> HIDE DEF d
<1>3. d = c
  BY <1>1 DEF Sessions, OneConnectionPerPlayer
<1> QED
  BY <1>2, <1>3

\* The money of a player whose sessions a step leaves alone stays the same.
LEMMA SameMoney ==
  ASSUME OneConnectionPerPlayer, OneConnectionPerPlayer', NEW q,
         Sessions(q)' = Sessions(q),
         \A c \in Sessions(q) : playerMap'[c] = playerMap[c]
  PROVE  MoneyOf(q)' = MoneyOf(q)
<1>1. CASE Sessions(q) = {}
  BY <1>1 DEF MoneyOf, Online
<1>2. ASSUME NEW c \in Sessions(q)
      PROVE  MoneyOf(q)' = MoneyOf(q)
  BY <1>2, MoneyOfSession, MoneyOfSessionNext
<1> QED
  BY <1>1, <1>2

\* A step that changes only the session of c, which is that of p before and
\* after if there is one, leaves everybody else's money alone.
LEMMA OthersMoney ==
  ASSUME OneConnectionPerPlayer, OneConnectionPerPlayer',
         NEW c \in Clients, NEW p,
         \A d \in Clients \ {c} : playerMap'[d] = playerMap[d],
         playerMap[c] # NoPlayer => playerMap[c].pid = p,
         playerMap'[c] # NoPlayer => playerMap'[c].pid = p,
         NEW q, q # p
  PROVE  MoneyOf(q)' = MoneyOf(q)
<1>1. Sessions(q)' = Sessions(q)
  BY DEF Sessions
<1>2. \A d \in Sessions(q) : playerMap'[d] = playerMap[d]
  BY DEF Sessions
<1> QED
  BY <1>1, <1>2, SameMoney

\* No session changes, and no game is opened or paid.
LEMMA QuietLedger ==
  ASSUME playerMap' = playerMap, unpaid' = unpaid
  PROVE  UNCHANGED Ledger!accountVars
<1>1. \A p : MoneyOf(p)' = MoneyOf(p)
  BY DEF MoneyOf, Online, Sessions
<1> QED
  BY <1>1 DEF Ledger!accountVars

\* The process ends.
LEMMA LostLedger ==
  ASSUME MemoryLost, unpaid' = unpaid
  PROVE  Ledger!Next
<1>1. \A p : MoneyOf(p)' = NoPlayer
  BY DEF MemoryLost, NoPlayers, MoneyOf, Online, Sessions
<1> QED
  BY <1>1 DEF Ledger!Next, Ledger!Crash

\* A player leaves with his connection.
LEMMA ClosedLedger ==
  ASSUME ServerInv, SessionInv, SessionInv', NEW c \in Clients, Close(c)
  PROVE  Ledger!Next \/ UNCHANGED Ledger!accountVars
<1>1. PlayerTypeOK /\ unpaid' = unpaid /\ OneConnectionPerPlayer /\ OneConnectionPerPlayer'
  BY DEF ServerInv, TypeOK, Close, SessionInv
<1>2. CASE playerMap[c] = NoPlayer
  BY <1>1, <1>2, QuietLedger DEF Close, PlayerClose
<1>3. CASE playerMap[c] # NoPlayer
  <2>1. PICK p \in PlayerIDs : playerMap[c].pid = p
    BY <1>1, <1>3 DEF PlayerTypeOK, PlayerRecord
  <2>2. playerMap' = [playerMap EXCEPT ![c] = NoPlayer]
    BY <1>3 DEF Close, PlayerClose
  <2>3. \A d \in Clients \ {c} : playerMap'[d] = playerMap[d]
    BY <1>1, <2>2 DEF PlayerTypeOK
  <2>4. playerMap'[c] = NoPlayer
    BY <1>1, <2>2 DEF PlayerTypeOK
  <2>5. \A q \in PlayerIDs : q # p => MoneyOf(q)' = MoneyOf(q)
    BY <1>1, <2>1, <2>3, <2>4, OthersMoney
  <2>6. Sessions(p)' = {}
    BY <1>1, <1>3, <2>1, <2>3, <2>4 DEF Sessions, OneConnectionPerPlayer
  <2>7. MoneyOf(p)' = NoPlayer
    BY <2>6 DEF MoneyOf, Online
  <2>8. Ledger!Leave(p)
    BY <1>1, <2>1, <2>5, <2>7 DEF Ledger!Leave
  <2> QED
    BY <2>1, <2>8 DEF Ledger!Next
<1> QED
  BY <1>2, <1>3

\* A player who was not online enters, unless his connection has an entry.
LEMMA EnteredLedger ==
  ASSUME PlayerTypeOK, OneConnectionPerPlayer, OneConnectionPerPlayer',
         unpaid' = unpaid,
         NEW c \in Clients, NEW p \in PlayerIDs, ~Online(p),
         NEW record \in PlayerRecord, record.pid = p,
         record.money \in {0, InitialCapital},
         playerMap' = PlayerMapWith(c, record)
  PROVE  Ledger!Next \/ UNCHANGED Ledger!accountVars
<1>1. CASE playerMap[c] # NoPlayer
  BY <1>1, QuietLedger DEF PlayerMapWith
<1>2. CASE playerMap[c] = NoPlayer
  <2>1. playerMap' = [playerMap EXCEPT ![c] = record]
    BY <1>2 DEF PlayerMapWith
  <2>2. \A d \in Clients \ {c} : playerMap'[d] = playerMap[d]
    BY <2>1 DEF PlayerTypeOK
  <2>3. playerMap'[c] = record /\ record # NoPlayer
    BY <2>1, PlayerAssumption DEF PlayerTypeOK
  <2>4. \A q \in PlayerIDs : q # p => MoneyOf(q)' = MoneyOf(q)
    BY <1>2, <2>2, <2>3, OthersMoney
  <2>5. c \in Sessions(p)'
    BY <2>3 DEF Sessions
  <2>6. MoneyOf(p)' = record.money
    BY <2>3, <2>5, MoneyOfSessionNext
  <2>7. MoneyOf(p) = NoPlayer
    BY DEF MoneyOf
  <2>8. Ledger!Enter(p)
    BY <2>4, <2>6, <2>7 DEF Ledger!Enter
  <2> QED
    BY <2>8 DEF Ledger!Next
<1> QED
  BY <1>1, <1>2

\* A login enters a player only under the ID of his own file, with no money.
LEMMA LoginLedger ==
  ASSUME ServerInv, SessionInv, SessionInv', NEW c \in Clients, NEW p \in PlayerIDs,
         NEW matches \in BOOLEAN, Login(c, p, matches)
  PROVE  Ledger!Next \/ UNCHANGED Ledger!accountVars
<1>1. /\ PlayerTypeOK /\ FileTypeOK /\ NamedFiles
      /\ OneConnectionPerPlayer /\ OneConnectionPerPlayer'
  BY DEF ServerInv, TypeOK, SessionInv
<1>2. CASE Dies
  BY <1>2, LostLedger DEF Dies
<1>3. CASE playerMap' = playerMap /\ unpaid' = unpaid
  BY <1>3, QuietLedger
<1>4. CASE /\ ~Online(p)
           /\ LoginAccepted(p, matches)
           /\ playerMap' = PlayerMapWith(c, LoginRecord(p))
           /\ unpaid' = unpaid
  <2>1. playerFile[p] \in PlayerRecord /\ playerFile[p].pid = p
    BY <1>1, <1>4 DEF LoginAccepted, Readable, FileTypeOK, NamedFiles
  <2>2. /\ LoginRecord(p) \in PlayerRecord
        /\ LoginRecord(p).pid = p
        /\ LoginRecord(p).money \in {0, InitialCapital}
    BY <2>1 DEF LoginRecord, PlayerRecord
  <2> QED
    BY <1>1, <1>4, <2>2, EnteredLedger
<1> QED
  BY <1>2, <1>3, <1>4 DEF Login

\* A registration enters a new player with the initial capital.
LEMMA CreateLedger ==
  ASSUME ServerInv, SessionInv, SessionInv', NEW c \in Clients, NEW p \in PlayerIDs,
         Create(c, p)
  PROVE  Ledger!Next \/ UNCHANGED Ledger!accountVars
<1>1. /\ PlayerTypeOK /\ unpaid' = unpaid
      /\ OneConnectionPerPlayer /\ OneConnectionPerPlayer'
  BY DEF ServerInv, TypeOK, SessionInv, Create, Dies
<1>2. CASE MemoryLost
  BY <1>1, <1>2, LostLedger
<1>3. CASE playerMap' = playerMap
  BY <1>1, <1>3, QuietLedger
<1>4. ASSUME NEW text \in Texts, ~Online(p), playerMap' = PlayerMapWith(c, NewRecord(p, text))
      PROVE  Ledger!Next \/ UNCHANGED Ledger!accountVars
  <2>1. /\ NewRecord(p, text) \in PlayerRecord
        /\ NewRecord(p, text).pid = p
        /\ NewRecord(p, text).money \in {0, InitialCapital}
    BY ServerAssumption DEF NewRecord, PlayerRecord, InitialCapital
  <2> QED
    BY <1>1, <1>4, <2>1, EnteredLedger
<1> QED
  BY <1>2, <1>3, <1>4 DEF Create, Dies

\* A settlement discards the game, or pays it when it is owed.
LEMMA SettledLedger ==
  ASSUME ServerInv, SessionInv, SessionInv', PaidOnce,
         NEW c \in Clients, NEW p \in PlayerIDs, NEW kills \in Kills,
         NEW spendTime \in SpendTimes, NEW gold \in Golds,
         LevelSettle(c, p, kills, spendTime, gold)
  PROVE  Ledger!Next \/ UNCHANGED Ledger!accountVars
<1>1. /\ PlayerTypeOK /\ unpaid \in [PlayerIDs -> BOOLEAN]
      /\ OneConnectionPerPlayer /\ OneConnectionPerPlayer'
  BY DEF ServerInv, TypeOK, SessionInv
<1>2. PICK removed \in BOOLEAN : unpaid' = [unpaid EXCEPT ![p] = @ /\ ~removed]
  BY LevelAssumption DEF LevelSettle
<1>3. CASE playerMap' = playerMap
  <2>1. CASE removed
    <3>1. unpaid' = [unpaid EXCEPT ![p] = FALSE]
      BY <1>2, <2>1
    <3>2. \A q : MoneyOf(q)' = MoneyOf(q)
      BY <1>3 DEF MoneyOf, Online, Sessions
    <3>3. Ledger!Discard(p)
      BY <3>1, <3>2 DEF Ledger!Discard
    <3> QED
      BY <3>3 DEF Ledger!Next
  <2>2. CASE ~removed
    <3>1. unpaid' = unpaid
      BY <1>1, <1>2, <2>2
    <3> QED
      BY <1>3, <3>1, QuietLedger
  <2> QED
    BY <2>1, <2>2
<1>4. ASSUME Verdict(p, spendTime) = "OK",
             NEW d \in Sessions(p), Pay(d, Score(kills, spendTime), gold)
      PROVE  Ledger!Next
  <2>1. unpaid[p]
    BY <1>4 DEF Verdict, PaidOnce
  <2>2. d \in Clients /\ playerMap[d] \in PlayerRecord /\ playerMap[d].pid = p
    BY <1>1, SessionType
  <2>3. Score(kills, spendTime) \in Int /\ gold \in Int
    BY ServerAssumption, ScoreType
  <2>4. playerMap'[d] = PaidRecord(playerMap[d], Score(kills, spendTime), gold)
    BY <1>1, <1>4, <2>2 DEF Pay, PaidRecord, PlayerTypeOK
  <2>5. /\ \A e \in Clients \ {d} : playerMap'[e] = playerMap[e]
        /\ playerMap'[d].pid = p
        /\ playerMap'[d].money = playerMap[d].money + gold
    BY <1>1, <1>4, <2>2, <2>3, <2>4, PaidRecordIs DEF Pay, PlayerTypeOK
  <2>6. \A q \in PlayerIDs : q # p => MoneyOf(q)' = MoneyOf(q)
    BY <1>1, <2>2, <2>5, OthersMoney
  <2>7. playerMap'[d] # NoPlayer
    BY <2>2, <2>3, <2>4, PaidRecordIs, PlayerAssumption
  <2>8. MoneyOf(p)' = playerMap[d].money + gold
    <3>1. d \in Sessions(p)'
      BY <2>2, <2>5, <2>7 DEF Sessions
    <3> QED
      BY <1>1, <2>5, <3>1, MoneyOfSessionNext
  <2>9. MoneyOf(p) = playerMap[d].money
    BY <1>1, MoneyOfSession
  <2>10. playerMap[d].money # NoPlayer
    BY <2>2, LedgerAssumption DEF PlayerRecord
  <2>11. unpaid' = [unpaid EXCEPT ![p] = ~removed]
    BY <1>2, <2>1
  <2>12. Ledger!Pay(p)
    BY <2>1, <2>6, <2>8, <2>9, <2>10, <2>11 DEF Ledger!Pay
  <2> QED
    BY <2>12 DEF Ledger!Next
<1> QED
  BY <1>3, <1>4 DEF LevelSettle

\* A request of another kind touches no money.
LEMMA RequestLedger ==
  ASSUME ServerInv, SessionInv, SessionInv', PaidOnce, NEW c \in Clients, Request(c)
  PROVE  Ledger!Next \/ UNCHANGED Ledger!accountVars
<1>1. CASE Query(c)
  BY <1>1, QuietLedger DEF Query
<1>2. ASSUME NEW p \in PlayerIDs, Backpack(c, p)
      PROVE  Ledger!Next \/ UNCHANGED Ledger!accountVars
  BY <1>2, QuietLedger, LostLedger DEF Backpack, Dies
<1>3. ASSUME NEW p \in PlayerIDs, NEW level \in LevelIDs, LevelData(c, p, level)
      PROVE  Ledger!Next
  <2>1. playerMap' = playerMap /\ unpaid' = [unpaid EXCEPT ![p] = TRUE]
    BY <1>3 DEF LevelData
  <2>2. \A q : MoneyOf(q)' = MoneyOf(q)
    BY <2>1 DEF MoneyOf, Online, Sessions
  <2> QED
    BY <2>1, <2>2 DEF Ledger!Next, Ledger!OpenGame
<1>4. ASSUME NEW p \in PlayerIDs, LevelStart(c, p)
      PROVE  UNCHANGED Ledger!accountVars
  BY <1>4, QuietLedger DEF LevelStart
<1>5. ASSUME NEW p \in PlayerIDs, NEW page \in Pages, RankReq(c, p, page)
      PROVE  Ledger!Next \/ UNCHANGED Ledger!accountVars
  BY <1>5, QuietLedger, LostLedger DEF RankReq, Dies
<1>6. ASSUME NEW state \in LevelStates, LevelUpdate(c, state)
      PROVE  UNCHANGED Ledger!accountVars
  BY <1>6, QuietLedger DEF LevelUpdate
<1> QED
  BY <1>1, <1>2, <1>3, <1>4, <1>5, <1>6, LoginLedger, CreateLedger, SettledLedger DEF Request

\* When every file is named after the ID it stores, money enters an account
\* only for a game that is owed, whatever disconnections, failing saves,
\* crashes and requests of others come in between.
THEOREM ServerImplementsLedger ==
  ASSUME FilesNamedAfterPlayers
  PROVE  Spec => ImplementsLedger
<1>1. Init => Ledger!Init
  BY DEF Init, NoPlayers, MoneyOf, Online, Sessions, Ledger!Init
<1>2. Init => SessionInv
  BY InitSessions
<1>3. Init => PaidOnce
  BY DEF Init, PaidOnce, NoGames
<1>4. ServerInv /\ SessionInv /\ SessionInv' /\ PaidOnce /\ [Next]_vars
        => [Ledger!Next]_(Ledger!accountVars)
  <2> SUFFICES ASSUME ServerInv, SessionInv, SessionInv', PaidOnce, [Next]_vars
               PROVE  Ledger!Next \/ UNCHANGED Ledger!accountVars
    OBVIOUS
  <2>1. CASE Stop
    BY <2>1, LostLedger DEF Stop, Dies
  <2>2. CASE Start \/ Tick \/ UNCHANGED vars
    BY <2>2, QuietLedger DEF Start, Tick, vars
  <2>3. ASSUME NEW c \in Clients, Accept(c) \/ Refuse(c)
        PROVE  UNCHANGED Ledger!accountVars
    BY <2>3, QuietLedger DEF Accept, Refuse
  <2> QED
    BY <2>1, <2>2, <2>3, ClosedLedger, RequestLedger DEF Next
<1> QED
  BY <1>1, <1>2, <1>3, <1>4, NextSessions, NextGames, ServerInvariant, PTL
  DEF Spec, ImplementsLedger, Ledger!Spec

=============================================================================
