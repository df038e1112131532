--------------------------- MODULE RankBoardProofs ---------------------------
(***************************************************************************)
(* The leaderboard keeps its invariant for every set of players, every     *)
(* page size and all scores, and implements the abstract leaderboard.      *)
(***************************************************************************)
EXTENDS RankBoard, RankMgrProofs

\* The constructor establishes the invariant.
LEMMA BoardInitInv == BoardInit => RankInv
<1> SUFFICES ASSUME BoardInit PROVE RankInv
  OBVIOUS
<1>1. PICK Listed \in (SUBSET PlayerIDs) \ {{}} :
        \E record \in [Listed -> [money: Golds, score: Scores]] :
          /\ rankList \in LoadedLists({ItemOf(p, record[p]) : p \in Listed})
          /\ rankCache = EmptyCache
  BY DEF BoardInit
<1>2. PICK record \in [Listed -> [money: Golds, score: Scores]] :
        /\ rankList \in LoadedLists({ItemOf(p, record[p]) : p \in Listed})
        /\ rankCache = EmptyCache
  BY <1>1
<1> DEFINE items == {ItemOf(p, record[p]) : p \in Listed}
<1>3. items \subseteq RankItem
  <2>1. ASSUME NEW p \in Listed
        PROVE  p \in PlayerIDs /\ record[p].money \in Int /\ record[p].score \in Int
    <3>1. record[p] \in [money: Golds, score: Scores]
      OBVIOUS
    <3> QED
      BY <3>1, BoardAssumption
  <2> QED
    BY <2>1 DEF ItemOf, RankItem
<1>4. \A x, y \in items : x.pid = y.pid => x = y
  BY DEF ItemOf
<1> QED
  BY <1>2, <1>3, <1>4, BoardAssumption, LoadedRankInv

\* Reports and requests preserve it.
LEMMA BoardNextInv == RankInv /\ [BoardNext]_rankVars => RankInv'
<1> SUFFICES ASSUME RankInv, [BoardNext]_rankVars PROVE RankInv'
  OBVIOUS
<1>1. ASSUME NEW item \in [pid: PlayerIDs, gold: Golds, score: Scores], RankUpdate(item)
      PROVE  RankInv'
  <2>1. item \in RankItem
    BY BoardAssumption DEF RankItem
  <2> QED
    BY <1>1, <2>1, RankUpdateInv
<1>2. ASSUME NEW page \in Pages, NEW p \in PlayerIDs, RankRequest(page, p)
      PROVE  RankInv'
  BY <1>2, RankRequestInv
<1>3. CASE UNCHANGED rankVars
  BY <1>3 DEF rankVars, RankInv, RankTypeOK, RankSorted, RankUnique, CacheFresh
<1> QED
  BY <1>1, <1>2, <1>3 DEF BoardNext

\* The variables of the leaderboard keep their types.
THEOREM BoardType == BoardSpec => []RankTypeOK
<1>1. RankInv => RankTypeOK
  BY DEF RankInv
<1> QED
  BY <1>1, BoardInitInv, BoardNextInv, PTL DEF BoardSpec

\* The list is ordered by score for ever, although only the constructor sorts.
THEOREM BoardSorted == BoardSpec => []RankSorted
<1>1. RankInv => RankSorted
  BY DEF RankInv
<1> QED
  BY <1>1, BoardInitInv, BoardNextInv, PTL DEF BoardSpec

\* No player is listed twice.
THEOREM BoardUnique == BoardSpec => []RankUnique
<1>1. RankInv => RankUnique
  BY DEF RankInv
<1> QED
  BY <1>1, BoardInitInv, BoardNextInv, PTL DEF BoardSpec

\* On every page and for every player, the rank and the rows of a reply agree,
\* although the one comes from the list and the others from the cache.
THEOREM BoardPageAgrees == BoardSpec => []PageAgrees
<1> QED
  BY PagesAgree, BoardInitInv, BoardNextInv, PTL DEF BoardSpec

\* The cache never serves a page that differs from the list.
THEOREM BoardCacheFresh == BoardSpec => []CacheFresh
<1>1. RankInv => CacheFresh
  BY DEF RankInv
<1> QED
  BY <1>1, BoardInitInv, BoardNextInv, PTL DEF BoardSpec

-----------------------------------------------------------------------------
(* The leaderboard implements the abstract one.                            *)

\* The leaderboard implements Leaderboard: the players are fixed once and for
\* all, and the only score that ever changes is that of the reported player,
\* upwards and to the reported score.
THEOREM BoardImplementsLeaderboard == BoardSpec => ImplementsLeaderboard
<1>1. BoardInit => Board!Init
  <2> SUFFICES ASSUME BoardInit PROVE Board!Init
    OBVIOUS
  <2>1. PICK Listed \in (SUBSET PlayerIDs) \ {{}} :
          \E record \in [Listed -> [money: Golds, score: Scores]] :
            /\ rankList \in LoadedLists({ItemOf(p, record[p]) : p \in Listed})
            /\ rankCache = EmptyCache
    BY DEF BoardInit
  <2>2. PICK record \in [Listed -> [money: Golds, score: Scores]] :
          rankList \in LoadedLists({ItemOf(p, record[p]) : p \in Listed})
    BY <2>1
  <2>3. \A i \in DOMAIN rankList : \E p \in Listed : rankList[i] = ItemOf(p, record[p])
    BY <2>2 DEF LoadedLists
  <2>4. \A i \in DOMAIN rankList :
          rankList[i].pid \in PlayerIDs /\ rankList[i].score \in Scores
    BY <2>3 DEF ItemOf
  <2>5. rankList \in Seq(RankItem)
    BY BoardInitInv DEF RankInv, RankTypeOK
  <2>6. ASSUME NEW p \in DOMAIN ScoresOf(rankList)
        PROVE  p \in PlayerIDs /\ ScoresOf(rankList)[p] \in Scores
    <3>1. PICK i \in 1 .. Len(rankList) : rankList[i].pid = p
      BY <2>5, ScoresOfDomain
    <3>2. DOMAIN rankList = 1 .. Len(rankList)
      BY <2>5, LenProperties
    <3>3. ScoresOf(rankList)[p] = rankList[i].score
      BY <2>5, <3>1, ScoresOfItems, BoardInitInv DEF RankInv, RankUnique
    <3> QED
      BY <2>4, <3>1, <3>2, <3>3
  <2>7. ScoresOf(rankList)
          = [p \in DOMAIN ScoresOf(rankList) |-> ScoresOf(rankList)[p]]
    BY DEF ScoresOf
  <2> QED
    BY <2>6, <2>7 DEF Board!Init
<1>2. RankInv /\ [BoardNext]_rankVars => [Board!Next]_(ScoresOf(rankList))
  <2> SUFFICES ASSUME RankInv, [BoardNext]_rankVars
               PROVE  Board!Next \/ ScoresOf(rankList') = ScoresOf(rankList)
    OBVIOUS
  <2>1. ASSUME NEW item \in [pid: PlayerIDs, gold: Golds, score: Scores], RankUpdate(item)
        PROVE  Board!Next \/ ScoresOf(rankList') = ScoresOf(rankList)
    <3>1. item \in RankItem /\ item.score \in Scores
      BY BoardAssumption DEF RankItem
    <3>2. CASE ScoresOf(Updated(rankList, item)) = ScoresOf(rankList)
      BY <2>1, <3>2 DEF RankUpdate
    <3>3. CASE /\ item.pid \in DOMAIN ScoresOf(rankList)
               /\ item.score > ScoresOf(rankList)[item.pid]
               /\ ScoresOf(Updated(rankList, item))
                    = [ScoresOf(rankList) EXCEPT ![item.pid] = item.score]
      <4>1. Board!Improve(item.pid, item.score)
        BY <2>1, <3>3 DEF RankUpdate, Board!Improve
      <4> QED
        BY <3>1, <3>3, <4>1 DEF Board!Next
    <3> QED
      BY <3>1, <3>2, <3>3, UpdateImproves DEF RankInv, RankTypeOK, RankSorted, RankUnique
  <2>2. CASE UNCHANGED rankList
    BY <2>2
  <2> QED
    BY <2>1, <2>2 DEF BoardNext, RankRequest, rankVars
<1> QED
  BY <1>1, <1>2, BoardInitInv, BoardNextInv, PTL DEF BoardSpec, ImplementsLeaderboard, Board!Spec

-----------------------------------------------------------------------------
(* Who is ahead of whom.                                                   *)

\* An update lets only the player whose score it raises overtake anybody.
LEMMA UpdateKeepsOrder ==
  ASSUME NEW list \in Seq(RankItem), Descending(list), UniquePlayers(list),
         NEW item \in RankItem,
         NEW new, new = Updated(list, item),
         NEW i \in 1 .. Len(list), NEW j \in 1 .. Len(list), i < j,
         new[Position(new, list[j].pid)].score = list[j].score
  PROVE  Position(new, list[i].pid) < Position(new, list[j].pid)
<1>1. Len(list) \in Nat
  BY LenProperties
<1>2. CASE new = list
  BY <1>2, PositionUnique
<1>3. CASE new # list
  <2>1. /\ Position(list, item.pid) # 0
        /\ item.score > list[Position(list, item.pid)].score
    BY <1>3, NotUpdated
  <2>2. PICK from \in 1 .. Len(list), to \in 1 .. Len(list) :
          /\ from = Position(list, item.pid)
          /\ to <= from
          /\ Updated(list, item) \in Seq(RankItem)
          /\ Len(Updated(list, item)) = Len(list)
          /\ \A k \in 1 .. Len(list) :
               Updated(list, item)[k] =
                 IF k = to THEN item
                 ELSE IF to < k /\ k <= from THEN list[k - 1] ELSE list[k]
          /\ \A k \in 1 .. to - 1 : list[k].score >= item.score
          /\ list[to].score < item.score
    BY <2>1, UpdatedProperties
  <2>11. /\ new \in Seq(RankItem)
         /\ Len(new) = Len(list)
         /\ \A k \in 1 .. Len(list) :
              new[k] = IF k = to THEN item
                       ELSE IF to < k /\ k <= from THEN list[k - 1] ELSE list[k]
    BY <2>2
  <2>3. UniquePlayers(new)
    BY UpdatedUnique
  <2>4. \A k \in 1 .. Len(list) : Position(new, new[k].pid) = k
    BY <2>3, <2>11, PositionUnique
  <2>5. list[from].pid = item.pid
    BY <2>1, <2>2, PositionProperties
  <2>6. new[to] = item /\ Position(new, item.pid) = to
    BY <2>4, <2>11
  <2> DEFINE At(k) == IF to <= k /\ k < from THEN k + 1 ELSE k
  <2>7. \A k \in 1 .. Len(list) : k # from => Position(new, list[k].pid) = At(k)
    <3> SUFFICES ASSUME NEW k \in 1 .. Len(list), k # from
                 PROVE  Position(new, list[k].pid) = At(k)
      OBVIOUS
    <3>1. At(k) \in 1 .. Len(list) /\ new[At(k)] = list[k]
      BY <1>1, <2>2, <2>11
    <3> HIDE DEF At
    <3> QED
      BY <2>4, <3>1
  <2>8. j # from
    BY <2>1, <2>2, <2>5, <2>6, ItemTypes
  <2>9. CASE i = from
    BY <1>1, <2>2, <2>5, <2>6, <2>7, <2>8, <2>9
  <2>10. CASE i # from
    BY <1>1, <2>2, <2>7, <2>8, <2>10
  <2> QED
    BY <2>9, <2>10
<1> QED
  BY <1>2, <1>3

\* Whoever is ahead of a player stays ahead of him until his score is raised.
THEOREM BoardKeepsOrder == BoardSpec => OthersKeepOrder
<1> DEFINE Ahead ==
      \A i, j \in DOMAIN rankList :
        /\ i < j
        /\ rankList'[Position(rankList', rankList[j].pid)].score = rankList[j].score
        => Position(rankList', rankList[i].pid) < Position(rankList', rankList[j].pid)
<1>1. RankInv /\ [BoardNext]_rankVars => [Ahead]_rankVars
  <2> SUFFICES ASSUME RankInv, BoardNext PROVE Ahead
    OBVIOUS
  <2>1. rankList \in Seq(RankItem) /\ Descending(rankList) /\ UniquePlayers(rankList)
    BY DEF RankInv, RankTypeOK, RankSorted, RankUnique
  <2>2. DOMAIN rankList = 1 .. Len(rankList)
    BY <2>1, LenProperties
  <2>3. ASSUME NEW item \in [pid: PlayerIDs, gold: Golds, score: Scores], RankUpdate(item)
        PROVE  Ahead
    <3>1. item \in RankItem
      BY BoardAssumption DEF RankItem
    <3> QED
      BY <2>1, <2>2, <2>3, <3>1, UpdateKeepsOrder DEF RankUpdate
  <2>4. CASE rankList' = rankList
    BY <2>1, <2>2, <2>4, PositionUnique
  <2> QED
    BY <2>3, <2>4 DEF BoardNext, RankRequest
<1> QED
  BY <1>1, BoardInitInv, BoardNextInv, PTL DEF BoardSpec, OthersKeepOrder

=============================================================================
