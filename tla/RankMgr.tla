------------------------------- MODULE RankMgr -------------------------------
(***************************************************************************)
(* The leaderboard of server_demo/level/RankMgr.cpp: one list of rank      *)
(* items, best score first, and a cache of the pages already sent.         *)
(*                                                                         *)
(* An item carries the player's ID, gold and score; the display name never *)
(* influences anything the leaderboard does and is left out.               *)
(***************************************************************************)
EXTENDS Integers, Sequences, SequencesExt, FiniteSets, Identities

CONSTANTS
  PlayerPerPage,  \* __player_per_page, 10 in the code
  Pages,          \* the page numbers clients ask for
  IntValues,      \* how many values an int has, 2^32 in the code
  NoPage          \* marks a page that is not in the cache

VARIABLES
  rankList,   \* __rank_list
  rankCache   \* __rank_rsp_pb_cache

rankVars == <<rankList, rankCache>>

RankItem == [pid: PlayerIDs, gold: Int, score: Int]

RankRow  == [pid: PlayerIDs, gold: Int, score: Int, rank: Nat]

CachedPage == [code: {"OK", "SERVER_ERROR"}, items: Seq(RankRow)]

ASSUME RankAssumption ==
  /\ PlayerPerPage \in Nat \ {0}
  /\ Pages \subseteq Int
  /\ IntValues \in Nat \ {0}
  /\ NoPage \notin CachedPage

-----------------------------------------------------------------------------
(* The list.                                                               *)

\* Where the scans of update and get_rank_pb_string stop: the first item of
\* player p, 0 when they reach the end.
Position(list, p) ==
  LET I == {i \in DOMAIN list : list[i].pid = p}
  IN  IF I = {} THEN 0 ELSE CHOOSE i \in I : \A j \in I : i <= j

\* Mutation of Place: the second scan stops at the first better item.
PlaceBeforeBetter(list, score) ==
  LET I == {i \in DOMAIN list : list[i].score > score}
  IN  IF I = {} THEN Len(list) + 1 ELSE CHOOSE i \in I : \A j \in I : i <= j

\* The place an item with this score is inserted at: before the first item
\* with a lower score, at the end when there is none.
Place(list, score) ==
  LET I == {i \in DOMAIN list : list[i].score < score}
  IN  IF I = {} THEN Len(list) + 1 ELSE CHOOSE i \in I : \A j \in I : i <= j

\* Mutations of Updated: the old item is not erased; a lower score is taken.
UpdatedNotErased(list, item) ==
  LET i == Position(list, item.pid)
  IN  IF i # 0 /\ item.score > list[i].score
      THEN InsertAt(list, Place(list, item.score), item)
      ELSE list

UpdatedAlways(list, item) ==
  LET i    == Position(list, item.pid)
      rest == RemoveAt(list, i)
  IN  IF i # 0 THEN InsertAt(rest, Place(rest, item.score), item) ELSE list

\* The list after update(item): only a better score of a listed player moves.
Updated(list, item) ==
  LET i    == Position(list, item.pid)
      rest == RemoveAt(list, i)
  IN  IF i # 0 /\ item.score > list[i].score
      THEN InsertAt(rest, Place(rest, item.score), item)
      ELSE list

\* page * __player_per_page, as the int it is computed in.
PageBegin(page) ==
  LET product == (page * PlayerPerPage) % IntValues
  IN  IF 2 * product < IntValues THEN product ELSE product - IntValues

\* Mutation of PageRows: a row carries its rank within the page.
PageRowsLocalRank(list, page) ==
  LET from == PageBegin(page)
      left == Len(list) - from
  IN  IF from < 0 \/ left < 0
      THEN << >>
      ELSE [k \in 1 .. (IF left < PlayerPerPage THEN left ELSE PlayerPerPage) |->
              [pid   |-> list[from + k].pid,
               gold  |-> list[from + k].gold,
               score |-> list[from + k].score,
               rank  |-> k - 1]]

\* The rows of a page. The comparison is unsigned, so a page that begins at a
\* negative product lies behind the end of the list; a page whose product
\* overflows to a place in the list shows what is there.
PageRows(list, page) ==
  LET from == PageBegin(page)
      left == Len(list) - from
  IN  IF from < 0 \/ left < 0
      THEN << >>
      ELSE [k \in 1 .. (IF left < PlayerPerPage THEN left ELSE PlayerPerPage) |->
              [pid   |-> list[from + k].pid,
               gold  |-> list[from + k].gold,
               score |-> list[from + k].score,
               rank  |-> from + k - 1]]

\* Best score first; std::sort leaves the order of equal scores open.
Descending(list) ==
  \A i, j \in DOMAIN list : i < j => list[i].score >= list[j].score

UniquePlayers(list) ==
  \A i, j \in DOMAIN list : list[i].pid = list[j].pid => i = j

\* __get_rank_item_by_playerId: the ID is the file's name, not the stored one.
ItemOf(p, record) == [pid |-> p, gold |-> record.money, score |-> record.score]

\* The lists the constructor may build from the given items, one per player.
LoadedLists(items) ==
  {list \in [1 .. Cardinality(items) -> items] :
      IsInjective(list) /\ Descending(list)}

-----------------------------------------------------------------------------
(* The operations.                                                         *)

EmptyCache == [page \in Pages |-> NoPage]

\* Mutations of RankUpdate: the cache is kept; only its first page is dropped;
\* the list is sorted again, in any order of equal scores.
RankUpdateKeepsCache(item) ==
  /\ rankList' = Updated(rankList, item)
  /\ UNCHANGED rankCache

RankUpdateFirstPage(item) ==
  /\ rankList' = Updated(rankList, item)
  /\ rankCache' = [page \in Pages |-> IF page = 0 THEN NoPage ELSE rankCache[page]]

RankUpdateResorts(item) ==
  /\ LET list == Updated(rankList, item)
     IN  rankList' \in LoadedLists({list[i] : i \in DOMAIN list})
  /\ rankCache' = EmptyCache

\* update: the cache is dropped even when the list stays as it is.
RankUpdate(item) ==
  /\ rankList' = Updated(rankList, item)
  /\ rankCache' = EmptyCache

\* The page get_rank_pb_string finds in the cache or generates.
PageFor(page) ==
  IF rankCache[page] = NoPage
  THEN PageRows(rankList, page)
  ELSE rankCache[page].items

\* What get_rank_pb_string serialises for the player: the page, and the
\* player's own rank computed from the list itself (-1 when not listed).
RankReply(page, p) ==
  [page  |-> page,
   pid   |-> p,
   code  |-> IF Position(rankList, p) = 0 THEN "SERVER_ERROR" ELSE "OK",
   items |-> PageFor(page),
   rank  |-> Position(rankList, p) - 1]

\* Mutation of RankRequest: the whole reply stays in the cache.
RankRequestKeepsReply(page, p) ==
  /\ rankCache' = [rankCache EXCEPT ![page] = RankReply(page, p)]
  /\ UNCHANGED rankList

\* get_rank_pb_string: the result code it sets stays in the cached page, the
\* player's own row is taken out again before it returns.
RankRequest(page, p) ==
  /\ rankCache' = [rankCache EXCEPT ![page] =
                     [code  |-> RankReply(page, p).code,
                      items |-> RankReply(page, p).items]]
  /\ UNCHANGED rankList

-----------------------------------------------------------------------------
(* What the leaderboard owes its readers.                                  *)

\* The score each listed player is ranked with.
ScoresOf(list) ==
  [p \in {list[i].pid : i \in DOMAIN list} |-> list[Position(list, p)].score]

\* Whatever is erased, inserted and cached, the list holds items and every
\* cached page rows, each at an index that exists.
RankTypeOK ==
  /\ rankList \in Seq(RankItem)
  /\ rankCache \in [Pages -> CachedPage \cup {NoPage}]

\* Every insertion of update finds the right place: the list is ordered by
\* score at all times although only the constructor sorts it.
RankSorted == Descending(rankList)

\* An update moves a player's item and never duplicates it.
RankUnique == UniquePlayers(rankList)

\* A page served from __rank_rsp_pb_cache is the page the list holds now.
CacheFresh ==
  \A page \in Pages :
    rankCache[page] # NoPage => rankCache[page].items = PageRows(rankList, page)

\* The two halves of a reply of get_rank_pb_string come from different places,
\* the page from the cache and the player's own rank from the list, and agree:
\* a player is on a page at most once and with that rank, on whatever page,
\* and he is on it exactly when the rank lies on it, unless the number of the
\* page is so large that its begin overflows.
PageAgrees ==
  \A page \in Pages, p \in PlayerIDs :
    LET reply == RankReply(page, p)
        rows  == {k \in DOMAIN reply.items : reply.items[k].pid = p}
        lies  == reply.code = "OK" /\ reply.rank \div PlayerPerPage = page
    IN  /\ \A k \in rows : rows = {k} /\ reply.items[k].rank = reply.rank
        /\ PageBegin(page) = page * PlayerPerPage => (rows # {} <=> lies)

=============================================================================
