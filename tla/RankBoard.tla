------------------------------ MODULE RankBoard ------------------------------
(***************************************************************************)
(* The leaderboard alone: it is built from a set of player files, then any *)
(* score is reported for anybody, listed or not, and any player asks for   *)
(* any page.                                                               *)
(***************************************************************************)
EXTENDS RankMgr

CONSTANTS Scores, Golds   \* the scores and the gold that occur

ASSUME BoardAssumption ==
  IsFiniteSet(PlayerIDs) /\ Scores \subseteq Int /\ Golds \subseteq Int

\* The constructor, run on the files of the players in Listed.
BoardInit ==
  \E Listed \in (SUBSET PlayerIDs) \ {{}} :
    \E record \in [Listed -> [money: Golds, score: Scores]] :
      /\ rankList \in LoadedLists({ItemOf(p, record[p]) : p \in Listed})
      /\ rankCache = EmptyCache

BoardNext ==
  \/ \E item \in [pid: PlayerIDs, gold: Golds, score: Scores] : RankUpdate(item)
  \/ \E page \in Pages, p \in PlayerIDs : RankRequest(page, p)

BoardSpec == BoardInit /\ [][BoardNext]_rankVars

Board == INSTANCE Leaderboard
           WITH Players <- PlayerIDs, PossibleScores <- Scores, best <- ScoresOf(rankList)

\* update, with its scan, erase and insert, implements the abstract
\* leaderboard: nobody enters or leaves, and the only score that changes is
\* that of the reported player, upwards and to the reported score.
ImplementsLeaderboard == Board!Spec

\* Only the player whose score update raises overtakes anybody: whoever is
\* ahead of a player stays ahead of him as long as his score is the same, also
\* when the two scores are equal.
OthersKeepOrder ==
  [][\A i, j \in DOMAIN rankList :
       /\ i < j
       /\ rankList'[Position(rankList', rankList[j].pid)].score = rankList[j].score
       => Position(rankList', rankList[i].pid) < Position(rankList', rankList[j].pid)
    ]_rankVars

=============================================================================
