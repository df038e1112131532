-------------------------------- MODULE Claims --------------------------------
(***************************************************************************)
(* What comments of the code say of the server and the code does not keep. *)
(* Each claim is the property of a run that violates it.                   *)
(***************************************************************************)
EXTENDS GameServer

\* RankMgr.h:31 says of __rank_list that it is kept consistent at all times
\* and holds all players, also those who have not played yet.
EveryPlayerRanked ==
  up => \A p \in PlayerIDs :
          playerFile[p] \notin NoRecords => Position(rankList, p) # 0

\* player.cpp:144 says of an accepted login that the player object is put
\* under the management of m_playerMap.
LoginManaged ==
  [][\A c \in Clients :
       reply' # << >> /\ reply'[1] = Answer(c, "LOGIN", "OK")
       => playerMap[c] = NoPlayer /\ playerMap'[c] # NoPlayer]_vars

\* level.cpp:277 calls the score of a player object the highest score, and
\* player.cpp:117 says that a login reads the player's data from his file: the
\* highest score a file holds is never replaced by a lower one.
HighestScoreKept ==
  [][\A p \in PlayerIDs :
       playerFile[p] \notin NoRecords /\ playerFile'[p] \notin NoRecords
       => playerFile'[p].score >= playerFile[p].score]_vars

=============================================================================
