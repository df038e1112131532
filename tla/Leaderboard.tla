----------------------------- MODULE Leaderboard -----------------------------
(***************************************************************************)
(* What a leaderboard promises, without lists, positions or pages: a fixed *)
(* set of players and, for each of them, the best score reported so far.   *)
(* RankBoard implements it.                                                *)
(***************************************************************************)
EXTENDS Integers

CONSTANTS Players, PossibleScores

VARIABLE best   \* the best score of every listed player

Init == \E Listed \in SUBSET Players : best \in [Listed -> PossibleScores]

Improve(p, score) ==
  /\ score > best[p]
  /\ best' = [best EXCEPT ![p] = score]

Next == \E p \in DOMAIN best, score \in PossibleScores : Improve(p, score)

Spec == Init /\ [][Next]_best

=============================================================================
