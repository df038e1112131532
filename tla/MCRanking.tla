------------------------------ MODULE MCRanking ------------------------------
(* The leaderboard inside the server: two players settle games, log in      *)
(* again with a score of 0, ask for the second page of one row, restart.    *)
EXTENDS GameServer, TLC

CONSTANTS p1, p2

MCInitialFiles ==
  {[p \in PlayerIDs |->
      IF p = p1 THEN [pid |-> p1, money |-> 0, score |-> 300, text |-> 200] ELSE second] :
     second \in {NoFile, [pid |-> p2, money |-> 0, score |-> 100, text |-> 200]}}

\* No property tells the two addresses apart.
ClientSymmetry == Permutations(Clients)

=============================================================================
