------------------------------- MODULE MCClaims -------------------------------
(* Two players, of whom p2 may be new, and the shipped directory in which a *)
(* second file stores the ID of the first player.                           *)
EXTENDS Claims

CONSTANTS p1, p2

FirstPlayer == [pid |-> p1, money |-> 50, score |-> 300, text |-> 200]

MCInitialFiles ==
  {[p \in PlayerIDs |-> IF p = p1 THEN FirstPlayer ELSE NoFile]}

\* data/zhongjunqiPure:4 stores the PlayerID of data/zhongjunqi.
MCShippedFiles == {[p \in PlayerIDs |-> FirstPlayer]}

=============================================================================
