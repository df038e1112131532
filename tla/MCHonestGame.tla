----------------------------- MODULE MCHonestGame -----------------------------
(* One player whose connection breaks ten seconds into a game, and two       *)
(* levels with a state each. The last instant is beyond the life of a save.  *)
EXTENDS HonestGame, TLC

CONSTANTS p1, s1, s2

MCLevelOf == s1 :> 1 @@ s2 :> 2

MCClock == {1700000000, 1700000010}

MCLongClock == MCClock \cup {1700060011}

MCInitialFiles == {[p \in PlayerIDs |-> [pid |-> p, money |-> 0, score |-> 0, text |-> 200]]}

=============================================================================
