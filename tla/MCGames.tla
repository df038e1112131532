------------------------------- MODULE MCGames -------------------------------
(* Games of one player over two connections: open, start, upload, suspend,  *)
(* resume and settle, with saves that fail, tear, expire or are not removed.*)
EXTENDS GameServer, TLC

CONSTANTS p1, s1

\* One day and its first seconds, with both sides of MaxLag, and the next day,
\* when a save has expired.
MCClock == {1700000000, 1700000001, 1700000061, 1700060062}

MCInitialFiles == {[p \in PlayerIDs |-> [pid |-> p, money |-> 0, score |-> 0, text |-> 200]]}

\* The bytes behind a save may be the fields of an earlier one of the same
\* process, of another level and with a time that has not expired.
MCStackTail == {[level |-> 2, state |-> s1, spend |-> 1, time |-> 1700060062]}

\* No property tells the two addresses apart.
ClientSymmetry == Permutations(Clients)

=============================================================================
