------------------------------ MODULE MCSessions ------------------------------
(* Connections, logins and registrations: two addresses, two players, of    *)
(* whom p2 may be new, every failure of save and of uv_write; no games.     *)
EXTENDS GameServer

CONSTANTS p1, p2

MCInitialFiles ==
  {[p \in PlayerIDs |->
      IF p = p1 THEN [pid |-> p1, money |-> 50, score |-> 300, text |-> 200] ELSE second] :
     second \in {NoFile, [pid |-> p2, money |-> 0, score |-> 100, text |-> 200]}}

=============================================================================
