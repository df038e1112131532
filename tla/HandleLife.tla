------------------------------ MODULE HandleLife ------------------------------
(***************************************************************************)
(* The life of the handles of the server, as both its models have it: the  *)
(* memory of a handle is given back only after the handle was closed, and  *)
(* packets of a closing connection are handled only as the rest of the     *)
(* chunk that was being handled when it was closed. Connections implements *)
(* it with the callbacks of libuv, GameServer with its handlers.           *)
(***************************************************************************)
CONSTANTS Clients, NoClient

VARIABLES
  conn,   \* the state of the handle at each address
  chunk   \* the closing connection whose chunk is still being handled

lifeVars == <<conn, chunk>>

Gone == conn = [c \in Clients |-> "free"] /\ chunk = NoClient

Opens(c) ==
  /\ conn[c] = "free"
  /\ conn' = [conn EXCEPT ![c] = "open"]
  /\ chunk' = NoClient

\* The handle is closed, in the middle of its chunk or at its end.
Closes(c) ==
  /\ conn[c] = "open"
  /\ conn' = [conn EXCEPT ![c] = "closing"]
  /\ chunk' \in {c, NoClient}

ChunkEnds == chunk' = NoClient /\ conn' = conn

Freed(c) ==
  /\ conn[c] = "closing"
  /\ conn' = [conn EXCEPT ![c] = "free"]
  /\ chunk' = NoClient

Next ==
  \/ \E c \in Clients : Opens(c) \/ Closes(c) \/ Freed(c)
  \/ ChunkEnds
  \/ Gone'

Spec == Gone /\ [][Next]_lifeVars

=============================================================================
