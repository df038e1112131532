----------------------------- MODULE Identities -----------------------------
(***************************************************************************)
(* The names every part of the server shares: connections and players.     *)
(***************************************************************************)

CONSTANTS
  Clients,    \* the addresses uv_tcp_t handles are allocated at
  PlayerIDs   \* every player ID that may occur in a request or a file

=============================================================================
