----------------------------- MODULE FailingAccept -----------------------------
(***************************************************************************)
(* The failure path of on_new_connection (utils/utils.cpp): when uv_accept *)
(* or OnNewClient fails, the handle is closed without a callback and freed *)
(* at once. Everything else is as in Connections.                          *)
(***************************************************************************)
EXTENDS Connections

VARIABLE listed   \* the handles in the list of those libuv has yet to close

acceptVars == <<vars, listed>>

FailingInit == Init /\ listed = {}

\* on_new_connection up to its end: client is freed, and libuv has it listed.
AcceptFails(c) ==
  /\ running = NoClient
  /\ handle[c] = "free"
  /\ listed' = listed \cup {c}
  /\ UNCHANGED vars

\* libuv comes to a handle that nobody has to be called for.
Unlisted(c) ==
  /\ running = NoClient
  /\ c \in listed /\ handle[c] # "closing"
  /\ listed' = listed \ {c}
  /\ UNCHANGED vars

\* What the other callbacks do; on_close is called for a listed handle.
Others ==
  /\ Next
  /\ listed' = (listed \ {c \in Clients : handle[c] = "closing" /\ handle'[c] = "free"})
                 \cup {c \in Clients : handle'[c] = "closing"}

FailingNext == Others \/ \E c \in Clients : AcceptFails(c) \/ Unlisted(c)

FailingSpec == FailingInit /\ [][FailingNext]_acceptVars

\* handle.rst:146 of libuv says that the memory of a handle can only be released
\* in its close callback or after it has returned: what libuv has yet to close
\* is allocated, and as the handle that was closed.
ReleasedAfterClose == \A c \in listed : handle[c] = "closing"

=============================================================================
