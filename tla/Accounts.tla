------------------------------- MODULE Accounts -------------------------------
(***************************************************************************)
(* What the server promises about the money of its players, without        *)
(* connections, games, clocks and files: an account exists while its       *)
(* player is logged in, and money enters it only for a game that is owed.  *)
(* GameServer implements it.                                               *)
(***************************************************************************)
EXTENDS Integers

CONSTANTS
  PlayerIDs,
  NoAccount,   \* the player is not logged in
  Openings,    \* what an account may begin with
  Payments     \* what a game may be paid

VARIABLES
  account,  \* the money of each player who is logged in
  owed      \* the player has a game that was not paid yet

accountVars == <<account, owed>>

Init ==
  /\ account = [p \in PlayerIDs |-> NoAccount]
  /\ owed = [p \in PlayerIDs |-> FALSE]

OpenGame(p) == owed' = [owed EXCEPT ![p] = TRUE] /\ UNCHANGED account

Enter(p) ==
  /\ account[p] = NoAccount
  /\ \E money \in Openings : account' = [account EXCEPT ![p] = money]
  /\ UNCHANGED owed

\* The game is not owed any more, unless what it could be resumed from
\* could not be removed.
Pay(p) ==
  /\ account[p] # NoAccount
  /\ owed[p]
  /\ \E payment \in Payments : account' = [account EXCEPT ![p] = @ + payment]
  /\ \E still \in BOOLEAN : owed' = [owed EXCEPT ![p] = still]

\* A settlement that is refused.
Discard(p) == owed' = [owed EXCEPT ![p] = FALSE] /\ UNCHANGED account

Leave(p) == account' = [account EXCEPT ![p] = NoAccount] /\ UNCHANGED owed

\* The process ends: what was owed still is, if it was saved.
Crash == account' = [p \in PlayerIDs |-> NoAccount] /\ UNCHANGED owed

Next ==
  \/ \E p \in PlayerIDs :
       OpenGame(p) \/ Enter(p) \/ Pay(p) \/ Discard(p) \/ Leave(p)
  \/ Crash

Spec == Init /\ [][Next]_accountVars

=============================================================================
