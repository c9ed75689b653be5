-------------------------- MODULE MCHostConnection --------------------------
(* One host; one worker refreshes, another runs the user's actions and adds *)
(* the host anew.                                                           *)
EXTENDS HostConnection, TLC

CONSTANTS h1, r, u, c1, c2, c3

MCHosts == {h1}
MCWorkers == {r, u}
MCConns == {c1, c2, c3}
MCDuties == r :> {"refresh"} @@ u :> {"action", "add"}
=============================================================================
