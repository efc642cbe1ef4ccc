------------------------------ MODULE MCHandoff ------------------------------
(***************************************************************************)
(* Handoff on two clients that can hold the same token: two launches, two  *)
(* or three attempts for each command, one or two events in a session.     *)
(***************************************************************************)
EXTENDS Handoff, TLC

CONSTANTS c1, c2

MCClients == {c1, c2}

=============================================================================
