-------------------------- MODULE MCHubRevocation --------------------------
(* HubRevocation on a small instance: who owns which connection. *)
EXTENDS HubRevocation

CONSTANTS a1, a2, c1, c2

\* c2 belongs to the second account when there is one.
MCOwner == [c \in Connections |-> IF c = c2 /\ a2 \in Accounts THEN a2 ELSE a1]
=============================================================================
