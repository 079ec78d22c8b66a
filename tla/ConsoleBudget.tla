---------------------------- MODULE ConsoleBudget ----------------------------
(* What bounds the behaviour of the parts of a page: the number of things  *)
(* its user does, and of requests that fail.                               *)
EXTENDS Integers

CONSTANTS
    MaxClicks,     \* bound: what the user does
    MaxLosses      \* bound: requests that fail

VARIABLES clicks, losses

BudgetTypeOK == clicks \in 0..MaxClicks /\ losses \in 0..MaxLosses
BudgetInit == clicks = 0 /\ losses = 0

Click == clicks < MaxClicks /\ clicks' = clicks + 1 /\ UNCHANGED losses
Loss == losses < MaxLosses /\ losses' = losses + 1 /\ UNCHANGED clicks
Free == UNCHANGED <<clicks, losses>>
=============================================================================
