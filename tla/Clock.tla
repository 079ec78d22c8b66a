------------------------------- MODULE Clock -------------------------------
(***************************************************************************)
(* TimeProvider.GetUtcNow, which the sign-in, the sessions and the hub     *)
(* read: instants are numbered, and the clock is taken not to go back.     *)
(***************************************************************************)
EXTENDS Integers

CONSTANT MaxClock   \* bound: the last instant

ASSUME ClockAssumption == MaxClock \in Nat

VARIABLE clock

Instants == 0..MaxClock
=============================================================================
