------------------------------ MODULE MCSignIn ------------------------------
(***************************************************************************)
(* How one gets in and for how long, on a small instance: attempts at a    *)
(* password (LoginThrottle) and the tickets they earn (SessionRevalidation)*)
(* share only the clock, and a behaviour has one of them do something: the *)
(* states of the run are the sum of theirs.  All pairs share one source.   *)
(***************************************************************************)
EXTENDS LoginThrottle, SessionRevalidation, TLC

CONSTANTS
    s1,
    LastValidation   \* bound: the last instant of the half that is about tickets

VARIABLE half

MCSourceOf == [p \in Pairs |-> s1]

SignInInit ==
    /\ half \in {"passwords", "tickets"}
    /\ ThrottleInit /\ Init

SignInNext ==
    /\ UNCHANGED half
    /\ \/ /\ half = "passwords" /\ ThrottleNext
          /\ UNCHANGED <<stamp, enabled, lostAt, tickets, requestVars>>
       \/ /\ half = "tickets" /\ Next /\ clock' <= LastValidation
          /\ UNCHANGED <<source, account, operations, attemptVars, history>>

SignInSpec == SignInInit /\ [][SignInNext]_<<throttleVars, vars, half>>

SignInSymmetry ==
    Permutations(Attempts) \union Permutations(Pairs) \union Permutations(Requests)
=============================================================================
