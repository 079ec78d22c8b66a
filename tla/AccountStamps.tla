--------------------------- MODULE AccountStamps ---------------------------
(***************************************************************************)
(* The persisted security stamps on which every session of the system      *)
(* depends (AccountSecurityStampStore, DataProtectionAccountSecurityStamp- *)
(* Service, AccountPrincipalValidator): one row per account, with the      *)
(* 32-byte stamp and the flags that say whether the account may be used.   *)
(* A principal carries the stamp its account had when it signed in, and is *)
(* valid as long as the row still has that stamp and the account is        *)
(* enabled.                                                                *)
(*                                                                         *)
(* Stamps are numbered: a rotation writes 32 fresh random bytes, which     *)
(* this model takes never to repeat.  Unreadable stands for a principal    *)
(* without exactly one role and one stamp, or whose tenant claim does not  *)
(* fit its role.                                                           *)
(***************************************************************************)
EXTENDS Integers, FiniteSets, Clock

CONSTANTS
    Accounts,     \* the accounts, administrators and clients alike
    Unreadable,   \* the stamp of a principal the validator cannot read
    MaxStamp      \* bound: how many rotations an account may see

ASSUME UnreadableAssumption == Unreadable \notin Int
ASSUME BoundAssumption == MaxStamp \in Nat

VARIABLES
    stamp,        \* admin.users / internal.support_users: security_stamp
    enabled,      \* status IS TRUE and deactive_date IS NULL
    lostAt        \* history: when each stamp of each account lost its validity

accountVars == <<clock, stamp, enabled, lostAt>>

Stamps == 0..MaxStamp
Never == MaxClock + 1

\* The stamps a principal of the account may carry: one it was issued, or none.
Carried(a) == 0..stamp[a] \union {Unreadable}

\* AccountPrincipalValidator.ValidateAsync, on the row it reads.
Valid(a, s) == enabled[a] /\ s = stamp[a]

\* The instant from which a principal of the account was refused.
LostAt(a, s) == IF s = Unreadable THEN 0 ELSE lostAt[a][s]

AccountTypeOK ==
    /\ clock \in Instants
    /\ stamp \in [Accounts -> Stamps]
    /\ enabled \in [Accounts -> BOOLEAN]
    /\ lostAt \in [Accounts -> [Stamps -> Instants \union {Never}]]

AccountInit ==
    /\ clock = 0
    /\ stamp = [a \in Accounts |-> 0]
    /\ enabled = [a \in Accounts |-> TRUE]
    /\ lostAt = [a \in Accounts |-> [s \in Stamps |-> Never]]

\* Time passes.
Tick ==
    /\ clock < MaxClock
    /\ clock' = clock + 1
    /\ UNCHANGED <<stamp, enabled, lostAt>>

\* The account is switched off in the database, behind the program's back.
Disable(a) ==
    /\ enabled[a]
    /\ enabled' = [enabled EXCEPT ![a] = FALSE]
    /\ lostAt' = [lostAt EXCEPT ![a] =
           [s \in Stamps |-> IF s >= stamp[a] THEN clock ELSE lostAt[a][s]]]
    /\ UNCHANGED <<clock, stamp>>

\* UPDATE ... SET security_stamp = @ReplacementStamp, committed.
Replace(a) ==
    /\ stamp[a] < MaxStamp
    /\ stamp' = [stamp EXCEPT ![a] = @ + 1]
    /\ lostAt' = IF enabled[a] THEN [lostAt EXCEPT ![a][stamp[a]] = clock] ELSE lostAt
    /\ UNCHANGED <<clock, enabled>>

\* What the history records: a stamp has lost its validity once it was replaced
\* or its account was switched off, and at no later instant than now.
LossesRecorded ==
    \A a \in Accounts, s \in Stamps :
        /\ lostAt[a][s] = Never <=> enabled[a] /\ s >= stamp[a]
        /\ lostAt[a][s] # Never => lostAt[a][s] <= clock
=============================================================================
