------------------------- MODULE AttachmentQuotas -------------------------
(***************************************************************************)
(* The quotas of CreateIntentAsync, on top of AttachmentLifecycle: how     *)
(* many attachments a user may have in no message, how much a user may     *)
(* declare within 24 hours, how much a tenant may have stored.             *)
(*                                                                         *)
(* The attachments are those of one tenant.  An intent's transaction takes *)
(* the tenant's advisory lock, reads the totals and inserts the row; the   *)
(* rows it counted go on changing meanwhile, under workers and requests    *)
(* that do not take the lock.  created_at is stamped before the lock is    *)
(* waited for, so rows need not be inserted in the order of their          *)
(* instants.  What a row reserves is raised by a trigger whenever its      *)
(* actual_size grows, and given back when its deletion is finalized.       *)
(***************************************************************************)
EXTENDS AttachmentLifecycle

CONSTANTS
    Users,          \* of the tenant, and admins
    Uploader,       \* the user who asks for each attachment
    Declared,       \* declared_size of each
    CreatedAt,      \* created_at of each
    Recoded,        \* size of the canonical form of each content not in Verbatim
    UnboundLimit,   \* MaximumConcurrentUnboundPerUser
    DailyLimit,     \* MaximumUserBytesPerRollingDay
    TenantLimit,    \* active_storage_limit_bytes
    Day             \* 24 hours

ASSUME QuotaAssumption ==
    /\ Uploader \in [Attachments -> Users]
    /\ Declared \in [Attachments -> Nat \ {0}]
    /\ CreatedAt \in [Attachments -> Nat]
    /\ Recoded \in [Contents -> Nat \ {0}]
    /\ UnboundLimit \in Nat /\ DailyLimit \in Nat /\ TenantLimit \in Nat
    /\ Day \in Nat

VARIABLES
    actualSize,     \* actual_size, 0 for NULL
    reservation,    \* reservation_bytes
    admitted        \* intents that passed the checks and are not inserted yet

quotaVars == <<vars, actualSize, reservation, admitted>>

QuotaTypeOK ==
    /\ actualSize \in [Attachments -> Nat]
    /\ reservation \in [Attachments -> Nat]
    /\ admitted \subseteq Attachments

QuotaInit ==
    /\ Init
    /\ actualSize = [a \in Attachments |-> 0]
    /\ reservation = [a \in Attachments |-> 0]
    /\ admitted = {}

----------------------------------------------------------------------------
(* What the quota query counts. *)

(* sum(size) over A: the number of bytes in it. *)
Bytes(A, size) == UNION {{a} \X (1 .. size[a]) : a \in A}
Total(A, size) == Cardinality(Bytes(A, size))

UnboundStates == InProgress \cup {"PendingUpload", "Ready"}
ActiveStates == UnboundStates \cup {"DeletePending"}

Created == {a \in Attachments : state[a] # "Absent"}

(* Mutant: what is about to be deleted no longer counts. *)
ActiveUnlessDeleting == {a \in Attachments : state[a] \in UnboundStates}

Active == {a \in Attachments : state[a] \in ActiveStates}

Unbound(u) ==
    {a \in Attachments : Uploader[a] = u /\ state[a] \in UnboundStates /\ ~bound[a]}

(* Mutant: only what was created by now. *)
RecentByNow(u, now) ==
    {a \in Created : Uploader[a] = u /\ CreatedAt[a] >= now - Day /\ CreatedAt[a] <= now}

(* created_at >= @RollingStart, whatever became of the row. *)
Recent(u, now) == {a \in Created : Uploader[a] = u /\ CreatedAt[a] >= now - Day}

WithinQuotas(a) ==
    /\ Cardinality(Unbound(Uploader[a])) < UnboundLimit
    /\ Total(Recent(Uploader[a], CreatedAt[a]), Declared) + Declared[a] <= DailyLimit
    /\ Total(Active, reservation) + Declared[a] <= TenantLimit

----------------------------------------------------------------------------
(* Mutant: no advisory lock. *)
NoLock == TRUE

(* pg_advisory_xact_lock on the tenant. *)
LockIsFree == admitted = {}

CheckQuotas(a) ==
    /\ LockIsFree
    /\ state[a] = "Absent" /\ a \notin admitted
    /\ WithinQuotas(a)
    /\ admitted' = admitted \cup {a}
    /\ UNCHANGED <<vars, actualSize, reservation>>

(* The trigger runs on the insert too; it reserves what is declared. *)
InsertIntent(a) ==
    /\ a \in admitted
    /\ CreateIntent(a)
    /\ reservation' = [reservation EXCEPT ![a] = Declared[a]]
    /\ admitted' = admitted \ {a}
    /\ UNCHANGED actualSize

(* The request is given up, or its connection is: the transaction is rolled back. *)
AbandonIntent(a) ==
    /\ a \in admitted
    /\ admitted' = admitted \ {a}
    /\ UNCHANGED <<vars, actualSize, reservation>>

(* The bytes of the canonical form. *)
CanonicalSize(a, c) == IF c \in Verbatim THEN Declared[a] ELSE Recoded[c]

(* CompleteAsync, MarkStructurallyValidatedAsync and MarkPromotingAsync. *)
WrittenSize(a) ==
    IF state[a] = "PendingUpload" /\ state'[a] = "Uploaded" THEN Declared[a]
    ELSE IF state'[a] \in {"StructurallyValidated", "Promoting"} \ {state[a]}
         THEN CanonicalSize(a, etag[a])
    ELSE actualSize[a]

AtLeast(m, n) == IF n > m THEN n ELSE m

(* Mutant: the trigger forgets actual_size. *)
ReservedAsDeclared(a) ==
    IF state'[a] \in ActiveStates THEN AtLeast(reservation[a], Declared[a])
    ELSE IF state[a] = "DeletePending" THEN 0
    ELSE reservation[a]

(* FinalizeDeletionAsync, and maintain_attachment_quota_reservation. *)
Reserved(a) ==
    IF state'[a] \in ActiveStates
    THEN AtLeast(AtLeast(reservation[a], Declared[a]), WrittenSize(a))
    ELSE IF state[a] = "DeletePending" THEN 0
    ELSE reservation[a]

(* A message binds attachments that its sender uploaded. *)
BindsOfOneUser ==
    \A a, b \in Attachments :
        bound'[a] # bound[a] /\ bound'[b] # bound[b] => Uploader[a] = Uploader[b]

(* What requests, workers and time do to the rows that there are: the trigger
   runs with every update of one. *)
RowStep ==
    /\ Next
    /\ \A a \in Attachments : state[a] = "Absent" => state'[a] = "Absent"
    /\ BindsOfOneUser
    /\ actualSize' = [a \in Attachments |-> WrittenSize(a)]
    /\ reservation' = [a \in Attachments |-> Reserved(a)]
    /\ UNCHANGED admitted

QuotaNext ==
    \/ \E a \in Attachments : CheckQuotas(a) \/ InsertIntent(a) \/ AbandonIntent(a)
    \/ RowStep

QuotaSpec == QuotaInit /\ [][QuotaNext]_quotaVars

----------------------------------------------------------------------------
(* A user never has more attachments waiting for a message than the limit,
   although intents of the user race and messages and workers move the others. *)
UnboundWithinLimit == \A u \in Users : Cardinality(Unbound(u)) <= UnboundLimit

(* In no 24 hours does a user declare more than the daily limit, in whatever order
   the intents of those hours were inserted. *)
Within(u, first) ==
    {a \in Created : Uploader[a] = u /\ CreatedAt[a] \in first .. first + Day}

RollingDayKept ==
    \A a \in Created : Total(Within(Uploader[a], CreatedAt[a]), Declared) <= DailyLimit

(* What the tenant declared and is not finally deleted stays within its limit. *)
DeclaredWithinLimit ==
    Total({a \in Created : state[a] \notin Terminal}, Declared) <= TenantLimit

(* The limits of CreateIntentAsync, whatever races with whatever. *)
LimitsKept == UnboundWithinLimit /\ RollingDayKept /\ DeclaredWithinLimit

(* A file in the store is accounted for until it is deleted, at its real size, and
   what is deleted no longer is; a file that came late is not. *)
ReservationFollowsStorage ==
    \A a \in Attachments :
        /\ quarantine[a] # Nothing
           => Declared[a] <= reservation[a] \/ "quarantine" \in late[a]
        /\ ready[a] # Nothing
           => CanonicalSize(a, ready[a]) <= reservation[a] \/ "ready" \in late[a]
        /\ state[a] \in Terminal => reservation[a] = 0

----------------------------------------------------------------------------
(* The inductive invariant: the rows, and what an intent that passed the checks can
   rely on until it is inserted. *)

AccountInv(a) ==
    /\ state[a] \in ActiveStates => AtLeast(Declared[a], actualSize[a]) <= reservation[a]
    /\ state[a] \notin ActiveStates => reservation[a] = 0
    /\ readyKey[a] => actualSize[a] = CanonicalSize(a, etag[a])
    /\ state[a] \in {"Absent", "PendingUpload"} => ~readyKey[a] /\ actualSize[a] = 0
    /\ state[a] = "Absent" => quarantine[a] = Nothing /\ uploading[a] = {}

StillAdmissible(a) ==
    /\ state[a] = "Absent"
    /\ \A b \in admitted : b = a
    /\ Cardinality(Unbound(Uploader[a])) < UnboundLimit
    /\ Total(Recent(Uploader[a], CreatedAt[a]), Declared) + Declared[a] <= DailyLimit
    /\ Total(Active, Declared) + Declared[a] <= TenantLimit

QuotaInv ==
    /\ IsFiniteSet(Created)
    /\ \A a \in Attachments : AccountInv(a)
    /\ \A a \in admitted : StillAdmissible(a)
    /\ LimitsKept
=============================================================================
