------------------------- MODULE ConversationOutbox -------------------------
(***************************************************************************)
(* The transactional outbox of conversations: commands that change a       *)
(* conversation append an event in the same transaction; dispatchers claim *)
(* events under a lease and publish them to the audience the event names.  *)
(*                                                                         *)
(* An event is a natural number, its rank by (occurred_at, event_id).  The *)
(* clock is read before the commit, so ranks are not the order of commits. *)
(* available_at only delays an event; a claim may take any of the open,    *)
(* unleased ones, as many as BatchSize.                                    *)
(*                                                                         *)
(* Transfer, archive and approval take the advisory lock of their          *)
(* conversation for the whole transaction, a dispatcher takes it from the  *)
(* check of the access version to the end of the publication.  Messages    *)
(* and case commands do not take it.                                       *)
(***************************************************************************)
EXTENDS Integers, FiniteSets

CONSTANTS
    Dispatchers,    \* dispatcher instances, by their lease_owner
    Conversations,
    Private,        \* the conversations between one client and one admin
    Cases,          \* tickets and inquiries; the others are group chats
    Admins,         \* who may be assigned to a private conversation
    Events,         \* bound: the events there may be
    BatchSize,      \* ConversationOutboxDispatcherOptions.BatchSize
    MaxAttempts,    \* ConversationOutboxDispatcherOptions.MaxAttempts
    MaxFaults,      \* bound: crashes, lost sessions, slow or failed writes
    Nothing         \* no owner, no conversation, no admin

ASSUME OutboxAssumption ==
    /\ Private \subseteq Conversations /\ Cases \subseteq Conversations
    /\ Private \cap Cases = {}
    /\ Nothing \notin Dispatchers \cup Conversations \cup Admins
    /\ Events \subseteq Nat
    /\ BatchSize \in Nat \ {0} /\ MaxAttempts \in Nat \ {0} /\ MaxFaults \in Nat

VARIABLES
    (* digital.conversation_access *)
    version,        \* version
    state,          \* state
    party,          \* admin_user_id
    (* digital.conversation_outbox *)
    of,             \* conversation_id; Nothing: not inserted yet
    atVersion,      \* access_version
    atState,        \* conversation_state
    atParty,        \* admin_user_id
    attempts,       \* attempt_count
    owner,          \* lease_owner
    leased,         \* lease_until has not passed
    processed,      \* processed_at is set
    dead,           \* dead_lettered_at is set
    (* dispatchers *)
    lock,           \* dispatcher one of whose sessions holds the advisory lock
    stuck,          \* what became of that session, when its unlock failed
    phase,          \* where each dispatcher is with the events it claimed
    sent,           \* publications of each event
    faults          \* faults so far, at most MaxFaults

accessVars == <<version, state, party>>
recordVars == <<of, atVersion, atState, atParty>>
deliveryVars == <<attempts, owner, leased, processed, dead>>
lockVars == <<lock, stuck>>
vars == <<accessVars, recordVars, deliveryVars, lockVars, phase, sent, faults>>

AccessStates == {"Active", "Archived", "NeedsReview"}
Phases == {"none", "skip", "deliver", "publish", "settle", "fail"}

(* Every field has its type, and ck_conversation_outbox_lease_pair holds: a lease
   that runs has an owner. *)
TypeOK ==
    /\ version \in [Conversations -> Nat]
    /\ state \in [Conversations -> AccessStates]
    /\ party \in [Conversations -> Admins \cup {Nothing}]
    /\ of \in [Events -> Conversations \cup {Nothing}]
    /\ atVersion \in [Events -> Nat]
    /\ atState \in [Events -> AccessStates]
    /\ atParty \in [Events -> Admins \cup {Nothing}]
    /\ attempts \in [Events -> Nat]
    /\ owner \in [Events -> Dispatchers \cup {Nothing}]
    /\ leased \in [Events -> BOOLEAN]
    /\ \A e \in Events : leased[e] => owner[e] # Nothing
    /\ processed \in [Events -> BOOLEAN]
    /\ dead \in [Events -> BOOLEAN]
    /\ lock \in [Conversations -> Dispatchers \cup {Nothing}]
    /\ stuck \in [Conversations -> {"no", "pooled", "leaked"}]
    /\ phase \in [Dispatchers -> [Events -> Phases]]
    /\ sent \in [Events -> Nat]
    /\ faults \in 0 .. MaxFaults

Init ==
    /\ version = [c \in Conversations |-> 1]
    /\ state \in [Conversations -> {"Active", "NeedsReview"}]
    /\ party \in [Conversations -> Admins \cup {Nothing}]
    /\ \A c \in Conversations :
          /\ c \notin Private => state[c] = "Active" /\ party[c] = Nothing
          /\ c \in Private /\ state[c] = "Active" => party[c] # Nothing
    /\ of = [e \in Events |-> Nothing]
    /\ atVersion = [e \in Events |-> 0]
    /\ atState = [e \in Events |-> "Active"]
    /\ atParty = [e \in Events |-> Nothing]
    /\ attempts = [e \in Events |-> 0]
    /\ owner = [e \in Events |-> Nothing]
    /\ leased = [e \in Events |-> FALSE]
    /\ processed = [e \in Events |-> FALSE]
    /\ dead = [e \in Events |-> FALSE]
    /\ lock = [c \in Conversations |-> Nothing]
    /\ stuck = [c \in Conversations |-> "no"]
    /\ phase = [d \in Dispatchers |-> [e \in Events |-> "none"]]
    /\ sent = [e \in Events |-> 0]
    /\ faults = 0

----------------------------------------------------------------------------
(* Commands on conversations. *)

(* The row of the outbox snapshots the access row as it is after the command. *)
Append(c, e) ==
    /\ of[e] = Nothing
    /\ of' = [of EXCEPT ![e] = c]
    /\ atVersion' = [atVersion EXCEPT ![e] = version'[c]]
    /\ atState' = [atState EXCEPT ![e] = state'[c]]
    /\ atParty' = [atParty EXCEPT ![e] = party'[c]]
    /\ UNCHANGED <<deliveryVars, lockVars, phase, sent, faults>>

(* SendMessageAsync locks the access row, not the conversation. *)
SendMessage(c, e) ==
    /\ state[c] = "Active"
    /\ UNCHANGED accessVars
    /\ Append(c, e)

(* Mutant: the transaction does not take the advisory lock. *)
AnyTime(c) == TRUE

(* AcquireConversationMutationLockAsync waits for the dispatcher's session. *)
CanMutate(c) == lock[c] = Nothing

ChangeAccess(c, s, p) ==
    /\ c \in Private
    /\ CanMutate(c)
    /\ version' = [version EXCEPT ![c] = @ + 1]
    /\ state' = [state EXCEPT ![c] = s]
    /\ party' = [party EXCEPT ![c] = p]

Transfer(c, e, p) ==
    state[c] = "Active" /\ ChangeAccess(c, "Active", p) /\ Append(c, e)

Archive(c, e) ==
    state[c] = "Active" /\ ChangeAccess(c, "Archived", party[c]) /\ Append(c, e)

ApproveLegacyPrivate(c, e, p) ==
    state[c] = "NeedsReview" /\ ChangeAccess(c, "Active", p) /\ Append(c, e)

(* CaseMutationCommandHandler: a version of its own, no advisory lock. *)
MutateCase(c, e) ==
    /\ c \in Cases
    /\ state[c] = "Active"
    /\ version' = [version EXCEPT ![c] = @ + 1]
    /\ UNCHANGED <<state, party>>
    /\ Append(c, e)

----------------------------------------------------------------------------
(* A dispatcher: DispatchBatchAsync handles the claimed events one by one. *)

Idle(d) == \A e \in Events : phase[d][e] = "none"

Current(d, e) == \A f \in Events : phase[d][f] # "none" => e <= f

Enter(d, e, p) == phase' = [phase EXCEPT ![d][e] = p]

Fault == faults < MaxFaults /\ faults' = faults + 1

Holds(d, e) == phase[d][e] \in {"publish", "settle"} /\ lock[of[e]] = d

(* Mutant: a failed publication does not dispose of the delivery lease. *)
ReleaseWhenSettled(d, e) ==
    /\ lock' = [lock EXCEPT ![of[e]] =
                   IF Holds(d, e) /\ phase[d][e] = "settle" THEN Nothing ELSE @]
    /\ UNCHANGED stuck

Release(d, e) ==
    /\ lock' = [lock EXCEPT ![of[e]] = IF Holds(d, e) THEN Nothing ELSE @]
    /\ UNCHANGED stuck

(* DisposeAsync of the delivery lease when the unlock throws on a session that
   lives on: it goes back to the pool of connections with its lock. *)
UnlockFails(d, e) ==
    /\ Holds(d, e)
    /\ stuck' = [stuck EXCEPT ![of[e]] = "pooled"]
    /\ Fault
    /\ UNCHANGED lock

Superseded(e) == atVersion[e] # version[of[e]] \/ atState[e] # state[of[e]]

(* Mutant: lease_owner IS NULL, instead of lease_until < @Now. *)
ClaimableUnowned(e) ==
    of[e] # Nothing /\ ~processed[e] /\ ~dead[e] /\ owner[e] = Nothing

Claimable(e) == of[e] # Nothing /\ ~processed[e] /\ ~dead[e] /\ ~leased[e]

(* ClaimAsync reads the access row in the statement that takes the lease; the
   comparison comes later, on the values read. *)
Lease(d, S) ==
    /\ S # {} /\ Cardinality(S) <= BatchSize
    /\ \A e \in S : Claimable(e)
    /\ attempts' = [e \in Events |-> attempts[e] + IF e \in S THEN 1 ELSE 0]
    /\ owner' = [e \in Events |-> IF e \in S THEN d ELSE owner[e]]
    /\ leased' = [e \in Events |-> leased[e] \/ e \in S]
    /\ UNCHANGED <<accessVars, recordVars, processed, dead, lockVars, sent>>

Claim(d, S) ==
    /\ Idle(d)
    /\ Lease(d, S)
    /\ phase' = [phase EXCEPT ![d] = [e \in Events |->
                    IF e \notin S THEN "none"
                    ELSE IF Superseded(e) THEN "skip" ELSE "deliver"]]
    /\ UNCHANGED faults

(* The claim commits but the dispatcher sees an exception and gives it up. *)
ClaimLost(d, S) == Idle(d) /\ Lease(d, S) /\ Fault /\ UNCHANGED phase

StillCurrent(e) == ~Superseded(e)

(* AcquireDeliveryLeaseAsync: the session lock, then the access row again. *)
AcquireDeliveryLease(d, e) ==
    /\ phase[d][e] = "deliver" /\ Current(d, e)
    /\ lock[of[e]] = Nothing
    /\ IF StillCurrent(e)
       THEN Enter(d, e, "publish") /\ lock' = [lock EXCEPT ![of[e]] = d]
       ELSE Enter(d, e, "skip") /\ UNCHANGED lock
    /\ UNCHANGED <<accessVars, recordVars, deliveryVars, stuck, sent, faults>>

(* Mutant: a lock that cannot be had is taken for a superseded event. *)
AcquireGivesUp(d, e) ==
    /\ phase[d][e] = "deliver" /\ Current(d, e)
    /\ Enter(d, e, "skip")
    /\ UNCHANGED <<accessVars, recordVars, deliveryVars, lockVars, sent, faults>>

(* The database fails, or the wait for the lock times out.  The catch block gives
   the lock back, if it was had; when that throws as well, the connection is not
   disposed of and keeps the lock. *)
AcquireFails(d, e) ==
    /\ phase[d][e] = "deliver" /\ Current(d, e)
    /\ Enter(d, e, "fail")
    /\ \/ UNCHANGED <<lockVars, faults>>
       \/ /\ lock[of[e]] = Nothing
          /\ lock' = [lock EXCEPT ![of[e]] = d]
          /\ stuck' = [stuck EXCEPT ![of[e]] = "leaked"]
          /\ Fault
    /\ UNCHANGED <<accessVars, recordVars, deliveryVars, sent>>

(* PublishAsync sends the event, or throws before or after sending it; the
   lock is released before the exception is handled. *)
Publish(d, e) ==
    /\ phase[d][e] = "publish" /\ Current(d, e)
    /\ \/ /\ sent' = [sent EXCEPT ![e] = @ + 1]
          /\ Enter(d, e, "settle") /\ UNCHANGED <<lockVars, faults>>
       \/ /\ sent' \in {sent, [sent EXCEPT ![e] = @ + 1]}
          /\ Enter(d, e, "fail")
          /\ (Release(d, e) /\ UNCHANGED faults) \/ UnlockFails(d, e)
    /\ UNCHANGED <<accessVars, recordVars, deliveryVars>>

Unlease(e) ==
    /\ owner' = [owner EXCEPT ![e] = Nothing]
    /\ leased' = [leased EXCEPT ![e] = FALSE]

(* WHERE lease_owner = @LeaseOwner AND processed_at IS NULL *)
Settles(d, e) == owner[e] = d /\ ~processed[e]

Processed(d, e) ==
    IF Settles(d, e)
    THEN /\ processed' = [processed EXCEPT ![e] = TRUE]
         /\ Unlease(e)
         /\ UNCHANGED <<attempts, dead>>
    ELSE UNCHANGED deliveryVars

(* MarkProcessedAsync.  After a publication the lock is released last, and a
   session that was lost makes that throw.  The call itself may throw too,
   committed or not, and so may the unlock, after either. *)
MarkProcessed(d, e) ==
    /\ phase[d][e] \in {"skip", "settle"} /\ Current(d, e)
    /\ \/ /\ Processed(d, e)
          /\ Enter(d, e, IF phase[d][e] = "settle" /\ lock[of[e]] # d
                         THEN "fail" ELSE "none")
          /\ Release(d, e) /\ UNCHANGED faults
       \/ /\ Processed(d, e) \/ UNCHANGED deliveryVars
          /\ Enter(d, e, "fail")
          /\ (Release(d, e) /\ Fault) \/ UnlockFails(d, e)
    /\ UNCHANGED <<accessVars, recordVars, sent>>

(* On the count the claim returned; attempts[e] differs from it only when another
   claim took the lease, and then nothing is settled. *)
Exhausted(e) == attempts[e] >= MaxAttempts

Failed(d, e) ==
    IF Settles(d, e)
    THEN /\ dead' = [dead EXCEPT ![e] = @ \/ Exhausted(e)]
         /\ Unlease(e)
         /\ UNCHANGED <<attempts, processed>>
    ELSE UNCHANGED deliveryVars

(* MarkFailedAsync.  When it throws, committed or not, the dispatcher goes on
   and leaves the lease to run out. *)
MarkFailed(d, e) ==
    /\ phase[d][e] = "fail" /\ Current(d, e)
    /\ \/ Failed(d, e) /\ UNCHANGED faults
       \/ (Failed(d, e) \/ UNCHANGED deliveryVars) /\ Fault
    /\ Enter(d, e, "none")
    /\ UNCHANGED <<accessVars, recordVars, lockVars, sent>>

----------------------------------------------------------------------------
(* Failures and time. *)

(* The process stops; its sessions end and PostgreSQL drops their locks. *)
Crash(d) ==
    /\ ~Idle(d) \/ \E c \in Conversations : lock[c] = d
    /\ Fault
    /\ phase' = [phase EXCEPT ![d] = [e \in Events |-> "none"]]
    /\ lock' = [c \in Conversations |-> IF lock[c] = d THEN Nothing ELSE lock[c]]
    /\ stuck' = [c \in Conversations |-> IF lock[c] = d THEN "no" ELSE stuck[c]]
    /\ UNCHANGED <<accessVars, recordVars, deliveryVars, sent>>

SessionEnds(c) ==
    /\ lock' = [lock EXCEPT ![c] = Nothing]
    /\ stuck' = [stuck EXCEPT ![c] = "no"]
    /\ UNCHANGED <<accessVars, recordVars, deliveryVars, phase, sent>>

(* The session that holds the lock is cut; the dispatcher does not notice. *)
SessionLost(c) == lock[c] # Nothing /\ Fault /\ SessionEnds(c)

(* The next use of a pooled session, or its removal from the pool, resets it. *)
SessionReset(c) == stuck[c] = "pooled" /\ SessionEnds(c) /\ UNCHANGED faults

(* Thirty seconds pass: for free when its owner does not handle the event any
   more, as a fault while the event still waits in its owner's batch. *)
LeaseLapses(e) ==
    /\ leased[e]
    /\ leased' = [leased EXCEPT ![e] = FALSE]
    /\ IF phase[owner[e]][e] = "none" THEN UNCHANGED faults ELSE Fault
    /\ UNCHANGED <<accessVars, recordVars, attempts, owner, processed, dead,
                   lockVars, phase, sent>>

----------------------------------------------------------------------------
Command(c, e) ==
    \/ SendMessage(c, e) \/ Archive(c, e) \/ MutateCase(c, e)
    \/ \E p \in Admins : Transfer(c, e, p) \/ ApproveLegacyPrivate(c, e, p)

Handle(d, e) ==
    \/ AcquireDeliveryLease(d, e) \/ AcquireFails(d, e) \/ Publish(d, e)
    \/ MarkProcessed(d, e) \/ MarkFailed(d, e)

Next ==
    \/ \E c \in Conversations, e \in Events : Command(c, e)
    \/ \E d \in Dispatchers, S \in SUBSET Events : Claim(d, S) \/ ClaimLost(d, S)
    \/ \E d \in Dispatchers, e \in Events : Handle(d, e)
    \/ \E d \in Dispatchers : Crash(d)
    \/ \E c \in Conversations : SessionLost(c) \/ SessionReset(c)
    \/ \E e \in Events : LeaseLapses(e)

Spec == Init /\ [][Next]_vars

(* Dispatchers poll for ever, calls return or time out, leases run out. *)
Fairness ==
    /\ \A e \in Events :
          /\ WF_vars(\E d \in Dispatchers, S \in SUBSET Events :
                        e \in S /\ Claim(d, S))
          /\ WF_vars(LeaseLapses(e) /\ UNCHANGED faults)
    /\ \A d \in Dispatchers, e \in Events : WF_vars(Handle(d, e))

FairSpec == Spec /\ Fairness

----------------------------------------------------------------------------
(* Safety. *)

(* The event of a private conversation is sent to those who take part in it at
   that moment, although transfers and archivals race the dispatchers; only a
   dispatcher whose database session was cut under it may be late. *)
AudienceIsCurrent ==
    [][\A e \in Events :
          sent'[e] # sent[e] /\ of[e] \in Private
          => \/ atParty[e] = party[of[e]] /\ atState[e] = state[of[e]]
             \/ \E d \in Dispatchers : /\ phase[d][e] = "publish"
                                       /\ phase'[d][e] # "publish"
                                       /\ lock[of[e]] # d]_vars

Suppressed(e) == processed[e] /\ sent[e] = 0

(* An event is left out only if another one announces the present version of its
   conversation, and that one is not left out: the audience misses states the
   conversation went through, never the state it is in.  (The features of the
   messaging configuration are on: PublishAsync drops events of those that are
   off.) *)
LastChangeSurvives ==
    \A e \in Events : Suppressed(e) =>
        \E f \in Events : /\ of[f] = of[e] /\ atVersion[f] = version[of[e]]
                          /\ ~Suppressed(f)

(* ck_conversation_outbox_terminal_exclusive and _terminal_not_leased: an event
   is settled in one way only, whichever dispatchers still work on it. *)
TerminalShape ==
    \A e \in Events :
        /\ ~(processed[e] /\ dead[e])
        /\ processed[e] \/ dead[e] => owner[e] = Nothing /\ ~leased[e]

(* Retries end: an event is claimed at most MaxAttempts times, and once more for
   each fault, whatever dispatchers do at the same time. *)
RetriesEnd == \A e \in Events : attempts[e] <= MaxAttempts + faults

InUse(c) ==
    \E e \in Events : of[e] = c /\ phase[lock[c]][e] \in {"publish", "settle"}

(* Transfers and archivals wait only for a dispatcher that is publishing an event
   of the conversation or recording that it did.  No failed publication or record,
   no lost session and no stopped process leaves an advisory lock behind; an unlock
   that fails itself does, on a session that nobody works with any more, and
   nothing else is taken for one. *)
LockIsInUse ==
    \A c \in Conversations :
        /\ lock[c] # Nothing /\ stuck[c] = "no" => InUse(c)
        /\ stuck[c] # "no" => lock[c] # Nothing /\ faults > 0 /\ ~InUse(c)

(* What the comment in DispatchBatchAsync says: what supersedes an event is a
   transfer or an archival, which only private conversations know. *)
OnlyPrivateSuppressed == \A e \in Events : Suppressed(e) => of[e] \in Private

(* The strengthening that is inductive together with TypeOK. *)

(* What an event that was not inserted looks like, and the relation of one that
   was to the access row it was taken from. *)
SnapshotInv ==
    \A e \in Events :
        /\ of[e] = Nothing => /\ owner[e] = Nothing /\ attempts[e] = 0
                              /\ ~processed[e] /\ ~dead[e]
        /\ of[e] # Nothing =>
              /\ atVersion[e] \in 1 .. version[of[e]]
              /\ atVersion[e] = version[of[e]] =>
                    atState[e] = state[of[e]] /\ atParty[e] = party[of[e]]

AnnouncedInv ==
    \A c \in Conversations :
        version[c] = 1 \/ \E f \in Events : of[f] = c /\ atVersion[f] = version[c]

(* What a dispatcher knows of the event it is at. *)
DispatchInv ==
    \A d \in Dispatchers, e \in Events :
        /\ phase[d][e] # "none" => of[e] # Nothing
        /\ phase[d][e] = "skip" => atVersion[e] < version[of[e]]
        /\ phase[d][e] = "settle" => sent[e] > 0
        /\ phase[d][e] = "publish" => Current(d, e)
        /\ phase[d][e] = "publish" /\ lock[of[e]] = d /\ of[e] \in Private
              => atVersion[e] = version[of[e]]

SuppressionInv ==
    \A e \in Events : Suppressed(e) => atVersion[e] < version[of[e]]

AtWork(e) == leased[e] /\ phase[owner[e]][e] # "none"

(* An open event that nobody works on under a lease has an attempt left. *)
AttemptsInv ==
    \A e \in Events :
        /\ attempts[e] <= MaxAttempts + faults
        /\ ~processed[e] /\ ~dead[e] /\ ~AtWork(e)
              => attempts[e] < MaxAttempts + faults

(* What the proofs use: the facts above and the shape of settled events. *)
OutboxInv ==
    /\ SnapshotInv /\ AnnouncedInv /\ DispatchInv /\ SuppressionInv
    /\ TerminalShape /\ AttemptsInv

----------------------------------------------------------------------------
(* Liveness, under FairSpec. *)

(* Every event is settled: published, superseded or dead-lettered, even if
   every publication fails. *)
EventIsSettled == \A e \in Events : of[e] # Nothing ~> processed[e] \/ dead[e]
============================================================================
