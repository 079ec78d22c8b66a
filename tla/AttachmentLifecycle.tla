------------------------ MODULE AttachmentLifecycle ------------------------
(***************************************************************************)
(* The life of a chat attachment: the row of digital.attachments, its      *)
(* quarantine and ready objects in the file store, the user's requests,    *)
(* the validation (or scan) worker and the cleanup worker.                 *)
(*                                                                         *)
(* Every SQL statement is one atomic step, every storage call another; a   *)
(* worker's ProcessAsync is a sequence of them, and anything may happen in *)
(* between.  Time only matters through what it lets happen: a lease lapses *)
(* (lease_until < now) and a deadline passes (one hour for PendingUpload,  *)
(* expires_at for Ready), at any moment.  next_attempt_at is always due    *)
(* after enough time, so it is not represented.  A content stands for the  *)
(* bytes, their ETag (a SHA-256) and their canonical form's digest.        *)
(*                                                                         *)
(* The advisory "leader" locks of the workers are not represented: a       *)
(* leader that lost its session still finishes its batch, so nothing below *)
(* may rest on them and every worker may claim at any time.                *)
(***************************************************************************)
EXTENDS Integers, FiniteSets

CONSTANTS
    Attachments,    \* attachments of one user in one conversation
    Processors,     \* validation (or scan) worker instances
    Cleaners,       \* cleanup worker instances
    Contents,       \* what an upload request may carry
    Clean,          \* the contents that validate (and scan clean)
    Verbatim,       \* those that validation hands back as they are; images are
                    \* encoded anew, to another size
    SecurityMode,   \* AttachmentOptions.SecurityMode
    MaxAttempts,    \* MaximumAttempts of the mode's options
    MaxFaults,      \* bound: crashes, failed calls, lost acknowledgements
    Nothing         \* no lease owner, no object, no ETag

Modes == {"StructuralValidationOnly", "MalwareScanning"}
Workers == Processors \cup Cleaners

ASSUME ConstantsAssumption ==
    /\ Clean \subseteq Contents /\ Verbatim \subseteq Contents
    /\ Processors # {} /\ Processors \cap Cleaners = {}
    /\ Nothing \notin Workers \cup Contents
    /\ SecurityMode \in Modes
    /\ MaxAttempts \in Nat \ {0}
    /\ MaxFaults \in Nat

VARIABLES
    (* the row *)
    state,          \* state
    owner,          \* lease_owner
    leased,         \* lease_until has not passed
    target,         \* delete_target_state
    bound,          \* message_id is set
    etag,           \* source_etag
    readyKey,       \* ready_key (with sha256) is set
    quarantineKey,  \* quarantine_key is set
    attempts,       \* attempt_count
    elapsed,        \* the deadline of the row's state has passed
    companyFile,    \* the row of admin.files
    (* the file store *)
    quarantine,     \* what is stored under the quarantine key
    ready,          \* what is stored under the ready key
    (* requests and workers *)
    uploading,      \* contents of the upload requests being received
    completing,     \* ETags read by complete requests, not yet written
    phase,          \* where each worker is with each attachment it claimed
    (* bookkeeping *)
    faults,         \* faults so far, at most MaxFaults
    late            \* history: the places of objects that were written after
                    \* their writer had lost the row

rowVars == <<state, owner, leased, target, bound, etag, readyKey,
             quarantineKey, attempts, elapsed, companyFile>>
storeVars == <<quarantine, ready, late>>
requestVars == <<uploading, completing>>
vars == <<rowVars, storeVars, requestVars, phase, faults>>

InProgress == {"Uploaded", "StructuralValidation", "StructurallyValidated",
               "Scanning", "Promoting"}
Terminal == {"Rejected", "ScanFailed", "Deleted", "Expired"}
States == {"Absent", "PendingUpload", "Ready", "DeletePending"}
          \cup InProgress \cup Terminal

(* NULL is not the name of a state. *)
ASSUME NothingAssumption == Nothing \notin Terminal

(* Phases of a claimed attachment; "none" when the worker does not hold it. *)
ProcessorPhases ==
    {"read", "readValidated", "readPromoting", "markValidated",
     "markPromoting", "checkStore", "writeReady", "headReady", "markReady",
     "dropQuarantine", "clearQuarantine", "reject", "retry", "defer"}
DeletionPhases == {"deleteReady", "deleteQuarantine", "finalize", "release"}
ReadyCleanupPhases == {"dropCopy", "clearCopy", "releaseCopy"}
Phases == {"none"} \cup ProcessorPhases \cup DeletionPhases
          \cup ReadyCleanupPhases

TypeOK ==
    /\ state \in [Attachments -> States]
    /\ owner \in [Attachments -> Workers \cup {Nothing}]
    /\ leased \in [Attachments -> BOOLEAN]
    /\ target \in [Attachments -> Terminal \cup {Nothing}]
    /\ bound \in [Attachments -> BOOLEAN]
    /\ etag \in [Attachments -> Contents \cup {Nothing}]
    /\ readyKey \in [Attachments -> BOOLEAN]
    /\ quarantineKey \in [Attachments -> BOOLEAN]
    /\ attempts \in [Attachments -> 0 .. MaxAttempts - 1]
    /\ elapsed \in [Attachments -> BOOLEAN]
    /\ companyFile \in [Attachments -> {"absent", "active", "inactive"}]
    /\ quarantine \in [Attachments -> Contents \cup {Nothing}]
    /\ ready \in [Attachments -> Contents \cup {Nothing}]
    /\ uploading \in [Attachments -> SUBSET Contents]
    /\ completing \in [Attachments -> SUBSET Contents]
    /\ phase \in [Workers -> [Attachments -> Phases]]
    /\ faults \in 0 .. MaxFaults
    /\ late \in [Attachments -> SUBSET {"quarantine", "ready"}]

Init ==
    /\ state = [a \in Attachments |-> "Absent"]
    /\ owner = [a \in Attachments |-> Nothing]
    /\ leased = [a \in Attachments |-> FALSE]
    /\ target = [a \in Attachments |-> Nothing]
    /\ bound = [a \in Attachments |-> FALSE]
    /\ etag = [a \in Attachments |-> Nothing]
    /\ readyKey = [a \in Attachments |-> FALSE]
    /\ quarantineKey = [a \in Attachments |-> FALSE]
    /\ attempts = [a \in Attachments |-> 0]
    /\ elapsed = [a \in Attachments |-> FALSE]
    /\ companyFile = [a \in Attachments |-> "absent"]
    /\ quarantine = [a \in Attachments |-> Nothing]
    /\ ready = [a \in Attachments |-> Nothing]
    /\ uploading = [a \in Attachments |-> {}]
    /\ completing = [a \in Attachments |-> {}]
    /\ phase = [w \in Workers |-> [a \in Attachments |-> "none"]]
    /\ faults = 0
    /\ late = [a \in Attachments |-> {}]

----------------------------------------------------------------------------
(* The user's requests: AttachmentService and the row it writes. *)

(* CreateUploadIntentAsync: the row is inserted with its generated key.
   Quotas only refuse; AttachmentQuotas has them. *)
CreateIntent(a) ==
    /\ state[a] = "Absent"
    /\ state' = [state EXCEPT ![a] = "PendingUpload"]
    /\ quarantineKey' = [quarantineKey EXCEPT ![a] = TRUE]
    /\ UNCHANGED <<owner, leased, target, bound, etag, readyKey, attempts,
                   elapsed, companyFile, storeVars, requestVars, phase, faults>>

(* UploadAsync reads the row, checks its state and its age (the upload
   window is shorter than the abandonment hour), then receives the body. *)
BeginUpload(a, c) ==
    /\ state[a] = "PendingUpload"
    /\ ~elapsed[a]
    /\ uploading' = [uploading EXCEPT ![a] = @ \cup {c}]
    /\ UNCHANGED <<rowVars, storeVars, completing, phase, faults>>

(* Mutant: File.Move(..., overwrite: true). *)
FinishUploadOver(a, c) ==
    /\ c \in uploading[a]
    /\ uploading' = [uploading EXCEPT ![a] = @ \ {c}]
    /\ quarantine' = [quarantine EXCEPT ![a] = c]
    /\ UNCHANGED <<rowVars, ready, late, completing, phase, faults>>

(* WriteAsync moves the received file in place without overwriting: a
   stored object stays, and the request succeeds if it is identical. *)
FinishUpload(a, c) ==
    /\ c \in uploading[a]
    /\ uploading' = [uploading EXCEPT ![a] = @ \ {c}]
    /\ IF quarantine[a] = Nothing
       THEN /\ quarantine' = [quarantine EXCEPT ![a] = c]
            /\ late' = [late EXCEPT ![a] = IF state[a] = "PendingUpload" THEN @
                                          ELSE @ \cup {"quarantine"}]
       ELSE UNCHANGED <<quarantine, late>>
    /\ UNCHANGED <<rowVars, ready, completing, phase, faults>>

(* The body is cut short or does not have the declared length. *)
AbortUpload(a, c) ==
    /\ c \in uploading[a]
    /\ uploading' = [uploading EXCEPT ![a] = @ \ {c}]
    /\ UNCHANGED <<rowVars, storeVars, completing, phase, faults>>

(* CompleteAsync of the service: row state, then HeadAsync. *)
BeginComplete(a) ==
    /\ state[a] = "PendingUpload"
    /\ quarantine[a] # Nothing
    /\ completing' = [completing EXCEPT ![a] = @ \cup {quarantine[a]}]
    /\ UNCHANGED <<rowVars, storeVars, uploading, phase, faults>>

(* CompleteAsync of the repository.  WriteAsync stored exactly the declared
   number of bytes, so the size mismatch arm is not reached. *)
Complete(a, c) ==
    /\ c \in completing[a]
    /\ completing' = [completing EXCEPT ![a] = @ \ {c}]
    /\ IF state[a] = "PendingUpload" /\ ~bound[a]
       THEN /\ state' = [state EXCEPT ![a] = "Uploaded"]
            /\ etag' = [etag EXCEPT ![a] = c]
            /\ elapsed' = [elapsed EXCEPT ![a] = FALSE]
       ELSE UNCHANGED <<state, etag, elapsed>>
    /\ UNCHANGED <<owner, leased, target, bound, readyKey, quarantineKey,
                   attempts, companyFile, storeVars, uploading, phase, faults>>

CancellableStates == InProgress \cup {"PendingUpload", "Ready"}

(* Mutant: message_id is not looked at. *)
CancelsBound(a) == state[a] \in CancellableStates

CanCancel(a) == state[a] \in CancellableStates /\ ~bound[a]

(* CancelAsync: the lease, if any, stays with the worker that holds it. *)
Cancel(a) ==
    /\ CanCancel(a)
    /\ state' = [state EXCEPT ![a] = "DeletePending"]
    /\ target' = [target EXCEPT ![a] = "Deleted"]
    /\ elapsed' = [elapsed EXCEPT ![a] = FALSE]
    /\ UNCHANGED <<owner, leased, bound, etag, readyKey, quarantineKey, attempts,
                   companyFile, storeVars, requestVars, phase, faults>>

(* Mutant: any attachment whose ready_key is set. *)
BindableEarly(a) == readyKey[a] /\ ~bound[a]

Bindable(a) == state[a] = "Ready" /\ ~bound[a]

(* SendMessageAsync: every attachment of the message is locked, checked,
   bound and entered in admin.files in one transaction, or none is. *)
Bind(S) ==
    /\ S # {}
    /\ \A a \in S : Bindable(a)
    /\ bound' = [a \in Attachments |-> bound[a] \/ a \in S]
    /\ elapsed' = [a \in Attachments |-> elapsed[a] /\ a \notin S]
    /\ companyFile' = [a \in Attachments |->
                          IF a \in S THEN "active" ELSE companyFile[a]]
    /\ UNCHANGED <<state, owner, leased, target, etag, readyKey, quarantineKey,
                   attempts, storeVars, requestVars, phase, faults>>

----------------------------------------------------------------------------
(* What the workers share. *)

Idle(w) == \A a \in Attachments : phase[w][a] = "none"

Enter(w, a, p) == phase' = [phase EXCEPT ![w][a] = p]

Fault == faults < MaxFaults /\ faults' = faults + 1

(* A committed write whose caller goes on to p, or, the acknowledgement
   being lost, sees an exception and goes to q. *)
Acknowledge(w, a, p, q) ==
    \/ Enter(w, a, p) /\ UNCHANGED faults
    \/ Enter(w, a, q) /\ Fault

(* The WHERE clause matched no row: the worker drops the attachment. *)
Drop(w, a) ==
    /\ Enter(w, a, "none")
    /\ UNCHANGED <<rowVars, storeVars, faults>>

Unlease(a) ==
    /\ owner' = [owner EXCEPT ![a] = Nothing]
    /\ leased' = [leased EXCEPT ![a] = FALSE]

(* Mutant: lease_until IS NULL, however old the lease. *)
Unowned(a) == owner[a] = Nothing

(* lease_until IS NULL OR lease_until < now *)
Unleased(a) == ~leased[a]

(* A claim: FOR UPDATE SKIP LOCKED takes any of the due, unleased rows. *)
Claim(w, S, first) ==
    /\ S # {}
    /\ Idle(w)
    /\ \A a \in S : Unleased(a)
    /\ owner' = [a \in Attachments |-> IF a \in S THEN w ELSE owner[a]]
    /\ leased' = [a \in Attachments |-> leased[a] \/ a \in S]
    /\ phase' = [phase EXCEPT ![w] =
                    [a \in Attachments |-> IF a \in S THEN first[a] ELSE "none"]]

(* The process stops: its attachments stay leased to an owner that is gone. *)
Crash(w) ==
    /\ ~Idle(w)
    /\ Fault
    /\ phase' = [phase EXCEPT ![w] = [a \in Attachments |-> "none"]]
    /\ UNCHANGED <<rowVars, storeVars, requestVars>>

----------------------------------------------------------------------------
(* AttachmentValidationWorker and AttachmentScanWorker. *)

Structural == SecurityMode = "StructuralValidationOnly"

ProcessingState == IF Structural THEN "StructuralValidation" ELSE "Scanning"

(* Mutant: an interrupted promotion is not resumed. *)
ClaimableUnlessPromoting == {"Uploaded", ProcessingState, "StructurallyValidated"}

ClaimableStates ==
    {"Uploaded", ProcessingState, "StructurallyValidated", "Promoting"}

(* ProcessAsync branches on the state the claim returned. *)
FirstPhase(s) ==
    CASE s = "Promoting" -> IF Structural THEN "readPromoting" ELSE "checkStore"
      [] s = "StructurallyValidated" -> "readValidated"
      [] OTHER -> "read"

ClaimProcessing(w, S) ==
    /\ \A a \in S : state[a] \in ClaimableStates
    /\ Claim(w, S, [a \in S |-> FirstPhase(state[a])])
    /\ state' = [a \in Attachments |->
                    IF a \in S /\ state[a] = "Uploaded"
                    THEN ProcessingState ELSE state[a]]
    /\ UNCHANGED <<target, bound, etag, readyKey, quarantineKey, attempts,
                   elapsed, companyFile, storeVars, requestVars, faults>>

AfterRead(p) ==
    CASE p = "readPromoting" -> "checkStore"
      [] p = "readValidated" -> "markPromoting"
      [] OTHER -> IF Structural THEN "markValidated" ELSE "markPromoting"

(* Open the quarantine object, compare its ETag, validate (and scan) it. *)
ReadQuarantine(w, a) ==
    /\ phase[w][a] \in {"read", "readValidated", "readPromoting"}
    /\ IF quarantine[a] = etag[a] /\ etag[a] \in Clean
       THEN Enter(w, a, AfterRead(phase[w][a]))
       ELSE Enter(w, a, "reject")
    /\ UNCHANGED <<rowVars, storeVars, requestVars, faults>>

(* The scanner is unavailable and its health check fails. *)
ScannerDown(w, a) ==
    /\ ~Structural
    /\ phase[w][a] = "read"
    /\ quarantine[a] = etag[a]
    /\ Enter(w, a, "defer")
    /\ Fault
    /\ UNCHANGED <<rowVars, storeVars, requestVars>>

MarkStructurallyValidated(w, a) ==
    /\ phase[w][a] = "markValidated"
    /\ IF state[a] = "StructuralValidation" /\ owner[a] = w
       THEN /\ state' = [state EXCEPT ![a] = "StructurallyValidated"]
            /\ readyKey' = [readyKey EXCEPT ![a] = TRUE]
            /\ Acknowledge(w, a, "markPromoting", "retry")
            /\ UNCHANGED <<owner, leased, target, bound, etag, quarantineKey,
                           attempts, elapsed, companyFile, storeVars>>
       ELSE Drop(w, a)
    /\ UNCHANGED requestVars

MarkPromoting(w, a) ==
    /\ phase[w][a] = "markPromoting"
    /\ IF state[a] \in {"Scanning", "StructurallyValidated"} /\ owner[a] = w
       THEN /\ state' = [state EXCEPT ![a] = "Promoting"]
            /\ readyKey' = [readyKey EXCEPT ![a] = TRUE]
            /\ Acknowledge(w, a, "checkStore", "retry")
            /\ UNCHANGED <<owner, leased, target, bound, etag, quarantineKey,
                           attempts, elapsed, companyFile, storeVars>>
       ELSE Drop(w, a)
    /\ UNCHANGED requestVars

(* StoreValidatedAsync and PromoteAsync up to the write: the source must
   still be there, an existing ready object is taken as it is.  A missing
   source is "changed" to the one and retryable to the other. *)
CheckStore(w, a) ==
    /\ phase[w][a] = "checkStore"
    /\ Enter(w, a, IF quarantine[a] = Nothing /\ ~Structural THEN "retry"
                   ELSE IF quarantine[a] # etag[a] THEN "reject"
                   ELSE IF ready[a] # Nothing THEN "headReady"
                   ELSE "writeReady")
    /\ UNCHANGED <<rowVars, storeVars, requestVars, faults>>

(* PromoteAsync writes the upload itself under the canonical form's size: when
   that is another, WriteAsync throws. *)
Writable(c) == Structural \/ c \in Verbatim

(* WriteAsync of the ready object: moved in place unless one is there. *)
WriteReady(w, a) ==
    /\ phase[w][a] = "writeReady"
    /\ IF Writable(etag[a]) /\ ready[a] = Nothing
       THEN /\ ready' = [ready EXCEPT ![a] = etag[a]]
            /\ late' = [late EXCEPT ![a] = IF owner[a] = w THEN @
                                          ELSE @ \cup {"ready"}]
       ELSE UNCHANGED <<ready, late>>
    /\ Enter(w, a, IF Writable(etag[a]) THEN "headReady" ELSE "retry")
    /\ UNCHANGED <<rowVars, quarantine, requestVars, faults>>

HeadReady(w, a) ==
    /\ phase[w][a] = "headReady"
    /\ Enter(w, a, IF ready[a] = Nothing THEN "retry" ELSE "markReady")
    /\ UNCHANGED <<rowVars, storeVars, requestVars, faults>>

(* Mutant: without lease_owner in the WHERE clause. *)
PublishableUnfenced(w, a) == state[a] \notin Terminal

Publishable(w, a) == state[a] = "Promoting" /\ owner[a] = w

(* MarkReadyAsync keeps the lease for the removal of the quarantine copy. *)
MarkReady(w, a) ==
    /\ phase[w][a] = "markReady"
    /\ IF Publishable(w, a)
       THEN /\ state' = [state EXCEPT ![a] = "Ready"]
            /\ elapsed' = [elapsed EXCEPT ![a] = FALSE]
            /\ Acknowledge(w, a, "dropQuarantine", "retry")
            /\ UNCHANGED <<owner, leased, target, bound, etag, readyKey,
                           quarantineKey, attempts, companyFile, storeVars>>
       ELSE Drop(w, a)
    /\ UNCHANGED requestVars

(* DeleteIfExistsAsync of the quarantine key of a Ready attachment, by the
   worker that published it or by the cleanup worker. *)
DropQuarantine(w, a) ==
    /\ \/ phase[w][a] = "dropQuarantine" /\ Enter(w, a, "clearQuarantine")
       \/ phase[w][a] = "dropCopy" /\ Enter(w, a, "clearCopy")
    /\ quarantine' = [quarantine EXCEPT ![a] = Nothing]
    /\ late' = [late EXCEPT ![a] = @ \ {"quarantine"}]
    /\ UNCHANGED <<rowVars, ready, requestVars, faults>>

(* CompleteReadyQuarantineCleanupAsync, for either of them. *)
CompleteReadyQuarantineCleanup(w, a) ==
    /\ phase[w][a] \in {"clearQuarantine", "clearCopy"}
    /\ IF state[a] = "Ready" /\ owner[a] = w
       THEN /\ quarantineKey' = [quarantineKey EXCEPT ![a] = FALSE]
            /\ Unlease(a)
            /\ Enter(w, a, "none")
            /\ UNCHANGED <<state, target, bound, etag, readyKey, attempts,
                           elapsed, companyFile, storeVars, faults>>
       ELSE Drop(w, a)
    /\ UNCHANGED requestVars

(* MarkRejectedForDeleteAsync: whatever the state, if the lease is ours. *)
MarkRejectedForDelete(a, t) ==
    /\ state' = [state EXCEPT ![a] = "DeletePending"]
    /\ target' = [target EXCEPT ![a] = t]
    /\ elapsed' = [elapsed EXCEPT ![a] = FALSE]
    /\ Unlease(a)
    /\ UNCHANGED <<bound, etag, readyKey, quarantineKey, attempts, companyFile>>

Reject(w, a) ==
    /\ phase[w][a] = "reject"
    /\ IF owner[a] = w
       THEN /\ MarkRejectedForDelete(a, "Rejected")
            /\ Acknowledge(w, a, "none", "retry")
            /\ UNCHANGED storeVars
       ELSE Drop(w, a)
    /\ UNCHANGED requestVars

(* ReleaseScanForRetryAsync: whatever the state, if the lease is ours. *)
ReleaseForRetry(a, consumed) ==
    /\ attempts' = [attempts EXCEPT ![a] = @ + consumed]
    /\ Unlease(a)
    /\ UNCHANGED <<state, target, bound, etag, readyKey, quarantineKey,
                   elapsed, companyFile>>

Exhausted(a) == attempts[a] + 1 >= MaxAttempts

(* RetryOrFailAsync with consumeAttempt.  The attempt count the worker read
   is the row's as long as the lease is its own; otherwise nothing is written. *)
RetryOrFail(w, a) ==
    /\ phase[w][a] = "retry"
    /\ IF owner[a] # w
       THEN Drop(w, a)
       ELSE /\ IF Exhausted(a)
               THEN MarkRejectedForDelete(
                        a, IF Structural THEN "Rejected" ELSE "ScanFailed")
               ELSE ReleaseForRetry(a, 1)
            /\ Enter(w, a, "none")
            /\ UNCHANGED <<storeVars, faults>>
    /\ UNCHANGED requestVars

(* RetryOrFailAsync without consumeAttempt. *)
Defer(w, a) ==
    /\ phase[w][a] = "defer"
    /\ IF owner[a] # w
       THEN Drop(w, a)
       ELSE /\ ReleaseForRetry(a, 0)
            /\ Enter(w, a, "none")
            /\ UNCHANGED <<storeVars, faults>>
    /\ UNCHANGED requestVars

----------------------------------------------------------------------------
(* AttachmentCleanupWorker. *)

(* Mutant: attachments of messages are left alone. *)
UnboundCopy(a) == state[a] = "Ready" /\ quarantineKey[a] /\ ~elapsed[a] /\ ~bound[a]

HasCopy(a) == state[a] = "Ready" /\ quarantineKey[a] /\ ~elapsed[a]

(* ClaimReadyQuarantineCleanupBatchAsync. *)
ClaimReadyQuarantine(c, S) ==
    /\ \A a \in S : HasCopy(a)
    /\ Claim(c, S, [a \in S |-> "dropCopy"])
    /\ UNCHANGED <<state, target, bound, etag, readyKey, quarantineKey, attempts,
                   elapsed, companyFile, storeVars, requestVars, faults>>

(* Mutant: only uploads are ever abandoned. *)
DueUnlessReady(a) ==
    \/ state[a] = "DeletePending"
    \/ state[a] = "PendingUpload" /\ elapsed[a]

(* Deletions asked for, uploads abandoned for an hour, ready attachments
   (bound or not) past expires_at. *)
Due(a) ==
    \/ state[a] = "DeletePending"
    \/ state[a] \in {"PendingUpload", "Ready"} /\ elapsed[a]

(* ClaimCleanupBatchAsync. *)
ClaimCleanup(c, S) ==
    /\ \A a \in S : Due(a)
    /\ Claim(c, S, [a \in S |-> "deleteReady"])
    /\ state' = [a \in Attachments |->
                    IF a \in S THEN "DeletePending" ELSE state[a]]
    /\ target' = [a \in Attachments |->
                    IF a \notin S THEN target[a]
                    ELSE CASE state[a] = "PendingUpload" -> "Deleted"
                           [] state[a] = "Ready" -> "Expired"
                           [] OTHER -> target[a]]
    /\ elapsed' = [a \in Attachments |-> elapsed[a] /\ a \notin S]
    /\ UNCHANGED <<bound, etag, readyKey, quarantineKey, attempts, companyFile,
                   storeVars, requestVars, faults>>

(* ProcessDeletionAsync: the ready object, the quarantine object, the row.
   The keys the claim returned are the row's: nothing sets them any more. *)
DeleteReady(c, a) ==
    /\ phase[c][a] = "deleteReady"
    /\ IF readyKey[a]
       THEN /\ ready' = [ready EXCEPT ![a] = Nothing]
            /\ late' = [late EXCEPT ![a] = @ \ {"ready"}]
       ELSE UNCHANGED <<ready, late>>
    /\ Enter(c, a, "deleteQuarantine")
    /\ UNCHANGED <<rowVars, quarantine, requestVars, faults>>

DeleteQuarantine(c, a) ==
    /\ phase[c][a] = "deleteQuarantine"
    /\ IF quarantineKey[a]
       THEN /\ quarantine' = [quarantine EXCEPT ![a] = Nothing]
            /\ late' = [late EXCEPT ![a] = @ \ {"quarantine"}]
       ELSE UNCHANGED <<quarantine, late>>
    /\ Enter(c, a, "finalize")
    /\ UNCHANGED <<rowVars, ready, requestVars, faults>>

(* FinalizeDeletionAsync, with the company file of a bound attachment. *)
FinalizeDeletion(c, a) ==
    /\ phase[c][a] = "finalize"
    /\ IF state[a] = "DeletePending" /\ owner[a] = c
       THEN /\ state' = [state EXCEPT ![a] = target[a]]
            /\ target' = [target EXCEPT ![a] = Nothing]
            /\ companyFile' = [companyFile EXCEPT
                                  ![a] = IF bound[a] THEN "inactive" ELSE @]
            /\ Unlease(a)
            /\ Acknowledge(c, a, "none", "release")
            /\ UNCHANGED <<bound, etag, readyKey, quarantineKey, attempts,
                           elapsed, storeVars>>
       ELSE Drop(c, a)
    /\ UNCHANGED requestVars

(* ReleaseDeletionForRetryAsync and, for the copy of a Ready attachment,
   ReleaseReadyQuarantineCleanupForRetryAsync. *)
ReleaseCleanup(c, a) ==
    /\ phase[c][a] \in {"release", "releaseCopy"}
    /\ IF /\ owner[a] = c
          /\ IF phase[c][a] = "release" THEN state[a] = "DeletePending"
             ELSE state[a] = "Ready" /\ quarantineKey[a]
       THEN /\ Unlease(a)
            /\ Enter(c, a, "none")
            /\ UNCHANGED <<state, target, bound, etag, readyKey, quarantineKey,
                           attempts, elapsed, companyFile, storeVars, faults>>
       ELSE Drop(c, a)
    /\ UNCHANGED requestVars

----------------------------------------------------------------------------
(* Failures and time. *)

(* Mutant: a failed file deletion is logged and passed over. *)
OnExceptionPassOver(p) ==
    CASE p \in {"dropQuarantine", "clearQuarantine"} -> "none"
      [] p \in {"deleteReady", "deleteQuarantine"} -> "finalize"
      [] p = "finalize" -> "release"
      [] p \in {"dropCopy", "clearCopy"} -> "releaseCopy"
      [] OTHER -> "retry"

(* Where an exception from the current call sends the worker.  A failure of
   the retry bookkeeping itself escapes and stops the host: that is Crash. *)
OnException(p) ==
    CASE p \in {"dropQuarantine", "clearQuarantine"} -> "none"
      [] p \in {"deleteReady", "deleteQuarantine", "finalize"} -> "release"
      [] p \in {"dropCopy", "clearCopy"} -> "releaseCopy"
      [] OTHER -> "retry"

(* The current call throws without an effect. *)
CallFails(w, a) ==
    /\ phase[w][a] \notin {"none", "retry", "release", "releaseCopy"}
    /\ Fault
    /\ Enter(w, a, OnException(phase[w][a]))
    /\ UNCHANGED <<rowVars, storeVars, requestVars>>

(* Three minutes pass: for free once nobody works on the attachment under
   this lease, as a fault while its owner still does. *)
LeaseLapses(a) ==
    /\ leased[a]
    /\ leased' = [leased EXCEPT ![a] = FALSE]
    /\ IF phase[owner[a]][a] = "none" THEN UNCHANGED faults ELSE Fault
    /\ UNCHANGED <<state, owner, target, bound, etag, readyKey, quarantineKey,
                   attempts, elapsed, companyFile, storeVars, requestVars, phase>>

DeadlinePasses(a) ==
    /\ state[a] \in {"PendingUpload", "Ready"}
    /\ ~elapsed[a]
    /\ elapsed' = [elapsed EXCEPT ![a] = TRUE]
    /\ UNCHANGED <<state, owner, leased, target, bound, etag, readyKey,
                   quarantineKey, attempts, companyFile, storeVars, requestVars,
                   phase, faults>>

----------------------------------------------------------------------------
Request ==
    \/ \E a \in Attachments :
          \/ CreateIntent(a) \/ BeginComplete(a) \/ Cancel(a)
          \/ \E c \in Contents : \/ BeginUpload(a, c) \/ FinishUpload(a, c)
                                 \/ AbortUpload(a, c) \/ Complete(a, c)
    \/ \E S \in SUBSET Attachments : Bind(S)

(* One call of a worker on an attachment it claimed. *)
ProcessorStep(w, a) ==
    \/ ReadQuarantine(w, a) \/ MarkStructurallyValidated(w, a)
    \/ MarkPromoting(w, a) \/ CheckStore(w, a) \/ WriteReady(w, a)
    \/ HeadReady(w, a) \/ MarkReady(w, a) \/ Reject(w, a)
    \/ RetryOrFail(w, a) \/ Defer(w, a)

CleanerStep(c, a) ==
    \/ DeleteReady(c, a) \/ DeleteQuarantine(c, a)
    \/ FinalizeDeletion(c, a) \/ ReleaseCleanup(c, a)

QuarantineStep(w, a) ==
    \/ DropQuarantine(w, a) \/ CompleteReadyQuarantineCleanup(w, a)

WorkerStep(w, a) ==
    \/ w \in Processors /\ ProcessorStep(w, a)
    \/ w \in Cleaners /\ CleanerStep(w, a)
    \/ QuarantineStep(w, a)

ClaimStep(S) ==
    \/ \E w \in Processors : ClaimProcessing(w, S)
    \/ \E c \in Cleaners : ClaimReadyQuarantine(c, S) \/ ClaimCleanup(c, S)

Time(a) == LeaseLapses(a) \/ DeadlinePasses(a)

Next ==
    \/ Request
    \/ \E S \in SUBSET Attachments : ClaimStep(S)
    \/ \E w \in Workers, a \in Attachments :
          WorkerStep(w, a) \/ ScannerDown(w, a) \/ CallFails(w, a)
    \/ \E w \in Workers : Crash(w)
    \/ \E a \in Attachments : Time(a)

Spec == Init /\ [][Next]_vars

(* The workers poll for ever and a lease is a wall-clock interval; crashes and
   failed calls are bounded by MaxFaults.  Users owe nothing. *)
Fairness ==
    /\ \A w \in Workers, a \in Attachments : WF_vars(WorkerStep(w, a))
    /\ \A a \in Attachments :
          /\ WF_vars(\E w \in Processors, S \in SUBSET Attachments :
                        a \in S /\ ClaimProcessing(w, S))
          /\ WF_vars(\E c \in Cleaners, S \in SUBSET Attachments :
                        a \in S /\ (ClaimReadyQuarantine(c, S) \/ ClaimCleanup(c, S)))
          /\ WF_vars(LeaseLapses(a) /\ UNCHANGED faults)

FairSpec == Spec /\ Fairness

----------------------------------------------------------------------------
(* Safety. *)

(* What a reader of a Ready attachment is sent exists and is the validated
   content that the row describes, however claims, late writes, cancellations
   and deletions interleave (OpenContentAsync reads row, then object). *)
ReadyIsServable ==
    \A a \in Attachments :
        state[a] = "Ready" => readyKey[a] /\ ready[a] = etag[a] /\ ready[a] \in Clean

(* Until an attachment is published its upload, the only copy a retry can
   start from, stays in quarantine as it was completed. *)
SourceRetained ==
    \A a \in Attachments :
        state[a] \in InProgress => quarantine[a] = etag[a] /\ etag[a] # Nothing

(* A row that is done has no object left in the store that was there when its
   deletion was decided, through crashes, failed calls and repeated attempts of
   ProcessDeletionAsync.  What a worker or an upload writes after it has lost the
   row (and after the last deletion of that place) is not found again. *)
ReleasedStorageIsGone ==
    \A a \in Attachments :
        state[a] \in Terminal =>
            /\ quarantine[a] # Nothing => "quarantine" \in late[a]
            /\ ready[a] # Nothing => "ready" \in late[a]

(* A deletion once decided is never undone, by a worker that finishes late
   or otherwise, and its outcome is final. *)
DeletionIsOneWay ==
    [][\A a \in Attachments :
          /\ state[a] = "DeletePending" => state'[a] \in {"DeletePending"} \cup Terminal
          /\ state[a] \in Terminal => state'[a] = state[a]]_vars

(* A message keeps a Ready attachment until its retention ends; what the code
   does allow besides is a worker giving up on an attachment it has published,
   because the acknowledgement of MarkReadyAsync was lost. *)
RetentionUnlessUnacknowledged ==
    [][\A a \in Attachments :
          bound[a] /\ state[a] = "Ready" /\ state'[a] # "Ready"
          => \/ elapsed[a]
             \/ owner[a] \in Processors /\ phase[owner[a]][a] = "retry"]_vars

(* No valid upload is refused because steps of users, workers and deadlines met in
   some order: something has failed before (a call, a process, or a lease that ran
   out under its worker), or scanning met a file whose canonical
   form has another size. *)
CleanIsNotRefused ==
    \A a \in Attachments :
        {state[a], target[a]} \cap {"Rejected", "ScanFailed"} # {}
        => etag[a] \notin Clean \/ faults > 0 \/ ~Writable(etag[a])

(* The retention floor itself: a Ready attachment bound to a message leaves
   Ready only after expires_at (bound_at + 365 days). *)
BoundRetentionFloor ==
    [][\A a \in Attachments :
          bound[a] /\ state[a] = "Ready" /\ state'[a] # "Ready" => elapsed[a]]_vars

----------------------------------------------------------------------------
(* The inductive invariant behind ReadyIsServable, SourceRetained and
   DeletionIsOneWay: what a worker learnt in an earlier call still holds of the
   row and of the store, or the row is past caring. *)

Gone == {"DeletePending"} \cup Terminal
Published == {"Ready"} \cup Gone

RowInv(a) ==
    /\ state[a] = "Absent" => completing[a] = {}
    /\ state[a] \in {"Absent", "PendingUpload"} => etag[a] = Nothing
    /\ state[a] = "PendingUpload" => \A c \in completing[a] : quarantine[a] = c
    /\ state[a] \in InProgress => quarantine[a] = etag[a] /\ etag[a] # Nothing
    /\ state[a] \in {"StructurallyValidated", "Promoting", "Ready"}
       => readyKey[a] /\ etag[a] \in Clean
    /\ state[a] = "Ready" => ready[a] # Nothing
    /\ ready[a] \in {Nothing, etag[a]}
    /\ state[a] = "DeletePending" => target[a] \in Terminal
    /\ state[a] \in Terminal => owner[a] = Nothing

PhaseInv(w, a) ==
    /\ phase[w][a] \in {"markValidated", "markPromoting"} => etag[a] \in Clean
    /\ phase[w][a] = "markReady" => ready[a] # Nothing \/ state[a] \in Gone
    /\ phase[w][a] \in {"dropQuarantine", "clearQuarantine"} \cup ReadyCleanupPhases
       => state[a] \in Published
    /\ phase[w][a] \in DeletionPhases => state[a] \in Gone

(* What rows, objects and the workers' positions have to do with each other. *)
LifecycleInv == \A a \in Attachments : RowInv(a) /\ \A w \in Workers : PhaseInv(w, a)

----------------------------------------------------------------------------
(* Liveness, under FairSpec. *)

(* Every completed upload is decided: published, or on its way out. *)
UploadIsDecided ==
    \A a \in Attachments : state[a] \in InProgress ~> state[a] \notin InProgress

(* Every deletion asked for is carried out. *)
DeletionCompletes ==
    \A a \in Attachments : state[a] = "DeletePending" ~> state[a] \in Terminal

(* The quarantine copy of a published attachment does not stay for good. *)
QuarantineCopyReleased ==
    \A a \in Attachments :
        state[a] = "Ready" /\ quarantineKey[a]
        ~> state[a] # "Ready" \/ ~quarantineKey[a]

(* Abandoned uploads and expired attachments are collected, unless the user
   completes or binds them first. *)
DeadlineIsActedOn == \A a \in Attachments : elapsed[a] ~> ~elapsed[a]

(* What is to be deleted is, in the end: ProcessDeletionAsync, DeleteReadyQuarantineAsync
   and ClaimCleanupBatchAsync leave nothing for good, whatever fails on the way. *)
CleanupCompletes == DeletionCompletes /\ QuarantineCopyReleased /\ DeadlineIsActedOn

----------------------------------------------------------------------------
(* What all this amounts to for those who use attachments. *)

Stage(s) ==
    CASE s = "Absent" -> "absent"
      [] s = "Ready" -> "available"
      [] s = "DeletePending" -> "withdrawn"
      [] s \in Terminal -> "gone"
      [] OTHER -> "pending"

Shown(a) == IF state[a] = "Ready" THEN ready[a] ELSE Nothing

Listed == {a \in Attachments : companyFile[a] = "active"}

Promise == INSTANCE AttachmentPromise WITH
    stage <- [a \in Attachments |-> Stage(state[a])],
    content <- [a \in Attachments |-> Shown(a)],
    attached <- bound,
    listed <- Listed

(* Every step of rows, files and workers is a step of the promise or none. *)
PromiseIsKept == Promise!Spec
============================================================================
