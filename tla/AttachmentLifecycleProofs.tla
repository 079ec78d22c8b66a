--------------------- MODULE AttachmentLifecycleProofs ---------------------
(* Theorems about AttachmentLifecycle, for any attachments, workers, contents
   and bounds.  The argument is LifecycleInv, and WorkInv for
   what is left in the store; README.md tells it in words. *)
EXTENDS AttachmentQuotas, FiniteSetTheorems, TLAPS

USE DEF rowVars, storeVars, requestVars

(* The states and phases that the actions write are states and phases. *)
LEMMA Names ==
  /\ InProgress \cup Terminal \cup {"Absent", "PendingUpload", "Ready", "DeletePending"}
     \subseteq States
  /\ {"Uploaded", "StructuralValidation", "StructurallyValidated", "Scanning",
      "Promoting"} \subseteq States
  /\ {"Deleted", "Expired", "Rejected", "ScanFailed"} \subseteq Terminal
  /\ {"none", "read", "readValidated", "readPromoting", "markValidated",
      "markPromoting", "checkStore", "writeReady", "headReady", "markReady",
      "dropQuarantine", "clearQuarantine", "reject", "retry", "defer",
      "deleteReady", "deleteQuarantine", "finalize", "release",
      "dropCopy", "clearCopy", "releaseCopy"} \subseteq Phases
  /\ Processors \subseteq Workers
  /\ Cleaners \subseteq Workers
BY DEF InProgress, Terminal, States, ProcessorPhases, DeletionPhases,
       ReadyCleanupPhases, Phases, Workers

LEMMA TypeInit == Init => TypeOK
BY ConstantsAssumption, Names DEF Init, TypeOK

----------------------------------------------------------------------------
(* Type correctness, one lemma per kind of step. *)

LEMMA TypeRequest ==
  ASSUME TypeOK, NEW a \in Attachments,
         CreateIntent(a) \/ BeginComplete(a) \/ Cancel(a)
  PROVE  TypeOK'
<1>. USE Names DEF TypeOK
<1>1. CASE CreateIntent(a)
  BY <1>1 DEF CreateIntent
<1>2. CASE BeginComplete(a)
  BY <1>2 DEF BeginComplete
<1>3. CASE Cancel(a)
  BY <1>3 DEF Cancel
<1>. QED
  BY <1>1, <1>2, <1>3

LEMMA TypeUpload ==
  ASSUME TypeOK, NEW a \in Attachments, NEW c \in Contents,
         BeginUpload(a, c) \/ FinishUpload(a, c) \/ AbortUpload(a, c) \/ Complete(a, c)
  PROVE  TypeOK'
<1>. USE Names DEF TypeOK
<1>1. CASE BeginUpload(a, c)
  BY <1>1 DEF BeginUpload
<1>2. CASE FinishUpload(a, c)
  BY SMTT(30), <1>2 DEF FinishUpload
<1>3. CASE AbortUpload(a, c)
  BY <1>3 DEF AbortUpload
<1>4. CASE Complete(a, c)
  <2>1. completing' \in [Attachments -> SUBSET Contents]
    BY <1>4 DEF Complete
  <2>2. state' \in [Attachments -> States]
    BY <1>4 DEF Complete
  <2>3. etag' \in [Attachments -> Contents \cup {Nothing}]
    BY <1>4 DEF Complete
  <2>4. elapsed' \in [Attachments -> BOOLEAN]
    BY <1>4 DEF Complete
  <2>. QED
    BY <1>4, <2>1, <2>2, <2>3, <2>4 DEF Complete
<1>. QED
  BY <1>1, <1>2, <1>3, <1>4

LEMMA TypeBind ==
  ASSUME TypeOK, NEW S \in SUBSET Attachments, Bind(S)
  PROVE  TypeOK'
BY DEF TypeOK, Bind

LEMMA EnterType ==
  ASSUME TypeOK, NEW w \in Workers, NEW a \in Attachments, NEW p \in Phases,
         Enter(w, a, p)
  PROVE  phase' \in [Workers -> [Attachments -> Phases]]
BY DEF TypeOK, Enter

LEMMA FaultType == ASSUME TypeOK, Fault PROVE faults' \in 0 .. MaxFaults
BY ConstantsAssumption DEF TypeOK, Fault

LEMMA AcknowledgeType ==
  ASSUME TypeOK, NEW w \in Workers, NEW a \in Attachments,
         NEW p \in Phases, NEW q \in Phases, Acknowledge(w, a, p, q)
  PROVE  /\ phase' \in [Workers -> [Attachments -> Phases]]
         /\ faults' \in 0 .. MaxFaults
<1>1. CASE Enter(w, a, p) /\ UNCHANGED faults
  BY <1>1, EnterType DEF TypeOK
<1>2. CASE Enter(w, a, q) /\ Fault
  BY <1>2, EnterType, FaultType
<1>. QED
  BY <1>1, <1>2 DEF Acknowledge

LEMMA DropType ==
  ASSUME TypeOK, NEW w \in Workers, NEW a \in Attachments, Drop(w, a),
         UNCHANGED requestVars
  PROVE  TypeOK'
<1>1. phase' \in [Workers -> [Attachments -> Phases]]
  BY EnterType, Names DEF Drop
<1>. QED
  BY <1>1 DEF TypeOK, Drop

LEMMA UnleaseType ==
  ASSUME TypeOK, NEW a \in Attachments, Unlease(a)
  PROVE  /\ owner' \in [Attachments -> Workers \cup {Nothing}]
         /\ leased' \in [Attachments -> BOOLEAN]
BY DEF TypeOK, Unlease

LEMMA RejectedType ==
  ASSUME TypeOK, NEW a \in Attachments, NEW t \in Terminal,
         MarkRejectedForDelete(a, t), UNCHANGED <<storeVars, requestVars>>,
         phase' \in [Workers -> [Attachments -> Phases]],
         faults' \in 0 .. MaxFaults
  PROVE  TypeOK'
<1>1. state' \in [Attachments -> States]
  BY Names DEF TypeOK, MarkRejectedForDelete
<1>2. /\ owner' \in [Attachments -> Workers \cup {Nothing}]
      /\ leased' \in [Attachments -> BOOLEAN]
  BY UnleaseType DEF MarkRejectedForDelete
<1>. QED
  BY <1>1, <1>2 DEF TypeOK, MarkRejectedForDelete

LEMMA ReleasedType ==
  ASSUME TypeOK, NEW a \in Attachments, NEW n \in {0, 1},
         attempts[a] + n < MaxAttempts,
         ReleaseForRetry(a, n), UNCHANGED <<storeVars, requestVars, faults>>,
         phase' \in [Workers -> [Attachments -> Phases]]
  PROVE  TypeOK'
<1>1. attempts' \in [Attachments -> 0 .. MaxAttempts - 1]
  BY ConstantsAssumption DEF TypeOK, ReleaseForRetry
<1>2. /\ owner' \in [Attachments -> Workers \cup {Nothing}]
      /\ leased' \in [Attachments -> BOOLEAN]
  BY UnleaseType DEF ReleaseForRetry
<1>. QED
  BY <1>1, <1>2 DEF TypeOK, ReleaseForRetry

LEMMA TypeProcessor ==
  ASSUME TypeOK, NEW w \in Processors, NEW a \in Attachments, ProcessorStep(w, a)
  PROVE  TypeOK'
<1>. USE ConstantsAssumption, Names DEF TypeOK
<1>1. CASE ReadQuarantine(w, a)
  <2>1. PICK p \in Phases : Enter(w, a, p)
    BY <1>1 DEF ReadQuarantine, AfterRead
  <2>2. phase' \in [Workers -> [Attachments -> Phases]]
    BY <2>1, EnterType
  <2>. QED
    BY <1>1, <2>2 DEF ReadQuarantine
<1>2. CASE MarkStructurallyValidated(w, a)
  <2>1. CASE state[a] = "StructuralValidation" /\ owner[a] = w
    <3>1. /\ phase' \in [Workers -> [Attachments -> Phases]]
          /\ faults' \in 0 .. MaxFaults
      BY <1>2, <2>1, AcknowledgeType DEF MarkStructurallyValidated
    <3>2. state' \in [Attachments -> States]
      BY <1>2, <2>1 DEF MarkStructurallyValidated
    <3>. QED
      BY ZenonT(40), <1>2, <2>1, <3>1, <3>2 DEF MarkStructurallyValidated
  <2>2. CASE ~(state[a] = "StructuralValidation" /\ owner[a] = w)
    BY <1>2, <2>2, DropType DEF MarkStructurallyValidated
  <2>. QED
    BY <2>1, <2>2
<1>3. CASE MarkPromoting(w, a)
  <2>1. CASE state[a] \in {"Scanning", "StructurallyValidated"} /\ owner[a] = w
    <3>1. /\ phase' \in [Workers -> [Attachments -> Phases]]
          /\ faults' \in 0 .. MaxFaults
      BY <1>3, <2>1, AcknowledgeType DEF MarkPromoting
    <3>2. state' \in [Attachments -> States]
      BY <1>3, <2>1 DEF MarkPromoting
    <3>. QED
      BY ZenonT(40), <1>3, <2>1, <3>1, <3>2 DEF MarkPromoting
  <2>2. CASE ~(state[a] \in {"Scanning", "StructurallyValidated"} /\ owner[a] = w)
    BY <1>3, <2>2, DropType DEF MarkPromoting
  <2>. QED
    BY <2>1, <2>2
<1>4. CASE CheckStore(w, a)
  <2>1. PICK p \in Phases : Enter(w, a, p)
    BY <1>4 DEF CheckStore
  <2>2. phase' \in [Workers -> [Attachments -> Phases]]
    BY <2>1, EnterType
  <2>. QED
    BY <1>4, <2>2 DEF CheckStore
<1>5. CASE WriteReady(w, a)
  <2>1. phase' \in [Workers -> [Attachments -> Phases]]
    BY <1>5, EnterType DEF WriteReady
  <2>2. ready' \in [Attachments -> Contents \cup {Nothing}]
    BY <1>5 DEF WriteReady
  <2>3. late' \in [Attachments -> SUBSET {"quarantine", "ready"}]
    BY <1>5 DEF WriteReady
  <2>. QED
    BY <1>5, <2>1, <2>2, <2>3 DEF WriteReady
<1>6. CASE HeadReady(w, a)
  <2>1. PICK p \in Phases : Enter(w, a, p)
    BY <1>6 DEF HeadReady
  <2>2. phase' \in [Workers -> [Attachments -> Phases]]
    BY <2>1, EnterType
  <2>. QED
    BY <1>6, <2>2 DEF HeadReady
<1>7. CASE MarkReady(w, a)
  <2>1. CASE Publishable(w, a)
    <3>1. /\ phase' \in [Workers -> [Attachments -> Phases]]
          /\ faults' \in 0 .. MaxFaults
      BY <1>7, <2>1, AcknowledgeType DEF MarkReady
    <3>2. state' \in [Attachments -> States]
      BY <1>7, <2>1 DEF MarkReady
    <3>. QED
      BY ZenonT(40), <1>7, <2>1, <3>1, <3>2 DEF MarkReady
  <2>2. CASE ~Publishable(w, a)
    BY <1>7, <2>2, DropType DEF MarkReady
  <2>. QED
    BY <2>1, <2>2
<1>8. CASE Reject(w, a)
  <2>1. CASE owner[a] = w
    <3>1. /\ phase' \in [Workers -> [Attachments -> Phases]]
          /\ faults' \in 0 .. MaxFaults
      BY <1>8, <2>1, AcknowledgeType DEF Reject
    <3>. QED
      BY <1>8, <2>1, <3>1, RejectedType DEF Reject
  <2>2. CASE owner[a] # w
    BY <1>8, <2>2, DropType DEF Reject
  <2>. QED
    BY <2>1, <2>2
<1>9. CASE RetryOrFail(w, a)
  <2>1. CASE owner[a] # w
    BY <1>9, <2>1, DropType DEF RetryOrFail
  <2>2. CASE owner[a] = w /\ Exhausted(a)
    <3>1. phase' \in [Workers -> [Attachments -> Phases]]
      BY <1>9, <2>2, EnterType DEF RetryOrFail
    <3>. QED
      BY <1>9, <2>2, <3>1, RejectedType DEF RetryOrFail
  <2>3. CASE owner[a] = w /\ ~Exhausted(a)
    <3>1. phase' \in [Workers -> [Attachments -> Phases]]
      BY <1>9, <2>3, EnterType DEF RetryOrFail
    <3>. QED
      BY SMTT(30), <1>9, <2>3, <3>1, ReleasedType DEF RetryOrFail, Exhausted
  <2>. QED
    BY <2>1, <2>2, <2>3
<1>10. CASE Defer(w, a)
  <2>1. CASE owner[a] = w
    <3>1. phase' \in [Workers -> [Attachments -> Phases]]
      BY <1>10, <2>1, EnterType DEF Defer
    <3>. QED
      BY <1>10, <2>1, <3>1, ReleasedType DEF Defer
  <2>2. CASE owner[a] # w
    BY <1>10, <2>2, DropType DEF Defer
  <2>. QED
    BY <2>1, <2>2
<1>. QED
  BY <1>1, <1>2, <1>3, <1>4, <1>5, <1>6, <1>7, <1>8, <1>9, <1>10
     DEF ProcessorStep

LEMMA TypeCleaner ==
  ASSUME TypeOK, LifecycleInv, NEW c \in Cleaners, NEW a \in Attachments, CleanerStep(c, a)
  PROVE  TypeOK'
<1>. USE Names DEF TypeOK
<1>1. CASE DeleteReady(c, a)
  <2>1. phase' \in [Workers -> [Attachments -> Phases]]
    BY <1>1, EnterType DEF DeleteReady
  <2>2. ready' \in [Attachments -> Contents \cup {Nothing}]
    BY <1>1 DEF DeleteReady
  <2>. QED
    BY <1>1, <2>1, <2>2 DEF DeleteReady
<1>2. CASE DeleteQuarantine(c, a)
  <2>1. phase' \in [Workers -> [Attachments -> Phases]]
    BY <1>2, EnterType DEF DeleteQuarantine
  <2>2. quarantine' \in [Attachments -> Contents \cup {Nothing}]
    BY <1>2 DEF DeleteQuarantine
  <2>. QED
    BY <1>2, <2>1, <2>2 DEF DeleteQuarantine
<1>3. CASE FinalizeDeletion(c, a)
  <2>1. CASE state[a] = "DeletePending" /\ owner[a] = c
    <3>1. /\ phase' \in [Workers -> [Attachments -> Phases]]
          /\ faults' \in 0 .. MaxFaults
      BY <1>3, <2>1, AcknowledgeType DEF FinalizeDeletion
    <3>2. /\ owner' \in [Attachments -> Workers \cup {Nothing}]
          /\ leased' \in [Attachments -> BOOLEAN]
      BY <1>3, <2>1, UnleaseType DEF FinalizeDeletion
    <3>3. /\ state' \in [Attachments -> States]
          /\ target' \in [Attachments -> Terminal \cup {Nothing}]
      BY SMTT(30), <1>3, <2>1 DEF FinalizeDeletion, LifecycleInv, RowInv
    <3>4. companyFile' \in [Attachments -> {"absent", "active", "inactive"}]
      BY <1>3, <2>1 DEF FinalizeDeletion
    <3>. QED
      BY <1>3, <2>1, <3>1, <3>2, <3>3, <3>4 DEF FinalizeDeletion
  <2>2. CASE ~(state[a] = "DeletePending" /\ owner[a] = c)
    BY <1>3, <2>2, DropType DEF FinalizeDeletion
  <2>. QED
    BY <2>1, <2>2
<1>4. CASE ReleaseCleanup(c, a)
  <2>1. CASE Drop(c, a)
    BY <1>4, <2>1, DropType DEF ReleaseCleanup
  <2>2. CASE Unlease(a) /\ Enter(c, a, "none") /\ ~Drop(c, a)
    <3>1. phase' \in [Workers -> [Attachments -> Phases]]
      BY <2>2, EnterType
    <3>2. /\ owner' \in [Attachments -> Workers \cup {Nothing}]
          /\ leased' \in [Attachments -> BOOLEAN]
      BY <2>2, UnleaseType
    <3>. QED
      BY <1>4, <2>2, <3>1, <3>2 DEF ReleaseCleanup
  <2>. QED
    BY <1>4, <2>1, <2>2 DEF ReleaseCleanup
<1>. QED
  BY <1>1, <1>2, <1>3, <1>4 DEF CleanerStep

LEMMA TypeQuarantine ==
  ASSUME TypeOK, NEW w \in Workers, NEW a \in Attachments, QuarantineStep(w, a)
  PROVE  TypeOK'
<1>. USE ConstantsAssumption, Names DEF TypeOK
<1>1. CASE DropQuarantine(w, a)
  <2>1. phase' \in [Workers -> [Attachments -> Phases]]
    BY <1>1, EnterType DEF DropQuarantine
  <2>2. quarantine' \in [Attachments -> Contents \cup {Nothing}]
    BY <1>1 DEF DropQuarantine
  <2>. QED
    BY <1>1, <2>1, <2>2 DEF DropQuarantine
<1>2. CASE CompleteReadyQuarantineCleanup(w, a)
  <2>1. CASE state[a] = "Ready" /\ owner[a] = w
    <3>1. phase' \in [Workers -> [Attachments -> Phases]]
      BY <1>2, <2>1, EnterType DEF CompleteReadyQuarantineCleanup
    <3>2. /\ owner' \in [Attachments -> Workers \cup {Nothing}]
          /\ leased' \in [Attachments -> BOOLEAN]
      BY <1>2, <2>1, UnleaseType DEF CompleteReadyQuarantineCleanup
    <3>. QED
      BY ZenonT(40), <1>2, <2>1, <3>1, <3>2 DEF CompleteReadyQuarantineCleanup
  <2>2. CASE ~(state[a] = "Ready" /\ owner[a] = w)
    BY <1>2, <2>2, DropType DEF CompleteReadyQuarantineCleanup
  <2>. QED
    BY <2>1, <2>2
<1>. QED
  BY <1>1, <1>2 DEF QuarantineStep

LEMMA ClaimType ==
  ASSUME TypeOK, NEW w \in Workers, NEW S \in SUBSET Attachments,
         NEW first \in [S -> Phases], Claim(w, S, first)
  PROVE  /\ owner' \in [Attachments -> Workers \cup {Nothing}]
         /\ leased' \in [Attachments -> BOOLEAN]
         /\ phase' \in [Workers -> [Attachments -> Phases]]
BY Names DEF TypeOK, Claim

LEMMA TypeClaim ==
  ASSUME TypeOK, NEW S \in SUBSET Attachments, ClaimStep(S)
  PROVE  TypeOK'
<1>1. ASSUME NEW w \in Processors, ClaimProcessing(w, S) PROVE TypeOK'
  <2>1. [a \in S |-> FirstPhase(state[a])] \in [S -> Phases]
    BY Names DEF FirstPhase
  <2>2. /\ owner' \in [Attachments -> Workers \cup {Nothing}]
        /\ leased' \in [Attachments -> BOOLEAN]
        /\ phase' \in [Workers -> [Attachments -> Phases]]
    BY <1>1, <2>1, ClaimType, Names DEF ClaimProcessing
  <2>3. state' \in [Attachments -> States]
    BY <1>1, Names DEF ClaimProcessing, ProcessingState, TypeOK
  <2>. QED
    BY <1>1, <2>2, <2>3 DEF ClaimProcessing, TypeOK
<1>2. ASSUME NEW c \in Cleaners, ClaimReadyQuarantine(c, S) PROVE TypeOK'
  <2>1. [a \in S |-> "dropCopy"] \in [S -> Phases]
    BY Names
  <2>2. /\ owner' \in [Attachments -> Workers \cup {Nothing}]
        /\ leased' \in [Attachments -> BOOLEAN]
        /\ phase' \in [Workers -> [Attachments -> Phases]]
    BY <1>2, <2>1, ClaimType, Names DEF ClaimReadyQuarantine
  <2>. QED
    BY <1>2, <2>2 DEF ClaimReadyQuarantine, TypeOK
<1>3. ASSUME NEW c \in Cleaners, ClaimCleanup(c, S) PROVE TypeOK'
  <2>1. [a \in S |-> "deleteReady"] \in [S -> Phases]
    BY Names
  <2>2. /\ owner' \in [Attachments -> Workers \cup {Nothing}]
        /\ leased' \in [Attachments -> BOOLEAN]
        /\ phase' \in [Workers -> [Attachments -> Phases]]
    BY <1>3, <2>1, ClaimType, Names DEF ClaimCleanup
  <2>3. /\ state' \in [Attachments -> States]
        /\ target' \in [Attachments -> Terminal \cup {Nothing}]
        /\ elapsed' \in [Attachments -> BOOLEAN]
    BY <1>3, Names DEF ClaimCleanup, TypeOK
  <2>. QED
    BY <1>3, <2>2, <2>3 DEF ClaimCleanup, TypeOK
<1>. QED
  BY <1>1, <1>2, <1>3 DEF ClaimStep

LEMMA TypeFault ==
  ASSUME TypeOK, NEW w \in Workers, NEW a \in Attachments,
         ScannerDown(w, a) \/ CallFails(w, a) \/ Crash(w)
  PROVE  TypeOK'
<1>1. faults' \in 0 .. MaxFaults
  BY FaultType DEF ScannerDown, CallFails, Crash
<1>2. CASE ScannerDown(w, a)
  <2>1. phase' \in [Workers -> [Attachments -> Phases]]
    BY <1>2, EnterType, Names DEF ScannerDown
  <2>. QED
    BY <1>1, <1>2, <2>1 DEF ScannerDown, TypeOK
<1>3. CASE CallFails(w, a)
  <2>1. OnException(phase[w][a]) \in Phases
    BY Names DEF OnException
  <2>2. phase' \in [Workers -> [Attachments -> Phases]]
    BY <1>3, <2>1, EnterType DEF CallFails
  <2>. QED
    BY <1>1, <1>3, <2>2 DEF CallFails, TypeOK
<1>4. CASE Crash(w)
  <2>1. phase' \in [Workers -> [Attachments -> Phases]]
    BY <1>4, Names DEF Crash, TypeOK
  <2>. QED
    BY <1>1, <1>4, <2>1 DEF Crash, TypeOK
<1>. QED
  BY <1>2, <1>3, <1>4

LEMMA TypeTime ==
  ASSUME TypeOK, NEW a \in Attachments, Time(a)
  PROVE  TypeOK'
<1>1. CASE LeaseLapses(a)
  <2>1. faults' \in 0 .. MaxFaults
    BY <1>1, FaultType DEF LeaseLapses, TypeOK
  <2>. QED
    BY <1>1, <2>1 DEF LeaseLapses, TypeOK
<1>2. CASE DeadlinePasses(a)
  BY <1>2 DEF DeadlinePasses, TypeOK
<1>. QED
  BY <1>1, <1>2 DEF Time

LEMMA TypeStep == TypeOK /\ LifecycleInv /\ [Next]_vars => TypeOK'
<1>. SUFFICES ASSUME TypeOK, LifecycleInv, [Next]_vars PROVE TypeOK'
  OBVIOUS
<1>1. CASE Request
  <2>1. CASE \E S \in SUBSET Attachments : Bind(S)
    BY <2>1, TypeBind
  <2>2. CASE \E a \in Attachments : CreateIntent(a) \/ BeginComplete(a) \/ Cancel(a)
    BY <2>2, TypeRequest
  <2>3. CASE \E a \in Attachments, c \in Contents :
                \/ BeginUpload(a, c) \/ FinishUpload(a, c)
                \/ AbortUpload(a, c) \/ Complete(a, c)
    BY <2>3, TypeUpload
  <2>. QED
    BY <1>1, <2>1, <2>2, <2>3 DEF Request
<1>2. CASE \E S \in SUBSET Attachments : ClaimStep(S)
  BY <1>2, TypeClaim
<1>3. CASE \E w \in Workers, a \in Attachments : WorkerStep(w, a)
  BY <1>3, TypeProcessor, TypeCleaner, TypeQuarantine DEF WorkerStep
<1>4. CASE \E w \in Workers, a \in Attachments : ScannerDown(w, a) \/ CallFails(w, a)
  BY <1>4, TypeFault
<1>5. CASE \E w \in Workers : Crash(w)
  <2>. PICK w \in Workers : Crash(w)
    BY <1>5
  <2>1. PICK a \in Attachments : TRUE
    BY DEF Crash, Idle
  <2>. QED
    BY <2>1, TypeFault
<1>6. CASE \E a \in Attachments : Time(a)
  BY <1>6, TypeTime
<1>7. CASE UNCHANGED vars
  BY <1>7 DEF vars, TypeOK
<1>. QED
  BY <1>1, <1>2, <1>3, <1>4, <1>5, <1>6, <1>7 DEF Next

----------------------------------------------------------------------------
(* LifecycleInv, one lemma per kind of step; b and v are any attachment and
   worker, the ones that take the step or others. *)

LEMMA LifecycleInit == Init => LifecycleInv
BY DEF Init, LifecycleInv, RowInv, PhaseInv, InProgress, Terminal, Gone,
       Published, DeletionPhases, ReadyCleanupPhases

LEMMA EnterPhase ==
  ASSUME TypeOK, NEW w \in Workers, NEW a \in Attachments, NEW p, Enter(w, a, p),
         NEW v \in Workers, NEW b \in Attachments
  PROVE  phase'[v][b] = IF v = w /\ b = a THEN p ELSE phase[v][b]
BY DEF TypeOK, Enter

LEMMA AcknowledgePhase ==
  ASSUME TypeOK, NEW w \in Workers, NEW a \in Attachments, NEW p, NEW q,
         Acknowledge(w, a, p, q), NEW v \in Workers, NEW b \in Attachments
  PROVE  phase'[v][b] \in IF v = w /\ b = a THEN {p, q} ELSE {phase[v][b]}
BY EnterPhase DEF Acknowledge

LEMMA DropInv ==
  ASSUME TypeOK, LifecycleInv, NEW w \in Workers, NEW a \in Attachments,
         Drop(w, a), UNCHANGED requestVars,
         NEW v \in Workers, NEW b \in Attachments
  PROVE  RowInv(b)' /\ PhaseInv(v, b)'
<1>1. phase'[v][b] \in {"none", phase[v][b]}
  BY EnterPhase DEF Drop
<1>. QED
  BY <1>1 DEF Drop, LifecycleInv, RowInv, PhaseInv, DeletionPhases, ReadyCleanupPhases

LEMMA RequestInv ==
  ASSUME TypeOK, LifecycleInv, Request, NEW v \in Workers, NEW b \in Attachments
  PROVE  RowInv(b)' /\ PhaseInv(v, b)'
<1>. USE ConstantsAssumption
     DEF TypeOK, LifecycleInv, RowInv, PhaseInv, InProgress, Terminal, Gone, Published
<1>1. CASE \E a \in Attachments : CreateIntent(a)
  BY <1>1 DEF CreateIntent
<1>2. CASE \E a \in Attachments : BeginComplete(a)
  BY <1>2 DEF BeginComplete
<1>3. CASE \E a \in Attachments : Cancel(a)
  BY <1>3 DEF Cancel, CanCancel, CancellableStates
<1>4. CASE \E a \in Attachments, c \in Contents : BeginUpload(a, c)
  BY <1>4 DEF BeginUpload
<1>5. CASE \E a \in Attachments, c \in Contents : FinishUpload(a, c)
  BY <1>5 DEF FinishUpload
<1>6. CASE \E a \in Attachments, c \in Contents : AbortUpload(a, c)
  BY <1>6 DEF AbortUpload
<1>7. CASE \E a \in Attachments, c \in Contents : Complete(a, c)
  BY <1>7 DEF Complete
<1>8. CASE \E S \in SUBSET Attachments : Bind(S)
  BY <1>8 DEF Bind, Bindable
<1>. QED
  BY <1>1, <1>2, <1>3, <1>4, <1>5, <1>6, <1>7, <1>8 DEF Request

(* The row goes to DeletePending under the worker that still owns it. *)
LEMMA RejectedInv ==
  ASSUME TypeOK, LifecycleInv, NEW a \in Attachments, NEW t \in Terminal,
         NEW w \in Workers, owner[a] = w,
         MarkRejectedForDelete(a, t), UNCHANGED <<storeVars, requestVars>>,
         NEW v \in Workers, NEW b \in Attachments,
         phase'[v][b] \in IF v = w /\ b = a THEN {"none", "retry"} ELSE {phase[v][b]}
  PROVE  RowInv(b)' /\ PhaseInv(v, b)'
<1>. USE DEF TypeOK, LifecycleInv, MarkRejectedForDelete, Unlease
<1>1. RowInv(b)'
  BY DEF RowInv, InProgress, Terminal
<1>2. PhaseInv(v, b)'
  BY SMTT(30) DEF PhaseInv, Gone, Published, DeletionPhases, ReadyCleanupPhases
<1>. QED
  BY <1>1, <1>2

LEMMA ReleasedInv ==
  ASSUME TypeOK, LifecycleInv, NEW a \in Attachments, NEW n,
         ReleaseForRetry(a, n), UNCHANGED <<storeVars, requestVars>>,
         NEW v \in Workers, NEW b \in Attachments,
         phase'[v][b] \in {"none", phase[v][b]}
  PROVE  RowInv(b)' /\ PhaseInv(v, b)'
<1>. USE DEF TypeOK, LifecycleInv, ReleaseForRetry, Unlease
<1>1. RowInv(b)'
  BY DEF RowInv
<1>2. PhaseInv(v, b)'
  BY DEF PhaseInv, DeletionPhases, ReadyCleanupPhases
<1>. QED
  BY <1>1, <1>2

LEMMA ProcessorInv ==
  ASSUME TypeOK, LifecycleInv, NEW w \in Processors, NEW a \in Attachments,
         ProcessorStep(w, a), NEW v \in Workers, NEW b \in Attachments
  PROVE  RowInv(b)' /\ PhaseInv(v, b)'
<1>0. w \in Workers
  BY Names
<1>p. \A p, q : Acknowledge(w, a, p, q)
          => phase'[v][b] \in IF v = w /\ b = a THEN {p, q} ELSE {phase[v][b]}
  BY <1>0, AcknowledgePhase
<1>. USE <1>0 DEF TypeOK, LifecycleInv, DeletionPhases, ReadyCleanupPhases
<1>1. CASE ReadQuarantine(w, a)
  <2>1. PhaseInv(v, b)'
    BY SMTT(30), <1>1 DEF ReadQuarantine, AfterRead, Enter, PhaseInv
  <2>. QED
    BY <1>1, <2>1 DEF ReadQuarantine, RowInv
<1>2. CASE MarkStructurallyValidated(w, a)
  <2>1. CASE state[a] = "StructuralValidation" /\ owner[a] = w
    <3>1. phase'[v][b] \in IF v = w /\ b = a THEN {"markPromoting", "retry"}
                           ELSE {phase[v][b]}
      BY <1>2, <2>1, <1>p DEF MarkStructurallyValidated
    <3>2. RowInv(b)'
      BY <1>2, <2>1 DEF MarkStructurallyValidated, RowInv, PhaseInv, InProgress, Terminal
    <3>3. PhaseInv(v, b)'
      BY SMTT(30), <1>2, <2>1, <3>1
         DEF MarkStructurallyValidated, PhaseInv, Gone, Published, Terminal
    <3>. QED
      BY <3>2, <3>3
  <2>2. CASE ~(state[a] = "StructuralValidation" /\ owner[a] = w)
    BY <1>2, <2>2, DropInv DEF MarkStructurallyValidated
  <2>. QED
    BY <2>1, <2>2
<1>3. CASE MarkPromoting(w, a)
  <2>1. CASE state[a] \in {"Scanning", "StructurallyValidated"} /\ owner[a] = w
    <3>1. phase'[v][b] \in IF v = w /\ b = a THEN {"checkStore", "retry"}
                           ELSE {phase[v][b]}
      BY <1>3, <2>1, <1>p DEF MarkPromoting
    <3>2. RowInv(b)'
      BY <1>3, <2>1 DEF MarkPromoting, RowInv, PhaseInv, InProgress, Terminal
    <3>3. PhaseInv(v, b)'
      BY SMTT(30), <1>3, <2>1, <3>1 DEF MarkPromoting, PhaseInv, Gone, Published, Terminal
    <3>. QED
      BY <3>2, <3>3
  <2>2. CASE ~(state[a] \in {"Scanning", "StructurallyValidated"} /\ owner[a] = w)
    BY <1>3, <2>2, DropInv DEF MarkPromoting
  <2>. QED
    BY <2>1, <2>2
<1>4. CASE CheckStore(w, a)
  BY <1>4 DEF CheckStore, Enter, RowInv, PhaseInv
<1>5. CASE WriteReady(w, a)
  BY <1>5 DEF WriteReady, Enter, RowInv, PhaseInv
<1>6. CASE HeadReady(w, a)
  BY <1>6 DEF HeadReady, Enter, RowInv, PhaseInv
<1>7. CASE MarkReady(w, a)
  <2>1. CASE Publishable(w, a)
    <3>1. phase'[v][b] \in IF v = w /\ b = a THEN {"dropQuarantine", "retry"}
                           ELSE {phase[v][b]}
      BY <1>7, <2>1, <1>p DEF MarkReady
    <3>2. RowInv(b)'
      BY <1>7, <2>1
         DEF MarkReady, Publishable, RowInv, PhaseInv, InProgress, Terminal, Gone
    <3>3. PhaseInv(v, b)'
      BY <1>7, <2>1, <3>1
         DEF MarkReady, Publishable, PhaseInv, Gone, Published, Terminal
    <3>. QED
      BY <3>2, <3>3
  <2>2. CASE ~Publishable(w, a)
    BY <1>7, <2>2, DropInv DEF MarkReady
  <2>. QED
    BY <2>1, <2>2
<1>8. CASE Reject(w, a)
  <2>1. CASE owner[a] = w
    <3>1. phase'[v][b] \in IF v = w /\ b = a THEN {"none", "retry"}
                           ELSE {phase[v][b]}
      BY <1>8, <2>1, <1>p DEF Reject
    <3>. QED
      BY <1>8, <2>1, <3>1, RejectedInv, Names DEF Reject
  <2>2. CASE owner[a] # w
    BY <1>8, <2>2, DropInv DEF Reject
  <2>. QED
    BY <2>1, <2>2
<1>9. CASE RetryOrFail(w, a)
  <2>1. CASE owner[a] # w
    BY <1>9, <2>1, DropInv DEF RetryOrFail
  <2>2. CASE owner[a] = w
    <3>1. phase'[v][b] = IF v = w /\ b = a THEN "none" ELSE phase[v][b]
      BY <1>9, <2>2, EnterPhase DEF RetryOrFail
    <3>2. CASE Exhausted(a)
      BY <1>9, <2>2, <3>1, <3>2, RejectedInv, Names DEF RetryOrFail
    <3>3. CASE ~Exhausted(a)
      BY <1>9, <2>2, <3>1, <3>3, ReleasedInv DEF RetryOrFail
    <3>. QED
      BY <3>2, <3>3
  <2>. QED
    BY <2>1, <2>2
<1>10. CASE Defer(w, a)
  <2>1. CASE owner[a] = w
    <3>1. phase'[v][b] = IF v = w /\ b = a THEN "none" ELSE phase[v][b]
      BY <1>10, <2>1, EnterPhase DEF Defer
    <3>. QED
      BY <1>10, <2>1, <3>1, ReleasedInv DEF Defer
  <2>2. CASE owner[a] # w
    BY <1>10, <2>2, DropInv DEF Defer
  <2>. QED
    BY <2>1, <2>2
<1>. QED
  BY <1>1, <1>2, <1>3, <1>4, <1>5, <1>6, <1>7, <1>8, <1>9, <1>10
     DEF ProcessorStep

LEMMA CleanerInv ==
  ASSUME TypeOK, LifecycleInv, NEW c \in Cleaners, NEW a \in Attachments,
         CleanerStep(c, a), NEW v \in Workers, NEW b \in Attachments
  PROVE  RowInv(b)' /\ PhaseInv(v, b)'
<1>0. c \in Workers
  BY Names
<1>. USE <1>0, ConstantsAssumption
     DEF TypeOK, LifecycleInv, InProgress, Terminal, Gone, Published,
         DeletionPhases, ReadyCleanupPhases
<1>1. CASE DeleteReady(c, a)
  BY <1>1 DEF DeleteReady, Enter, RowInv, PhaseInv
<1>2. CASE DeleteQuarantine(c, a)
  BY <1>2 DEF DeleteQuarantine, Enter, RowInv, PhaseInv
<1>3. CASE FinalizeDeletion(c, a)
  <2>1. CASE state[a] = "DeletePending" /\ owner[a] = c
    <3>1. phase'[v][b] \in IF v = c /\ b = a THEN {"none", "release"}
                           ELSE {phase[v][b]}
      <4>1. Acknowledge(c, a, "none", "release")
        BY <1>3, <2>1 DEF FinalizeDeletion
      <4>. QED
        BY ZenonT(40), <4>1, AcknowledgePhase
    <3>2. state' = [state EXCEPT ![a] = target[a]] /\ target[a] \in Terminal
      BY <1>3, <2>1 DEF FinalizeDeletion, RowInv
    <3>3. RowInv(b)'
      BY <1>3, <2>1, <3>2 DEF FinalizeDeletion, RowInv, Unlease
    <3>4. PhaseInv(v, b)'
      BY <1>3, <2>1, <3>1, <3>2 DEF FinalizeDeletion, PhaseInv
    <3>. QED
      BY <3>3, <3>4
  <2>2. CASE ~(state[a] = "DeletePending" /\ owner[a] = c)
    BY <1>3, <2>2, DropInv DEF FinalizeDeletion
  <2>. QED
    BY <2>1, <2>2
<1>4. CASE ReleaseCleanup(c, a)
  <2>1. CASE Drop(c, a)
    BY <1>4, <2>1, DropInv DEF ReleaseCleanup
  <2>2. CASE ~Drop(c, a)
    <3>1. phase'[v][b] = IF v = c /\ b = a THEN "none" ELSE phase[v][b]
      BY <1>4, <2>2, EnterPhase DEF ReleaseCleanup
    <3>2. RowInv(b)'
      BY <1>4, <2>2 DEF ReleaseCleanup, RowInv, Unlease
    <3>3. PhaseInv(v, b)'
      BY <1>4, <2>2, <3>1 DEF ReleaseCleanup, PhaseInv
    <3>. QED
      BY <3>2, <3>3
  <2>. QED
    BY <2>1, <2>2
<1>. QED
  BY <1>1, <1>2, <1>3, <1>4 DEF CleanerStep

LEMMA QuarantineInv ==
  ASSUME TypeOK, LifecycleInv, NEW w \in Workers, NEW a \in Attachments,
         QuarantineStep(w, a), NEW v \in Workers, NEW b \in Attachments
  PROVE  RowInv(b)' /\ PhaseInv(v, b)'
<1>. USE ConstantsAssumption
     DEF TypeOK, LifecycleInv, InProgress, Terminal, Gone, Published,
         DeletionPhases, ReadyCleanupPhases
<1>1. CASE DropQuarantine(w, a)
  <2>1. phase'[v][b] \in IF v = w /\ b = a THEN {"clearQuarantine", "clearCopy"}
                         ELSE {phase[v][b]}
    BY <1>1, EnterPhase DEF DropQuarantine
  <2>2. state[a] \in Published
    BY <1>1 DEF DropQuarantine, PhaseInv
  <2>3. RowInv(b)'
    BY <1>1, <2>2 DEF DropQuarantine, RowInv
  <2>4. PhaseInv(v, b)'
    BY <1>1, <2>1, <2>2 DEF DropQuarantine, PhaseInv
  <2>. QED
    BY <2>3, <2>4
<1>2. CASE CompleteReadyQuarantineCleanup(w, a)
  <2>1. CASE state[a] = "Ready" /\ owner[a] = w
    <3>1. phase'[v][b] = IF v = w /\ b = a THEN "none" ELSE phase[v][b]
      BY <1>2, <2>1, EnterPhase DEF CompleteReadyQuarantineCleanup
    <3>2. RowInv(b)'
      BY <1>2, <2>1 DEF CompleteReadyQuarantineCleanup, RowInv, Unlease
    <3>3. PhaseInv(v, b)'
      BY <1>2, <2>1, <3>1 DEF CompleteReadyQuarantineCleanup, PhaseInv
    <3>. QED
      BY <3>2, <3>3
  <2>2. CASE ~(state[a] = "Ready" /\ owner[a] = w)
    BY <1>2, <2>2, DropInv DEF CompleteReadyQuarantineCleanup
  <2>. QED
    BY <2>1, <2>2
<1>. QED
  BY <1>1, <1>2 DEF QuarantineStep

LEMMA ClaimInv ==
  ASSUME TypeOK, LifecycleInv, NEW S \in SUBSET Attachments, ClaimStep(S),
         NEW v \in Workers, NEW b \in Attachments
  PROVE  RowInv(b)' /\ PhaseInv(v, b)'
<1>. USE Names
     DEF TypeOK, LifecycleInv, RowInv, PhaseInv, Claim, InProgress, Terminal, Gone,
         Published, DeletionPhases, ReadyCleanupPhases
<1>1. ASSUME NEW w \in Processors, ClaimProcessing(w, S)
      PROVE  RowInv(b)' /\ PhaseInv(v, b)'
  BY <1>1 DEF ClaimProcessing, FirstPhase, ClaimableStates, ProcessingState
<1>2. ASSUME NEW c \in Cleaners, ClaimReadyQuarantine(c, S)
      PROVE  RowInv(b)' /\ PhaseInv(v, b)'
  BY <1>2 DEF ClaimReadyQuarantine, HasCopy
<1>3. ASSUME NEW c \in Cleaners, ClaimCleanup(c, S)
      PROVE  RowInv(b)' /\ PhaseInv(v, b)'
  BY <1>3 DEF ClaimCleanup, Due
<1>. QED
  BY <1>1, <1>2, <1>3 DEF ClaimStep

LEMMA FaultInv ==
  ASSUME TypeOK, LifecycleInv, NEW w \in Workers, NEW a \in Attachments,
         ScannerDown(w, a) \/ CallFails(w, a) \/ Crash(w) \/ Time(a),
         NEW v \in Workers, NEW b \in Attachments
  PROVE  RowInv(b)' /\ PhaseInv(v, b)'
<1>. USE DEF TypeOK, LifecycleInv, RowInv, PhaseInv, DeletionPhases, ReadyCleanupPhases
<1>1. CASE ScannerDown(w, a)
  BY <1>1 DEF ScannerDown, Enter
<1>2. CASE CallFails(w, a)
  BY <1>2 DEF CallFails, Enter, OnException
<1>3. CASE Crash(w)
  BY <1>3 DEF Crash
<1>4. CASE LeaseLapses(a)
  BY <1>4 DEF LeaseLapses
<1>5. CASE DeadlinePasses(a)
  BY <1>5 DEF DeadlinePasses
<1>. QED
  BY <1>1, <1>2, <1>3, <1>4, <1>5 DEF Time

LEMMA LifecycleStep == TypeOK /\ LifecycleInv /\ [Next]_vars => LifecycleInv'
<1>1. SUFFICES ASSUME TypeOK, LifecycleInv, [Next]_vars, NEW b \in Attachments
               PROVE  RowInv(b)' /\ \A v \in Workers : PhaseInv(v, b)'
  BY DEF LifecycleInv
<1>. PICK w \in Workers : TRUE
  BY ConstantsAssumption, Names
<1>. SUFFICES ASSUME NEW v \in Workers PROVE RowInv(b)' /\ PhaseInv(v, b)'
  OBVIOUS
<1>2. CASE Request
  BY <1>2, <1>1, RequestInv
<1>3. CASE \E S \in SUBSET Attachments : ClaimStep(S)
  BY <1>3, <1>1, ClaimInv
<1>4. CASE \E u \in Workers, a \in Attachments : WorkerStep(u, a)
  BY <1>4, <1>1, ProcessorInv, CleanerInv, QuarantineInv DEF WorkerStep
<1>5. CASE \E u \in Workers, a \in Attachments : ScannerDown(u, a) \/ CallFails(u, a)
  BY <1>5, <1>1, FaultInv
<1>6. CASE \E u \in Workers : Crash(u)
  BY <1>6, <1>1, FaultInv
<1>7. CASE \E a \in Attachments : Time(a)
  BY <1>7, <1>1, FaultInv
<1>8. CASE UNCHANGED vars
  BY <1>8, <1>1 DEF vars, LifecycleInv, RowInv, PhaseInv
<1>. QED
  BY <1>1, <1>2, <1>3, <1>4, <1>5, <1>6, <1>7, <1>8 DEF Next

----------------------------------------------------------------------------
(* The theorems. *)

LEMMA Invariance == Spec => [](TypeOK /\ LifecycleInv)
<1>1. Init => TypeOK /\ LifecycleInv
  BY TypeInit, LifecycleInit
<1>2. (TypeOK /\ LifecycleInv) /\ [Next]_vars => (TypeOK /\ LifecycleInv)'
  BY TypeStep, LifecycleStep
<1>. QED
  BY <1>1, <1>2, PTL DEF Spec

(* TypeOK holds in every reachable state, for all values of the constants; it
   needs LifecycleInv, since FinalizeDeletionAsync writes whatever state the
   row's delete_target_state names. *)
THEOREM TypeCorrect == Spec => []TypeOK
BY Invariance, PTL

(* Rows, objects and the positions of the workers always agree. *)
THEOREM LifecycleCorrect == Spec => []LifecycleInv
BY Invariance, PTL

(* A Ready attachment always has its object, with the validated content. *)
THEOREM ServableCorrect == Spec => []ReadyIsServable
<1>1. TypeOK /\ LifecycleInv => ReadyIsServable
  BY ConstantsAssumption DEF TypeOK, LifecycleInv, RowInv, ReadyIsServable
<1>. QED
  BY <1>1, Invariance, PTL

(* The upload is never lost before it is published. *)
THEOREM SourceCorrect == Spec => []SourceRetained
<1>1. LifecycleInv => SourceRetained
  BY DEF LifecycleInv, RowInv, SourceRetained
<1>. QED
  BY <1>1, Invariance, PTL

(* Cancelled, abandoned, rejected or expired: no step of a request or of a
   worker, however late it comes, takes an attachment back. *)
THEOREM OneWayCorrect == Spec => DeletionIsOneWay
<1>. DEFINE OneWay(b) ==
        /\ state[b] = "DeletePending" => state'[b] \in {"DeletePending"} \cup Terminal
        /\ state[b] \in Terminal => state'[b] = state[b]
<1>1. ASSUME TypeOK, LifecycleInv, [Next]_vars, NEW b \in Attachments
      PROVE  OneWay(b)
  <2>. USE <1>1 DEF TypeOK, Terminal
  <2>1. CASE Request
    BY <2>1 DEF Request, CreateIntent, BeginComplete, Cancel, CanCancel,
       CancellableStates, InProgress, BeginUpload, FinishUpload, AbortUpload,
       Complete, Bind
  <2>2. CASE \E S \in SUBSET Attachments : ClaimStep(S)
    <3>. PICK S \in SUBSET Attachments : ClaimStep(S)
      BY <2>2
    <3>1. CASE \E w \in Processors : ClaimProcessing(w, S)
      BY <3>1 DEF ClaimProcessing
    <3>2. CASE \E c \in Cleaners : ClaimReadyQuarantine(c, S)
      BY <3>2 DEF ClaimReadyQuarantine
    <3>3. CASE \E c \in Cleaners : ClaimCleanup(c, S)
      BY <3>3 DEF ClaimCleanup, Due
    <3>. QED
      BY <3>1, <3>2, <3>3 DEF ClaimStep
  <2>3. CASE \E w \in Workers, a \in Attachments : WorkerStep(w, a)
    <3>. PICK w \in Workers, a \in Attachments : WorkerStep(w, a)
      BY <2>3
    <3>0. state[b] \in Terminal => owner[b] = Nothing /\ Nothing # w
      BY ConstantsAssumption DEF LifecycleInv, RowInv
    <3>1. CASE Reject(w, a) \/ RetryOrFail(w, a)
      BY <3>0, <3>1 DEF Reject, RetryOrFail, MarkRejectedForDelete, ReleaseForRetry, Drop
    <3>2. CASE FinalizeDeletion(w, a)
      BY <3>2 DEF FinalizeDeletion, Drop, LifecycleInv, RowInv
    <3>3. CASE MarkStructurallyValidated(w, a) \/ MarkPromoting(w, a) \/ MarkReady(w, a)
      BY <3>3 DEF MarkStructurallyValidated, MarkPromoting, MarkReady, Publishable, Drop
    <3>4. CASE \/ ReadQuarantine(w, a) \/ CheckStore(w, a) \/ WriteReady(w, a)
               \/ HeadReady(w, a) \/ Defer(w, a) \/ DeleteReady(w, a)
               \/ DeleteQuarantine(w, a) \/ ReleaseCleanup(w, a) \/ QuarantineStep(w, a)
      BY <3>4 DEF ReadQuarantine, CheckStore, WriteReady, HeadReady, Defer,
         ReleaseForRetry, DeleteReady, DeleteQuarantine, ReleaseCleanup,
         QuarantineStep, DropQuarantine, CompleteReadyQuarantineCleanup, Drop
    <3>. QED
      BY <3>1, <3>2, <3>3, <3>4 DEF WorkerStep, ProcessorStep, CleanerStep
  <2>4. CASE \/ \E w \in Workers, a \in Attachments : ScannerDown(w, a) \/ CallFails(w, a)
             \/ \E w \in Workers : Crash(w)
             \/ \E a \in Attachments : Time(a)
             \/ UNCHANGED vars
    BY <2>4 DEF ScannerDown, CallFails, Crash, Time, LeaseLapses, DeadlinePasses, vars
  <2>. QED
    BY <2>1, <2>2, <2>3, <2>4 DEF Next
<1>2. TypeOK /\ LifecycleInv /\ [Next]_vars =>
      [\A a \in Attachments :
          /\ state[a] = "DeletePending" => state'[a] \in {"DeletePending"} \cup Terminal
          /\ state[a] \in Terminal => state'[a] = state[a]]_vars
  BY <1>1
<1>. QED
  BY <1>2, Invariance, PTL DEF Spec, DeletionIsOneWay

----------------------------------------------------------------------------
(* Storage and retention: what the cleanup worker has deleted stays deleted, or
   came back with its writer late; the worker that holds a lease and is not done
   finds no published row. *)

CopyGone(a) == quarantine[a] # Nothing => "quarantine" \in late[a]
ObjectGone(a) == ready[a] # Nothing => "ready" \in late[a]

StorageInv(a) ==
    /\ state[a] = "Absent" => owner[a] = Nothing
    /\ state[a] = "PendingUpload" => quarantineKey[a]
    /\ ~quarantineKey[a] => CopyGone(a)
    /\ ready[a] # Nothing => readyKey[a]
    /\ state[a] \in Terminal => CopyGone(a) /\ ObjectGone(a)
    /\ companyFile[a] = "active" => bound[a]

Working == ProcessorPhases \ {"retry", "dropQuarantine", "clearQuarantine"}

HandlingInv(w, a) ==
    /\ phase[w][a] \in {"readPromoting", "checkStore", "writeReady"} => readyKey[a]
    /\ phase[w][a] \in {"clearQuarantine", "clearCopy", "finalize"} => CopyGone(a)
    /\ phase[w][a] \in {"deleteQuarantine", "finalize"} => ObjectGone(a)
    /\ phase[w][a] \in DeletionPhases => owner[a] \notin Processors
    /\ phase[w][a] \in Working /\ owner[a] = w => state[a] # "Ready"

WorkInv == \A a \in Attachments : StorageInv(a) /\ \A w \in Workers : HandlingInv(w, a)

(* Everything the argument has so far. *)
AllInv == TypeOK /\ LifecycleInv /\ WorkInv

(* Which phase is of which kind. *)
LEMMA Kinds ==
  /\ DeletionPhases \cap Working = {}
  /\ ReadyCleanupPhases \cap (Working \cup DeletionPhases) = {}
  /\ {"none", "retry", "dropQuarantine", "clearQuarantine"}
     \cap (Working \cup DeletionPhases) = {}
BY DEF Working, ProcessorPhases, DeletionPhases, ReadyCleanupPhases

LEMMA WorkInit == Init => WorkInv
BY Kinds, ConstantsAssumption
   DEF Init, WorkInv, StorageInv, HandlingInv, CopyGone, ObjectGone, Terminal

(* A step that keeps the row and the store, and enters a phase that asks for
   nothing new, or for what is shown. *)
LEMMA WorkKept ==
  ASSUME AllInv, NEW v \in Workers, NEW b \in Attachments,
         UNCHANGED <<state, owner, bound, readyKey, quarantineKey, companyFile, storeVars>>,
         \/ phase'[v][b] \in {"none", "retry", "dropQuarantine", phase[v][b]}
         \/ HandlingInv(v, b)'
  PROVE  StorageInv(b)' /\ HandlingInv(v, b)'
<1>1. StorageInv(b)'
  BY DEF AllInv, WorkInv, StorageInv, CopyGone, ObjectGone
<1>2. CASE phase'[v][b] = phase[v][b]
  BY <1>1, <1>2 DEF AllInv, WorkInv, HandlingInv, CopyGone, ObjectGone
<1>3. CASE phase'[v][b] \in {"none", "retry", "dropQuarantine"}
  BY <1>1, <1>3, Kinds DEF HandlingInv
<1>. QED
  BY <1>1, <1>2, <1>3

LEMMA DropWork ==
  ASSUME AllInv, NEW w \in Workers, NEW a \in Attachments, Drop(w, a),
         NEW v \in Workers, NEW b \in Attachments
  PROVE  StorageInv(b)' /\ HandlingInv(v, b)'
<1>1. phase'[v][b] \in {"none", phase[v][b]}
  BY EnterPhase DEF Drop, AllInv
<1>. QED
  BY <1>1, WorkKept DEF Drop

LEMMA RequestWork ==
  ASSUME AllInv, Request, NEW v \in Workers, NEW b \in Attachments
  PROVE  StorageInv(b)' /\ HandlingInv(v, b)'
<1>. USE ConstantsAssumption, Kinds
     DEF AllInv, TypeOK, WorkInv, StorageInv, HandlingInv, CopyGone, ObjectGone, Terminal
<1>1. CASE \E a \in Attachments : CreateIntent(a)
  BY <1>1 DEF CreateIntent
<1>2. CASE \E a \in Attachments : BeginComplete(a)
  BY <1>2 DEF BeginComplete
<1>3. CASE \E a \in Attachments : Cancel(a)
  BY <1>3 DEF Cancel
<1>4. CASE \E a \in Attachments, c \in Contents : BeginUpload(a, c)
  BY <1>4 DEF BeginUpload
<1>5. ASSUME NEW a \in Attachments, NEW c \in Contents, FinishUpload(a, c)
      PROVE  StorageInv(b)' /\ HandlingInv(v, b)'
  <2>1. UNCHANGED <<rowVars, ready, phase>>
    BY <1>5 DEF FinishUpload
  <2>2. late'[b] = late[b] \/ late'[b] = late[b] \cup {"quarantine"}
    BY <1>5 DEF FinishUpload
  <2>3. state[b] # "PendingUpload" /\ CopyGone(b) => CopyGone(b)'
    BY <1>5 DEF FinishUpload
  <2>4. phase[v][b] \in {"clearQuarantine", "clearCopy", "finalize"}
        => state[b] # "PendingUpload"
    BY DEF LifecycleInv, PhaseInv, ReadyCleanupPhases, DeletionPhases, Published, Gone
  <2>5. StorageInv(b)'
    BY <2>1, <2>2, <2>3
  <2>6. HandlingInv(v, b)'
    BY <2>1, <2>2, <2>3, <2>4
  <2>. QED
    BY <2>5, <2>6
<1>6. CASE \E a \in Attachments, c \in Contents : AbortUpload(a, c)
  BY <1>6 DEF AbortUpload
<1>7. CASE \E a \in Attachments, c \in Contents : Complete(a, c)
  BY <1>7 DEF Complete
<1>8. ASSUME NEW S \in SUBSET Attachments, Bind(S)
      PROVE  StorageInv(b)' /\ HandlingInv(v, b)'
  <2>1. /\ UNCHANGED <<state, owner, readyKey, quarantineKey, storeVars, phase>>
        /\ companyFile'[b] = "active" => companyFile[b] = "active" \/ bound'[b]
        /\ bound[b] => bound'[b]
    <3>1. /\ bound'[b] = (bound[b] \/ b \in S)
          /\ companyFile'[b] = IF b \in S THEN "active" ELSE companyFile[b]
      BY <1>8 DEF Bind
    <3>. QED
      BY <1>8, <3>1 DEF Bind
  <2>. QED
    BY <2>1
<1>. QED
  BY <1>1, <1>2, <1>3, <1>4, <1>5, <1>6, <1>7, <1>8 DEF Request

(* The lease goes, with or without the row. *)
LEMMA UnleasedWork ==
  ASSUME AllInv, NEW a \in Attachments, Unlease(a),
         UNCHANGED <<bound, readyKey, quarantineKey, companyFile, storeVars>>,
         NEW v \in Workers, NEW b \in Attachments,
         phase'[v][b] \in {"none", "retry", phase[v][b]},
         \/ UNCHANGED state
         \/ state' = [state EXCEPT ![a] = "DeletePending"]
  PROVE  StorageInv(b)' /\ HandlingInv(v, b)'
<1>1. /\ owner'[b] \in {owner[b], Nothing} /\ Nothing \notin Workers
      /\ Processors \subseteq Workers
      /\ state'[b] \in {state[b], "DeletePending"}
  BY ConstantsAssumption DEF Unlease, AllInv, TypeOK, Workers
<1>2. StorageInv(b)'
  BY <1>1 DEF AllInv, WorkInv, StorageInv, CopyGone, ObjectGone, Terminal
<1>3. HandlingInv(v, b)'
  BY <1>1, Kinds DEF AllInv, WorkInv, HandlingInv, CopyGone, ObjectGone
<1>. QED
  BY <1>2, <1>3

LEMMA ProcessorWork ==
  ASSUME AllInv, NEW w \in Processors, NEW a \in Attachments,
         ProcessorStep(w, a), NEW v \in Workers, NEW b \in Attachments
  PROVE  StorageInv(b)' /\ HandlingInv(v, b)'
<1>0. w \in Workers /\ TypeOK /\ LifecycleInv
  BY Names DEF AllInv
<1>p. \A p, q : Acknowledge(w, a, p, q)
          => phase'[v][b] \in IF v = w /\ b = a THEN {p, q} ELSE {phase[v][b]}
  BY <1>0, AcknowledgePhase
<1>e. \A p : Enter(w, a, p) => phase'[v][b] = IF v = w /\ b = a THEN p ELSE phase[v][b]
  BY <1>0, EnterPhase
<1>r. phase[w][a] \in Working /\ owner[a] = w => state[a] # "Ready"
  BY <1>0 DEF AllInv, WorkInv, HandlingInv
<1>s. ASSUME UNCHANGED <<state, owner, bound, readyKey, quarantineKey, companyFile, storeVars>>,
             phase[w][a] \in Working,
             \/ phase'[v][b] \in {"none", "retry", "dropQuarantine", phase[v][b]}
             \/ /\ v = w /\ b = a
                /\ phase'[v][b] \in Working
                /\ phase'[v][b] \in {"readPromoting", "checkStore", "writeReady"} => readyKey[a]
      PROVE  StorageInv(b)' /\ HandlingInv(v, b)'
  <2>1. CASE phase'[v][b] \in {"none", "retry", "dropQuarantine", phase[v][b]}
    BY <1>s, <2>1, WorkKept
  <2>2. CASE /\ v = w /\ b = a
             /\ phase'[v][b] \in Working
             /\ phase'[v][b] \in {"readPromoting", "checkStore", "writeReady"} => readyKey[a]
    <3>1. HandlingInv(v, b)'
      BY <1>r, <1>s, <2>2, Kinds DEF HandlingInv, ReadyCleanupPhases, DeletionPhases
    <3>. QED
      BY <1>s, <3>1, WorkKept
  <2>. QED
    BY <1>s, <2>1, <2>2
<1>w. {"read", "readValidated", "readPromoting", "markValidated", "markPromoting",
       "checkStore", "writeReady", "headReady", "markReady", "reject", "defer"} \subseteq Working
  BY DEF Working, ProcessorPhases
<1>k. /\ phase[w][a] \in {"readPromoting", "checkStore", "writeReady"} => readyKey[a]
      /\ phase[w][a] \in {"readPromoting", "checkStore", "writeReady"} => phase[w][a] \in Working
  BY <1>0, <1>w DEF AllInv, WorkInv, HandlingInv
<1>1. CASE ReadQuarantine(w, a)
  BY <1>1, <1>e, <1>k, <1>s, <1>w DEF ReadQuarantine, AfterRead
<1>2. CASE MarkStructurallyValidated(w, a)
  <2>1. CASE state[a] = "StructuralValidation" /\ owner[a] = w
    <3>1. phase'[v][b] \in IF v = w /\ b = a THEN {"markPromoting", "retry"}
                           ELSE {phase[v][b]}
      BY <1>2, <2>1, <1>p DEF MarkStructurallyValidated
    <3>2. StorageInv(b)'
      BY <1>0, <1>2, <2>1
         DEF MarkStructurallyValidated, AllInv, TypeOK, WorkInv, StorageInv, CopyGone,
             ObjectGone, Terminal
    <3>3. HandlingInv(v, b)'
      BY <1>0, <1>2, <2>1, <3>1, Kinds
         DEF MarkStructurallyValidated, AllInv, TypeOK, WorkInv, HandlingInv, CopyGone,
             ObjectGone, DeletionPhases
    <3>. QED
      BY <3>2, <3>3
  <2>2. CASE ~(state[a] = "StructuralValidation" /\ owner[a] = w)
    BY <1>0, <1>2, <2>2, DropWork DEF MarkStructurallyValidated
  <2>. QED
    BY <2>1, <2>2
<1>3. CASE MarkPromoting(w, a)
  <2>1. CASE state[a] \in {"Scanning", "StructurallyValidated"} /\ owner[a] = w
    <3>1. phase'[v][b] \in IF v = w /\ b = a THEN {"checkStore", "retry"}
                           ELSE {phase[v][b]}
      BY <1>3, <2>1, <1>p DEF MarkPromoting
    <3>2. StorageInv(b)'
      BY <1>0, <1>3, <2>1
         DEF MarkPromoting, AllInv, TypeOK, WorkInv, StorageInv, CopyGone,
             ObjectGone, Terminal
    <3>3. HandlingInv(v, b)'
      BY <1>0, <1>3, <2>1, <3>1, Kinds
         DEF MarkPromoting, AllInv, TypeOK, WorkInv, HandlingInv, CopyGone,
             ObjectGone, DeletionPhases
    <3>. QED
      BY <3>2, <3>3
  <2>2. CASE ~(state[a] \in {"Scanning", "StructurallyValidated"} /\ owner[a] = w)
    BY <1>0, <1>3, <2>2, DropWork DEF MarkPromoting
  <2>. QED
    BY <2>1, <2>2
<1>4. CASE CheckStore(w, a)
  BY <1>4, <1>e, <1>k, <1>s, <1>w DEF CheckStore
<1>5. CASE WriteReady(w, a)
  <2>1. UNCHANGED <<rowVars, quarantine>> /\ phase[w][a] = "writeReady"
    BY <1>5 DEF WriteReady
  <2>2. late'[b] = late[b] \/ late'[b] = late[b] \cup {"ready"}
    BY <1>0, <1>5 DEF WriteReady, TypeOK
  <2>3. ready'[b] = ready[b] \/ (b = a /\ (owner[a] = w \/ "ready" \in late'[a]))
    BY <1>0, <1>5 DEF WriteReady, TypeOK
  <2>4. phase'[v][b] \in IF v = w /\ b = a THEN {"headReady", "retry"} ELSE {phase[v][b]}
    BY <1>5, <1>e DEF WriteReady
  <2>5. /\ state[b] \in Terminal => owner[b] # w
        /\ phase[v][b] \in DeletionPhases => owner[b] # w
    BY <1>0, ConstantsAssumption DEF AllInv, LifecycleInv, RowInv, WorkInv, HandlingInv
  <2>6. StorageInv(b)'
    BY <1>k, <2>1, <2>2, <2>3, <2>5 DEF AllInv, WorkInv, StorageInv, CopyGone, ObjectGone
  <2>7. HandlingInv(v, b)'
    <3>1. CASE v = w /\ b = a
      BY <1>r, <1>w, <2>1, <2>4, <3>1, Kinds DEF HandlingInv
    <3>2. CASE ~(v = w /\ b = a)
      BY <2>1, <2>2, <2>3, <2>4, <2>5, <3>2
         DEF AllInv, WorkInv, HandlingInv, CopyGone, ObjectGone, DeletionPhases
    <3>. QED
      BY <3>1, <3>2
  <2>. QED
    BY <2>6, <2>7
<1>6. CASE HeadReady(w, a)
  BY <1>6, <1>e, <1>s, <1>w DEF HeadReady
<1>7. CASE MarkReady(w, a)
  <2>1. CASE Publishable(w, a)
    <3>1. phase'[v][b] \in IF v = w /\ b = a THEN {"dropQuarantine", "retry"}
                           ELSE {phase[v][b]}
      BY <1>7, <2>1, <1>p DEF MarkReady
    <3>2. StorageInv(b)'
      BY <1>0, <1>7, <2>1
         DEF MarkReady, AllInv, TypeOK, WorkInv, StorageInv, CopyGone, ObjectGone, Terminal
    <3>3. HandlingInv(v, b)'
      BY <1>0, <1>7, <2>1, <3>1, Kinds
         DEF MarkReady, Publishable, AllInv, TypeOK, WorkInv, HandlingInv, CopyGone, ObjectGone
    <3>. QED
      BY <3>2, <3>3
  <2>2. CASE ~Publishable(w, a)
    BY <1>0, <1>7, <2>2, DropWork DEF MarkReady
  <2>. QED
    BY <2>1, <2>2
<1>8. CASE Reject(w, a)
  <2>1. CASE owner[a] = w
    <3>1. phase'[v][b] \in {"none", "retry", phase[v][b]}
      BY <1>8, <2>1, <1>p DEF Reject
    <3>. QED
      BY <1>8, <2>1, <3>1, UnleasedWork DEF Reject, MarkRejectedForDelete
  <2>2. CASE owner[a] # w
    BY <1>0, <1>8, <2>2, DropWork DEF Reject
  <2>. QED
    BY <2>1, <2>2
<1>9. CASE RetryOrFail(w, a) \/ Defer(w, a)
  <2>1. CASE owner[a] # w
    BY <1>0, <1>9, <2>1, DropWork DEF RetryOrFail, Defer
  <2>2. CASE owner[a] = w
    <3>1. phase'[v][b] \in {"none", phase[v][b]}
      BY <1>9, <2>2, <1>e DEF RetryOrFail, Defer
    <3>. QED
      BY <1>9, <2>2, <3>1, UnleasedWork
         DEF RetryOrFail, Defer, MarkRejectedForDelete, ReleaseForRetry
  <2>. QED
    BY <2>1, <2>2
<1>. QED
  BY <1>1, <1>2, <1>3, <1>4, <1>5, <1>6, <1>7, <1>8, <1>9 DEF ProcessorStep

LEMMA CleanerWork ==
  ASSUME AllInv, NEW c \in Cleaners, NEW a \in Attachments,
         CleanerStep(c, a), NEW v \in Workers, NEW b \in Attachments
  PROVE  StorageInv(b)' /\ HandlingInv(v, b)'
<1>0. c \in Workers /\ c \notin Processors /\ TypeOK /\ LifecycleInv
  BY Names, ConstantsAssumption DEF AllInv
<1>e. \A p : Enter(c, a, p) => phase'[v][b] = IF v = c /\ b = a THEN p ELSE phase[v][b]
  BY <1>0, EnterPhase
<1>h. HandlingInv(c, a) /\ StorageInv(a) /\ HandlingInv(v, b) /\ StorageInv(b)
  BY <1>0 DEF AllInv, WorkInv
<1>1. CASE DeleteReady(c, a)
  <2>1. UNCHANGED <<rowVars, quarantine>> /\ phase[c][a] = "deleteReady"
    BY <1>1 DEF DeleteReady
  <2>2. /\ \/ ready'[b] = ready[b] /\ late'[b] = late[b]
           \/ ready'[b] = Nothing
        /\ "quarantine" \in late[b] => "quarantine" \in late'[b]
    BY <1>0, <1>1 DEF DeleteReady, TypeOK
  <2>3. b = a => ready'[b] = Nothing
    BY <1>0, <1>1, <1>h DEF DeleteReady, TypeOK, StorageInv
  <2>4. phase'[v][b] = IF v = c /\ b = a THEN "deleteQuarantine" ELSE phase[v][b]
    BY <1>1, <1>e DEF DeleteReady
  <2>5. StorageInv(b)'
    BY <1>h, <2>1, <2>2 DEF StorageInv, CopyGone, ObjectGone
  <2>6. HandlingInv(v, b)'
    BY <1>h, <2>1, <2>2, <2>3, <2>4, Kinds
       DEF HandlingInv, CopyGone, ObjectGone, DeletionPhases
  <2>. QED
    BY <2>5, <2>6
<1>2. CASE DeleteQuarantine(c, a)
  <2>1. UNCHANGED <<rowVars, ready>> /\ phase[c][a] = "deleteQuarantine"
    BY <1>2 DEF DeleteQuarantine
  <2>2. /\ \/ quarantine'[b] = quarantine[b] /\ late'[b] = late[b]
           \/ quarantine'[b] = Nothing
        /\ "ready" \in late[b] => "ready" \in late'[b]
    BY <1>0, <1>2 DEF DeleteQuarantine, TypeOK
  <2>3. b = a => CopyGone(b)'
    BY <1>0, <1>2, <1>h DEF DeleteQuarantine, TypeOK, StorageInv, CopyGone
  <2>4. phase'[v][b] = IF v = c /\ b = a THEN "finalize" ELSE phase[v][b]
    BY <1>2, <1>e DEF DeleteQuarantine
  <2>5. StorageInv(b)'
    BY <1>h, <2>1, <2>2 DEF StorageInv, CopyGone, ObjectGone
  <2>6. HandlingInv(v, b)'
    BY <1>h, <2>1, <2>2, <2>3, <2>4, Kinds
       DEF HandlingInv, CopyGone, ObjectGone, DeletionPhases
  <2>. QED
    BY <2>5, <2>6
<1>3. CASE FinalizeDeletion(c, a)
  <2>1. CASE state[a] = "DeletePending" /\ owner[a] = c
    <3>1. phase'[v][b] \in IF v = c /\ b = a THEN {"none", "release"}
                           ELSE {phase[v][b]}
      <4>1. Acknowledge(c, a, "none", "release")
        BY <1>3, <2>1 DEF FinalizeDeletion
      <4>. QED
        BY ZenonT(40), <1>0, <4>1, AcknowledgePhase
    <3>2. /\ state' = [state EXCEPT ![a] = target[a]]
          /\ companyFile' = [companyFile EXCEPT ![a] = IF bound[a] THEN "inactive" ELSE @]
          /\ owner' = [owner EXCEPT ![a] = Nothing]
          /\ UNCHANGED <<bound, readyKey, quarantineKey, storeVars>>
          /\ phase[c][a] = "finalize"
      BY <1>3, <2>1 DEF FinalizeDeletion, Unlease
    <3>3. target[a] \in Terminal
      BY <1>0, <2>1 DEF LifecycleInv, RowInv
    <3>4. StorageInv(b)'
      BY <1>0, <1>h, <3>2, <3>3
         DEF TypeOK, StorageInv, HandlingInv, CopyGone, ObjectGone, Terminal
    <3>5. HandlingInv(v, b)'
      <4>1. Nothing \notin Processors /\ "Ready" \notin Terminal
        BY ConstantsAssumption DEF Workers, Terminal
      <4>. QED
        BY <1>0, <1>h, <3>1, <3>2, <3>3, <4>1, Kinds
           DEF TypeOK, HandlingInv, CopyGone, ObjectGone, DeletionPhases
    <3>. QED
      BY <3>4, <3>5
  <2>2. CASE ~(state[a] = "DeletePending" /\ owner[a] = c)
    BY <1>0, <1>3, <2>2, DropWork DEF FinalizeDeletion
  <2>. QED
    BY <2>1, <2>2
<1>4. CASE ReleaseCleanup(c, a)
  <2>1. CASE Drop(c, a)
    BY <1>0, <2>1, DropWork
  <2>2. CASE ~Drop(c, a)
    <3>1. phase'[v][b] \in {"none", phase[v][b]}
      BY <1>4, <1>e, <2>2 DEF ReleaseCleanup
    <3>. QED
      BY <1>4, <2>2, <3>1, UnleasedWork DEF ReleaseCleanup
  <2>. QED
    BY <2>1, <2>2
<1>. QED
  BY <1>1, <1>2, <1>3, <1>4 DEF CleanerStep

LEMMA QuarantineWork ==
  ASSUME AllInv, NEW w \in Workers, NEW a \in Attachments,
         QuarantineStep(w, a), NEW v \in Workers, NEW b \in Attachments
  PROVE  StorageInv(b)' /\ HandlingInv(v, b)'
<1>0. TypeOK /\ HandlingInv(w, a) /\ StorageInv(a) /\ HandlingInv(v, b) /\ StorageInv(b)
  BY DEF AllInv, WorkInv
<1>1. CASE DropQuarantine(w, a)
  <2>1. UNCHANGED <<rowVars, ready>> /\ ("ready" \in late[b] => "ready" \in late'[b])
    BY <1>0, <1>1 DEF DropQuarantine, TypeOK
  <2>2. phase'[v][b] \in IF v = w /\ b = a THEN {"clearQuarantine", "clearCopy"}
                         ELSE {phase[v][b]}
    BY <1>0, <1>1, EnterPhase DEF DropQuarantine
  <2>3. /\ quarantine'[b] = IF b = a THEN Nothing ELSE quarantine[b]
        /\ b # a => late'[b] = late[b]
    BY <1>0, <1>1 DEF DropQuarantine, TypeOK
  <2>. QED
    BY <1>0, <2>1, <2>2, <2>3, Kinds
       DEF StorageInv, HandlingInv, CopyGone, ObjectGone, ReadyCleanupPhases
<1>2. CASE CompleteReadyQuarantineCleanup(w, a)
  <2>1. CASE state[a] = "Ready" /\ owner[a] = w
    <3>1. phase'[v][b] = IF v = w /\ b = a THEN "none" ELSE phase[v][b]
      BY <1>0, <1>2, <2>1, EnterPhase DEF CompleteReadyQuarantineCleanup
    <3>2. Nothing \notin Workers
      BY ConstantsAssumption
    <3>3. StorageInv(b)'
      BY <1>0, <1>2, <2>1, <3>2
         DEF CompleteReadyQuarantineCleanup, Unlease, TypeOK, StorageInv, HandlingInv,
             CopyGone, ObjectGone
    <3>4. HandlingInv(v, b)'
      BY <1>0, <1>2, <2>1, <3>1, <3>2, Kinds
         DEF CompleteReadyQuarantineCleanup, Unlease, TypeOK, HandlingInv,
             CopyGone, ObjectGone, Workers
    <3>. QED
      BY <3>3, <3>4
  <2>2. CASE ~(state[a] = "Ready" /\ owner[a] = w)
    BY <1>2, <2>2, DropWork DEF CompleteReadyQuarantineCleanup
  <2>. QED
    BY <2>1, <2>2
<1>. QED
  BY <1>1, <1>2 DEF QuarantineStep

LEMMA ClaimWork ==
  ASSUME AllInv, NEW S \in SUBSET Attachments, ClaimStep(S),
         NEW v \in Workers, NEW b \in Attachments
  PROVE  StorageInv(b)' /\ HandlingInv(v, b)'
<1>0. TypeOK /\ RowInv(b) /\ PhaseInv(v, b) /\ HandlingInv(v, b) /\ StorageInv(b)
  BY DEF AllInv, LifecycleInv, WorkInv
<1>c. ASSUME NEW w \in Workers, NEW first \in [S -> Phases], Claim(w, S, first)
      PROVE  /\ owner'[b] = IF b \in S THEN w ELSE owner[b]
             /\ phase'[v][b] = IF v # w THEN phase[v][b]
                               ELSE IF b \in S THEN first[b] ELSE "none"
  BY <1>0, <1>c DEF Claim, TypeOK
<1>1. ASSUME NEW w \in Processors, ClaimProcessing(w, S)
      PROVE  StorageInv(b)' /\ HandlingInv(v, b)'
  <2>1. [a \in S |-> FirstPhase(state[a])] \in [S -> Phases]
    BY Names DEF FirstPhase
  <2>2. /\ owner'[b] = IF b \in S THEN w ELSE owner[b]
        /\ phase'[v][b] = IF v # w THEN phase[v][b]
                          ELSE IF b \in S THEN FirstPhase(state[b]) ELSE "none"
    BY <1>1, <1>c, <2>1, Names DEF ClaimProcessing
  <2>3. /\ UNCHANGED <<bound, readyKey, quarantineKey, companyFile, storeVars>>
        /\ state'[b] = IF b \in S /\ state[b] = "Uploaded" THEN ProcessingState ELSE state[b]
        /\ b \in S => state[b] \in ClaimableStates
    BY <1>1 DEF ClaimProcessing
  <2>4. /\ ProcessingState \notin {"Ready", "Absent", "PendingUpload"} \cup Terminal
        /\ ClaimableStates \cap ({"Ready", "Absent", "PendingUpload"} \cup Gone) = {}
    BY DEF ProcessingState, ClaimableStates, Gone, Terminal
  <2>5. StorageInv(b)'
    BY <1>0, <2>2, <2>3, <2>4 DEF StorageInv, CopyGone, ObjectGone
  <2>6. CASE b \notin S
    BY <1>0, <2>2, <2>3, <2>5, <2>6, Kinds DEF HandlingInv, CopyGone, ObjectGone
  <2>7. CASE b \in S
    <3>1. state[b] \notin {"Ready"} \cup Gone /\ state'[b] # "Ready"
      BY <2>3, <2>4, <2>7
    <3>2. phase[v][b] \notin DeletionPhases
      BY <1>0, <3>1 DEF PhaseInv
    <3>3. CASE v # w
      <4>1. phase'[v][b] = phase[v][b] /\ owner'[b] # v
        BY <2>2, <2>7, <3>3
      <4>2. UNCHANGED readyKey /\ (CopyGone(b)' <=> CopyGone(b)) /\ (ObjectGone(b)' <=> ObjectGone(b))
        BY <2>3 DEF CopyGone, ObjectGone
      <4>. QED
        BY <1>0, <2>5, <3>2, <4>1, <4>2 DEF HandlingInv
    <3>4. CASE v = w
      <4>1. /\ phase'[v][b] \in {"read", "readValidated", "readPromoting", "checkStore"}
            /\ phase'[v][b] \in {"readPromoting", "checkStore"} => readyKey[b]
        BY <1>0, <2>2, <2>7, <3>4 DEF FirstPhase, RowInv
      <4>. QED
        BY <2>3, <3>1, <4>1, <2>5, Kinds DEF HandlingInv, DeletionPhases
    <3>. QED
      BY <2>5, <3>3, <3>4
  <2>. QED
    BY <2>5, <2>6, <2>7
<1>2. ASSUME NEW c \in Cleaners, ClaimReadyQuarantine(c, S)
      PROVE  StorageInv(b)' /\ HandlingInv(v, b)'
  <2>1. [a \in S |-> "dropCopy"] \in [S -> Phases]
    BY Names
  <2>2. /\ owner'[b] = IF b \in S THEN c ELSE owner[b]
        /\ phase'[v][b] = IF v # c THEN phase[v][b]
                          ELSE IF b \in S THEN "dropCopy" ELSE "none"
    BY <1>2, <1>c, <2>1, Names DEF ClaimReadyQuarantine
  <2>3. /\ UNCHANGED <<state, bound, readyKey, quarantineKey, companyFile, storeVars>>
        /\ b \in S => state[b] = "Ready"
    BY <1>2 DEF ClaimReadyQuarantine, HasCopy
  <2>. QED
    BY <1>0, <2>2, <2>3, Kinds, ConstantsAssumption
       DEF StorageInv, HandlingInv, CopyGone, ObjectGone, ReadyCleanupPhases
<1>3. ASSUME NEW c \in Cleaners, ClaimCleanup(c, S)
      PROVE  StorageInv(b)' /\ HandlingInv(v, b)'
  <2>1. [a \in S |-> "deleteReady"] \in [S -> Phases]
    BY Names
  <2>2. /\ owner'[b] = IF b \in S THEN c ELSE owner[b]
        /\ phase'[v][b] = IF v # c THEN phase[v][b]
                          ELSE IF b \in S THEN "deleteReady" ELSE "none"
    BY <1>3, <1>c, <2>1, Names DEF ClaimCleanup
  <2>3. /\ UNCHANGED <<bound, readyKey, quarantineKey, companyFile, storeVars>>
        /\ state'[b] = IF b \in S THEN "DeletePending" ELSE state[b]
    BY <1>3 DEF ClaimCleanup
  <2>. QED
    BY <1>0, <2>2, <2>3, Kinds, ConstantsAssumption
       DEF StorageInv, HandlingInv, CopyGone, ObjectGone, DeletionPhases, Terminal
<1>. QED
  BY <1>1, <1>2, <1>3 DEF ClaimStep

LEMMA FaultWork ==
  ASSUME AllInv, NEW w \in Workers, NEW a \in Attachments,
         ScannerDown(w, a) \/ CallFails(w, a) \/ Crash(w) \/ Time(a),
         NEW v \in Workers, NEW b \in Attachments
  PROVE  StorageInv(b)' /\ HandlingInv(v, b)'
<1>0. TypeOK /\ HandlingInv(v, b)
  BY DEF AllInv, WorkInv
<1>1. UNCHANGED <<state, owner, bound, readyKey, quarantineKey, companyFile, storeVars>>
  BY DEF ScannerDown, CallFails, Crash, Time, LeaseLapses, DeadlinePasses
<1>2. CASE Crash(w) \/ Time(a)
  <2>1. phase'[v][b] \in {"none", phase[v][b]}
    BY <1>0, <1>2 DEF Crash, Time, LeaseLapses, DeadlinePasses, TypeOK
  <2>. QED
    BY <1>1, <2>1, WorkKept
<1>3. CASE ScannerDown(w, a)
  <2>1. phase'[v][b] = IF v = w /\ b = a THEN "defer" ELSE phase[v][b]
    BY <1>0, <1>3, EnterPhase DEF ScannerDown
  <2>2. "read" \in Working /\ "defer" \in Working /\ phase[w][a] = "read"
    BY <1>3 DEF Working, ProcessorPhases, ScannerDown
  <2>3. HandlingInv(v, b)'
    BY <1>0, <1>1, <2>1, <2>2, Kinds DEF HandlingInv, CopyGone, ObjectGone
  <2>. QED
    BY <1>1, <2>3, WorkKept
<1>4. CASE CallFails(w, a)
  <2>1. phase'[v][b] = IF v = w /\ b = a THEN OnException(phase[v][b]) ELSE phase[v][b]
    BY <1>0, <1>4, EnterPhase DEF CallFails
  <2>2. /\ OnException(phase[v][b]) \in {"none", "release", "releaseCopy", "retry"}
        /\ OnException(phase[v][b]) = "release" => phase[v][b] \in DeletionPhases
    BY DEF OnException, DeletionPhases
  <2>3. phase'[v][b] = phase[v][b] \/ phase'[v][b] \in {"none", "retry"} => HandlingInv(v, b)'
    BY <1>1, WorkKept
  <2>4. ASSUME phase'[v][b] = "releaseCopy" PROVE HandlingInv(v, b)'
    BY <2>4, Kinds DEF HandlingInv, ReadyCleanupPhases
  <2>5. ASSUME phase'[v][b] = "release", phase[v][b] \in DeletionPhases PROVE HandlingInv(v, b)'
    BY <1>0, <1>1, <2>5, Kinds DEF HandlingInv, DeletionPhases
  <2>6. HandlingInv(v, b)'
    BY <2>1, <2>2, <2>3, <2>4, <2>5
  <2>. QED
    BY <1>1, <2>6, WorkKept
<1>. QED
  BY <1>2, <1>3, <1>4

LEMMA WorkStep == AllInv /\ [Next]_vars => WorkInv'
<1>1. SUFFICES ASSUME AllInv, [Next]_vars, NEW b \in Attachments
               PROVE  StorageInv(b)' /\ \A v \in Workers : HandlingInv(v, b)'
  BY DEF WorkInv
<1>. PICK w \in Workers : TRUE
  BY ConstantsAssumption, Names
<1>. SUFFICES ASSUME NEW v \in Workers PROVE StorageInv(b)' /\ HandlingInv(v, b)'
  OBVIOUS
<1>2. CASE Request
  BY <1>2, <1>1, RequestWork
<1>3. CASE \E S \in SUBSET Attachments : ClaimStep(S)
  BY <1>3, <1>1, ClaimWork
<1>4. CASE \E u \in Workers, a \in Attachments : WorkerStep(u, a)
  BY <1>4, <1>1, ProcessorWork, CleanerWork, QuarantineWork DEF WorkerStep
<1>5. CASE \/ \E u \in Workers, a \in Attachments : ScannerDown(u, a) \/ CallFails(u, a)
           \/ \E a \in Attachments : Time(a)
  BY <1>5, <1>1, FaultWork
<1>6. CASE \E u \in Workers : Crash(u)
  BY <1>6, <1>1, FaultWork
<1>7. CASE UNCHANGED vars
  BY <1>7, <1>1, WorkKept DEF vars
<1>. QED
  BY <1>1, <1>2, <1>3, <1>4, <1>5, <1>6, <1>7 DEF Next

LEMMA AllInvariance == Spec => []AllInv
<1>1. Init => AllInv
  BY TypeInit, LifecycleInit, WorkInit DEF AllInv
<1>2. AllInv /\ [Next]_vars => AllInv'
  BY TypeStep, LifecycleStep, WorkStep DEF AllInv
<1>. QED
  BY <1>1, <1>2, PTL DEF Spec

(* A row that is done has no object left in the store, but for one whose writer
   had lost the row: the cleanup worker's order of deletions and the keys it
   deletes by are enough (ProcessDeletionAsync, FinalizeDeletionAsync). *)
THEOREM ReleasedCorrect == Spec => []ReleasedStorageIsGone
<1>1. AllInv => ReleasedStorageIsGone
  BY DEF AllInv, WorkInv, StorageInv, CopyGone, ObjectGone, ReleasedStorageIsGone
<1>. QED
  BY <1>1, AllInvariance, PTL

----------------------------------------------------------------------------
(* Who takes a published attachment down. *)

(* A step that takes the row out of Ready is a cancellation of an unbound one, a
   cleanup of one whose retention has ended, or a worker giving up. *)
LEMMA ReadyIsLeft ==
  ASSUME AllInv, [Next]_vars, NEW b \in Attachments,
         bound[b], state[b] = "Ready", state'[b] # "Ready"
  PROVE  elapsed[b] \/ (owner[b] \in Processors /\ phase[owner[b]][b] = "retry")
<1>. USE DEF AllInv, TypeOK
<1>1. CASE Request
  BY <1>1 DEF Request, CreateIntent, BeginComplete, Cancel, CanCancel, BeginUpload,
     FinishUpload, AbortUpload, Complete, Bind
<1>2. CASE \E S \in SUBSET Attachments : ClaimStep(S)
  <2>. PICK S \in SUBSET Attachments : ClaimStep(S)
    BY <1>2
  <2>1. CASE \E w \in Processors : ClaimProcessing(w, S)
    BY <2>1 DEF ClaimProcessing
  <2>2. CASE \E c \in Cleaners : ClaimReadyQuarantine(c, S)
    BY <2>2 DEF ClaimReadyQuarantine
  <2>3. CASE \E c \in Cleaners : ClaimCleanup(c, S)
    BY <2>3 DEF ClaimCleanup, Due
  <2>. QED
    BY <2>1, <2>2, <2>3 DEF ClaimStep
<1>3. ASSUME NEW w \in Workers, NEW a \in Attachments, WorkerStep(w, a)
      PROVE  elapsed[b] \/ (owner[b] \in Processors /\ phase[owner[b]][b] = "retry")
  <2>1. CASE w \in Processors /\ Reject(w, a)
    <3>1. phase[w][a] = "reject" /\ (owner[a] = w \/ UNCHANGED state)
      BY <2>1 DEF Reject, Drop
    <3>2. "reject" \in Working
      BY DEF Working, ProcessorPhases
    <3>3. owner[a] = w => state[a] # "Ready"
      BY <3>1, <3>2 DEF WorkInv, HandlingInv
    <3>. QED
      BY <2>1, <3>1, <3>3 DEF Reject, MarkRejectedForDelete, Drop
  <2>2. CASE w \in Processors /\ RetryOrFail(w, a)
    BY <2>2 DEF RetryOrFail, MarkRejectedForDelete, ReleaseForRetry, Drop
  <2>3. CASE FinalizeDeletion(w, a)
    BY <2>3 DEF FinalizeDeletion, Drop
  <2>4. CASE MarkStructurallyValidated(w, a) \/ MarkPromoting(w, a) \/ MarkReady(w, a)
    BY <2>4 DEF MarkStructurallyValidated, MarkPromoting, MarkReady, Publishable, Drop
  <2>5. CASE \/ ReadQuarantine(w, a) \/ CheckStore(w, a) \/ WriteReady(w, a)
             \/ HeadReady(w, a) \/ Defer(w, a) \/ DeleteReady(w, a)
             \/ DeleteQuarantine(w, a) \/ ReleaseCleanup(w, a) \/ QuarantineStep(w, a)
    BY <2>5 DEF ReadQuarantine, CheckStore, WriteReady, HeadReady, Defer,
       ReleaseForRetry, DeleteReady, DeleteQuarantine, ReleaseCleanup,
       QuarantineStep, DropQuarantine, CompleteReadyQuarantineCleanup, Drop
  <2>. QED
    BY <1>3, <2>1, <2>2, <2>3, <2>4, <2>5 DEF WorkerStep, ProcessorStep, CleanerStep
<1>4. CASE \/ \E w \in Workers, a \in Attachments : ScannerDown(w, a) \/ CallFails(w, a)
           \/ \E w \in Workers : Crash(w)
           \/ \E a \in Attachments : Time(a)
           \/ UNCHANGED vars
  BY <1>4 DEF ScannerDown, CallFails, Crash, Time, LeaseLapses, DeadlinePasses, vars
<1>. QED
  BY <1>1, <1>2, <1>3, <1>4 DEF Next

(* A message keeps a Ready attachment until its retention ends, a worker that
   gave up on one it had published apart (MarkReadyAsync, RetryOrFailAsync). *)
THEOREM RetentionCorrect == Spec => RetentionUnlessUnacknowledged
<1>1. AllInv /\ [Next]_vars =>
      [\A a \in Attachments :
          bound[a] /\ state[a] = "Ready" /\ state'[a] # "Ready"
          => \/ elapsed[a]
             \/ owner[a] \in Processors /\ phase[owner[a]][a] = "retry"]_vars
  BY ReadyIsLeft
<1>. QED
  BY <1>1, AllInvariance, PTL DEF Spec, RetentionUnlessUnacknowledged

----------------------------------------------------------------------------
(* The promise. *)

PromiseStep == Promise!Next \/ UNCHANGED Promise!promiseVars

LEMMA Stages ==
  /\ \A s \in InProgress \cup {"PendingUpload"} : Stage(s) = "pending"
  /\ \A s \in Terminal : Stage(s) = "gone"
  /\ Stage("Absent") = "absent" /\ Stage("Ready") = "available"
  /\ Stage("DeletePending") = "withdrawn"
  /\ \A s \in States : s \notin {"Absent"} \cup Terminal
                       => Stage(s) \in {"pending", "available", "withdrawn"}
BY DEF Stage, InProgress, Terminal, States

LEMMA PromiseStutter ==
  ASSUME \A a \in Attachments : Stage(state'[a]) = Stage(state[a]) /\ Shown(a)' = Shown(a),
         UNCHANGED <<bound, companyFile>>
  PROVE  PromiseStep
BY DEF PromiseStep, Promise!promiseVars, Listed

LEMMA ReserveStep ==
  ASSUME NEW a \in Attachments, Stage(state[a]) = "absent",
         \A b \in Attachments : Stage(state'[b]) = IF b = a THEN "pending" ELSE Stage(state[b]),
         \A b \in Attachments : Shown(b)' = Shown(b),
         UNCHANGED <<bound, companyFile>>
  PROVE  PromiseStep
<1>1. Promise!Reserve(a)
  BY DEF Promise!Reserve, Listed
<1>. QED
  BY <1>1 DEF PromiseStep, Promise!Next

LEMMA PublishStep ==
  ASSUME NEW a \in Attachments, NEW c \in Clean, Stage(state[a]) = "pending",
         \A b \in Attachments : Stage(state'[b]) = IF b = a THEN "available" ELSE Stage(state[b]),
         \A b \in Attachments : Shown(b)' = IF b = a THEN c ELSE Shown(b),
         UNCHANGED <<bound, companyFile>>
  PROVE  PromiseStep
<1>1. Promise!Publish(a, c)
  BY DEF Promise!Publish, Listed
<1>. QED
  BY <1>1 DEF PromiseStep, Promise!Next

LEMMA WithdrawStep ==
  ASSUME NEW S \in SUBSET Attachments,
         \A a \in S : Stage(state[a]) \in {"pending", "available", "withdrawn"},
         \A a \in Attachments : Stage(state'[a]) = IF a \in S THEN "withdrawn" ELSE Stage(state[a]),
         \A a \in Attachments : Shown(a)' = IF a \in S THEN Nothing ELSE Shown(a),
         UNCHANGED <<bound, companyFile>>
  PROVE  PromiseStep
<1>1. Promise!Withdraw(S)
  BY DEF Promise!Withdraw, Listed
<1>. QED
  BY <1>1 DEF PromiseStep, Promise!Next

LEMMA RemoveStep ==
  ASSUME NEW a \in Attachments, Stage(state[a]) = "withdrawn",
         \A b \in Attachments : Stage(state'[b]) = IF b = a THEN "gone" ELSE Stage(state[b]),
         \A b \in Attachments : Shown(b)' = Shown(b),
         \A b \in Attachments : companyFile'[b] = "active" <=> b # a /\ companyFile[b] = "active",
         UNCHANGED bound
  PROVE  PromiseStep
<1>1. Promise!Remove(a)
  <2>1. Listed' = Listed \ {a}
    BY DEF Listed
  <2>. QED
    BY <2>1 DEF Promise!Remove
<1>. QED
  BY <1>1 DEF PromiseStep, Promise!Next

LEMMA AttachStep ==
  ASSUME NEW S \in SUBSET Attachments, Bind(S)
  PROVE  PromiseStep
<1>1. Promise!Attach(S)
  <2>1. /\ \A a \in S : state[a] = "Ready" /\ ~bound[a]
        /\ bound' = [a \in Attachments |-> bound[a] \/ a \in S]
        /\ UNCHANGED <<state, ready>>
    BY DEF Bind, Bindable
  <2>2. Listed' = Listed \cup S
    BY DEF Bind, Listed
  <2>3. \A a \in Attachments : Shown(a)' = Shown(a)
    BY <2>1 DEF Shown
  <2>. QED
    BY <2>1, <2>2, <2>3, Stages DEF Promise!Attach
<1>. QED
  BY <1>1 DEF PromiseStep, Promise!Next

(* A row that goes to DeletePending under its owner was there and not done. *)
LEMMA RejectedStep ==
  ASSUME AllInv, NEW w \in Workers, NEW a \in Attachments, NEW t \in Terminal,
         owner[a] = w, MarkRejectedForDelete(a, t), UNCHANGED storeVars
  PROVE  PromiseStep
<1>1. state[a] \notin {"Absent"} \cup Terminal
  BY ConstantsAssumption DEF AllInv, LifecycleInv, RowInv, WorkInv, StorageInv
<1>2. Stage(state[a]) \in {"pending", "available", "withdrawn"}
  BY <1>1, Stages DEF AllInv, TypeOK
<1>3. /\ state' = [state EXCEPT ![a] = "DeletePending"]
      /\ UNCHANGED <<bound, companyFile, ready>>
  BY DEF MarkRejectedForDelete
<1>4. \A b \in Attachments :
        /\ Stage(state'[b]) = IF b \in {a} THEN "withdrawn" ELSE Stage(state[b])
        /\ Shown(b)' = IF b \in {a} THEN Nothing ELSE Shown(b)
  BY <1>3, Stages DEF Shown, AllInv, TypeOK
<1>. QED
  BY <1>2, <1>3, <1>4, WithdrawStep

(* A step that leaves alone what users see, or changes one pending state into
   another. *)
LEMMA PendingStep ==
  ASSUME \A b \in Attachments :
            \/ state'[b] = state[b]
            \/ /\ state[b] \in InProgress \cup {"PendingUpload"}
               /\ state'[b] \in InProgress \cup {"PendingUpload"},
         \A b \in Attachments : state[b] = "Ready" => ready'[b] = ready[b],
         UNCHANGED <<bound, companyFile>>
  PROVE  PromiseStep
<1>1. ASSUME NEW b \in Attachments
      PROVE  Stage(state'[b]) = Stage(state[b]) /\ Shown(b)' = Shown(b)
  BY <1>1, Stages DEF Shown, InProgress
<1>. QED
  BY <1>1, PromiseStutter

LEMMA PromiseNext == AllInv /\ [Next]_vars => PromiseStep
<1>. SUFFICES ASSUME AllInv, [Next]_vars PROVE PromiseStep
  OBVIOUS
<1>0. TypeOK /\ LifecycleInv /\ WorkInv
  BY DEF AllInv
<1>t. state \in [Attachments -> States] /\ ready \in [Attachments -> Contents \cup {Nothing}]
  BY <1>0 DEF TypeOK
<1>k. ASSUME UNCHANGED <<state, bound, companyFile, ready>> PROVE PromiseStep
  BY <1>k, PendingStep
<1>1. CASE Request
  <2>1. ASSUME NEW a \in Attachments, CreateIntent(a) PROVE PromiseStep
    <3>1. \A b \in Attachments :
            /\ Stage(state'[b]) = IF b = a THEN "pending" ELSE Stage(state[b])
            /\ Shown(b)' = Shown(b)
      BY <1>t, <2>1, Stages DEF CreateIntent, Shown
    <3>. QED
      BY <2>1, <3>1, Stages, ReserveStep DEF CreateIntent
  <2>2. ASSUME NEW a \in Attachments, Cancel(a) PROVE PromiseStep
    <3>1. Stage(state[a]) \in {"pending", "available", "withdrawn"}
      BY <2>2, Stages DEF Cancel, CanCancel, CancellableStates
    <3>2. \A b \in Attachments :
            /\ Stage(state'[b]) = IF b \in {a} THEN "withdrawn" ELSE Stage(state[b])
            /\ Shown(b)' = IF b \in {a} THEN Nothing ELSE Shown(b)
      BY <1>t, <2>2, Stages DEF Cancel, Shown
    <3>. QED
      BY <2>2, <3>1, <3>2, WithdrawStep DEF Cancel
  <2>3. ASSUME NEW a \in Attachments, NEW c \in Contents, Complete(a, c) PROVE PromiseStep
    BY <1>t, <2>3, PendingStep DEF Complete, InProgress
  <2>4. ASSUME NEW a \in Attachments,
               \/ BeginComplete(a)
               \/ \E c \in Contents : BeginUpload(a, c) \/ FinishUpload(a, c) \/ AbortUpload(a, c)
        PROVE  PromiseStep
    BY <1>k, <2>4 DEF BeginComplete, BeginUpload, FinishUpload, AbortUpload
  <2>. QED
    BY <1>1, <2>1, <2>2, <2>3, <2>4, AttachStep DEF Request
<1>2. ASSUME NEW S \in SUBSET Attachments, ClaimStep(S) PROVE PromiseStep
  <2>1. ASSUME NEW w \in Processors, ClaimProcessing(w, S) PROVE PromiseStep
    BY <1>t, <2>1, PendingStep DEF ClaimProcessing, ProcessingState, InProgress
  <2>2. ASSUME NEW c \in Cleaners, ClaimReadyQuarantine(c, S) PROVE PromiseStep
    BY <1>k, <2>2 DEF ClaimReadyQuarantine
  <2>3. ASSUME NEW c \in Cleaners, ClaimCleanup(c, S) PROVE PromiseStep
    <3>1. \A a \in S : Stage(state[a]) \in {"pending", "available", "withdrawn"}
      BY <2>3, Stages DEF ClaimCleanup, Due
    <3>2. \A b \in Attachments :
            /\ Stage(state'[b]) = IF b \in S THEN "withdrawn" ELSE Stage(state[b])
            /\ Shown(b)' = IF b \in S THEN Nothing ELSE Shown(b)
      BY <1>t, <2>3, Stages DEF ClaimCleanup, Shown
    <3>. QED
      BY <2>3, <3>1, <3>2, WithdrawStep DEF ClaimCleanup
  <2>. QED
    BY <1>2, <2>1, <2>2, <2>3 DEF ClaimStep
<1>3. ASSUME NEW w \in Workers, NEW a \in Attachments, WorkerStep(w, a) PROVE PromiseStep
  <2>d. Drop(w, a) => PromiseStep
    BY <1>k DEF Drop
  <2>1. CASE Reject(w, a)
    <3>1. "Rejected" \in Terminal
      BY DEF Terminal
    <3>. QED
      BY <2>1, <2>d, <3>1, RejectedStep DEF Reject
  <2>2. CASE RetryOrFail(w, a) \/ Defer(w, a)
    <3>1. (IF Structural THEN "Rejected" ELSE "ScanFailed") \in Terminal
      BY DEF Terminal
    <3>. QED
      BY <1>k, <2>2, <2>d, <3>1, RejectedStep DEF RetryOrFail, Defer, ReleaseForRetry
  <2>3. CASE FinalizeDeletion(w, a)
    <3>1. CASE state[a] = "DeletePending" /\ owner[a] = w
      <4>1. /\ state' = [state EXCEPT ![a] = target[a]]
            /\ companyFile' = [companyFile EXCEPT ![a] = IF bound[a] THEN "inactive" ELSE @]
            /\ UNCHANGED <<bound, ready>>
        BY <2>3, <3>1 DEF FinalizeDeletion
      <4>2. target[a] \in Terminal /\ "Ready" \notin Terminal
        BY <1>0, <3>1 DEF LifecycleInv, RowInv, Terminal
      <4>3. \A b \in Attachments :
              /\ Stage(state'[b]) = IF b = a THEN "gone" ELSE Stage(state[b])
              /\ Shown(b)' = Shown(b)
        BY <1>t, <3>1, <4>1, <4>2, Stages DEF Shown
      <4>4. \A b \in Attachments :
              companyFile'[b] = "active" <=> b # a /\ companyFile[b] = "active"
        BY <1>0, <4>1 DEF TypeOK, WorkInv, StorageInv
      <4>. QED
        BY <3>1, <4>1, <4>3, <4>4, Stages, RemoveStep
    <3>2. CASE ~(state[a] = "DeletePending" /\ owner[a] = w)
      BY <2>3, <2>d, <3>2 DEF FinalizeDeletion
    <3>. QED
      BY <3>1, <3>2
  <2>4. CASE MarkReady(w, a)
    <3>1. CASE Publishable(w, a)
      <4>1. state[a] = "Promoting" /\ state' = [state EXCEPT ![a] = "Ready"]
            /\ UNCHANGED <<bound, companyFile, ready>>
        BY <2>4, <3>1 DEF MarkReady, Publishable
      <4>2. ready[a] \in Clean
        BY <1>0, <2>4, <4>1
           DEF MarkReady, LifecycleInv, PhaseInv, RowInv, Gone, Terminal
      <4>3. \A b \in Attachments :
              /\ Stage(state'[b]) = IF b = a THEN "available" ELSE Stage(state[b])
              /\ Shown(b)' = IF b = a THEN ready[a] ELSE Shown(b)
        BY <1>t, <4>1, Stages DEF Shown
      <4>4. Stage(state[a]) = "pending"
        BY <4>1, Stages DEF InProgress
      <4>. QED
        BY <4>1, <4>2, <4>3, <4>4, PublishStep
    <3>2. CASE ~Publishable(w, a)
      BY <2>4, <2>d, <3>2 DEF MarkReady
    <3>. QED
      BY <3>1, <3>2
  <2>5. CASE MarkStructurallyValidated(w, a) \/ MarkPromoting(w, a)
    <3>1. CASE Drop(w, a)
      BY <2>d, <3>1
    <3>2. CASE ~Drop(w, a)
      BY <1>t, <2>5, <3>2, PendingStep
         DEF MarkStructurallyValidated, MarkPromoting, InProgress
    <3>. QED
      BY <3>1, <3>2
  <2>6. CASE WriteReady(w, a)
    <3>1. UNCHANGED <<state, bound, companyFile>>
      BY <2>6 DEF WriteReady
    <3>2. \A b \in Attachments : state[b] = "Ready" => ready[b] # Nothing
      BY <1>0 DEF LifecycleInv, RowInv
    <3>3. \A b \in Attachments : state[b] = "Ready" => ready'[b] = ready[b]
      BY <1>t, <2>6, <3>2 DEF WriteReady
    <3>. QED
      BY <3>1, <3>3, PendingStep
  <2>7. CASE DeleteReady(w, a)
    <3>1. UNCHANGED <<state, bound, companyFile>> /\ phase[w][a] = "deleteReady"
      BY <2>7 DEF DeleteReady
    <3>2. state[a] # "Ready"
      BY <1>0, <3>1 DEF LifecycleInv, PhaseInv, DeletionPhases, Gone, Terminal
    <3>3. \A b \in Attachments : state[b] = "Ready" => ready'[b] = ready[b]
      BY <1>t, <2>7, <3>2 DEF DeleteReady
    <3>. QED
      BY <3>1, <3>3, PendingStep
  <2>8. CASE \/ ReadQuarantine(w, a) \/ CheckStore(w, a) \/ HeadReady(w, a)
             \/ DeleteQuarantine(w, a) \/ ReleaseCleanup(w, a) \/ QuarantineStep(w, a)
    BY <1>k, <2>8 DEF ReadQuarantine, CheckStore, HeadReady, DeleteQuarantine, ReleaseCleanup,
       QuarantineStep, DropQuarantine, CompleteReadyQuarantineCleanup, Drop
  <2>. QED
    BY <1>3, <2>1, <2>2, <2>3, <2>4, <2>5, <2>6, <2>7, <2>8
       DEF WorkerStep, ProcessorStep, CleanerStep
<1>4. CASE \/ \E w \in Workers, a \in Attachments : ScannerDown(w, a) \/ CallFails(w, a)
           \/ \E w \in Workers : Crash(w)
           \/ \E a \in Attachments : Time(a)
           \/ UNCHANGED vars
  BY <1>k, <1>4 DEF ScannerDown, CallFails, Crash, Time, LeaseLapses, DeadlinePasses, vars
<1>. QED
  BY <1>1, <1>2, <1>3, <1>4 DEF Next

(* Rows, objects, leases and workers implement what users are promised: one clean
   content per attachment, messages that take several or none, no return from a
   withdrawal, and a file list with exactly what messages hold. *)
THEOREM PromiseCorrect == Spec => PromiseIsKept
<1>1. Init => Promise!Init
  <2>. SUFFICES ASSUME Init PROVE Promise!Init
    OBVIOUS
  <2>1. \A a \in Attachments : Stage(state[a]) = "absent" /\ Shown(a) = Nothing
    BY Stages DEF Init, Shown
  <2>2. bound = [a \in Attachments |-> FALSE]
    BY DEF Init
  <2>3. Listed = {}
    BY DEF Init, Listed
  <2>. QED
    BY <2>1, <2>2, <2>3 DEF Promise!Init
<1>2. AllInv /\ [Next]_vars => [Promise!Next]_(Promise!promiseVars)
  BY PromiseNext DEF PromiseStep
<1>. QED
  BY <1>1, <1>2, AllInvariance, PTL DEF Spec, PromiseIsKept, Promise!Spec

----------------------------------------------------------------------------
(* Without failures: at most the owner of a live lease works on a row, what it
   has learnt is the row's, and only a content that does not validate, or cannot
   be written, is on its way to being refused. *)

Refused == {"Rejected", "ScanFailed"}

SourcePhases ==
    {"read", "readValidated", "readPromoting", "markValidated", "markPromoting",
     "checkStore", "writeReady", "headReady", "markReady"}

OrderlyRow(a) ==
    /\ state[a] \in {"Absent", "PendingUpload"} => target[a] = Nothing
    /\ state[a] \in Refused \/ target[a] \in Refused
       => etag[a] \notin Clean \/ ~Writable(etag[a])

OrderlyWork(w, a) ==
    /\ phase[w][a] # "none" => owner[a] = w /\ leased[a]
    /\ phase[w][a] \in ProcessorPhases => etag[a] # Nothing
    /\ phase[w][a] \in SourcePhases => quarantine[a] = etag[a]
    /\ phase[w][a] \in {"headReady", "markReady"} => ready[a] # Nothing
    /\ phase[w][a] = "reject" => etag[a] \notin Clean
    /\ phase[w][a] = "retry" => ~Writable(etag[a])

Orderly == \A a \in Attachments : OrderlyRow(a) /\ \A w \in Workers : OrderlyWork(w, a)

OrderlyInv == faults = 0 => Orderly

LEMMA OrderlyNames ==
  /\ SourcePhases \cup {"reject", "retry"} \subseteq ProcessorPhases
  /\ "none" \notin ProcessorPhases
  /\ (DeletionPhases \cup ReadyCleanupPhases) \cap ProcessorPhases = {}
  /\ Refused \cap ({"Deleted", "Expired", "DeletePending", "Ready", "Absent", "PendingUpload"}
                   \cup InProgress) = {}
  /\ Refused \subseteq Terminal /\ Nothing \notin Refused
BY NothingAssumption
   DEF SourcePhases, ProcessorPhases, DeletionPhases, ReadyCleanupPhases, Refused,
       InProgress, Terminal

(* One fault is one too many. *)
LEMMA Faultless == ASSUME TypeOK, Fault PROVE faults' # 0
BY ConstantsAssumption DEF TypeOK, Fault

LEMMA FaultlessAcknowledge ==
  ASSUME TypeOK, faults' = 0, NEW w \in Workers, NEW a \in Attachments, NEW p, NEW q,
         Acknowledge(w, a, p, q)
  PROVE  Enter(w, a, p)
BY Faultless DEF Acknowledge

LEMMA SoleWorker ==
  ASSUME Orderly, NEW w \in Workers, NEW v \in Workers, NEW a \in Attachments,
         phase[w][a] # "none", v # w
  PROVE  phase[v][a] = "none"
BY DEF Orderly, OrderlyWork

LEMMA OrderlyKept ==
  ASSUME Orderly, NEW v \in Workers, NEW b \in Attachments,
         UNCHANGED <<state, owner, leased, target, etag, quarantine, ready>>,
         phase'[v][b] \in {"none", phase[v][b]}
  PROVE  OrderlyRow(b)' /\ OrderlyWork(v, b)'
BY OrderlyNames DEF Orderly, OrderlyRow, OrderlyWork, Writable, Structural, SourcePhases

LEMMA DropOrderly ==
  ASSUME TypeOK, Orderly, NEW w \in Workers, NEW a \in Attachments, Drop(w, a),
         NEW v \in Workers, NEW b \in Attachments
  PROVE  OrderlyRow(b)' /\ OrderlyWork(v, b)'
<1>1. phase'[v][b] \in {"none", phase[v][b]}
  BY EnterPhase DEF Drop
<1>. QED
  BY <1>1, OrderlyKept DEF Drop

LEMMA RequestOrderly ==
  ASSUME TypeOK, LifecycleInv, Orderly, Request, NEW v \in Workers, NEW b \in Attachments
  PROVE  OrderlyRow(b)' /\ OrderlyWork(v, b)'
<1>0. TypeOK /\ OrderlyRow(b) /\ OrderlyWork(v, b) /\ RowInv(b)
  BY DEF Orderly, LifecycleInv
<1>1. CASE \E a \in Attachments : CreateIntent(a)
  BY <1>0, <1>1, OrderlyNames
     DEF CreateIntent, TypeOK, OrderlyRow, OrderlyWork, Writable, Structural
<1>2. CASE \E a \in Attachments : BeginComplete(a)
  BY <1>2, OrderlyKept DEF BeginComplete
<1>3. CASE \E a \in Attachments : Cancel(a)
  BY <1>0, <1>3, OrderlyNames
     DEF Cancel, TypeOK, OrderlyRow, OrderlyWork, Writable, Structural
<1>4. CASE \E a \in Attachments, c \in Contents : BeginUpload(a, c) \/ AbortUpload(a, c)
  BY <1>4, OrderlyKept DEF BeginUpload, AbortUpload
<1>5. ASSUME NEW a \in Attachments, NEW c \in Contents, FinishUpload(a, c)
      PROVE  OrderlyRow(b)' /\ OrderlyWork(v, b)'
  <2>1. UNCHANGED <<rowVars, ready, phase>>
    BY <1>5 DEF FinishUpload
  <2>2. quarantine[b] # Nothing => quarantine'[b] = quarantine[b]
    BY <1>0, <1>5 DEF FinishUpload, TypeOK
  <2>. QED
    BY <1>0, <2>1, <2>2, OrderlyNames DEF OrderlyRow, OrderlyWork, Writable, Structural
<1>6. ASSUME NEW a \in Attachments, NEW c \in Contents, Complete(a, c)
      PROVE  OrderlyRow(b)' /\ OrderlyWork(v, b)'
  <2>1. UNCHANGED <<owner, leased, target, quarantine, ready, phase>>
    BY <1>6 DEF Complete
  <2>2. \/ UNCHANGED <<state[b], etag[b]>>
        \/ state[b] = "PendingUpload" /\ state'[b] = "Uploaded"
    BY <1>0, <1>6 DEF Complete, TypeOK
  <2>3. CASE UNCHANGED <<state[b], etag[b]>>
    BY <1>0, <2>1, <2>3 DEF OrderlyRow, OrderlyWork, Writable, Structural
  <2>4. CASE state[b] = "PendingUpload" /\ state'[b] = "Uploaded"
    <3>1. target[b] = Nothing /\ etag[b] = Nothing
      BY <1>0, <2>4 DEF OrderlyRow, RowInv
    <3>2. phase[v][b] \notin ProcessorPhases
      BY <1>0, <3>1 DEF OrderlyWork
    <3>. QED
      BY <1>0, <2>1, <2>4, <3>1, <3>2, OrderlyNames
         DEF OrderlyRow, OrderlyWork, Refused, SourcePhases
  <2>. QED
    BY <2>2, <2>3, <2>4
<1>7. CASE \E S \in SUBSET Attachments : Bind(S)
  BY <1>7, OrderlyKept DEF Bind
<1>. QED
  BY <1>1, <1>2, <1>3, <1>4, <1>5, <1>6, <1>7 DEF Request

(* The worker's own row, released by the worker that owns it. *)
LEMMA UnleasedOrderly ==
  ASSUME TypeOK, Orderly, NEW w \in Workers, NEW a \in Attachments, Unlease(a),
         phase[w][a] # "none", Enter(w, a, "none"),
         UNCHANGED <<etag, quarantine, ready>>,
         NEW v \in Workers, NEW b \in Attachments,
         b # a => UNCHANGED <<state[b], target[b]>>,
         OrderlyRow(a)'
  PROVE  OrderlyRow(b)' /\ OrderlyWork(v, b)'
<1>1. phase'[v][b] = IF v = w /\ b = a THEN "none" ELSE phase[v][b]
  BY EnterPhase
<1>2. b = a => phase'[v][b] = "none"
  BY <1>1, SoleWorker
<1>3. b # a => UNCHANGED <<owner[b], leased[b]>>
  BY DEF Unlease, TypeOK
<1>4. OrderlyRow(b) /\ OrderlyWork(v, b)
  BY DEF Orderly
<1>5. CASE b = a
  BY <1>2, <1>5, OrderlyNames DEF OrderlyWork, SourcePhases
<1>6. CASE b # a
  BY <1>1, <1>3, <1>4, <1>6 DEF OrderlyRow, OrderlyWork, Writable, Structural
<1>. QED
  BY <1>5, <1>6

(* A call that only moves the worker on, to a phase whose conditions hold. *)
LEMMA EnterOrderly ==
  ASSUME TypeOK, Orderly, NEW w \in Workers, NEW a \in Attachments, NEW p,
         phase[w][a] # "none", Enter(w, a, p),
         UNCHANGED <<owner, leased, target, etag, quarantine>>,
         \A c \in Attachments : ready[c] # Nothing => ready'[c] # Nothing,
         \A c \in Attachments : OrderlyRow(c)',
         p \in ProcessorPhases => etag[a] # Nothing,
         p \in SourcePhases => quarantine[a] = etag[a],
         p \in {"headReady", "markReady"} => ready'[a] # Nothing,
         p = "reject" => etag[a] \notin Clean,
         p = "retry" => ~Writable(etag[a]),
         NEW v \in Workers, NEW b \in Attachments
  PROVE  OrderlyRow(b)' /\ OrderlyWork(v, b)'
<1>1. phase'[v][b] = IF v = w /\ b = a THEN p ELSE phase[v][b]
  BY EnterPhase
<1>2. OrderlyWork(v, b) /\ OrderlyWork(w, a)
  BY DEF Orderly
<1>3. CASE v = w /\ b = a
  BY <1>1, <1>2, <1>3 DEF OrderlyWork, Writable, Structural
<1>4. CASE ~(v = w /\ b = a)
  BY <1>1, <1>2, <1>4 DEF OrderlyWork, Writable, Structural
<1>. QED
  BY <1>3, <1>4

LEMMA ProcessorOrderly ==
  ASSUME TypeOK, LifecycleInv, Orderly, faults' = 0,
         NEW w \in Processors, NEW a \in Attachments, ProcessorStep(w, a),
         NEW v \in Workers, NEW b \in Attachments
  PROVE  OrderlyRow(b)' /\ OrderlyWork(v, b)'
<1>0. w \in Workers /\ OrderlyRow(a) /\ OrderlyWork(w, a)
  BY Names DEF Orderly
<1>r. ASSUME UNCHANGED <<state, target, etag>>, NEW c \in Attachments PROVE OrderlyRow(c)'
  BY <1>r DEF Orderly, OrderlyRow, Writable, Structural
<1>m. ASSUME NEW s \in InProgress \cup {"Ready"}, state[a] \in InProgress,
             state' = [state EXCEPT ![a] = s], UNCHANGED <<target, etag>>,
             NEW c \in Attachments
      PROVE  OrderlyRow(c)'
  BY <1>m, OrderlyNames DEF TypeOK, Orderly, OrderlyRow, Writable, Structural, InProgress
<1>d. ASSUME NEW t \in Terminal, MarkRejectedForDelete(a, t),
             t \in Refused => etag[a] \notin Clean \/ ~Writable(etag[a]),
             NEW c \in Attachments
      PROVE  OrderlyRow(c)'
  BY <1>d, OrderlyNames
     DEF MarkRejectedForDelete, TypeOK, Orderly, OrderlyRow, Writable, Structural
<1>1. CASE ReadQuarantine(w, a)
  <2>1. PICK p : /\ Enter(w, a, p)
                 /\ p \in {"reject", "checkStore", "markPromoting", "markValidated"}
                 /\ p = "reject" => etag[a] \notin Clean
    BY <1>0, <1>1 DEF ReadQuarantine, AfterRead, OrderlyWork, SourcePhases
  <2>2. /\ phase[w][a] \in SourcePhases
        /\ UNCHANGED <<rowVars, storeVars>>
    BY <1>1 DEF ReadQuarantine, SourcePhases
  <2>. QED
    BY <1>0, <1>r, <2>1, <2>2, EnterOrderly, OrderlyNames DEF OrderlyWork
<1>2. CASE MarkStructurallyValidated(w, a)
  <2>1. CASE state[a] = "StructuralValidation" /\ owner[a] = w
    <3>1. Acknowledge(w, a, "markPromoting", "retry")
      BY <1>2, <2>1 DEF MarkStructurallyValidated
    <3>2. Enter(w, a, "markPromoting")
      BY <1>0, <3>1, FaultlessAcknowledge
    <3>3. /\ phase[w][a] \in SourcePhases
          /\ state' = [state EXCEPT ![a] = "StructurallyValidated"]
          /\ UNCHANGED <<owner, leased, target, etag, quarantine, ready>>
      BY <1>2, <2>1 DEF MarkStructurallyValidated, SourcePhases
    <3>4. \A c \in Attachments : OrderlyRow(c)'
      BY <1>m, <2>1, <3>3 DEF InProgress
    <3>. QED
      BY <1>0, <3>2, <3>3, <3>4, EnterOrderly, OrderlyNames DEF OrderlyWork
  <2>2. CASE ~(state[a] = "StructuralValidation" /\ owner[a] = w)
    BY <1>0, <1>2, <2>2, DropOrderly DEF MarkStructurallyValidated
  <2>. QED
    BY <2>1, <2>2
<1>3. CASE MarkPromoting(w, a)
  <2>1. CASE state[a] \in {"Scanning", "StructurallyValidated"} /\ owner[a] = w
    <3>1. Acknowledge(w, a, "checkStore", "retry")
      BY <1>3, <2>1 DEF MarkPromoting
    <3>2. Enter(w, a, "checkStore")
      BY <1>0, <3>1, FaultlessAcknowledge
    <3>3. /\ phase[w][a] \in SourcePhases
          /\ state' = [state EXCEPT ![a] = "Promoting"]
          /\ UNCHANGED <<owner, leased, target, etag, quarantine, ready>>
      BY <1>3, <2>1 DEF MarkPromoting, SourcePhases
    <3>4. \A c \in Attachments : OrderlyRow(c)'
      BY <1>m, <2>1, <3>3 DEF InProgress
    <3>. QED
      BY <1>0, <3>2, <3>3, <3>4, EnterOrderly, OrderlyNames DEF OrderlyWork
  <2>2. CASE ~(state[a] \in {"Scanning", "StructurallyValidated"} /\ owner[a] = w)
    BY <1>0, <1>3, <2>2, DropOrderly DEF MarkPromoting
  <2>. QED
    BY <2>1, <2>2
<1>4. CASE CheckStore(w, a)
  <2>1. phase[w][a] \in SourcePhases /\ UNCHANGED <<rowVars, storeVars>>
    BY <1>4 DEF CheckStore, SourcePhases
  <2>2. quarantine[a] = etag[a] /\ etag[a] # Nothing
    BY <1>0, <2>1, OrderlyNames DEF OrderlyWork
  <2>3. Enter(w, a, IF ready[a] # Nothing THEN "headReady" ELSE "writeReady")
    BY <1>4, <2>2 DEF CheckStore
  <2>. QED
    BY <1>0, <1>r, <2>1, <2>2, <2>3, EnterOrderly, OrderlyNames
<1>5. CASE WriteReady(w, a)
  <2>1. phase[w][a] \in SourcePhases /\ UNCHANGED <<rowVars, quarantine>>
    BY <1>5 DEF WriteReady, SourcePhases
  <2>2. quarantine[a] = etag[a] /\ etag[a] # Nothing
    BY <1>0, <2>1, OrderlyNames DEF OrderlyWork
  <2>3. /\ \A c \in Attachments : ready[c] # Nothing => ready'[c] # Nothing
        /\ Writable(etag[a]) => ready'[a] # Nothing
        /\ Enter(w, a, IF Writable(etag[a]) THEN "headReady" ELSE "retry")
    BY <1>5, <2>2 DEF WriteReady, TypeOK
  <2>. QED
    BY <1>0, <1>r, <2>1, <2>2, <2>3, EnterOrderly, OrderlyNames
<1>6. CASE HeadReady(w, a)
  <2>1. phase[w][a] \in SourcePhases /\ UNCHANGED <<rowVars, storeVars>>
    BY <1>6 DEF HeadReady, SourcePhases
  <2>2. ready[a] # Nothing
    BY <1>0, <1>6 DEF HeadReady, OrderlyWork
  <2>3. Enter(w, a, "markReady")
    BY <1>6, <2>2 DEF HeadReady
  <2>. QED
    BY <1>0, <1>r, <2>1, <2>2, <2>3, EnterOrderly, OrderlyNames DEF OrderlyWork
<1>7. CASE MarkReady(w, a)
  <2>1. CASE Publishable(w, a)
    <3>1. Acknowledge(w, a, "dropQuarantine", "retry")
      BY <1>7, <2>1 DEF MarkReady
    <3>2. Enter(w, a, "dropQuarantine")
      BY <1>0, <3>1, FaultlessAcknowledge
    <3>3. /\ phase[w][a] \in SourcePhases
          /\ state' = [state EXCEPT ![a] = "Ready"]
          /\ UNCHANGED <<owner, leased, target, etag, quarantine, ready>>
      BY <1>7, <2>1 DEF MarkReady, SourcePhases
    <3>4. \A c \in Attachments : OrderlyRow(c)'
      BY <1>m, <2>1, <3>3 DEF Publishable, InProgress
    <3>5. "dropQuarantine" \notin SourcePhases
      BY DEF SourcePhases
    <3>. QED
      BY <1>0, <3>2, <3>3, <3>4, <3>5, EnterOrderly, OrderlyNames DEF OrderlyWork
  <2>2. CASE ~Publishable(w, a)
    BY <1>0, <1>7, <2>2, DropOrderly DEF MarkReady
  <2>. QED
    BY <2>1, <2>2
<1>8. CASE Reject(w, a)
  <2>1. CASE owner[a] = w
    <3>1. MarkRejectedForDelete(a, "Rejected") /\ Acknowledge(w, a, "none", "retry")
          /\ phase[w][a] = "reject" /\ UNCHANGED storeVars
      BY <1>8, <2>1 DEF Reject
    <3>2. Enter(w, a, "none")
      BY <1>0, <3>1, FaultlessAcknowledge
    <3>3. OrderlyRow(a)'
      BY <1>0, <1>d, <3>1 DEF Terminal, OrderlyWork
    <3>. QED
      BY <1>0, <3>1, <3>2, <3>3, UnleasedOrderly DEF MarkRejectedForDelete, TypeOK
  <2>2. CASE owner[a] # w
    BY <1>0, <1>8, <2>2, DropOrderly DEF Reject
  <2>. QED
    BY <2>1, <2>2
<1>9. CASE RetryOrFail(w, a)
  <2>1. CASE owner[a] # w
    BY <1>0, <1>9, <2>1, DropOrderly DEF RetryOrFail
  <2>2. CASE owner[a] = w
    <3>1. phase[w][a] = "retry" /\ Enter(w, a, "none") /\ UNCHANGED storeVars
      BY <1>9, <2>2 DEF RetryOrFail
    <3>2. CASE Exhausted(a)
      <4>1. PICK t \in Terminal : MarkRejectedForDelete(a, t)
        BY <1>9, <2>2, <3>2 DEF RetryOrFail, Terminal
      <4>2. OrderlyRow(a)'
        BY <1>0, <1>d, <3>1, <4>1 DEF OrderlyWork
      <4>. QED
        BY <1>0, <3>1, <4>1, <4>2, UnleasedOrderly DEF MarkRejectedForDelete, TypeOK
    <3>3. CASE ~Exhausted(a)
      <4>1. ReleaseForRetry(a, 1)
        BY <1>9, <2>2, <3>3 DEF RetryOrFail
      <4>2. OrderlyRow(a)'
        BY <1>r, <4>1 DEF ReleaseForRetry
      <4>. QED
        BY <1>0, <3>1, <4>1, <4>2, UnleasedOrderly DEF ReleaseForRetry
    <3>. QED
      BY <3>2, <3>3
  <2>. QED
    BY <2>1, <2>2
<1>10. CASE Defer(w, a)
  <2>1. CASE owner[a] # w
    BY <1>0, <1>10, <2>1, DropOrderly DEF Defer
  <2>2. CASE owner[a] = w
    <3>1. /\ phase[w][a] = "defer" /\ Enter(w, a, "none") /\ UNCHANGED storeVars
          /\ ReleaseForRetry(a, 0)
      BY <1>10, <2>2 DEF Defer
    <3>2. OrderlyRow(a)'
      BY <1>r, <3>1 DEF ReleaseForRetry
    <3>. QED
      BY <1>0, <3>1, <3>2, UnleasedOrderly DEF ReleaseForRetry
  <2>. QED
    BY <2>1, <2>2
<1>. QED
  BY <1>1, <1>2, <1>3, <1>4, <1>5, <1>6, <1>7, <1>8, <1>9, <1>10 DEF ProcessorStep

LEMMA CleanerOrderly ==
  ASSUME TypeOK, LifecycleInv, Orderly, faults' = 0,
         NEW c \in Cleaners, NEW a \in Attachments, CleanerStep(c, a),
         NEW v \in Workers, NEW b \in Attachments
  PROVE  OrderlyRow(b)' /\ OrderlyWork(v, b)'
<1>0. /\ c \in Workers /\ OrderlyRow(a) /\ RowInv(a)
      /\ OrderlyRow(b) /\ OrderlyWork(v, b)
  BY Names DEF Orderly, LifecycleInv
<1>1. CASE DeleteReady(c, a) \/ DeleteQuarantine(c, a)
  <2>1. PICK p \in DeletionPhases : Enter(c, a, p)
    BY <1>1 DEF DeleteReady, DeleteQuarantine, DeletionPhases
  <2>2. phase'[v][b] = IF v = c /\ b = a THEN p ELSE phase[v][b]
    BY <1>0, <2>1, EnterPhase
  <2>3. /\ UNCHANGED rowVars
        /\ phase[c][a] # "none"
        /\ b # a => UNCHANGED <<quarantine[b], ready[b]>>
    BY <1>1 DEF DeleteReady, DeleteQuarantine, TypeOK
  <2>4. OrderlyRow(b)'
    BY <1>0, <2>3 DEF OrderlyRow, Writable, Structural
  <2>5. CASE b = a
    <3>1. phase'[v][b] \in DeletionPhases \cup {"none"}
      BY <1>0, <2>2, <2>3, <2>5, SoleWorker
    <3>2. owner[a] = c /\ leased[a] /\ (phase'[v][b] # "none" => v = c)
      BY <1>0, <2>2, <2>3, <2>5, SoleWorker DEF Orderly, OrderlyWork
    <3>. QED
      BY <2>3, <2>4, <2>5, <3>1, <3>2, OrderlyNames DEF OrderlyWork, SourcePhases
  <2>6. CASE b # a
    BY <1>0, <2>2, <2>3, <2>4, <2>6 DEF OrderlyWork, Writable, Structural
  <2>. QED
    BY <2>5, <2>6
<1>3. CASE FinalizeDeletion(c, a)
  <2>1. CASE state[a] = "DeletePending" /\ owner[a] = c
    <3>1. Acknowledge(c, a, "none", "release")
      BY <1>3, <2>1 DEF FinalizeDeletion
    <3>2. Enter(c, a, "none")
      BY <1>0, <3>1, FaultlessAcknowledge
    <3>3. /\ state' = [state EXCEPT ![a] = target[a]]
          /\ target' = [target EXCEPT ![a] = Nothing]
          /\ Unlease(a) /\ phase[c][a] # "none"
          /\ UNCHANGED <<etag, quarantine, ready>>
      BY <1>3, <2>1 DEF FinalizeDeletion
    <3>4. state'[a] = target[a] /\ target'[a] = Nothing /\ target[a] \in Terminal
      BY <1>0, <2>1, <3>3 DEF TypeOK, RowInv
    <3>5. OrderlyRow(a)'
      BY <1>0, <3>3, <3>4, OrderlyNames DEF OrderlyRow, Writable, Structural, Terminal
    <3>. QED
      BY <1>0, <3>2, <3>3, <3>5, UnleasedOrderly DEF TypeOK
  <2>2. CASE ~(state[a] = "DeletePending" /\ owner[a] = c)
    BY <1>0, <1>3, <2>2, DropOrderly DEF FinalizeDeletion
  <2>. QED
    BY <2>1, <2>2
<1>4. CASE ReleaseCleanup(c, a)
  <2>1. CASE Drop(c, a)
    BY <1>0, <2>1, DropOrderly
  <2>2. CASE ~Drop(c, a)
    <3>1. /\ Unlease(a) /\ Enter(c, a, "none") /\ phase[c][a] # "none"
          /\ UNCHANGED <<state, target, etag, quarantine, ready>>
      BY <1>4, <2>2 DEF ReleaseCleanup
    <3>2. OrderlyRow(a)'
      BY <1>0, <3>1 DEF OrderlyRow, Writable, Structural
    <3>. QED
      BY <1>0, <3>1, <3>2, UnleasedOrderly
  <2>. QED
    BY <2>1, <2>2
<1>. QED
  BY <1>1, <1>3, <1>4 DEF CleanerStep

LEMMA QuarantineOrderly ==
  ASSUME TypeOK, LifecycleInv, Orderly, NEW w \in Workers, NEW a \in Attachments,
         QuarantineStep(w, a), NEW v \in Workers, NEW b \in Attachments
  PROVE  OrderlyRow(b)' /\ OrderlyWork(v, b)'
<1>0. OrderlyRow(a) /\ OrderlyWork(w, a) /\ OrderlyRow(b) /\ OrderlyWork(v, b)
  BY DEF Orderly
<1>1. CASE DropQuarantine(w, a)
  <2>1. PICK p \in {"clearQuarantine", "clearCopy"} : Enter(w, a, p)
    BY <1>1 DEF DropQuarantine
  <2>2. phase'[v][b] = IF v = w /\ b = a THEN p ELSE phase[v][b]
    BY <1>0, <2>1, EnterPhase
  <2>3. /\ UNCHANGED <<rowVars, ready>>
        /\ phase[w][a] \in {"dropQuarantine", "dropCopy"}
        /\ b # a => UNCHANGED quarantine[b]
    BY <1>1 DEF DropQuarantine, TypeOK
  <2>4. OrderlyRow(b)'
    BY <1>0, <2>3 DEF OrderlyRow, Writable, Structural
  <2>5. CASE b = a
    <3>1. /\ phase'[v][b] # "none" => v = w /\ phase'[v][b] = p
          /\ owner[a] = w /\ leased[a]
      BY <1>0, <2>2, <2>3, <2>5, SoleWorker DEF OrderlyWork
    <3>2. /\ p \notin SourcePhases /\ "none" \notin SourcePhases
          /\ p \in ProcessorPhases => phase[w][a] \in ProcessorPhases
      BY <2>1, <2>3, <1>1
         DEF DropQuarantine, SourcePhases, ProcessorPhases, Enter, TypeOK
    <3>. QED
      BY <1>0, <2>3, <2>4, <2>5, <3>1, <3>2, OrderlyNames DEF OrderlyWork
  <2>6. CASE b # a
    BY <1>0, <2>2, <2>3, <2>4, <2>6 DEF OrderlyWork, Writable, Structural
  <2>. QED
    BY <2>5, <2>6
<1>2. CASE CompleteReadyQuarantineCleanup(w, a)
  <2>1. CASE state[a] = "Ready" /\ owner[a] = w
    <3>1. /\ Unlease(a) /\ Enter(w, a, "none") /\ phase[w][a] # "none"
          /\ UNCHANGED <<state, target, etag, quarantine, ready>>
      BY <1>2, <2>1 DEF CompleteReadyQuarantineCleanup
    <3>2. OrderlyRow(a)'
      BY <1>0, <3>1 DEF OrderlyRow, Writable, Structural
    <3>. QED
      BY <3>1, <3>2, UnleasedOrderly
  <2>2. CASE ~(state[a] = "Ready" /\ owner[a] = w)
    BY <1>2, <2>2, DropOrderly DEF CompleteReadyQuarantineCleanup
  <2>. QED
    BY <2>1, <2>2
<1>. QED
  BY <1>1, <1>2 DEF QuarantineStep

LEMMA ClaimOrderly ==
  ASSUME TypeOK, LifecycleInv, Orderly, NEW S \in SUBSET Attachments, ClaimStep(S),
         NEW v \in Workers, NEW b \in Attachments
  PROVE  OrderlyRow(b)' /\ OrderlyWork(v, b)'
<1>0. OrderlyRow(b) /\ OrderlyWork(v, b) /\ RowInv(b)
  BY DEF Orderly, LifecycleInv
<1>c. ASSUME NEW w \in Workers, NEW first \in [S -> Phases], Claim(w, S, first)
      PROVE  /\ owner'[b] = IF b \in S THEN w ELSE owner[b]
             /\ leased'[b] = (leased[b] \/ b \in S)
             /\ phase'[v][b] = IF v # w THEN phase[v][b]
                               ELSE IF b \in S THEN first[b] ELSE "none"
             /\ b \in S => phase[v][b] = "none"
  BY <1>0, <1>c DEF Claim, Unleased, TypeOK, OrderlyWork
<1>1. ASSUME NEW w \in Processors, ClaimProcessing(w, S)
      PROVE  OrderlyRow(b)' /\ OrderlyWork(v, b)'
  <2>1. [a \in S |-> FirstPhase(state[a])] \in [S -> Phases]
    BY Names DEF FirstPhase
  <2>2. /\ owner'[b] = IF b \in S THEN w ELSE owner[b]
        /\ leased'[b] = (leased[b] \/ b \in S)
        /\ phase'[v][b] = IF v # w THEN phase[v][b]
                          ELSE IF b \in S THEN FirstPhase(state[b]) ELSE "none"
        /\ b \in S => phase[v][b] = "none"
    BY <1>1, <1>c, <2>1, Names DEF ClaimProcessing
  <2>3. /\ UNCHANGED <<target, etag, quarantine, ready>>
        /\ state'[b] = IF b \in S /\ state[b] = "Uploaded" THEN ProcessingState ELSE state[b]
        /\ b \in S => state[b] \in ClaimableStates
    BY <1>1 DEF ClaimProcessing
  <2>4. ProcessingState \in InProgress /\ ClaimableStates \subseteq InProgress
    BY DEF ProcessingState, ClaimableStates, InProgress
  <2>5. OrderlyRow(b)'
    BY <1>0, <2>3, <2>4, OrderlyNames DEF OrderlyRow, Writable, Structural, InProgress
  <2>6. CASE b \in S /\ v = w
    <3>1. phase'[v][b] \in {"read", "readValidated", "readPromoting", "checkStore"}
      BY <2>2, <2>6 DEF FirstPhase
    <3>2. quarantine[b] = etag[b] /\ etag[b] # Nothing
      BY <1>0, <2>3, <2>4, <2>6 DEF RowInv
    <3>. QED
      BY <2>2, <2>3, <2>5, <2>6, <3>1, <3>2 DEF OrderlyWork
  <2>7. CASE ~(b \in S /\ v = w)
    BY <1>0, <2>2, <2>3, <2>5, <2>7, OrderlyNames
       DEF OrderlyWork, Writable, Structural
  <2>. QED
    BY <2>6, <2>7
<1>n. \A p \in {"dropCopy", "deleteReady"} : p \notin ProcessorPhases
  BY DEF ProcessorPhases
<1>2. ASSUME NEW c \in Cleaners, ClaimReadyQuarantine(c, S)
      PROVE  OrderlyRow(b)' /\ OrderlyWork(v, b)'
  <2>1. [a \in S |-> "dropCopy"] \in [S -> Phases]
    BY Names
  <2>2. /\ owner'[b] = IF b \in S THEN c ELSE owner[b]
        /\ leased'[b] = (leased[b] \/ b \in S)
        /\ phase'[v][b] = IF v # c THEN phase[v][b]
                          ELSE IF b \in S THEN "dropCopy" ELSE "none"
        /\ b \in S => phase[v][b] = "none"
    BY <1>2, <1>c, <2>1, Names DEF ClaimReadyQuarantine
  <2>3. UNCHANGED <<state, target, etag, quarantine, ready>>
    BY <1>2 DEF ClaimReadyQuarantine
  <2>. QED
    BY <1>0, <1>n, <2>2, <2>3, OrderlyNames
       DEF OrderlyRow, OrderlyWork, Writable, Structural
<1>3. ASSUME NEW c \in Cleaners, ClaimCleanup(c, S)
      PROVE  OrderlyRow(b)' /\ OrderlyWork(v, b)'
  <2>1. [a \in S |-> "deleteReady"] \in [S -> Phases]
    BY Names
  <2>2. /\ owner'[b] = IF b \in S THEN c ELSE owner[b]
        /\ leased'[b] = (leased[b] \/ b \in S)
        /\ phase'[v][b] = IF v # c THEN phase[v][b]
                          ELSE IF b \in S THEN "deleteReady" ELSE "none"
        /\ b \in S => phase[v][b] = "none"
    BY <1>3, <1>c, <2>1, Names DEF ClaimCleanup
  <2>3. /\ UNCHANGED <<etag, quarantine, ready>>
        /\ state'[b] = IF b \in S THEN "DeletePending" ELSE state[b]
        /\ target'[b] \in IF b \in S THEN {"Deleted", "Expired", target[b]} ELSE {target[b]}
    BY <1>3 DEF ClaimCleanup
  <2>4. OrderlyRow(b)'
    BY <1>0, <2>3, OrderlyNames DEF OrderlyRow, Writable, Structural
  <2>5. OrderlyWork(v, b)'
    BY <1>0, <1>n, <2>2, <2>3, OrderlyNames DEF OrderlyWork, Writable, Structural
  <2>. QED
    BY <2>4, <2>5
<1>. QED
  BY <1>1, <1>2, <1>3 DEF ClaimStep

LEMMA TimeOrderly ==
  ASSUME TypeOK, Orderly, faults' = 0, NEW a \in Attachments, Time(a),
         NEW v \in Workers, NEW b \in Attachments
  PROVE  OrderlyRow(b)' /\ OrderlyWork(v, b)'
<1>1. CASE LeaseLapses(a)
  <2>1. phase[owner[a]][a] = "none"
    BY <1>1, Faultless DEF LeaseLapses
  <2>2. b = a => phase[v][b] = "none"
    BY <2>1 DEF Orderly, OrderlyWork
  <2>3. /\ UNCHANGED <<state, owner, target, etag, quarantine, ready, phase>>
        /\ b # a => leased'[b] = leased[b]
    BY <1>1 DEF LeaseLapses, TypeOK
  <2>. QED
    BY <2>2, <2>3 DEF Orderly, OrderlyRow, OrderlyWork, Writable, Structural
<1>2. CASE DeadlinePasses(a)
  BY <1>2, OrderlyKept DEF DeadlinePasses
<1>. QED
  BY <1>1, <1>2 DEF Time

LEMMA FaultsGrow == [Next]_vars => faults' = faults \/ Fault
<1>. SUFFICES ASSUME [Next]_vars PROVE faults' = faults \/ Fault
  OBVIOUS
<1>1. CASE Request
  BY <1>1 DEF Request, CreateIntent, BeginComplete, Cancel, BeginUpload, FinishUpload,
              AbortUpload, Complete, Bind
<1>2. CASE \E S \in SUBSET Attachments : ClaimStep(S)
  BY <1>2 DEF ClaimStep, ClaimProcessing, ClaimReadyQuarantine, ClaimCleanup
<1>3. CASE \E w \in Workers, a \in Attachments : ProcessorStep(w, a)
  BY <1>3 DEF ProcessorStep, ReadQuarantine, MarkStructurallyValidated, MarkPromoting,
              CheckStore, WriteReady, HeadReady, MarkReady, Reject, RetryOrFail, Defer,
              Acknowledge, Drop
<1>4. CASE \E w \in Workers, a \in Attachments : CleanerStep(w, a) \/ QuarantineStep(w, a)
  BY <1>4 DEF CleanerStep, DeleteReady, DeleteQuarantine, FinalizeDeletion, ReleaseCleanup,
              QuarantineStep, DropQuarantine, CompleteReadyQuarantineCleanup,
              Acknowledge, Drop
<1>5. CASE \E w \in Workers, a \in Attachments : ScannerDown(w, a) \/ CallFails(w, a)
  BY <1>5 DEF ScannerDown, CallFails
<1>6. CASE \/ \E w \in Workers : Crash(w)
           \/ \E a \in Attachments : Time(a)
  BY <1>6 DEF Crash, Time, LeaseLapses, DeadlinePasses
<1>7. CASE UNCHANGED vars
  BY <1>7 DEF vars
<1>. QED
  BY <1>1, <1>2, <1>3, <1>4, <1>5, <1>6, <1>7, Names DEF Next, WorkerStep

LEMMA OrderlyInit == Init => OrderlyInv
BY OrderlyNames DEF Init, OrderlyInv, Orderly, OrderlyRow, OrderlyWork, SourcePhases

LEMMA OrderlyStep == AllInv /\ OrderlyInv /\ [Next]_vars => OrderlyInv'
<1>. SUFFICES ASSUME AllInv, OrderlyInv, [Next]_vars, faults' = 0 PROVE Orderly'
  BY DEF OrderlyInv
<1>0. TypeOK /\ LifecycleInv
  BY DEF AllInv
<1>1. \A w \in Workers, a \in Attachments :
         ~ScannerDown(w, a) /\ ~CallFails(w, a) /\ ~Crash(w)
  BY <1>0, Faultless DEF ScannerDown, CallFails, Crash
<1>2. Orderly
  <2>1. CASE faults = 0
    BY <2>1 DEF OrderlyInv
  <2>2. CASE faults # 0
    <3>1. faults' = faults \/ Fault
      BY FaultsGrow
    <3>. QED
      BY <1>0, <2>2, <3>1, Faultless
  <2>. QED
    BY <2>1, <2>2
<1>3. \A b \in Attachments, v \in Workers : OrderlyRow(b)' /\ OrderlyWork(v, b)'
  <2>. SUFFICES ASSUME NEW b \in Attachments, NEW v \in Workers
                PROVE  OrderlyRow(b)' /\ OrderlyWork(v, b)'
    OBVIOUS
  <2>1. CASE Request
    BY <1>0, <1>2, <2>1, RequestOrderly
  <2>2. CASE \E S \in SUBSET Attachments : ClaimStep(S)
    BY <1>0, <1>2, <2>2, ClaimOrderly
  <2>3. CASE \E u \in Workers, a \in Attachments : WorkerStep(u, a)
    BY <1>0, <1>2, <2>3, ProcessorOrderly, CleanerOrderly, QuarantineOrderly DEF WorkerStep
  <2>4. CASE \E a \in Attachments : Time(a)
    BY <1>0, <1>2, <2>4, TimeOrderly
  <2>5. CASE UNCHANGED vars
    BY <1>2, <2>5, OrderlyKept DEF vars
  <2>. QED
    BY <1>1, <2>1, <2>2, <2>3, <2>4, <2>5 DEF Next
<1>. QED
  BY <1>3, ConstantsAssumption, Names DEF Orderly

(* As long as nothing has failed, an upload that validates is never on its way to
   Rejected or ScanFailed, whatever users, leases, deadlines and the other workers
   do meanwhile; in scanning mode, an upload whose canonical form keeps its size. *)
THEOREM CleanCorrect == Spec => []CleanIsNotRefused
<1>1. Init => AllInv /\ OrderlyInv
  BY TypeInit, LifecycleInit, WorkInit, OrderlyInit DEF AllInv
<1>2. AllInv /\ OrderlyInv /\ [Next]_vars => (AllInv /\ OrderlyInv)'
  BY TypeStep, LifecycleStep, WorkStep, OrderlyStep DEF AllInv
<1>3. AllInv /\ OrderlyInv => CleanIsNotRefused
  BY ConstantsAssumption
     DEF AllInv, TypeOK, OrderlyInv, Orderly, OrderlyRow, CleanIsNotRefused, Refused
<1>. QED
  BY <1>1, <1>2, <1>3, PTL DEF Spec

----------------------------------------------------------------------------
(* Quotas: sums over sets of attachments. *)

LEMMA CountTo ==
  ASSUME NEW n \in Nat
  PROVE  IsFiniteSet(1 .. n) /\ Cardinality(1 .. n) = n
<1>1. 1 \in Int /\ n \in Int
  OBVIOUS
<1>2. IsFiniteSet(1 .. n) /\ Cardinality(1 .. n) = IF 1 > n THEN 0 ELSE n - 1 + 1
  BY <1>1, FS_Interval
<1>. QED
  BY <1>2

LEMMA BytesFinite ==
  ASSUME NEW A, IsFiniteSet(A), NEW size, \A a \in A : size[a] \in Nat
  PROVE  IsFiniteSet(Bytes(A, size))
<1>. DEFINE T == {{a} \X (1 .. size[a]) : a \in A}
            f == [a \in A |-> {a} \X (1 .. size[a])]
<1>1. f \in Surjection(A, T)
  BY DEF Surjection
<1>2. IsFiniteSet(T)
  <2>. HIDE DEF T, f
  <2>. QED
    BY <1>1, FS_Surjection
<1>3. \A t \in T : IsFiniteSet(t)
  <2>. SUFFICES ASSUME NEW a \in A PROVE IsFiniteSet({a} \X (1 .. size[a]))
    OBVIOUS
  <2>1. IsFiniteSet({a}) /\ IsFiniteSet(1 .. size[a])
    BY FS_Singleton, CountTo
  <2>. QED
    BY <2>1, FS_Product
<1>4. IsFiniteSet(UNION T)
  <2>. HIDE DEF T
  <2>. QED
    BY <1>2, <1>3, FS_UNION
<1>. QED
  BY <1>4 DEF Bytes

(* Fewer attachments of smaller sizes have a smaller total. *)
LEMMA TotalMonotone ==
  ASSUME NEW B, IsFiniteSet(B), NEW A \in SUBSET B, NEW size, NEW larger,
         \A a \in A : size[a] \in Nat /\ size[a] <= larger[a],
         \A a \in B : larger[a] \in Nat
  PROVE  /\ Total(A, size) \in Nat /\ Total(B, larger) \in Nat
         /\ Total(A, size) <= Total(B, larger)
<1>1. IsFiniteSet(Bytes(B, larger))
  BY BytesFinite
<1>2. Bytes(A, size) \in SUBSET Bytes(B, larger)
  <2>1. ASSUME NEW x \in Bytes(A, size) PROVE x \in Bytes(B, larger)
    <3>1. PICK a \in A : x \in {a} \X (1 .. size[a])
      BY <2>1 DEF Bytes
    <3>2. x \in {a} \X (1 .. larger[a])
      BY <3>1
    <3>. QED
      BY <3>2 DEF Bytes
  <2>. QED
    BY <2>1
<1>. QED
  BY <1>1, <1>2, FS_Subset, FS_CardinalityType DEF Total

(* One attachment more adds its size. *)
LEMMA TotalAdd ==
  ASSUME NEW A, IsFiniteSet(A), NEW b, b \notin A, NEW size,
         \A a \in A \cup {b} : size[a] \in Nat
  PROVE  Total(A \cup {b}, size) = Total(A, size) + size[b]
<1>0. size[b] \in Nat
  OBVIOUS
<1>1. IsFiniteSet(Bytes(A, size))
  BY BytesFinite
<1>2. /\ IsFiniteSet({b} \X (1 .. size[b]))
      /\ Cardinality({b} \X (1 .. size[b])) = size[b]
  <2>1. IsFiniteSet({b}) /\ Cardinality({b}) = 1
    BY FS_Singleton
  <2>2. IsFiniteSet(1 .. size[b]) /\ Cardinality(1 .. size[b]) = size[b]
    BY <1>0, CountTo
  <2>3. /\ IsFiniteSet({b} \X (1 .. size[b]))
        /\ Cardinality({b} \X (1 .. size[b])) = Cardinality({b}) * Cardinality(1 .. size[b])
    BY <2>1, <2>2, FS_Product
  <2>. QED
    BY <1>0, <2>1, <2>2, <2>3
<1>3. Bytes(A \cup {b}, size) = Bytes(A, size) \cup ({b} \X (1 .. size[b]))
  BY DEF Bytes
<1>4. Bytes(A, size) \cap ({b} \X (1 .. size[b])) = {}
  BY DEF Bytes
<1>5. /\ Cardinality(Bytes(A, size)) \in Nat
      /\ Cardinality({}) = 0
  BY <1>1, FS_CardinalityType, FS_EmptySet
<1>6. Cardinality(Bytes(A, size) \cup ({b} \X (1 .. size[b])))
      = Cardinality(Bytes(A, size)) + Cardinality({b} \X (1 .. size[b])) - Cardinality({})
  BY <1>1, <1>2, <1>4, FS_Union
<1>7. Cardinality(Bytes(A \cup {b}, size)) = Cardinality(Bytes(A, size)) + size[b] - 0
  BY <1>2, <1>3, <1>5, <1>6
<1>. QED
  BY <1>0, <1>5, <1>7 DEF Total

----------------------------------------------------------------------------
(* How a row may change in a step. *)

LEMMA StagesBack ==
  \A s \in States :
     /\ Stage(s) = "absent" => s = "Absent"
     /\ Stage(s) = "pending" => s \in InProgress \cup {"PendingUpload"}
     /\ Stage(s) = "available" => s = "Ready"
     /\ Stage(s) = "withdrawn" => s = "DeletePending"
     /\ Stage(s) = "gone" => s \in Terminal
BY DEF Stage, States

(* Rows are created once, leave what counts as unbound and as stored for good, and
   are bound once: the promise says it. *)
LEMMA RowsMoveOn ==
  ASSUME AllInv, [Next]_vars, NEW a \in Attachments
  PROVE  /\ state'[a] = "Absent" => state[a] = "Absent"
         /\ state'[a] \in UnboundStates => state[a] \in UnboundStates \cup {"Absent"}
         /\ state'[a] \in ActiveStates => state[a] \in ActiveStates \cup {"Absent"}
         /\ state'[a] \in Terminal => state[a] \in Terminal \cup {"DeletePending"}
         /\ bound[a] => bound'[a]
<1>1. state[a] \in States /\ state'[a] \in States
  BY TypeStep DEF AllInv, TypeOK
<1>2. PromiseStep
  BY PromiseNext
<1>3. /\ Stage(state'[a]) = "absent" => Stage(state[a]) = "absent"
      /\ Stage(state'[a]) = "pending" => Stage(state[a]) \in {"absent", "pending"}
      /\ Stage(state'[a]) = "available" => Stage(state[a]) \in {"pending", "available"}
      /\ Stage(state'[a]) = "withdrawn"
         => Stage(state[a]) \in {"pending", "available", "withdrawn"}
      /\ Stage(state'[a]) = "gone" => Stage(state[a]) \in {"withdrawn", "gone"}
      /\ bound[a] => bound'[a]
  <2>1. CASE UNCHANGED Promise!promiseVars
    BY <2>1 DEF Promise!promiseVars
  <2>2. CASE \E b \in Attachments : Promise!Reserve(b)
    BY <2>2 DEF Promise!Reserve
  <2>3. CASE \E b \in Attachments : Promise!Remove(b)
    BY <2>3 DEF Promise!Remove
  <2>4. CASE \E b \in Attachments, c \in Clean : Promise!Publish(b, c)
    BY <2>4 DEF Promise!Publish
  <2>5. CASE \E S \in SUBSET Attachments : Promise!Attach(S)
    BY <2>5 DEF Promise!Attach
  <2>6. CASE \E S \in SUBSET Attachments : Promise!Withdraw(S)
    BY <2>6 DEF Promise!Withdraw
  <2>. QED
    BY <1>2, <2>1, <2>2, <2>3, <2>4, <2>5, <2>6 DEF PromiseStep, Promise!Next
<1>4. /\ Stage("Absent") = "absent" /\ Stage("Ready") = "available"
      /\ Stage("DeletePending") = "withdrawn"
      /\ \A s \in InProgress \cup {"PendingUpload"} : Stage(s) = "pending"
      /\ \A s \in Terminal : Stage(s) = "gone"
  BY Stages
<1>. QED
  BY <1>1, <1>3, <1>4, StagesBack DEF UnboundStates, ActiveStates

(* When the key, the ETag and the quarantine object of a row change. *)
RowChange(a) ==
    /\ \/ UNCHANGED <<readyKey[a], etag[a]>>
       \/ /\ state[a] = "PendingUpload" /\ state'[a] = "Uploaded"
          /\ UNCHANGED readyKey[a]
       \/ state'[a] \in {"StructurallyValidated", "Promoting"} \ {state[a]}
    /\ state'[a] \in {"StructurallyValidated", "Promoting"} \ {state[a]}
       => UNCHANGED etag[a] /\ state[a] # "PendingUpload"
    /\ state'[a] = "PendingUpload" => state[a] \in {"Absent", "PendingUpload"}
    /\ state[a] = "Absent" /\ state'[a] = "Absent"
       => /\ quarantine'[a] # Nothing => quarantine[a] # Nothing \/ uploading[a] # {}
          /\ uploading'[a] # {} => uploading[a] # {}

LEMMA RowStill ==
  ASSUME NEW b \in Attachments, UNCHANGED <<readyKey[b], etag[b], uploading[b]>>,
         quarantine'[b] \in {quarantine[b], Nothing},
         state'[b] \in {state[b], "StructuralValidation", "Scanning", "DeletePending"} \cup Terminal
  PROVE  RowChange(b)
BY DEF RowChange, Terminal

LEMMA RowChanges ==
  ASSUME AllInv, [Next]_vars, NEW b \in Attachments
  PROVE  RowChange(b)
<1>0. TypeOK /\ RowInv(b)
  BY DEF AllInv, LifecycleInv
<1>1. CASE Request
  <2>1. CASE \E a \in Attachments : CreateIntent(a)
    BY <1>0, <2>1 DEF CreateIntent, RowChange, TypeOK
  <2>2. CASE \E a \in Attachments : BeginComplete(a)
    BY <2>2, RowStill DEF BeginComplete
  <2>3. CASE \E a \in Attachments : Cancel(a)
    BY <1>0, <2>3, RowStill DEF Cancel, TypeOK
  <2>4. CASE \E a \in Attachments, c \in Contents :
                BeginUpload(a, c) \/ FinishUpload(a, c) \/ AbortUpload(a, c)
    BY <1>0, <2>4 DEF BeginUpload, FinishUpload, AbortUpload, RowChange, TypeOK
  <2>5. CASE \E a \in Attachments, c \in Contents : Complete(a, c)
    BY <1>0, <2>5 DEF Complete, RowChange, TypeOK
  <2>6. CASE \E S \in SUBSET Attachments : Bind(S)
    BY <2>6, RowStill DEF Bind
  <2>. QED
    BY <1>1, <2>1, <2>2, <2>3, <2>4, <2>5, <2>6 DEF Request
<1>2. CASE \E S \in SUBSET Attachments : ClaimStep(S)
  <2>1. PICK S \in SUBSET Attachments : ClaimStep(S)
    BY <1>2
  <2>2. CASE \E w \in Processors : ClaimProcessing(w, S)
    BY <2>2, RowStill DEF ClaimProcessing, ProcessingState
  <2>3. CASE \E c \in Cleaners : ClaimReadyQuarantine(c, S)
    BY <2>3, RowStill DEF ClaimReadyQuarantine
  <2>4. CASE \E c \in Cleaners : ClaimCleanup(c, S)
    BY <2>4, RowStill DEF ClaimCleanup
  <2>. QED
    BY <2>1, <2>2, <2>3, <2>4 DEF ClaimStep
<1>3. ASSUME NEW w \in Workers, NEW a \in Attachments, ProcessorStep(w, a)
      PROVE  RowChange(b)
  <2>d. Drop(w, a) /\ UNCHANGED requestVars => RowChange(b)
    BY RowStill DEF Drop
  <2>1. CASE ReadQuarantine(w, a) \/ CheckStore(w, a) \/ HeadReady(w, a) \/ WriteReady(w, a)
    BY <2>1, RowStill DEF ReadQuarantine, CheckStore, HeadReady, WriteReady
  <2>2. CASE MarkStructurallyValidated(w, a)
    BY <1>0, <2>2, <2>d DEF MarkStructurallyValidated, RowChange, TypeOK
  <2>3. CASE MarkPromoting(w, a)
    BY <1>0, <2>3, <2>d DEF MarkPromoting, RowChange, TypeOK
  <2>4. CASE MarkReady(w, a)
    BY <1>0, <2>4, <2>d DEF MarkReady, RowChange, TypeOK
  <2>5. CASE Reject(w, a) \/ RetryOrFail(w, a) \/ Defer(w, a)
    BY <1>0, <2>5, <2>d, RowStill
       DEF Reject, RetryOrFail, Defer, MarkRejectedForDelete, ReleaseForRetry, TypeOK
  <2>. QED
    BY <1>3, <2>1, <2>2, <2>3, <2>4, <2>5 DEF ProcessorStep
<1>4. ASSUME NEW w \in Workers, NEW a \in Attachments, CleanerStep(w, a)
      PROVE  RowChange(b)
  <2>d. Drop(w, a) /\ UNCHANGED requestVars => RowChange(b)
    BY RowStill DEF Drop
  <2>1. CASE DeleteReady(w, a) \/ DeleteQuarantine(w, a)
    BY <1>0, <2>1, RowStill DEF DeleteReady, DeleteQuarantine, TypeOK
  <2>2. CASE FinalizeDeletion(w, a)
    <3>1. state[a] = "DeletePending" => target[a] \in Terminal
      BY DEF AllInv, LifecycleInv, RowInv
    <3>. QED
      BY <1>0, <2>2, <2>d, <3>1, RowStill DEF FinalizeDeletion, TypeOK
  <2>3. CASE ReleaseCleanup(w, a)
    BY <2>3, <2>d, RowStill DEF ReleaseCleanup
  <2>. QED
    BY <1>4, <2>1, <2>2, <2>3 DEF CleanerStep
<1>5. ASSUME NEW w \in Workers, NEW a \in Attachments, QuarantineStep(w, a)
      PROVE  RowChange(b)
  <2>d. Drop(w, a) /\ UNCHANGED requestVars => RowChange(b)
    BY RowStill DEF Drop
  <2>1. CASE DropQuarantine(w, a)
    BY <1>0, <2>1, RowStill DEF DropQuarantine, TypeOK
  <2>2. CASE CompleteReadyQuarantineCleanup(w, a)
    BY <2>2, <2>d, RowStill DEF CompleteReadyQuarantineCleanup
  <2>. QED
    BY <1>5, <2>1, <2>2 DEF QuarantineStep
<1>6. CASE \E w \in Workers, a \in Attachments : ScannerDown(w, a) \/ CallFails(w, a) \/ Crash(w)
  BY <1>6, RowStill DEF ScannerDown, CallFails, Crash
<1>7. CASE \E a \in Attachments : Time(a)
  BY <1>7, RowStill DEF Time, LeaseLapses, DeadlinePasses
<1>8. CASE UNCHANGED vars
  BY <1>8, RowStill DEF vars
<1>9. CASE \E w \in Workers : Crash(w)
  BY <1>9, RowStill DEF Crash
<1>. QED
  BY <1>1, <1>2, <1>3, <1>4, <1>5, <1>6, <1>7, <1>8, <1>9, Names DEF Next, WorkerStep

----------------------------------------------------------------------------
(* Quotas: the accounts of the rows. *)

LEMMA RowStates ==
  /\ States = {"Absent"} \cup ActiveStates \cup Terminal
  /\ "Absent" \notin ActiveStates \cup Terminal
  /\ ActiveStates \cap Terminal = {}
  /\ UnboundStates \subseteq ActiveStates
  /\ {"PendingUpload", "StructurallyValidated", "Promoting"} \subseteq UnboundStates
  /\ {"StructurallyValidated", "Promoting"} \subseteq InProgress
BY DEF States, ActiveStates, UnboundStates, Terminal, InProgress

LEMMA QuotaRefinesNext == [QuotaNext]_quotaVars => [Next]_vars
BY DEF QuotaNext, quotaVars, CheckQuotas, InsertIntent, AbandonIntent, RowStep,
       Next, Request

LEMMA CanonicalType ==
  ASSUME NEW a \in Attachments, NEW c \in Contents
  PROVE  CanonicalSize(a, c) \in Nat
BY QuotaAssumption DEF CanonicalSize

LEMMA WrittenType ==
  ASSUME AllInv, QuotaTypeOK, [Next]_vars, NEW a \in Attachments
  PROVE  WrittenSize(a) \in Nat
<1>1. CASE state'[a] \in {"StructurallyValidated", "Promoting"} \ {state[a]}
  <2>1. etag'[a] = etag[a] /\ state'[a] \in InProgress
    BY <1>1, RowChanges, RowStates DEF RowChange
  <2>2. etag'[a] \in Contents
    BY <2>1, TypeStep, LifecycleStep DEF AllInv, TypeOK, LifecycleInv, RowInv
  <2>. QED
    BY <1>1, <2>1, <2>2, CanonicalType, QuotaAssumption DEF WrittenSize
<1>2. CASE state'[a] \notin {"StructurallyValidated", "Promoting"} \ {state[a]}
  BY <1>2, QuotaAssumption DEF WrittenSize, QuotaTypeOK
<1>. QED
  BY <1>1, <1>2

LEMMA QuotaTypeStep ==
  AllInv /\ QuotaTypeOK /\ [QuotaNext]_quotaVars => QuotaTypeOK'
<1>. SUFFICES ASSUME AllInv, QuotaTypeOK, [QuotaNext]_quotaVars PROVE QuotaTypeOK'
  OBVIOUS
<1>. USE QuotaAssumption DEF QuotaTypeOK
<1>1. CASE \E a \in Attachments : CheckQuotas(a) \/ AbandonIntent(a)
  BY <1>1 DEF CheckQuotas, AbandonIntent
<1>2. CASE \E a \in Attachments : InsertIntent(a)
  BY <1>2 DEF InsertIntent
<1>3. CASE RowStep
  <2>1. \A a \in Attachments : WrittenSize(a) \in Nat
    BY <1>3, WrittenType DEF RowStep
  <2>2. \A a \in Attachments : Reserved(a) \in Nat
    BY <2>1 DEF Reserved, AtLeast
  <2>. QED
    BY <1>3, <2>1, <2>2 DEF RowStep
<1>4. CASE UNCHANGED quotaVars
  BY <1>4 DEF quotaVars
<1>. QED
  BY <1>1, <1>2, <1>3, <1>4 DEF QuotaNext

(* A step of the rows there are keeps every account. *)
LEMMA AccountRowStep ==
  ASSUME AllInv, QuotaTypeOK, QuotaInv, RowStep, NEW a \in Attachments
  PROVE  AccountInv(a)'
<1>0. AccountInv(a) /\ [Next]_vars
  BY DEF QuotaInv, RowStep
<1>1. /\ actualSize'[a] = WrittenSize(a) /\ reservation'[a] = Reserved(a)
      /\ WrittenSize(a) \in Nat /\ Declared[a] \in Nat /\ reservation[a] \in Nat
      /\ state[a] \in States /\ state'[a] \in States
      /\ state[a] = "Absent" => state'[a] = "Absent"
  BY <1>0, WrittenType, TypeStep, QuotaAssumption DEF RowStep, QuotaTypeOK, AllInv, TypeOK
<1>2. /\ state'[a] = "Absent" => state[a] = "Absent"
      /\ state'[a] \in Terminal => state[a] \in Terminal \cup {"DeletePending"}
      /\ RowChange(a)
  BY <1>0, RowsMoveOn, RowChanges
<1>3. state'[a] \in ActiveStates => AtLeast(Declared[a], actualSize'[a]) <= reservation'[a]
  BY <1>1 DEF Reserved, AtLeast
<1>4. state'[a] \notin ActiveStates => reservation'[a] = 0
  BY <1>0, <1>1, <1>2, RowStates DEF Reserved, AccountInv
<1>5. state'[a] \in {"Absent", "PendingUpload"} => ~readyKey'[a] /\ actualSize'[a] = 0
  <2>1. ASSUME state'[a] \in {"Absent", "PendingUpload"}
        PROVE  state[a] \in {"Absent", "PendingUpload"} /\ UNCHANGED <<readyKey[a]>>
    BY <1>2, <2>1 DEF RowChange
  <2>. QED
    BY <1>0, <1>1, <2>1 DEF AccountInv, WrittenSize
<1>6. readyKey'[a] => actualSize'[a] = CanonicalSize(a, etag'[a])
  <2>1. CASE state'[a] \in {"StructurallyValidated", "Promoting"} \ {state[a]}
    BY <1>1, <1>2, <2>1 DEF WrittenSize, RowChange
  <2>2. CASE state[a] = "PendingUpload" /\ state'[a] = "Uploaded"
    BY <1>0, <1>2, <2>2 DEF RowChange, AccountInv
  <2>3. CASE /\ state'[a] \notin {"StructurallyValidated", "Promoting"} \ {state[a]}
             /\ ~(state[a] = "PendingUpload" /\ state'[a] = "Uploaded")
    BY <1>0, <1>1, <1>2, <2>3 DEF RowChange, AccountInv, WrittenSize
  <2>. QED
    BY <2>1, <2>2, <2>3
<1>7. state'[a] = "Absent" => quarantine'[a] = Nothing /\ uploading'[a] = {}
  BY <1>0, <1>1, <1>2 DEF RowChange, AccountInv
<1>. QED
  BY <1>3, <1>4, <1>5, <1>6, <1>7 DEF AccountInv, CanonicalSize

LEMMA AccountInsert ==
  ASSUME AllInv, QuotaTypeOK, QuotaInv, NEW b \in Attachments, InsertIntent(b),
         NEW a \in Attachments
  PROVE  AccountInv(a)'
<1>0. AccountInv(a) /\ TypeOK
  BY DEF QuotaInv, AllInv
<1>1. /\ state' = [state EXCEPT ![b] = "PendingUpload"] /\ state[b] = "Absent"
      /\ reservation' = [reservation EXCEPT ![b] = Declared[b]]
      /\ UNCHANGED <<actualSize, readyKey, etag, quarantine, uploading>>
  BY DEF InsertIntent, CreateIntent
<1>2. "PendingUpload" \in ActiveStates
  BY RowStates
<1>3. CASE a = b
  <2>1. /\ state'[a] = "PendingUpload" /\ reservation'[a] = Declared[a]
        /\ ~readyKey[a] /\ actualSize[a] = 0 /\ Declared[a] \in Nat
    BY <1>0, <1>1, <1>3, QuotaAssumption DEF TypeOK, QuotaTypeOK, AccountInv
  <2>. QED
    BY <1>1, <1>2, <2>1 DEF AccountInv, AtLeast, CanonicalSize
<1>4. CASE a # b
  BY <1>0, <1>1, <1>4 DEF TypeOK, QuotaTypeOK, AccountInv, AtLeast, CanonicalSize
<1>. QED
  BY <1>3, <1>4

----------------------------------------------------------------------------
(* Quotas: the limits. *)

(* What the limits are about, with the sets in the open. *)
LEMMA FiniteParts ==
  ASSUME QuotaInv
  PROVE  /\ IsFiniteSet(Active) /\ Active \in SUBSET Created
         /\ \A u : IsFiniteSet(Unbound(u)) /\ Unbound(u) \in SUBSET Created
         /\ \A u, t : IsFiniteSet(Recent(u, t)) /\ Recent(u, t) \in SUBSET Created
         /\ \A u, t : IsFiniteSet(Within(u, t)) /\ Within(u, t) \in SUBSET Created
<1>1. /\ Active \in SUBSET Created
      /\ \A u : Unbound(u) \in SUBSET Created
      /\ \A u, t : Recent(u, t) \in SUBSET Created
      /\ \A u, t : Within(u, t) \in SUBSET Created
  BY RowStates DEF Active, Unbound, Recent, Within, Created
<1>. QED
  BY <1>1, FS_Subset DEF QuotaInv

(* The rows there are only leave what is counted. *)
LEMMA CountedRowStep ==
  ASSUME AllInv, RowStep
  PROVE  /\ Created' = Created
         /\ Active' \in SUBSET Active
         /\ \A u : Unbound(u)' \in SUBSET Unbound(u)
<1>1. \A a \in Attachments :
        /\ state'[a] = "Absent" <=> state[a] = "Absent"
        /\ state'[a] \in ActiveStates => state[a] \in ActiveStates
        /\ state'[a] \in UnboundStates => state[a] \in UnboundStates
        /\ bound[a] => bound'[a]
  BY RowsMoveOn, RowStates DEF RowStep
<1>. QED
  BY <1>1 DEF Created, Active, Unbound

(* An insert adds one row, and nobody else was admitted. *)
LEMMA CountedInsert ==
  ASSUME AllInv, QuotaInv, NEW b \in Attachments, InsertIntent(b)
  PROVE  /\ Created' = Created \cup {b} /\ b \notin Created
         /\ Active' = Active \cup {b} /\ b \notin Active
         /\ \A u : Unbound(u)' \in SUBSET (Unbound(u) \cup {b})
         /\ \A u : u # Uploader[b] => Unbound(u)' \in SUBSET Unbound(u)
         /\ admitted' = {} /\ StillAdmissible(b)
<1>1. /\ state' = [state EXCEPT ![b] = "PendingUpload"] /\ state[b] = "Absent"
      /\ UNCHANGED bound /\ b \in admitted /\ admitted' = admitted \ {b}
  BY DEF InsertIntent, CreateIntent
<1>2. \A a \in Attachments : state'[a] = IF a = b THEN "PendingUpload" ELSE state[a]
  BY <1>1 DEF AllInv, TypeOK
<1>3. StillAdmissible(b)
  BY <1>1 DEF QuotaInv
<1>4. admitted' = {}
  BY <1>1, <1>3 DEF StillAdmissible
<1>. QED
  BY <1>1, <1>2, <1>3, <1>4, RowStates DEF Created, Active, Unbound

LEMMA DeclaredType == \A a \in Attachments : Declared[a] \in Nat
BY QuotaAssumption

LEMMA UnboundRowStep ==
  ASSUME AllInv, QuotaInv, RowStep, NEW u
  PROVE  /\ Cardinality(Unbound(u)') <= Cardinality(Unbound(u))
         /\ Cardinality(Unbound(u)') \in Nat /\ Cardinality(Unbound(u)) \in Nat
<1>1. Unbound(u)' \in SUBSET Unbound(u) /\ IsFiniteSet(Unbound(u))
  BY CountedRowStep, FiniteParts
<1>. QED
  BY <1>1, FS_Subset, FS_CardinalityType

LEMMA UnboundInsert ==
  ASSUME AllInv, QuotaInv, NEW b \in Attachments, InsertIntent(b), NEW u \in Users
  PROVE  Cardinality(Unbound(u)') <= UnboundLimit
<1>1. /\ IsFiniteSet(Unbound(u)) /\ Cardinality(Unbound(u)) \in Nat
      /\ Cardinality(Unbound(u)) <= UnboundLimit /\ UnboundLimit \in Nat
  BY FiniteParts, FS_CardinalityType, QuotaAssumption DEF QuotaInv, LimitsKept, UnboundWithinLimit
<1>2. CASE u # Uploader[b]
  <2>1. Unbound(u)' \in SUBSET Unbound(u)
    BY <1>2, CountedInsert
  <2>2. Cardinality(Unbound(u)') \in Nat /\ Cardinality(Unbound(u)') <= Cardinality(Unbound(u))
    BY <1>1, <2>1, FS_Subset, FS_CardinalityType
  <2>. QED
    BY <1>1, <2>2
<1>3. CASE u = Uploader[b]
  <2>1. Unbound(u)' \in SUBSET (Unbound(u) \cup {b})
    BY CountedInsert
  <2>2. Cardinality(Unbound(u)) < UnboundLimit
    BY <1>3, CountedInsert DEF StillAdmissible
  <2>3. /\ IsFiniteSet(Unbound(u) \cup {b})
        /\ Cardinality(Unbound(u) \cup {b}) \in {Cardinality(Unbound(u)), Cardinality(Unbound(u)) + 1}
    BY <1>1, FS_AddElement
  <2>4. /\ Cardinality(Unbound(u)') <= Cardinality(Unbound(u) \cup {b})
        /\ Cardinality(Unbound(u)') \in Nat
    BY <2>1, <2>3, FS_Subset, FS_CardinalityType
  <2>. QED
    BY <1>1, <2>2, <2>3, <2>4
<1>. QED
  BY <1>2, <1>3

(* A window that the new row falls into holds, besides it, only what its check
   counted. *)
LEMMA WindowInsert ==
  ASSUME AllInv, QuotaInv, NEW b \in Attachments, InsertIntent(b),
         NEW a \in Created \cup {b}
  PROVE  Total(Within(Uploader[a], CreatedAt[a])', Declared) <= DailyLimit
<1>. DEFINE W == Within(Uploader[a], CreatedAt[a])
            R == Recent(Uploader[b], CreatedAt[b])
<1>0. /\ Created' = Created \cup {b} /\ b \notin Created /\ StillAdmissible(b)
      /\ a \in Attachments
  BY CountedInsert DEF Created
<1>1. IsFiniteSet(W) /\ W \in SUBSET Created /\ IsFiniteSet(R) /\ R \in SUBSET Created
  BY FiniteParts
<1>t. /\ CreatedAt[a] \in Nat /\ CreatedAt[b] \in Nat /\ Day \in Nat
      /\ \A c \in Attachments : CreatedAt[c] \in Nat
      /\ DailyLimit \in Nat
  BY <1>0, QuotaAssumption
<1>2. CASE Uploader[b] = Uploader[a] /\ CreatedAt[b] \in CreatedAt[a] .. CreatedAt[a] + Day
  <2>1. W' = W \cup {b}
    BY <1>0, <1>2 DEF Within
  <2>2. W \in SUBSET R
    BY <1>2, <1>t DEF Within, Recent, Created
  <2>3. Total(W \cup {b}, Declared) = Total(W, Declared) + Declared[b]
    <3>1. b \notin W /\ \A c \in W \cup {b} : Declared[c] \in Nat
      BY <1>0, <1>1, DeclaredType DEF Created
    <3>. HIDE DEF W
    <3>. QED
      BY <1>1, <3>1, TotalAdd
  <2>4. /\ Total(W, Declared) \in Nat /\ Total(R, Declared) \in Nat
        /\ Total(W, Declared) <= Total(R, Declared)
    <3>1. \A c \in R : Declared[c] \in Nat
      BY <1>1, DeclaredType DEF Created
    <3>2. \A c \in W : Declared[c] \in Nat /\ Declared[c] <= Declared[c]
      BY <1>1, DeclaredType DEF Created
    <3>. HIDE DEF W, R
    <3>. QED
      BY <1>1, <2>2, <3>1, <3>2, TotalMonotone
  <2>5. Total(R, Declared) + Declared[b] <= DailyLimit
    BY <1>0 DEF StillAdmissible
  <2>6. Declared[b] \in Nat
    BY DeclaredType
  <2>. HIDE DEF W, R
  <2>7. Total(W \cup {b}, Declared) <= DailyLimit
    BY <1>t, <2>3, <2>4, <2>5, <2>6
  <2>. QED
    BY <2>1, <2>7 DEF W
<1>3. CASE ~(Uploader[b] = Uploader[a] /\ CreatedAt[b] \in CreatedAt[a] .. CreatedAt[a] + Day)
  <2>1. W' = W
    BY <1>0, <1>3 DEF Within
  <2>2. a # b
    BY <1>3, <1>t
  <2>3. Total(W, Declared) <= DailyLimit
    BY <2>2 DEF QuotaInv, LimitsKept, RollingDayKept
  <2>. QED
    BY <2>1, <2>3
<1>. QED
  BY <1>2, <1>3

LEMMA ActiveInsert ==
  ASSUME AllInv, QuotaInv, NEW b \in Attachments, InsertIntent(b)
  PROVE  Total(Active', Declared) <= TenantLimit
<1>1. /\ Active' = Active \cup {b} /\ b \notin Active
      /\ Total(Active, Declared) + Declared[b] <= TenantLimit
  BY CountedInsert DEF StillAdmissible
<1>2. \A c \in Active \cup {b} : Declared[c] \in Nat
  BY DeclaredType DEF Active
<1>3. Total(Active \cup {b}, Declared) = Total(Active, Declared) + Declared[b]
  BY <1>1, <1>2, FiniteParts, TotalAdd
<1>. QED
  BY <1>1, <1>3

LEMMA ActiveRowStep ==
  ASSUME AllInv, QuotaInv, RowStep
  PROVE  /\ Total(Active', Declared) <= Total(Active, Declared)
         /\ Total(Active', Declared) \in Nat /\ Total(Active, Declared) \in Nat
<1>1. Active' \in SUBSET Active /\ IsFiniteSet(Active)
  BY CountedRowStep, FiniteParts
<1>2. /\ \A c \in Active : Declared[c] \in Nat
      /\ \A c \in Active' : Declared[c] \in Nat /\ Declared[c] <= Declared[c]
  BY <1>1, DeclaredType DEF Active
<1>. QED
  BY <1>1, <1>2, TotalMonotone

(* The totals of the check count at least what is declared. *)
LEMMA CheckedTotals ==
  ASSUME QuotaTypeOK, QuotaInv, NEW a \in Attachments, WithinQuotas(a)
  PROVE  Total(Active, Declared) + Declared[a] <= TenantLimit
<1>1. /\ \A c \in Active : reservation[c] \in Nat
      /\ \A c \in Active : Declared[c] \in Nat /\ Declared[c] <= reservation[c]
  BY DeclaredType DEF Active, QuotaInv, AccountInv, AtLeast, QuotaTypeOK
<1>2. /\ Total(Active, Declared) \in Nat /\ Total(Active, reservation) \in Nat
      /\ Total(Active, Declared) <= Total(Active, reservation)
  BY <1>1, FiniteParts, TotalMonotone
<1>. QED
  BY <1>2, DeclaredType, QuotaAssumption DEF WithinQuotas

LEMMA QuotaStart == QuotaInit => AllInv /\ QuotaTypeOK /\ QuotaInv
<1>. SUFFICES ASSUME QuotaInit PROVE AllInv /\ QuotaTypeOK /\ QuotaInv
  OBVIOUS
<1>1. AllInv
  BY TypeInit, LifecycleInit, WorkInit DEF QuotaInit, AllInv
<1>2. QuotaTypeOK
  BY DEF QuotaInit, QuotaTypeOK
<1>3. \A a \in Attachments :
        /\ state[a] = "Absent" /\ ~readyKey[a] /\ quarantine[a] = Nothing /\ uploading[a] = {}
        /\ actualSize[a] = 0 /\ reservation[a] = 0
  BY DEF QuotaInit, Init
<1>4. Created = {} /\ \A u : Unbound(u) = {}
  BY <1>3, RowStates DEF Created, Unbound
<1>5. IsFiniteSet({}) /\ Cardinality({}) = 0
  BY FS_EmptySet
<1>6. \A a \in Attachments : AccountInv(a)
  BY <1>3, RowStates DEF AccountInv
<1>7. \A a \in admitted : StillAdmissible(a)
  BY DEF QuotaInit
<1>8. UnboundWithinLimit
  <2>1. 0 <= UnboundLimit
    BY QuotaAssumption
  <2>2. \A u \in Users : Cardinality(Unbound(u)) = 0
    BY <1>4, <1>5, Zenon
  <2>. QED
    BY <2>1, <2>2 DEF UnboundWithinLimit
<1>9. RollingDayKept
  BY <1>4 DEF RollingDayKept
<1>10. DeclaredWithinLimit
  <2>1. {a \in Created : state[a] \notin Terminal} = {} /\ Bytes({}, Declared) = {}
    BY <1>4 DEF Bytes
  <2>. QED
    BY <1>5, <2>1, QuotaAssumption DEF DeclaredWithinLimit, Total
<1>. QED
  BY <1>1, <1>2, <1>4, <1>5, <1>6, <1>7, <1>8, <1>9, <1>10 DEF QuotaInv, LimitsKept

(* What is declared and not finally deleted is what is stored or may be. *)
LEMMA DeclaredIsActive ==
  TypeOK => {a \in Created : state[a] \notin Terminal} = Active
BY RowStates DEF TypeOK, Created, Active

(* What an intent relies on between its check and its insert. *)
LEMMA AdmitChecked ==
  ASSUME AllInv, QuotaTypeOK, QuotaInv, NEW a \in Attachments, CheckQuotas(a)
  PROVE  \A b \in admitted' : StillAdmissible(b)'
<1>1. /\ admitted' = {a} /\ state[a] = "Absent" /\ WithinQuotas(a)
      /\ UNCHANGED <<state, bound>>
  BY DEF CheckQuotas, LockIsFree, vars
<1>2. Total(Active, Declared) + Declared[a] <= TenantLimit
  BY <1>1, CheckedTotals
<1>3. /\ Cardinality(Unbound(Uploader[a])) < UnboundLimit
      /\ Total(Recent(Uploader[a], CreatedAt[a]), Declared) + Declared[a] <= DailyLimit
  BY <1>1 DEF WithinQuotas
<1>4. /\ Unbound(Uploader[a])' = Unbound(Uploader[a])
      /\ Recent(Uploader[a], CreatedAt[a])' = Recent(Uploader[a], CreatedAt[a])
      /\ Active' = Active
  BY <1>1 DEF Unbound, Recent, Created, Active
<1>5. StillAdmissible(a)'
  BY <1>1, <1>2, <1>3, <1>4 DEF StillAdmissible
<1>. QED
  BY <1>1, <1>5

LEMMA AdmitRowStep ==
  ASSUME AllInv, QuotaTypeOK, QuotaInv, RowStep, NEW a \in admitted
  PROVE  StillAdmissible(a)'
<1>1. /\ a \in Attachments /\ admitted' = admitted /\ state'[a] = "Absent"
      /\ StillAdmissible(a)
  BY DEF QuotaTypeOK, QuotaInv, RowStep, StillAdmissible
<1>2. Cardinality(Unbound(Uploader[a])') < UnboundLimit
  <2>1. /\ Cardinality(Unbound(Uploader[a])') <= Cardinality(Unbound(Uploader[a]))
        /\ Cardinality(Unbound(Uploader[a])') \in Nat
        /\ Cardinality(Unbound(Uploader[a])) \in Nat
    BY UnboundRowStep
  <2>. QED
    BY <1>1, <2>1, QuotaAssumption DEF StillAdmissible
<1>3. Recent(Uploader[a], CreatedAt[a])' = Recent(Uploader[a], CreatedAt[a])
  BY CountedRowStep DEF Recent
<1>4. Total(Active', Declared) + Declared[a] <= TenantLimit
  <2>1. Total(Active, Declared) + Declared[a] <= TenantLimit /\ Declared[a] \in Nat
    BY <1>1, DeclaredType DEF StillAdmissible
  <2>. QED
    BY <2>1, ActiveRowStep, QuotaAssumption
<1>. QED
  BY <1>1, <1>2, <1>3, <1>4 DEF StillAdmissible

LEMMA QuotaStep ==
  AllInv /\ QuotaTypeOK /\ QuotaInv /\ [QuotaNext]_quotaVars => QuotaInv'
<1>. SUFFICES ASSUME AllInv, QuotaTypeOK, QuotaInv, [QuotaNext]_quotaVars
              PROVE  QuotaInv'
  OBVIOUS
<1>0. TypeOK /\ TypeOK'
  BY QuotaRefinesNext, TypeStep DEF AllInv
<1>1. ASSUME UNCHANGED <<vars, actualSize, reservation>>,
             \A a \in admitted' : StillAdmissible(a)'
      PROVE  QuotaInv'
  <2>1. UNCHANGED <<state, bound, readyKey, etag, quarantine, uploading, actualSize, reservation>>
    BY <1>1 DEF vars
  <2>2. Created' = Created /\ \A u : Unbound(u)' = Unbound(u)
    BY <2>1 DEF Created, Unbound
  <2>3. \A a \in Attachments : AccountInv(a)'
    BY <2>1 DEF QuotaInv, AccountInv, CanonicalSize, AtLeast
  <2>4. UnboundWithinLimit'
    BY <2>2 DEF QuotaInv, LimitsKept, UnboundWithinLimit
  <2>5. RollingDayKept'
    BY <2>2 DEF QuotaInv, LimitsKept, RollingDayKept, Within
  <2>6. DeclaredWithinLimit'
    BY <2>1, <2>2 DEF QuotaInv, LimitsKept, DeclaredWithinLimit
  <2>. QED
    BY <1>1, <2>2, <2>3, <2>4, <2>5, <2>6 DEF QuotaInv, LimitsKept
<1>2. ASSUME NEW a \in Attachments, CheckQuotas(a) PROVE QuotaInv'
  <2>1. UNCHANGED <<vars, actualSize, reservation>>
    BY <1>2 DEF CheckQuotas
  <2>2. \A b \in admitted' : StillAdmissible(b)'
    BY <1>2, AdmitChecked
  <2>. QED
    BY <1>1, <2>1, <2>2
<1>3. ASSUME UNCHANGED <<vars, actualSize, reservation>>, admitted' \in SUBSET admitted
      PROVE  QuotaInv'
  <2>1. UNCHANGED <<state, bound>>
    BY <1>3 DEF vars
  <2>2. /\ \A u : Unbound(u)' = Unbound(u)
        /\ \A u, t : Recent(u, t)' = Recent(u, t)
        /\ Active' = Active
    BY <2>1 DEF Unbound, Recent, Created, Active
  <2>3. ASSUME NEW b \in admitted' PROVE StillAdmissible(b)'
    <3>1. StillAdmissible(b)
      BY <1>3, <2>3 DEF QuotaInv
    <3>. QED
      BY <1>3, <2>1, <2>2, <3>1 DEF StillAdmissible
  <2>. QED
    BY <1>1, <1>3, <2>3
<1>4. CASE \E a \in Attachments : AbandonIntent(a)
  BY <1>3, <1>4 DEF AbandonIntent
<1>5. CASE UNCHANGED quotaVars
  BY <1>3, <1>5 DEF quotaVars
<1>6. ASSUME NEW b \in Attachments, InsertIntent(b) PROVE QuotaInv'
  <2>1. Created' = Created \cup {b} /\ admitted' = {}
    BY <1>6, CountedInsert
  <2>2. IsFiniteSet(Created')
    BY <2>1, FS_AddElement DEF QuotaInv
  <2>3. \A a \in Attachments : AccountInv(a)'
    BY <1>6, AccountInsert
  <2>4. UnboundWithinLimit'
    BY <1>6, UnboundInsert DEF UnboundWithinLimit
  <2>5. RollingDayKept'
    BY <1>6, <2>1, WindowInsert DEF RollingDayKept
  <2>6. DeclaredWithinLimit'
    <3>1. Total(Active', Declared) <= TenantLimit
      BY <1>6, ActiveInsert
    <3>2. {a \in Created : state[a] \notin Terminal}' = Active'
      BY <1>0, RowStates DEF TypeOK, Created, Active
    <3>. QED
      BY <3>1, <3>2 DEF DeclaredWithinLimit
  <2>. QED
    BY <2>1, <2>2, <2>3, <2>4, <2>5, <2>6 DEF QuotaInv, LimitsKept
<1>7. CASE RowStep
  <2>1. Created' = Created /\ IsFiniteSet(Created')
    BY <1>7, CountedRowStep DEF QuotaInv
  <2>2. \A a \in Attachments : AccountInv(a)'
    BY <1>7, AccountRowStep
  <2>3. \A a \in admitted' : StillAdmissible(a)'
    BY <1>7, AdmitRowStep DEF RowStep
  <2>4. UnboundWithinLimit'
    <3>1. ASSUME NEW u \in Users PROVE Cardinality(Unbound(u)') <= UnboundLimit
      <4>1. /\ Cardinality(Unbound(u)') <= Cardinality(Unbound(u))
            /\ Cardinality(Unbound(u)') \in Nat /\ Cardinality(Unbound(u)) \in Nat
        BY <1>7, UnboundRowStep
      <4>. QED
        BY <4>1, QuotaAssumption DEF QuotaInv, LimitsKept, UnboundWithinLimit
    <3>. QED
      BY <3>1 DEF UnboundWithinLimit
  <2>5. RollingDayKept'
    BY <2>1 DEF QuotaInv, LimitsKept, RollingDayKept, Within
  <2>6. DeclaredWithinLimit'
    <3>1. /\ Total(Active', Declared) <= Total(Active, Declared)
          /\ Total(Active', Declared) \in Nat /\ Total(Active, Declared) \in Nat
      BY <1>7, ActiveRowStep
    <3>2. Total(Active, Declared) <= TenantLimit
      BY <1>0, DeclaredIsActive DEF QuotaInv, LimitsKept, DeclaredWithinLimit
    <3>3. {a \in Created : state[a] \notin Terminal}' = Active'
      BY <1>0, RowStates DEF TypeOK, Created, Active
    <3>4. Total(Active', Declared) <= TenantLimit
      BY <3>1, <3>2, QuotaAssumption
    <3>. QED
      BY <3>3, <3>4 DEF DeclaredWithinLimit
  <2>. QED
    BY <2>1, <2>2, <2>3, <2>4, <2>5, <2>6 DEF QuotaInv, LimitsKept
<1>. QED
  BY <1>2, <1>4, <1>5, <1>6, <1>7 DEF QuotaNext

LEMMA QuotaInvariance == QuotaSpec => [](AllInv /\ QuotaTypeOK /\ QuotaInv)
<1>1. AllInv /\ QuotaTypeOK /\ QuotaInv /\ [QuotaNext]_quotaVars
      => (AllInv /\ QuotaTypeOK /\ QuotaInv)'
  <2>1. AllInv /\ [Next]_vars => AllInv'
    BY TypeStep, LifecycleStep, WorkStep DEF AllInv
  <2>. QED
    BY <2>1, QuotaRefinesNext, QuotaTypeStep, QuotaStep
<1>. QED
  BY <1>1, QuotaStart, PTL DEF QuotaSpec

(* However the intents of a tenant race with one another, with messages and with the
   workers (CreateIntentAsync counts first and inserts later), the attachments of a
   user waiting for a message stay within the limit, in no day does a user declare
   more than the daily one, although intents may be inserted in another order than
   that of their instants, and what the tenant declared fits its own. *)
THEOREM LimitsCorrect == QuotaSpec => []LimitsKept
<1>1. QuotaInv => LimitsKept
  BY DEF QuotaInv
<1>. QED
  BY <1>1, QuotaInvariance, PTL

(* A row reserves the real size of its files until they are deleted, and nothing
   afterwards. *)
THEOREM ReservationCorrect == QuotaSpec => []ReservationFollowsStorage
<1>1. AllInv /\ QuotaTypeOK /\ QuotaInv => ReservationFollowsStorage
  <2>. SUFFICES ASSUME AllInv, QuotaTypeOK, QuotaInv, NEW a \in Attachments
                PROVE  /\ quarantine[a] # Nothing
                          => Declared[a] <= reservation[a] \/ "quarantine" \in late[a]
                       /\ ready[a] # Nothing
                          => CanonicalSize(a, ready[a]) <= reservation[a] \/ "ready" \in late[a]
                       /\ state[a] \in Terminal => reservation[a] = 0
    BY DEF ReservationFollowsStorage
  <2>1. /\ AccountInv(a) /\ state[a] \in States
        /\ Declared[a] \in Nat /\ actualSize[a] \in Nat /\ reservation[a] \in Nat
    BY QuotaAssumption DEF QuotaInv, QuotaTypeOK, AllInv, TypeOK
  <2>. QED
    BY <2>1, RowStates
       DEF AccountInv, AtLeast, AllInv, LifecycleInv, RowInv, WorkInv, StorageInv, CopyGone, ObjectGone
<1>. QED
  BY <1>1, QuotaInvariance, PTL
============================================================================
