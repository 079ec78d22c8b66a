--------------------------- MODULE HubRevocation ---------------------------
(***************************************************************************)
(* How a revoked session is driven off the SignalR hub.  Three parts work  *)
(* on the connections at once, none of them under a lock:                  *)
(*   - the hub's own pipeline, one call at a time per connection           *)
(*     (HubPrincipalValidationFilter around ChatHub), which validates the  *)
(*     principal before it registers the connection, and before a hub      *)
(*     method when the last validation is ValidationInterval old;          *)
(*   - HubConnectionRevocationMonitor, which takes a snapshot of the       *)
(*     registry at each tick of its timer and validates what it listed, at *)
(*     most MaxConcurrentValidations at a time;                            *)
(*   - AccountSecurityStampRotationService, which replaces the stamp in a  *)
(*     transaction and then aborts the connections of the account that     *)
(*     ActiveHubConnectionRegistry lists.                                  *)
(* Every validation reads the row in one step and acts on the answer in    *)
(* another: between the two, any of the others may step.                   *)
(***************************************************************************)
EXTENDS AccountStamps

CONSTANTS
    Connections,               \* connection ids; SignalR gives each one once
    Owner,                     \* whose principal a connection carries
    Rotations,                 \* calls of RotateAsync
    Anything,                  \* expectedStamp = null
    ValidationInterval,        \* one minute, in ticks of the clock
    MaxConcurrentValidations   \* 8 in the code

ASSUME OwnerAssumption == Owner \in [Connections -> Accounts]
ASSUME IntervalAssumption == ValidationInterval \in Nat \ {0}
ASSUME ValidationsAssumption == MaxConcurrentValidations \in Nat \ {0}
ASSUME AnythingAssumption == Anything \notin Int

VARIABLES
    phase,       \* where the hub's pipeline is with the connection
    held,        \* the stamp its principal carries
    aborted,     \* HubCallerContext.ConnectionAborted has been cancelled
    askedAt,     \* `now` of the EnsureValidAsync under way
    verdict,     \* what its ValidateAsync read
    checkedAt,   \* Items[LastValidatedUtcItem]
    calledAt,    \* history: when the last call let through was checked
    registry,    \* ActiveHubConnectionRegistry._connections
    ticking,     \* the monitor is in RevalidateConnectionsAsync
    listed,      \* connections of its snapshot it has not come to
    inspection,  \* the validations it has under way
    call,        \* how far each rotation has come
    target,      \* its account
    expected,    \* its expectedStamp
    present,     \* history: the account's connections when it committed
    marked       \* connections AbortAccount has still to abort

pipelineVars == <<phase, held, askedAt, verdict, checkedAt, calledAt>>
monitorVars == <<ticking, listed, inspection>>
rotationVars == <<call, target, expected, present, marked>>
vars == <<accountVars, pipelineVars, aborted, registry, monitorVars, rotationVars>>

Phases == {"offline", "connecting", "joining", "open", "asking", "closed"}
Answers == {"none", "valid", "revoked"}
Calls == {"idle", "refused", "committed", "lost", "aborting", "returned"}

\* Phases in which the hub serves the connection: it can receive and call.
Serving == {"joining", "open", "asking"}

ValidNow(c) == Valid(Owner[c], held[c])
Verdict(c) == IF ValidNow(c) THEN "valid" ELSE "revoked"

Init ==
    /\ AccountInit
    /\ phase = [c \in Connections |-> "offline"]
    /\ held = [c \in Connections |-> Unreadable]
    /\ aborted = [c \in Connections |-> FALSE]
    /\ askedAt = [c \in Connections |-> 0]
    /\ verdict = [c \in Connections |-> "none"]
    /\ checkedAt = [c \in Connections |-> Never]
    /\ calledAt = [c \in Connections |-> Never]
    /\ registry = {}
    /\ ticking = FALSE
    /\ listed = {}
    /\ inspection = [c \in Connections |-> "idle"]
    /\ call = [r \in Rotations |-> "idle"]
    /\ target \in [Rotations -> Accounts]
    /\ expected = [r \in Rotations |-> Anything]
    /\ present = [r \in Rotations |-> {}]
    /\ marked = [r \in Rotations |-> {}]

-----------------------------------------------------------------------------
(* The hub's pipeline. *)

MoveTo(c, p) == phase' = [phase EXCEPT ![c] = p]

\* HubCallerContext.Abort, by the server or because the client went away.
Abort(c) == aborted' = [aborted EXCEPT ![c] = TRUE]

\* A principal of any age arrives; OnConnectedAsync starts to validate it.
Connect(c) ==
    /\ phase[c] = "offline"
    /\ \E s \in Carried(Owner[c]) : held' = [held EXCEPT ![c] = s]
    /\ askedAt' = [askedAt EXCEPT ![c] = clock]
    /\ MoveTo(c, "connecting")
    /\ UNCHANGED <<accountVars, verdict, checkedAt, calledAt, aborted, registry,
                   monitorVars, rotationVars>>

\* ValidateAsync has read the account's row.
ReadPrincipal(c) ==
    /\ phase[c] \in {"connecting", "asking"}
    /\ verdict[c] = "none"
    /\ verdict' = [verdict EXCEPT ![c] = Verdict(c)]
    /\ UNCHANGED <<accountVars, phase, held, askedAt, checkedAt, calledAt, aborted,
                   registry, monitorVars, rotationVars>>

\* ValidateAsync threw: no connection is made, or the one call fails.
ReadFails(c) ==
    /\ phase[c] \in {"connecting", "asking"}
    /\ verdict[c] = "none"
    /\ MoveTo(c, IF phase[c] = "connecting" THEN "closed" ELSE "open")
    /\ UNCHANGED <<accountVars, held, askedAt, verdict, checkedAt, calledAt, aborted,
                   registry, monitorVars, rotationVars>>

\* Mutant: what is remembered is the instant after the validation.
AdmitLate(c) ==
    /\ phase[c] = "connecting"
    /\ verdict[c] = "valid"
    /\ checkedAt' = [checkedAt EXCEPT ![c] = clock]
    /\ verdict' = [verdict EXCEPT ![c] = "none"]
    /\ registry' = registry \union {c}
    /\ MoveTo(c, "joining")
    /\ UNCHANGED <<accountVars, held, askedAt, calledAt, aborted, monitorVars,
                   rotationVars>>

\* OnConnectedAsync: the principal was valid, so the connection is registered
\* and ChatHub.OnConnectedAsync starts.
Admit(c) ==
    /\ phase[c] = "connecting"
    /\ verdict[c] = "valid"
    /\ checkedAt' = [checkedAt EXCEPT ![c] = askedAt[c]]
    /\ verdict' = [verdict EXCEPT ![c] = "none"]
    /\ registry' = registry \union {c}
    /\ MoveTo(c, "joining")
    /\ UNCHANGED <<accountVars, held, askedAt, calledAt, aborted, monitorVars,
                   rotationVars>>

\* OnConnectedAsync: the principal was not valid.
Refuse(c) ==
    /\ phase[c] = "connecting"
    /\ verdict[c] = "revoked"
    /\ Abort(c)
    /\ verdict' = [verdict EXCEPT ![c] = "none"]
    /\ MoveTo(c, "closed")
    /\ UNCHANGED <<accountVars, held, askedAt, checkedAt, calledAt, registry,
                   monitorVars, rotationVars>>

\* ChatHub.OnConnectedAsync put the connection into its audience's group.
Join(c) ==
    /\ phase[c] = "joining"
    /\ MoveTo(c, "open")
    /\ UNCHANGED <<accountVars, held, askedAt, verdict, checkedAt, calledAt, aborted,
                   registry, monitorVars, rotationVars>>

\* It threw; the filter's catch takes the connection out of the registry.
JoinFails(c) ==
    /\ phase[c] = "joining"
    /\ registry' = registry \ {c}
    /\ MoveTo(c, "closed")
    /\ UNCHANGED <<accountVars, held, askedAt, verdict, checkedAt, calledAt, aborted,
                   monitorVars, rotationVars>>

\* EnsureValidAsync: the last validation still counts.
Recent(c) == checkedAt[c] <= clock /\ clock - checkedAt[c] < ValidationInterval

\* InvokeMethodAsync on the strength of the last validation.
CallUnasked(c) ==
    /\ phase[c] = "open"
    /\ Recent(c)
    /\ calledAt' = [calledAt EXCEPT ![c] = clock]
    /\ UNCHANGED <<accountVars, phase, held, askedAt, verdict, checkedAt, aborted,
                   registry, monitorVars, rotationVars>>

\* InvokeMethodAsync starts to validate the principal again.
Ask(c) ==
    /\ phase[c] = "open"
    /\ ~Recent(c)
    /\ askedAt' = [askedAt EXCEPT ![c] = clock]
    /\ MoveTo(c, "asking")
    /\ UNCHANGED <<accountVars, held, verdict, checkedAt, calledAt, aborted, registry,
                   monitorVars, rotationVars>>

\* The principal was valid: the instant the question was put is remembered, and
\* the hub method runs.
CallChecked(c) ==
    /\ phase[c] = "asking"
    /\ verdict[c] = "valid"
    /\ checkedAt' = [checkedAt EXCEPT ![c] = askedAt[c]]
    /\ calledAt' = [calledAt EXCEPT ![c] = askedAt[c]]
    /\ verdict' = [verdict EXCEPT ![c] = "none"]
    /\ MoveTo(c, "open")
    /\ UNCHANGED <<accountVars, held, askedAt, aborted, registry, monitorVars,
                   rotationVars>>

\* The principal was not valid: Abort, and the method does not run.
RefuseCall(c) ==
    /\ phase[c] = "asking"
    /\ verdict[c] = "revoked"
    /\ Abort(c)
    /\ verdict' = [verdict EXCEPT ![c] = "none"]
    /\ MoveTo(c, "open")
    /\ UNCHANGED <<accountVars, held, askedAt, checkedAt, calledAt, registry,
                   monitorVars, rotationVars>>

\* The client goes away.
ClientDrops(c) ==
    /\ phase[c] \notin {"offline", "closed"}
    /\ ~aborted[c]
    /\ Abort(c)
    /\ UNCHANGED <<accountVars, pipelineVars, registry, monitorVars, rotationVars>>

\* OnDisconnectedAsync, whose finally takes the connection out of the registry.
Disconnect(c) ==
    /\ phase[c] = "open"
    /\ aborted[c]
    /\ registry' = registry \ {c}
    /\ MoveTo(c, "closed")
    /\ UNCHANGED <<accountVars, held, askedAt, verdict, checkedAt, calledAt, aborted,
                   monitorVars, rotationVars>>

-----------------------------------------------------------------------------
(* HubConnectionRevocationMonitor. *)

Busy == {c \in Connections : inspection[c] # "idle"}
FreeSlot == Cardinality(Busy) < MaxConcurrentValidations

\* A tick of the timer: GetConnections is the list to go through.
MonitorTick ==
    /\ ~ticking
    /\ ticking' = TRUE
    /\ listed' = registry
    /\ UNCHANGED <<accountVars, pipelineVars, aborted, registry, inspection, rotationVars>>

\* A connection already gone is only taken out of the registry.
MonitorDrop(c) ==
    /\ c \in listed
    /\ FreeSlot
    /\ aborted[c]
    /\ registry' = registry \ {c}
    /\ listed' = listed \ {c}
    /\ UNCHANGED <<accountVars, pipelineVars, aborted, ticking, inspection, rotationVars>>

MonitorAsk(c) ==
    /\ c \in listed
    /\ FreeSlot
    /\ ~aborted[c]
    /\ inspection' = [inspection EXCEPT ![c] = "asking"]
    /\ listed' = listed \ {c}
    /\ UNCHANGED <<accountVars, pipelineVars, aborted, registry, ticking, rotationVars>>

MonitorRead(c) ==
    /\ inspection[c] = "asking"
    /\ inspection' = [inspection EXCEPT ![c] = Verdict(c)]
    /\ UNCHANGED <<accountVars, pipelineVars, aborted, registry, ticking, listed,
                   rotationVars>>

\* Mutant: a connection whose validation threw is forgotten.
MonitorForgets(c) ==
    /\ inspection[c] = "asking"
    /\ inspection' = [inspection EXCEPT ![c] = "idle"]
    /\ registry' = registry \ {c}
    /\ UNCHANGED <<accountVars, pipelineVars, aborted, ticking, listed, rotationVars>>

\* Mutant: a connection whose validation threw is aborted.
MonitorFailsClosed(c) ==
    /\ inspection[c] = "asking"
    /\ inspection' = [inspection EXCEPT ![c] = "idle"]
    /\ Abort(c)
    /\ registry' = registry \ {c}
    /\ UNCHANGED <<accountVars, pipelineVars, ticking, listed, rotationVars>>

\* The validation threw: the connection is kept for the next tick.
MonitorFails(c) ==
    /\ inspection[c] = "asking"
    /\ inspection' = [inspection EXCEPT ![c] = "idle"]
    /\ UNCHANGED <<accountVars, pipelineVars, aborted, registry, ticking, listed,
                   rotationVars>>

MonitorKeep(c) ==
    /\ inspection[c] = "valid"
    /\ inspection' = [inspection EXCEPT ![c] = "idle"]
    /\ UNCHANGED <<accountVars, pipelineVars, aborted, registry, ticking, listed,
                   rotationVars>>

MonitorAbort(c) ==
    /\ inspection[c] = "revoked"
    /\ inspection' = [inspection EXCEPT ![c] = "idle"]
    /\ Abort(c)
    /\ registry' = registry \ {c}
    /\ UNCHANGED <<accountVars, pipelineVars, ticking, listed, rotationVars>>

\* Parallel.ForEachAsync is through; the monitor waits for the next tick.
MonitorRest ==
    /\ ticking
    /\ listed = {}
    /\ Busy = {}
    /\ ticking' = FALSE
    /\ UNCHANGED <<accountVars, pipelineVars, aborted, registry, listed, inspection,
                   rotationVars>>

-----------------------------------------------------------------------------
(* AccountSecurityStampRotationService and AbortAccount. *)

\* The connections whose principal MatchesAccount.
OfAccount(a) == {c \in Connections : Owner[c] = a}

AcceptsStamp(a, e) == e = Anything \/ e = stamp[a]

\* RotateWithAuditAsync commits: the row had the expected stamp.
Rotate(r, e) ==
    LET a == target[r] IN
    /\ call[r] = "idle"
    /\ AcceptsStamp(a, e)
    /\ Replace(a)
    /\ call' = [call EXCEPT ![r] = "committed"]
    /\ expected' = [expected EXCEPT ![r] = e]
    /\ present' = [present EXCEPT ![r] = registry \intersect OfAccount(a)]
    /\ UNCHANGED <<pipelineVars, aborted, registry, monitorVars, target, marked>>

\* It updated no row: the caller is told so, and no connection is touched.
RotateRefused(r, e) ==
    /\ call[r] = "idle"
    /\ ~AcceptsStamp(target[r], e)
    /\ call' = [call EXCEPT ![r] = "refused"]
    /\ expected' = [expected EXCEPT ![r] = e]
    /\ UNCHANGED <<accountVars, pipelineVars, aborted, registry, monitorVars, target,
                   present, marked>>

\* The stamp is committed but the call never learns it (the answer to COMMIT is
\* lost, or the token is cancelled under it): nobody is notified.
RotateLost(r) ==
    /\ call[r] = "committed"
    /\ call' = [call EXCEPT ![r] = "lost"]
    /\ UNCHANGED <<accountVars, pipelineVars, aborted, registry, monitorVars, target,
                   expected, present, marked>>

\* AbortAccount takes its snapshot of the registry.
Notify(r) ==
    /\ call[r] = "committed"
    /\ call' = [call EXCEPT ![r] = "aborting"]
    /\ marked' = [marked EXCEPT ![r] = registry \intersect OfAccount(target[r])]
    /\ UNCHANGED <<accountVars, pipelineVars, aborted, registry, monitorVars, target,
                   expected, present>>

AbortMarked(r, c) ==
    /\ c \in marked[r]
    /\ Abort(c)
    /\ registry' = registry \ {c}
    /\ marked' = [marked EXCEPT ![r] = @ \ {c}]
    /\ UNCHANGED <<accountVars, pipelineVars, monitorVars, call, target, expected, present>>

\* RotateAsync returns true.
Return(r) ==
    /\ call[r] = "aborting"
    /\ marked[r] = {}
    /\ call' = [call EXCEPT ![r] = "returned"]
    /\ UNCHANGED <<accountVars, pipelineVars, aborted, registry, monitorVars, target,
                   expected, present, marked>>

-----------------------------------------------------------------------------
ConnectionStep(c) ==
    \/ Connect(c) \/ ReadPrincipal(c) \/ ReadFails(c) \/ Admit(c) \/ Refuse(c)
    \/ Join(c) \/ JoinFails(c)
    \/ CallUnasked(c) \/ Ask(c) \/ CallChecked(c) \/ RefuseCall(c)
    \/ ClientDrops(c) \/ Disconnect(c)

MonitorStep(c) ==
    \/ MonitorDrop(c) \/ MonitorAsk(c) \/ MonitorRead(c) \/ MonitorFails(c)
    \/ MonitorKeep(c) \/ MonitorAbort(c)

RotationStep(r) ==
    \/ \E e \in {Anything} \union Stamps : Rotate(r, e) \/ RotateRefused(r, e)
    \/ RotateLost(r)
    \/ Notify(r)
    \/ \E c \in Connections : AbortMarked(r, c)
    \/ Return(r)

Elsewhere == UNCHANGED <<pipelineVars, aborted, registry, monitorVars, rotationVars>>

Next ==
    \/ \E c \in Connections : ConnectionStep(c) \/ MonitorStep(c)
    \/ MonitorTick \/ MonitorRest
    \/ \E r \in Rotations : RotationStep(r)
    \/ Tick /\ Elsewhere
    \/ \E a \in Accounts : Disable(a) /\ Elsewhere

Spec == Init /\ [][Next]_vars

\* The timer keeps ticking, what the monitor has listed it works through, and
\* the database does not fail the same connection for ever.  Nothing is asked of
\* clients, of rotations or of the hub's pipeline.
MonitorFairness ==
    /\ WF_vars(MonitorTick)
    /\ WF_vars(MonitorRest)
    /\ \A c \in Connections :
        /\ WF_vars(MonitorDrop(c))
        /\ WF_vars(MonitorAsk(c))
        /\ SF_vars(MonitorRead(c))
        /\ WF_vars(MonitorKeep(c))
        /\ WF_vars(MonitorAbort(c))

FairSpec == Spec /\ MonitorFairness

-----------------------------------------------------------------------------
(* Properties. *)

TypeOK ==
    /\ AccountTypeOK
    /\ phase \in [Connections -> Phases]
    /\ held \in [Connections -> Stamps \union {Unreadable}]
    /\ aborted \in [Connections -> BOOLEAN]
    /\ askedAt \in [Connections -> Instants]
    /\ verdict \in [Connections -> Answers]
    /\ checkedAt \in [Connections -> Instants \union {Never}]
    /\ calledAt \in [Connections -> Instants \union {Never}]
    /\ registry \subseteq Connections
    /\ ticking \in BOOLEAN
    /\ listed \subseteq Connections
    /\ inspection \in [Connections -> {"idle", "asking", "valid", "revoked"}]
    /\ call \in [Rotations -> Calls]
    /\ target \in [Rotations -> Accounts]
    /\ expected \in [Rotations -> Stamps \union {Anything}]
    /\ present \in [Rotations -> SUBSET Connections]
    /\ marked \in [Rotations -> SUBSET Connections]

\* A connection the hub serves is in the registry until it has been aborted:
\* whatever order registration, the monitor and AbortAccount work in, none takes
\* a connection out of the registry and leaves it running, where neither a
\* rotation nor the monitor would find it again.
ServedIsWatched ==
    \A c \in Connections :
        phase[c] \in Serving /\ ~aborted[c] => c \in registry

\* A connection that is over, or was never admitted, is not in the registry: no
\* late Register, by any interleaving, leaves an entry nobody will remove.
RegistryHasNoGhosts ==
    \A c \in registry : phase[c] \in Serving

\* No hub method runs for a principal a full ValidationInterval after it lost its
\* validity: the instant remembered is the one at which the question was put,
\* never later than the row was read.
NoCallOutlivesRevocation ==
    \A c \in Connections :
        calledAt[c] # Never =>
            calledAt[c] < LostAt(Owner[c], held[c]) + ValidationInterval

\* When RotateAsync has returned true, every connection of the account that was
\* registered when the stamp was committed has been aborted or is closed,
\* whoever took it out of the registry in the meantime.
ReturnedMeansDriven ==
    \A r \in Rotations :
        call[r] = "returned" =>
            \A c \in present[r] : aborted[c] \/ phase[c] = "closed"

\* Of the rotations of an account that expected the same stamp at most one takes
\* place (two password changes from the same page, say).
ExpectedStampWonOnce ==
    \A q, r \in Rotations :
        /\ q # r
        /\ target[q] = target[r]
        /\ expected[q] = expected[r]
        /\ expected[r] # Anything
        => call[q] \in {"idle", "refused"} \/ call[r] \in {"idle", "refused"}

\* The server aborts a connection whose principal is valid only for a rotation
\* of its account: neither a failed validation nor a stale verdict does it.
AbortsAreJustified ==
    [][\A c \in Connections :
           ~aborted[c] /\ aborted'[c] /\ ValidNow(c) =>
               ClientDrops(c) \/ \E r \in Rotations : c \in marked[r] /\ Owner[c] = target[r]]_vars

\* A connection the hub serves for a principal that is no longer valid is
\* aborted in the end, also when it was admitted while the stamp was being
\* replaced, when the rotation never notified anyone, when the account was
\* switched off in the database, and when validations fail now and then.
RevokedIsDriven ==
    \A c \in Connections :
        (phase[c] \in Serving /\ ~ValidNow(c)) ~> (aborted[c] \/ phase[c] = "closed")

=============================================================================
