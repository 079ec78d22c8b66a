------------------------ MODULE SessionRevalidation ------------------------
(***************************************************************************)
(* How long a revoked session can still make HTTP requests.  A sign-in     *)
(* reads the account's row and later writes the stamp it read into a       *)
(* ticket: an authentication cookie, or a bearer token.  A bearer token is *)
(* validated against the row on every request; a cookie carries the second *)
(* in which it was last validated, is believed for ValidationInterval      *)
(* after it, and is written anew, with the new second, by the response to  *)
(* the request that validated it.                                          *)
(*                                                                         *)
(* Nothing of a session is kept on the server: `tickets' is every ticket   *)
(* ever handed out, and a request may present any of them, the one a later *)
(* response replaced included (two requests of one page overtake each      *)
(* other, a cookie is restored after a sign-out).                          *)
(***************************************************************************)
EXTENDS AccountStamps

CONSTANTS
    Requests,             \* requests under way at once
    ValidationInterval,   \* five minutes, in ticks of the clock
    TicksPerSecond,       \* the cookie keeps whole seconds
    Unchecked,            \* a ticket without LastValidatedUtcProperty
    NoTicket

ASSUME IntervalAssumption == ValidationInterval \in Nat \ {0}
ASSUME SecondAssumption == TicksPerSecond \in Nat \ {0}
ASSUME UncheckedAssumption == Unchecked \notin Int

VARIABLES
    tickets,      \* every ticket handed out so far
    pc,           \* how far a request has come
    shown,        \* the ticket it presents, or the one a sign-in will hand out
    askedAt,      \* `now` of ValidatePrincipal
    verdict,      \* what ValidateAsync read
    acceptedAt    \* history: the instant at which the request was authenticated

requestVars == <<pc, shown, askedAt, verdict, acceptedAt>>
vars == <<accountVars, tickets, requestVars>>

Kinds == {"cookie", "bearer"}
Ticket ==
    [kind : Kinds, owner : Accounts, held : Stamps,
     checkedAt : Instants \union {Unchecked}]
Steps == {"idle", "signing", "asking", "accepted", "rejected"}

\* DateTimeOffset.ToUnixTimeSeconds drops the part of a second.
WholeSeconds(t) == t - (t % TicksPerSecond)

Init ==
    /\ AccountInit
    /\ tickets = {}
    /\ pc = [q \in Requests |-> "idle"]
    /\ shown = [q \in Requests |-> NoTicket]
    /\ askedAt = [q \in Requests |-> 0]
    /\ verdict = [q \in Requests |-> "none"]
    /\ acceptedAt = [q \in Requests |-> Never]

\* The request is answered.
Over(q) ==
    /\ pc' = [pc EXCEPT ![q] = "idle"]
    /\ shown' = [shown EXCEPT ![q] = NoTicket]
    /\ askedAt' = [askedAt EXCEPT ![q] = 0]
    /\ verdict' = [verdict EXCEPT ![q] = "none"]
    /\ acceptedAt' = [acceptedAt EXCEPT ![q] = Never]

-----------------------------------------------------------------------------
\* AuthService found the account active and the password right.
SignInReads(q, a, k) ==
    /\ pc[q] = "idle"
    /\ enabled[a]
    /\ pc' = [pc EXCEPT ![q] = "signing"]
    /\ shown' = [shown EXCEPT ![q] =
           [kind |-> k, owner |-> a, held |-> stamp[a], checkedAt |-> Unchecked]]
    /\ UNCHANGED <<accountVars, tickets, askedAt, verdict, acceptedAt>>

\* SignInAsync, or the JWT: the ticket leaves with the stamp that was read.
SignInIssues(q) ==
    /\ pc[q] = "signing"
    /\ tickets' = tickets \union {shown[q]}
    /\ Over(q)
    /\ UNCHANGED accountVars

\* Mutant: a cookie once validated is believed.
BelievedForEver(t) == t.kind = "cookie" /\ t.checkedAt # Unchecked

\* RequiresValidation does not: a cookie validated within the interval.
Believed(t) ==
    /\ t.kind = "cookie"
    /\ t.checkedAt # Unchecked
    /\ t.checkedAt <= clock
    /\ clock - t.checkedAt < ValidationInterval

\* A request whose ticket is believed as it is.
SendBelieved(q, t) ==
    /\ pc[q] = "idle"
    /\ Believed(t)
    /\ pc' = [pc EXCEPT ![q] = "accepted"]
    /\ shown' = [shown EXCEPT ![q] = t]
    /\ acceptedAt' = [acceptedAt EXCEPT ![q] = clock]
    /\ UNCHANGED <<accountVars, tickets, askedAt, verdict>>

\* A request whose ticket has to be validated.
Send(q, t) ==
    /\ pc[q] = "idle"
    /\ ~Believed(t)
    /\ pc' = [pc EXCEPT ![q] = "asking"]
    /\ shown' = [shown EXCEPT ![q] = t]
    /\ askedAt' = [askedAt EXCEPT ![q] = clock]
    /\ UNCHANGED <<accountVars, tickets, verdict, acceptedAt>>

ReadPrincipal(q) ==
    /\ pc[q] = "asking"
    /\ verdict[q] = "none"
    /\ verdict' = [verdict EXCEPT ![q] =
           IF Valid(shown[q].owner, shown[q].held) THEN "valid" ELSE "revoked"]
    /\ UNCHANGED <<accountVars, tickets, pc, shown, askedAt, acceptedAt>>

\* Mutant: a validation that threw turns the request away.
ReadFailsClosed(q) ==
    /\ pc[q] = "asking"
    /\ verdict[q] = "none"
    /\ pc' = [pc EXCEPT ![q] = "rejected"]
    /\ UNCHANGED <<accountVars, tickets, shown, askedAt, verdict, acceptedAt>>

\* ValidateAsync threw: the request fails, the ticket stays as it was.
ReadFails(q) ==
    /\ pc[q] = "asking"
    /\ verdict[q] = "none"
    /\ Over(q)
    /\ UNCHANGED <<accountVars, tickets>>

\* The principal was valid.  A cookie is renewed: ShouldRenew, with the second
\* in which the question was put.
Accept(q) ==
    /\ pc[q] = "asking"
    /\ verdict[q] = "valid"
    /\ pc' = [pc EXCEPT ![q] = "accepted"]
    /\ acceptedAt' = [acceptedAt EXCEPT ![q] = askedAt[q]]
    /\ tickets' = IF shown[q].kind = "bearer" THEN tickets
                  ELSE tickets \union
                       {[shown[q] EXCEPT !.checkedAt = WholeSeconds(askedAt[q])]}
    /\ UNCHANGED <<accountVars, shown, askedAt, verdict>>

\* RejectPrincipal and SignOutAsync, or context.Fail.
Reject(q) ==
    /\ pc[q] = "asking"
    /\ verdict[q] = "revoked"
    /\ pc' = [pc EXCEPT ![q] = "rejected"]
    /\ UNCHANGED <<accountVars, tickets, shown, askedAt, verdict, acceptedAt>>

\* SessionController.RevokeAll, on behalf of whoever the ticket names.
RevokeAll(q) ==
    /\ pc[q] = "accepted"
    /\ Replace(shown[q].owner)
    /\ Over(q)
    /\ UNCHANGED tickets

\* Any other request.
Answer(q) ==
    /\ pc[q] \in {"accepted", "rejected"}
    /\ Over(q)
    /\ UNCHANGED <<accountVars, tickets>>

RequestStep(q) ==
    \/ \E a \in Accounts, k \in Kinds : SignInReads(q, a, k)
    \/ SignInIssues(q)
    \/ \E t \in tickets : SendBelieved(q, t) \/ Send(q, t)
    \/ ReadPrincipal(q) \/ ReadFails(q) \/ Accept(q) \/ Reject(q)
    \/ RevokeAll(q) \/ Answer(q)

Elsewhere == UNCHANGED <<tickets, requestVars>>

Next ==
    \/ \E q \in Requests : RequestStep(q)
    \/ Tick /\ Elsewhere
    \/ \E a \in Accounts : Disable(a) /\ Elsewhere

Spec == Init /\ [][Next]_vars

-----------------------------------------------------------------------------
(* Properties. *)

TypeOK ==
    /\ AccountTypeOK
    /\ tickets \subseteq Ticket
    /\ pc \in [Requests -> Steps]
    /\ shown \in [Requests -> Ticket \union {NoTicket}]
    /\ askedAt \in [Requests -> Instants]
    /\ verdict \in [Requests -> {"none", "valid", "revoked"}]
    /\ acceptedAt \in [Requests -> Instants \union {Never}]

\* No request is authenticated a full ValidationInterval after its principal
\* lost its validity, whichever of the cookies handed out it presents and in
\* whatever order the responses that renewed them arrived; and one with a bearer
\* token is not authenticated at all if the loss came before it.
AcceptedWithinInterval ==
    \A q \in Requests :
        pc[q] = "accepted" =>
            LET lost == LostAt(shown[q].owner, shown[q].held) IN
            IF shown[q].kind = "bearer" THEN acceptedAt[q] <= lost
            ELSE acceptedAt[q] < lost + ValidationInterval

\* A request is turned away only if its principal really has lost its validity:
\* neither a failed read nor a rotation under way signs a valid session out.
RejectedIsRevoked ==
    \A q \in Requests :
        pc[q] = "rejected" => ~Valid(shown[q].owner, shown[q].held)

=============================================================================
