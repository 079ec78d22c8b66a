-------------------------- MODULE MessagingClient --------------------------
(***************************************************************************)
(* The messaging client of a page (messaging/store.js, client.js,          *)
(* transport.js and api.js): how the messages of a conversation reach the  *)
(* store of a browser, and how what its user sends reaches the server.     *)
(*   - The server keeps a log per conversation; a message is identified    *)
(*     by its sequence number, its position in the log.                    *)
(*   - The hub sends events to the members of a group, in any order, more  *)
(*     than once or never (the outbox repeats, connections break).         *)
(*   - The client asks for what follows the highest number it has:         *)
(*     periodically, when it joins, and when an event leaves a gap.        *)
(*   - A message is sent by an HTTP request under an identifier made by    *)
(*     the client, kept in localStorage until the message is seen; when    *)
(*     localStorage refuses it, in memory.                                 *)
(*   - An admin may archive a conversation, which empties its store.       *)
(* JavaScript runs one continuation at a time, so that an action is what   *)
(* happens between two awaits.                                             *)
(***************************************************************************)
EXTENDS Integers, Sequences, FiniteSets

CONSTANTS
    Conversations,
    Keys,          \* client message ids, from createClientMessageId
    Texts,         \* what the user may want to say, each one once
    Other,         \* the author of a message that is not sent by this page
    PageSize,      \* 100 messages in a page
    MaxPages,      \* 100 pages in one fetch
    MaxLog,        \* bound: messages in a conversation
    MaxGestures,   \* bound: what the user does (join, leave, send, archive, reload)
    MaxFaults      \* bound: requests that fail and connections that break

ASSUME PageAssumption == PageSize \in Nat \ {0} /\ MaxPages \in Nat \ {0}
ASSUME OtherAssumption == Other \notin Keys
ASSUME ConversationAssumption == "none" \notin Conversations
ASSUME LogAssumption == MaxLog \in Nat

VARIABLES
    log,           \* the server's messages of a conversation: their identifiers
    have,          \* numbers in the store (state.messages)
    last,          \* state.lastSequence
    skipped,       \* history: numbers the code knowingly passed over
    fetches,       \* requests for messages under way
    intent,        \* what a client message id was made for
    pending,       \* the state of its entry among the unsent messages
    volatile,      \* conversations whose unsent messages are in memory only
    full,          \* localStorage refuses to be written
    lost,          \* history: sent, but no longer among the unsent messages
    posted,        \* requests to send it that have left the browser
    calls,         \* how many of them the page waits for
    conn,          \* connection.state
    joined,        \* transport's joinedConversations
    rejoining,     \* those a rejoin has not come to
    waiting,       \* joins that wait for start()
    hub,           \* invocations on their way, in order
    members,       \* groups the server has put the connection into
    ghosts,        \* history: left while the join was under way
    archival,      \* what the server knows of a request to archive
    archiving,     \* those of which the page waits for the answer
    gestures, faults

logVars == <<log, posted>>
storeVars == <<have, last, skipped>>
unsentVars == <<pending, volatile, full, lost>>
sendVars == <<intent, unsentVars, calls>>
hubVars == <<conn, joined, rejoining, waiting, hub, members, ghosts>>
archiveVars == <<archival, archiving>>
vars == <<logVars, storeVars, fetches, sendVars, hubVars, archiveVars, gestures, faults>>

NoIntent == [conv |-> "none", text |-> "none"]
Fetch == [conv: Conversations, kind: {"reconcile", "gap"},
          from: Nat, page: Nat, seen: Nat, until: Nat, open: BOOLEAN]
Invocations == {"join", "leave"} \X Conversations

TypeOK ==
    /\ log \in [Conversations -> Seq(Keys \union {Other})]
    /\ posted \subseteq Keys
    /\ have \in [Conversations -> SUBSET Nat]
    /\ last \in [Conversations -> Nat]
    /\ skipped \in [Conversations -> SUBSET Nat]
    /\ fetches \subseteq Fetch
    /\ intent \in [Keys -> [conv: Conversations, text: Texts] \union {NoIntent}]
    /\ pending \in [Keys -> {"none", "pending", "failed"}]
    /\ volatile \subseteq Conversations
    /\ full \in BOOLEAN
    /\ lost \subseteq Keys
    /\ calls \in [Keys -> Nat]
    /\ archival \in [Conversations -> {"none", "asked", "archived"}]
    /\ archiving \subseteq Conversations
    /\ conn \in {"Disconnected", "Connected", "Reconnecting"}
    /\ joined \subseteq Conversations
    /\ rejoining \subseteq Conversations
    /\ waiting \in Seq(Conversations)
    /\ hub \in Seq(Invocations)
    /\ members \subseteq Conversations
    /\ ghosts \subseteq Conversations
    /\ gestures \in Nat /\ faults \in Nat

Init ==
    /\ log = [c \in Conversations |-> <<>>]
    /\ posted = {}
    /\ have = [c \in Conversations |-> {}]
    /\ last = [c \in Conversations |-> 0]
    /\ skipped = [c \in Conversations |-> {}]
    /\ fetches = {}
    /\ intent = [k \in Keys |-> NoIntent]
    /\ pending = [k \in Keys |-> "none"]
    /\ volatile = {} /\ lost = {}
    /\ full \in BOOLEAN
    /\ calls = [k \in Keys |-> 0]
    /\ archival = [c \in Conversations |-> "none"]
    /\ archiving = {}
    /\ conn = "Disconnected"
    /\ joined = {} /\ rejoining = {} /\ members = {} /\ ghosts = {}
    /\ waiting = <<>> /\ hub = <<>>
    /\ gestures = 0 /\ faults = 0

Gesture == gestures < MaxGestures /\ gestures' = gestures + 1 /\ UNCHANGED faults
Fault == faults < MaxFaults /\ faults' = faults + 1 /\ UNCHANGED gestures
NoBudget == UNCHANGED <<gestures, faults>>

Archived(c) == archival[c] = "archived"

\* A request of conversation c fails: the server refuses all of an archived one.
Refused(c) == IF Archived(c) THEN NoBudget ELSE Fault

-----------------------------------------------------------------------------
(* The store. *)

Higher(m, n) == IF m > n THEN m ELSE n
Lower(m, n) == IF m < n THEN m ELSE n

\* Missing numbers with a message of the store on either side.
HolesOf(numbers) == {n \in 1..MaxLog : /\ n \notin numbers
                                       /\ \E low \in numbers : low < n
                                       /\ \E high \in numbers : n < high}

Older(c, n) == \A m \in have[c] : n < m

\* A clearPending that forgets to look at the identifier.
ConfirmedAll(c, S) == {k \in Keys : intent[k].conv = c /\ S /= {}}

\* The pending entries of conversation c that its messages S confirm.
Confirmed(c, S) == {k \in Keys : intent[k].conv = c /\ \E n \in S : log[c][n] = k}

\* readPendingCollection: what localStorage has, or else what is in memory.
Kept(c) == {k \in Keys : intent[k].conv = c /\ pending[k] /= "none"}
Stored(c) == c \notin volatile /\ Kept(c) /= {}

\* clearPending for each key of S. The last entry is removed, which never fails;
\* while others remain they are written anew, and when that fails a collection
\* that is stored stays as it was.
Clear(c, S) ==
    IF full /\ Stored(c) /\ ~ \E k \in Keys : Kept(c) \subseteq {k}
    THEN UNCHANGED unsentVars
    ELSE /\ pending' = [k \in Keys |-> IF k \in S THEN "none" ELSE pending[k]]
         /\ volatile' = IF full /\ Kept(c) \ S /= {} THEN volatile ELSE volatile \ {c}
         /\ UNCHANGED <<full, lost>>

\* savePending. When writing fails, an entry beside others that are stored is
\* hidden by them, and one alone stays in memory.
Save(c, k, as) ==
    IF full /\ Stored(c)
    THEN /\ lost' = IF pending[k] = "none" THEN lost \union {k} ELSE lost
         /\ UNCHANGED <<pending, volatile, full>>
    ELSE /\ pending' = [pending EXCEPT ![k] = as]
         /\ volatile' = IF full THEN volatile \union {c} ELSE volatile \ {c}
         /\ UNCHANGED <<full, lost>>

\* store.upsert of the messages S, none above `top`.
Upsert(c, S, top) ==
    /\ have' = [have EXCEPT ![c] = @ \union S]
    /\ last' = [last EXCEPT ![c] = Higher(@, top)]

\* ingest: with it goes the entry of a message that is found among the unsent.
Ingest(c, S, top) ==
    /\ Upsert(c, S, top)
    /\ IF Confirmed(c, S) \intersect Kept(c) = {} THEN UNCHANGED unsentVars
       ELSE Clear(c, Confirmed(c, S))

\* Numbers that the step leaves out between two it has count as passed over.
PassOver(c, does) ==
    skipped' = IF does THEN [skipped EXCEPT ![c] = @ \union HolesOf(have'[c])] ELSE skipped

-----------------------------------------------------------------------------
(* Fetching: api.getMessages and the loops around it. *)

\* The server's page of a log of `length` messages after number `from`;
\* without a number (0) it is the last page.
PageAfter(from, length) ==
    {n \in 1..length : IF from = 0 THEN n > length - PageSize ELSE n > from /\ n <= from + PageSize}
PageEnd(from, length) == IF from = 0 THEN length ELSE Lower(from + PageSize, length)
HasMore(from, length) == length > from + PageSize

NewFetch(c, kind, from, until) ==
    [conv |-> c, kind |-> kind, from |-> from, page |-> 0, seen |-> Len(log[c]), until |-> until,
     open |-> ~ Archived(c)]

Reconciling(c) == \E f \in fetches : f.conv = c /\ f.kind = "reconcile"

\* reconcile of each of them: one at a time for each conversation.
Reconciles(S) ==
    {NewFetch(c, "reconcile", last[c], 0) : c \in {d \in S : ~ Reconciling(d)}}

\* The loop goes on while the server has more, and pages are left.
GoesOn(f, length, next) == HasMore(f.from, length) /\ next > f.from /\ f.page + 1 < MaxPages

\* A page arrives, which the server took from a log of `length` messages; when
\* the loop ends, the event that showed the gap is ingested.
FetchAnswered(f, length) ==
    LET c == f.conv
        page == PageAfter(f.from, length)
        next == IF page = {} THEN last[c] ELSE Higher(last[c], PageEnd(f.from, length))
        more == GoesOn(f, length, next)
        event == IF f.kind = "gap" /\ ~ more THEN {f.until} ELSE {}
    IN  /\ f.open
        /\ Ingest(c, page \union event, IF event = {} THEN next ELSE Higher(next, f.until))
        /\ PassOver(c, \/ f.from \notin have[c]
                       \/ event /= {} /\ HasMore(f.from, length)
                       \/ \E n \in event : Older(c, n))
        /\ fetches' = (fetches \ {f}) \union
               IF more THEN {[f EXCEPT !.from = next, !.page = @ + 1, !.seen = Len(log[c]),
                                       !.open = ~ Archived(c)]}
               ELSE {}
        /\ NoBudget
        /\ UNCHANGED <<logVars, intent, calls, hubVars, archiveVars>>

\* A failure that leaves the entry of the one request a conversation may have.
FetchFailsForGood(f) ==
    /\ Refused(f.conv)
    /\ Ingest(f.conv, IF f.kind = "gap" THEN {f.until} ELSE {}, f.until)
    /\ PassOver(f.conv, f.kind = "gap")
    /\ fetches' = IF f.kind = "gap" THEN fetches \ {f}
                  ELSE (fetches \ {f}) \union {[f EXCEPT !.seen = MaxLog + 1]}
    /\ UNCHANGED <<logVars, intent, calls, hubVars, archiveVars>>

\* A request fails. The event of a gap is ingested all the same, what is
\* missing before it is left to nobody.
FetchFails(f) ==
    /\ Refused(f.conv)
    /\ Ingest(f.conv, IF f.kind = "gap" THEN {f.until} ELSE {}, f.until)
    /\ PassOver(f.conv, f.kind = "gap")
    /\ fetches' = fetches \ {f}
    /\ UNCHANGED <<logVars, intent, calls, hubVars, archiveVars>>

\* The timer, the window coming back, `online`: reconcileJoinedConversations.
Tick ==
    /\ Reconciles(joined) /= {}
    /\ fetches' = fetches \union Reconciles(joined)
    /\ NoBudget
    /\ UNCHANGED <<logVars, storeVars, sendVars, hubVars, archiveVars>>

-----------------------------------------------------------------------------
(* Events of the hub. *)

\* A test that lets one missing message pass.
LeavesWideGap(c, n) == n > last[c] + 2

LeavesGap(c, n) == n > last[c] + 1

\* MessageCreated of message n.
Receive(c, n) ==
    /\ c \in members
    /\ n \in 1..Len(log[c])
    /\ IF LeavesGap(c, n)
       THEN /\ fetches' = fetches \union {NewFetch(c, "gap", last[c], n)}
            /\ UNCHANGED <<storeVars, unsentVars>>
       ELSE /\ Ingest(c, {n}, n)
            /\ PassOver(c, Older(c, n))
            /\ UNCHANGED fetches
    /\ NoBudget
    /\ UNCHANGED <<logVars, intent, calls, hubVars, archiveVars>>

-----------------------------------------------------------------------------
(* Sending. *)

\* The user has not said it yet, or sees it among the unsent messages, or nowhere.
Wanted(c, t) ==
    \A k \in Keys : intent[k] = [conv |-> c, text |-> t] => pending[k] /= "none" \/ k \in lost

\* findPending: the identifier an unsent message with the same text has.
Reused(c, t) == {k \in Keys : intent[k] = [conv |-> c, text |-> t] /\ pending[k] /= "none"}
Unused == {k \in Keys : intent[k] = NoIntent}
Fresh == IF Unused = {} THEN {} ELSE {CHOOSE k \in Unused : TRUE}

\* A new identifier for every attempt.
AlwaysFresh(c, t) == Fresh

RequestIds(c, t) == IF Reused(c, t) /= {} THEN Reused(c, t) ELSE Fresh

Post(c, t, k) ==
    /\ intent' = [intent EXCEPT ![k] = [conv |-> c, text |-> t]]
    /\ Save(c, k, "pending")
    /\ posted' = posted \union {k}
    /\ calls' = [calls EXCEPT ![k] = @ + 1]
    /\ UNCHANGED <<log, storeVars, fetches, hubVars, archiveVars>>

Send(c, t) ==
    /\ Wanted(c, t)
    /\ Gesture
    /\ \E k \in RequestIds(c, t) : Post(c, t, k)

\* The Retry of a message shown as not sent.
Retry(k) ==
    /\ pending[k] = "failed"
    /\ Gesture
    /\ Post(intent[k].conv, intent[k].text, k)

Sent(k) == \E n \in 1..Len(log[intent[k].conv]) : log[intent[k].conv][n] = k

\* The server handles a request, or repeats its answer. It may come to it long
\* after the page has given up.
Commit(k) ==
    /\ k \in posted
    /\ ~ Sent(k) /\ ~ Archived(intent[k].conv)
    /\ Len(log[intent[k].conv]) < MaxLog
    /\ log' = [log EXCEPT ![intent[k].conv] = Append(@, k)]
    /\ NoBudget
    /\ UNCHANGED <<posted, storeVars, fetches, sendVars, hubVars, archiveVars>>

\* Somebody else writes.
OtherWrites(c) ==
    /\ ~ Archived(c)
    /\ Len(log[c]) < MaxLog
    /\ log' = [log EXCEPT ![c] = Append(@, Other)]
    /\ NoBudget
    /\ UNCHANGED <<posted, storeVars, fetches, sendVars, hubVars, archiveVars>>

\* The answer to a send is ingested without a look at the gap before it, and the
\* entry cleared again.
SendAnswered(k) ==
    /\ calls[k] > 0
    /\ \E n \in 1..Len(log[intent[k].conv]) :
           /\ log[intent[k].conv][n] = k
           /\ Upsert(intent[k].conv, {n}, n)
           /\ Clear(intent[k].conv, Confirmed(intent[k].conv, {n}))
           /\ PassOver(intent[k].conv, TRUE)
    /\ calls' = [calls EXCEPT ![k] = @ - 1]
    /\ NoBudget
    /\ UNCHANGED <<logVars, fetches, intent, hubVars, archiveVars>>

\* The request fails, or its answer is lost.
SendFails(k) ==
    /\ calls[k] > 0
    /\ Refused(intent[k].conv)
    /\ Save(intent[k].conv, k, "failed")
    /\ calls' = [calls EXCEPT ![k] = @ - 1]
    /\ UNCHANGED <<logVars, storeVars, fetches, intent, hubVars, archiveVars>>

\* localStorage comes to its quota, or has room again.
StorageTurns ==
    /\ full' = ~ full
    /\ NoBudget
    /\ UNCHANGED <<logVars, storeVars, fetches, intent, pending, volatile, lost, calls,
                   hubVars, archiveVars>>

-----------------------------------------------------------------------------
(* Archiving. *)

\* client.archive asks the server, which may come to it long after the page has
\* given up.
Archive(c) ==
    /\ c \notin archiving /\ ~ Archived(c)
    /\ Gesture
    /\ archival' = [archival EXCEPT ![c] = "asked"]
    /\ archiving' = archiving \union {c}
    /\ UNCHANGED <<logVars, storeVars, fetches, sendVars, hubVars>>

ArchiveCommits(c) ==
    /\ archival[c] = "asked"
    /\ archival' = [archival EXCEPT ![c] = "archived"]
    /\ NoBudget
    /\ UNCHANGED <<logVars, storeVars, fetches, sendVars, hubVars, archiving>>

\* store.removeConversation: the messages go, and all that is unsent.
ArchiveAnswered(c) ==
    /\ c \in archiving /\ Archived(c)
    /\ archiving' = archiving \ {c}
    /\ have' = [have EXCEPT ![c] = {}]
    /\ last' = [last EXCEPT ![c] = 0]
    /\ skipped' = [skipped EXCEPT ![c] = {}]
    /\ pending' = [k \in Keys |-> IF k \in Kept(c) THEN "none" ELSE pending[k]]
    /\ volatile' = volatile \ {c}
    /\ lost' = lost \union Kept(c)
    /\ NoBudget
    /\ UNCHANGED <<logVars, fetches, intent, full, calls, hubVars, archival>>

\* It is refused, or fails, or the answer is lost.
ArchiveFails(c) ==
    /\ c \in archiving
    /\ Fault
    /\ archiving' = archiving \ {c}
    /\ UNCHANGED <<logVars, storeVars, fetches, sendVars, hubVars, archival>>

-----------------------------------------------------------------------------
(* The connection and the groups. *)

Invoke(what, c) == Append(hub, <<what, c>>)

\* join: invoked at once on a connection, after start() without one. While
\* SignalR reconnects it fails, and nothing changes.
Join(c) ==
    /\ Gesture
    /\ \/ conn = "Connected" /\ hub' = Invoke("join", c) /\ UNCHANGED waiting
       \/ conn = "Disconnected" /\ waiting' = Append(waiting, c) /\ UNCHANGED hub
    /\ UNCHANGED <<logVars, storeVars, fetches, sendVars, conn, joined, rejoining, members, ghosts,
                   archiveVars>>

\* leave: cancelReconcile, then LeaveConversation if there is a connection.
Leave(c) ==
    /\ Gesture
    /\ fetches' = {f \in fetches : f.conv /= c \/ f.kind /= "reconcile"}
    /\ joined' = joined \ {c}
    /\ rejoining' = rejoining \ {c}
    /\ ghosts' = ghosts \ {c}
    /\ hub' = IF conn = "Connected" THEN Invoke("leave", c) ELSE hub
    /\ UNCHANGED <<logVars, storeVars, sendVars, conn, waiting, members, archiveVars>>

\* The server executes the next invocation and the client hears of it: a join
\* is entered in joinedConversations and followed by a reconcile, or refused.
HubExecutes ==
    /\ hub /= <<>>
    /\ hub' = Tail(hub)
    /\ LET c == Head(hub)[2] IN
       \/ /\ Head(hub)[1] = "join" /\ ~ Archived(c)
          /\ members' = members \union {c}
          /\ joined' = joined \union {c}
          /\ ghosts' = IF \E i \in DOMAIN Tail(hub) : Tail(hub)[i] = <<"leave", c>>
                       THEN ghosts \union {c} ELSE ghosts \ {c}
          /\ fetches' = fetches \union Reconciles({c})
       \/ /\ Head(hub)[1] = "join" /\ Archived(c)
          /\ UNCHANGED <<members, joined, ghosts, fetches>>
       \/ /\ Head(hub)[1] = "leave"
          /\ members' = members \ {c}
          /\ UNCHANGED <<joined, ghosts, fetches>>
    /\ NoBudget
    /\ UNCHANGED <<logVars, storeVars, sendVars, conn, rejoining, waiting, archiveVars>>

\* A start() after onclose that rejoins nothing, as onreconnected does.
ConnectAlone ==
    /\ conn /= "Connected"
    /\ conn' = "Connected"
    /\ rejoining' = IF conn = "Reconnecting" THEN joined ELSE {}
    /\ hub' = [i \in DOMAIN waiting |-> <<"join", waiting[i]>>]
    /\ waiting' = <<>>
    /\ NoBudget
    /\ UNCHANGED <<logVars, storeVars, fetches, sendVars, joined, members, ghosts, archiveVars>>

\* start() or an automatic reconnect succeeds: a new connection, in no group.
Connect ==
    /\ conn /= "Connected"
    /\ conn' = "Connected"
    /\ rejoining' = joined
    /\ hub' = [i \in DOMAIN waiting |-> <<"join", waiting[i]>>]
    /\ waiting' = <<>>
    /\ NoBudget
    /\ UNCHANGED <<logVars, storeVars, fetches, sendVars, joined, members, ghosts, archiveVars>>

\* start() fails, and with it the joins that wait; it is tried again.
StartFails ==
    /\ conn = "Disconnected"
    /\ Fault
    /\ waiting' = <<>>
    /\ UNCHANGED <<logVars, storeVars, fetches, sendVars, conn, joined, rejoining, hub, members,
                   ghosts, archiveVars>>

\* rejoinAuthorizedConversations, one conversation; a failure of any kind
\* takes it out of joinedConversations.
Rejoin(c) ==
    /\ c \in rejoining /\ ~ Archived(c)
    /\ rejoining' = rejoining \ {c}
    /\ members' = members \union {c}
    /\ ghosts' = ghosts \ {c}
    /\ fetches' = fetches \union Reconciles({c})
    /\ NoBudget
    /\ UNCHANGED <<logVars, storeVars, sendVars, conn, joined, waiting, hub, archiveVars>>

RejoinFails(c) ==
    /\ c \in rejoining
    /\ NoBudget
    /\ rejoining' = rejoining \ {c}
    /\ joined' = joined \ {c}
    /\ ghosts' = ghosts \ {c}
    /\ UNCHANGED <<logVars, storeVars, fetches, sendVars, conn, waiting, hub, members, archiveVars>>

\* The connection breaks: SignalR reconnects, or the server has closed it and
\* onclose schedules a start. What was invoked is rejected, and a rejoin under
\* way runs through the rest of its list and drops it.
Drop ==
    /\ conn = "Connected"
    /\ Fault
    /\ conn' \in {"Reconnecting", "Disconnected"}
    /\ hub' = <<>>
    /\ members' = {}
    /\ joined' = joined \ rejoining
    /\ ghosts' = ghosts \ rejoining
    /\ rejoining' = {}
    /\ UNCHANGED <<logVars, storeVars, fetches, sendVars, waiting, archiveVars>>

\* The page is loaded anew; localStorage stays, what is in memory does not.
Reload ==
    /\ Gesture
    /\ have' = [c \in Conversations |-> {}]
    /\ last' = [c \in Conversations |-> 0]
    /\ skipped' = [c \in Conversations |-> {}]
    /\ fetches' = {}
    /\ calls' = [k \in Keys |-> 0]
    /\ conn' = "Disconnected"
    /\ joined' = {} /\ rejoining' = {} /\ members' = {} /\ ghosts' = {}
    /\ waiting' = <<>> /\ hub' = <<>>
    /\ pending' = [k \in Keys |-> IF intent[k].conv \in volatile THEN "none" ELSE pending[k]]
    /\ lost' = lost \union UNION {Kept(c) : c \in volatile}
    /\ volatile' = {}
    /\ archiving' = {}
    /\ UNCHANGED <<logVars, intent, full, archival>>

-----------------------------------------------------------------------------
Next ==
    \/ \E f \in fetches : \/ \E length \in f.seen..Len(log[f.conv]) : FetchAnswered(f, length)
                          \/ FetchFails(f)
    \/ \E c \in Conversations : \/ \E n \in 1..Len(log[c]) : Receive(c, n)
                                \/ \E t \in Texts : Send(c, t)
                                \/ OtherWrites(c)
                                \/ Join(c) \/ Leave(c) \/ Rejoin(c) \/ RejoinFails(c)
                                \/ Archive(c) \/ ArchiveCommits(c)
                                \/ ArchiveAnswered(c) \/ ArchiveFails(c)
    \/ \E k \in Keys : Retry(k) \/ Commit(k) \/ SendAnswered(k) \/ SendFails(k)
    \/ Tick \/ HubExecutes \/ Connect \/ StartFails \/ Drop \/ Reload \/ StorageTurns

Spec == Init /\ [][Next]_vars

\* The timer of a visible page and requests that are answered in the end.
Fairness ==
    /\ WF_vars(Tick)
    /\ \A c \in Conversations :
           WF_vars(\E f \in fetches : /\ f.conv = c /\ f.kind = "reconcile"
                                      /\ \E length \in f.seen..Len(log[c]) : FetchAnswered(f, length))

FairSpec == Spec /\ Fairness

-----------------------------------------------------------------------------
(* Properties. *)

\* A message the store misses between two it has was passed over in one of
\* four known ways: the answer to the page's own send, a fetch that failed, a
\* fetch or a first page that does not reach (PageSize, MaxPages), or an event
\* older than everything in the store. Events in any order, reconciles, page
\* after page, and their overlap never lose one (client.js fetchAfter, ingest).
HolesAreExplained == \A c \in Conversations : HolesOf(have[c]) \subseteq skipped[c]

\* Until its message is in the log, a text the user sent is among the unsent
\* messages, where it can be retried, whatever fails, arrives late or is
\* reloaded, with three exceptions: localStorage refused it beside others that
\* are stored, it was in memory only when the page was reloaded, or its
\* conversation was archived (store.js savePending, clearPending and
\* removeConversation, client.js ingest and send).
UnsentIsKept ==
    \A k \in Keys : intent[k] /= NoIntent => pending[k] /= "none" \/ Sent(k) \/ k \in lost

\* A text is said once, however often the user repeats it because it looked
\* unsent, and whichever of the requests the server comes to (the reuse of the
\* client message id in client.js send), but for one the page had to forget.
SaidOnce ==
    \A c \in Conversations : \A m, n \in 1..Len(log[c]) :
        /\ log[c][m] /= Other /\ log[c][n] /= Other
        /\ intent[log[c][m]] = intent[log[c][n]]
        => m = n \/ log[c][m] \in lost \/ log[c][n] \in lost

\* A conversation the transport counts as joined is one the server sends: on
\* a connection, unless it is being rejoined or was left while its join was
\* under way (transport.js rejoinAuthorizedConversations, leave).
JoinedIsMember ==
    conn = "Connected" => \A c \in joined : c \in members \union rejoining \union ghosts

\* As long as it is joined and not archived, the store of a conversation catches
\* up with the server, though every event may be lost (client.js reconcile and its timer).
JoinedCatchesUp ==
    \A c \in Conversations : []<>(c \in joined /\ ~ Archived(c) => last[c] = Len(log[c]))
=============================================================================
