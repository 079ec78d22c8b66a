------------------------------ MODULE AdminChat ------------------------------
(***************************************************************************)
(* The chats page of the admin console (admin-chat.js, admin-signalR.js):  *)
(* the lists of conversations, which depend on the client that is chosen,  *)
(* and the panel with the one that is open.                                *)
(*                                                                         *)
(* Opening takes four awaits: the old conversation is left, the new one is *)
(* joined, loaded and marked as read.  The page numbers what it opens and  *)
(* the lists it asks for, and looks at the number after an await; a send   *)
(* and an archive look at nothing, and go on with whatever is open then.   *)
(* The console has no Retry and no unsent rows: what could not be sent     *)
(* stays in the input.                                                     *)
(***************************************************************************)
EXTENDS Integers, FiniteSets, ConsoleBudget

CONSTANTS
    Tenants, NoTenant, \* what the switcher offers: "All clients" is none
    Conversations, Nowhere,
    Texts, NoText,
    MaxMessages        \* bound: messages written, in all conversations

ASSUME ChatAssumption ==
    /\ IsFiniteSet(Conversations) /\ Nowhere \notin Conversations
    /\ NoText \notin Texts
    /\ MaxMessages \in Nat

VARIABLES
    tenant, active,    \* AdminCore's currentClientId; is this the page that is shown
    asked, lists,      \* initializeChatsPage under way, and what the lists show
    groups,            \* createAndOpenGroup under way: the client it is for
    listed, access,    \* conversations in the lists; the server: those of the admin
    context,           \* mainChatContext, or Nowhere
    opens,             \* openConversationItem under way
    leaving,           \* disableAndRefreshActive waits for the hub
    archiving,         \* archivePrivateConversation under way
    rows,              \* chat-panel-body: its messages, and what else it says
    notice,
    stored, own,       \* messages in the store; those of this admin
    input, draft,      \* message-input, and the drafts in the store
    pending,           \* unsent messages in the store
    sends, isSending,
    misplaced,         \* history: own messages shown where something else was open
    typed, given,      \* history: texts typed; delivered, replaced or archived
    swallowed          \* history: texts taken for one that was sent elsewhere

listVars == <<tenant, active, asked, lists, groups, listed, access>>
openVars == <<context, opens, leaving, archiving>>
panelVars == <<rows, notice, misplaced>>
storeVars == <<stored, own>>
textVars == <<input, draft, pending, sends, isSending, typed, given, swallowed>>
chatVars == <<listVars, openVars, panelVars, storeVars, textVars>>

Values == Texts \union {NoText}
Choices == Tenants \union {NoTenant}
Rows == Conversations \X (1..MaxMessages)

ChatTypeOK ==
    /\ tenant \in Choices /\ active \in BOOLEAN
    /\ asked \subseteq [of: Choices, latest: BOOLEAN, group: BOOLEAN]
    /\ lists \in [kind: {"loading", "shown", "error"}, of: Choices, group: BOOLEAN]
    /\ groups \subseteq Tenants
    /\ listed \subseteq Conversations /\ access \subseteq Conversations
    /\ context \in Conversations \union {Nowhere}
    /\ opens \subseteq [conv: Conversations, at: {"leave", "join", "load"},
                        latest: BOOLEAN, aborted: BOOLEAN]
    /\ leaving \in BOOLEAN
    /\ archiving \in [conv: Conversations \union {Nowhere}, at: {"none", "sent", "done", "refused"}]
    /\ rows \subseteq Rows /\ misplaced \subseteq Rows /\ own \subseteq Rows
    /\ notice \in {"idle", "loading", "loaded", "patched", "empty", "error", "gone"}
    /\ stored \in [Conversations -> 0..MaxMessages]
    /\ input \in Values /\ draft \in [Conversations -> Values]
    /\ pending \subseteq Conversations \X Texts
    /\ sends \subseteq [conv: Conversations, text: Texts, number: 0..MaxMessages]
    /\ isSending \in BOOLEAN
    /\ typed \subseteq Conversations \X Texts /\ given \subseteq Conversations \X Texts
    /\ swallowed \subseteq Conversations \X Texts

\* The bound on messages.
RoomLeft == Cardinality({row \in Rows : row[2] <= stored[row[1]]}) < MaxMessages

NoArchive == [conv |-> Nowhere, at |-> "none"]

ChatInit ==
    /\ tenant = NoTenant /\ active = TRUE
    /\ asked = {[of |-> NoTenant, latest |-> TRUE, group |-> FALSE]}
    /\ lists = [kind |-> "loading", of |-> NoTenant, group |-> FALSE]
    /\ groups = {} /\ listed = {} /\ access = Conversations
    /\ context = Nowhere /\ opens = {} /\ leaving = FALSE /\ archiving = NoArchive
    /\ rows = {} /\ notice = "idle" /\ misplaced = {}
    /\ stored = [c \in Conversations |-> 0] /\ own = {}
    /\ input = NoText /\ draft = [c \in Conversations |-> NoText]
    /\ pending = {} /\ sends = {} /\ isSending = FALSE
    /\ typed = {} /\ given = {} /\ swallowed = {}

-----------------------------------------------------------------------------
(* The lists. *)

\* initializeChatsPage up to its await; `group` after createAndOpenGroup.
AskForLists(t, group) ==
    /\ asked' = {[r EXCEPT !.latest = FALSE] : r \in asked}
                \union {[of |-> t, latest |-> TRUE, group |-> group]}
    /\ lists' = [kind |-> "loading", of |-> t, group |-> group]
    /\ listed' = {}

OnlyLists == UNCHANGED <<openVars, panelVars, storeVars, textVars>>

\* An answer that is rendered though another was asked for since.
AnyList(r) == TRUE

\* requestId === listRequest.
LatestList(r) == r.latest

\* renderV2Lists, or showListError; conversationById is cleared first.
ListEnds(r, kind) ==
    /\ asked' = asked \ {r}
    /\ IF LatestList(r)
       THEN /\ lists' = [kind |-> kind, of |-> r.of, group |-> r.group]
            /\ listed' = IF kind = "shown" THEN access ELSE {}
       ELSE UNCHANGED <<lists, listed>>
    /\ UNCHANGED <<tenant, active, groups, access>>
    /\ OnlyLists

ListsAnswered(r) == ListEnds(r, "shown") /\ Free
ListsFail(r) == ListEnds(r, "error") /\ Loss

\* The refresh button, a connection, an event, the page itself, a private chat.
Refresh ==
    /\ AskForLists(tenant, FALSE)
    /\ Free
    /\ UNCHANGED <<tenant, active, groups, access>>
    /\ OnlyLists

\* The switcher of any page, selectConversationTenant. The lists are reloaded on
\* this page only.
SwitchTenant(t) ==
    /\ t /= tenant
    /\ Click
    /\ tenant' = t
    /\ IF active THEN AskForLists(t, FALSE) ELSE UNCHANGED <<asked, lists, listed>>
    /\ UNCHANGED <<active, groups, access>>
    /\ OnlyLists

\* Another page of the console is shown; what is open here stays open.
LeavePage ==
    /\ active
    /\ Click
    /\ active' = FALSE
    /\ UNCHANGED <<tenant, asked, lists, listed, groups, access>>
    /\ OnlyLists

\* The link to the chats page, navigateToChatsPage.
ShowPage ==
    /\ ~ active
    /\ Click
    /\ active' = TRUE
    /\ AskForLists(tenant, FALSE)
    /\ UNCHANGED <<tenant, groups, access>>
    /\ OnlyLists

CreateGroup ==
    /\ active /\ tenant /= NoTenant /\ tenant \notin groups
    /\ Click
    /\ groups' = groups \union {tenant}
    /\ UNCHANGED <<tenant, active, asked, lists, listed, access>>
    /\ OnlyLists

\* It asks for the lists of the client it was clicked for.
GroupCreated(t) ==
    /\ groups' = groups \ {t}
    /\ AskForLists(t, TRUE)
    /\ Free
    /\ UNCHANGED <<tenant, active, access>>
    /\ OnlyLists

GroupFails(t) ==
    /\ Loss
    /\ groups' = groups \ {t}
    /\ UNCHANGED <<tenant, active, asked, lists, listed, access>>
    /\ OnlyLists

-----------------------------------------------------------------------------
(* Opening and closing. *)

\* openRequest is raised, and cancelReconcile of what is open.
Overtaken ==
    {[o EXCEPT !.latest = FALSE, !.aborted = @ \/ (o.at = "load" /\ o.conv = context)] : o \in opens}

\* saveCurrentDraft, and one that is called when the context has changed.
SavedForNext(c) == IF context = Nowhere THEN draft ELSE [draft EXCEPT ![c] = input]
SavedDraft(c) == IF context = Nowhere THEN draft ELSE [draft EXCEPT ![context] = input]

\* A click on an item of the lists, or openChatConversation after it has reloaded
\* them; up to the await of the leave.
Open(c) ==
    /\ c \in listed /\ c /= context
    /\ Click
    /\ draft' = SavedDraft(c)
    /\ opens' = Overtaken \union {[conv |-> c, at |-> "leave", latest |-> TRUE, aborted |-> FALSE]}
    /\ UNCHANGED <<listVars, context, leaving, archiving, panelVars, storeVars>>
    /\ UNCHANGED <<input, pending, sends, isSending, typed, given, swallowed>>

\* A continuation that does not look at its number.
AnyOpen(o) == TRUE

\* requestId === openRequest.
StillWanted(o) == o.latest

GoesTo(o, at) == opens' = (opens \ {o}) \union {[o EXCEPT !.at = at]}

\* The hub has left, or could not. What the panel shows stays until the new
\* conversation is joined.
Left(o) ==
    /\ o.at = "leave"
    /\ IF StillWanted(o)
       THEN context' = o.conv /\ input' = draft[o.conv] /\ GoesTo(o, "join")
       ELSE opens' = opens \ {o} /\ UNCHANGED <<context, input>>
    /\ Free
    /\ UNCHANGED <<listVars, leaving, archiving, panelVars, storeVars>>
    /\ UNCHANGED <<draft, pending, sends, isSending, typed, given, swallowed>>

Joined(o) ==
    /\ o.at = "join" /\ o.conv \in access
    /\ IF StillWanted(o)
       THEN GoesTo(o, "load") /\ notice' = "loading" /\ rows' = {}
       ELSE opens' = opens \ {o} /\ UNCHANGED <<notice, rows>>
    /\ Free
    /\ UNCHANGED <<listVars, context, leaving, archiving, misplaced, storeVars, textVars>>

OpenFails(o) ==
    /\ o.at \in {"join", "load"}
    /\ IF o.aborted \/ o.conv \notin access THEN Free ELSE Loss
    /\ opens' = opens \ {o}
    /\ IF StillWanted(o) /\ ~ o.aborted
       THEN notice' = "error" /\ rows' = {} ELSE UNCHANGED <<notice, rows>>
    /\ UNCHANGED <<listVars, context, leaving, archiving, misplaced, storeVars, textVars>>

StoredRows(c) == {<<c, n>> : n \in 1..stored[c]}

\* loadAdminChatMessages has its answer, from the store.
Loaded(o) ==
    /\ o.at = "load" /\ ~ o.aborted
    /\ opens' = opens \ {o}
    /\ IF context = o.conv
       THEN rows' = StoredRows(o.conv) /\ notice' = IF stored[o.conv] = 0 THEN "empty" ELSE "loaded"
       ELSE UNCHANGED <<rows, notice>>
    /\ Free
    /\ UNCHANGED <<listVars, context, leaving, archiving, misplaced, storeVars, textVars>>

\* disableAndRefreshActive, of whatever is open, up to the await of the leave.
\* The input keeps its text, and is disabled.
Disable ==
    /\ opens' = Overtaken
    /\ context' = Nowhere
    /\ isSending' = FALSE
    /\ rows' = {} /\ notice' = "gone"
    /\ leaving' = TRUE

LeftForGood ==
    /\ leaving
    /\ leaving' = FALSE
    /\ AskForLists(tenant, FALSE)
    /\ Free
    /\ UNCHANGED <<tenant, active, groups, access, context, opens, archiving, panelVars, storeVars, textVars>>

\* Another admin archives a conversation or hands it over, or takes it.
TakenAway(c) ==
    /\ c \in access
    /\ Click
    /\ access' = access \ {c}
    /\ UNCHANGED <<tenant, active, asked, lists, groups, listed>>
    /\ OnlyLists

\* ConversationChanged says so, any number of times.
HearsOf(c) ==
    /\ c \notin access
    /\ IF context = c
       THEN Disable /\ UNCHANGED <<asked, lists, listed>>
       ELSE AskForLists(tenant, FALSE) /\ UNCHANGED <<opens, context, isSending, rows, notice, leaving>>
    /\ Free
    /\ UNCHANGED <<tenant, active, groups, access, archiving, misplaced, storeVars>>
    /\ UNCHANGED <<input, draft, pending, sends, typed, given, swallowed>>

\* archivePrivateConversation, and transferPrivateConversation.
Archive ==
    /\ active /\ context /= Nowhere /\ archiving = NoArchive
    /\ Click
    /\ archiving' = [conv |-> context, at |-> "sent"]
    /\ UNCHANGED <<listVars, context, opens, leaving, panelVars, storeVars, textVars>>

\* The server does it, or has a later version of it.
ArchiveServed ==
    /\ archiving.at = "sent"
    /\ \/ /\ archiving.conv \in access
          /\ access' = access \ {archiving.conv}
          /\ archiving' = [archiving EXCEPT !.at = "done"]
       \/ /\ archiving' = [archiving EXCEPT !.at = "refused"]
          /\ UNCHANGED access
    /\ Free
    /\ UNCHANGED <<tenant, active, asked, lists, groups, listed, context, opens, leaving>>
    /\ UNCHANGED <<panelVars, storeVars, textVars>>

\* removeConversation of the store. (Its messages go as well, and would be
\* loaded again if it could be opened.)
Removed(c) ==
    /\ draft' = [draft EXCEPT ![c] = NoText]
    /\ pending' = {v \in pending : v[1] /= c}
    /\ given' = given \union {v \in typed : v[1] = c}

\* It closes what is open now, and an archived conversation leaves the store; a
\* conflict reloads the lists.
ArchiveAnswered ==
    /\ archiving.at \in {"done", "refused"}
    /\ archiving' = NoArchive
    /\ IF archiving.at = "done"
       THEN /\ Disable
            /\ Removed(archiving.conv) \/ UNCHANGED <<draft, pending, given>>
            /\ UNCHANGED <<asked, lists, listed>>
       ELSE /\ AskForLists(tenant, FALSE)
            /\ UNCHANGED <<opens, context, isSending, rows, notice, leaving, draft, pending, given>>
    /\ Free
    /\ UNCHANGED <<tenant, active, groups, access, misplaced, storeVars>>
    /\ UNCHANGED <<input, sends, typed, swallowed>>

ArchiveFails ==
    /\ archiving /= NoArchive
    /\ Loss
    /\ archiving' = NoArchive
    /\ UNCHANGED <<listVars, context, opens, leaving, panelVars, storeVars, textVars>>

-----------------------------------------------------------------------------
(* Messages. *)

\* displayMainChatMessage, which removes a notice.
Display(R) ==
    /\ rows' = rows \union R
    /\ notice' = IF notice = "loaded" THEN notice ELSE "patched"

\* handleIncomingMessage of somebody else's. One that is in no list has the
\* lists reloaded.
Incoming(c) ==
    /\ RoomLeft
    /\ stored' = [stored EXCEPT ![c] = @ + 1]
    /\ IF context = c THEN Display({<<c, stored[c] + 1>>}) ELSE UNCHANGED <<rows, notice>>
    /\ IF context = c \/ c \in listed THEN UNCHANGED <<asked, lists, listed>>
       ELSE AskForLists(tenant, FALSE)
    /\ Free
    /\ UNCHANGED <<tenant, active, groups, access, openVars, misplaced, own, textVars>>

\* handleMessageInput.
TypeText(t) ==
    /\ active /\ context /= Nowhere /\ ~ isSending
    /\ t /= input
    /\ Click
    /\ input' = t
    /\ draft' = [draft EXCEPT ![context] = t]
    /\ typed' = typed \union {<<context, t>>}
    /\ given' = (given \union ({<<context, input>>} \ {<<context, NoText>>})) \ {<<context, t>>}
    /\ swallowed' = swallowed \ {<<context, t>>}
    /\ UNCHANGED <<listVars, openVars, panelVars, storeVars, pending, sends, isSending>>

\* sendMainChatMessage up to its request.
SendMessage ==
    /\ active /\ context /= Nowhere /\ ~ isSending /\ input /= NoText
    /\ Click
    /\ isSending' = TRUE
    /\ draft' = [draft EXCEPT ![context] = input]
    /\ pending' = pending \union {<<context, input>>}
    /\ sends' = sends \union {[conv |-> context, text |-> input, number |-> 0]}
    /\ UNCHANGED <<listVars, openVars, panelVars, storeVars, input, typed, given, swallowed>>

\* The message is in the store: its entry is gone, and the draft that says it.
Ingested(m) ==
    /\ pending' = pending \ {<<m.conv, m.text>>}
    /\ draft' = [draft EXCEPT ![m.conv] = IF @ = m.text THEN NoText ELSE @]
    /\ given' = given \union {<<m.conv, m.text>>}
    /\ IF m.number > 0 THEN UNCHANGED storeVars
       ELSE /\ RoomLeft
            /\ stored' = [stored EXCEPT ![m.conv] = @ + 1]
            /\ own' = own \union {<<m.conv, stored'[m.conv]>>}

\* The hub is faster than the answer; the admin's own message is not shown.
Overtakes(m) ==
    /\ m.number = 0
    /\ Ingested(m)
    /\ sends' = (sends \ {m}) \union {[m EXCEPT !.number = stored'[m.conv]]}
    /\ Free
    /\ UNCHANGED <<listVars, openVars, panelVars, input, isSending, typed, swallowed>>

\* The answer: the message goes to the panel, whatever is open.
MessageSent(m) ==
    LET row == <<m.conv, IF m.number > 0 THEN m.number ELSE stored[m.conv] + 1>> IN
    /\ Ingested(m)
    /\ input' = IF input = m.text THEN NoText ELSE input
    /\ swallowed' = IF context \notin {m.conv, Nowhere} /\ input = m.text
                    THEN swallowed \union {<<context, input>>} ELSE swallowed
    /\ Display({row})
    /\ misplaced' = IF context = m.conv THEN misplaced ELSE misplaced \union {row}
    /\ sends' = sends \ {m}
    /\ isSending' = FALSE
    /\ IF m.number > 0 \/ context = m.conv \/ m.conv \in listed
       THEN UNCHANGED <<asked, lists, listed>>
       ELSE AskForLists(tenant, FALSE)
    /\ Free
    /\ UNCHANGED <<tenant, active, groups, access, openVars, typed>>

\* The input keeps its text.
SendFails(m) ==
    /\ Loss
    /\ pending' = pending \union {<<m.conv, m.text>>}
    /\ sends' = sends \ {m}
    /\ isSending' = FALSE
    /\ UNCHANGED <<listVars, openVars, panelVars, storeVars, input, draft, typed, given, swallowed>>

-----------------------------------------------------------------------------
ChatNext ==
    \/ \E r \in asked : ListsAnswered(r) \/ ListsFail(r)
    \/ \E t \in Choices : SwitchTenant(t)
    \/ \E t \in groups : GroupCreated(t) \/ GroupFails(t)
    \/ \E c \in Conversations : Open(c) \/ TakenAway(c) \/ HearsOf(c) \/ Incoming(c)
    \/ \E o \in opens : Left(o) \/ Joined(o) \/ OpenFails(o) \/ Loaded(o)
    \/ \E t \in Texts : TypeText(t)
    \/ \E m \in sends : Overtakes(m) \/ MessageSent(m) \/ SendFails(m)
    \/ Refresh \/ LeavePage \/ ShowPage \/ CreateGroup \/ LeftForGood \/ SendMessage
    \/ Archive \/ ArchiveServed \/ ArchiveAnswered \/ ArchiveFails

\* The rest of the console may use the budget as well.
ChatSpec == ChatInit /\ [][ChatNext]_chatVars

-----------------------------------------------------------------------------
\* A panel that was loaded shows the conversation that is open, all that others
\* wrote in it, and nothing of another one: clicks that overtake one another,
\* late loads, messages and removals included. Two exceptions: while another
\* one is being opened the panel may still be the old one, and an own message
\* whose answer is late is shown where the admin is by then
\* (openConversationItem, sendMainChatMessage).
PanelIsOwn ==
    notice = "loaded" /\ (\A o \in opens : ~ o.latest) =>
        /\ \A row \in rows : row[1] = context \/ row \in misplaced
        /\ \A row \in StoredRows(context) : row \in rows \union own

\* When the page is shown and nothing is loading, the lists are those of the
\* client that is chosen, or say that they could not be loaded, wherever in the
\* console it was chosen; the exception is a group that was created for a client
\* that is no longer chosen (listRequest).
ListsFollowTenant ==
    (\A r \in asked : ~ r.latest) =>
        lists.kind /= "loading" /\ (active => lists.of = tenant \/ lists.group)

\* What the admin typed is in the input, in the draft of its conversation, or
\* among the unsent messages, until it is delivered, replaced or archived with
\* its conversation, and it is in no other one's input or draft: whatever is opened, closed or
\* answered while it waits. The exception is a text that says the same as one
\* sent elsewhere whose answer was late (sendMainChatMessage compares texts,
\* not conversations).
TypedIsKept ==
    /\ \A v \in typed :
           \/ context = v[1] /\ input = v[2]
           \/ draft[v[1]] = v[2]
           \/ v \in pending \union given \union swallowed
    /\ context /= Nowhere /\ input /= NoText => <<context, input>> \in typed
    /\ \A c \in Conversations : draft[c] /= NoText => <<c, draft[c]>> \in typed
=============================================================================
