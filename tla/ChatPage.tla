------------------------------ MODULE ChatPage ------------------------------
(***************************************************************************)
(* The chat page of a client (chat.js): the list of conversations, the     *)
(* panel with the messages of one of them, the input, what is being sent   *)
(* and the files that go with it (AttachmentComposer).                     *)
(*                                                                         *)
(* Every handler runs to its next await, and goes on when its request is   *)
(* answered; by then the user may have opened another conversation, sent   *)
(* something else, or lost access to the one shown.  How messages get into *)
(* the store is MessagingClient; here one just Arrives.                    *)
(*                                                                         *)
(* A text is a pair of the conversation it was typed for and what it says. *)
(***************************************************************************)
EXTENDS AttachmentComposer

CONSTANTS
    Texts, NoText,
    MaxMessages,   \* bound: messages of a conversation
    MaxGestures,   \* bound: what the user does
    MaxFaults,     \* bound: requests that fail
    MaxLists       \* bound: requests for the list that are under way

ASSUME TextsAssumption == NoText \notin Conversations \X Texts
ASSUME MessagesAssumption == MaxMessages \in Nat

VARIABLES
    joining,       \* the open that chatSwitchRequest still stands for
    loads,         \* loadMessagesForConversation under way
    panel,         \* what chatPanelBody shows
    stored,        \* messages in the store
    input, draft,  \* messageInput.value, and the drafts in the store
    pending,       \* unsent messages in the store
    sends,         \* sendMessage under way
    isSendingMessage,
    conversationsById,
    access,        \* the server: conversations of the user
    lists,         \* loadConversations under way
    typed, given,  \* history: texts that were typed; given up or delivered
    strays,        \* history: files in the list when their conversation was removed
    gestures, faults

pageVars == <<joining, loads, panel, stored>>
textVars == <<input, draft, pending, sends, isSendingMessage, typed, given>>
listVars == <<conversationsById, access, lists, strays>>
vars == <<current, composerVars, pageVars, textVars, listVars, gestures, faults>>

Values == (Conversations \X Texts) \union {NoText}
Message == [conv: Conversations, text: Values, files: SUBSET Uploads]
Entry == [conv: Conversations, text: Values, files: SUBSET Uploads, state: {"pending", "failed"}]

\* A panel of kind "messages" was filled by a load that found some; one that
\* renderPendingMessage has emptied for the row of a new message is "patched".
Panel == [kind: {"idle", "loading", "messages", "patched", "empty", "unopened", "unloaded", "removed"},
          of: Conversations \union {Nowhere},
          rows: SUBSET (Conversations \X (1..MaxMessages)), unsent: SUBSET Entry]

TypeOK ==
    /\ current \in Conversations \union {Nowhere}
    /\ ComposerTypeOK
    /\ joining \in Conversations \union {Nowhere}
    /\ loads \subseteq [conv: Conversations, aborted: BOOLEAN]
    /\ panel \in Panel
    /\ stored \in [Conversations -> 0..MaxMessages]
    /\ input \in Values
    /\ draft \in [Conversations -> Values]
    /\ pending \subseteq Entry
    /\ sends \subseteq Message
    /\ isSendingMessage \in BOOLEAN
    /\ conversationsById \subseteq Conversations /\ access \subseteq Conversations
    /\ lists \subseteq [found: SUBSET Conversations, about: Conversations \union {Nowhere}]
    /\ typed \subseteq Values /\ given \subseteq Values
    /\ strays \subseteq Files
    /\ gestures \in Nat /\ faults \in Nat

State(kind, c) == [kind |-> kind, of |-> c, rows |-> {}, unsent |-> {}]

Init ==
    /\ current = Nowhere
    /\ ComposerInit
    /\ joining = Nowhere /\ loads = {}
    /\ panel = State("idle", Nowhere)
    /\ stored = [c \in Conversations |-> 0]
    /\ input = NoText
    /\ draft = [c \in Conversations |-> NoText]
    /\ pending = {} /\ sends = {} /\ isSendingMessage = FALSE
    /\ conversationsById = Conversations /\ access = Conversations /\ lists = {}
    /\ typed = {} /\ given = {} /\ strays = {}
    /\ gestures = 0 /\ faults = 0

Gesture == gestures < MaxGestures /\ gestures' = gestures + 1 /\ UNCHANGED faults
Fault == faults < MaxFaults /\ faults' = faults + 1 /\ UNCHANGED gestures
NoBudget == UNCHANGED <<gestures, faults>>

-----------------------------------------------------------------------------
(* Opening a conversation. *)

Abort(c) == {[l EXCEPT !.aborted = @ \/ l.conv = c] : l \in loads}

\* What resetForConversation takes away; a variant that keeps what is ready.
UnreadyItems == {f \in Listed : items[f].status /= "Ready"}
AbandonedItems == Listed

\* switchChatContext, up to its await. Without a conversation before it there
\* is nothing to save, to abort or to take away.
SwitchChatContext(c) ==
    /\ c /= current
    /\ current' = c
    /\ IF current = Nowhere
       THEN UNCHANGED <<draft, loads, composerVars>>
       ELSE /\ draft' = [draft EXCEPT ![current] = input]
            /\ loads' = Abort(current)
            /\ Cancel(AbandonedItems)
    /\ input' = draft[c]
    /\ panel' = State("loading", c)
    /\ joining' = c
    /\ UNCHANGED <<stored, pending, sends, isSendingMessage, typed, given, listVars>>

\* An item of the list, of a table, of a notification.
Open(c) == Gesture /\ SwitchChatContext(c)

Load(c) ==
    /\ loads' = loads \union {[conv |-> c, aborted |-> FALSE]}
    /\ panel' = State("loading", c)

JoinAnswered ==
    /\ joining /= Nowhere
    /\ joining' = Nowhere
    /\ Load(joining)
    /\ NoBudget
    /\ UNCHANGED <<current, composerVars, stored, textVars, listVars>>

\* The Retry it offers calls switchChatContext for the conversation that is
\* open already, which does nothing.
JoinFails ==
    /\ joining /= Nowhere
    /\ Fault
    /\ joining' = Nowhere
    /\ panel' = State("unopened", joining)
    /\ UNCHANGED <<current, composerVars, loads, stored, textVars, listVars>>

Unsent(c) == {e \in pending : e.conv = c}
Stored(c) == {<<c, n>> : n \in 1..stored[c]}

\* A load that shows what it has found, whatever is open now.
AlwaysShown(c) == TRUE

StillOpen(c) == current = c

LoadAnswered(l) ==
    /\ ~ l.aborted
    /\ loads' = loads \ {l}
    /\ panel' = IF ~ StillOpen(l.conv) THEN panel
                ELSE [kind |-> IF Stored(l.conv) = {} /\ Unsent(l.conv) = {} THEN "empty" ELSE "messages",
                      of |-> l.conv, rows |-> Stored(l.conv), unsent |-> Unsent(l.conv)]
    /\ NoBudget
    /\ UNCHANGED <<current, composerVars, joining, stored, textVars, listVars>>

\* The error goes to the panel, whatever is open now.
LoadFails(l) ==
    /\ IF l.aborted THEN NoBudget ELSE Fault
    /\ loads' = loads \ {l}
    /\ panel' = State("unloaded", l.conv)
    /\ UNCHANGED <<current, composerVars, joining, stored, textVars, listVars>>

RetryLoad ==
    /\ panel.kind = "unloaded"
    /\ Gesture
    /\ Load(panel.of)
    /\ UNCHANGED <<current, composerVars, joining, stored, textVars, listVars>>

-----------------------------------------------------------------------------
(* Messages. *)

\* displayMessage of a message that is new in the store.
Displayed(c) ==
    IF current = c THEN [panel EXCEPT !.rows = @ \union {<<c, stored[c] + 1>>}] ELSE panel

Arrives(c) ==
    /\ stored[c] < MaxMessages
    /\ stored' = [stored EXCEPT ![c] = @ + 1]
    /\ panel' = Displayed(c)
    /\ NoBudget
    /\ UNCHANGED <<current, composerVars, joining, loads, textVars, listVars>>

\* The input is disabled while something is sent.
InputIsEnabled == current /= Nowhere /\ ~ isSendingMessage

Type(t) ==
    /\ InputIsEnabled
    /\ <<current, t>> /= input
    /\ Gesture
    /\ input' = <<current, t>>
    /\ draft' = [draft EXCEPT ![current] = <<current, t>>]
    /\ typed' = typed \union {<<current, t>>}
    /\ given' = (given \union ({input} \ {NoText})) \ {<<current, t>>}
    /\ UNCHANGED <<current, composerVars, pageVars, pending, sends, isSendingMessage, listVars>>

Row(m, state) == [conv |-> m.conv, text |-> m.text, files |-> m.files, state |-> state]
RowsOf(m) == {Row(m, "pending"), Row(m, "failed")}

\* renderPendingMessage: it empties a panel that has a notice in it.
Rendered(m, state) ==
    IF current /= m.conv THEN panel
    ELSE IF panel.kind \in {"messages", "patched"} \/ panel.unsent \intersect RowsOf(m) /= {}
         THEN [panel EXCEPT !.unsent = (@ \ RowsOf(m)) \union {Row(m, state)}]
         ELSE [kind |-> "patched", of |-> m.conv, rows |-> {}, unsent |-> {Row(m, state)}]

\* messaging.send up to its request.
Post(m) ==
    /\ draft' = [draft EXCEPT ![m.conv] = m.text]
    /\ pending' = (pending \ RowsOf(m)) \union {Row(m, "pending")}
    /\ panel' = Rendered(m, "pending")
    /\ sends' = sends \union {m}
    /\ isSendingMessage' = TRUE
    /\ UNCHANGED <<current, composerVars, joining, loads, stored, typed, given, listVars>>

Send ==
    /\ InputIsEnabled
    /\ input /= NoText \/ ReadyIds /= {}
    /\ Gesture
    /\ input' = NoText
    /\ Post([conv |-> current, text |-> input, files |-> ReadyIds])

\* The Retry of a row. It does not look at isSendingMessage.
RetrySend ==
    \E e \in panel.unsent :
        /\ e.state = "failed"
        /\ e \in pending
        /\ Gesture
        /\ UNCHANGED input
        /\ Post([conv |-> e.conv, text |-> e.text, files |-> e.files])

\* The draft that says the same is cleared, typed again since then or not.
Delivered(m) ==
    /\ draft' = [draft EXCEPT ![m.conv] = IF @ = m.text THEN NoText ELSE @]
    /\ given' = given \union ({m.text} \ {NoText})

\* ingest of a message of the page's own: it is in the store, its entry and
\* its draft are not.
Ingest(m) ==
    /\ stored[m.conv] < MaxMessages
    /\ stored' = [stored EXCEPT ![m.conv] = @ + 1]
    /\ pending' = pending \ RowsOf(m)
    /\ panel' = [Displayed(m.conv) EXCEPT !.unsent = @ \ RowsOf(m)]
    /\ Delivered(m)

\* The event of the hub is here before the answer to the request.
EventOvertakes(m) ==
    /\ pending \intersect RowsOf(m) /= {}
    /\ Ingest(m)
    /\ NoBudget
    /\ UNCHANGED <<current, composerVars, joining, loads, input, sends, isSendingMessage, typed, listVars>>

\* An answer that was overtaken finds no entry, and looks at the draft again.
SendAnswered(m) ==
    /\ IF pending \intersect RowsOf(m) /= {} THEN Ingest(m)
       ELSE Delivered(m) /\ UNCHANGED <<stored, pending, panel>>
    /\ sends' = sends \ {m}
    /\ isSendingMessage' = FALSE
    /\ ClearBound(m.files)
    /\ NoBudget
    /\ UNCHANGED <<current, joining, loads, input, typed, listVars>>

\* A failure that puts the text back into whatever input is on the page, and
\* one that forgets the entry.
RestoredAnywhere(m) == input = NoText
ForgetsEntry(m) == pending \ RowsOf(m)

RestoredHere(m) == input = NoText /\ current = m.conv
KeptEntry(m) == (pending \ RowsOf(m)) \union {Row(m, "failed")}

SendFails(m) ==
    /\ Fault
    /\ pending' = KeptEntry(m)
    /\ panel' = Rendered(m, "failed")
    /\ input' = IF ~ RestoredHere(m) THEN input
                ELSE IF draft[m.conv] /= NoText THEN draft[m.conv] ELSE m.text
    /\ sends' = sends \ {m}
    /\ isSendingMessage' = FALSE
    /\ UNCHANGED <<current, composerVars, joining, loads, stored, draft, typed, given, listVars>>

-----------------------------------------------------------------------------
(* The list, and the loss of a conversation. *)

AskForList(found, about) ==
    /\ Cardinality(lists) < MaxLists
    /\ lists' = lists \union {[found |-> found, about |-> about]}

\* A reconnect, a case that was created, a private conversation that is opened.
LoadConversations ==
    /\ AskForList(access, Nowhere)
    /\ Gesture
    /\ UNCHANGED <<current, composerVars, pageVars, textVars, conversationsById, access, strays>>

\* An admin archives conversation c or hands it over, and the page hears of it
\* (ConversationChanged).
Revoked(c) ==
    /\ c \in access
    /\ access' = access \ {c}
    /\ AskForList(access \ {c}, c)
    /\ Gesture
    /\ UNCHANGED <<current, composerVars, pageVars, textVars, conversationsById, strays>>

RenderConversationList(found) == conversationsById' = found

\* The list in the order of the answers, and the end of the
\* handler of conversationchanged, which goes on after an error too.
ListAnswered(r) ==
    \E fails \in BOOLEAN :
        /\ IF fails THEN Fault /\ UNCHANGED conversationsById
           ELSE NoBudget /\ RenderConversationList(r.found)
        /\ lists' = lists \ {r}
        /\ IF r.about = current /\ current /= Nowhere /\ r.about \notin conversationsById'
           THEN /\ current' = Nowhere
                /\ joining' = Nowhere
                /\ loads' = Abort(current)
                /\ panel' = State("removed", Nowhere)
                /\ given' = given \union ({input} \ {NoText})
                /\ strays' = strays \union Listed
           ELSE UNCHANGED <<current, joining, loads, panel, given, strays>>
        /\ UNCHANGED <<composerVars, stored, input, draft, pending, sends, isSendingMessage, typed, access>>

-----------------------------------------------------------------------------
(* The composer on this page. *)

PageAsIs == UNCHANGED <<current, pageVars, textVars, listVars>>

\* The mobile back button, and pagehide.
Back == Cancel(Listed) /\ Gesture /\ Listed /= {} /\ PageAsIs

ComposerGesture ==
    /\ \E f \in Files : AddFile(f) \/ CancelItem(f) \/ Remove(f) \/ Retry(f) \/ CheckStatus(f)
    /\ Gesture
    /\ PageAsIs

ComposerGoesOn == ComposerStep /\ NoBudget /\ PageAsIs
ComposerFault == (\E t \in tasks : TaskFails(t)) /\ Fault /\ PageAsIs

-----------------------------------------------------------------------------
Next ==
    \/ \E c \in Conversations : Open(c) \/ Arrives(c) \/ Revoked(c)
    \/ \E l \in loads : LoadAnswered(l) \/ LoadFails(l)
    \/ \E t \in Texts : Type(t)
    \/ \E m \in sends : EventOvertakes(m) \/ SendAnswered(m) \/ SendFails(m)
    \/ \E r \in lists : ListAnswered(r)
    \/ JoinAnswered \/ JoinFails \/ RetryLoad \/ Send \/ RetrySend \/ LoadConversations
    \/ Back \/ ComposerGesture \/ ComposerGoesOn \/ ComposerFault

Spec == Init /\ [][Next]_vars

-----------------------------------------------------------------------------
(* Properties. *)

\* A panel that a load has filled shows the messages and the unsent entries of
\* the conversation that is open, all of them and of no other: late loads,
\* messages that arrive, and sends that end elsewhere included (chat.js
\* loadMessagesForConversation, the message and sendstate handlers).
PanelIsFaithful ==
    panel.kind = "messages" =>
        panel.rows = Stored(current) /\ panel.unsent = Unsent(current)

\* The text in the input was typed for the conversation that is open: a send
\* that fails late does not put its text under another one (sendMessage).
InputIsOwn == input /= NoText /\ current /= Nowhere => input[1] = current

\* A text that was typed is somewhere the user will find it, unless one that says
\* the same was delivered to its conversation, it was replaced, or the conversation
\* was removed under it: in the input, a draft, or an unsent message, in any order
\* of sends, failures and switches.
TextIsKept ==
    \A v \in typed :
        \/ v = input
        \/ \E c \in Conversations : draft[c] = v
        \/ \E e \in pending : e.text = v
        \/ v \in given

\* The files of a message were uploaded for its conversation; the exception is
\* a conversation that was removed with files in the list, which stay there
\* (resetForConversation on every switch from one conversation to another).
UploadsAreOwn ==
    \A m \in sends : \A u \in m.files :
        uploads[u].conv = m.conv \/ uploads[u].file \in strays
=============================================================================
