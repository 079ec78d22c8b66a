------------------------- MODULE AttachmentComposer -------------------------
(***************************************************************************)
(* The list of files under the message input of a page, createComposer of  *)
(* messaging/attachments.js: each file is announced to the server, put     *)
(* there, completed, and asked about until it is decided.  What a task     *)
(* finds after an await may have been cancelled, retried or abandoned with *)
(* its conversation.                                                       *)
(* The module has no Next of its own: a page composes it with the changes  *)
(* of its conversation (ChatPage).                                         *)
(***************************************************************************)
EXTENDS Integers, FiniteSets

CONSTANTS
    Conversations, Nowhere,
    Files,         \* what the user picks, each once
    Uploads,       \* identifiers the server gives out
    NoUpload,
    MaxFiles       \* 5 files in a message

ASSUME PlacesAssumption == Nowhere \notin Conversations
ASSUME UploadsAssumption == NoUpload \notin Uploads

VARIABLES
    current,       \* the page's conversation (getConversationId), or Nowhere
    items,         \* the item of a file; not `listed` before and after
    tasks,         \* the asynchronous functions that are waiting
    uploads,       \* the server: whose upload it is, and the verdict on it
    told,          \* uploads the server was told to delete
    bound,         \* uploads that went with a message that was sent
    mixed          \* history: files that were shown the answer, or the failure,
                   \* of another upload

composerVars == <<items, tasks, uploads, told, bound, mixed>>

Status == {"none", "Creating", "Uploading", "Uploaded", "Ready", "Failed", "TimedOut", "Rejected"}
Bad == {"Rejected"}                     \* and ScanFailed, Deleted, Expired
Terminal == Bad \union {"Ready"}

Item == [listed: BOOLEAN, conv: Conversations \union {Nowhere},
         id: Uploads \union {NoUpload}, status: Status, cancelled: BOOLEAN]
Absent == [listed |-> FALSE, conv |-> Nowhere, id |-> NoUpload, status |-> "none", cancelled |-> FALSE]
\* `n` tells the upload (0) from clicks on "Check status".
Task == [file: Files, at: {"cancelling", "intent", "put", "complete", "poll", "wait"},
         id: Uploads \union {NoUpload}, n: 0..2]
NoOne == [file |-> "none", conv |-> Nowhere, verdict |-> "none"]
Upload == [file: Files, conv: Conversations, verdict: {"none", "Ready", "Rejected"}]

ComposerTypeOK ==
    /\ items \in [Files -> Item]
    /\ tasks \subseteq Task
    /\ uploads \in [Uploads -> Upload \union {NoOne}]
    /\ told \subseteq Uploads /\ bound \subseteq Uploads
    /\ mixed \subseteq Files

ComposerInit ==
    /\ items = [f \in Files |-> Absent]
    /\ tasks = {}
    /\ uploads = [u \in Uploads |-> NoOne]
    /\ told = {} /\ bound = {} /\ mixed = {}

Listed == {f \in Files : items[f].listed}
Selected == {f \in Listed : items[f].status \notin Bad}
IdsOf(S) == {items[f].id : f \in S} \ {NoUpload}

\* getReadyIds.
ReadyIds == IdsOf({f \in Listed : items[f].status = "Ready"})

Step(t, at, id) == tasks' = (tasks \ {t}) \union {[t EXCEPT !.at = at, !.id = id]}
Ends(t) == tasks' = tasks \ {t}
Shows(f, status) == items' = [items EXCEPT ![f].status = status]

-----------------------------------------------------------------------------
(* upload(item). *)

AddFile(f) ==
    /\ current /= Nowhere
    /\ items[f].status = "none"
    /\ Cardinality(Selected) < MaxFiles
    /\ items' = [items EXCEPT ![f] = [Absent EXCEPT !.listed = TRUE, !.conv = current, !.status = "Creating"]]
    /\ tasks' = tasks \union {[file |-> f, at |-> "intent", id |-> NoUpload, n |-> 0]}
    /\ UNCHANGED <<uploads, told, bound, mixed>>

\* An answer that looks only at the page's conversation.
UnwantedElsewhere(f) == current /= items[f].conv

Unwanted(f) == items[f].cancelled \/ f \notin Listed \/ current /= items[f].conv

\* The server has made an upload. Nobody waits for it any more, or the file is
\* put there.
IntentAnswered(t) ==
    /\ t.at = "intent"
    /\ \E u \in Uploads :
        /\ uploads[u] = NoOne
        /\ uploads' = [uploads EXCEPT ![u] =
               [file |-> t.file, conv |-> items[t.file].conv, verdict |-> "none"]]
        /\ IF Unwanted(t.file)
           THEN told' = told \union {u} /\ Ends(t) /\ UNCHANGED items
           ELSE /\ items' = [items EXCEPT ![t.file].id = u, ![t.file].status = "Uploading"]
                /\ Step(t, "put", u)
                /\ UNCHANGED told
    /\ UNCHANGED <<bound, mixed>>

PutDone(t) ==
    /\ t.at = "put"
    /\ IF items[t.file].cancelled \/ t.file \notin Listed
       THEN told' = told \union {t.id} /\ Ends(t) /\ UNCHANGED items
       ELSE Shows(t.file, "Uploaded") /\ Step(t, "complete", t.id) /\ UNCHANGED told
    /\ UNCHANGED <<uploads, bound, mixed>>

\* The loop of poll: it asks for the upload the item has by now.
Asks(t) ==
    LET id == items[t.file].id IN
    IF items[t.file].cancelled \/ id = NoUpload THEN Ends(t) ELSE Step(t, "poll", id)

Completed(t) ==
    /\ t.at = "complete"
    /\ Shows(t.file, "Uploaded")
    /\ Asks(t)
    /\ UNCHANGED <<uploads, told, bound, mixed>>

\* What the server may say of upload u: a verdict stands, unless u is deleted.
Answers(u) ==
    LET said == uploads[u].verdict IN
    {"Uploaded"} \union (IF said = "none" THEN {"Ready", "Rejected"} ELSE {said})
                 \union (IF u \in told THEN {"Rejected"} ELSE {})

\* After five minutes without a verdict the item waits for the user.
PollAnswered(t) ==
    /\ t.at = "poll"
    /\ \E answer \in Answers(t.id) :
        \/ /\ answer \in Terminal
           /\ uploads' = [uploads EXCEPT ![t.id].verdict = answer]
           /\ Shows(t.file, answer)
           /\ Ends(t)
        \/ /\ answer \notin Terminal
           /\ UNCHANGED uploads
           /\ \/ Shows(t.file, answer) /\ Step(t, "wait", NoUpload)
              \/ Shows(t.file, "TimedOut") /\ Ends(t)
    /\ mixed' = IF t.id /= items[t.file].id THEN mixed \union {t.file} ELSE mixed
    /\ UNCHANGED <<told, bound>>

PollAgain(t) ==
    /\ t.at = "wait"
    /\ Asks(t)
    /\ UNCHANGED <<items, uploads, told, bound, mixed>>

\* A request fails.
TaskFails(t) ==
    /\ t.at \in {"intent", "put", "complete", "poll"}
    /\ IF items[t.file].cancelled THEN UNCHANGED items ELSE Shows(t.file, "Failed")
    /\ Ends(t)
    /\ mixed' = IF t.id /= items[t.file].id THEN mixed \union {t.file} ELSE mixed
    /\ UNCHANGED <<uploads, told, bound>>

-----------------------------------------------------------------------------
(* What the user and the page do with the items S. *)

TakeAway(S) ==
    /\ items' = [f \in Files |->
           IF f \in S THEN [items[f] EXCEPT !.listed = FALSE, !.cancelled = TRUE] ELSE items[f]]
    /\ tasks' = {t \in tasks : ~ (t.file \in S /\ t.at = "put")}
    /\ UNCHANGED <<uploads, bound, mixed>>

\* cancel, and resetForConversation for all of them.
Cancel(S) == TakeAway(S) /\ told' = told \union IdsOf(S)

CancelItem(f) == f \in Selected /\ Cancel({f})

\* remove, of an item the server has refused.
Remove(f) ==
    /\ f \in Listed \ Selected
    /\ TakeAway({f})
    /\ UNCHANGED told

Retry(f) ==
    /\ f \in Listed
    /\ items[f].status = "Failed"
    /\ items' = [items EXCEPT ![f].id = NoUpload, ![f].status = "Creating", ![f].cancelled = FALSE]
    /\ told' = told \union IdsOf({f})
    /\ tasks' = tasks \union {[file |-> f, at |-> "cancelling", id |-> NoUpload, n |-> 0]}
    /\ UNCHANGED <<uploads, bound, mixed>>

\* The old upload is cancelled, or could not be.
RetryGoesOn(t) ==
    /\ t.at = "cancelling"
    /\ IF items[t.file].cancelled \/ t.file \notin Listed
       THEN Ends(t) /\ UNCHANGED items
       ELSE IF current /= items[t.file].conv
            THEN /\ Ends(t)
                 /\ items' = [items EXCEPT ![t.file].listed = FALSE, ![t.file].cancelled = TRUE]
            ELSE Step(t, "intent", NoUpload) /\ UNCHANGED items
    /\ UNCHANGED <<uploads, told, bound, mixed>>

\* The button stays until an answer changes the status.
CheckStatus(f) ==
    /\ f \in Listed
    /\ items[f].status = "TimedOut"
    /\ items[f].id /= NoUpload
    /\ \E n \in 1..2 :
        /\ \A t \in tasks : ~ (t.file = f /\ t.n = n)
        /\ tasks' = tasks \union {[file |-> f, at |-> "poll", id |-> items[f].id, n |-> n]}
    /\ UNCHANGED <<items, uploads, told, bound, mixed>>

ClearBound(ids) ==
    /\ items' = [f \in Files |->
           IF f \in Listed /\ items[f].id \in ids THEN [items[f] EXCEPT !.listed = FALSE] ELSE items[f]]
    /\ bound' = bound \union ids
    /\ UNCHANGED <<tasks, uploads, told, mixed>>

-----------------------------------------------------------------------------
\* What the composer does for itself, on the answer to a request.
ComposerStep ==
    \E t \in tasks : \/ IntentAnswered(t) \/ PutDone(t) \/ Completed(t)
                     \/ PollAnswered(t) \/ PollAgain(t) \/ RetryGoesOn(t)

\* No upload the page has heard of is forgotten: it is in the list, went with a
\* message, was refused, or a request to delete it was made (should it fail, the
\* code shows an error at most and `told` does not change), whatever was
\* cancelled, retried or abandoned while a request was under way (attachments.js
\* upload, cancel, retry, resetForConversation). The exception are items with
\* two checks of their status, of which the late one speaks of an upload the
\* item no longer has (poll reads item.id before its await, not after); when it
\* is a failure, Retry is offered while the next upload is being made.
NothingIsLeftBehind ==
    \A u \in Uploads :
        uploads[u] /= NoOne =>
            \/ u \in told \union bound
            \/ uploads[u].verdict = "Rejected"
            \/ u \in IdsOf(Listed)
            \/ uploads[u].file \in mixed
=============================================================================
