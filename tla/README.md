# A TLA+ development of CBS Support

CBS Support is a customer-support system: an ASP.NET Core API over PostgreSQL,
a SignalR hub, background workers, and a browser client.  This directory holds
TLA+ specifications of its stateful parts, the TLC configurations that check
them on small instances, and TLAPS proofs of what matters most for instances of
any size.  Source paths below are relative to the repository's `src/`.
`PROJECT.json` maps every definition to the lines it models.

1. [The system](#1-the-system)
2. [The plan](#2-the-plan)
3. [The modules and the code](#3-the-modules-and-the-code)
4. [What is checked](#4-what-is-checked)
5. [Fairness](#5-fairness)
6. [What is proved](#6-what-is-proved)
7. [What the runs found](#7-what-the-runs-found)
8. [What is not modelled](#8-what-is-not-modelled)

## 1. The system

| Component | Where | State it keeps | Operations | Correct when |
|---|---|---|---|---|
| Attachment lifecycle | `CBSSupport.Shared/Services/AttachmentRepository.cs`, `AttachmentService.cs`, `CBSSupport.API/Attachments/*` | rows of `digital.attachments` (state, lease, keys, retention), files in quarantine and ready form, rows of `admin.files` | create intent, upload, complete, cancel, bind to a message; claim, validate or scan, promote, publish, reject, retry; collect, delete, finalize | what is Ready can be served; nothing is lost before it is published; deleted means no file left; a message keeps its attachments |
| Attachment quotas | `CreateIntentAsync`, and the trigger `maintain_attachment_quota_reservation` | the declared and real size of each row, what it reserves, when it was created | check and insert under the tenant's lock, raise with the real size, give back at deletion | races of intents, messages and workers leave every sum within its limit; what is stored is reserved |
| Conversation outbox | `ConversationOutboxRepository.cs`, `CBSSupport.API/Realtime/*` | rows of `digital.conversation_outbox` | append with the change, claim under a lease, publish, mark processed or failed | each event is published at least once, superseded or dead-lettered; a private event reaches only its present participants |
| Conversations and messages | `ConversationRepository.cs` | `conversation_access` (state, participants, version), sequence allocators, messages, read cursors | create, get or create, send, read, transfer, archive, approve | numbers without gaps, one message per client message id, one active private conversation per pair |
| Cases and notifications | `CaseCommandServices.cs`, `CaseNotificationWriter.cs`, `NotificationService.cs` | case version, audit, notifications | mutate with expected version, mark read | one audit row and one event per version; a recipient's unread count is what it has not read |
| Login throttling | `LoginThrottleStore.cs`, `LoginAttemptLimiter.cs` | windows, failure counts, locks | reserve, record failure, reset, clean up | concurrent attempts cannot slip under the limit; a lock is not cut short |
| Sessions and stamps | `AccountSecurityStampStore.cs`, `AccountPrincipalValidator.cs`, `CookiePrincipalValidationEvents.cs`, `JwtPrincipalValidationEvents.cs` | `security_stamp` and the activity flags of an account; the tickets in the clients' hands | sign in, validate, renew, refuse, rotate | a revoked ticket is accepted for at most five minutes, a valid one always |
| Hub revocation | `CBSSupport.API/Security/Hub*.cs`, `ActiveHubConnectionRegistry.cs`, `AccountSecurityStampRotationService.cs` | registry of connections, `LastValidatedUtcItem` of each | connect, call, disconnect; rotate and abort; monitor | a revoked account's connections end, nobody else's do |
| Browser messaging client | `wwwroot/js/messaging/store.js`, `client.js`, `transport.js`, `api.js` | messages by conversation, the last number, unsent messages and drafts in localStorage, joined conversations, fetches under way | ingest, fetch after, reconcile, send, retry; join, leave, rejoin, reload | no message stays missing, none is said twice, no unsent text is lost, events come back after a break |
| Attachment composer | `wwwroot/js/messaging/attachments.js` | files with their upload, state and polls | add, upload, poll, cancel, retry, check by hand, hand over to a message | no upload is left behind, none goes out with another conversation's message |
| Client page | `wwwroot/js/chat.js` | the open conversation, panel, input, list, bell | open, load, send, retry, react to events and to a loss of access | panel, input and files are those of the conversation that is open; no text is lost |
| Admin console | `wwwroot/js/admin/*` | chosen client, page, filters, two tables with a detail panel each, dashboard; lists of conversations, the open one, its panel and input; bell | switch, navigate, filter, load and save a case; open, send, archive, hand over | what is shown is what was chosen; a status is saved by who saw the case as it was; a text stays with its conversation |
| Everything else | audit, configuration, controllers, queries, pages, migrations | none that evolves, or append-only | | |

How they interact.  A request reaches a repository, which runs one transaction
on PostgreSQL.  `SendMessageAsync` is where three components meet: one
transaction numbers and stores the message, binds attachments that the workers
published, and appends the outbox event that a dispatcher will send to the hub's
groups.  The workers and the dispatcher run in every API process and find their
work in the database, by conditional updates that take a lease (`lease_owner`,
`lease_until`); the only other means of exclusion are row locks and PostgreSQL
advisory locks.  The hub's connections are bound to security stamps that
password changes and deactivations rotate.  The browser client gets hub events,
which may be lost, late or double, and repairs its store with requests for what
follows the last number it has.  The pages are built on that store: each has one
panel, one input and one composer for all its conversations.  They run on one
thread, but every `await` lets clicks, events and other answers in.

What is hard.  Several processes run every worker, a worker may outlive its
lease, the files and the rows are not updated together, a commit may succeed
while its acknowledgement is lost, callers repeat calls, transactions draw
numbers they never use, events overtake each other, and a conversation's
participants change while messages about it are on their way.  In a browser, the
answer to a request comes when the user may long be elsewhere.  The hazards are
listed one by one, with the line where each bites and the properties that cover
it, in `PROJECT.json`.

## 2. The plan

Modules, in order of importance; all but D and the rest of H are done.

| | Module | Composes / implements | State |
|---|---|---|---|
| A | `AttachmentLifecycle` | implements `AttachmentPromise` | modelled, checked, invariants and refinement proved |
| B | `ConversationOutbox` | the versions of C's conversations, seen by dispatchers | modelled, checked, invariants proved |
| C | `ConversationMessages` | implements `MessagePromise`; its message step is A's `Bind` and B's `SendMessage` | modelled, checked, invariants and refinement proved |
| D | `ConversationDirectory` | creation, transfer and approval racing for one private pair or one group | open |
| E | `LoginThrottle` | alone: one shared table; reads `Clock` | modelled, checked, properties proved |
| F | `HubRevocation`, `SessionRevalidation` | both extend `AccountStamps`, the rows they validate against, and `Clock` | modelled, checked, invariants proved |
| G | `MessagingClient` | the browser's store over a lossy hub; its server is a log as in `MessagePromise` | modelled, checked, invariants proved |
| H | `CaseCommands` | audit rows and recipients of notifications; appends to B's outbox | versions and read state are in K and L, the rest is open |
| I | `AttachmentQuotas` | extends A: limits and reservations over all its steps | modelled, checked, invariants proved |
| J | `AttachmentComposer`, `ChatPage` | the page extends the composer; G is reduced to messages that arrive | modelled, checked, invariants proved |
| K | `AdminCases`, `AdminChat` | the two halves of the console, bounded by `ConsoleBudget` | modelled, checked, invariants proved |
| L | `NotificationBell` | the bell of both pages over the read state of `NotificationService` | modelled, checked |

Abstract specifications worth stating: what attachments promise (done), what a
conversation promises (done).  A reader of G is not promised a prefix of the log,
since the code passes messages over in ways that are known; `HolesAreExplained` and
`JoinedCatchesUp` say what remains.  For each module: one run per arrangement of
actors, of two or three actors of the kind that races, a few thousand to a million
states; a liveness run where something must eventually happen.

Theorems worth proving: for each module type correctness and its inductive
invariant, from it the safety invariants and action properties of the runs, and
refinement where the abstract specification is small (A and C).  All of it is
done for the modules there are; what the prover cannot reach is listed at the end
of section 6.

## 3. The modules and the code

A, B and C follow the same conventions.  An SQL statement that
commits on its own, a call to the file store, and a publication to the hub are
each one atomic step; anything may happen between two of them.  Rows become
functions from model values to fields, named after the columns where that is
readable; `lease_until` becomes the flag `leased`, which a step of time clears.
Time is otherwise only what it lets happen.  A fault (a crash, a call that
throws, a lost acknowledgement, a lease that runs out under a worker still
using it) may happen at any step until `MaxFaults` of them have; crashes lose
what a process had in memory and nothing else.

### AttachmentLifecycle

`state`, `owner`, `leased`, `target`, `bound`, `etag`, `readyKey`,
`quarantineKey`, `attempts`, `elapsed` are the row; `companyFile` is the row of
`admin.files`; `quarantine` and `ready` are the two objects of
`LocalAttachmentStorage`. A content stands for the bytes, their ETag and the
digest of their canonical form. `uploading` and `completing` are requests being
handled: bodies on their way to the quarantine, and complete requests that have
read the stored ETag but not yet written it. `Verbatim` are the contents that
validation hands back byte for byte; an image is encoded anew, to another size.
`phase[w][a]` is the call that worker `w` makes next for attachment `a`.

| Code | Actions |
|---|---|
| `AttachmentService`, `AttachmentRepository.CreateIntentAsync` to `CancelAsync` | `CreateIntent`, `BeginUpload`, `FinishUpload`, `AbortUpload`, `BeginComplete`, `Complete`, `Cancel` |
| `ConversationRepository.SendMessageAsync`, attachments of the message | `Bind(S)`: all of them or none |
| `AttachmentValidationWorker`, `AttachmentScanWorker`, and the repository calls they make | `ClaimProcessing`, `ReadQuarantine`, `ScannerDown`, `MarkStructurallyValidated`, `MarkPromoting`, `CheckStore`, `WriteReady`, `HeadReady`, `MarkReady`, `DropQuarantine`, `CompleteReadyQuarantineCleanup`, `Reject`, `RetryOrFail`, `Defer` |
| `AttachmentCleanupWorker` | `ClaimReadyQuarantine`, `ClaimCleanup`, `DeleteReady`, `DeleteQuarantine`, `FinalizeDeletion`, `ReleaseCleanup` |
| exceptions, host stop, time | `CallFails` (with `OnException`, the catch blocks), `Crash`, `LeaseLapses`, `DeadlinePasses` |

A batch is any nonempty set of claimable rows (`SKIP LOCKED`); a worker claims again
when it is idle. The advisory locks that elect a leader among workers are left out
on purpose: a leader that lost its session still finishes its batch, so nothing may
rest on them, and the model lets every worker claim. A failure of the retry
bookkeeping itself escapes the worker's loop and stops the host, which is `Crash`.
Nothing in the code keeps an upload from finishing after the row has left
PendingUpload, or a worker from writing the ready form after it has lost the row:
`late` are the places (quarantine or ready form) written like that, and the next
deletion of the place takes it out again. Some answers cannot occur under this
abstraction of contents (a size or ETag mismatch between the upload and the store)
and have no action.

### AttachmentQuotas

It extends `AttachmentLifecycle` by the columns `actual_size` and
`reservation_bytes`; `declared_size`, `created_at` and the uploader are constants of
each attachment.  `CreateIntentAsync` is two steps, `CheckQuotas` and `InsertIntent`,
between which everything else may step; `admitted` holds the intent in between,
whose transaction has the tenant's advisory lock, and `AbandonIntent` rolls it back.
`RowStep` is any step of the lifecycle on rows that exist, with what it writes to the
two columns: `WrittenSize` for the statements that set `actual_size`, `Reserved` for
the trigger and `FinalizeDeletionAsync`.  A message binds attachments of its sender
only (`BindsOfOneUser`).  The attachments are those of one tenant,
which is what the lock and the query are about.  `created_at` is read before the lock
is waited for, so `CreatedAt` is an arbitrary function: intents may be inserted in
any order of their instants.  A sum of sizes is the cardinality of the set of bytes
(`Total`), which the library's theorems on finite sets can reason about.

### ConversationOutbox

`version`, `state`, `party` are the access row; `of`, `atVersion`, `atState`,
`atParty` what an event recorded of it, `attempts`, `owner`, `leased`,
`processed`, `dead` its delivery.  An event is a number, its rank by
`(occurred_at, event_id)`: the clock is read before the commit, so a later event
may become visible first, and `\E e` in the commands lets it.  `lock[c]` is the
session advisory lock of `AcquireDeliveryLeaseAsync`; transfers, archivals and
approvals take the same lock for their transaction and are atomic steps guarded
by it, messages and case commands do not take it.  `phase[d][e]` is where
dispatcher `d` is with `e`; it handles a batch in order (`Current`) under one
lease.  `ClaimLost` is a claim that commits without the dispatcher learning of
it.  When a session is cut (`SessionLost`) the dispatcher goes on and fails on
releasing the lock, after the event was settled.  An unlock may throw on a session
that lives on: `stuck[c]` says that the lock of `c` was left that way, on a
connection in the pool (`UnlockFails`) or on one that nobody disposes of
(`AcquireFails`); the pool resets the former when it is used again
(`SessionReset`), the latter ends with its process or its session.  The
conversations exist from the start; the first event of a case is a `SendMessage` at
version 1.

### ConversationMessages

`SendMessageAsync` is one READ COMMITTED transaction, modelled statement by
statement; `phase` names the last one done:

| phase | statement | lock held from here on |
|---|---|---|
| `begun` | transaction opened | |
| `access` | `GetAccessForUpdateAsync` | the access row (`FOR UPDATE`) |
| `keyed` | `pg_advisory_xact_lock` on the client message id | that id |
| `fresh` | no message has the id | |
| `allocated` | `UPDATE conversation_sequences ... RETURNING` | the allocator's row |
| `done` | committed or rolled back | none |

The locks are derived from the phases (`RowFree`, `KeyFree`, `AllocatorFree`).
What a transaction writes is invisible until `Commit`, which may report failure
although it happened.  `Abort` ends a transaction anywhere: cancellation, lost
connection, crash.  A retry is another request with the same call.  The commands
that lock the access row first and then wait for nothing are atomic steps
guarded by `RowFree`.  Creation by `CreateCaseAsync` starts the allocator at 2
behind a first message without client message id; the root row of a chat is a
sentinel with number 0, not a message.  Attachments of a message are part of its
content; that binding them may be refused is `RefuseAttachments`.

`MessagePromise` is what is left without transactions: logs that grow at their
end, written by those who take part, each key used once, confirmations only of
what is there, readers that only advance.

Two behaviours worth knowing that no document contradicts: a retry by somebody
who has lost access since is answered `Unavailable` although the message is
stored, and a confirmation says nothing about who may read it now.

### AccountStamps, HubRevocation, SessionRevalidation

`AccountStamps` is what the other two share: the stamp and the activity of each
account, the clock, and a history of when each stamp lost its validity.  Stamps
are numbered; that 32 fresh random bytes never repeat is taken for granted, and
so is a clock that does not go back.  An account that was switched off stays off:
the program has no code that reactivates one.

| Code | Actions of `HubRevocation` |
|---|---|
| `HubPrincipalValidationFilter.OnConnectedAsync` around `ChatHub.OnConnectedAsync` | `Connect`, `ReadPrincipal`, `ReadFails`, `Admit`, `Refuse`, `Join`, `JoinFails` |
| `InvokeMethodAsync` | `CallUnasked` on the last validation; `Ask`, `ReadPrincipal`, `ReadFails`, `CallChecked`, `RefuseCall` with a new one |
| `OnDisconnectedAsync`, the client | `Disconnect`, `ClientDrops` |
| `HubConnectionRevocationMonitor` | `MonitorTick` (the snapshot), per connection `MonitorDrop` or `MonitorAsk`, `MonitorRead`, `MonitorFails`, `MonitorKeep`, `MonitorAbort`, then `MonitorRest` |
| `AccountSecurityStampRotationService`, `AbortAccount` | `Rotate`, `RotateRefused`, `RotateLost`, `Notify` (the snapshot), `AbortMarked` one by one, `Return` |
| the database, time | `Disable`, `Tick` |

The hub runs one call of a connection at a time (SignalR's default), so one
position per connection is enough.  A validation is two steps, the row read and
the answer used; between them anything else may step.

`SessionRevalidation` keeps, instead of connections, every ticket ever handed
out; a request presents any of them, which covers renewals that arrive out of
order and cookies that are restored.  `checkedAt` is in whole seconds of a finer
clock, as `ToUnixTimeSeconds` leaves it.

### LoginThrottle

`Clock` is the part it shares with the modules above: the last instant and the
clock.  An attempt goes through `checking` (`ReserveAsync`), now and then `cleaning` and
`deleting` (the two halves of `CleanupAsync`), `verifying`'s outcome, and either
`Reset` or `Fail` and `RecordFailure`.  Each transaction is one step, since the
upsert locks the row first; the instant it works with is read in an earlier step,
so that transactions commit in another order than their clocks were read.  The
store may fail in every step, and the answer to a reservation may be lost.  The
check constraints of the table are the type of its rows, except
`ck_login_throttle_blocked_timestamp`, which is `Storable`: a row that violates it
makes the write fail.

### The pages: what they have in common

JavaScript runs a handler to its next `await`; an action is what happens between
two of them, and a request under way is a record in a set (`fetches`, `loads`,
`sends`, `lists`, `tasks`, `opens`, `asked`, `details`, ...) that says what the
code still holds in local variables when the answer comes.  Answers arrive in any
order.  What a handler checks after an `await` (`currentConversationId`, a request
number, an `AbortController`) is a condition of the action that continues it, and
what it does not check is not.  A request may fail at any time, up to a bound; so
may a user do anything the page offers, up to a bound.

Where the code is known to do something else than the property says, the model
records exactly that case in a history variable, and the property excepts it and
nothing more (`late` and `stuck` are the like among the server's modules):
`skipped`, `ghosts` and `lost` (MessagingClient), `mixed` (AttachmentComposer),
`strays` (ChatPage), `grafted` (AdminCases), `group`, `misplaced` and `swallowed`
(AdminChat). Section 7 says what they stand for.

### MessagingClient

The server is a log per conversation, a message its position in it; `log[c][n]` is
the client message id, or `Other`.  `have[c]` and `last[c]` are the store of the
browser.  `pending` are the unsent messages; they are in localStorage, which a
reload keeps while it drops the rest, or, for the conversations in `volatile`, in
memory only, because localStorage was `full` when they were written.  `lost` are
those that are gone from there although their message may not be in the log.

| Code | Actions |
|---|---|
| `client.fetchAfter`, `reconcile`, the interval, `online` and `visibilitychange` | `Tick`, `FetchAnswered` page by page, `FetchFails` |
| the `MessageCreated` handler | `Receive`: any message of the log, in any order, any number of times |
| `send`, `retryPending` and their ends | `Send`, `Retry`, `Commit` (the server, at any time after), `SendAnswered`, `SendFails`; `Save` and `Clear` as parts of them |
| `archive`, `removeConversation` | `Archive`, `ArchiveCommits` (the server, at any time after), `ArchiveAnswered`, `ArchiveFails` |
| `transport.join`, `leave`, `start`, `onreconnected` | `Join`, `Leave`, `HubExecutes` (invocations in order), `Connect`, `StartFails`, `Rejoin`, `RejoinFails`, `Drop` |
| the browser, other users | `Reload`, `StorageTurns`, `OtherWrites` |

`seen` in a fetch is the length of the log when it was asked: the server's page
may be of any length from there on.

### AttachmentComposer, ChatPage

A file of the composer is `items[f]`; a continuation of `upload`, `retry` or
`poll` is a task, which says at which `await` it stands and which upload it
started with.  `uploads[u]` is what the server made of an intent, `told` what it
was asked to delete, `bound` what went with a message.

| Code | Actions |
|---|---|
| `createComposer`: `addFiles`, `upload`, `poll` | `AddFile`, `IntentAnswered`, `PutDone`, `Completed`, `PollAnswered`, `PollAgain`, `TaskFails` |
| `cancel`, `remove`, `retry`, `checkStatus`, `resetForConversation`, `clearBound` | `CancelItem`, `Remove`, `Retry`, `RetryGoesOn`, `CheckStatus`; `Cancel` and `ClearBound` as parts of the page's steps |
| `switchChatContext`, `loadMessagesForConversation` | `Open`, `JoinAnswered`, `JoinFails`, `LoadAnswered`, `LoadFails`, `RetryLoad` |
| the message handler; `sendMessage`, the Retry of a row | `Arrives`; `Type`, `Send`, `RetrySend`, `EventOvertakes`, `SendAnswered`, `SendFails` |
| `loadConversations`, loss of access | `LoadConversations`, `ListAnswered`, `Revoked` |
| back button and `pagehide` | `Back` |

A text is a pair of the conversation it was typed for and what it says, so that
`InputIsOwn` can be stated; the code has no such pair.

### AdminCases, AdminChat

The console's two halves share only the choice of a client, so each is a module
with its own copy of it.  In `AdminCases` a table is what it shows, what its last
request asked for and whether that failed (a DataTable gives up the request before
it); `loads` are dashboard requests, of which the last one is `latest`; `current`
is the case in a detail panel with the version a save will send, and `knows` the
version of what the panel really shows.  In `AdminChat` `opens` are openings at one
of their awaits (`Left`, `Joined`, `Loaded`), `asked` the requests for lists, and
`active` says whether the chats page is shown: a change of client asks for lists on
that page only (`admin-core.js:182`), on others the page does when it is shown.

| Code | Actions |
|---|---|
| `admin-core.js`, `admin-navigation.js` | `SwitchClient`, `OpenClient`, `Visit`, `Navigate` |
| `admin-tickets.js`, `admin-inquiries.js` | `Filter`, `CaseChanged`, `TableAnswered`, `TableFails`, `LoadDetails`, `DetailsAnswered`, `DetailsFail`, `CloseDetail`, `SaveStatus`, `SaveServed` (the server), `SaveAnswered`, `SaveRefused`, `SaveFails`, `ColleagueSaves` |
| `admin-dashboard.js` | `DashboardAnswered`, `DashboardFails` |
| `admin-chat.js`, lists | `SwitchTenant`, `LeavePage`, `ShowPage`, `Refresh`, `ListsAnswered`, `ListsFail`, `CreateGroup`, `GroupCreated`, `GroupFails` |
| `openConversationItem` | `Open`, `Left`, `Joined`, `Loaded`, `OpenFails` |
| `disableAndRefreshActive`, `archivePrivateConversation`, hand-overs | `LeftForGood`, `TakenAway`, `HearsOf`, `Archive`, `ArchiveServed`, `ArchiveAnswered`, `ArchiveFails` |
| messages and sends | `Incoming`, `TypeText`, `SendMessage`, `Overtakes`, `MessageSent`, `SendFails` |

### NotificationBell

A notification is its number.  `badge` and `list` are written by the answers to
loads, marks of one and marks of all; an answer to a mark comes in two steps, its
head and its body, since `response.ok` is looked at before `await response.json()`.

## 4. What is checked

| Run | Instance | States | Shows |
|---|---|---|---|
| `attachment_structural` | 1 attachment, 2 workers, 2 cleaners, 2 attempts, 3 faults, structural validation | 290,065 | what is Ready can be served, as long as no call, process or lease fails no valid upload is refused, retention holds but for one documented case, the promise is implemented |
| `attachment_liveness` | 1 attachment, 2 workers, 1 cleaner, 2 faults, malware scanning, a file and an image | 85,029 | a file outlives its row only if its writer came late; uploads are decided, deletions completed, copies released, deadlines acted on |
| `attachment_quotas` | 3 attachments of 1 user, 1 worker, 1 cleaner, no faults; 1 may be unbound, 3 bytes a day, 2 in the tenant; an image that grows | 466,941 | races of intents keep the limits, whatever the order of their instants; reservations follow the files |
| `attachment_retention` | 1 attachment, 1 worker, 1 cleaner | violation | see section 7 |
| `outbox` | private conversation and ticket, 2 dispatchers, 1 admin, 2 events, batches of 1, 2 attempts, 1 fault | 553,735 | the last change is announced, a private event goes to its present audience, a lock is in use or was left by a failed unlock, every event is settled |
| `outbox_case_suppression` | a ticket, 2 events | violation | see section 7 |
| `messages` | private conversation, group and ticket, 1 client, 2 admins; 2 requests with one client message id and all commands, or 3 requests of the client; 2 conversations exist at a time | 369,002 | numbering, the promise is implemented; requests never wait in a circle, and at most for one that waits for one that goes on |
| `hub` | 1 connection, 2 rotations of its account, 2 instants, interval 1 | 184,288 | how long a call is let through, unjustified aborts, a revoked connection ends |
| `sign_in` | passwords: 2 attempts, 1 pair, limit 2, threshold 2, maximum 3 times the first block; tickets: 1 account, 2 requests, 2 instants to the second, interval 2; 5 and 4 instants | 3,267,199 | permits and failures are counted exactly, blocks grow and last as their level says; acceptance of revoked tickets, refusal of valid ones |
| `messaging_client` | 1 conversation of up to 3 messages, 2 ids, pages of 1, 2 to a fetch, 1 fault; 1 text and 2 gestures with a connection, 2 texts and 3 gestures without one and with a localStorage that fills up; 2 notifications in a list of 1 | 250,593 | holes, unsent texts, repetition, membership; store and bell catch up |
| `client_chat` | 2 conversations of up to 2 messages, 1 file with 2 uploads, 2 texts, 5 gestures, 2 faults | 2,200,981 | panel, input, texts and files belong to the open conversation, no upload is forgotten |
| `admin_console` | 2 clients with a case each; 2 conversations, 1 text, 2 messages in all; 4 clicks, 1 fault | 1,143,124 | scope, informed saves, panel, lists and texts |

Why the bounds are enough.  Every race in the code is between two actors on one
row, or one actor and time: two workers of a kind, two dispatchers, two requests
give every pair, with admins, users and deadlines to disturb it.  Two attempts
let a first failure be retried and a second be the last.  Two or three faults
allow a lost acknowledgement followed by a crash and an expired lease.  The
instances with two conversations or two events show what a batch adds; two
attachments of one message meet only in `Bind`, one transaction, and the proofs
cover any number of them.  In the models with a clock an interval is one or two
instants; throttling has five and sessions have four, enough for an interval to pass, a
validation to be slow and another interval to begin.

On a page the races are between one request and the next gesture: two
conversations, and for each kind of request two under way, give every pair; five
gestures are enough to type, send, leave, come back and type again while two
requests fail.  Pages of one message and two of them in a fetch make a log of
three longer than a fetch.  `messaging_client`, `admin_console` and `sign_in` each
check two modules that share no state (but a clock): a behaviour is given one `half`
at the start, and the states are the sum of the halves', not their product.  So does
`messages` with two ways to use one module (`setting`): two requests among all the
commands, or three of a client in conversations whose members stay.  The messages of
`messaging_client` are two halves as well: with a connection, or without one and
with a localStorage that may be full at any moment; the proof of `UnsentIsKept` has
both at once.

What is proved for any instance (section 6) lets the instances be small, so that
liveness and the properties that are only model-checked can be afforded.  Each
property is shown to be sensitive by a plausible bug in a mapped definition (the
mutants, marked as such in the modules) that violates it in the same run.
Deadlock is not checked: requests and gestures are finite in every model, and a
system whose work is done may stop.

Type invariants and inductive invariants that section 6 proves were checked on
such instances before they were proved and are not among the properties of the
runs; the same holds for `SourceRetained`, `DeletionIsOneWay`, `TerminalShape`,
`RetriesEnd`, `KeysNeverCollide`, `ServedIsWatched`, `RegistryHasNoGhosts`,
`ReturnedMeansDriven` and `ExpectedStampWonOnce`, which are theorems.

## 5. Fairness

Only the server's own loops are fair; users owe nothing, faults are bounded and
never required.

* Attachments: weak fairness of each worker's next call on each attachment, of
  claiming each claimable attachment by some worker, and of a lease running out
  once its owner does not work under it.  The workers are
  `BackgroundService`s that poll for ever, and leases are wall-clock intervals.
* Outbox: the same, per event.
* Hub: `MonitorFairness`, weak fairness of the timer and of the monitor's own
  steps, strong fairness of the read of a row, so that validations may fail any
  number of times but not for ever.  The monitor is a `BackgroundService`, its
  list is finite, and `Parallel.ForEachAsync` starts an item whenever a slot is
  free.  Neither clients nor the hub's pipeline nor rotations are fair.
* Messages: none.  `WaitsAreShort` is about who waits for whom; that statements
  return and waiters are served is PostgreSQL's own progress.
* Quotas: none; the properties are safety, and an intent may wait for ever.
* Messaging client: weak fairness of `Tick`, the interval of a page that is
  visible, and of the answers to reconciling fetches, per conversation; answers to
  other fetches, events of the hub, sends and connections are not fair.  The one
  fault allowed may hit a fetch, and the next interval repairs it.
* Bell: weak fairness of the interval and of requests being served and answered.

## 6. What is proved

`*Proofs.tla` hold theorems for all values of the constants that the named
assumptions of each module allow: sets of model values that do not overlap where
the code distinguishes them, `Nothing` in none of them, owners that are accounts,
bounds and intervals that are natural numbers, and for the throttle the options
`LoginSecurityOptions` accepts.

**Attachments** (`AttachmentLifecycleProofs`). `TypeOK` is not inductive alone,
since `FinalizeDeletion` copies `delete_target_state` into `state`, and neither are
the safety invariants: whether a worker may publish depends on what it saw two calls
ago. `LifecycleInv` says what each position of a worker implies of the row and the
store, or that the row is past caring (deleted or being deleted). Both together are
shown to hold initially and to be kept by every action (one lemma each);
`ReadyIsServable`, `SourceRetained` and `DeletionIsOneWay` follow.

`WorkInv` is what is left in the store and who may still write there.  Per row
(`StorageInv`): a key that was released names no file, and a row that is done has
none, but for files whose writer came late; per worker and row (`HandlingInv`):
what a cleaner has just deleted is gone, a deletion is leased to no processor, and
a processor that still owns its row and is not done finds it unpublished.  It is
inductive on top of `LifecycleInv`.  `ReleasedStorageIsGone` is a part of it;
`RetentionUnlessUnacknowledged` follows step by step, since the rejection that
matches on the lease alone can meet a Ready row only from a lost acknowledgement
(the last clause).  `PromiseCorrect` is the refinement of `AttachmentPromise`: one
lemma per kind of step says which step of the promise it is, or that it changes
nothing of what users see.

`CleanIsNotRefused` needs to know that without a fault nobody interferes.
`OrderlyInv` says so: as long as `faults` is 0 a row under work belongs to the one
worker that is at it, under a lease that has not lapsed (`SoleWorker`), its file is
in quarantine with the bytes it was completed with, and a phase that leads to a
refusal is entered for contents that do not validate only.  A fault may break all of
it, and `faults` never goes back, so nothing has to be shown from then on.

**Quotas** (also `AttachmentLifecycleProofs`, for any number of users and
attachments and any sizes, instants and limits). None of the limits is inductive,
because an intent is inserted after the totals were read. `QuotaInv` adds what it may
rely on in between (`StillAdmissible`: the row is not there, nobody else is admitted,
and there is still room by what is declared) and what the columns of a row say at
each state (`AccountInv`). From the refinement of `AttachmentPromise` it is known how
a row may move: once created it leaves what counts as unbound and as stored for good,
so the steps of workers and messages only make room (`RowsMoveOn`); the changes of
its keys are `RowChange`. `TotalAdd` and `TotalMonotone` are the two facts about sums.
For `RollingDayKept` the window that starts at any row and takes in the new one holds
besides it only rows that its check counted, since that counted everything from a day
before its own instant on, without an end (`WindowInsert`). `LimitsKept` and
`ReservationFollowsStorage` follow.

**Outbox** (`ConversationOutboxProofs`). `TypeOK` is inductive. `OutboxInv` relates
each event to the access row it was taken from (`SnapshotInv`), says that the
present version of a conversation has an event (`AnnouncedInv`), what a dispatcher
at a phase may rely on (`DispatchInv`), that what was left out is superseded
(`SuppressionInv`), and counts attempts against faults (`AttemptsInv`).
`LastChangeSurvives`, `TerminalShape`, `RetriesEnd` and `AudienceIsCurrent` follow.
`LockIsInUse` is inductive with one fact more (`LockInv`): an event being recorded
is the one its dispatcher is at. A dispatcher therefore holds a lock for its current
event only (`HeldForCurrent`), and whatever ends the work on that event gives the
lock back, or tries to and fails: what each step of a dispatcher does to the locks
is `HandleLocks` (it takes one, frees one, or leaves them alone).

**Messages** (`ConversationMessagesProofs`). `MessagesInv` says that locks exclude
each other (`RowLockInv`, `KeyLockInv`), that a sender keeps access while its
transaction is open (`AccessInv`), that the number it drew is still the next one
(`AllocationInv`), that what callers were told is stored (`RecordInv`), with the
three safety properties themselves; it is inductive together with `TypeOK` (the
drawn number is the allocator's, hence positive). `PromiseCorrect` is the
refinement: every step is a step of `MessagePromise` under the mapping at the end of
the module, or leaves its variables alone. `WaitsAreShort` rests on the order of the
locks: whoever holds the lock on a client message id has the access row already, so
nobody else has the allocator and it goes on (`KeyHoldersGoOn`); the holder of an
access row waits for such a one at most (`RowHoldersWaitOnce`), and no two requests
hold what one waits for (`OneInTheWay`).

**Hub** (`HubRevocationProofs`). `TypeOK` is inductive. `Watch` (`ServedIsWatched`
with `RegistryHasNoGhosts`) is inductive with it: neither half is alone. `Driven`
follows each connection present at a commit to its end, in the registry until the
rotation takes its snapshot and marked from then on; `ReturnedMeansDriven` follows.
`StampSpent` (the row has moved on from any stamp that was expected and won) gives
`ExpectedStampWonOnce`. `Times` orders the instants: what is remembered of a
validation is not later than the loss of the stamp, because the clock is read before
the row; `NoCallOutlivesRevocation` follows for any interval. `Justified` says that
an answer "revoked", kept by the pipeline or the monitor until somebody acts on it,
is still true, since a spent stamp and a disabled account do not come back
(`RevokedForGood`), and that a rotation marks connections of its own account only;
with it `AbortsAreJustified` is a matter of looking at the steps that abort.

**Messaging client** (`MessagingClientProofs`). `ClientInv` says that `last` is the
highest number of the store and exists on the server; that a fetch is `Founded`:
neither the number it asks from nor the event waiting for it is beyond what the
server had when it asked, so that page after page leaves nothing out; that no two
identifiers stand for the same text, unless one of them was forgotten, and the log
has each once (`SendInv`); and that a conversation which is being left is out of the
books (`LeaveInv`). `HolesAreExplained`, `UnsentIsKept`, `SaidOnce` and `JoinedIsMember`
follow, for any page size, number of pages, gestures and faults.

**Client page** (`ChatPageProofs`). The properties of the page are not inductive.
That no text is lost needs to know of the draft of the open conversation, which is
out of date while the user types: it is the input, or is kept elsewhere (`KeptInv`).
That no upload is forgotten needs to know that a file whose upload is being started
has none yet and is started once (`TasksInv`). `PageInv` joins these with the types
and the panel's contents; `PanelIsFaithful`, `InputIsOwn`, `TextIsKept`,
`UploadsAreOwn` and `NothingIsLeftBehind` follow.

**Sessions** (`SignInProofs`). A request may present any ticket ever handed out, so
the invariant is about all of them: `Honest` says that a ticket holds a stamp its
account has had, and that a cookie was checked no later than that stamp lost its
validity (the instant is read before the row, and whole seconds are earlier still).
With `LossesRecorded` and what a request at each step has learnt (`RequestInv`) it
is inductive; `AcceptedWithinInterval` and `RejectedIsRevoked` follow for any number
of accounts and requests, any interval and any number of ticks to the second.

**Login** (`SignInProofs`). `SourceInv` says that the bucket of a source has counted
whatever was let through; `PermittedCount` is what one upsert does to the count, and
`WindowPermitsKept` follows for any options. `PairInv` says the same of the failures
of a pair, in quotient and remainder: the row holds what is left over the last
block, and its level the number of blocks, up to the bound of the table. With the
types of the rows it is inductive, and gives `EveryFailureCounted`. The duration of
a block is a recursive function, `CalculateBackoff`, as the code is a loop;
`BackoffComputed` says what it is at every level, the first block times a power of
two or the maximum. The library's induction theorems cannot be instantiated here, so
the lemma takes the least level at which the equation would fail (a set of naturals
has one) and derives it there from the level before, where it holds.
`BlockLastsByLevel` follows for any options the program accepts.

**Admin console** (`AdminConsoleProofs`). Each half has a specification of its own,
`CasesSpec` and `ChatSpec`, in which the budget of clicks and losses may be spent by
anybody else as long as the half's own variables stay; what is proved of them
therefore holds of the two together, as `MCAdminConsole` composes them.

* Cases: `ScopeInv` says of each table and of the dashboard that what it was last
  asked for is what the switcher says, whether the answer has come or not;
  `ScopeIsShown` follows. `KnownInv` says that the version a panel would send, and
  the one a save has sent, is that of what the panel shows, unless it was `grafted`;
  `SavesAreInformed` follows.
* Chats: `ListsInv` says that as long as the page is shown the last request for
  lists is for the chosen client or for the group just created; `ListsFollowTenant`
  follows. `TypedIsKept` is not inductive: the draft of the open conversation is
  written over whenever it is left. `DraftFollows` says that draft and input agree,
  or one of them is empty and the text of the other is accounted for; with it
  `TextInv` is inductive. `PanelIsOwn` speaks of a panel that is loaded and not
  being replaced; `PanelInv` says as well that at most one opening is still wanted
  and that from its join on it is of the open conversation (`OpenInv`), so that
  whatever ends it leaves the right panel.

Only model-checked, because it is out of the prover's reach: the liveness
properties `UploadIsDecided`, `CleanupCompletes`, `EventIsSettled`,
`RevokedIsDriven`, `JoinedCatchesUp` and `BellCatchesUp` (temporal reasoning under
fairness).  Every other property of a
passing run is a theorem.

## 7. What the runs found

* `attachment_retention` (`AttachmentRepository.cs:745`).  `MarkReadyAsync`
  publishes an attachment and keeps the lease; when its acknowledgement is lost
  the worker's catch block retries or rejects by lease alone, and on the last
  attempt a Ready attachment that a message already holds goes to deletion.
  `RetentionUnlessUnacknowledged` shows that this is the only such case.
* `outbox_case_suppression` (`ConversationOutboxDispatcher.cs:55`).  The version
  that supersedes waiting events is also raised by edits and status changes of
  tickets and inquiries, whose audience does not depend on it; the comment there
  speaks of transfers and archivals.  Messages sent just before such a change are
  not pushed; clients find them at their next fetch.

Worth knowing, and contradicted by no document.  An unlock that throws leaves the
advisory lock on its session, which `LockIsInUse` excepts and nothing more: the
catch block of `AcquireDeliveryLeaseAsync` (`ConversationOutboxRepository.cs:192`)
then skips `DisposeAsync`, and transfers, archivals and approvals of that
conversation wait until the process ends, while its later events fail to get the
lock and are dead-lettered; `DeliveryLease` (`:329`) returns the connection to the
pool, which gives the lock up when it uses the connection again.  `EventIsSettled`
holds all the same, as a dead letter settles an event.  A connection admitted while the
stamp is being replaced is found by the monitor only (`RevokedIsDriven`,
`ReturnedMeansDriven` speaks of the connections registered at the commit), and a
rotation whose answer to COMMIT is lost notifies nobody.  In the mode
`MalwareScanning`, which `Database/README.md` keeps for the future, `PromoteAsync`
writes the upload under the size of its canonical form: an image whose size changes
is never published and ends as ScanFailed (`Writable`).  A tenant's reservations may
exceed its limit by what encoding images anew adds after their intents were admitted;
what was declared does not (`DeclaredWithinLimit`).  The cleanup of
`LoginThrottleStore` selects the keys of stale rows on a snapshot and deletes by
key: a bucket touched while the deletion waits for its row goes with the stale
ones, and one permit or one failure is forgotten.

A file that an upload or a slow worker writes after its row had its last deletion is
not found again: no later job looks at a row that is done.  `ReleasedStorageIsGone`
excepts these files (`late`) and shows that all others are gone.

The pages do a few things one would not expect, which no document contradicts;
each is a step of a model, and where a property would not hold because of it, the
property excepts it by name.

* The answer to the page's own send enters the store without the test for a gap
  (`messaging/client.js:266`): what others wrote just before stays missing, as later
  fetches start behind it (`skipped`).  So do messages before an event whose fetch
  failed, and a conversation left while its join was waiting may stay joined on the
  client (`ghosts`).
* Unsent messages can be lost (`lost`).  When localStorage refuses to be written
  the entry is kept in memory, and "still supports retries in this page"
  (`messaging/store.js:217`), but only if nothing older is stored for the
  conversation: what is stored is read first (`:198`) and hides it.  A reload loses
  what is in memory only.  Archiving a conversation drops all of its unsent messages
  (`removeConversation`, `:137`), also one whose request is still under way.
* `poll` reads `item.id` before its `await` (`attachments.js:156`, `:188`): of two
  checks of one item the late one may speak of an upload the item no longer has, and
  if it is a failure, Retry is offered while the next upload is under way
  (`attachments.js:216`), which is then left behind.  The attempt to prove
  `NothingIsLeftBehind` found this case; `mixed` is what remains excepted.
* The answer to a DELETE of an upload is not acted on (`cancelRemote`,
  `attachments.js:228`): an upload it did not reach stays on the server until its
  deadline.  `NothingIsLeftBehind` is about the request being made.
* Files in the list when access to their conversation is removed stay in the
  composer and may go with the next conversation's message (`strays`).
* A load of messages that fails does not ask which conversation is open
  (`chat.js:665`): its error replaces the panel of another one.
* When an unsent text is shown while the panel says that there are no messages, or
  shows an error, that is taken out (`renderPendingMessage`, `chat.js:813`): the
  panel then has that row without the messages of the store.  `PanelIsFaithful`
  is about panels that show loaded messages.
* Text typed again while the same text is being sent is cleared from the drafts when
  the send succeeds (`client.js:268`); `TextIsKept` counts it as delivered.
* The answer to an admin's send is shown in the panel that is open by then
  (`admin-chat.js:658`, `misplaced`) and empties the input if it holds the same text
  for another conversation (`swallowed`).
* Details that arrive late are shown for a client that is no longer chosen
  (`admin-tickets.js:181`), and the answer to a save writes its version into whatever
  case is shown by then (`admin-inquiries.js:249`, `grafted`): the next save of that
  case may overwrite a change nobody saw.
* A group created for a client that is no longer chosen fills the lists with that
  client's (`group`).
* Marking all notifications as read takes the mark off those that came since, until
  the next load.
* The creation of a ticket or an inquiry carries no identifier (`chat.js:1238`): when
  the answer is lost and the user submits again there are two.

## 8. What is not modelled

* The sums of sizes of a message, the warning at 80 per cent of a quota, a change of
  `SecurityMode` while rows are in flight, temporary files left by a crash, company
  file rows removed by other systems (`FinalizeDeletionAsync` then throws for ever).
* What the content checks compute: a constant, `Clean`.
* The payload of events, the notification pushes that follow a publication, and
  the switches that turn a kind of conversation off.
* Tenant and account activity checks and `expectedVersion`: they only refuse, so
  the models without them have more behaviours.
* Uniqueness of private pairs and groups, and the races for them: module D.
* The expiry of cookies and bearer tokens, the protection keys, password hashing,
  a clock that goes back, the command timeout of the database driver (the monitor
  is assumed to get an answer or an exception).
* Of the browser: read cursors and unread counts, typing indicators, floating chat
  boxes, the dialogs for private chats, the forms and tables of tickets and
  inquiries on the client page, the mobile layout, a reload of the client page and a
  localStorage that refuses its drafts (an older draft stored there then hides the
  newer one in memory; for unsent messages both are in `MessagingClient`), two pages
  of one user that share a localStorage, archivals from elsewhere in the store,
  `loadOlder` and `replace` (which no page calls), the composer of the console (the
  client page's code), charts and exports, toasts and formatting (`admin-utils.js`),
  and `admin.js`, which no view loads.
* Who is notified of what: `NotificationBell` has one recipient and lets
  notifications arrive; the selection of recipients is module H.
* Read-only queries, controllers, configuration, migrations, the audit log.
