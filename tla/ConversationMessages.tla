------------------------ MODULE ConversationMessages ------------------------
(***************************************************************************)
(* Messages of a conversation: numbering, idempotent sending and read      *)
(* cursors (ConversationRepository).                                       *)
(*                                                                         *)
(* SendMessageAsync is one transaction of several statements; its locks    *)
(* (the access row, the advisory lock on the client message id, the row of *)
(* the sequence allocator) are held until the transaction ends, and what   *)
(* it writes is seen by others when it has committed.  The other commands  *)
(* take the access row first and nothing else that can be waited for: they *)
(* are atomic steps that wait for that row.                                *)
(*                                                                         *)
(* A content is a text with its list of attachments.                       *)
(***************************************************************************)
EXTENDS Integers

CONSTANTS
    Requests,       \* bound: the send requests there may be
    Conversations,
    Private,        \* between one client and one admin
    Cases,          \* tickets and inquiries; the others are group chats
    Clients,        \* active users of the client
    Admins,         \* active admins
    Keys,           \* client message ids
    Contents,
    Nothing         \* no key, no call

Users == Clients \cup Admins

Calls == [conversation : Conversations, by : Users, key : Keys, content : Contents]

ASSUME MessagesAssumption ==
    /\ Private \subseteq Conversations /\ Cases \subseteq Conversations
    /\ Private \cap Cases = {}
    /\ Nothing \notin Keys \cup Calls

VARIABLES
    state,          \* conversation_access.state; "Absent" before creation
    members,        \* who passes the check of GetAccessForUpdateAsync
    next,           \* conversation_sequences.next_sequence
    messages,       \* the messages in digital.instructions, by conversation
    cursor,         \* conversation_read_cursors.last_read_sequence
    call,           \* what each request asks for
    phase,          \* the last statement of its transaction
    sequence,       \* the sequence it allocated or found
    answer          \* the ConversationCommandResult it returned

conversationVars == <<state, members, next, messages, cursor>>
requestVars == <<call, phase, sequence, answer>>
vars == <<conversationVars, requestVars>>

States == {"Absent", "NeedsReview", "Active", "Archived"}
Phases == {"idle", "begun", "access", "keyed", "fresh", "allocated", "done"}
Answers == {"none", "Created", "Replayed", "Conflict", "Unavailable", "Failed"}

Message == [sequence : Nat \ {0}, key : Keys \cup {Nothing}, by : Users,
            content : Contents]

TypeOK ==
    /\ state \in [Conversations -> States]
    /\ members \in [Conversations -> SUBSET Users]
    /\ next \in [Conversations -> Nat \ {0}]
    /\ messages \in [Conversations -> SUBSET Message]
    /\ cursor \in [Conversations -> [Users -> Nat]]
    /\ call \in [Requests -> Calls \cup {Nothing}]
    /\ phase \in [Requests -> Phases]
    /\ sequence \in [Requests -> Nat]
    /\ answer \in [Requests -> Answers]

(* A conversation that needs review is a private one from before. *)
Init ==
    /\ state \in [Conversations -> {"Absent", "NeedsReview"}]
    /\ \A c \in Conversations \ Private : state[c] = "Absent"
    /\ members = [c \in Conversations |-> {}]
    /\ next = [c \in Conversations |-> 1]
    /\ messages = [c \in Conversations |-> {}]
    /\ cursor = [c \in Conversations |-> [u \in Users |-> 0]]
    /\ call = [r \in Requests |-> Nothing]
    /\ phase = [r \in Requests |-> "idle"]
    /\ sequence = [r \in Requests |-> 0]
    /\ answer = [r \in Requests |-> "none"]

----------------------------------------------------------------------------
(* Creation.  The row of a group or of a private chat is a sentinel with
   sequence 0, not a message; that of a case is its first message. *)

Establish(c, M) ==
    /\ state' = [state EXCEPT ![c] = "Active"]
    /\ members' = [members EXCEPT ![c] = M]
    /\ UNCHANGED <<cursor, requestVars>>

AfterCaseRoot(c) == next' = [next EXCEPT ![c] = 2]

CreateCase(c, u, text) ==
    /\ c \in Cases
    /\ state[c] = "Absent"
    /\ messages' = [messages EXCEPT ![c] =
                       {[sequence |-> 1, key |-> Nothing, by |-> u, content |-> text]}]
    /\ AfterCaseRoot(c)
    /\ Establish(c, Users)

GetOrCreateGroup(c) ==
    /\ c \notin Cases \cup Private
    /\ state[c] = "Absent"
    /\ UNCHANGED <<next, messages>>
    /\ Establish(c, Users)

GetOrCreatePrivate(c, u, p) ==
    /\ c \in Private
    /\ state[c] = "Absent"
    /\ UNCHANGED <<next, messages>>
    /\ Establish(c, {u, p})

----------------------------------------------------------------------------
(* Locks: who stands after the statement that takes one has it. *)

InTransaction == {"access", "keyed", "fresh", "allocated"}
HoldingKey == {"keyed", "fresh", "allocated"}

RowFree(c) ==
    \A r \in Requests : phase[r] \in InTransaction => call[r].conversation # c

(* Mutant: pg_advisory_lock, which a commit does not release. *)
KeyFreeSession(k) ==
    \A r \in Requests :
        call[r] # Nothing /\ call[r].key = k
        => phase[r] \notin HoldingKey /\ answer[r] # "Created"

KeyFree(k) ==
    \A r \in Requests : phase[r] \in HoldingKey => call[r].key # k

AllocatorFree(c) ==
    \A r \in Requests : phase[r] = "allocated" => call[r].conversation # c

----------------------------------------------------------------------------
(* SendMessageAsync. *)

Begin(r, a) ==
    /\ phase[r] = "idle"
    /\ phase' = [phase EXCEPT ![r] = "begun"]
    /\ call' = [call EXCEPT ![r] = a]
    /\ UNCHANGED <<conversationVars, sequence, answer>>

Goto(r, p) ==
    /\ phase' = [phase EXCEPT ![r] = p]
    /\ UNCHANGED <<conversationVars, call, sequence, answer>>

Return(r, a, n) ==
    /\ phase' = [phase EXCEPT ![r] = "done"]
    /\ answer' = [answer EXCEPT ![r] = a]
    /\ sequence' = [sequence EXCEPT ![r] = n]
    /\ UNCHANGED call

(* Mutant: any user of the conversation's tenant passes. *)
MayAccessState(c, u) == state[c] = "Active"

MayAccess(c, u) == state[c] = "Active" /\ u \in members[c]

(* GetAccessForUpdateAsync; attachments may be switched off. *)
LockAccess(r) ==
    /\ phase[r] = "begun"
    /\ RowFree(call[r].conversation)
    /\ IF MayAccess(call[r].conversation, call[r].by)
       THEN \/ Goto(r, "access")
            \/ Return(r, "Conflict", 0) /\ UNCHANGED conversationVars
       ELSE Return(r, "Unavailable", 0) /\ UNCHANGED conversationVars

LockKey(r) ==
    /\ phase[r] = "access"
    /\ KeyFree(call[r].key)
    /\ Goto(r, "keyed")

SameCall(r, c, m) ==
    /\ c = call[r].conversation
    /\ m.by = call[r].by /\ m.content = call[r].content

KeyUsed(k) == \E c \in Conversations : \E m \in messages[c] : m.key = k

(* The message with this client message id is the same one, or a conflict. *)
LookUp(r) ==
    /\ phase[r] = "keyed"
    /\ \/ ~KeyUsed(call[r].key) /\ Goto(r, "fresh")
       \/ \E c \in Conversations : \E m \in messages[c] :
             /\ m.key = call[r].key
             /\ IF SameCall(r, c, m)
                THEN Return(r, "Replayed", m.sequence)
                ELSE Return(r, "Conflict", 0)
             /\ UNCHANGED conversationVars

(* An attachment cannot be bound (see AttachmentLifecycle.Bind): found when they
   are checked, or when they are bound. *)
RefuseAttachments(r) ==
    /\ phase[r] \in {"fresh", "allocated"}
    /\ Return(r, "Conflict", 0)
    /\ UNCHANGED conversationVars

(* Mutant: the sequence is allocated in a transaction of its own. *)
AllocateApart(r) ==
    /\ phase[r] = "fresh"
    /\ AllocatorFree(call[r].conversation)
    /\ phase' = [phase EXCEPT ![r] = "allocated"]
    /\ sequence' = [sequence EXCEPT ![r] = next[call[r].conversation]]
    /\ next' = [next EXCEPT ![call[r].conversation] = @ + 1]
    /\ UNCHANGED <<state, members, messages, cursor, call, answer>>

(* UPDATE ... RETURNING: others see the new next_sequence after the commit. *)
Allocate(r) ==
    /\ phase[r] = "fresh"
    /\ AllocatorFree(call[r].conversation)
    /\ phase' = [phase EXCEPT ![r] = "allocated"]
    /\ sequence' = [sequence EXCEPT ![r] = next[call[r].conversation]]
    /\ UNCHANGED <<conversationVars, call, answer>>

Draft(r) == [sequence |-> sequence[r], key |-> call[r].key, by |-> call[r].by,
             content |-> call[r].content]

(* The insert is refused when the key is used, by now; otherwise the commit
   shows the message and the allocator, whether or not it is acknowledged. *)
Commit(r) ==
    /\ phase[r] = "allocated"
    /\ IF KeyUsed(call[r].key)
       THEN Return(r, "Failed", 0) /\ UNCHANGED <<next, messages>>
       ELSE LET c == call[r].conversation IN
            /\ messages' = [messages EXCEPT ![c] = @ \cup {Draft(r)}]
            /\ next' = [next EXCEPT ![c] = sequence[r] + 1]
            /\ \/ Return(r, "Created", sequence[r])
               \/ Return(r, "Failed", 0)
    /\ UNCHANGED <<state, members, cursor>>

(* The call is cancelled, the connection or the process is lost: rollback. *)
Abort(r) ==
    /\ phase[r] \in InTransaction \cup {"begun"}
    /\ Return(r, "Failed", 0)
    /\ UNCHANGED conversationVars

----------------------------------------------------------------------------
(* The other commands on the access row. *)

NotAhead(c, n) == n <= next[c] - 1

Greatest(old, n) == IF n > old THEN n ELSE old

AdvanceReadCursor(c, u, n) ==
    /\ RowFree(c)
    /\ MayAccess(c, u)
    /\ NotAhead(c, n)
    /\ cursor' = [cursor EXCEPT ![c][u] = Greatest(@, n)]
    /\ UNCHANGED <<state, members, next, messages, requestVars>>

ChangeAccess(c, s, M) ==
    /\ c \in Private
    /\ RowFree(c)
    /\ state' = [state EXCEPT ![c] = s]
    /\ members' = [members EXCEPT ![c] = M]
    /\ UNCHANGED <<next, messages, cursor, requestVars>>

Transfer(c, p) ==
    state[c] = "Active" /\ ChangeAccess(c, "Active", (members[c] \ Admins) \cup {p})

Archive(c) == state[c] = "Active" /\ ChangeAccess(c, "Archived", members[c])

ApproveLegacyPrivate(c, u, p) ==
    state[c] = "NeedsReview" /\ ChangeAccess(c, "Active", {u, p})

----------------------------------------------------------------------------
Progress(r) ==
    LockAccess(r) \/ LockKey(r) \/ LookUp(r) \/ Allocate(r) \/ Commit(r)

Command(c) ==
    \/ GetOrCreateGroup(c) \/ Archive(c)
    \/ \E u \in Users, text \in Contents : CreateCase(c, u, text)
    \/ \E u \in Users, n \in 1 .. 1 + next[c] : AdvanceReadCursor(c, u, n)
    \/ \E p \in Admins : Transfer(c, p)
    \/ \E u \in Clients, p \in Admins :
          GetOrCreatePrivate(c, u, p) \/ ApproveLegacyPrivate(c, u, p)

Next ==
    \/ \E c \in Conversations : Command(c)
    \/ \E r \in Requests : \/ Progress(r) \/ RefuseAttachments(r) \/ Abort(r)
                           \/ \E a \in Calls : Begin(r, a)

Spec == Init /\ [][Next]_vars

----------------------------------------------------------------------------
(* Safety. *)

(* The messages of a conversation are numbered 1, 2, 3, ... up to the allocator,
   although senders fail, are cancelled or lose their answer after they have
   drawn a number: a reader that asks for what follows its last number misses
   nothing, and unread counts are differences of numbers. *)
SequencesDense ==
    \A c \in Conversations :
        {m.sequence : m \in messages[c]} = 1 .. next[c] - 1

(* The unique index on client message ids never has to refuse a message, not even
   when the same id is sent to two conversations at once: the later request waits
   for the earlier one and then sees its message. *)
KeysNeverCollide ==
    \A r \in Requests :
        phase[r] \in {"fresh", "allocated"} => ~KeyUsed(call[r].key)

(* Nobody has read what is not there, whatever is sent meanwhile. *)
CursorsBehind ==
    \A c \in Conversations, u \in Users : cursor[c][u] < next[c]

(* What transactions that are under way rely on: their sender keeps access until
   they end, their locks exclude each other, and the number drawn stays free. *)
AccessInv ==
    \A r \in Requests :
        /\ phase[r] # "idle" => call[r] # Nothing
        /\ phase[r] \in InTransaction => MayAccess(call[r].conversation, call[r].by)

RowLockInv ==
    \A r, q \in Requests :
        phase[r] \in InTransaction /\ phase[q] \in InTransaction /\ r # q
        => call[r].conversation # call[q].conversation

KeyLockInv ==
    \A r, q \in Requests :
        phase[r] \in HoldingKey /\ phase[q] \in HoldingKey /\ r # q
        => call[r].key # call[q].key

AllocationInv ==
    \A r \in Requests :
        phase[r] = "allocated" => sequence[r] = next[call[r].conversation]

Confirmed == {r \in Requests : answer[r] \in {"Created", "Replayed"}}

(* What callers were told is stored. *)
RecordInv ==
    /\ \A c \in Conversations : state[c] = "Absent" => messages[c] = {}
    /\ \A r \in Requests : phase[r] # "done" => answer[r] = "none"
    /\ \A r \in Confirmed : Draft(r) \in messages[call[r].conversation]

(* The inductive invariant of the proofs, with TypeOK. *)
MessagesInv ==
    /\ SequencesDense /\ KeysNeverCollide /\ CursorsBehind
    /\ AccessInv /\ RowLockInv /\ KeyLockInv /\ AllocationInv /\ RecordInv

----------------------------------------------------------------------------
(* The guards of Progress: what a request's next statement waits for is free. *)
CanGoOn(r) ==
    \/ phase[r] = "begun" /\ RowFree(call[r].conversation)
    \/ phase[r] = "access" /\ KeyFree(call[r].key)
    \/ phase[r] \in {"keyed", "allocated"}
    \/ phase[r] = "fresh" /\ AllocatorFree(call[r].conversation)

UnderWay == {r \in Requests : phase[r] \in {"begun"} \cup InTransaction}

(* q holds the lock that r waits for. *)
Blocks(q, r) ==
    \/ /\ phase[r] = "begun" /\ phase[q] \in InTransaction
       /\ call[q].conversation = call[r].conversation
    \/ phase[r] = "access" /\ phase[q] \in HoldingKey /\ call[q].key = call[r].key
    \/ /\ phase[r] = "fresh" /\ phase[q] = "allocated"
       /\ call[q].conversation = call[r].conversation

(* No requests wait for each other in a circle, and no wait is a long one, whatever
   conversations and client message ids they share: a request under way can take
   its next step, or one single request stands in its way that can take its own, or
   that waits in turn for one that can.  A request takes at most five steps, so all
   are answered when statements return and PostgreSQL serves waiters in turn. *)
WaitsAreShort ==
    \A r \in UnderWay :
        /\ \A q, s \in UnderWay : Blocks(q, r) /\ Blocks(s, r) => q = s
        /\ \/ CanGoOn(r)
           \/ \E q \in UnderWay :
                 /\ Blocks(q, r)
                 /\ CanGoOn(q) \/ \E s \in UnderWay : Blocks(s, q) /\ CanGoOn(s)

----------------------------------------------------------------------------
(* What all this amounts to for writers and readers. *)

Writers == [c \in Conversations |-> IF state[c] = "Active" THEN members[c] ELSE {}]

Told == {<<call[r].conversation, Draft(r)>> : r \in Confirmed}

Promise == INSTANCE MessagePromise WITH
    writers <- Writers, posted <- messages, readTo <- cursor, told <- Told

(* Every step of a transaction is a step of the promise or none. *)
PromiseIsKept == Promise!Spec
=============================================================================
