--------------------------- MODULE MessagePromise ---------------------------
(* What conversations promise to those who write and read them, without the
   transactions that keep it: each is a log that only grows at its end, by those
   who take part in it, whatever is sent twice. *)
EXTENDS Integers

CONSTANTS
    Conversations,
    Users,
    Nothing         \* the key of a message that was given none

VARIABLES
    writers,        \* who may write to each conversation now
    posted,         \* the messages of each conversation
    readTo,         \* how far each user has read
    told            \* the confirmations callers received

promiseVars == <<writers, posted, readTo, told>>

Sequences(c) == {m.sequence : m \in posted[c]}

PromiseInit ==
    /\ writers \in [Conversations -> SUBSET Users]
    /\ posted = [c \in Conversations |-> {}]
    /\ readTo = [c \in Conversations |-> [u \in Users |-> 0]]
    /\ told = {}

(* Who takes part may change at any time. *)
Assign(c) ==
    /\ \E W \in SUBSET Users : writers' = [writers EXCEPT ![c] = W]
    /\ UNCHANGED <<posted, readTo, told>>

(* A message takes the place after the last one; a key is used once, in one
   conversation. *)
Post(c, m) ==
    /\ m.by \in writers[c]
    /\ Sequences(c) = 1 .. m.sequence - 1
    /\ \A d \in Conversations : \A x \in posted[d] : x.key = Nothing \/ x.key # m.key
    /\ posted' = [posted EXCEPT ![c] = @ \cup {m}]

(* A case is opened with its first message. *)
Open(c, m) ==
    /\ m.sequence = 1 /\ m.key = Nothing
    /\ posted[c] = {}
    /\ \E W \in SUBSET Users : m.by \in W /\ writers' = [writers EXCEPT ![c] = W]
    /\ posted' = [posted EXCEPT ![c] = {m}]
    /\ UNCHANGED <<readTo, told>>

(* What a caller is told is in the log: when it is posted, or again later. *)
Confirm(c, m) == told' = told \cup {<<c, m>>}

Send(c, m) ==
    /\ Post(c, m)
    /\ Confirm(c, m) \/ UNCHANGED told
    /\ UNCHANGED <<writers, readTo>>

Replay(c, m) ==
    /\ m \in posted[c]
    /\ Confirm(c, m)
    /\ UNCHANGED <<writers, posted, readTo>>

(* Readers only advance, and never past the end of the log. *)
Read(c, u, n) ==
    /\ n > readTo[c][u]
    /\ readTo' = [readTo EXCEPT ![c][u] = n]
    /\ UNCHANGED <<writers, posted, told>>

PromiseNext ==
    \E c \in Conversations :
        \/ Assign(c)
        \/ \E m \in posted'[c] : Open(c, m) \/ Send(c, m) \/ Replay(c, m)
        \/ \E u \in Users, n \in Sequences(c) : Read(c, u, n)

Spec == PromiseInit /\ [][PromiseNext]_promiseVars
=============================================================================
