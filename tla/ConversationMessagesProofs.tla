--------------------- MODULE ConversationMessagesProofs ---------------------
(***************************************************************************)
(* Proofs about ConversationMessages, for any requests, conversations,     *)
(* users and client message ids.  TypeOK and MessagesInv are inductive     *)
(* together: a message has a positive number because its sender's          *)
(* allocator row is still locked.                                          *)
(***************************************************************************)
EXTENDS ConversationMessages, TLAPS

Inv == TypeOK /\ MessagesInv

LEMMA CallTyped ==
    ASSUME Inv, NEW r \in Requests, phase[r] # "idle"
    PROVE  /\ call[r] \in Calls
           /\ call[r].conversation \in Conversations
           /\ call[r].by \in Users /\ call[r].key \in Keys
           /\ call[r].content \in Contents
BY DEF Inv, TypeOK, MessagesInv, AccessInv, Calls

LEMMA InitInv == Init => Inv
<1>. SUFFICES ASSUME Init PROVE Inv
  OBVIOUS
<1>1. TypeOK
  BY DEF Init, TypeOK, States, Phases, Answers
<1>2. SequencesDense
  <2>. SUFFICES ASSUME NEW c \in Conversations
                PROVE {m.sequence : m \in messages[c]} = 1 .. next[c] - 1
    BY DEF SequencesDense
  <2>. messages[c] = {} /\ next[c] = 1
    BY DEF Init
  <2>. QED
    BY SMT
<1>3. KeysNeverCollide /\ CursorsBehind
  BY DEF Init, KeysNeverCollide, CursorsBehind
<1>4. AccessInv /\ RowLockInv /\ KeyLockInv /\ AllocationInv
  BY DEF Init, AccessInv, RowLockInv, KeyLockInv, AllocationInv, InTransaction, HoldingKey
<1>5. RecordInv
  BY DEF Init, RecordInv, Confirmed
<1>. QED
  BY <1>1, <1>2, <1>3, <1>4, <1>5 DEF Inv, MessagesInv

----------------------------------------------------------------------------
(* A statement of a request that has begun and that leaves the conversations
   alone: p, n and a are its next phase, sequence and answer. *)
LEMMA QuietInv ==
    ASSUME Inv, NEW r \in Requests, phase[r] \notin {"idle", "done"},
           NEW p \in Phases \ {"idle"}, NEW n \in Nat, NEW a \in Answers,
           UNCHANGED <<conversationVars, call>>,
           phase' = [phase EXCEPT ![r] = p],
           sequence' = [sequence EXCEPT ![r] = n],
           answer' = [answer EXCEPT ![r] = a],
           p \in InTransaction =>
              /\ MayAccess(call[r].conversation, call[r].by)
              /\ phase[r] \in InTransaction \/ RowFree(call[r].conversation),
           p \in HoldingKey => phase[r] \in HoldingKey \/ KeyFree(call[r].key),
           p \in {"fresh", "allocated"} => ~KeyUsed(call[r].key),
           p = "allocated" => n = next[call[r].conversation],
           p # "done" => a = "none",
           a \in {"Created", "Replayed"} =>
              [sequence |-> n, key |-> call[r].key, by |-> call[r].by,
               content |-> call[r].content] \in messages[call[r].conversation]
    PROVE  Inv'
<1>0. /\ TypeOK /\ phase \in [Requests -> Phases]
      /\ sequence \in [Requests -> Nat] /\ answer \in [Requests -> Answers]
  BY DEF Inv, TypeOK
<1>1. TypeOK'
  BY <1>0 DEF TypeOK, conversationVars
<1>2. SequencesDense' /\ CursorsBehind'
  BY DEF Inv, MessagesInv, SequencesDense, CursorsBehind, conversationVars
<1>3. \A q \in Requests : KeyUsed(call[q].key)' = KeyUsed(call[q].key)
  BY DEF KeyUsed, conversationVars
<1>4. KeysNeverCollide'
  BY <1>0, <1>3 DEF Inv, MessagesInv, KeysNeverCollide
<1>5. AccessInv'
  BY <1>0 DEF Inv, MessagesInv, AccessInv, MayAccess, conversationVars
<1>6. RowLockInv'
  BY <1>0 DEF Inv, MessagesInv, RowLockInv, RowFree
<1>7. KeyLockInv'
  BY <1>0 DEF Inv, MessagesInv, KeyLockInv, KeyFree
<1>8. AllocationInv'
  BY <1>0 DEF Inv, MessagesInv, AllocationInv, conversationVars
<1>9. RecordInv'
  <2>1. Draft(r)' = [sequence |-> n, key |-> call[r].key, by |-> call[r].by,
                     content |-> call[r].content]
    BY <1>0 DEF Draft
  <2>2. \A q \in Requests \ {r} : Draft(q)' = Draft(q) /\ answer'[q] = answer[q]
    BY <1>0 DEF Draft
  <2>3. \A q \in Confirmed' : Draft(q)' \in messages'[call'[q].conversation]
    BY <1>0, <2>1, <2>2 DEF Inv, MessagesInv, RecordInv, Confirmed, conversationVars
  <2>. QED
    BY <1>0, <2>3 DEF Inv, MessagesInv, RecordInv, conversationVars
<1>. QED
  BY <1>1, <1>2, <1>4, <1>5, <1>6, <1>7, <1>8, <1>9 DEF Inv, MessagesInv

LEMMA BeginInv ==
    ASSUME Inv, NEW r \in Requests, NEW a \in Calls, Begin(r, a)
    PROVE  Inv'
<1>0. /\ TypeOK /\ phase \in [Requests -> Phases] /\ phase'[r] = "begun"
      /\ call'[r] = a /\ answer[r] = "none"
      /\ \A q \in Requests \ {r} : phase'[q] = phase[q] /\ call'[q] = call[q]
      /\ UNCHANGED <<conversationVars, sequence, answer>>
  BY DEF Inv, TypeOK, Begin, MessagesInv, RecordInv
<1>1. TypeOK'
  BY DEF Begin, Inv, TypeOK, conversationVars, Phases
<1>2. SequencesDense' /\ CursorsBehind'
  BY <1>0 DEF Inv, MessagesInv, SequencesDense, CursorsBehind, conversationVars
<1>3. KeysNeverCollide'
  BY <1>0 DEF Inv, MessagesInv, KeysNeverCollide, KeyUsed, conversationVars
<1>4. AccessInv'
  BY <1>0, MessagesAssumption
  DEF Inv, MessagesInv, AccessInv, MayAccess, InTransaction, conversationVars
<1>5. RowLockInv'
  BY <1>0 DEF Inv, MessagesInv, RowLockInv, InTransaction
<1>6. KeyLockInv'
  BY <1>0 DEF Inv, MessagesInv, KeyLockInv, HoldingKey
<1>7. AllocationInv'
  BY <1>0 DEF Inv, MessagesInv, AllocationInv, conversationVars
<1>8. RecordInv'
  BY <1>0 DEF Inv, MessagesInv, RecordInv, Confirmed, Draft, conversationVars
<1>. QED
  BY <1>1, <1>2, <1>3, <1>4, <1>5, <1>6, <1>7, <1>8 DEF Inv, MessagesInv

LEMMA GotoInv ==
    ASSUME Inv, NEW r \in Requests, phase[r] \notin {"idle", "done"},
           NEW p \in {"access", "keyed", "fresh"}, Goto(r, p),
           /\ MayAccess(call[r].conversation, call[r].by)
           /\ phase[r] \in InTransaction \/ RowFree(call[r].conversation),
           p \in HoldingKey => phase[r] \in HoldingKey \/ KeyFree(call[r].key),
           p = "fresh" => ~KeyUsed(call[r].key)
    PROVE  Inv'
<1>1. /\ sequence[r] \in Nat /\ answer[r] \in Answers /\ answer[r] = "none"
      /\ sequence' = [sequence EXCEPT ![r] = sequence[r]]
      /\ answer' = [answer EXCEPT ![r] = answer[r]]
  BY DEF Goto, Inv, TypeOK, MessagesInv, RecordInv
<1>2. p \in Phases \ {"idle"} /\ p \notin {"allocated", "done"}
  BY DEF Phases
<1>3. UNCHANGED <<conversationVars, call>> /\ phase' = [phase EXCEPT ![r] = p]
  BY DEF Goto
<1>. QED
  BY <1>1, <1>2, <1>3, QuietInv

LEMMA ReturnInv ==
    ASSUME Inv, NEW r \in Requests, phase[r] \notin {"idle", "done"},
           NEW a \in Answers, NEW n \in Nat, Return(r, a, n),
           UNCHANGED conversationVars,
           a \in {"Created", "Replayed"} =>
              [sequence |-> n, key |-> call[r].key, by |-> call[r].by,
               content |-> call[r].content] \in messages[call[r].conversation]
    PROVE  Inv'
BY QuietInv DEF Return, Phases, InTransaction, HoldingKey

----------------------------------------------------------------------------
(* SendMessageAsync, statement by statement. *)

LEMMA LockAccessInv == ASSUME Inv, NEW r \in Requests, LockAccess(r) PROVE Inv'
<1>0. phase[r] = "begun"
  BY DEF LockAccess
<1>1. CASE MayAccess(call[r].conversation, call[r].by)
  BY <1>0, <1>1, GotoInv, ReturnInv DEF LockAccess, HoldingKey, Answers
<1>2. CASE ~MayAccess(call[r].conversation, call[r].by)
  BY <1>0, <1>2, ReturnInv DEF LockAccess, Answers
<1>. QED
  BY <1>1, <1>2

LEMMA LockKeyInv == ASSUME Inv, NEW r \in Requests, LockKey(r) PROVE Inv'
<1>1. /\ phase[r] = "access" /\ KeyFree(call[r].key) /\ Goto(r, "keyed")
      /\ MayAccess(call[r].conversation, call[r].by)
  BY DEF LockKey, Inv, MessagesInv, AccessInv, InTransaction
<1>. QED
  BY <1>1, GotoInv DEF InTransaction

LEMMA LookUpInv == ASSUME Inv, NEW r \in Requests, LookUp(r) PROVE Inv'
<1>0. /\ phase[r] = "keyed" /\ MayAccess(call[r].conversation, call[r].by)
      /\ call[r].conversation \in Conversations
  BY CallTyped DEF LookUp, Inv, MessagesInv, AccessInv, InTransaction
<1>1. CASE ~KeyUsed(call[r].key) /\ Goto(r, "fresh")
  BY <1>0, <1>1, GotoInv DEF InTransaction, HoldingKey
<1>2. ASSUME NEW c \in Conversations, NEW m \in messages[c], m.key = call[r].key,
             UNCHANGED conversationVars,
             IF SameCall(r, c, m) THEN Return(r, "Replayed", m.sequence)
                                  ELSE Return(r, "Conflict", 0)
      PROVE  Inv'
  <2>1. m \in Message
    BY DEF Inv, TypeOK
  <2>2. CASE SameCall(r, c, m)
    <3>1. m = [sequence |-> m.sequence, key |-> call[r].key, by |-> call[r].by,
               content |-> call[r].content]
      BY <1>2, <2>1, <2>2 DEF SameCall, Message
    <3>2. m \in messages[call[r].conversation] /\ m.sequence \in Nat
      BY <2>1, <2>2 DEF SameCall, Message
    <3>. QED
      BY <1>0, <1>2, <2>2, <3>1, <3>2, ReturnInv DEF Answers
  <2>3. CASE ~SameCall(r, c, m)
    BY <1>0, <1>2, <2>3, ReturnInv DEF Answers
  <2>. QED
    BY <2>2, <2>3
<1>. QED
  BY <1>1, <1>2 DEF LookUp

LEMMA RefuseInv ==
    ASSUME Inv, NEW r \in Requests, RefuseAttachments(r) \/ Abort(r) PROVE Inv'
BY ReturnInv DEF RefuseAttachments, Abort, InTransaction, Answers

LEMMA AllocateInv == ASSUME Inv, NEW r \in Requests, Allocate(r) PROVE Inv'
<1>1. /\ phase[r] = "fresh" /\ MayAccess(call[r].conversation, call[r].by)
      /\ call[r].conversation \in Conversations /\ ~KeyUsed(call[r].key)
      /\ answer[r] \in Answers /\ answer[r] = "none"
      /\ answer' = [answer EXCEPT ![r] = answer[r]]
  BY CallTyped DEF Allocate, Inv, TypeOK, MessagesInv, AccessInv, InTransaction,
     KeysNeverCollide, RecordInv
<1>2. next[call[r].conversation] \in Nat
  BY <1>1 DEF Inv, TypeOK
<1>. QED
  BY <1>1, <1>2, QuietInv DEF Allocate, Phases, InTransaction, HoldingKey

(* The message takes the place that the access row and the allocator row keep. *)
LEMMA CommitInv == ASSUME Inv, NEW r \in Requests, Commit(r) PROVE Inv'
<1>. DEFINE c == call[r].conversation
<1>0. /\ phase[r] = "allocated" /\ c \in Conversations /\ ~KeyUsed(call[r].key)
      /\ call[r] \in Calls /\ MayAccess(c, call[r].by)
      /\ sequence[r] = next[c] /\ next[c] \in Nat \ {0}
  BY CallTyped DEF Commit, Inv, TypeOK, MessagesInv, KeysNeverCollide, AccessInv,
     AllocationInv, InTransaction
<1>1. /\ messages' = [messages EXCEPT ![c] = @ \cup {Draft(r)}]
      /\ next' = [next EXCEPT ![c] = sequence[r] + 1]
      /\ UNCHANGED <<state, members, cursor, call>>
      /\ phase' = [phase EXCEPT ![r] = "done"]
      /\ \E a \in {"Created", "Failed"}, n \in {0, sequence[r]} :
            /\ answer' = [answer EXCEPT ![r] = a]
            /\ sequence' = [sequence EXCEPT ![r] = n]
            /\ a = "Created" => n = sequence[r]
  BY <1>0 DEF Commit, Return
<1>2. Draft(r) \in Message /\ Draft(r).sequence = next[c] /\ Draft(r).key = call[r].key
  BY <1>0 DEF Draft, Message, Calls
<1>3. TypeOK /\ \A d \in Conversations \ {c} :
                   messages'[d] = messages[d] /\ next'[d] = next[d]
  BY <1>1 DEF Inv, TypeOK
<1>4. messages'[c] = messages[c] \cup {Draft(r)} /\ next'[c] = next[c] + 1
  BY <1>0, <1>1 DEF Inv, TypeOK
<1>5. TypeOK'
  <2>1. messages' \in [Conversations -> SUBSET Message]
    BY <1>0, <1>1, <1>2, <1>3 DEF TypeOK
  <2>2. next' \in [Conversations -> Nat \ {0}]
    BY <1>0, <1>1, <1>3 DEF TypeOK
  <2>3. phase' \in [Requests -> Phases] /\ answer' \in [Requests -> Answers]
        /\ sequence' \in [Requests -> Nat]
    BY <1>0, <1>1, <1>3 DEF TypeOK, Phases, Answers
  <2>. QED
    BY <1>1, <1>3, <2>1, <2>2, <2>3 DEF TypeOK
<1>6. SequencesDense'
  <2>. SUFFICES ASSUME NEW d \in Conversations
                PROVE {m.sequence : m \in messages'[d]} = 1 .. next'[d] - 1
    BY DEF SequencesDense
  <2>1. {m.sequence : m \in messages[d]} = 1 .. next[d] - 1
    BY DEF Inv, MessagesInv, SequencesDense
  <2>2. CASE d = c
    <3>1. {m.sequence : m \in messages'[c]} = (1 .. next[c] - 1) \cup {next[c]}
      BY <1>2, <1>4, <2>1, <2>2
    <3>2. (1 .. next[c] - 1) \cup {next[c]} = 1 .. (next[c] + 1) - 1
      BY <1>0
    <3>. QED
      BY <1>4, <2>2, <3>1, <3>2
  <2>3. CASE d # c
    BY <1>3, <2>1, <2>3
  <2>. QED
    BY <2>2, <2>3
<1>7. CursorsBehind'
  BY <1>0, <1>1, <1>3, <1>4 DEF Inv, MessagesInv, CursorsBehind, TypeOK
<1>8. KeysNeverCollide'
  <2>. SUFFICES ASSUME NEW q \in Requests, phase'[q] \in {"fresh", "allocated"}
                PROVE ~KeyUsed(call[q].key)'
    BY <1>1 DEF KeysNeverCollide
  <2>1. q # r /\ phase[q] \in {"fresh", "allocated"}
    BY <1>1, <1>3 DEF TypeOK
  <2>2. call[q].key # call[r].key /\ ~KeyUsed(call[q].key)
    BY <1>0, <2>1 DEF Inv, MessagesInv, KeyLockInv, KeysNeverCollide, HoldingKey
  <2>. QED
    BY <1>1, <1>2, <1>3, <1>4, <2>2 DEF KeyUsed
<1>9. AccessInv'
  <2>1. \A q \in Requests : phase'[q] = IF q = r THEN "done" ELSE phase[q]
    BY <1>1, <1>3 DEF TypeOK
  <2>2. phase[r] # "idle" /\ UNCHANGED <<state, members, call>>
    BY <1>0, <1>1
  <2>3. AccessInv
    BY DEF Inv, MessagesInv
  <2>. QED
    BY <2>1, <2>2, <2>3 DEF AccessInv, MayAccess, InTransaction
<1>10. RowLockInv' /\ KeyLockInv'
  BY <1>1, <1>3 DEF Inv, MessagesInv, RowLockInv, KeyLockInv, InTransaction, HoldingKey,
     TypeOK
<1>11. AllocationInv'
  <2>. SUFFICES ASSUME NEW q \in Requests, phase'[q] = "allocated"
                PROVE sequence'[q] = next'[call[q].conversation]
    BY <1>1 DEF AllocationInv
  <2>1. q # r /\ phase[q] = "allocated" /\ sequence'[q] = sequence[q]
    BY <1>1, <1>3 DEF TypeOK
  <2>2. /\ call[q].conversation # c /\ call[q].conversation \in Conversations
        /\ sequence[q] = next[call[q].conversation]
    BY <1>0, <2>1, CallTyped DEF Inv, MessagesInv, RowLockInv, AllocationInv, InTransaction
  <2>. QED
    BY <1>3, <2>1, <2>2
<1>12. RecordInv'
  <2>1. \A d \in Conversations : state'[d] = "Absent" => messages'[d] = {}
    BY <1>0, <1>1, <1>3 DEF Inv, MessagesInv, RecordInv, MayAccess
  <2>2. \A q \in Requests : phase'[q] # "done" => answer'[q] = "none"
    BY <1>1, <1>3 DEF Inv, MessagesInv, RecordInv, TypeOK
  <2>3. ASSUME NEW q \in Confirmed'
        PROVE Draft(q)' \in messages'[call'[q].conversation]
    <3>1. CASE q = r
      <4>1. sequence'[r] = sequence[r]
        BY <1>1, <1>3, <2>3, <3>1 DEF Confirmed, TypeOK
      <4>. QED
        BY <1>1, <1>4, <3>1, <4>1 DEF Draft
    <3>2. CASE q # r
      <4>1. q \in Confirmed /\ Draft(q)' = Draft(q)
        BY <1>1, <1>3, <2>3, <3>2 DEF Confirmed, Draft, TypeOK
      <4>2. Draft(q) \in messages[call[q].conversation]
        BY <4>1 DEF Inv, MessagesInv, RecordInv
      <4>. QED
        BY <1>1, <1>3, <4>1, <4>2 DEF TypeOK
    <3>. QED
      BY <3>1, <3>2
  <2>. QED
    BY <2>1, <2>2, <2>3 DEF RecordInv
<1>. QED
  BY <1>5, <1>6, <1>7, <1>8, <1>9, <1>10, <1>11, <1>12 DEF Inv, MessagesInv

----------------------------------------------------------------------------
(* The commands on the access row. *)

(* A conversation comes into being while no request has got access to it. *)
LEMMA EstablishInv ==
    ASSUME Inv, NEW c \in Conversations, NEW M \in SUBSET Users,
           state[c] = "Absent", Establish(c, M),
           NEW n \in Nat \ {0}, next' = [next EXCEPT ![c] = n], n >= next[c],
           NEW S \in SUBSET Message, messages' = [messages EXCEPT ![c] = S],
           {m.sequence : m \in S} = 1 .. n - 1,
           \A m \in S : m.key = Nothing
    PROVE  Inv'
<1>0. /\ TypeOK /\ messages[c] = {} /\ UNCHANGED requestVars
      /\ state' = [state EXCEPT ![c] = "Active"]
      /\ members' = [members EXCEPT ![c] = M] /\ UNCHANGED cursor
  BY DEF Inv, MessagesInv, RecordInv, Establish
<1>1. \A r \in Requests : phase[r] \in InTransaction => call[r].conversation # c
  BY DEF Inv, MessagesInv, AccessInv, MayAccess
<1>2. \A d \in Conversations :
        /\ messages'[d] = IF d = c THEN S ELSE messages[d]
        /\ next'[d] = IF d = c THEN n ELSE next[d]
        /\ state'[d] = IF d = c THEN "Active" ELSE state[d]
        /\ members'[d] = IF d = c THEN M ELSE members[d]
  BY <1>0 DEF TypeOK
<1>3. TypeOK'
  <2>1. /\ state' \in [Conversations -> States]
        /\ members' \in [Conversations -> SUBSET Users]
        /\ cursor' \in [Conversations -> [Users -> Nat]]
    BY <1>0 DEF TypeOK, States
  <2>2. next' \in [Conversations -> Nat \ {0}]
    BY <1>0 DEF TypeOK
  <2>3. messages' \in [Conversations -> SUBSET Message]
    BY <1>0 DEF TypeOK
  <2>. QED
    BY <1>0, <2>1, <2>2, <2>3 DEF TypeOK, requestVars
<1>4. SequencesDense'
  <2>. SUFFICES ASSUME NEW d \in Conversations
                PROVE {m.sequence : m \in messages'[d]} = 1 .. next'[d] - 1
    BY DEF SequencesDense
  <2>1. {m.sequence : m \in messages[d]} = 1 .. next[d] - 1
    BY DEF Inv, MessagesInv, SequencesDense
  <2>. QED
    BY <1>2, <2>1
<1>5. CursorsBehind'
  BY <1>0, <1>2 DEF Inv, MessagesInv, CursorsBehind, TypeOK
<1>6. KeysNeverCollide'
  <2>. SUFFICES ASSUME NEW r \in Requests, phase[r] \in {"fresh", "allocated"}
                PROVE ~KeyUsed(call[r].key)'
    BY <1>0 DEF KeysNeverCollide, requestVars
  <2>1. call[r].key # Nothing /\ ~KeyUsed(call[r].key)
    BY CallTyped, MessagesAssumption DEF Inv, MessagesInv, KeysNeverCollide
  <2>. QED
    BY <1>0, <1>2, <2>1 DEF KeyUsed, requestVars
<1>7. AccessInv'
  <2>1. \A r \in Requests : phase[r] \in InTransaction =>
           call[r].conversation \in Conversations
    BY CallTyped DEF InTransaction
  <2>. QED
    BY <1>0, <1>1, <1>2, <2>1
    DEF Inv, MessagesInv, AccessInv, MayAccess, requestVars
<1>8. RowLockInv' /\ KeyLockInv'
  BY <1>0 DEF Inv, MessagesInv, RowLockInv, KeyLockInv, requestVars
<1>9. AllocationInv'
  <2>1. \A r \in Requests : phase[r] = "allocated" =>
           call[r].conversation \in Conversations \ {c}
    BY <1>1, CallTyped DEF InTransaction
  <2>. QED
    BY <1>0, <1>2, <2>1 DEF Inv, MessagesInv, AllocationInv, requestVars
<1>10. RecordInv'
  <2>1. \A r \in Confirmed : /\ Draft(r) \in messages[call[r].conversation]
                             /\ call[r].conversation \in Conversations
    BY CallTyped DEF Inv, MessagesInv, RecordInv, Confirmed
  <2>2. Confirmed' = Confirmed /\ \A r \in Requests : Draft(r)' = Draft(r)
    BY <1>0 DEF Confirmed, Draft, requestVars
  <2>3. \A r \in Confirmed' : Draft(r)' \in messages'[call'[r].conversation]
    BY <1>0, <1>2, <2>1, <2>2 DEF Confirmed, requestVars
  <2>. QED
    BY <1>0, <1>2, <2>3 DEF Inv, MessagesInv, RecordInv, requestVars
<1>. QED
  BY <1>3, <1>4, <1>5, <1>6, <1>7, <1>8, <1>9, <1>10 DEF Inv, MessagesInv

LEMMA CreateInv ==
    ASSUME Inv, NEW c \in Conversations,
           \/ GetOrCreateGroup(c)
           \/ \E u \in Users, text \in Contents : CreateCase(c, u, text)
           \/ \E u \in Clients, p \in Admins : GetOrCreatePrivate(c, u, p)
    PROVE  Inv'
<1>0. /\ next[c] \in Nat \ {0} /\ messages \in [Conversations -> SUBSET Message]
      /\ next \in [Conversations -> Nat \ {0}]
      /\ {m.sequence : m \in messages[c]} = 1 .. next[c] - 1
  BY DEF Inv, TypeOK, MessagesInv, SequencesDense
<1>1. ASSUME NEW M \in SUBSET Users, state[c] = "Absent", UNCHANGED <<next, messages>>,
             Establish(c, M)
      PROVE  Inv'
  <2>1. messages[c] = {}
    BY <1>1 DEF Inv, MessagesInv, RecordInv
  <2>2. /\ next' = [next EXCEPT ![c] = next[c]]
        /\ messages' = [messages EXCEPT ![c] = {}]
    BY <1>0, <1>1, <2>1
  <2>3. {} \in SUBSET Message /\ {m.sequence : m \in {}} = 1 .. next[c] - 1
    BY <1>0, <2>1
  <2>4. next[c] >= next[c]
    BY <1>0
  <2>. QED
    BY <1>0, <1>1, <2>2, <2>3, <2>4, EstablishInv
<1>2. ASSUME NEW u \in Users, NEW text \in Contents, CreateCase(c, u, text)
      PROVE  Inv'
  <2>. DEFINE m == [sequence |-> 1, key |-> Nothing, by |-> u, content |-> text]
  <2>1. {m} \in SUBSET Message /\ m.sequence = 1 /\ m.key = Nothing
    BY DEF Message
  <2>2. messages[c] = {} /\ state[c] = "Absent"
    BY <1>2 DEF CreateCase, Inv, MessagesInv, RecordInv
  <2>3. next[c] = 1
    BY <1>0, <2>2
  <2>4. {x.sequence : x \in {m}} = 1 .. 2 - 1 /\ \A x \in {m} : x.key = Nothing
    BY <2>1
  <2>5. /\ messages' = [messages EXCEPT ![c] = {m}]
        /\ next' = [next EXCEPT ![c] = 2] /\ Establish(c, Users)
    BY <1>2 DEF CreateCase, AfterCaseRoot
  <2>6. 2 \in Nat \ {0} /\ 2 >= next[c] /\ Users \in SUBSET Users
    BY <2>3
  <2>. HIDE DEF m
  <2>. QED
    BY <2>1, <2>2, <2>4, <2>5, <2>6, EstablishInv
<1>3. \A u \in Clients, p \in Admins : {u, p} \in SUBSET Users
  BY DEF Users
<1>. QED
  BY <1>1, <1>2, <1>3 DEF GetOrCreateGroup, GetOrCreatePrivate

LEMMA AdvanceInv ==
    ASSUME Inv, NEW c \in Conversations, NEW u \in Users, NEW n \in Nat,
           AdvanceReadCursor(c, u, n)
    PROVE  Inv'
<1>0. /\ TypeOK /\ UNCHANGED <<state, members, next, messages, requestVars>>
      /\ cursor' = [cursor EXCEPT ![c] = [cursor[c] EXCEPT ![u] = Greatest(cursor[c][u], n)]]
      /\ cursor[c] \in [Users -> Nat] /\ cursor[c][u] \in Nat
      /\ next[c] \in Nat \ {0} /\ n <= next[c] - 1
      /\ cursor[c][u] < next[c]
  BY DEF AdvanceReadCursor, NotAhead, Inv, TypeOK, MessagesInv, CursorsBehind
<1>1. Greatest(cursor[c][u], n) \in Nat /\ Greatest(cursor[c][u], n) < next[c]
  BY <1>0 DEF Greatest
<1>2. TypeOK'
  <2>1. cursor' \in [Conversations -> [Users -> Nat]]
    BY <1>0, <1>1 DEF TypeOK
  <2>. QED
    BY <1>0, <2>1 DEF TypeOK, requestVars
<1>3. CursorsBehind'
  BY <1>0, <1>1 DEF Inv, MessagesInv, CursorsBehind, TypeOK
<1>. QED
  BY <1>0, <1>2, <1>3
  DEF Inv, MessagesInv, SequencesDense, KeysNeverCollide, KeyUsed, AccessInv, MayAccess,
      RowLockInv, KeyLockInv, AllocationInv, RecordInv, Confirmed, Draft, requestVars

(* Nobody is in a transaction on the conversation whose access changes. *)
LEMMA ChangeAccessInv ==
    ASSUME Inv, NEW c \in Conversations, state[c] # "Absent",
           NEW s \in States \ {"Absent"}, NEW M \in SUBSET Users, ChangeAccess(c, s, M)
    PROVE  Inv'
<1>0. /\ TypeOK /\ UNCHANGED <<next, messages, cursor, requestVars>>
      /\ state' = [state EXCEPT ![c] = s] /\ members' = [members EXCEPT ![c] = M]
      /\ \A r \in Requests : phase[r] \in InTransaction => call[r].conversation # c
  BY DEF ChangeAccess, RowFree, Inv
<1>1. TypeOK'
  BY <1>0 DEF TypeOK, requestVars
<1>2. AccessInv'
  BY <1>0, CallTyped
  DEF Inv, MessagesInv, AccessInv, MayAccess, InTransaction, requestVars, TypeOK
<1>3. RecordInv'
  <2>1. \A d \in Conversations : state'[d] = "Absent" => messages'[d] = {}
    BY <1>0 DEF Inv, MessagesInv, RecordInv, TypeOK
  <2>. QED
    BY <1>0, <2>1 DEF Inv, MessagesInv, RecordInv, Confirmed, Draft, requestVars
<1>. QED
  BY <1>0, <1>1, <1>2, <1>3
  DEF Inv, MessagesInv, SequencesDense, KeysNeverCollide, KeyUsed, CursorsBehind,
      RowLockInv, KeyLockInv, AllocationInv, requestVars

LEMMA CommandInv == ASSUME Inv, NEW c \in Conversations, Command(c) PROVE Inv'
<1>1. members[c] \in SUBSET Users /\ next[c] \in Nat
  BY DEF Inv, TypeOK
<1>2. ASSUME NEW u \in Users, NEW n \in 1 .. 1 + next[c], AdvanceReadCursor(c, u, n)
      PROVE  Inv'
  BY <1>1, <1>2, AdvanceInv
<1>3. CASE Archive(c)
  BY <1>1, <1>3, ChangeAccessInv DEF Archive, States
<1>4. ASSUME NEW p \in Admins, Transfer(c, p)
      PROVE  Inv'
  BY <1>1, <1>4, ChangeAccessInv DEF Transfer, States, Users
<1>5. ASSUME NEW u \in Clients, NEW p \in Admins, ApproveLegacyPrivate(c, u, p)
      PROVE  Inv'
  BY <1>5, ChangeAccessInv DEF ApproveLegacyPrivate, States, Users
<1>. QED
  BY <1>2, <1>3, <1>4, <1>5, CreateInv DEF Command

LEMMA NextInv == Inv /\ [Next]_vars => Inv'
<1>. SUFFICES ASSUME Inv, [Next]_vars PROVE Inv'
  OBVIOUS
<1>1. ASSUME NEW r \in Requests, Progress(r) PROVE Inv'
  BY <1>1, LockAccessInv, LockKeyInv, LookUpInv, AllocateInv, CommitInv
  DEF Progress
<1>2. CASE UNCHANGED vars
  <2>1. UNCHANGED <<state, members, next, messages, cursor, call, phase, sequence, answer>>
    BY <1>2 DEF vars, conversationVars, requestVars
  <2>2. TypeOK' /\ SequencesDense' /\ CursorsBehind' /\ KeysNeverCollide'
    BY <2>1 DEF Inv, TypeOK, MessagesInv, SequencesDense, CursorsBehind, KeysNeverCollide,
       KeyUsed
  <2>3. AccessInv' /\ RowLockInv' /\ KeyLockInv' /\ AllocationInv'
    BY <2>1 DEF Inv, MessagesInv, AccessInv, MayAccess, RowLockInv, KeyLockInv, AllocationInv
  <2>4. RecordInv'
    BY <2>1 DEF Inv, MessagesInv, RecordInv, Confirmed, Draft
  <2>. QED
    BY <2>2, <2>3, <2>4 DEF Inv, MessagesInv
<1>. QED
  BY <1>1, <1>2, CommandInv, BeginInv, RefuseInv DEF Next

----------------------------------------------------------------------------
(* Every variable keeps its type; in particular a message never has the number 0
   of a chat's root row. *)
THEOREM MessagesTypeCorrect == Spec => []TypeOK
BY InitInv, NextInv, PTL DEF Spec, Inv

(* Numbers without gaps, keys that never collide, cursors that stay behind, for
   any requests and conversations, with the locks they rest on. *)
THEOREM MessagesCorrect == Spec => []MessagesInv
BY InitInv, NextInv, PTL DEF Spec, Inv

(* The messages of each conversation are numbered 1 .. next - 1. *)
THEOREM DenseCorrect == Spec => []SequencesDense
BY MessagesCorrect, PTL DEF MessagesInv

(* The unique index on client message ids never refuses a message. *)
THEOREM CollisionFree == Spec => []KeysNeverCollide
BY MessagesCorrect, PTL DEF MessagesInv

----------------------------------------------------------------------------
(* Waiting.  The access row is locked first and by one request at a time, so the
   allocator is never waited for, whoever has the lock on a client message id goes
   on, and a request that has the access row waits for such a one at most. *)

LEMMA KeyHoldersGoOn ==
    ASSUME Inv, NEW r \in Requests, phase[r] \in HoldingKey
    PROVE  r \in UnderWay /\ CanGoOn(r)
<1>1. CASE phase[r] = "fresh"
  <2>. SUFFICES ASSUME NEW q \in Requests, phase[q] = "allocated"
                PROVE  call[q].conversation # call[r].conversation
    BY <1>1 DEF CanGoOn, AllocatorFree, UnderWay, InTransaction
  <2>. QED
    BY <1>1 DEF Inv, MessagesInv, RowLockInv, InTransaction
<1>2. CASE phase[r] \in {"keyed", "allocated"}
  BY <1>2 DEF CanGoOn, UnderWay, InTransaction
<1>. QED
  BY <1>1, <1>2 DEF HoldingKey

LEMMA RowHoldersWaitOnce ==
    ASSUME Inv, NEW r \in Requests, phase[r] \in InTransaction
    PROVE  /\ r \in UnderWay
           /\ CanGoOn(r) \/ \E s \in UnderWay : Blocks(s, r) /\ CanGoOn(s)
<1>1. CASE phase[r] \in HoldingKey
  BY <1>1, KeyHoldersGoOn
<1>2. CASE phase[r] = "access"
  <2>1. CASE KeyFree(call[r].key)
    BY <1>2, <2>1 DEF CanGoOn, UnderWay, InTransaction
  <2>2. CASE ~KeyFree(call[r].key)
    <3>1. PICK s \in Requests : phase[s] \in HoldingKey /\ call[s].key = call[r].key
      BY <2>2 DEF KeyFree
    <3>2. Blocks(s, r)
      BY <1>2, <3>1 DEF Blocks
    <3>. QED
      BY <1>2, <3>1, <3>2, KeyHoldersGoOn DEF UnderWay, InTransaction
  <2>. QED
    BY <2>1, <2>2
<1>. QED
  BY <1>1, <1>2 DEF InTransaction, HoldingKey

(* No two requests hold what one waits for. *)
LEMMA OneInTheWay ==
    ASSUME Inv, NEW r \in Requests, NEW q \in Requests, NEW s \in Requests,
           Blocks(q, r), Blocks(s, r)
    PROVE  q = s
<1>. USE DEF Inv, MessagesInv
<1>1. CASE phase[r] \in {"begun", "fresh"}
  BY <1>1 DEF Blocks, RowLockInv, InTransaction
<1>2. CASE phase[r] = "access"
  BY <1>2 DEF Blocks, KeyLockInv
<1>. QED
  BY <1>1, <1>2 DEF Blocks

(* Requests never wait for each other in a circle, and a wait is for one request,
   or for one that waits for another: SendMessageAsync takes its three locks in one
   order, and the commands take the first of them only. *)
THEOREM WaitingCorrect == Spec => []WaitsAreShort
<1>1. Inv => WaitsAreShort
  <2>. SUFFICES ASSUME Inv, NEW r \in UnderWay
                PROVE  /\ \A q, s \in UnderWay : Blocks(q, r) /\ Blocks(s, r) => q = s
                       /\ \/ CanGoOn(r)
                          \/ \E q \in UnderWay :
                                /\ Blocks(q, r)
                                /\ \/ CanGoOn(q)
                                   \/ \E s \in UnderWay : Blocks(s, q) /\ CanGoOn(s)
    BY DEF WaitsAreShort
  <2>1. r \in Requests /\ UnderWay \subseteq Requests
    BY DEF UnderWay
  <2>2. \A q, s \in UnderWay : Blocks(q, r) /\ Blocks(s, r) => q = s
    BY <2>1, OneInTheWay
  <2>3. CASE phase[r] \in InTransaction
    BY <2>1, <2>2, <2>3, RowHoldersWaitOnce
  <2>4. CASE phase[r] = "begun" /\ RowFree(call[r].conversation)
    BY <2>2, <2>4 DEF CanGoOn
  <2>5. CASE phase[r] = "begun" /\ ~RowFree(call[r].conversation)
    <3>1. PICK q \in Requests : /\ phase[q] \in InTransaction
                                /\ call[q].conversation = call[r].conversation
      BY <2>5 DEF RowFree
    <3>2. Blocks(q, r)
      BY <2>5, <3>1 DEF Blocks
    <3>. QED
      BY <2>2, <3>1, <3>2, RowHoldersWaitOnce
  <2>. QED
    BY <2>3, <2>4, <2>5 DEF UnderWay
<1>. QED
  BY <1>1, InitInv, NextInv, PTL DEF Spec

----------------------------------------------------------------------------
(* The promise.  Confirmations only change when a request ends with one. *)

PromiseStep == Promise!PromiseNext \/ UNCHANGED Promise!promiseVars

LEMMA SameTold ==
    ASSUME Inv, NEW r \in Requests, phase[r] # "done",
           \A q \in Requests \ {r} : /\ call'[q] = call[q] /\ sequence'[q] = sequence[q]
                                     /\ answer'[q] = answer[q],
           answer'[r] \notin {"Created", "Replayed"}
    PROVE  Told' = Told
<1>1. r \notin Confirmed /\ Confirmed' = Confirmed
  BY DEF Inv, MessagesInv, RecordInv, Confirmed
<1>2. \A q \in Confirmed : q \in Requests \ {r}
  BY <1>1 DEF Confirmed
<1>3. \A q \in Confirmed : /\ call'[q].conversation = call[q].conversation
                           /\ Draft(q)' = Draft(q)
  BY <1>2 DEF Draft
<1>. QED
  BY <1>1, <1>3 DEF Told

(* One more confirmation, of the message n of the request. *)
LEMMA MoreTold ==
    ASSUME Inv, NEW r \in Requests, phase[r] \notin {"idle", "done"},
           NEW a \in {"Created", "Replayed"}, NEW n \in Nat, Return(r, a, n)
    PROVE  Told' = Told \cup {<<call[r].conversation,
                [sequence |-> n, key |-> call[r].key, by |-> call[r].by,
                 content |-> call[r].content]>>}
<1>0. TypeOK
  BY DEF Inv
<1>1. r \notin Confirmed /\ Confirmed' = Confirmed \cup {r} /\ UNCHANGED call
  BY <1>0 DEF Inv, MessagesInv, RecordInv, Confirmed, Return, TypeOK
<1>2. \A q \in Confirmed : q \in Requests \ {r}
  BY <1>1 DEF Confirmed
<1>3. \A q \in Confirmed : Draft(q)' = Draft(q)
  BY <1>0, <1>1, <1>2 DEF Draft, Return, TypeOK
<1>4. Draft(r)' = [sequence |-> n, key |-> call[r].key, by |-> call[r].by,
                   content |-> call[r].content]
  BY <1>0, <1>1 DEF Draft, Return, TypeOK
<1>5. Told' = {<<call[q].conversation, Draft(q)'>> : q \in Confirmed \cup {r}}
  BY <1>1 DEF Told
<1>6. {<<call[q].conversation, Draft(q)'>> : q \in Confirmed} = Told
  BY <1>3 DEF Told
<1>. QED
  BY <1>4, <1>5, <1>6

LEMMA QuietStep ==
    ASSUME Inv, NEW r \in Requests,
           \/ \E a \in Calls : Begin(r, a)
           \/ LockAccess(r) \/ LockKey(r) \/ Allocate(r)
           \/ RefuseAttachments(r) \/ Abort(r)
    PROVE  PromiseStep
<1>0. TypeOK
  BY DEF Inv
<1>1. phase[r] # "done" /\ UNCHANGED conversationVars
  BY DEF Begin, LockAccess, LockKey, Allocate, RefuseAttachments, Abort, Goto,
     InTransaction
<1>2. \A q \in Requests \ {r} : /\ call'[q] = call[q] /\ sequence'[q] = sequence[q]
                                /\ answer'[q] = answer[q]
  BY <1>0 DEF Begin, LockAccess, LockKey, Allocate, RefuseAttachments, Abort, Goto,
     Return, TypeOK
<1>3. answer[r] = "none"
  BY <1>1 DEF Inv, MessagesInv, RecordInv
<1>4. answer'[r] \notin {"Created", "Replayed"}
  BY <1>0, <1>3 DEF Begin, LockAccess, LockKey, Allocate, RefuseAttachments, Abort, Goto,
     Return, TypeOK
<1>5. Told' = Told
  BY <1>1, <1>2, <1>4, SameTold
<1>. QED
  BY <1>1, <1>5 DEF PromiseStep, Promise!promiseVars, Writers, conversationVars

LEMMA LookUpStep == ASSUME Inv, NEW r \in Requests, LookUp(r) PROVE PromiseStep
<1>0. phase[r] = "keyed" /\ answer[r] = "none"
  BY DEF LookUp, Inv, MessagesInv, RecordInv
<1>1. UNCHANGED conversationVars
  BY DEF LookUp, Goto
<1>2. ASSUME NEW c \in Conversations, NEW m \in messages[c], m.key = call[r].key,
             SameCall(r, c, m), Return(r, "Replayed", m.sequence)
      PROVE  PromiseStep
  <2>1. m = [sequence |-> m.sequence, key |-> call[r].key, by |-> call[r].by,
             content |-> call[r].content] /\ m.sequence \in Nat
    BY <1>2 DEF SameCall, Inv, TypeOK, Message
  <2>2. Told' = Told \cup {<<c, m>>}
    BY <1>0, <1>2, <2>1, MoreTold DEF SameCall
  <2>3. Promise!Replay(c, m) /\ m \in messages'[c]
    BY <1>1, <1>2, <2>2
    DEF Promise!Replay, Promise!Confirm, Writers, conversationVars
  <2>. QED
    BY <1>2, <2>3 DEF PromiseStep, Promise!PromiseNext
<1>3. CASE Goto(r, "fresh") \/ Return(r, "Conflict", 0)
  <2>1. /\ answer'[r] \notin {"Created", "Replayed"}
        /\ \A q \in Requests \ {r} : /\ call'[q] = call[q] /\ sequence'[q] = sequence[q]
                                     /\ answer'[q] = answer[q]
    BY <1>0, <1>3 DEF Goto, Return, Inv, TypeOK
  <2>. QED
    BY <1>0, <1>1, <2>1, SameTold
    DEF PromiseStep, Promise!promiseVars, Writers, conversationVars
<1>. QED
  BY <1>2, <1>3 DEF LookUp

LEMMA CommitStep == ASSUME Inv, NEW r \in Requests, Commit(r) PROVE PromiseStep
<1>. DEFINE c == call[r].conversation
<1>0. /\ phase[r] = "allocated" /\ c \in Conversations /\ ~KeyUsed(call[r].key)
      /\ MayAccess(c, call[r].by) /\ call[r].key \in Keys
      /\ sequence[r] = next[c] /\ next[c] \in Nat \ {0} /\ TypeOK
  BY CallTyped DEF Commit, Inv, TypeOK, MessagesInv, KeysNeverCollide, AccessInv,
     AllocationInv, InTransaction
<1>1. /\ messages' = [messages EXCEPT ![c] = @ \cup {Draft(r)}]
      /\ UNCHANGED <<state, members, cursor>>
      /\ Return(r, "Created", sequence[r]) \/ Return(r, "Failed", 0)
  BY <1>0 DEF Commit
<1>2. /\ Draft(r).sequence = next[c] /\ Draft(r).by = call[r].by
      /\ Draft(r).key = call[r].key /\ Draft(r).key # Nothing
  BY <1>0, MessagesAssumption DEF Draft
<1>3. Promise!Post(c, Draft(r))
  <2>1. call[r].by \in Writers[c]
    BY <1>0 DEF Writers, MayAccess
  <2>2. {m.sequence : m \in messages[c]} = 1 .. next[c] - 1
    BY <1>0 DEF Inv, MessagesInv, SequencesDense
  <2>3. \A d \in Conversations : \A x \in messages[d] : x.key # Draft(r).key
    BY <1>0, <1>2 DEF KeyUsed
  <2>. QED
    BY <1>1, <1>2, <2>1, <2>2, <2>3 DEF Promise!Post, Promise!Sequences
<1>4. Told' = Told \cup {<<c, Draft(r)>>} \/ Told' = Told
  <2>1. CASE Return(r, "Created", sequence[r])
    BY <1>0, <2>1, MoreTold DEF Draft
  <2>2. CASE Return(r, "Failed", 0)
    <3>1. /\ answer'[r] \notin {"Created", "Replayed"}
          /\ \A q \in Requests \ {r} : /\ call'[q] = call[q] /\ sequence'[q] = sequence[q]
                                       /\ answer'[q] = answer[q]
      BY <1>0, <2>2 DEF Return, TypeOK
    <3>. QED
      BY <1>0, <3>1, SameTold
  <2>. QED
    BY <1>1, <2>1, <2>2
<1>5. Promise!Send(c, Draft(r)) /\ Draft(r) \in messages'[c]
  <2>1. Draft(r) \in messages'[c]
    BY <1>0, <1>1 DEF TypeOK
  <2>. QED
    BY <1>1, <1>3, <1>4, <2>1 DEF Promise!Send, Promise!Confirm, Writers
<1>. QED
  BY <1>0, <1>5 DEF PromiseStep, Promise!PromiseNext

LEMMA CommandStep == ASSUME Inv, NEW c \in Conversations, Command(c) PROVE PromiseStep
<1>0. TypeOK /\ UNCHANGED requestVars /\ Told' = Told
  BY DEF Inv, Command, GetOrCreateGroup, GetOrCreatePrivate, CreateCase, Establish, Archive,
     Transfer, ApproveLegacyPrivate, ChangeAccess, AdvanceReadCursor, requestVars, Told,
     Confirmed, Draft
<1>1. ASSUME NEW s \in States, NEW M \in SUBSET Users,
             state' = [state EXCEPT ![c] = s], members' = [members EXCEPT ![c] = M]
      PROVE  /\ Writers' = [Writers EXCEPT ![c] = IF s = "Active" THEN M ELSE {}]
             /\ (IF s = "Active" THEN M ELSE {}) \in SUBSET Users
  BY <1>0, <1>1 DEF Writers, TypeOK
<1>2. ASSUME NEW s \in States, NEW M \in SUBSET Users, UNCHANGED <<messages, cursor>>,
             state' = [state EXCEPT ![c] = s], members' = [members EXCEPT ![c] = M]
      PROVE  PromiseStep
  BY <1>0, <1>1, <1>2 DEF PromiseStep, Promise!PromiseNext, Promise!Assign
<1>3. members[c] \in SUBSET Users
  BY <1>0 DEF TypeOK
<1>4. CASE \/ GetOrCreateGroup(c) \/ Archive(c) \/ \E p \in Admins : Transfer(c, p)
           \/ \E u \in Clients, p \in Admins :
                 GetOrCreatePrivate(c, u, p) \/ ApproveLegacyPrivate(c, u, p)
  <2>1. PICK s \in States, M \in SUBSET Users :
           /\ UNCHANGED <<messages, cursor>>
           /\ state' = [state EXCEPT ![c] = s] /\ members' = [members EXCEPT ![c] = M]
    BY <1>3, <1>4 DEF GetOrCreateGroup, GetOrCreatePrivate, Establish, Archive, Transfer,
       ApproveLegacyPrivate, ChangeAccess, States, Users
  <2>. QED
    BY <1>2, <2>1
<1>5. ASSUME NEW u \in Users, NEW text \in Contents, CreateCase(c, u, text)
      PROVE  PromiseStep
  <2>. DEFINE m == [sequence |-> 1, key |-> Nothing, by |-> u, content |-> text]
  <2>1. /\ messages' = [messages EXCEPT ![c] = {m}] /\ messages[c] = {}
        /\ UNCHANGED cursor
        /\ state' = [state EXCEPT ![c] = "Active"]
        /\ members' = [members EXCEPT ![c] = Users]
    BY <1>5 DEF CreateCase, Establish, Inv, MessagesInv, RecordInv
  <2>2. Writers' = [Writers EXCEPT ![c] = Users]
    BY <1>1, <2>1 DEF States
  <2>3. m \in messages'[c] /\ Promise!Open(c, m)
    BY <1>0, <2>1, <2>2 DEF Promise!Open, TypeOK
  <2>. QED
    BY <2>3 DEF PromiseStep, Promise!PromiseNext
<1>6. ASSUME NEW u \in Users, NEW n \in 1 .. 1 + next[c], AdvanceReadCursor(c, u, n)
      PROVE  PromiseStep
  <2>1. /\ UNCHANGED <<state, members, messages>> /\ n <= next[c] - 1
        /\ next[c] \in Nat /\ cursor[c][u] \in Nat /\ cursor \in [Conversations -> [Users -> Nat]]
        /\ cursor' = [cursor EXCEPT ![c] = [cursor[c] EXCEPT ![u] = Greatest(cursor[c][u], n)]]
        /\ {m.sequence : m \in messages[c]} = 1 .. next[c] - 1
    BY <1>0, <1>6 DEF AdvanceReadCursor, NotAhead, TypeOK, Inv, MessagesInv, SequencesDense
  <2>2. UNCHANGED Writers
    BY <2>1 DEF Writers
  <2>3. CASE n > cursor[c][u]
    <3>1. Promise!Read(c, u, n)
      BY <1>0, <2>1, <2>2, <2>3 DEF Promise!Read, Greatest
    <3>2. n \in Promise!Sequences(c)
      BY <2>1 DEF Promise!Sequences
    <3>. QED
      BY <3>1, <3>2 DEF PromiseStep, Promise!PromiseNext
  <2>4. CASE ~(n > cursor[c][u])
    <3>1. cursor' = cursor
      BY <2>1, <2>4 DEF Greatest
    <3>. QED
      BY <1>0, <2>1, <2>2, <3>1 DEF PromiseStep, Promise!promiseVars
  <2>. QED
    BY <2>3, <2>4
<1>. QED
  BY <1>4, <1>5, <1>6 DEF Command

(* Transactions, locks and lost answers implement the promise to writers and
   readers: append-only logs, one message per key, true confirmations. *)
THEOREM PromiseCorrect == Spec => PromiseIsKept
<1>1. Init => Promise!PromiseInit
  <2>. SUFFICES ASSUME Init PROVE Promise!PromiseInit
    OBVIOUS
  <2>1. Writers \in [Conversations -> SUBSET Users]
    BY DEF Init, Writers
  <2>2. Told = {}
    BY DEF Init, Told, Confirmed
  <2>. QED
    BY <2>1, <2>2 DEF Init, Promise!PromiseInit
<1>2. Inv /\ [Next]_vars => [Promise!PromiseNext]_(Promise!promiseVars)
  <2>. SUFFICES ASSUME Inv, [Next]_vars PROVE PromiseStep
    BY DEF PromiseStep
  <2>1. ASSUME NEW r \in Requests,
               Progress(r) \/ RefuseAttachments(r) \/ Abort(r)
        PROVE  PromiseStep
    BY <2>1, QuietStep, LookUpStep, CommitStep DEF Progress
  <2>2. CASE UNCHANGED vars
    BY <2>2 DEF vars, conversationVars, requestVars, PromiseStep, Promise!promiseVars,
       Writers, Told, Confirmed, Draft
  <2>. QED
    BY <2>1, <2>2, QuietStep, CommandStep DEF Next
<1>. QED
  BY <1>1, <1>2, InitInv, NextInv, PTL DEF Spec, PromiseIsKept, Promise!Spec
=============================================================================
