---------------------- MODULE ConversationOutboxProofs ----------------------
(* Theorems about ConversationOutbox, for any dispatchers, conversations and
   events, and any limits.  The argument is OutboxInv; README.md tells it in
   words. *)
EXTENDS ConversationOutbox, TLAPS

USE DEF accessVars, recordVars, deliveryVars, lockVars

(* What all commands have in common: one event is inserted with the access row
   as it becomes, and a private conversation changes only while unlocked. *)
Changes(c, e) ==
    /\ version' = version \/ version' = [version EXCEPT ![c] = @ + 1]
    /\ version' = version => state' = state /\ party' = party
    /\ \A k \in Conversations \ {c} : state'[k] = state[k] /\ party'[k] = party[k]
    /\ c \in Private /\ version' # version => lock[c] = Nothing
    /\ state' \in [Conversations -> AccessStates]
    /\ party' \in [Conversations -> Admins \cup {Nothing}]
    /\ Append(c, e)

LEMMA CommandChanges ==
  ASSUME TypeOK, NEW c \in Conversations, NEW e \in Events, Command(c, e)
  PROVE  Changes(c, e)
<1>. USE DEF TypeOK, Changes, AccessStates
<1>1. CASE SendMessage(c, e)
  BY <1>1 DEF SendMessage
<1>2. CASE Archive(c, e)
  BY <1>2 DEF Archive, ChangeAccess, CanMutate
<1>3. CASE MutateCase(c, e)
  BY <1>3, OutboxAssumption DEF MutateCase
<1>4. ASSUME NEW p \in Admins, Transfer(c, e, p)
      PROVE  Changes(c, e)
  BY <1>4 DEF Transfer, ChangeAccess, CanMutate
<1>5. ASSUME NEW p \in Admins, ApproveLegacyPrivate(c, e, p)
      PROVE  Changes(c, e)
  BY <1>5 DEF ApproveLegacyPrivate, ChangeAccess, CanMutate
<1>. QED
  BY <1>1, <1>2, <1>3, <1>4, <1>5 DEF Command

----------------------------------------------------------------------------
(* Type correctness. *)

LEMMA TypeInit == Init => TypeOK
BY OutboxAssumption DEF Init, TypeOK, AccessStates, Phases

LEMMA TypeCommand ==
  ASSUME TypeOK, NEW c \in Conversations, NEW e \in Events, Changes(c, e)
  PROVE  TypeOK'
BY SMTT(30) DEF TypeOK, Changes, Append

LEMMA TypeLease ==
  ASSUME TypeOK, NEW d \in Dispatchers, NEW S \in SUBSET Events,
         Claim(d, S) \/ ClaimLost(d, S)
  PROVE  TypeOK'
<1>. Lease(d, S)
  BY DEF Claim, ClaimLost
<1>1. /\ attempts' \in [Events -> Nat]
      /\ owner' \in [Events -> Dispatchers \cup {Nothing}]
      /\ leased' \in [Events -> BOOLEAN]
      /\ \A e \in Events : leased'[e] => owner'[e] # Nothing
  <2>1. attempts' \in [Events -> Nat]
    BY DEF TypeOK, Lease
  <2>2. owner' \in [Events -> Dispatchers \cup {Nothing}]
    BY DEF TypeOK, Lease
  <2>3. leased' \in [Events -> BOOLEAN]
    BY DEF TypeOK, Lease
  <2>4. \A e \in Events : leased'[e] => owner'[e] # Nothing
    BY OutboxAssumption DEF TypeOK, Lease
  <2>. QED
    BY <2>1, <2>2, <2>3, <2>4
<1>2. phase' \in [Dispatchers -> [Events -> Phases]]
  BY DEF TypeOK, Claim, ClaimLost, Phases
<1>3. faults' \in 0 .. MaxFaults
  BY OutboxAssumption DEF TypeOK, Claim, ClaimLost, Fault
<1>. QED
  BY <1>1, <1>2, <1>3 DEF TypeOK, Claim, ClaimLost, Lease

LEMMA TypeSettle ==
  ASSUME TypeOK, NEW d \in Dispatchers, NEW e \in Events,
         Processed(d, e) \/ Failed(d, e) \/ UNCHANGED deliveryVars
  PROVE  /\ attempts' \in [Events -> Nat]
         /\ owner' \in [Events -> Dispatchers \cup {Nothing}]
         /\ leased' \in [Events -> BOOLEAN]
         /\ \A f \in Events : leased'[f] => owner'[f] # Nothing
         /\ processed' \in [Events -> BOOLEAN]
         /\ dead' \in [Events -> BOOLEAN]
<1>1. CASE Processed(d, e)
  BY <1>1 DEF TypeOK, Processed, Unlease
<1>2. CASE Failed(d, e)
  BY ZenonT(40), <1>2 DEF TypeOK, Failed, Unlease
<1>3. CASE UNCHANGED deliveryVars
  BY <1>3 DEF TypeOK
<1>. QED
  BY <1>1, <1>2, <1>3

LEMMA TypeHandle ==
  ASSUME TypeOK, NEW d \in Dispatchers, NEW e \in Events, Handle(d, e)
  PROVE  TypeOK'
<1>. USE OutboxAssumption DEF TypeOK
<1>1. CASE AcquireDeliveryLease(d, e)
  <2>1. phase' \in [Dispatchers -> [Events -> Phases]]
    BY SMTT(30), <1>1 DEF AcquireDeliveryLease, Enter, Phases
  <2>2. lock' \in [Conversations -> Dispatchers \cup {Nothing}]
    BY <1>1 DEF AcquireDeliveryLease
  <2>. QED
    BY <1>1, <2>1, <2>2 DEF AcquireDeliveryLease
<1>2. CASE AcquireFails(d, e)
  <2>1. phase' \in [Dispatchers -> [Events -> Phases]]
    BY <1>2 DEF AcquireFails, Enter, Phases
  <2>2. /\ lock' \in [Conversations -> Dispatchers \cup {Nothing}]
        /\ stuck' \in [Conversations -> {"no", "pooled", "leaked"}]
        /\ faults' \in 0 .. MaxFaults
    BY <1>2 DEF AcquireFails, Fault
  <2>. QED
    BY <1>2, <2>1, <2>2 DEF AcquireFails
<1>3. CASE Publish(d, e)
  <2>1. phase' \in [Dispatchers -> [Events -> Phases]]
    BY SMTT(30), <1>3 DEF Publish, Enter, Phases
  <2>2. /\ lock' \in [Conversations -> Dispatchers \cup {Nothing}]
        /\ stuck' \in [Conversations -> {"no", "pooled", "leaked"}]
        /\ faults' \in 0 .. MaxFaults
    BY <1>3 DEF Publish, Release, UnlockFails, Fault
  <2>3. sent' \in [Events -> Nat]
    BY <1>3 DEF Publish
  <2>. QED
    BY <1>3, <2>1, <2>2, <2>3 DEF Publish
<1>4. CASE MarkProcessed(d, e)
  <2>1. phase' \in [Dispatchers -> [Events -> Phases]]
    BY SMTT(30), <1>4 DEF MarkProcessed, Enter, Phases
  <2>2. /\ lock' \in [Conversations -> Dispatchers \cup {Nothing}]
        /\ stuck' \in [Conversations -> {"no", "pooled", "leaked"}]
    BY <1>4 DEF MarkProcessed, Release, UnlockFails
  <2>3. faults' \in 0 .. MaxFaults
    BY <1>4 DEF MarkProcessed, UnlockFails, Fault
  <2>4. Processed(d, e) \/ UNCHANGED deliveryVars
    BY <1>4 DEF MarkProcessed
  <2>. QED
    BY <1>4, <2>1, <2>2, <2>3, <2>4, TypeSettle DEF MarkProcessed
<1>5. CASE MarkFailed(d, e)
  <2>1. phase' \in [Dispatchers -> [Events -> Phases]]
    BY <1>5 DEF MarkFailed, Enter, Phases
  <2>2. faults' \in 0 .. MaxFaults
    BY <1>5 DEF MarkFailed, Fault
  <2>3. Failed(d, e) \/ UNCHANGED deliveryVars
    BY <1>5 DEF MarkFailed
  <2>. QED
    BY <1>5, <2>1, <2>2, <2>3, TypeSettle DEF MarkFailed
<1>. QED
  BY <1>1, <1>2, <1>3, <1>4, <1>5 DEF Handle

LEMMA TypeFailure ==
  ASSUME TypeOK,
         \/ \E d \in Dispatchers : Crash(d)
         \/ \E c \in Conversations : SessionLost(c) \/ SessionReset(c)
         \/ \E e \in Events : LeaseLapses(e)
  PROVE  TypeOK'
<1>. USE OutboxAssumption DEF TypeOK
<1>1. ASSUME NEW d \in Dispatchers, Crash(d) PROVE TypeOK'
  BY <1>1 DEF Crash, Fault, Phases
<1>2. ASSUME NEW c \in Conversations, SessionLost(c) \/ SessionReset(c) PROVE TypeOK'
  BY <1>2 DEF SessionLost, SessionReset, SessionEnds, Fault
<1>3. ASSUME NEW e \in Events, LeaseLapses(e) PROVE TypeOK'
  BY <1>3 DEF LeaseLapses, Fault
<1>. QED
  BY <1>1, <1>2, <1>3

LEMMA TypeNext == TypeOK /\ [Next]_vars => TypeOK'
<1>. SUFFICES ASSUME TypeOK, [Next]_vars PROVE TypeOK'
  OBVIOUS
<1>1. CASE UNCHANGED vars
  BY <1>1 DEF TypeOK, vars
<1>. QED
  BY <1>1, CommandChanges, TypeCommand, TypeLease, TypeHandle, TypeFailure DEF Next

(* The fields of rows, dispatchers and locks keep their types, and a lease that
   runs has an owner. *)
THEOREM OutboxTypeCorrect == Spec => []TypeOK
BY TypeInit, TypeNext, PTL DEF Spec

----------------------------------------------------------------------------
(* The strengthening OutboxInv, first over the commands. *)

LEMMA InvInit == Init => OutboxInv
<1>. SUFFICES ASSUME Init PROVE OutboxInv
  OBVIOUS
<1>1. SnapshotInv /\ AnnouncedInv /\ DispatchInv
  BY DEF Init, SnapshotInv, AnnouncedInv, DispatchInv
<1>2. SuppressionInv /\ TerminalShape
  BY DEF Init, SuppressionInv, Suppressed, TerminalShape
<1>3. AttemptsInv
  BY OutboxAssumption DEF Init, AttemptsInv
<1>. QED
  BY <1>1, <1>2, <1>3 DEF OutboxInv

LEMMA CommandInv ==
  ASSUME TypeOK, OutboxInv, NEW c \in Conversations, NEW e \in Events, Changes(c, e)
  PROVE  OutboxInv'
<1>. USE DEF TypeOK, Changes, Append
<1>0. /\ of[e] = Nothing /\ Nothing \notin Conversations
      /\ \A k \in Conversations : version'[k] \in Nat /\ version[k] <= version'[k]
      /\ \A f \in Events \ {e} : of'[f] = of[f] /\ atVersion'[f] = atVersion[f]
  BY OutboxAssumption
<1>1. SnapshotInv'
  <2>1. ASSUME NEW f \in Events \ {e}
        PROVE  SnapshotInv!(f)'
    BY <1>0, <2>1 DEF OutboxInv, SnapshotInv
  <2>2. SnapshotInv!(e)'
    <3>1. version'[c] >= 1
      <4>1. CASE version[c] = 1
        BY <1>0, <4>1
      <4>2. ASSUME NEW f \in Events, of[f] = c, atVersion[f] = version[c]
            PROVE  version'[c] >= 1
        <5>1. of[f] # Nothing
          BY <1>0, <4>2
        <5>2. atVersion[f] \in 1 .. version[of[f]]
          BY <5>1 DEF OutboxInv, SnapshotInv
        <5>. QED
          BY <1>0, <4>2, <5>2
      <4>. QED
        BY <4>1, <4>2 DEF OutboxInv, AnnouncedInv
    <3>2. /\ of'[e] = c /\ c # Nothing
          /\ atVersion'[e] = version'[c]
          /\ atState'[e] = state'[c] /\ atParty'[e] = party'[c]
      BY <1>0
    <3>3. atVersion'[e] \in 1 .. version'[of'[e]]
      BY <1>0, <3>1, <3>2
    <3>. QED
      BY <3>2, <3>3
  <2>. QED
    BY <2>1, <2>2 DEF SnapshotInv
<1>2. AnnouncedInv'
  <2>. SUFFICES ASSUME NEW k \in Conversations, version'[k] # 1
                PROVE  \E f \in Events : of'[f] = k /\ atVersion'[f] = version'[k]
    BY DEF AnnouncedInv
  <2>1. CASE version'[k] = version[k]
    <3>. PICK f \in Events : of[f] = k /\ atVersion[f] = version[k]
      BY <2>1 DEF OutboxInv, AnnouncedInv
    <3>. f # e
      BY <1>0
    <3>. QED
      BY <1>0, <2>1
  <2>2. CASE version'[k] # version[k]
    BY <2>2
  <2>. QED
    BY <2>1, <2>2
<1>3. DispatchInv'
  <2>. SUFFICES ASSUME NEW d \in Dispatchers, NEW f \in Events
                PROVE  DispatchInv!(d, f)'
    BY DEF DispatchInv
  <2>1. phase[d][f] # "none" => f # e /\ of[f] \in Conversations
    BY <1>0 DEF OutboxInv, DispatchInv
  <2>2. phase[d][f] # "none" => version[of[f]] <= version'[of'[f]]
    BY <1>0, <2>1
  <2>3. phase[d][f] = "publish" /\ lock[of[f]] = d /\ of[f] \in Private
          => version'[of'[f]] = version[of[f]]
    BY <1>0, <2>1, OutboxAssumption
  <2>4. Current(d, f)' <=> Current(d, f)
    BY DEF Current
  <2>. QED
    BY <1>0, <2>1, <2>2, <2>3, <2>4 DEF OutboxInv, DispatchInv
<1>4. SuppressionInv'
  <2>. SUFFICES ASSUME NEW f \in Events, Suppressed(f)'
                PROVE  atVersion'[f] < version'[of'[f]]
    BY DEF SuppressionInv
  <2>1. Suppressed(f) /\ f # e /\ of[f] \in Conversations
    BY <1>0 DEF Suppressed, OutboxInv, SnapshotInv
  <2>. QED
    BY <1>0, <2>1 DEF OutboxInv, SuppressionInv
<1>5. TerminalShape'
  BY DEF OutboxInv, TerminalShape
<1>6. AttemptsInv'
  BY DEF OutboxInv, AttemptsInv, AtWork
<1>. QED
  BY <1>1, <1>2, <1>3, <1>4, <1>5, <1>6 DEF OutboxInv

----------------------------------------------------------------------------
(* Claims. *)

LEMMA SupersededIsOlder ==
  ASSUME TypeOK, SnapshotInv, NEW e \in Events, of[e] # Nothing
  PROVE  Superseded(e) <=> atVersion[e] < version[of[e]]
<1>1. /\ atVersion[e] \in 1 .. version[of[e]]
      /\ atVersion[e] = version[of[e]] => atState[e] = state[of[e]]
  BY DEF SnapshotInv
<1>2. of[e] \in Conversations /\ version[of[e]] \in Nat /\ atVersion[e] \in Nat
  BY DEF TypeOK
<1>. QED
  BY <1>1, <1>2 DEF Superseded

LEMMA LeaseInv ==
  ASSUME TypeOK, OutboxInv, NEW d \in Dispatchers, NEW S \in SUBSET Events,
         Claim(d, S) \/ ClaimLost(d, S)
  PROVE  OutboxInv'
<1>. USE DEF TypeOK
<1>0. /\ Lease(d, S) /\ Idle(d)
      /\ \A k \in Dispatchers \ {d} : phase'[k] = phase[k]
      /\ \A e \in Events \ S : phase'[d][e] = "none"
  BY DEF Claim, ClaimLost, Idle
<1>1. SnapshotInv'
  <2>. SUFFICES ASSUME NEW e \in Events PROVE SnapshotInv!(e)'
    BY DEF SnapshotInv
  <2>1. CASE e \in S
    BY <1>0, <2>1 DEF OutboxInv, SnapshotInv, Lease, Claimable
  <2>2. CASE e \notin S
    BY <1>0, <2>2 DEF OutboxInv, SnapshotInv, Lease
  <2>. QED
    BY <2>1, <2>2
<1>2. AnnouncedInv'
  BY <1>0 DEF OutboxInv, AnnouncedInv, Lease
<1>3. DispatchInv'
  <2>. SUFFICES ASSUME NEW k \in Dispatchers, NEW e \in Events
                PROVE  DispatchInv!(k, e)'
    BY DEF DispatchInv
  <2>1. CASE k # d
    BY <1>0, <2>1 DEF OutboxInv, DispatchInv, Lease, Current
  <2>2. CASE k = d /\ ClaimLost(d, S)
    BY <1>0, <2>2 DEF ClaimLost, Idle
  <2>3. CASE k = d /\ Claim(d, S)
    <3>1. /\ phase'[d][e] \in {"none", "skip", "deliver"}
          /\ phase'[d][e] # "none" => e \in S
          /\ phase'[d][e] = "skip" => Superseded(e)
      <4>1. phase' = [phase EXCEPT ![d] = [g \in Events |->
                        IF g \notin S THEN "none"
                        ELSE IF Superseded(g) THEN "skip" ELSE "deliver"]]
        BY <2>3 DEF Claim
      <4>2. phase'[d][e] = IF e \notin S THEN "none"
                           ELSE IF Superseded(e) THEN "skip" ELSE "deliver"
        BY <4>1, Zenon
      <4>. QED
        BY <4>2
    <3>2. e \in S => of[e] # Nothing
      BY <1>0 DEF Lease, Claimable
    <3>3. of[e] # Nothing /\ Superseded(e) => atVersion[e] < version[of[e]]
      BY SupersededIsOlder DEF OutboxInv
    <3>4. UNCHANGED <<version, of, atVersion>>
      BY <1>0 DEF Lease
    <3>5. /\ phase'[d][e] # "none" => of[e] # Nothing
          /\ phase'[d][e] = "skip" => atVersion[e] < version[of[e]]
          /\ phase'[d][e] \notin {"settle", "publish"}
      BY <3>1, <3>2, <3>3
    <3>. QED
      BY <2>3, <3>4, <3>5
  <2>. QED
    BY <2>1, <2>2, <2>3
<1>4. SuppressionInv'
  BY <1>0 DEF OutboxInv, SuppressionInv, Suppressed, Lease
<1>5. TerminalShape'
  <2>. SUFFICES ASSUME NEW e \in Events PROVE TerminalShape!(e)'
    BY DEF TerminalShape
  <2>1. CASE e \in S
    BY <1>0, <2>1 DEF Lease, Claimable
  <2>2. CASE e \notin S
    BY <1>0, <2>2 DEF OutboxInv, TerminalShape, Lease
  <2>. QED
    BY <2>1, <2>2
<1>6. AttemptsInv'
  <2>. SUFFICES ASSUME NEW e \in Events PROVE AttemptsInv!(e)'
    BY DEF AttemptsInv
  <2>1. /\ faults' = faults \/ faults' = faults + 1
        /\ ClaimLost(d, S) => faults' = faults + 1
        /\ faults \in Nat
    BY OutboxAssumption DEF Claim, ClaimLost, Fault
  <2>2. CASE e \in S
    <3>1. attempts[e] < MaxAttempts + faults /\ attempts'[e] = attempts[e] + 1
      BY <1>0, <2>2 DEF OutboxInv, AttemptsInv, AtWork, Lease, Claimable
    <3>2. Claim(d, S) => AtWork(e)'
      <4>1. owner'[e] = d /\ leased'[e]
        BY <1>0, <2>2 DEF Lease
      <4>2. Claim(d, S) => phase'[d][e] # "none"
        BY <1>0, <2>2 DEF Claim
      <4>. QED
        BY <4>1, <4>2 DEF AtWork
    <3>. QED
      BY <2>1, <3>1, <3>2, OutboxAssumption
  <2>3. CASE e \notin S
    <3>1. AtWork(e) => AtWork(e)'
      BY <1>0, <2>3 DEF Lease, AtWork, Idle
    <3>. QED
      BY <1>0, <2>1, <2>3, <3>1, OutboxAssumption DEF OutboxInv, AttemptsInv, Lease
  <2>. QED
    BY <2>2, <2>3
<1>. QED
  BY <1>1, <1>2, <1>3, <1>4, <1>5, <1>6 DEF OutboxInv

----------------------------------------------------------------------------
(* What a dispatcher does with a claimed event.  None of it changes the rows of
   access or what the outbox recorded. *)

LEMMA HandleKeeps ==
  ASSUME NEW d \in Dispatchers, NEW e \in Events, Handle(d, e)
  PROVE  UNCHANGED <<accessVars, recordVars>>
BY DEF Handle, AcquireDeliveryLease, AcquireFails, Publish, MarkProcessed, MarkFailed

(* A dispatcher is ahead of an event only when it is done with those before. *)
LEMMA HandleMoves ==
  ASSUME TypeOK, NEW d \in Dispatchers, NEW e \in Events, Handle(d, e)
  PROVE  /\ phase[d][e] # "none" /\ Current(d, e)
         /\ \A k \in Dispatchers, f \in Events :
               k # d \/ f # e => phase'[k][f] = phase[k][f]
         /\ phase'[d][e] = "publish" => phase[d][e] = "deliver"
BY DEF TypeOK, Handle, AcquireDeliveryLease, AcquireFails, Publish, MarkProcessed,
       MarkFailed, Enter

LEMMA HandleCurrent ==
  ASSUME TypeOK, DispatchInv, NEW d \in Dispatchers, NEW e \in Events, Handle(d, e)
  PROVE  \A k \in Dispatchers, f \in Events :
            phase'[k][f] = "publish" => Current(k, f)'
<1>. SUFFICES ASSUME NEW k \in Dispatchers, NEW f \in Events, phase'[k][f] = "publish",
                     NEW g \in Events, phase'[k][g] # "none"
              PROVE  f <= g
  BY DEF Current
<1>1. phase[k][g] # "none"
  BY HandleMoves
<1>2. CASE k = d /\ f = e
  BY <1>1, <1>2, HandleMoves DEF Current
<1>3. CASE ~(k = d /\ f = e)
  BY <1>1, <1>3, HandleMoves DEF DispatchInv, Current
<1>. QED
  BY <1>2, <1>3

LEMMA HandleDispatch ==
  ASSUME TypeOK, OutboxInv, NEW d \in Dispatchers, NEW e \in Events, Handle(d, e)
  PROVE  DispatchInv'
<1>. USE DEF TypeOK
<1>. SUFFICES ASSUME NEW k \in Dispatchers, NEW f \in Events
              PROVE  DispatchInv!(k, f)'
  BY DEF DispatchInv
<1>1. UNCHANGED <<version, of, atVersion>> /\ (phase'[k][f] = "publish" => Current(k, f)')
  BY HandleKeeps, HandleCurrent DEF OutboxInv
<1>2. phase'[k][f] # "none" => of[f] # Nothing
  BY HandleMoves DEF OutboxInv, DispatchInv
<1>3. phase'[k][f] = "skip" => atVersion[f] < version[of[f]]
  <2>1. CASE k # d \/ f # e
    BY <2>1, HandleMoves DEF OutboxInv, DispatchInv
  <2>2. CASE k = d /\ f = e
    <3>1. CASE AcquireDeliveryLease(d, e)
      <4>1. phase'[d][e] = "skip" => Superseded(e)
        BY <3>1 DEF AcquireDeliveryLease, StillCurrent, Enter
      <4>. QED
        BY <1>2, <2>2, <4>1, SupersededIsOlder DEF OutboxInv
    <3>2. CASE AcquireFails(d, e)
      BY <2>2, <3>2 DEF AcquireFails, Enter
    <3>3. CASE Publish(d, e)
      BY <2>2, <3>3 DEF Publish, Enter
    <3>4. CASE MarkProcessed(d, e)
      BY <2>2, <3>4 DEF MarkProcessed, Enter
    <3>5. CASE MarkFailed(d, e)
      BY <2>2, <3>5 DEF MarkFailed, Enter
    <3>. QED
      BY <3>1, <3>2, <3>3, <3>4, <3>5 DEF Handle
  <2>. QED
    BY <2>1, <2>2
<1>4. \A g \in Events : sent'[g] \in Nat /\ sent[g] <= sent'[g]
  BY DEF Handle, AcquireDeliveryLease, AcquireFails, Publish, MarkProcessed, MarkFailed
<1>5. phase'[k][f] = "settle" => sent'[f] > 0
  <2>1. CASE k # d \/ f # e
    BY <1>4, <2>1, HandleMoves DEF OutboxInv, DispatchInv
  <2>2. CASE k = d /\ f = e
    <3>1. phase'[d][e] = "settle" => Publish(d, e)
      BY DEF Handle, AcquireDeliveryLease, AcquireFails, MarkProcessed, MarkFailed, Enter
    <3>2. Publish(d, e) /\ phase'[d][e] = "settle" => sent'[e] = sent[e] + 1
      BY DEF Publish, Enter
    <3>. QED
      BY <2>2, <3>1, <3>2
  <2>. QED
    BY <2>1, <2>2
<1>6. phase'[k][f] = "publish" /\ lock'[of[f]] = k /\ of[f] \in Private
        => atVersion[f] = version[of[f]]
  <2>. SUFFICES ASSUME phase'[k][f] = "publish", lock'[of[f]] = k, of[f] \in Private
                PROVE  atVersion[f] = version[of[f]]
    OBVIOUS
  <2>0. k # Nothing /\ of[f] \in Conversations
    BY <1>2, OutboxAssumption
  <2>1. CASE lock'[of[f]] = lock[of[f]] /\ (k # d \/ f # e)
    BY <2>0, <2>1, HandleMoves DEF OutboxInv, DispatchInv
  <2>2. CASE lock'[of[f]] # lock[of[f]]
    <3>1. AcquireDeliveryLease(d, e) \/ AcquireFails(d, e)
      BY <2>0, <2>2 DEF Handle, Publish, MarkProcessed, MarkFailed, Release, UnlockFails
    <3>2. k = d
      BY <2>0, <2>2, <3>1 DEF AcquireDeliveryLease, AcquireFails
    <3>3. f = e
      <4>1. phase[d][f] # "none" /\ phase[d][e] = "deliver" /\ Current(d, e)
        <5>1. phase[d][e] = "deliver" /\ Current(d, e)
          BY <3>1 DEF AcquireDeliveryLease, AcquireFails
        <5>2. f # e => phase[d][f] = phase'[d][f]
          BY HandleMoves
        <5>. QED
          BY <3>2, <5>1, <5>2
      <4>2. f <= e /\ e <= f
        <5>1. CASE phase'[d][e] # "none"
          BY <1>1, <3>2, <4>1, <5>1 DEF Current
        <5>2. CASE phase'[d][e] = "none"
          BY <3>1, <5>2 DEF AcquireDeliveryLease, AcquireFails, Enter
        <5>. QED
          BY <5>1, <5>2
      <4>3. f \in Nat /\ e \in Nat
        BY OutboxAssumption
      <4>. HIDE DEF TypeOK
      <4>. QED
        BY <4>2, <4>3
    <3>4. AcquireDeliveryLease(d, e) /\ StillCurrent(e)
      BY <3>1, <3>2, <3>3 DEF AcquireDeliveryLease, AcquireFails, Enter
    <3>. QED
      BY <3>3, <3>4 DEF StillCurrent, Superseded
  <2>3. CASE k = d /\ f = e /\ lock'[of[f]] = lock[of[f]]
    <3>1. AcquireDeliveryLease(d, e)
      BY <2>3 DEF Handle, AcquireFails, Publish, MarkProcessed, MarkFailed, Enter
    <3>. QED
      BY <2>0, <2>3, <3>1, OutboxAssumption DEF AcquireDeliveryLease
  <2>. QED
    BY <2>1, <2>2, <2>3
<1>. QED
  BY <1>1, <1>2, <1>3, <1>5, <1>6

(* Everything a dispatcher may do to the delivery fields of an event. *)
LEMMA HandleSettles ==
  ASSUME TypeOK, NEW d \in Dispatchers, NEW e \in Events, Handle(d, e)
  PROVE  \/ UNCHANGED deliveryVars
         \/ Processed(d, e) /\ Settles(d, e) /\ phase[d][e] \in {"skip", "settle"}
         \/ Failed(d, e) /\ Settles(d, e) /\ phase[d][e] = "fail"
BY DEF Handle, AcquireDeliveryLease, AcquireFails, Publish, MarkProcessed, MarkFailed,
       Processed, Failed

LEMMA HandleDelivery ==
  ASSUME TypeOK, NEW d \in Dispatchers, NEW e \in Events, Handle(d, e)
  PROVE  /\ attempts' = attempts
         /\ \A f \in Events \ {e} : /\ owner'[f] = owner[f] /\ leased'[f] = leased[f]
                                    /\ processed'[f] = processed[f] /\ dead'[f] = dead[f]
         /\ \/ UNCHANGED deliveryVars
            \/ /\ Settles(d, e) /\ phase[d][e] \in {"skip", "settle"}
               /\ processed'[e] /\ dead' = dead
               /\ owner'[e] = Nothing /\ ~leased'[e]
            \/ /\ Settles(d, e) /\ phase[d][e] = "fail"
               /\ processed' = processed /\ dead'[e] = (dead[e] \/ Exhausted(e))
               /\ owner'[e] = Nothing /\ ~leased'[e]
<1>1. CASE UNCHANGED deliveryVars
  BY <1>1
<1>2. CASE Processed(d, e) /\ Settles(d, e) /\ phase[d][e] \in {"skip", "settle"}
  BY <1>2 DEF TypeOK, Processed, Unlease
<1>3. CASE Failed(d, e) /\ Settles(d, e) /\ phase[d][e] = "fail"
  BY <1>3 DEF TypeOK, Failed, Unlease
<1>. QED
  BY <1>1, <1>2, <1>3, HandleSettles

LEMMA HandleRows ==
  ASSUME TypeOK, OutboxInv, NEW d \in Dispatchers, NEW e \in Events, Handle(d, e)
  PROVE  SnapshotInv' /\ AnnouncedInv' /\ SuppressionInv' /\ TerminalShape'
<1>. USE HandleKeeps, HandleDelivery
<1>0. of[e] # Nothing
  BY HandleMoves DEF OutboxInv, DispatchInv
<1>1. SnapshotInv'
  <2>. SUFFICES ASSUME NEW f \in Events PROVE SnapshotInv!(f)'
    BY DEF SnapshotInv
  <2>. QED
    BY <1>0 DEF OutboxInv, SnapshotInv
<1>2. AnnouncedInv'
  BY DEF OutboxInv, AnnouncedInv
<1>3. SuppressionInv'
  <2>. SUFFICES ASSUME NEW f \in Events, Suppressed(f)'
                PROVE  atVersion[f] < version[of[f]]
    BY DEF SuppressionInv
  <2>1. sent[f] \in Nat /\ sent'[f] \in Nat /\ sent[f] <= sent'[f]
    BY DEF TypeOK, Handle, AcquireDeliveryLease, AcquireFails, Publish, MarkProcessed,
           MarkFailed
  <2>2. processed'[f] /\ sent[f] = 0
    BY <2>1 DEF Suppressed
  <2>3. CASE processed[f]
    BY <2>2, <2>3 DEF OutboxInv, SuppressionInv, Suppressed
  <2>4. CASE ~processed[f]
    <3>1. f = e /\ phase[d][e] \in {"skip", "settle"}
      BY <2>2, <2>4
    <3>2. phase[d][e] # "settle"
      BY <2>2, <3>1 DEF OutboxInv, DispatchInv
    <3>. QED
      BY <3>1, <3>2 DEF OutboxInv, DispatchInv
  <2>. QED
    BY <2>3, <2>4
<1>4. TerminalShape'
  <2>. SUFFICES ASSUME NEW f \in Events PROVE TerminalShape!(f)'
    BY DEF TerminalShape
  <2>1. TerminalShape!(f)
    BY DEF OutboxInv, TerminalShape
  <2>2. Settles(d, e) => owner[e] # Nothing /\ ~processed[e]
    BY OutboxAssumption DEF Settles
  <2>. QED
    BY <2>1, <2>2
<1>. QED
  BY <1>1, <1>2, <1>3, <1>4

LEMMA HandleAttempts ==
  ASSUME TypeOK, OutboxInv, NEW d \in Dispatchers, NEW e \in Events, Handle(d, e)
  PROVE  AttemptsInv'
<1>. SUFFICES ASSUME NEW f \in Events PROVE AttemptsInv!(f)'
  BY DEF AttemptsInv
<1>0. /\ AttemptsInv!(f)
      /\ attempts[f] \in Nat /\ faults \in Nat /\ MaxAttempts \in Nat
  BY OutboxAssumption DEF OutboxInv, AttemptsInv, TypeOK
<1>1. faults' = faults \/ faults' = faults + 1
  BY DEF Handle, AcquireDeliveryLease, AcquireFails, Publish, MarkProcessed, MarkFailed,
     UnlockFails, Fault
<1>2. CASE faults' = faults + 1
  BY <1>0, <1>2, HandleDelivery
<1>3. CASE faults' = faults /\ AtWork(f) /\ ~AtWork(f)'
  <2>1. f = e
    BY <1>3, HandleDelivery, HandleMoves DEF AtWork, TypeOK
  <2>2. CASE UNCHANGED deliveryVars
    <3>1. owner[e] = d /\ phase'[d][e] = "none"
      BY <1>3, <2>1, <2>2, HandleMoves DEF AtWork, TypeOK
    <3>2. MarkProcessed(d, e) \/ MarkFailed(d, e)
      BY <3>1 DEF Handle, AcquireDeliveryLease, AcquireFails, Publish, Enter, TypeOK
    <3>3. Processed(d, e) \/ Failed(d, e)
      BY <1>0, <1>3, <3>1, <3>2 DEF MarkProcessed, MarkFailed, Enter, UnlockFails, Fault,
         TypeOK
    <3>4. ~Settles(d, e)
      BY <1>3, <2>1, <2>2, <3>3, OutboxAssumption DEF Processed, Failed, Unlease, AtWork, TypeOK
    <3>. QED
      BY <1>0, <1>3, <2>1, <2>2, <3>1, <3>4, HandleDelivery DEF Settles
  <2>3. CASE processed'[e]
    BY <1>0, <1>3, <2>1, <2>3, HandleDelivery
  <2>4. CASE dead'[e] = (dead[e] \/ Exhausted(e))
    <3>1. attempts' = attempts /\ faults' = faults
      BY <1>3, HandleDelivery
    <3>2. ~dead'[f] => ~(attempts[f] >= MaxAttempts)
      BY <2>1, <2>4 DEF Exhausted
    <3>3. ~dead'[f] => attempts[f] < MaxAttempts + faults
      BY <1>0, <3>2
    <3>. QED
      BY <1>0, <3>1, <3>3
  <2>. QED
    BY <2>2, <2>3, <2>4, HandleDelivery
<1>4. CASE faults' = faults /\ (~AtWork(f) \/ AtWork(f)')
  <2>1. ~processed'[f] /\ ~dead'[f] => ~processed[f] /\ ~dead[f]
    BY ZenonT(40), HandleDelivery DEF Settles
  <2>. QED
    BY <1>0, <1>4, <2>1, HandleDelivery
<1>. QED
  BY <1>1, <1>2, <1>3, <1>4

LEMMA HandleInv ==
  ASSUME TypeOK, OutboxInv, NEW d \in Dispatchers, NEW e \in Events, Handle(d, e)
  PROVE  OutboxInv'
BY HandleDispatch, HandleRows, HandleAttempts DEF OutboxInv

----------------------------------------------------------------------------
(* Failures and time. *)

LEMMA CrashInv ==
  ASSUME TypeOK, OutboxInv, NEW d \in Dispatchers, Crash(d)
  PROVE  OutboxInv'
<1>. USE DEF TypeOK
<1>0. /\ UNCHANGED <<accessVars, recordVars, deliveryVars, sent>>
      /\ faults' = faults + 1
      /\ \A k \in Dispatchers \ {d} : phase'[k] = phase[k]
      /\ \A e \in Events : phase'[d][e] = "none"
      /\ \A c \in Conversations : lock'[c] = lock[c] \/ lock'[c] = Nothing
  BY DEF Crash, Fault
<1>1. SnapshotInv' /\ AnnouncedInv' /\ SuppressionInv' /\ TerminalShape'
  BY <1>0 DEF OutboxInv, SnapshotInv, AnnouncedInv, SuppressionInv, Suppressed, TerminalShape
<1>2. DispatchInv'
  <2>. SUFFICES ASSUME NEW k \in Dispatchers, NEW f \in Events PROVE DispatchInv!(k, f)'
    BY DEF DispatchInv
  <2>1. CASE k = d
    BY <1>0, <2>1
  <2>2. CASE k # d
    <3>1. DispatchInv!(k, f) /\ (Current(k, f)' <=> Current(k, f))
      BY <1>0, <2>2 DEF OutboxInv, DispatchInv, Current
    <3>2. phase[k][f] # "none" /\ lock'[of[f]] = k => lock[of[f]] = k
      BY <1>0, <3>1, OutboxAssumption
    <3>. QED
      BY <1>0, <2>2, <3>1, <3>2
  <2>. QED
    BY <2>1, <2>2
<1>3. AttemptsInv'
  BY <1>0, OutboxAssumption DEF OutboxInv, AttemptsInv
<1>. QED
  BY <1>1, <1>2, <1>3 DEF OutboxInv

LEMMA SessionEndsInv ==
  ASSUME TypeOK, OutboxInv, NEW c \in Conversations, SessionLost(c) \/ SessionReset(c)
  PROVE  OutboxInv'
<1>. USE DEF TypeOK
<1>0. /\ UNCHANGED <<accessVars, recordVars, deliveryVars, phase, sent>>
      /\ faults' = faults \/ faults' = faults + 1
      /\ lock' = [lock EXCEPT ![c] = Nothing]
  BY DEF SessionLost, SessionReset, SessionEnds, Fault
<1>1. SnapshotInv' /\ AnnouncedInv' /\ SuppressionInv' /\ TerminalShape'
  BY <1>0 DEF OutboxInv, SnapshotInv, AnnouncedInv, SuppressionInv, Suppressed, TerminalShape
<1>2. DispatchInv'
  <2>. SUFFICES ASSUME NEW k \in Dispatchers, NEW f \in Events PROVE DispatchInv!(k, f)'
    BY DEF DispatchInv
  <2>1. DispatchInv!(k, f) /\ (Current(k, f)' <=> Current(k, f))
    BY <1>0 DEF OutboxInv, DispatchInv, Current
  <2>2. phase[k][f] # "none" /\ lock'[of[f]] = k => lock[of[f]] = k
    BY <1>0, <2>1, OutboxAssumption
  <2>. QED
    BY <1>0, <2>1, <2>2
<1>3. AttemptsInv'
  BY <1>0, OutboxAssumption DEF OutboxInv, AttemptsInv, AtWork
<1>. QED
  BY <1>1, <1>2, <1>3 DEF OutboxInv

LEMMA LeaseLapsesInv ==
  ASSUME TypeOK, OutboxInv, NEW e \in Events, LeaseLapses(e)
  PROVE  OutboxInv'
<1>. USE DEF TypeOK
<1>0. /\ UNCHANGED <<accessVars, recordVars, attempts, owner, processed, dead, lock,
                     phase, sent>>
      /\ leased' = [leased EXCEPT ![e] = FALSE]
      /\ \/ faults' = faults /\ phase[owner[e]][e] = "none"
         \/ faults' = faults + 1
  BY DEF LeaseLapses, Fault
<1>1. SnapshotInv' /\ AnnouncedInv' /\ SuppressionInv' /\ TerminalShape'
  BY <1>0 DEF OutboxInv, SnapshotInv, AnnouncedInv, SuppressionInv, Suppressed, TerminalShape
<1>2. DispatchInv'
  BY <1>0 DEF OutboxInv, DispatchInv, Current
<1>3. AttemptsInv'
  BY <1>0, OutboxAssumption DEF OutboxInv, AttemptsInv, AtWork
<1>. QED
  BY <1>1, <1>2, <1>3 DEF OutboxInv

----------------------------------------------------------------------------
(* The theorems. *)

LEMMA InvNext == TypeOK /\ OutboxInv /\ [Next]_vars => OutboxInv'
<1>. SUFFICES ASSUME TypeOK, OutboxInv, [Next]_vars PROVE OutboxInv'
  OBVIOUS
<1>1. CASE UNCHANGED vars
  BY <1>1 DEF vars, OutboxInv, SnapshotInv, AnnouncedInv, DispatchInv, SuppressionInv,
     Suppressed, TerminalShape, AttemptsInv, AtWork, Current
<1>. QED
  BY <1>1, CommandChanges, CommandInv, LeaseInv, HandleInv, CrashInv, SessionEndsInv,
     LeaseLapsesInv DEF Next

(* The inductive invariant: what rows, dispatchers and locks know of each other. *)
THEOREM OutboxCorrect == Spec => []OutboxInv
BY TypeInit, TypeNext, InvInit, InvNext, PTL DEF Spec

(* Whatever the dispatchers do at the same time, an event is settled in one way
   and once settled leased to nobody. *)
THEOREM SettledOnce == Spec => []TerminalShape
<1>1. OutboxInv => TerminalShape
  BY DEF OutboxInv
<1>. QED
  BY <1>1, OutboxCorrect, PTL

(* An event that nobody sends is superseded by one that is not left out. *)
THEOREM LastChangeCorrect == Spec => []LastChangeSurvives
<1>1. TypeOK /\ OutboxInv => LastChangeSurvives
  <2>. SUFFICES ASSUME TypeOK, OutboxInv, NEW e \in Events, Suppressed(e)
                PROVE  \E f \in Events : /\ of[f] = of[e] /\ atVersion[f] = version[of[e]]
                                         /\ ~Suppressed(f)
    BY DEF LastChangeSurvives
  <2>1. of[e] \in Conversations /\ atVersion[e] \in 1 .. version[of[e]]
    BY DEF OutboxInv, SnapshotInv, Suppressed, TypeOK
  <2>2. atVersion[e] < version[of[e]]
    BY DEF OutboxInv, SuppressionInv
  <2>3. version[of[e]] # 1 /\ version[of[e]] \in Nat
    BY <2>1, <2>2 DEF TypeOK
  <2>4. PICK f \in Events : of[f] = of[e] /\ atVersion[f] = version[of[e]]
    BY <2>1, <2>3 DEF OutboxInv, AnnouncedInv
  <2>5. ~Suppressed(f)
    BY <2>3, <2>4 DEF OutboxInv, SuppressionInv
  <2>. QED
    BY <2>4, <2>5
<1>. QED
  BY <1>1, OutboxTypeCorrect, OutboxCorrect, PTL

(* Retries end for any number of dispatchers, attempts and faults. *)
THEOREM RetriesEndCorrect == Spec => []RetriesEnd
<1>1. OutboxInv => RetriesEnd
  BY DEF OutboxInv, AttemptsInv, RetriesEnd
<1>. QED
  BY <1>1, OutboxCorrect, PTL

(* A private event reaches those who take part when it is sent, unless the
   session of its dispatcher was cut. *)
THEOREM AudienceCorrect == Spec => AudienceIsCurrent
<1>1. TypeOK /\ OutboxInv /\ [Next]_vars =>
      [\A e \in Events :
          sent'[e] # sent[e] /\ of[e] \in Private
          => \/ atParty[e] = party[of[e]] /\ atState[e] = state[of[e]]
             \/ \E d \in Dispatchers : /\ phase[d][e] = "publish"
                                       /\ phase'[d][e] # "publish"
                                       /\ lock[of[e]] # d]_vars
  <2>. SUFFICES ASSUME TypeOK, OutboxInv, Next, NEW e \in Events,
                       sent'[e] # sent[e], of[e] \in Private
                PROVE  \/ atParty[e] = party[of[e]] /\ atState[e] = state[of[e]]
                       \/ \E d \in Dispatchers : /\ phase[d][e] = "publish"
                                                 /\ phase'[d][e] # "publish"
                                                 /\ lock[of[e]] # d
    OBVIOUS
  <2>1. PICK d \in Dispatchers, f \in Events : Handle(d, f)
    <3>1. CASE \E c \in Conversations, f \in Events : Command(c, f)
      BY <3>1, CommandChanges DEF Changes, Append
    <3>2. CASE \E d \in Dispatchers, S \in SUBSET Events : Claim(d, S) \/ ClaimLost(d, S)
      BY <3>2 DEF Claim, ClaimLost, Lease
    <3>3. CASE \/ \E d \in Dispatchers : Crash(d)
               \/ \E c \in Conversations : SessionLost(c) \/ SessionReset(c)
               \/ \E f \in Events : LeaseLapses(f)
      BY <3>3 DEF Crash, SessionLost, SessionReset, SessionEnds, LeaseLapses
    <3>. QED
      BY <3>1, <3>2, <3>3 DEF Next
  <2>2. Publish(d, f) /\ f = e
    BY <2>1 DEF Handle, AcquireDeliveryLease, AcquireFails, MarkProcessed, MarkFailed,
       Publish, TypeOK
  <2>3. phase[d][e] = "publish" /\ phase'[d][e] # "publish"
    BY <2>2 DEF Publish, Enter, TypeOK
  <2>4. CASE lock[of[e]] = d
    BY <2>3, <2>4 DEF OutboxInv, DispatchInv, SnapshotInv
  <2>. QED
    BY <2>3, <2>4
<1>. QED
  BY <1>1, OutboxTypeCorrect, OutboxCorrect, PTL DEF Spec, AudienceIsCurrent
----------------------------------------------------------------------------
(* Advisory locks: a lock belongs to a dispatcher that publishes or records the
   event it is at, and it is at one event only; or to a session that an unlock
   failed to free, and then that dispatcher is at no event of the conversation. *)

LockInv ==
    /\ LockIsInUse
    /\ \A d \in Dispatchers, e \in Events : phase[d][e] = "settle" => Current(d, e)

(* A dispatcher that holds a lock for an event holds it for the one it is at. *)
LEMMA HeldForCurrent ==
  ASSUME TypeOK, OutboxInv, LockInv, NEW d \in Dispatchers, NEW e \in Events,
         phase[d][e] # "none", Current(d, e), NEW f \in Events,
         phase[d][f] \in {"publish", "settle"}
  PROVE  f = e
<1>1. Current(d, f)
  BY DEF LockInv, OutboxInv, DispatchInv
<1>2. e <= f /\ f <= e /\ e \in Nat /\ f \in Nat
  BY <1>1, OutboxAssumption DEF Current
<1>. QED
  BY <1>2

(* What a dispatcher does with its event, for the locks. *)
Takes(d, e) ==
    /\ phase[d][e] = "deliver" /\ lock[of[e]] = Nothing
    /\ lock' = [lock EXCEPT ![of[e]] = d]
    /\ \/ phase'[d][e] = "publish" /\ stuck' = stuck
       \/ /\ phase'[d][e] = "fail" /\ faults' > 0
          /\ stuck' = [stuck EXCEPT ![of[e]] = "leaked"]

Frees(d, e) ==
    /\ Holds(d, e) /\ phase'[d][e] \in {"fail", "none"}
    /\ \/ lock' = [lock EXCEPT ![of[e]] = Nothing] /\ stuck' = stuck
       \/ lock' = lock /\ stuck' = [stuck EXCEPT ![of[e]] = "pooled"] /\ faults' > 0

Leaves(d, e) ==
    /\ UNCHANGED lockVars
    /\ Holds(d, e) => phase'[d][e] \in {"publish", "settle"}
    /\ phase'[d][e] # "publish"
    /\ phase'[d][e] = "settle" => phase[d][e] = "publish"

LEMMA HandleLocks ==
  ASSUME TypeOK, NEW d \in Dispatchers, NEW e \in Events, of[e] \in Conversations,
         Handle(d, e)
  PROVE  Takes(d, e) \/ Frees(d, e) \/ Leaves(d, e)
<1>. USE DEF TypeOK
<1>0. faults \in Nat /\ lock[of[e]] \in Dispatchers \cup {Nothing} /\ d # Nothing
  BY OutboxAssumption
<1>1. CASE AcquireDeliveryLease(d, e)
  BY <1>0, <1>1 DEF AcquireDeliveryLease, Enter, Takes, Leaves, Holds
<1>2. CASE AcquireFails(d, e)
  BY <1>0, <1>2 DEF AcquireFails, Enter, Fault, Takes, Leaves, Holds
<1>3. CASE Publish(d, e)
  <2>1. CASE phase'[d][e] = "settle"
    BY <1>3, <2>1 DEF Publish, Enter, Leaves
  <2>2. CASE Release(d, e) /\ phase'[d][e] = "fail"
    BY <1>0, <2>2 DEF Release, Frees, Leaves
  <2>3. CASE UnlockFails(d, e) /\ phase'[d][e] = "fail"
    BY <1>0, <2>3 DEF UnlockFails, Fault, Frees
  <2>. QED
    BY <1>3, <2>1, <2>2, <2>3 DEF Publish, Enter
<1>4. CASE MarkProcessed(d, e)
  <2>0. phase'[d][e] \in {"fail", "none"}
    BY <1>4 DEF MarkProcessed, Enter
  <2>1. CASE Release(d, e)
    BY <1>0, <2>0, <2>1 DEF Release, Frees, Leaves
  <2>2. CASE UnlockFails(d, e)
    BY <1>0, <2>0, <2>2 DEF UnlockFails, Fault, Frees
  <2>. QED
    BY <1>4, <2>1, <2>2 DEF MarkProcessed
<1>5. CASE MarkFailed(d, e)
  BY <1>5 DEF MarkFailed, Enter, Leaves, Holds
<1>. QED
  BY <1>1, <1>2, <1>3, <1>4, <1>5 DEF Handle

LEMMA HandleLockInv ==
  ASSUME TypeOK, OutboxInv, LockInv, NEW d \in Dispatchers, NEW e \in Events, Handle(d, e)
  PROVE  LockInv'
<1>0. /\ phase[d][e] # "none" /\ Current(d, e)
      /\ \A k \in Dispatchers, f \in Events :
            k # d \/ f # e => phase'[k][f] = phase[k][f]
  BY HandleMoves
<1>1. of' = of /\ of[e] \in Conversations
  BY <1>0, HandleKeeps DEF OutboxInv, DispatchInv, TypeOK
<1>2. \A f \in Events : phase[d][f] \in {"publish", "settle"} => f = e
  BY <1>0, HeldForCurrent
<1>3. faults \in Nat /\ faults' \in Nat /\ faults <= faults'
  BY DEF TypeOK, Handle, AcquireDeliveryLease, AcquireFails, Publish, MarkProcessed,
     MarkFailed, UnlockFails, Fault
<1>4. ASSUME NEW c \in Conversations, c # of[e]
      PROVE  LockIsInUse!(c)'
  <2>1. lock'[c] = lock[c] /\ stuck'[c] = stuck[c]
    BY <1>1, <1>4, HandleLocks DEF Takes, Frees, Leaves, TypeOK
  <2>2. lock[c] # Nothing => (InUse(c)' <=> InUse(c))
    BY <1>0, <1>1, <1>4, <2>1 DEF InUse, TypeOK
  <2>. QED
    BY <1>3, <2>1, <2>2 DEF LockInv, LockIsInUse
<1>5. LockIsInUse!(of[e])'
  <2>. DEFINE c == of[e]
  <2>0. /\ lock[c] # Nothing /\ stuck[c] = "no" => InUse(c)
        /\ stuck[c] # "no" => lock[c] # Nothing /\ faults > 0 /\ ~InUse(c)
    BY <1>1 DEF LockInv, LockIsInUse
  <2>1. CASE Takes(d, e)
    <3>1. /\ lock'[c] = d /\ stuck[c] = "no" /\ d # Nothing
          /\ phase[d][e] = "deliver"
      BY <1>1, <2>0, <2>1, OutboxAssumption DEF Takes, TypeOK
    <3>2. CASE phase'[d][e] = "publish" /\ stuck' = stuck
      BY <1>1, <3>1, <3>2 DEF InUse
    <3>3. CASE phase'[d][e] = "fail" /\ faults' > 0 /\ stuck' = [stuck EXCEPT ![of[e]] = "leaked"]
      <4>1. stuck'[c] = "leaked"
        BY <1>1, <3>3 DEF TypeOK
      <4>2. ~InUse(c)'
        BY <1>0, <1>1, <1>2, <3>1, <3>3 DEF InUse
      <4>. QED
        BY <1>1, <3>1, <3>3, <4>1, <4>2
    <3>. QED
      BY <2>1, <3>2, <3>3 DEF Takes
  <2>2. CASE Frees(d, e)
    <3>1. lock[c] = d /\ InUse(c) /\ stuck[c] = "no" /\ d # Nothing
      BY <2>0, <2>2, OutboxAssumption DEF Frees, Holds, InUse
    <3>2. CASE lock' = [lock EXCEPT ![of[e]] = Nothing] /\ stuck' = stuck
      BY <1>1, <3>1, <3>2 DEF TypeOK
    <3>3. CASE lock' = lock /\ stuck' = [stuck EXCEPT ![of[e]] = "pooled"] /\ faults' > 0
      <4>1. stuck'[c] = "pooled"
        BY <1>1, <3>3 DEF TypeOK
      <4>2. ~InUse(c)'
        <5>1. \A f \in Events : f # e => phase'[d][f] \notin {"publish", "settle"}
          BY <1>0, <1>2
        <5>2. phase'[d][e] \notin {"publish", "settle"}
          BY <2>2 DEF Frees
        <5>. QED
          BY <1>1, <3>1, <3>3, <5>1, <5>2 DEF InUse
      <4>. QED
        BY <1>1, <3>1, <3>3, <4>1, <4>2
    <3>. QED
      BY <2>2, <3>2, <3>3 DEF Frees
  <2>3. CASE Leaves(d, e)
    <3>1. UNCHANGED <<lock, stuck>>
      BY <2>3 DEF Leaves
    <3>2. CASE lock[c] # d
      <4>1. lock[c] # Nothing => (InUse(c)' <=> InUse(c))
        BY <1>0, <1>1, <3>1, <3>2 DEF InUse, TypeOK
      <4>. QED
        BY <1>1, <1>3, <2>0, <3>1, <4>1
    <3>3. CASE lock[c] = d
      <4>1. InUse(c) <=> phase[d][e] \in {"publish", "settle"}
        BY <1>2, <3>3 DEF InUse
      <4>2. InUse(c)' <=> phase'[d][e] \in {"publish", "settle"}
        <5>1. \A f \in Events : f # e => phase'[d][f] \notin {"publish", "settle"}
          BY <1>0, <1>2
        <5>. QED
          BY <1>1, <3>1, <3>3, <5>1 DEF InUse
      <4>3. InUse(c)' <=> InUse(c)
        BY <2>3, <3>3, <4>1, <4>2 DEF Leaves, Holds
      <4>. QED
        BY <1>1, <1>3, <2>0, <3>1, <4>3
    <3>. QED
      BY <3>2, <3>3
  <2>. QED
    BY <1>1, <2>1, <2>2, <2>3, HandleLocks
<1>6. ASSUME NEW k \in Dispatchers, NEW f \in Events, phase'[k][f] = "settle",
             NEW g \in Events, phase'[k][g] # "none"
      PROVE  f <= g
  <2>1. phase[k][f] \in {"publish", "settle"}
    <3>1. CASE k = d /\ f = e
      BY <1>1, <1>6, <3>1, HandleLocks DEF Takes, Frees, Leaves
    <3>2. CASE k # d \/ f # e
      BY <1>0, <1>6, <3>2
    <3>. QED
      BY <3>1, <3>2
  <2>2. Current(k, f)
    BY <2>1 DEF LockInv, OutboxInv, DispatchInv
  <2>3. phase[k][g] # "none"
    BY <1>0, <1>6
  <2>. QED
    BY <2>2, <2>3 DEF Current
<1>7. LockIsInUse'
  BY <1>1, <1>4, <1>5 DEF LockIsInUse
<1>8. \A k \in Dispatchers, f \in Events : phase'[k][f] = "settle" => Current(k, f)'
  BY <1>6 DEF Current
<1>. QED
  BY <1>7, <1>8 DEF LockInv

LEMMA LockNext == TypeOK /\ OutboxInv /\ LockInv /\ [Next]_vars => LockInv'
<1>. SUFFICES ASSUME TypeOK, OutboxInv, LockInv, [Next]_vars PROVE LockInv'
  OBVIOUS
<1>0. \A c \in Conversations : lock[c] # Nothing => lock[c] \in Dispatchers
  BY DEF TypeOK
<1>1. ASSUME NEW c \in Conversations, NEW e \in Events, Command(c, e)
      PROVE  LockInv'
  <2>1. /\ UNCHANGED <<lock, stuck, faults, phase>>
        /\ of[e] = Nothing /\ of' = [of EXCEPT ![e] = c]
    BY <1>1, CommandChanges DEF Changes, Append
  <2>2. \A d \in Dispatchers, f \in Events : phase[d][f] # "none" => of'[f] = of[f]
    BY <2>1 DEF TypeOK, OutboxInv, DispatchInv
  <2>3. \A b \in Conversations : lock[b] # Nothing => (InUse(b)' <=> InUse(b))
    BY <1>0, <2>1, <2>2 DEF InUse
  <2>. QED
    BY <2>1, <2>3 DEF LockInv, LockIsInUse, Current
<1>2. ASSUME NEW d \in Dispatchers, NEW S \in SUBSET Events, Claim(d, S) \/ ClaimLost(d, S)
      PROVE  LockInv'
  <2>1. /\ UNCHANGED <<lock, stuck, of>>
        /\ faults \in Nat /\ (faults' = faults \/ faults' = faults + 1)
        /\ \A k \in Dispatchers \ {d} : phase'[k] = phase[k]
        /\ \A e \in Events : /\ phase[d][e] = "none"
                              /\ phase'[d][e] \notin {"publish", "settle"}
    BY <1>2 DEF Claim, ClaimLost, Lease, Idle, Fault, TypeOK
  <2>2. \A b \in Conversations : lock[b] # Nothing => (InUse(b)' <=> InUse(b))
    BY <1>0, <2>1 DEF InUse
  <2>. QED
    BY <2>1, <2>2 DEF LockInv, LockIsInUse, Current
<1>3. ASSUME NEW d \in Dispatchers, Crash(d)
      PROVE  LockInv'
  <2>1. /\ of' = of /\ faults' = faults + 1 /\ faults \in Nat
        /\ \A k \in Dispatchers \ {d} : phase'[k] = phase[k]
        /\ \A e \in Events : phase'[d][e] = "none"
    BY <1>3 DEF Crash, Fault, TypeOK
  <2>2. \A c \in Conversations :
           \/ lock'[c] = Nothing /\ (lock[c] = d => stuck'[c] = "no")
              /\ (lock[c] # d => lock[c] = Nothing /\ stuck'[c] = stuck[c])
           \/ lock'[c] = lock[c] /\ stuck'[c] = stuck[c] /\ lock[c] \in Dispatchers \ {d}
    BY <1>0, <1>3 DEF Crash, TypeOK
  <2>3. \A b \in Conversations :
           lock[b] \in Dispatchers \ {d} /\ lock'[b] = lock[b] => (InUse(b)' <=> InUse(b))
    BY <2>1 DEF InUse
  <2>4. LockIsInUse'
    BY <2>1, <2>2, <2>3 DEF LockInv, LockIsInUse
  <2>. QED
    BY <2>1, <2>4 DEF LockInv, Current
<1>4. ASSUME NEW c \in Conversations, SessionLost(c) \/ SessionReset(c)
      PROVE  LockInv'
  <2>1. /\ UNCHANGED <<of, phase>>
        /\ faults \in Nat /\ (faults' = faults \/ faults' = faults + 1)
        /\ lock'[c] = Nothing /\ stuck'[c] = "no"
        /\ \A b \in Conversations \ {c} : lock'[b] = lock[b] /\ stuck'[b] = stuck[b]
    BY <1>4 DEF SessionLost, SessionReset, SessionEnds, Fault, TypeOK
  <2>2. \A b \in Conversations \ {c} : InUse(b)' <=> InUse(b)
    BY <2>1 DEF InUse
  <2>. QED
    BY <2>1, <2>2 DEF LockInv, LockIsInUse, Current
<1>5. ASSUME UNCHANGED <<of, phase, lock, stuck>>, faults' = faults \/ faults' = faults + 1
      PROVE  LockInv'
  <2>1. faults \in Nat
    BY DEF TypeOK
  <2>. QED
    BY <1>5, <2>1 DEF LockInv, LockIsInUse, InUse, Current
<1>6. UNCHANGED vars \/ (\E e \in Events : LeaseLapses(e))
        => /\ UNCHANGED <<of, phase, lock, stuck>>
           /\ faults' = faults \/ faults' = faults + 1
  BY DEF vars, LeaseLapses, Fault
<1>. QED
  BY <1>1, <1>2, <1>3, <1>4, <1>5, <1>6, HandleLockInv DEF Next

(* No exception, cut session or stopped process leaves an advisory lock to a
   dispatcher that does not publish or record an event of that conversation, but
   for an unlock that fails itself; what it leaves is never taken for a lock in use. *)
THEOREM LocksInUse == Spec => []LockIsInUse
<1>1. Init => LockInv
  BY DEF Init, LockInv, LockIsInUse
<1>2. LockInv => LockIsInUse
  BY DEF LockInv
<1>. QED
  BY <1>1, <1>2, LockNext, OutboxTypeCorrect, OutboxCorrect, PTL DEF Spec
============================================================================
