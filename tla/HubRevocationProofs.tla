------------------------ MODULE HubRevocationProofs ------------------------
(***************************************************************************)
(* Proofs about HubRevocation, for any accounts, connections and rotations *)
(* and any validation interval.                                            *)
(***************************************************************************)
EXTENDS HubRevocation, TLAPS

USE DEF accountVars, pipelineVars, monitorVars, rotationVars, MoveTo, Abort

LEMMA InitTypeOK == Init => TypeOK
<1>. SUFFICES ASSUME Init PROVE TypeOK
  OBVIOUS
<1>1. AccountTypeOK
  BY BoundAssumption, ClockAssumption DEF Init, AccountInit, AccountTypeOK, Instants, Stamps
<1>2. 0 \in Instants
  BY BoundAssumption, ClockAssumption DEF Instants
<1>. QED
  BY <1>1, <1>2 DEF Init, TypeOK, Phases, Answers, Calls

LEMMA AccountType ==
    ASSUME AccountTypeOK, \/ Tick \/ \E a \in Accounts : Disable(a) \/ Replace(a)
    PROVE  AccountTypeOK'
<1>1. CASE Tick
  BY <1>1, BoundAssumption, ClockAssumption DEF Tick, AccountTypeOK, Instants
<1>2. ASSUME NEW a \in Accounts, Disable(a) PROVE AccountTypeOK'
  <2>1. [s \in Stamps |-> IF s >= stamp[a] THEN clock ELSE lostAt[a][s]]
            \in [Stamps -> Instants \union {Never}]
    BY DEF AccountTypeOK
  <2>. QED
    BY <1>2, <2>1 DEF Disable, AccountTypeOK
<1>3. ASSUME NEW a \in Accounts, Replace(a) PROVE AccountTypeOK'
  <2>1. /\ stamp[a] \in Stamps /\ stamp[a] + 1 \in Stamps
    BY <1>3, BoundAssumption, ClockAssumption DEF Replace, AccountTypeOK, Stamps
  <2>2. [lostAt EXCEPT ![a][stamp[a]] = clock]
            \in [Accounts -> [Stamps -> Instants \union {Never}]]
    BY <2>1 DEF AccountTypeOK
  <2>. QED
    BY <1>3, <2>1, <2>2 DEF Replace, AccountTypeOK
<1>. QED
  BY <1>1, <1>2, <1>3

LEMMA CarriedTyped ==
    ASSUME AccountTypeOK, NEW c \in Connections
    PROVE  Carried(Owner[c]) \subseteq Stamps \union {Unreadable}
BY OwnerAssumption, BoundAssumption, ClockAssumption DEF Carried, Stamps, AccountTypeOK

LEMMA ConnectionType ==
    ASSUME TypeOK, NEW c \in Connections, ConnectionStep(c)
    PROVE  TypeOK'
<1>1. CASE Connect(c)
  BY <1>1, CarriedTyped DEF Connect, TypeOK, AccountTypeOK, Phases
<1>2. CASE ReadPrincipal(c)
  BY <1>2 DEF ReadPrincipal, TypeOK, AccountTypeOK, Verdict, Answers
<1>3. CASE ReadFails(c)
  BY <1>3 DEF ReadFails, TypeOK, AccountTypeOK, Phases
<1>4. CASE Admit(c)
  BY <1>4 DEF Admit, TypeOK, AccountTypeOK, Phases, Answers
<1>5. CASE Refuse(c)
  BY <1>5 DEF Refuse, TypeOK, AccountTypeOK, Phases, Answers
<1>6. CASE Join(c)
  BY <1>6 DEF Join, TypeOK, AccountTypeOK, Phases
<1>7. CASE JoinFails(c)
  BY <1>7 DEF JoinFails, TypeOK, AccountTypeOK, Phases
<1>8. CASE CallUnasked(c)
  BY <1>8 DEF CallUnasked, TypeOK, AccountTypeOK
<1>9. CASE Ask(c)
  BY <1>9 DEF Ask, TypeOK, AccountTypeOK, Phases
<1>10. CASE CallChecked(c)
  BY <1>10 DEF CallChecked, TypeOK, AccountTypeOK, Phases, Answers
<1>11. CASE RefuseCall(c)
  BY <1>11 DEF RefuseCall, TypeOK, AccountTypeOK, Phases, Answers
<1>12. CASE ClientDrops(c)
  BY <1>12 DEF ClientDrops, TypeOK, AccountTypeOK
<1>13. CASE Disconnect(c)
  BY <1>13 DEF Disconnect, TypeOK, AccountTypeOK, Phases
<1>. QED
  BY <1>1, <1>2, <1>3, <1>4, <1>5, <1>6, <1>7, <1>8, <1>9, <1>10, <1>11, <1>12, <1>13
     DEF ConnectionStep

LEMMA MonitorType ==
    ASSUME TypeOK,
           MonitorTick \/ MonitorRest \/ \E c \in Connections : MonitorStep(c)
    PROVE  TypeOK'
<1>1. CASE MonitorTick
  BY <1>1 DEF MonitorTick, TypeOK, AccountTypeOK
<1>2. CASE MonitorRest
  BY <1>2 DEF MonitorRest, TypeOK, AccountTypeOK
<1>3. ASSUME NEW c \in Connections, MonitorStep(c) PROVE TypeOK'
  <2>1. CASE MonitorDrop(c)
    BY <2>1 DEF MonitorDrop, TypeOK, AccountTypeOK
  <2>2. CASE MonitorAsk(c)
    BY <2>2 DEF MonitorAsk, TypeOK, AccountTypeOK
  <2>3. CASE MonitorRead(c)
    BY <2>3 DEF MonitorRead, TypeOK, AccountTypeOK, Verdict
  <2>4. CASE MonitorFails(c)
    BY <2>4 DEF MonitorFails, TypeOK, AccountTypeOK
  <2>5. CASE MonitorKeep(c)
    BY <2>5 DEF MonitorKeep, TypeOK, AccountTypeOK
  <2>6. CASE MonitorAbort(c)
    BY <2>6 DEF MonitorAbort, TypeOK, AccountTypeOK
  <2>. QED
    BY <1>3, <2>1, <2>2, <2>3, <2>4, <2>5, <2>6 DEF MonitorStep
<1>. QED
  BY <1>1, <1>2, <1>3

LEMMA RotationType ==
    ASSUME TypeOK, NEW r \in Rotations, RotationStep(r)
    PROVE  TypeOK'
<1>1. ASSUME NEW e \in {Anything} \union Stamps, Rotate(r, e) PROVE TypeOK'
  <2>1. target[r] \in Accounts /\ Replace(target[r])
    BY <1>1 DEF Rotate, TypeOK
  <2>2. AccountTypeOK'
    BY <2>1, AccountType DEF TypeOK
  <2>. QED
    BY <1>1, <2>2 DEF Rotate, TypeOK, Calls
<1>2. ASSUME NEW e \in {Anything} \union Stamps, RotateRefused(r, e) PROVE TypeOK'
  BY <1>2 DEF RotateRefused, TypeOK, AccountTypeOK, Calls
<1>3. CASE RotateLost(r)
  BY <1>3 DEF RotateLost, TypeOK, AccountTypeOK, Calls
<1>4. CASE Notify(r)
  BY <1>4 DEF Notify, TypeOK, AccountTypeOK, Calls
<1>5. ASSUME NEW c \in Connections, AbortMarked(r, c) PROVE TypeOK'
  BY <1>5 DEF AbortMarked, TypeOK, AccountTypeOK
<1>6. CASE Return(r)
  BY <1>6 DEF Return, TypeOK, AccountTypeOK, Calls
<1>. QED
  BY <1>1, <1>2, <1>3, <1>4, <1>5, <1>6 DEF RotationStep

LEMMA NextTypeOK == TypeOK /\ [Next]_vars => TypeOK'
<1>. SUFFICES ASSUME TypeOK, [Next]_vars PROVE TypeOK'
  OBVIOUS
<1>1. ASSUME NEW a \in Accounts, Disable(a) /\ Elsewhere PROVE TypeOK'
  BY <1>1, AccountType DEF TypeOK, Elsewhere
<1>2. CASE Tick /\ Elsewhere
  BY <1>2, AccountType DEF TypeOK, Elsewhere
<1>3. CASE UNCHANGED vars
  BY <1>3 DEF vars, TypeOK, AccountTypeOK
<1>. QED
  BY <1>1, <1>2, <1>3, ConnectionType, MonitorType, RotationType DEF Next

\* The variables keep their types.
THEOREM TypeCorrect == Spec => []TypeOK
BY InitTypeOK, NextTypeOK, PTL DEF Spec

-----------------------------------------------------------------------------
(* Who is in the registry. *)

Watch == ServedIsWatched /\ RegistryHasNoGhosts

LEMMA WatchStep == TypeOK /\ Watch /\ [Next]_vars => Watch'
<1>. SUFFICES ASSUME TypeOK, Watch, [Next]_vars PROVE Watch'
  OBVIOUS
<1>. USE DEF TypeOK, Watch, ServedIsWatched, RegistryHasNoGhosts, Serving, Phases
<1>1. ASSUME UNCHANGED <<phase, aborted, registry>> PROVE Watch'
  BY <1>1
<1>2. ASSUME NEW c \in Connections, ConnectionStep(c) PROVE Watch'
  <2>1. CASE Connect(c)
    BY <2>1 DEF Connect
  <2>2. CASE ReadPrincipal(c)
    BY <2>2 DEF ReadPrincipal
  <2>3. CASE ReadFails(c)
    BY <2>3 DEF ReadFails
  <2>4. CASE Admit(c)
    BY <2>4 DEF Admit
  <2>5. CASE Refuse(c)
    BY <2>5 DEF Refuse
  <2>6. CASE Join(c)
    BY <2>6 DEF Join
  <2>7. CASE JoinFails(c)
    BY <2>7 DEF JoinFails
  <2>8. CASE CallUnasked(c)
    BY <2>8 DEF CallUnasked
  <2>9. CASE Ask(c)
    BY <2>9 DEF Ask
  <2>10. CASE CallChecked(c)
    BY <2>10 DEF CallChecked
  <2>11. CASE RefuseCall(c)
    BY <2>11 DEF RefuseCall
  <2>12. CASE ClientDrops(c)
    BY <2>12 DEF ClientDrops
  <2>13. CASE Disconnect(c)
    BY <2>13 DEF Disconnect
  <2>. QED
    BY <1>2, <2>1, <2>2, <2>3, <2>4, <2>5, <2>6, <2>7, <2>8, <2>9, <2>10, <2>11, <2>12,
       <2>13 DEF ConnectionStep
<1>3. ASSUME NEW c \in Connections, MonitorStep(c) PROVE Watch'
  <2>1. CASE MonitorDrop(c)
    BY <2>1 DEF MonitorDrop
  <2>2. CASE MonitorAbort(c)
    BY <2>2 DEF MonitorAbort
  <2>3. CASE MonitorAsk(c) \/ MonitorRead(c) \/ MonitorFails(c) \/ MonitorKeep(c)
    BY <1>1, <2>3 DEF MonitorAsk, MonitorRead, MonitorFails, MonitorKeep
  <2>. QED
    BY <1>3, <2>1, <2>2, <2>3 DEF MonitorStep
<1>4. CASE MonitorTick \/ MonitorRest
  BY <1>1, <1>4 DEF MonitorTick, MonitorRest
<1>5. ASSUME NEW r \in Rotations, RotationStep(r) PROVE Watch'
  <2>1. ASSUME NEW c \in Connections, AbortMarked(r, c) PROVE Watch'
    BY <2>1 DEF AbortMarked
  <2>2. ASSUME NEW e \in {Anything} \union Stamps, Rotate(r, e) \/ RotateRefused(r, e)
        PROVE  Watch'
    BY <1>1, <2>2 DEF Rotate, RotateRefused
  <2>3. CASE RotateLost(r) \/ Notify(r) \/ Return(r)
    BY <1>1, <2>3 DEF RotateLost, Notify, Return
  <2>. QED
    BY <1>5, <2>1, <2>2, <2>3 DEF RotationStep
<1>6. ASSUME Elsewhere PROVE Watch'
  BY <1>1, <1>6 DEF Elsewhere
<1>7. CASE UNCHANGED vars
  BY <1>1, <1>7 DEF vars
<1>. QED
  BY <1>2, <1>3, <1>4, <1>5, <1>6, <1>7 DEF Next

\* Whatever the order of registration, monitor and AbortAccount, a connection the
\* hub serves is in the registry until it is aborted.
THEOREM ServedWatched == Spec => []ServedIsWatched
<1>1. Init => Watch
  BY DEF Init, Watch, ServedIsWatched, RegistryHasNoGhosts, Serving
<1>2. Watch => ServedIsWatched
  BY DEF Watch
<1>. QED
  BY <1>1, <1>2, InitTypeOK, NextTypeOK, WatchStep, PTL DEF Spec

\* The registry holds no connection that is over or was never admitted.
THEOREM NoGhosts == Spec => []RegistryHasNoGhosts
<1>1. Init => Watch
  BY DEF Init, Watch, ServedIsWatched, RegistryHasNoGhosts, Serving
<1>2. Watch => RegistryHasNoGhosts
  BY DEF Watch
<1>. QED
  BY <1>1, <1>2, InitTypeOK, NextTypeOK, WatchStep, PTL DEF Spec

-----------------------------------------------------------------------------
(* What a rotation has driven off.  Until it takes its snapshot, a connection
   present at the commit is in the registry unless it was aborted or closed;
   from then on, it is marked. *)

Accounted(r, c) ==
    \/ aborted[c] \/ phase[c] = "closed"
    \/ call[r] = "committed" /\ c \in registry
    \/ call[r] = "aborting" /\ c \in marked[r]

Driven ==
    \A r \in Rotations :
        /\ present[r] \subseteq OfAccount(target[r])
        /\ call[r] \in {"committed", "aborting", "returned"} =>
               \A c \in present[r] : Accounted(r, c)

\* A step that changes no rotation: what leaves the registry has been aborted or
\* is closed, and neither is undone.
LEMMA DrivenByOthers ==
    ASSUME TypeOK, Driven, UNCHANGED rotationVars,
           \A c \in Connections :
               /\ aborted[c] => aborted'[c]
               /\ phase[c] = "closed" => phase'[c] = "closed"
               /\ c \in registry /\ c \notin registry' => aborted'[c] \/ phase'[c] = "closed"
    PROVE  Driven'
<1>1. ASSUME NEW r \in Rotations, NEW c \in Connections, Accounted(r, c)
      PROVE  Accounted(r, c)'
  BY <1>1 DEF Accounted
<1>2. ASSUME NEW r \in Rotations PROVE present[r] \subseteq Connections
  BY DEF TypeOK
<1>. QED
  BY <1>1, <1>2 DEF Driven, OfAccount

LEMMA DrivenStep == TypeOK /\ Watch /\ Driven /\ [Next]_vars => Driven'
<1>. SUFFICES ASSUME TypeOK, Watch, Driven, [Next]_vars PROVE Driven'
  OBVIOUS
<1>1. ASSUME UNCHANGED <<phase, aborted, registry, rotationVars>> PROVE Driven'
  BY <1>1, DrivenByOthers
<1>2. ASSUME NEW c \in Connections, ConnectionStep(c) PROVE Driven'
  <2>. SUFFICES /\ UNCHANGED rotationVars
                /\ \A d \in Connections :
                     /\ aborted[d] => aborted'[d]
                     /\ phase[d] = "closed" => phase'[d] = "closed"
                     /\ d \in registry /\ d \notin registry' => phase'[d] = "closed"
    BY DrivenByOthers
  <2>. USE DEF TypeOK
  <2>1. CASE Connect(c)
    BY <2>1 DEF Connect
  <2>2. CASE ReadPrincipal(c)
    BY <2>2 DEF ReadPrincipal
  <2>3. CASE ReadFails(c)
    BY <2>3 DEF ReadFails
  <2>4. CASE Admit(c)
    BY <2>4 DEF Admit
  <2>5. CASE Refuse(c)
    BY <2>5 DEF Refuse
  <2>6. CASE Join(c)
    BY <2>6 DEF Join
  <2>7. CASE JoinFails(c)
    BY <2>7 DEF JoinFails
  <2>8. CASE CallUnasked(c)
    BY <2>8 DEF CallUnasked
  <2>9. CASE Ask(c)
    BY <2>9 DEF Ask
  <2>10. CASE CallChecked(c)
    BY <2>10 DEF CallChecked
  <2>11. CASE RefuseCall(c)
    BY <2>11 DEF RefuseCall
  <2>12. CASE ClientDrops(c)
    BY <2>12 DEF ClientDrops
  <2>13. CASE Disconnect(c)
    BY <2>13 DEF Disconnect
  <2>. QED
    BY <1>2, <2>1, <2>2, <2>3, <2>4, <2>5, <2>6, <2>7, <2>8, <2>9, <2>10, <2>11, <2>12,
       <2>13 DEF ConnectionStep
<1>3. ASSUME NEW c \in Connections, MonitorStep(c) PROVE Driven'
  <2>. SUFFICES /\ UNCHANGED <<phase, rotationVars>>
                /\ \A d \in Connections :
                     /\ aborted[d] => aborted'[d]
                     /\ d \in registry /\ d \notin registry' => aborted'[d]
    BY DrivenByOthers
  <2>. USE DEF TypeOK
  <2>1. CASE MonitorDrop(c)
    BY <2>1 DEF MonitorDrop
  <2>2. CASE MonitorAbort(c)
    BY <2>2 DEF MonitorAbort
  <2>3. CASE MonitorAsk(c) \/ MonitorRead(c) \/ MonitorFails(c) \/ MonitorKeep(c)
    BY <2>3 DEF MonitorAsk, MonitorRead, MonitorFails, MonitorKeep
  <2>. QED
    BY <1>3, <2>1, <2>2, <2>3 DEF MonitorStep
<1>4. CASE MonitorTick \/ MonitorRest
  BY <1>1, <1>4 DEF MonitorTick, MonitorRest
<1>5. ASSUME NEW r \in Rotations, RotationStep(r) PROVE Driven'
  <2>1. ASSUME NEW e \in {Anything} \union Stamps, Rotate(r, e) PROVE Driven'
    BY <2>1 DEF Rotate, TypeOK, Driven, Accounted, OfAccount
  <2>2. ASSUME NEW e \in {Anything} \union Stamps, RotateRefused(r, e) PROVE Driven'
    BY <2>2 DEF RotateRefused, TypeOK, Driven, Accounted, OfAccount
  <2>3. CASE RotateLost(r)
    BY <2>3 DEF RotateLost, TypeOK, Driven, Accounted, OfAccount
  <2>4. CASE Notify(r)
    BY <2>4 DEF Notify, TypeOK, Driven, Accounted, OfAccount
  <2>5. ASSUME NEW c \in Connections, AbortMarked(r, c) PROVE Driven'
    BY <2>5 DEF AbortMarked, TypeOK, Driven, Accounted, OfAccount
  <2>6. CASE Return(r)
    BY <2>6 DEF Return, TypeOK, Driven, Accounted, OfAccount
  <2>. QED
    BY <1>5, <2>1, <2>2, <2>3, <2>4, <2>5, <2>6 DEF RotationStep
<1>6. ASSUME Elsewhere PROVE Driven'
  BY <1>1, <1>6 DEF Elsewhere
<1>7. CASE UNCHANGED vars
  BY <1>1, <1>7 DEF vars
<1>. QED
  BY <1>2, <1>3, <1>4, <1>5, <1>6, <1>7 DEF Next

\* A rotation that has returned true has driven off every connection of its
\* account that was registered when it committed.
THEOREM ReturnedDriven == Spec => []ReturnedMeansDriven
<1>1. Init => Watch /\ Driven
  BY DEF Init, Watch, ServedIsWatched, RegistryHasNoGhosts, Serving, Driven
<1>2. TypeOK /\ Driven => ReturnedMeansDriven
  BY DEF Driven, Accounted, ReturnedMeansDriven
<1>. QED
  BY <1>1, <1>2, InitTypeOK, NextTypeOK, WatchStep, DrivenStep, PTL DEF Spec

-----------------------------------------------------------------------------
(* Who wins an expected stamp: the row has moved on from it. *)

Won(r) == call[r] \notin {"idle", "refused"}

StampSpent ==
    \A r \in Rotations :
        Won(r) /\ expected[r] # Anything => expected[r] < stamp[target[r]]

LEMMA StampStep == TypeOK /\ StampSpent /\ ExpectedStampWonOnce /\ [Next]_vars
                   => StampSpent' /\ ExpectedStampWonOnce'
<1>. SUFFICES ASSUME TypeOK, StampSpent, ExpectedStampWonOnce, [Next]_vars
              PROVE  StampSpent' /\ ExpectedStampWonOnce'
  OBVIOUS
<1>1. ASSUME UNCHANGED <<target, expected>>,
             \A r \in Rotations : Won(r)' = Won(r),
             \A a \in Accounts : stamp'[a] = stamp[a]
      PROVE  StampSpent' /\ ExpectedStampWonOnce'
  BY <1>1 DEF TypeOK, StampSpent, ExpectedStampWonOnce, Won
<1>2. ASSUME NEW c \in Connections, ConnectionStep(c)
      PROVE  StampSpent' /\ ExpectedStampWonOnce'
  <2>1. UNCHANGED <<accountVars, rotationVars>>
    BY <1>2 DEF ConnectionStep, Connect, ReadPrincipal, ReadFails, Admit, Refuse, Join,
                JoinFails, CallUnasked, Ask, CallChecked, RefuseCall, ClientDrops,
                Disconnect
  <2>. QED
    BY <1>1, <2>1 DEF Won
<1>3. ASSUME \/ MonitorTick \/ MonitorRest
             \/ \E c \in Connections : MonitorStep(c)
      PROVE  StampSpent' /\ ExpectedStampWonOnce'
  <2>1. UNCHANGED <<accountVars, rotationVars>>
    BY <1>3 DEF MonitorStep, MonitorTick, MonitorRest, MonitorDrop, MonitorAsk,
                MonitorRead, MonitorFails, MonitorKeep, MonitorAbort
  <2>. QED
    BY <1>1, <2>1 DEF Won
<1>4. ASSUME NEW r \in Rotations, RotationStep(r)
      PROVE  StampSpent' /\ ExpectedStampWonOnce'
  <2>1. ASSUME NEW e \in {Anything} \union Stamps, Rotate(r, e)
        PROVE  StampSpent' /\ ExpectedStampWonOnce'
    <3>. DEFINE a == target[r]
    <3>1. /\ a \in Accounts /\ stamp[a] \in Int
          /\ e = Anything \/ e = stamp[a]
          /\ stamp' = [stamp EXCEPT ![a] = @ + 1]
          /\ target' = target
          /\ call' = [call EXCEPT ![r] = "committed"]
          /\ expected' = [expected EXCEPT ![r] = e]
          /\ call[r] = "idle"
      BY <2>1 DEF Rotate, AcceptsStamp, Replace, TypeOK, AccountTypeOK, Stamps
    <3>2. \A q \in Rotations \ {r} :
             Won(q)' = Won(q) /\ expected'[q] = expected[q] /\ target'[q] = target[q]
      BY <3>1 DEF Won, TypeOK
    <3>3. \A q \in Rotations : expected[q] \in Int \/ expected[q] = Anything
      BY DEF TypeOK, Stamps
    <3>4. \A b \in Accounts : stamp[b] \in Int
      BY DEF TypeOK, AccountTypeOK, Stamps
    <3>5. \A q \in Rotations : target[q] \in Accounts
      BY DEF TypeOK
    <3>6. StampSpent'
      BY <3>1, <3>2, <3>3, <3>4, <3>5 DEF StampSpent, TypeOK, AccountTypeOK
    <3>7. \A q \in Rotations \ {r} :
             target[q] = a /\ expected[q] = e /\ e # Anything => ~Won(q)
      BY <3>1, <3>3 DEF StampSpent
    <3>8. expected'[r] = e /\ target'[r] = a
      BY <3>1 DEF TypeOK
    <3>9. \A q \in Rotations \ {r}, p \in Rotations :
             /\ q # p /\ target'[q] = target'[p] /\ expected'[q] = expected'[p]
             /\ expected'[p] # Anything
             => ~Won(q)' \/ ~Won(p)'
      BY <3>2, <3>7, <3>8 DEF ExpectedStampWonOnce, Won
    <3>10. ExpectedStampWonOnce'
      BY <3>9 DEF ExpectedStampWonOnce, Won
    <3>. QED
      BY <3>6, <3>10
  <2>2. ASSUME NEW e \in {Anything} \union Stamps, RotateRefused(r, e)
        PROVE  StampSpent' /\ ExpectedStampWonOnce'
    BY <2>2 DEF RotateRefused, TypeOK, StampSpent, ExpectedStampWonOnce, Won
  <2>3. CASE RotateLost(r)
    BY <1>1, <2>3 DEF RotateLost, Won, TypeOK
  <2>4. CASE Notify(r)
    BY <1>1, <2>4 DEF Notify, Won, TypeOK
  <2>5. ASSUME NEW c \in Connections, AbortMarked(r, c)
        PROVE  StampSpent' /\ ExpectedStampWonOnce'
    BY <1>1, <2>5 DEF AbortMarked, Won
  <2>6. CASE Return(r)
    BY <1>1, <2>6 DEF Return, Won, TypeOK
  <2>. QED
    BY <1>4, <2>1, <2>2, <2>3, <2>4, <2>5, <2>6 DEF RotationStep
<1>5. ASSUME Elsewhere, Tick \/ \E a \in Accounts : Disable(a)
      PROVE  StampSpent' /\ ExpectedStampWonOnce'
  BY <1>1, <1>5 DEF Elsewhere, Tick, Disable, Won
<1>6. CASE UNCHANGED vars
  BY <1>1, <1>6 DEF vars, Won
<1>. QED
  BY <1>2, <1>3, <1>4, <1>5, <1>6 DEF Next

\* At most one of the rotations that expect the same stamp takes place.
THEOREM StampWonOnce == Spec => []ExpectedStampWonOnce
<1>1. Init => StampSpent /\ ExpectedStampWonOnce
  BY DEF Init, StampSpent, ExpectedStampWonOnce, Won
<1>. QED
  BY <1>1, InitTypeOK, NextTypeOK, StampStep, PTL DEF Spec

-----------------------------------------------------------------------------
(* The clock.  What is remembered of a validation is never later than the
   instant at which the principal lost its validity, because the instant was
   read before the row was. *)

ConnectionTimes(c) ==
    LET lost == LostAt(Owner[c], held[c]) IN
    /\ held[c] \in Carried(Owner[c])
    /\ askedAt[c] <= clock
    /\ checkedAt[c] # Never => checkedAt[c] <= clock /\ checkedAt[c] <= lost
    /\ calledAt[c] # Never =>
           calledAt[c] <= clock /\ calledAt[c] < lost + ValidationInterval
    /\ verdict[c] = "valid" => askedAt[c] <= lost
    /\ verdict[c] # "none" => phase[c] \in {"connecting", "asking"}
    /\ phase[c] = "offline" => checkedAt[c] = Never /\ calledAt[c] = Never

Times == LossesRecorded /\ \A c \in Connections : ConnectionTimes(c)

\* What an account's row, or time, does to the history of losses.
AccountStep == Tick \/ \E a \in Accounts : Disable(a) \/ Replace(a)

LEMMA LossesStep ==
    ASSUME AccountTypeOK, LossesRecorded, AccountStep
    PROVE  LossesRecorded'
<1>. USE BoundAssumption, ClockAssumption DEF AccountTypeOK, LossesRecorded, Never, Instants, Stamps
<1>1. CASE Tick
  BY <1>1 DEF Tick
<1>2. ASSUME NEW a \in Accounts, Disable(a) PROVE LossesRecorded'
  BY <1>2 DEF Disable
<1>3. ASSUME NEW a \in Accounts, Replace(a) PROVE LossesRecorded'
  <2>1. CASE enabled[a]
    BY <1>3, <2>1 DEF Replace
  <2>2. CASE ~enabled[a]
    BY <1>3, <2>2 DEF Replace
  <2>. QED
    BY <2>1, <2>2
<1>. QED
  BY <1>1, <1>2, <1>3 DEF AccountStep

\* A principal's instant of loss changes at most once, to the present instant.
LEMMA LossIsNow ==
    ASSUME AccountTypeOK, AccountStep, NEW a \in Accounts, NEW s \in Carried(a)
    PROVE  /\ s \in Carried(a)'
           /\ LostAt(a, s)' = LostAt(a, s) \/ LostAt(a, s)' = clock
           /\ clock \in Int /\ clock' \in Int /\ clock <= clock'
<1>. USE BoundAssumption, ClockAssumption, UnreadableAssumption
     DEF AccountTypeOK, Carried, LostAt, Instants, Stamps
<1>1. CASE Tick
  BY <1>1 DEF Tick
<1>2. ASSUME NEW b \in Accounts, Disable(b)
      PROVE  /\ s \in Carried(a)'
             /\ LostAt(a, s)' = LostAt(a, s) \/ LostAt(a, s)' = clock
             /\ clock \in Int /\ clock' \in Int /\ clock <= clock'
  BY <1>2 DEF Disable
<1>3. ASSUME NEW b \in Accounts, Replace(b)
      PROVE  /\ s \in Carried(a)'
             /\ LostAt(a, s)' = LostAt(a, s) \/ LostAt(a, s)' = clock
             /\ clock \in Int /\ clock' \in Int /\ clock <= clock'
  <2>1. CASE enabled[b]
    BY <1>3, <2>1 DEF Replace
  <2>2. CASE ~enabled[b]
    BY <1>3, <2>2 DEF Replace
  <2>. QED
    BY <2>1, <2>2
<1>. QED
  BY <1>1, <1>2, <1>3 DEF AccountStep

\* A step of an account leaves the connections' instants in order.
LEMMA TimesByAccounts ==
    ASSUME TypeOK, Times, AccountStep, UNCHANGED pipelineVars
    PROVE  Times'
<1>1. LossesRecorded'
  BY LossesStep DEF TypeOK, Times
<1>2. ASSUME NEW c \in Connections PROVE ConnectionTimes(c)'
  <2>. DEFINE a == Owner[c]
              s == held[c]
  <2>1. a \in Accounts /\ s \in Carried(a)
    BY OwnerAssumption DEF Times, ConnectionTimes
  <2>2. /\ s \in Carried(a)'
        /\ LostAt(a, s)' = LostAt(a, s) \/ LostAt(a, s)' = clock
        /\ clock \in Int /\ clock' \in Int /\ clock <= clock'
    BY <2>1, LossIsNow DEF TypeOK
  <2>3. /\ askedAt[c] \in Int /\ checkedAt[c] \in Int /\ calledAt[c] \in Int
    BY BoundAssumption, ClockAssumption DEF TypeOK, Instants, Never
  <2>4. s' = s
    OBVIOUS
  <2>5. LostAt(a, s) \in Int
    BY <2>1, BoundAssumption, ClockAssumption DEF LostAt, Carried, TypeOK, AccountTypeOK, Instants, Stamps, Never
  <2>. QED
    BY <2>2, <2>3, <2>4, <2>5, IntervalAssumption DEF Times, ConnectionTimes, Never
<1>. QED
  BY <1>1, <1>2 DEF Times

\* A step of the pipeline disturbs the instants of one connection only.
LEMMA TimesByConnection ==
    ASSUME TypeOK, Times, NEW c \in Connections, UNCHANGED accountVars,
           ConnectionTimes(c)',
           \A d \in Connections \ {c} :
               /\ phase'[d] = phase[d] /\ held'[d] = held[d]
               /\ askedAt'[d] = askedAt[d] /\ verdict'[d] = verdict[d]
               /\ checkedAt'[d] = checkedAt[d] /\ calledAt'[d] = calledAt[d]
    PROVE  Times'
BY DEF Times, ConnectionTimes, LossesRecorded, Carried, LostAt

\* A principal that is valid has not lost its validity.
LEMMA ValidNotLost ==
    ASSUME TypeOK, Times, NEW c \in Connections, ValidNow(c)
    PROVE  LostAt(Owner[c], held[c]) = Never
<1>1. Owner[c] \in Accounts /\ stamp[Owner[c]] \in Stamps
  BY OwnerAssumption DEF TypeOK, AccountTypeOK
<1>2. stamp[Owner[c]] # Unreadable /\ stamp[Owner[c]] >= stamp[Owner[c]]
  BY <1>1, UnreadableAssumption DEF Stamps
<1>. QED
  BY <1>1, <1>2 DEF Times, LossesRecorded, ValidNow, Valid, LostAt

LEMMA TimesStep == TypeOK /\ Times /\ [Next]_vars => Times'
<1>. SUFFICES ASSUME TypeOK, Times, [Next]_vars PROVE Times'
  OBVIOUS
<1>1. ASSUME UNCHANGED <<accountVars, pipelineVars>> PROVE Times'
  BY <1>1 DEF Times, ConnectionTimes, LossesRecorded, Carried, LostAt
<1>2. ASSUME NEW c \in Connections, ConnectionStep(c) PROVE Times'
  <2>. DEFINE lost == LostAt(Owner[c], held[c])
  <2>1. /\ clock \in Int /\ clock < Never
        /\ askedAt[c] \in Int /\ checkedAt[c] \in Int /\ calledAt[c] \in Int
    BY BoundAssumption, ClockAssumption DEF TypeOK, AccountTypeOK, Instants, Never
  <2>2. ConnectionTimes(c)
    BY DEF Times
  <2>3. lost \in Int
    BY <2>2, OwnerAssumption, BoundAssumption, ClockAssumption
       DEF ConnectionTimes, LostAt, Carried, TypeOK, AccountTypeOK, Instants, Stamps, Never
  <2>4. ASSUME UNCHANGED <<accountVars, held, askedAt, checkedAt, calledAt>>,
               verdict'[c] \in {"none", verdict[c]},
               verdict'[c] # "none" => phase'[c] = phase[c],
               phase'[c] # "offline",
               \A d \in Connections \ {c} :
                   phase'[d] = phase[d] /\ verdict'[d] = verdict[d]
        PROVE  Times'
    <3>1. ConnectionTimes(c)'
      BY <2>2, <2>4 DEF ConnectionTimes, LostAt, Carried
    <3>. QED
      BY <2>4, <3>1, TimesByConnection
  <2>. USE DEF TypeOK
  <2>5. CASE Connect(c)
    <3>1. ConnectionTimes(c)'
      BY <2>1, <2>2, <2>5 DEF Connect, ConnectionTimes, Carried
    <3>. QED
      BY <2>5, <3>1, TimesByConnection DEF Connect
  <2>6. CASE ReadPrincipal(c)
    <3>1. verdict'[c] = "valid" => lost = Never
      BY <2>6, ValidNotLost DEF ReadPrincipal, Verdict
    <3>2. verdict'[c] = "valid" => askedAt[c] <= lost
      BY <2>1, <2>2, <3>1, BoundAssumption, ClockAssumption DEF ConnectionTimes, Never
    <3>3. ConnectionTimes(c)'
      BY <2>2, <2>6, <3>2 DEF ReadPrincipal, ConnectionTimes, LostAt, Carried
    <3>. QED
      BY <2>6, <3>3, TimesByConnection DEF ReadPrincipal
  <2>7. CASE ReadFails(c)
    BY <2>4, <2>7 DEF ReadFails
  <2>8. CASE Admit(c)
    <3>1. ConnectionTimes(c)'
      BY <2>1, <2>2, <2>3, <2>8 DEF Admit, ConnectionTimes, LostAt, Carried
    <3>. QED
      BY <2>8, <3>1, TimesByConnection DEF Admit
  <2>9. CASE Refuse(c)
    BY <2>4, <2>9 DEF Refuse
  <2>10. CASE Join(c)
    BY <2>2, <2>4, <2>10 DEF Join, ConnectionTimes
  <2>11. CASE JoinFails(c)
    BY <2>2, <2>4, <2>11 DEF JoinFails, ConnectionTimes
  <2>12. CASE CallUnasked(c)
    <3>1. clock < lost + ValidationInterval
      BY <2>1, <2>2, <2>3, <2>12, IntervalAssumption
         DEF CallUnasked, Recent, ConnectionTimes
    <3>2. ConnectionTimes(c)'
      BY <2>1, <2>2, <2>12, <3>1 DEF CallUnasked, ConnectionTimes, LostAt, Carried
    <3>. QED
      BY <2>12, <3>2, TimesByConnection DEF CallUnasked
  <2>13. CASE Ask(c)
    <3>1. ConnectionTimes(c)'
      BY <2>1, <2>2, <2>13 DEF Ask, ConnectionTimes, LostAt, Carried
    <3>. QED
      BY <2>13, <3>1, TimesByConnection DEF Ask
  <2>14. CASE CallChecked(c)
    <3>1. askedAt[c] < lost + ValidationInterval
      BY <2>1, <2>2, <2>3, <2>14, IntervalAssumption DEF CallChecked, ConnectionTimes
    <3>2. ConnectionTimes(c)'
      BY <2>1, <2>2, <2>14, <3>1 DEF CallChecked, ConnectionTimes, LostAt, Carried
    <3>. QED
      BY <2>14, <3>2, TimesByConnection DEF CallChecked
  <2>15. CASE RefuseCall(c)
    BY <2>4, <2>15 DEF RefuseCall
  <2>16. CASE ClientDrops(c)
    BY <1>1, <2>16 DEF ClientDrops
  <2>17. CASE Disconnect(c)
    BY <2>2, <2>4, <2>17 DEF Disconnect, ConnectionTimes
  <2>. QED
    BY <1>2, <2>5, <2>6, <2>7, <2>8, <2>9, <2>10, <2>11, <2>12, <2>13, <2>14, <2>15,
       <2>16, <2>17 DEF ConnectionStep
<1>3. ASSUME NEW c \in Connections, MonitorStep(c) PROVE Times'
  BY <1>1, <1>3 DEF MonitorStep, MonitorDrop, MonitorAsk, MonitorRead, MonitorFails,
                    MonitorKeep, MonitorAbort
<1>4. CASE MonitorTick \/ MonitorRest
  BY <1>1, <1>4 DEF MonitorTick, MonitorRest
<1>5. ASSUME NEW r \in Rotations, RotationStep(r) PROVE Times'
  <2>1. ASSUME NEW e \in {Anything} \union Stamps, Rotate(r, e) PROVE Times'
    <3>1. target[r] \in Accounts /\ Replace(target[r]) /\ UNCHANGED pipelineVars
      BY <2>1 DEF Rotate, TypeOK
    <3>. QED
      BY <3>1, TimesByAccounts DEF AccountStep
  <2>2. ASSUME NEW e \in {Anything} \union Stamps, RotateRefused(r, e) PROVE Times'
    BY <1>1, <2>2 DEF RotateRefused
  <2>3. CASE RotateLost(r) \/ Notify(r) \/ Return(r)
    BY <1>1, <2>3 DEF RotateLost, Notify, Return
  <2>4. ASSUME NEW c \in Connections, AbortMarked(r, c) PROVE Times'
    BY <1>1, <2>4 DEF AbortMarked
  <2>. QED
    BY <1>5, <2>1, <2>2, <2>3, <2>4 DEF RotationStep
<1>6. ASSUME Elsewhere, AccountStep PROVE Times'
  BY <1>6, TimesByAccounts DEF Elsewhere
<1>7. CASE UNCHANGED vars
  BY <1>1, <1>7 DEF vars
<1>. QED
  BY <1>2, <1>3, <1>4, <1>5, <1>6, <1>7 DEF Next, AccountStep

\* No hub method runs for a principal a full ValidationInterval after it lost its
\* validity, for any interval and any number of connections and rotations.
THEOREM NoLateCall == Spec => []NoCallOutlivesRevocation
<1>1. Init => Times
  BY BoundAssumption, ClockAssumption
     DEF Init, AccountInit, Times, LossesRecorded, ConnectionTimes, Carried, Never, Stamps
<1>2. Times => NoCallOutlivesRevocation
  BY DEF Times, ConnectionTimes, NoCallOutlivesRevocation
<1>. QED
  BY <1>1, <1>2, InitTypeOK, NextTypeOK, TimesStep, PTL DEF Spec

-----------------------------------------------------------------------------
(* Who is aborted.  A principal that lost its validity never has it again, so
   the answer "revoked" is still true when it is acted on; it is the answer for
   this connection because a connection gets its principal only once. *)

Justified ==
    /\ \A c \in Connections :
           /\ verdict[c] = "revoked" \/ inspection[c] = "revoked" => ~ValidNow(c)
           /\ c \in listed \/ inspection[c] # "idle" => phase[c] # "offline"
    /\ \A r \in Rotations : marked[r] \subseteq OfAccount(target[r])

LEMMA RevokedForGood ==
    ASSUME TypeOK, Times, AccountStep, UNCHANGED held,
           NEW c \in Connections, ~ValidNow(c)
    PROVE  ~ValidNow(c)'
<1>. USE DEF TypeOK, AccountTypeOK, ValidNow, Valid
<1>1. CASE Tick
  BY <1>1 DEF Tick
<1>2. ASSUME NEW a \in Accounts, Disable(a) PROVE ~ValidNow(c)'
  BY <1>2, OwnerAssumption DEF Disable
<1>3. ASSUME NEW a \in Accounts, Replace(a) PROVE ~ValidNow(c)'
  <2>1. Owner[c] \in Accounts /\ held[c] \in 0..stamp[Owner[c]] \union {Unreadable}
    BY OwnerAssumption DEF Times, ConnectionTimes, Carried
  <2>2. stamp[Owner[c]] + 1 # held[c]
    BY <2>1, UnreadableAssumption DEF Stamps
  <2>. QED
    BY <1>3, <2>1, <2>2 DEF Replace
<1>. QED
  BY <1>1, <1>2, <1>3 DEF AccountStep

\* A step that leaves the accounts alone: what is answered is read now, and a
\* principal is given to a connection about which nobody has asked.
LEMMA JustifiedByQuestions ==
    ASSUME TypeOK, Watch, Times, Justified, UNCHANGED accountVars,
           \A r \in Rotations : marked'[r] \subseteq OfAccount(target'[r]),
           \A c \in Connections :
               /\ \/ /\ held'[c] = held[c]
                     /\ verdict'[c] \in {"none", verdict[c], Verdict(c)}
                     /\ inspection'[c] \in {"idle", "asking", inspection[c], Verdict(c)}
                  \/ /\ phase[c] = "offline"
                     /\ verdict'[c] = verdict[c] /\ inspection'[c] = inspection[c]
               /\ inspection'[c] # "idle" => inspection[c] # "idle" \/ c \in listed
               /\ c \in listed' => c \in listed \union registry
               /\ phase'[c] = "offline" => phase[c] = "offline"
    PROVE  Justified'
<1>1. ASSUME NEW c \in Connections, verdict'[c] = "revoked" \/ inspection'[c] = "revoked"
      PROVE  ~ValidNow(c)'
  <2>1. phase[c] = "offline" => verdict[c] # "revoked" /\ inspection[c] # "revoked"
    BY DEF Times, ConnectionTimes, Justified
  <2>2. held'[c] = held[c] /\ ~ValidNow(c)
    BY <1>1, <2>1 DEF Justified, Verdict
  <2>. QED
    BY <2>2 DEF ValidNow, Valid
<1>2. ASSUME NEW c \in Connections, c \in listed' \/ inspection'[c] # "idle"
      PROVE  phase'[c] # "offline"
  BY <1>2 DEF Justified, Watch, RegistryHasNoGhosts, Serving
<1>. QED
  BY <1>1, <1>2 DEF Justified, OfAccount

LEMMA JustifiedStep == TypeOK /\ Watch /\ Times /\ Justified /\ [Next]_vars => Justified'
<1>. SUFFICES ASSUME TypeOK, Watch, Times, Justified, [Next]_vars PROVE Justified'
  OBVIOUS
<1>1. ASSUME AccountStep, UNCHANGED <<pipelineVars, monitorVars, target, marked>>
      PROVE  Justified'
  BY <1>1, RevokedForGood DEF Justified, OfAccount
<1>2. \A r \in Rotations : marked[r] \subseteq OfAccount(target[r])
  BY DEF Justified
<1>3. ASSUME UNCHANGED <<accountVars, phase, held, verdict, monitorVars>>,
             \A r \in Rotations : marked'[r] \subseteq OfAccount(target'[r])
      PROVE  Justified'
  BY <1>3, JustifiedByQuestions
<1>4. ASSUME NEW c \in Connections, ConnectionStep(c) PROVE Justified'
  <2>1. /\ UNCHANGED <<accountVars, monitorVars, rotationVars>>
        /\ \A d \in Connections : phase'[d] = "offline" => phase[d] = "offline"
    BY <1>4 DEF TypeOK, ConnectionStep, Connect, ReadPrincipal, ReadFails, Admit, Refuse,
                Join, JoinFails, CallUnasked, Ask, CallChecked, RefuseCall, ClientDrops,
                Disconnect
  <2>2. \A d \in Connections :
            \/ /\ held'[d] = held[d]
               /\ verdict'[d] \in {"none", verdict[d], Verdict(d)}
            \/ phase[d] = "offline" /\ verdict'[d] = verdict[d]
    BY <1>4 DEF TypeOK, ConnectionStep, Connect, ReadPrincipal, ReadFails, Admit, Refuse,
                Join, JoinFails, CallUnasked, Ask, CallChecked, RefuseCall, ClientDrops,
                Disconnect
  <2>. QED
    BY <1>2, <2>1, <2>2, JustifiedByQuestions
<1>5. ASSUME NEW c \in Connections, MonitorStep(c) PROVE Justified'
  <2>1. /\ UNCHANGED <<accountVars, pipelineVars, rotationVars>>
        /\ listed' \subseteq listed
        /\ \A d \in Connections :
              /\ inspection'[d] \in {"idle", "asking", inspection[d], Verdict(d)}
              /\ inspection'[d] # "idle" => inspection[d] # "idle" \/ d \in listed
    BY <1>5 DEF TypeOK, MonitorStep, MonitorDrop, MonitorAsk, MonitorRead, MonitorFails,
                MonitorKeep, MonitorAbort
  <2>. QED
    BY <1>2, <2>1, JustifiedByQuestions
<1>6. CASE MonitorTick \/ MonitorRest
  <2>1. /\ UNCHANGED <<accountVars, pipelineVars, rotationVars, inspection>>
        /\ listed' \subseteq listed \union registry
    BY <1>6 DEF MonitorTick, MonitorRest
  <2>. QED
    BY <1>2, <2>1, JustifiedByQuestions
<1>7. ASSUME NEW r \in Rotations, RotationStep(r) PROVE Justified'
  <2>1. ASSUME NEW e \in {Anything} \union Stamps, Rotate(r, e) PROVE Justified'
    <3>1. target[r] \in Accounts /\ Replace(target[r])
          /\ UNCHANGED <<pipelineVars, monitorVars, target, marked>>
      BY <2>1 DEF Rotate, TypeOK
    <3>. QED
      BY <1>1, <3>1 DEF AccountStep
  <2>2. ASSUME NEW e \in {Anything} \union Stamps, RotateRefused(r, e) PROVE Justified'
    BY <1>2, <1>3, <2>2 DEF RotateRefused
  <2>3. CASE RotateLost(r) \/ Return(r)
    BY <1>2, <1>3, <2>3 DEF RotateLost, Return
  <2>4. CASE Notify(r)
    BY <1>2, <1>3, <2>4 DEF Notify, TypeOK
  <2>5. ASSUME NEW c \in Connections, AbortMarked(r, c) PROVE Justified'
    BY <1>2, <1>3, <2>5 DEF AbortMarked, TypeOK
  <2>. QED
    BY <1>7, <2>1, <2>2, <2>3, <2>4, <2>5 DEF RotationStep
<1>8. ASSUME Elsewhere, AccountStep PROVE Justified'
  BY <1>1, <1>8 DEF Elsewhere
<1>9. CASE UNCHANGED vars
  BY <1>2, <1>3, <1>9 DEF vars
<1>. QED
  BY <1>4, <1>5, <1>6, <1>7, <1>8, <1>9 DEF Next, AccountStep

\* Who aborts a connection: its pipeline or the monitor on an answer that still
\* holds, a rotation of its account, or the client.
LEMMA AbortStep ==
    ASSUME TypeOK, Justified, Next, NEW c \in Connections,
           ~aborted[c], aborted'[c], ValidNow(c)
    PROVE  ClientDrops(c) \/ \E r \in Rotations : c \in marked[r] /\ Owner[c] = target[r]
<1>. USE DEF TypeOK
<1>1. ASSUME NEW d \in Connections, ConnectionStep(d) PROVE ClientDrops(c)
  <2>1. Refuse(d) \/ RefuseCall(d) \/ ClientDrops(d)
    BY <1>1 DEF ConnectionStep, Connect, ReadPrincipal, ReadFails, Admit, Join, JoinFails,
                CallUnasked, Ask, CallChecked, Disconnect
  <2>2. d = c
    BY <2>1 DEF Refuse, RefuseCall, ClientDrops
  <2>3. ~Refuse(c) /\ ~RefuseCall(c)
    BY DEF Justified, Refuse, RefuseCall
  <2>. QED
    BY <2>1, <2>2, <2>3
<1>2. ASSUME NEW d \in Connections, MonitorStep(d) PROVE FALSE
  <2>1. MonitorAbort(d) /\ d = c
    BY <1>2 DEF MonitorStep, MonitorDrop, MonitorAsk, MonitorRead, MonitorFails,
                MonitorKeep, MonitorAbort
  <2>. QED
    BY <2>1 DEF MonitorAbort, Justified
<1>3. ASSUME NEW r \in Rotations, RotationStep(r)
      PROVE  c \in marked[r] /\ Owner[c] = target[r]
  <2>1. PICK d \in Connections : AbortMarked(r, d)
    BY <1>3 DEF RotationStep, Rotate, RotateRefused, RotateLost, Notify, Return
  <2>2. d = c /\ c \in marked[r]
    BY <2>1 DEF AbortMarked
  <2>. QED
    BY <2>2 DEF Justified, OfAccount
<1>4. ~MonitorTick /\ ~MonitorRest /\ ~Elsewhere
  BY DEF MonitorTick, MonitorRest, Elsewhere
<1>. QED
  BY <1>1, <1>2, <1>3, <1>4 DEF Next

\* A connection whose principal is valid is aborted by the server only for a
\* rotation of its account: no answer is acted on after it has become false, and
\* no failed validation is taken for one.
THEOREM AbortsJustified == Spec => AbortsAreJustified
<1>1. Init => TypeOK /\ Watch /\ Times /\ Justified
  <2>1. Init => Watch /\ Justified
    BY DEF Init, Watch, ServedIsWatched, RegistryHasNoGhosts, Serving, Justified
  <2>2. Init => Times
    BY BoundAssumption, ClockAssumption
       DEF Init, AccountInit, Times, LossesRecorded, ConnectionTimes, Carried, Never, Stamps
  <2>. QED
    BY <2>1, <2>2, InitTypeOK
<1>2. TypeOK /\ Watch /\ Times /\ Justified /\ [Next]_vars
      => (TypeOK /\ Watch /\ Times /\ Justified)'
  BY NextTypeOK, WatchStep, TimesStep, JustifiedStep
<1>3. TypeOK /\ Justified /\ [Next]_vars
      => [\A c \in Connections :
              ~aborted[c] /\ aborted'[c] /\ ValidNow(c) =>
                  ClientDrops(c)
                  \/ \E r \in Rotations : c \in marked[r] /\ Owner[c] = target[r]]_vars
  BY AbortStep
<1>. QED
  BY <1>1, <1>2, <1>3, PTL DEF Spec, AbortsAreJustified
=============================================================================
