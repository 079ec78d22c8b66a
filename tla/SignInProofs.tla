---------------------------- MODULE SignInProofs ----------------------------
(***************************************************************************)
(* Proofs about how one gets in and for how long: LoginThrottle, for any   *)
(* attempts, sources and options, and SessionRevalidation, for any         *)
(* accounts, requests and interval.  The two share the clock.              *)
(*                                                                         *)
(* What a request presents is a ticket handed out earlier, so the          *)
(* invariant of the sessions is about every ticket: the stamp it holds is  *)
(* one its account had already been given, and a cookie says it was        *)
(* checked at no later an instant than that stamp lost its validity.       *)
(*                                                                         *)
(* The duration of a block is a recursive function.  That it is what its   *)
(* levels say is shown without induction over an operator: among the       *)
(* levels at which it were not there would be a least one.                 *)
(***************************************************************************)
EXTENDS LoginThrottle, SessionRevalidation, WellFoundedInduction, TLAPS

-----------------------------------------------------------------------------
(* LoginThrottle: the permits of a source's window. *)

\* The part of the type invariant that the permits of a source depend on.
SourceTypeOK ==
    /\ clock \in Instants
    /\ source \in [Sources -> SourceBucket \union {NoBucket}]
    /\ pair \in [Attempts -> Pairs]
    /\ now \in [Attempts -> Instants]
    /\ granted \in [Sources -> Nat]

\* Every attempt let through has been counted by the bucket of its source.
PermitsCounted ==
    \A s \in Sources : source[s] # NoBucket => granted[s] <= source[s].count

SourceInv == SourceTypeOK /\ PermitsCounted /\ WindowPermitsKept

LEMMA PermittedType ==
    ASSUME NEW bucket \in SourceBucket \union {NoBucket}, NEW t \in Instants
    PROVE  Permitted(bucket, t) \in SourceBucket
<1>1. SourcePermitLimit \in Nat
  BY OptionsAssumption
<1>2. CASE bucket = NoBucket \/ WindowOver(bucket, t)
  BY <1>2 DEF Permitted, SourceBucket
<1>3. CASE ~(bucket = NoBucket \/ WindowOver(bucket, t))
  <2>1. bucket \in SourceBucket
    BY <1>3
  <2>2. Lesser(bucket.count + 1, SourcePermitLimit + 1) \in Nat
    BY <1>1, <2>1 DEF Lesser, SourceBucket
  <2>. QED
    BY <1>3, <2>1, <2>2 DEF Permitted, SourceBucket
<1>. QED
  BY <1>2, <1>3

\* A new window starts with one permit used; within one, the count grows with
\* every attempt until it says that the permits are used up.
LEMMA PermittedCount ==
    ASSUME NEW bucket \in SourceBucket \union {NoBucket}, NEW t \in Instants,
           NEW g \in Nat, g <= SourcePermitLimit,
           bucket # NoBucket => g <= bucket.count
    PROVE  LET new == Permitted(bucket, t)
               fresh == bucket = NoBucket \/ WindowOver(bucket, t)
               before == IF fresh THEN 0 ELSE g
           IN  /\ before <= SourcePermitLimit /\ before <= new.count
               /\ ~SourceBlocked(new, t) =>
                      before + 1 <= SourcePermitLimit /\ before + 1 <= new.count
<1>1. SourcePermitLimit \in Nat \ {0} /\ SourceWindow \in Nat
  BY OptionsAssumption
<1>2. CASE bucket = NoBucket \/ WindowOver(bucket, t)
  BY <1>1, <1>2 DEF Permitted
<1>3. CASE ~(bucket = NoBucket \/ WindowOver(bucket, t))
  <2>. DEFINE new == Permitted(bucket, t)
  <2>1. bucket \in SourceBucket
    BY <1>3
  <2>2. bucket.startedAt \in Int /\ bucket.count \in Nat /\ t \in Int
    BY <2>1, ClockAssumption DEF SourceBucket, Instants
  <2>3. /\ new.count = Lesser(bucket.count + 1, SourcePermitLimit + 1)
        /\ new.startedAt = bucket.startedAt
    BY <1>3, <2>1 DEF Permitted, SourceBucket
  <2>4. ~(bucket.startedAt <= t - SourceWindow)
    BY <1>3 DEF WindowOver
  <2>5. SourceBlocked(new, t) <=> new.count > SourcePermitLimit
    BY <1>1, <2>2, <2>3, <2>4 DEF SourceBlocked
  <2>. QED
    BY <1>1, <1>3, <2>2, <2>3, <2>5 DEF Lesser
<1>. QED
  BY <1>2, <1>3

LEMMA SourceInit == ThrottleInit => SourceInv
<1>1. 0 \in Instants /\ SourcePermitLimit \in Nat
  BY ClockAssumption, OptionsAssumption DEF Instants
<1>. QED
  BY <1>1 DEF ThrottleInit, SourceInv, SourceTypeOK, PermitsCounted, WindowPermitsKept

\* What is left of the permits given out when attempt i reserves.
Before(i) ==
    LET s == SourceOf[pair[i]] IN
    IF source[s] = NoBucket \/ WindowOver(source[s], now[i]) THEN 0 ELSE granted[s]

\* A reservation by attempt i, after which n permits have been given out.
Reservation(i, n) ==
    LET s == SourceOf[pair[i]] IN
    /\ source' = [source EXCEPT ![s] = Permitted(source[s], now[i])]
    /\ granted' = [granted EXCEPT ![s] = n]
    /\ \/ n = Before(i)
       \/ n = Before(i) + 1 /\ ~SourceBlocked(Permitted(source[s], now[i]), now[i])
    /\ UNCHANGED <<clock, pair, now>>

LEMMA BeforeIsNat == ASSUME SourceInv, NEW i \in Attempts PROVE Before(i) \in Nat
BY SourceAssumption DEF SourceInv, SourceTypeOK, Before

LEMMA ReservationKeeps ==
    ASSUME SourceInv, NEW i \in Attempts, NEW n, Reservation(i, n)
    PROVE  SourceInv'
<1>. DEFINE s == SourceOf[pair[i]]
            new == Permitted(source[s], now[i])
<1>1. /\ s \in Sources /\ now[i] \in Instants /\ granted[s] \in Nat
      /\ source[s] \in SourceBucket \union {NoBucket}
  BY SourceAssumption DEF SourceInv, SourceTypeOK
<1>2. granted[s] <= SourcePermitLimit /\ (source[s] # NoBucket => granted[s] <= source[s].count)
  BY <1>1 DEF SourceInv, PermitsCounted, WindowPermitsKept
<1>3. new \in SourceBucket
  BY <1>1, PermittedType
<1>4. /\ Before(i) <= SourcePermitLimit /\ Before(i) <= new.count
      /\ ~SourceBlocked(new, now[i]) =>
             Before(i) + 1 <= SourcePermitLimit /\ Before(i) + 1 <= new.count
  BY <1>1, <1>2, PermittedCount DEF Before
<1>5. n \in Nat
  BY BeforeIsNat DEF Reservation
<1>6. n <= SourcePermitLimit /\ n <= new.count
  BY <1>4 DEF Reservation
<1>. QED
  BY <1>1, <1>3, <1>5, <1>6
     DEF Reservation, SourceInv, SourceTypeOK, PermitsCounted, WindowPermitsKept

LEMMA SourceStep == SourceInv /\ [ThrottleNext]_throttleVars => SourceInv'
<1>. SUFFICES ASSUME SourceInv, [ThrottleNext]_throttleVars PROVE SourceInv'
  OBVIOUS
<1>1. ASSUME UNCHANGED <<source, granted>>, clock' \in Instants,
             pair' \in [Attempts -> Pairs], now' \in [Attempts -> Instants]
      PROVE  SourceInv'
  BY <1>1 DEF SourceInv, SourceTypeOK, PermitsCounted, WindowPermitsKept
<1>2. CASE UNCHANGED throttleVars
  BY <1>1, <1>2 DEF throttleVars, attemptVars, history, SourceInv, SourceTypeOK
<1>3. CASE TimePasses
  <2>1. clock + 1 \in Instants
    BY <1>3, ClockAssumption DEF TimePasses, SourceInv, SourceTypeOK, Instants
  <2>. QED
    BY <1>1, <1>3, <2>1 DEF TimePasses, attemptVars, history, SourceInv, SourceTypeOK
<1>4. ASSUME NEW i \in Attempts, Step(i) PROVE SourceInv'
  <2>1. ASSUME NEW p \in Pairs, Arrive(i, p) PROVE SourceInv'
    BY <1>1, <2>1 DEF Arrive, history, SourceInv, SourceTypeOK
  <2>2. CASE Reserve(i)
    <3>. DEFINE s == SourceOf[pair[i]]
                fine == /\ ~SourceBlocked(Permitted(source[s], now[i]), now[i])
                        /\ ~Blocked(account[pair[i]], now[i])
                more == IF fine THEN 1 ELSE 0
    <3>1. /\ source' = [source EXCEPT ![s] = Permitted(source[s], now[i])]
          /\ granted' = [granted EXCEPT ![s] = Before(i) + more]
          /\ UNCHANGED <<clock, pair, now>>
      BY <2>2 DEF Reserve, Before
    <3>2. \/ Before(i) + more = Before(i)
          \/ Before(i) + more = Before(i) + 1 /\ fine
      BY BeforeIsNat
    <3>3. Reservation(i, Before(i) + more)
      BY <3>1, <3>2 DEF Reservation
    <3>. QED
      BY <3>3, ReservationKeeps
  <2>3. CASE ReserveLost(i)
    <3>1. Reservation(i, Before(i))
      BY <2>3 DEF ReserveLost, Reservation, Before
    <3>. QED
      BY <3>1, ReservationKeeps
  <2>4. CASE CleanupDelete(i)
    BY <2>4, OptionsAssumption
       DEF CleanupDelete, SourceInv, SourceTypeOK, PermitsCounted, WindowPermitsKept
  <2>5. CASE Fail(i)
    BY <1>1, <2>5 DEF Fail, history, SourceInv, SourceTypeOK
  <2>6. CASE \/ ReserveFails(i) \/ CleanupSelect(i) \/ CleanupFails(i) \/ Throttle(i)
             \/ Verify(i) \/ Reset(i) \/ RecordFailure(i) \/ StoreFails(i)
    <3>1. UNCHANGED <<clock, source, pair, now, granted>>
      BY <2>6 DEF ReserveFails, CleanupSelect, CleanupFails, Throttle, Verify, Reset,
                  RecordFailure, StoreFails, history
    <3>. QED
      BY <1>1, <3>1 DEF SourceInv, SourceTypeOK
  <2>. QED
    BY <1>4, <2>1, <2>2, <2>3, <2>4, <2>5, <2>6 DEF Step
<1>. QED
  BY <1>2, <1>3, <1>4 DEF ThrottleNext

\* No window of a source lets more attempts through than it has permits, for any
\* options, any number of attempts at once and instants in any order.
THEOREM PermitsKept == ThrottleSpec => []WindowPermitsKept
<1>1. SourceInv => WindowPermitsKept
  BY DEF SourceInv
<1>. QED
  BY <1>1, SourceInit, SourceStep, PTL DEF ThrottleSpec

-----------------------------------------------------------------------------
(* LoginThrottle: how long a block lasts. *)

Doubles(k) == 2 ^ (k + 1) = 2 * 2 ^ k /\ 2 ^ k \in Nat \ {0}

LEMMA PowersOfTwo == ASSUME NEW k \in 0..30 PROVE Doubles(k)
<1>1. /\ Doubles(0) /\ Doubles(1) /\ Doubles(2) /\ Doubles(3) /\ Doubles(4)
      /\ Doubles(5) /\ Doubles(6) /\ Doubles(7) /\ Doubles(8) /\ Doubles(9)
  BY DEF Doubles
<1>2. /\ Doubles(10) /\ Doubles(11) /\ Doubles(12) /\ Doubles(13) /\ Doubles(14)
      /\ Doubles(15) /\ Doubles(16) /\ Doubles(17) /\ Doubles(18) /\ Doubles(19)
  BY DEF Doubles
<1>3. /\ Doubles(20) /\ Doubles(21) /\ Doubles(22) /\ Doubles(23) /\ Doubles(24)
      /\ Doubles(25) /\ Doubles(26) /\ Doubles(27) /\ Doubles(28) /\ Doubles(29)
      /\ Doubles(30)
  BY DEF Doubles
<1>. QED
  BY <1>1, <1>2, <1>3

\* The initial backoff doubled at every level before this one, the maximum at most.
BackoffOf(level) == Lesser(InitialBackoff * 2 ^ (level - 1), MaximumBackoff)

\* What the recursion says of a function.
BackoffRecursion(f) ==
    f = [level \in 1..MaxLevel |->
            IF level = 1 THEN InitialBackoff ELSE Doubled(f[level - 1])]

LEMMA BackoffOptions ==
    /\ InitialBackoff \in Nat \ {0} /\ MaximumBackoff \in Nat \ {0}
    /\ MaximumBackoff >= InitialBackoff
BY OptionsAssumption

LEMMA BackoffAtFirst == BackoffOf(1) = InitialBackoff
<1>1. 2 ^ (1 - 1) = 1
  OBVIOUS
<1>. QED
  BY <1>1, BackoffOptions DEF BackoffOf, Lesser

LEMMA BackoffDoubles ==
    ASSUME NEW level \in 1..MaxLevel, level # 1
    PROVE  /\ BackoffOf(level - 1) \in Nat /\ BackoffOf(level) \in Nat
           /\ BackoffOf(level) = Doubled(BackoffOf(level - 1))
<1>. DEFINE k == level - 2
            before == 2 ^ k
<1>1. /\ k \in 0..30 /\ k + 1 = level - 1 /\ k = (level - 1) - 1
  BY DEF MaxLevel
<1>2. 2 ^ (level - 1) = 2 * before /\ before \in Nat \ {0}
  BY <1>1, PowersOfTwo DEF Doubles
<1>3. BackoffOf(level - 1) = Lesser(InitialBackoff * before, MaximumBackoff)
  BY <1>1 DEF BackoffOf
<1>4. BackoffOf(level) = Lesser(InitialBackoff * (2 * before), MaximumBackoff)
  BY <1>2 DEF BackoffOf
<1>. HIDE DEF before
<1>5. /\ InitialBackoff * before \in Nat \ {0}
      /\ InitialBackoff * (2 * before) = 2 * (InitialBackoff * before)
  BY <1>2, BackoffOptions
<1>. QED
  BY <1>3, <1>4, <1>5, BackoffOptions DEF Lesser, Doubled

LEMMA BackoffSatisfies == BackoffRecursion([level \in 1..MaxLevel |-> BackoffOf(level)])
<1>1. \A level \in 1..MaxLevel : level # 1 => level - 1 \in 1..MaxLevel
  BY DEF MaxLevel
<1>. QED
  BY <1>1, BackoffAtFirst, BackoffDoubles DEF BackoffRecursion

LEMMA BackoffIsRecursive == BackoffRecursion(CalculateBackoff)
<1>1. \E f : BackoffRecursion(f)
  BY BackoffSatisfies
<1>. QED
  BY <1>1, Zenon DEF BackoffRecursion, CalculateBackoff

\* A set of natural numbers has a least one.
LEMMA LeastNumber ==
    ASSUME NEW S, S \subseteq Nat, S # {}
    PROVE  \E x \in S : \A y \in S : x <= y
<1>. DEFINE less == {p \in Nat \X Nat : p[1] < p[2]}
<1>1. IsWellFoundedOn(less, Nat)
  BY NatLessThanWellFounded, Zenon DEF OpToRel
<1>2. \E x \in S : \A y \in S : ~ (<<y, x>> \in less)
  <2>. HIDE DEF less
  <2>. QED
    BY <1>1, WFMin
<1>3. \A x, y \in S : <<y, x>> \in less <=> y < x
  OBVIOUS
<1>4. \A x, y \in S : ~ (y < x) => x <= y
  OBVIOUS
<1>. QED
  BY <1>2, <1>3, <1>4, Zenon

\* CalculateBackoff computes it, at every level.
LEMMA BackoffComputed ==
  ASSUME NEW level \in 1..MaxLevel
  PROVE CalculateBackoff[level] = BackoffOf(level)
<1>. DEFINE wrong == {l \in 1..MaxLevel : CalculateBackoff[l] # BackoffOf(l)}
<1>. SUFFICES ASSUME wrong # {} PROVE FALSE
  OBVIOUS
<1>1. wrong \subseteq Nat
  OBVIOUS
<1>2. PICK least \in wrong : \A l \in wrong : least <= l
  <2>. HIDE DEF wrong
  <2>. QED
    BY <1>1, LeastNumber
<1>3. least \in 1..MaxLevel /\ CalculateBackoff[least] # BackoffOf(least)
  OBVIOUS
<1>4. CalculateBackoff[least] =
          IF least = 1 THEN InitialBackoff ELSE Doubled(CalculateBackoff[least - 1])
  BY <1>3, BackoffIsRecursive DEF BackoffRecursion
<1>5. least # 1
  BY <1>3, <1>4, BackoffAtFirst
<1>6. least - 1 \in 1..MaxLevel /\ ~ (least <= least - 1)
  BY <1>3, <1>5 DEF MaxLevel
<1>7. CalculateBackoff[least - 1] = BackoffOf(least - 1)
  BY <1>2, <1>6
<1>. QED
  BY <1>3, <1>4, <1>5, <1>7, BackoffDoubles

LEMMA BackoffIsNat == ASSUME NEW level \in 1..MaxLevel PROVE CalculateBackoff[level] \in Nat
BY BackoffComputed, BackoffAtFirst, BackoffDoubles, BackoffOptions

-----------------------------------------------------------------------------
(* LoginThrottle: what the bucket of a pair has counted. *)

\* The types of what a step reads and writes of a pair.
PairTypeOK ==
    /\ clock \in Instants
    /\ account \in [Pairs -> AccountBucket \union {NoBucket}]
    /\ pair \in [Attempts -> Pairs]
    /\ now \in [Attempts -> Instants]
    /\ failures \in [Pairs -> Nat]

NoRowNoFailures == \A p \in Pairs : account[p] = NoBucket => failures[p] = 0

PairInv == PairTypeOK /\ EveryFailureCounted /\ NoRowNoFailures

\* Counting one more, modulo the threshold.
LEMMA Division ==
    ASSUME NEW n \in Nat, NEW d \in Nat \ {0}
    PROVE  n % d \in 0..(d - 1) /\ n \div d \in Nat /\ n = d * (n \div d) + (n % d)
OBVIOUS

LEMMA DivisionIsUnique ==
    ASSUME NEW n \in Nat, NEW d \in Nat \ {0}, NEW q \in Nat, NEW r \in 0..(d - 1),
           n = d * q + r
    PROVE  n % d = r /\ n \div d = q
OBVIOUS

LEMMA NextOfDivision ==
    ASSUME NEW n \in Nat, NEW d \in Nat \ {0}
    PROVE  IF (n % d) + 1 < d
           THEN (n + 1) % d = (n % d) + 1 /\ (n + 1) \div d = n \div d
           ELSE (n + 1) % d = 0 /\ (n + 1) \div d = (n \div d) + 1
<1>. DEFINE q == n \div d
            r == n % d
<1>1. q \in Nat /\ r \in 0..(d - 1) /\ n = d * q + r
  BY Division
<1>. HIDE DEF q, r
<1>2. CASE r + 1 < d
  <2>1. n + 1 = d * q + (r + 1) /\ r + 1 \in 0..(d - 1) /\ n + 1 \in Nat
    BY <1>1, <1>2
  <2>2. (n + 1) % d = r + 1 /\ (n + 1) \div d = q
    BY <1>1, <2>1, DivisionIsUnique
  <2>. QED
    BY <1>2, <2>2 DEF q, r
<1>3. CASE ~ (r + 1 < d)
  <2>1. r = d - 1
    BY <1>1, <1>3
  <2>2. n + 1 = d * (q + 1) + 0 /\ 0 \in 0..(d - 1) /\ q + 1 \in Nat /\ n + 1 \in Nat
    BY <1>1, <2>1
  <2>3. (n + 1) % d = 0 /\ (n + 1) \div d = q + 1
    BY <2>2, DivisionIsUnique
  <2>. QED
    BY <1>3, <2>3 DEF q, r
<1>. QED
  BY <1>2, <1>3

LEMMA ChangedBucket ==
    ASSUME NEW bucket \in AccountBucket, NEW failed \in Nat, NEW level \in 0..MaxLevel,
           NEW until \in Nat, NEW t \in Instants
    PROVE  /\ [bucket EXCEPT !.failed = failed, !.level = level, !.until = until,
                             !.touchedAt = t] \in AccountBucket
           /\ [bucket EXCEPT !.failed = failed, !.touchedAt = t] \in AccountBucket
BY Zenon DEF AccountBucket

\* What a failure leaves in the bucket: it counts unless the pair is blocked, and
\* the one that reaches the threshold starts the count again, a level higher.
LEMMA RecordedCounts ==
    ASSUME NEW bucket \in AccountBucket \union {NoBucket}, NEW t \in Instants, NEW n \in Nat,
           bucket = NoBucket => n = 0,
           bucket # NoBucket =>
               /\ bucket.failed = n % FailedAttemptsBeforeBackoff
               /\ bucket.level = Lesser(MaxLevel, n \div FailedAttemptsBeforeBackoff)
    PROVE  LET new == Recorded(bucket, t)
               m == IF Blocked(bucket, t) THEN n ELSE n + 1
           IN  /\ new \in AccountBucket
               /\ new.failed = m % FailedAttemptsBeforeBackoff
               /\ new.level = Lesser(MaxLevel, m \div FailedAttemptsBeforeBackoff)
<1>. DEFINE F == FailedAttemptsBeforeBackoff
            counted == Counted(bucket, t)
            old == IF bucket = NoBucket THEN 0 ELSE bucket.failed
            level == IF bucket = NoBucket THEN 0 ELSE bucket.level
<1>1. F \in Nat \ {0} /\ t \in Nat
  BY OptionsAssumption, ClockAssumption DEF Instants
<1>2. n % F \in 0..(F - 1) /\ n \div F \in Nat
  BY <1>1, Division
<1>3. /\ old = n % F /\ level = Lesser(MaxLevel, n \div F)
      /\ level \in 0..MaxLevel
  <2>1. CASE bucket = NoBucket
    <3>1. n = F * 0 + 0 /\ 0 \in 0..(F - 1)
      BY <1>1, <2>1
    <3>2. n % F = 0 /\ n \div F = 0
      BY <1>1, <3>1, DivisionIsUnique
    <3>. QED
      BY <2>1, <3>2 DEF Lesser, MaxLevel
  <2>2. CASE bucket # NoBucket
    BY <1>2, <2>2 DEF Lesser, MaxLevel
  <2>. QED
    BY <2>1, <2>2
<1>4. /\ counted \in AccountBucket
      /\ counted.level = level
      /\ counted.failed = IF Blocked(bucket, t) THEN old ELSE old + 1
      /\ Blocked(counted, t) <=> Blocked(bucket, t)
  <2>1. CASE bucket = NoBucket
    <3>1. counted = [startedAt |-> t, failed |-> 1, level |-> 0, until |-> 0, touchedAt |-> t]
      BY <2>1 DEF Counted
    <3>2. counted \in AccountBucket
      BY <1>1, <3>1 DEF AccountBucket, MaxLevel
    <3>3. ~ Blocked(bucket, t) /\ ~ Blocked(counted, t)
      <4>1. ~ (0 > t)
        BY <1>1
      <4>. QED
        BY <2>1, <3>1, <4>1 DEF Blocked
    <3>4. counted.level = 0 /\ counted.failed = 1
      BY <3>1
    <3>. QED
      BY <2>1, <3>2, <3>3, <3>4
  <2>2. CASE bucket # NoBucket
    <3>1. bucket \in AccountBucket
      BY <2>2
    <3>2. counted = [bucket EXCEPT !.failed = IF Blocked(bucket, t) THEN @ ELSE @ + 1,
                                   !.touchedAt = t]
      BY <2>2 DEF Counted
    <3>3. counted.until = bucket.until /\ counted \in AccountBucket
      <4>. DEFINE f == IF Blocked(bucket, t) THEN bucket.failed ELSE bucket.failed + 1
      <4>1. counted = [bucket EXCEPT !.failed = f, !.touchedAt = t]
        BY <3>2
      <4>2. f \in Nat /\ bucket.level \in 0..MaxLevel /\ bucket.until \in Nat
        BY <3>1 DEF AccountBucket
      <4>. HIDE DEF f, counted
      <4>3. counted \in AccountBucket
        BY <3>1, <4>1, <4>2, ChangedBucket
      <4>. QED
        BY <3>1, <4>1, <4>3 DEF AccountBucket
    <3>4. counted # NoBucket
      BY <3>3, BucketAssumption
    <3>. QED
      BY <2>2, <3>1, <3>2, <3>3, <3>4 DEF Blocked, AccountBucket
  <2>. QED
    BY <2>1, <2>2
<1>. HIDE DEF counted, old, level
<1>5. CASE Blocked(bucket, t)
  <2>1. Recorded(bucket, t) = counted
    BY <1>4, <1>5 DEF Recorded, counted
  <2>. QED
    BY <1>3, <1>4, <1>5, <2>1
<1>6. CASE ~ Blocked(bucket, t) /\ old + 1 < F
  <2>1. Recorded(bucket, t) = counted
    BY <1>4, <1>6 DEF Recorded, counted
  <2>2. (n + 1) % F = (n % F) + 1 /\ (n + 1) \div F = n \div F
    BY <1>1, <1>3, <1>6, NextOfDivision
  <2>. QED
    BY <1>3, <1>4, <1>6, <2>1, <2>2
<1>7. CASE ~ Blocked(bucket, t) /\ ~ (old + 1 < F)
  <2>. DEFINE higher == Lesser(MaxLevel, level + 1)
  <2>1. Recorded(bucket, t) = BackedOff(counted, t)
    BY <1>4, <1>7 DEF Recorded, counted
  <2>2. (n + 1) % F = 0 /\ (n + 1) \div F = n \div F + 1
    BY <1>1, <1>3, <1>7, NextOfDivision
  <2>3. higher \in 1..MaxLevel /\ higher = Lesser(MaxLevel, (n + 1) \div F)
    BY <1>2, <1>3, <2>2 DEF Lesser, MaxLevel
  <2>4. CalculateBackoff[higher] \in Nat
    BY <2>3, BackoffIsNat
  <2>5. BackedOff(counted, t) =
            [counted EXCEPT !.failed = 0, !.level = higher,
                            !.until = t + CalculateBackoff[higher], !.touchedAt = t]
    BY <1>4 DEF BackedOff
  <2>. HIDE DEF higher
  <2>6. higher \in 0..MaxLevel /\ t + CalculateBackoff[higher] \in Nat /\ 0 \in Nat
    BY <1>1, <2>3, <2>4
  <2>7. BackedOff(counted, t) \in AccountBucket
    <3>1. counted \in AccountBucket
      BY <1>4
    <3>2. \A u \in Nat : [counted EXCEPT !.failed = 0, !.level = higher, !.until = u,
                                         !.touchedAt = t] \in AccountBucket
      BY <2>6, <3>1, ChangedBucket
    <3>. QED
      BY <2>5, <2>6, <3>2, Zenon
  <2>8. BackedOff(counted, t).failed = 0 /\ BackedOff(counted, t).level = higher
    BY <1>4, <2>5 DEF AccountBucket
  <2>. QED
    BY <1>7, <2>1, <2>2, <2>3, <2>7, <2>8
<1>. QED
  BY <1>5, <1>6, <1>7

LEMMA PairInit == ThrottleInit => PairInv
<1>1. 0 \in Instants
  BY ClockAssumption DEF Instants
<1>. QED
  BY <1>1 DEF ThrottleInit, PairInv, PairTypeOK, EveryFailureCounted, NoRowNoFailures

LEMMA PairStep == PairInv /\ [ThrottleNext]_throttleVars => PairInv'
<1>. SUFFICES ASSUME PairInv, [ThrottleNext]_throttleVars PROVE PairInv'
  OBVIOUS
<1>. USE DEF PairInv
<1>1. ASSUME UNCHANGED <<account, failures>>, clock' \in Instants,
             pair' \in [Attempts -> Pairs], now' \in [Attempts -> Instants]
      PROVE  PairInv'
  BY <1>1 DEF PairTypeOK, EveryFailureCounted, NoRowNoFailures
<1>2. CASE UNCHANGED throttleVars
  BY <1>1, <1>2 DEF throttleVars, attemptVars, history, PairTypeOK
<1>3. CASE TimePasses
  <2>1. clock + 1 \in Instants
    BY <1>3, ClockAssumption DEF TimePasses, PairTypeOK, Instants
  <2>. QED
    BY <1>1, <1>3, <2>1 DEF TimePasses, attemptVars, history, PairTypeOK
<1>4. ASSUME NEW i \in Attempts, Step(i) PROVE PairInv'
  <2>1. ASSUME NEW p \in Pairs, Arrive(i, p) PROVE PairInv'
    BY <1>1, <2>1 DEF Arrive, history, PairTypeOK
  <2>2. CASE RecordFailure(i)
    <3>. DEFINE p == pair[i]
                new == Recorded(account[p], now[i])
    <3>1. /\ p \in Pairs /\ now[i] \in Instants /\ failures[p] \in Nat
          /\ account[p] \in AccountBucket \union {NoBucket}
      BY DEF PairTypeOK
    <3>2. /\ account[p] = NoBucket => failures[p] = 0
          /\ account[p] # NoBucket =>
               /\ account[p].failed = failures[p] % FailedAttemptsBeforeBackoff
               /\ account[p].level = Lesser(MaxLevel, failures[p] \div FailedAttemptsBeforeBackoff)
      BY <3>1, Zenon DEF EveryFailureCounted, NoRowNoFailures
    <3>3. /\ account' = [account EXCEPT ![p] = new]
          /\ failures' = [failures EXCEPT ![p] =
                 IF Blocked(account[p], now[i]) THEN failures[p] ELSE failures[p] + 1]
          /\ UNCHANGED <<clock, pair, now>>
      BY <2>2 DEF RecordFailure
    <3>4. /\ new \in AccountBucket
          /\ new.failed = failures'[p] % FailedAttemptsBeforeBackoff
          /\ new.level = Lesser(MaxLevel, failures'[p] \div FailedAttemptsBeforeBackoff)
      BY <3>1, <3>2, <3>3, RecordedCounts DEF PairTypeOK
    <3>. HIDE DEF new, p
    <3>5. PairTypeOK'
      BY <3>1, <3>3, <3>4 DEF PairTypeOK
    <3>6. /\ account'[p] = new
          /\ \A q \in Pairs : q # p => account'[q] = account[q] /\ failures'[q] = failures[q]
      BY <3>1, <3>3 DEF PairTypeOK
    <3>7. EveryFailureCounted' /\ NoRowNoFailures'
      BY <3>4, <3>6, BucketAssumption DEF EveryFailureCounted, NoRowNoFailures
    <3>. QED
      BY <3>5, <3>7
  <2>3. CASE Reset(i)
    BY <2>3 DEF Reset, PairTypeOK, EveryFailureCounted, NoRowNoFailures
  <2>4. CASE CleanupDelete(i)
    BY <2>4 DEF CleanupDelete, PairTypeOK, EveryFailureCounted, NoRowNoFailures
  <2>5. CASE Fail(i)
    BY <1>1, <2>5 DEF Fail, history, PairTypeOK
  <2>6. CASE \/ Reserve(i) \/ ReserveFails(i) \/ ReserveLost(i) \/ CleanupSelect(i)
             \/ CleanupFails(i) \/ Throttle(i) \/ Verify(i) \/ StoreFails(i)
    <3>1. UNCHANGED <<clock, account, pair, now, failures>>
      BY <2>6 DEF Reserve, ReserveFails, ReserveLost, CleanupSelect, CleanupFails, Throttle,
                  Verify, StoreFails, history
    <3>. QED
      BY <1>1, <3>1 DEF PairTypeOK
  <2>. QED
    BY <1>4, <2>1, <2>2, <2>3, <2>4, <2>5, <2>6 DEF Step
<1>. QED
  BY <1>2, <1>3, <1>4 DEF ThrottleNext

\* The bucket of a pair has counted every failure recorded against it, and has
\* gone up a level for every block, for any options and however the records of
\* several instances overtake each other (RecordFailureAsync).
THEOREM FailuresCounted == ThrottleSpec => []EveryFailureCounted
<1>1. PairInv => EveryFailureCounted
  BY DEF PairInv
<1>. QED
  BY <1>1, PairInit, PairStep, PTL DEF ThrottleSpec

\* The types of what is left: the operations counted, and how far attempts are.
ProgressTypeOK ==
    /\ operations \in 0..(CleanupEveryOperations - 1)
    /\ stage \in [Attempts -> Stages]
    /\ allowed \in [Attempts -> BOOLEAN]
    /\ stale \in [Attempts -> SUBSET Keys]

LEMMA ProgressInit == ThrottleInit => ProgressTypeOK
<1>1. 0 \in 0..(CleanupEveryOperations - 1)
  BY OptionsAssumption
<1>. QED
  BY <1>1 DEF ThrottleInit, ProgressTypeOK, Stages

LEMMA ProgressStep == ProgressTypeOK /\ [ThrottleNext]_throttleVars => ProgressTypeOK'
<1>. SUFFICES ASSUME ProgressTypeOK, [ThrottleNext]_throttleVars PROVE ProgressTypeOK'
  OBVIOUS
<1>. USE DEF ProgressTypeOK
<1>1. CASE UNCHANGED throttleVars
  BY <1>1 DEF throttleVars, attemptVars
<1>2. CASE TimePasses
  BY <1>2 DEF TimePasses, attemptVars
<1>3. ASSUME NEW i \in Attempts, Step(i) PROVE ProgressTypeOK'
  <2>1. ASSUME NEW step \in Stages, MoveTo(i, step)
        PROVE  stage' \in [Attempts -> Stages]
    BY <2>1 DEF MoveTo
  <2>2. ASSUME NEW p \in Pairs, Arrive(i, p) PROVE ProgressTypeOK'
    BY <2>1, <2>2 DEF Arrive, Stages
  <2>3. CASE Reserve(i)
    <3>1. operations' \in 0..(CleanupEveryOperations - 1)
      <4>1. operations + 1 \in Nat /\ CleanupEveryOperations \in Nat \ {0}
        BY OptionsAssumption
      <4>2. operations' = (operations + 1) % CleanupEveryOperations
        BY <2>3 DEF Reserve
      <4>. QED
        BY <4>1, <4>2, Division
    <3>2. stage' \in [Attempts -> Stages]
      BY <2>1, <2>3 DEF Reserve, Stages
    <3>3. allowed' \in [Attempts -> BOOLEAN] /\ stale' = stale
      BY <2>3 DEF Reserve
    <3>. QED
      BY <3>1, <3>2, <3>3
  <2>4. CASE ReserveFails(i) \/ ReserveLost(i)
    BY <2>1, <2>4 DEF ReserveFails, ReserveLost, Stages
  <2>5. CASE CleanupSelect(i)
    <3>1. PICK batch \in OldestStale(now[i]) : stale' = [stale EXCEPT ![i] = batch]
      BY <2>5 DEF CleanupSelect
    <3>2. batch \subseteq Keys
      BY DEF OldestStale
    <3>3. stage' \in [Attempts -> Stages] /\ UNCHANGED <<operations, allowed>>
      BY <2>1, <2>5 DEF CleanupSelect, Stages
    <3>. QED
      BY <3>1, <3>2, <3>3
  <2>6. CASE CleanupDelete(i) \/ CleanupFails(i)
    BY <2>1, <2>6 DEF CleanupDelete, CleanupFails, Stages
  <2>7. CASE Throttle(i) \/ Verify(i)
    BY <2>1, <2>7 DEF Throttle, Verify, Stages
  <2>8. CASE Reset(i) \/ Fail(i) \/ RecordFailure(i) \/ StoreFails(i)
    BY <2>1, <2>8 DEF Reset, Fail, RecordFailure, StoreFails, Stages
  <2>. QED
    BY <1>3, <2>2, <2>3, <2>4, <2>5, <2>6, <2>7, <2>8 DEF Step
<1>. QED
  BY <1>1, <1>2, <1>3 DEF ThrottleNext

THEOREM ThrottleTypeCorrect == ThrottleSpec => []ThrottleTypeOK
<1>1. SourceInv /\ PairInv /\ ProgressTypeOK => ThrottleTypeOK
  BY DEF SourceInv, SourceTypeOK, PairInv, PairTypeOK, ProgressTypeOK, ThrottleTypeOK
<1>. QED
  BY <1>1, SourceInit, SourceStep, PairInit, PairStep, ProgressInit, ProgressStep, PTL
     DEF ThrottleSpec

\* What one record may do to the block of a pair.
LEMMA RecordedBlock ==
    ASSUME NEW bucket \in AccountBucket \union {NoBucket}, NEW t \in Instants
    PROVE  LET new == Recorded(bucket, t) IN
           \/ bucket = NoBucket /\ new.level = 0
           \/ new.until = (IF bucket = NoBucket THEN 0 ELSE bucket.until)
           \/ new.until = t + BackoffOf(new.level)
<1>. DEFINE counted == Counted(bucket, t)
<1>1. CASE Blocked(counted, t) \/ counted.failed < FailedAttemptsBeforeBackoff
  <2>1. Recorded(bucket, t) = counted
    BY <1>1 DEF Recorded
  <2>2. CASE bucket = NoBucket
    BY <2>1, <2>2 DEF Counted
  <2>3. CASE bucket # NoBucket
    BY <2>1, <2>3 DEF Counted, AccountBucket
  <2>. QED
    BY <2>2, <2>3
<1>2. CASE ~ (Blocked(counted, t) \/ counted.failed < FailedAttemptsBeforeBackoff)
  <2>. DEFINE level == Lesser(MaxLevel, counted.level + 1)
  <2>1. Recorded(bucket, t) = BackedOff(counted, t)
    BY <1>2 DEF Recorded
  <2>2. /\ counted.level \in 0..MaxLevel
        /\ DOMAIN counted = {"startedAt", "failed", "level", "until", "touchedAt"}
    BY DEF Counted, AccountBucket, MaxLevel
  <2>3. level \in 1..MaxLevel
    BY <2>2 DEF Lesser, MaxLevel
  <2>4. /\ BackedOff(counted, t).level = level
        /\ BackedOff(counted, t).until = t + CalculateBackoff[level]
    BY <2>2 DEF BackedOff
  <2>5. CalculateBackoff[level] = BackoffOf(level)
    BY <2>3, BackoffComputed
  <2>. QED
    BY <2>1, <2>4, <2>5
<1>. QED
  BY <1>1, <1>2

\* A block lasts as long as its level says, for any options and at every level the
\* table allows: doubled from the initial backoff, and the maximum at most.
THEOREM BlockLasts == ThrottleSpec => BlockLastsByLevel
<1>1. ASSUME PairInv, ProgressTypeOK, [ThrottleNext]_throttleVars, NEW i \in Attempts,
             stage[i] = "recording", stage'[i] = "idle", account'[pair[i]] # account[pair[i]]
      PROVE  LET old == account[pair[i]]
                 new == account'[pair[i]]
             IN  \/ old = NoBucket /\ new.level = 0
                 \/ new.until = (IF old = NoBucket THEN 0 ELSE old.until)
                 \/ new.until = now[i] +
                        Lesser(InitialBackoff * 2 ^ (new.level - 1), MaximumBackoff)
  <2>1. /\ pair[i] \in Pairs /\ now[i] \in Instants
        /\ account[pair[i]] \in AccountBucket \union {NoBucket}
    BY <1>1 DEF PairInv, PairTypeOK
  <2>2. RecordFailure(i)
    <3>1. PICK j \in Attempts : Step(j)
      BY <1>1 DEF ThrottleNext, throttleVars, TimePasses, attemptVars
    <3>2. j = i
      BY <1>1, <3>1 DEF ProgressTypeOK, Step, MoveTo, Arrive, Reserve, ReserveFails, ReserveLost,
             CleanupSelect, CleanupDelete, CleanupFails, Throttle, Verify, Reset, Fail,
             RecordFailure, StoreFails
    <3>. QED
      BY <1>1, <3>1, <3>2 DEF Step, Arrive, Reserve, ReserveFails, ReserveLost, CleanupSelect,
             CleanupDelete, CleanupFails, Throttle, Verify, Reset, Fail, StoreFails
  <2>3. account'[pair[i]] = Recorded(account[pair[i]], now[i])
    <3>1. account \in [Pairs -> AccountBucket \union {NoBucket}]
      BY <1>1 DEF PairInv, PairTypeOK
    <3>. QED
      BY <2>1, <2>2, <3>1 DEF RecordFailure
  <2>. QED
    BY <2>1, <2>3, RecordedBlock DEF BackoffOf
<1>2. PairInv /\ ProgressTypeOK /\ [ThrottleNext]_throttleVars =>
          [\A i \in Attempts :
               LET old == account[pair[i]]
                   new == account'[pair[i]]
               IN  stage[i] = "recording" /\ stage'[i] = "idle" /\ new # old =>
                       \/ old = NoBucket /\ new.level = 0
                       \/ new.until = (IF old = NoBucket THEN 0 ELSE old.until)
                       \/ new.until = now[i] +
                              Lesser(InitialBackoff * 2 ^ (new.level - 1), MaximumBackoff)]_throttleVars
  BY <1>1
<1>. QED
  BY <1>2, PairInit, PairStep, ProgressInit, ProgressStep, PTL
     DEF ThrottleSpec, BlockLastsByLevel

-----------------------------------------------------------------------------
(* SessionRevalidation: the history of the stamps. *)

LEMMA AccountType ==
    ASSUME AccountTypeOK, \/ Tick \/ \E a \in Accounts : Disable(a) \/ Replace(a)
    PROVE  AccountTypeOK'
<1>1. CASE Tick
  BY <1>1, BoundAssumption, ClockAssumption DEF Tick, AccountTypeOK, Instants
<1>2. ASSUME NEW a \in Accounts, Disable(a) PROVE AccountTypeOK'
  <2>1. [s \in Stamps |-> IF s >= stamp[a] THEN clock ELSE lostAt[a][s]]
            \in [Stamps -> Instants \union {Never}]
    BY <1>2 DEF AccountTypeOK
  <2>. QED
    BY <1>2, <2>1 DEF Disable, AccountTypeOK
<1>3. ASSUME NEW a \in Accounts, Replace(a) PROVE AccountTypeOK'
  <2>1. stamp[a] \in Stamps /\ stamp[a] + 1 \in Stamps
    BY <1>3, BoundAssumption, ClockAssumption DEF Replace, AccountTypeOK, Stamps
  <2>2. lostAt' \in [Accounts -> [Stamps -> Instants \union {Never}]]
    BY <1>3, <2>1 DEF Replace, AccountTypeOK
  <2>. QED
    BY <1>3, <2>1, <2>2 DEF Replace, AccountTypeOK
<1>. QED
  BY <1>1, <1>2, <1>3

\* What a step does to the row and the history of one stamp.
Worn(a, s) ==
    /\ stamp[a] <= stamp'[a]
    /\ enabled'[a] => enabled[a]
    /\ \/ lostAt'[a][s] = lostAt[a][s]
       \/ lostAt[a][s] = Never /\ lostAt'[a][s] = clock

\* A stamp loses its validity once, and never gains it back.
LEMMA StampsWear ==
    ASSUME AccountTypeOK, LossesRecorded,
           \/ Tick
           \/ \E a \in Accounts : Disable(a) \/ Replace(a)
           \/ UNCHANGED <<stamp, enabled, lostAt>>,
           NEW b \in Accounts, NEW s \in Stamps
    PROVE  Worn(b, s)
<1>0. stamp[b] \in Int /\ s \in Int /\ clock \in Int
  BY BoundAssumption, ClockAssumption DEF AccountTypeOK, Stamps, Instants
<1>1. CASE Tick \/ UNCHANGED <<stamp, enabled, lostAt>>
  BY <1>0, <1>1 DEF Tick, Worn
<1>2. ASSUME NEW a \in Accounts, Disable(a) PROVE Worn(b, s)
  <2>1. CASE a # b
    BY <1>0, <1>2, <2>1 DEF Disable, Worn, AccountTypeOK
  <2>2. CASE a = b
    <3>1. lostAt'[b][s] = IF s >= stamp[b] THEN clock ELSE lostAt[b][s]
      BY <1>2, <2>2 DEF Disable, AccountTypeOK
    <3>2. s >= stamp[b] => lostAt[b][s] = Never
      BY <1>2, <2>2 DEF Disable, LossesRecorded
    <3>3. stamp'[b] = stamp[b] /\ enabled[b]
      BY <1>2, <2>2 DEF Disable
    <3>. QED
      BY <1>0, <3>1, <3>2, <3>3 DEF Worn
  <2>. QED
    BY <2>1, <2>2
<1>3. ASSUME NEW a \in Accounts, Replace(a) PROVE Worn(b, s)
  <2>1. enabled' = enabled
    BY <1>3 DEF Replace
  <2>2. stamp'[b] >= stamp[b]
    BY <1>0, <1>3 DEF Replace, AccountTypeOK
  <2>3. CASE enabled[a]
    <3>1. lostAt' = [lostAt EXCEPT ![a][stamp[a]] = clock]
      BY <1>3, <2>3 DEF Replace
    <3>2. lostAt[a][stamp[a]] = Never
      <4>1. stamp[a] \in Stamps /\ stamp[a] >= stamp[a]
        BY DEF AccountTypeOK, Stamps
      <4>. QED
        BY <2>3, <4>1 DEF LossesRecorded
    <3>. QED
      BY <1>0, <2>1, <2>2, <3>1, <3>2 DEF Worn, AccountTypeOK
  <2>4. CASE ~enabled[a]
    BY <1>0, <1>3, <2>1, <2>2, <2>4 DEF Replace, Worn
  <2>. QED
    BY <2>3, <2>4
<1>. QED
  BY <1>1, <1>2, <1>3

LEMMA LossesStep ==
    ASSUME AccountTypeOK, LossesRecorded,
           \/ Tick
           \/ \E a \in Accounts : Disable(a) \/ Replace(a)
           \/ UNCHANGED accountVars
    PROVE  LossesRecorded'
<1>. SUFFICES ASSUME NEW b \in Accounts, NEW s \in Stamps
              PROVE  /\ lostAt'[b][s] = Never <=> enabled'[b] /\ s >= stamp'[b]
                     /\ lostAt'[b][s] # Never => lostAt'[b][s] <= clock'
  BY DEF LossesRecorded, Never
<1>0. /\ stamp[b] \in Int /\ s \in Int /\ clock \in Int /\ clock <= MaxClock
      /\ MaxClock \in Int /\ Never = MaxClock + 1
      /\ lostAt[b][s] \in Int
  BY BoundAssumption, ClockAssumption DEF AccountTypeOK, Stamps, Instants, Never
<1>h. /\ lostAt[b][s] = Never <=> enabled[b] /\ s >= stamp[b]
      /\ lostAt[b][s] # Never => lostAt[b][s] <= clock
  BY DEF LossesRecorded
<1>1. CASE Tick \/ UNCHANGED accountVars
  BY <1>0, <1>h, <1>1 DEF Tick, accountVars
<1>2. ASSUME NEW a \in Accounts, Disable(a)
      PROVE  /\ lostAt'[b][s] = Never <=> enabled'[b] /\ s >= stamp'[b]
             /\ lostAt'[b][s] # Never => lostAt'[b][s] <= clock'
  <2>1. CASE a # b
    BY <1>0, <1>h, <1>2, <2>1 DEF Disable, AccountTypeOK
  <2>2. CASE a = b
    <3>1. lostAt'[b][s] = IF s >= stamp[b] THEN clock ELSE lostAt[b][s]
      BY <1>2, <2>2 DEF Disable, AccountTypeOK
    <3>2. stamp'[b] = stamp[b] /\ ~enabled'[b] /\ clock' = clock
      BY <1>2, <2>2 DEF Disable, AccountTypeOK
    <3>. QED
      BY <1>0, <1>h, <3>1, <3>2
  <2>. QED
    BY <2>1, <2>2
<1>3. ASSUME NEW a \in Accounts, Replace(a)
      PROVE  /\ lostAt'[b][s] = Never <=> enabled'[b] /\ s >= stamp'[b]
             /\ lostAt'[b][s] # Never => lostAt'[b][s] <= clock'
  <2>1. enabled' = enabled /\ clock' = clock
    BY <1>3 DEF Replace
  <2>2. CASE a # b
    <3>1. stamp'[b] = stamp[b] /\ lostAt'[b] = lostAt[b]
      BY <1>3, <2>2 DEF Replace, AccountTypeOK
    <3>. QED
      BY <1>0, <1>h, <2>1, <3>1
  <2>3. CASE a = b
    <3>1. stamp'[b] = stamp[b] + 1
      BY <1>3, <2>3 DEF Replace, AccountTypeOK
    <3>2. lostAt'[b][s] = IF enabled[b] /\ s = stamp[b] THEN clock ELSE lostAt[b][s]
      BY <1>3, <2>3 DEF Replace, AccountTypeOK
    <3>. QED
      BY <1>0, <1>h, <2>1, <3>1, <3>2
  <2>. QED
    BY <2>2, <2>3
<1>. QED
  BY <1>1, <1>2, <1>3

-----------------------------------------------------------------------------
(* The invariant. *)

\* A ticket holds a stamp its account has had, and if it is a cookie that was
\* validated, the stamp was still good at the instant it names.
Honest(t) ==
    /\ t.held <= stamp[t.owner]
    /\ t.checkedAt # Unchecked =>
           t.checkedAt <= clock /\ t.checkedAt <= lostAt[t.owner][t.held]

RequestInv(q) ==
    /\ pc[q] # "idle" => shown[q] \in Ticket /\ Honest(shown[q])
    /\ pc[q] \in {"idle", "signing"} => verdict[q] = "none"
    /\ pc[q] = "asking" => askedAt[q] <= clock
    /\ pc[q] = "asking" /\ verdict[q] = "valid" =>
           askedAt[q] <= LostAt(shown[q].owner, shown[q].held)
    /\ pc[q] = "rejected" \/ (pc[q] = "asking" /\ verdict[q] = "revoked") =>
           ~Valid(shown[q].owner, shown[q].held)
    /\ pc[q] = "accepted" =>
           /\ acceptedAt[q] <= clock
           /\ LET lost == LostAt(shown[q].owner, shown[q].held) IN
              IF shown[q].kind = "bearer" THEN acceptedAt[q] <= lost
              ELSE acceptedAt[q] < lost + ValidationInterval

SessionInv ==
    /\ LossesRecorded
    /\ \A t \in tickets : Honest(t)
    /\ \A q \in Requests : RequestInv(q)

LEMMA SecondsBelow ==
    ASSUME NEW t \in Instants
    PROVE  WholeSeconds(t) \in Instants /\ WholeSeconds(t) <= t
<1>1. t \in Nat /\ t <= MaxClock /\ TicksPerSecond \in Nat /\ TicksPerSecond > 0
  BY BoundAssumption, ClockAssumption, SecondAssumption DEF Instants
<1>2. t % TicksPerSecond \in Nat /\ t % TicksPerSecond <= t
  <2>1. t = TicksPerSecond * (t \div TicksPerSecond) + (t % TicksPerSecond)
    BY <1>1
  <2>2. t % TicksPerSecond \in Nat /\ t \div TicksPerSecond \in Nat
    BY <1>1
  <2>3. TicksPerSecond * (t \div TicksPerSecond) \in Nat
    BY <1>1, <2>2
  <2>. QED
    BY <1>1, <2>1, <2>2, <2>3
<1>. QED
  BY <1>1, <1>2, BoundAssumption, ClockAssumption DEF WholeSeconds, Instants

\* What a step of the accounts leaves true of a ticket.
LEMMA StaysHonest ==
    ASSUME TypeOK, TypeOK', LossesRecorded, NEW t \in Ticket, Honest(t),
           Worn(t.owner, t.held), clock <= clock'
    PROVE  /\ t.held <= stamp'[t.owner]
           /\ t.checkedAt # Unchecked =>
                  t.checkedAt <= clock' /\ t.checkedAt <= lostAt'[t.owner][t.held]
<1>1. t.owner \in Accounts /\ t.held \in Stamps /\ t.checkedAt \in Instants \union {Unchecked}
  BY DEF Ticket
<1>2. /\ stamp[t.owner] \in Int /\ stamp'[t.owner] \in Int
      /\ clock \in Int /\ clock' \in Int /\ t.held \in Int
      /\ t.checkedAt # Unchecked => t.checkedAt \in Int
  BY <1>1, BoundAssumption, ClockAssumption DEF TypeOK, AccountTypeOK, Stamps, Instants
<1>. QED
  BY <1>2 DEF Honest, Worn

\* A principal once refused is refused for good.
LEMMA StaysRevoked ==
    ASSUME TypeOK, TypeOK', NEW t \in Ticket, Honest(t),
           Worn(t.owner, t.held), ~Valid(t.owner, t.held)
    PROVE  ~(enabled'[t.owner] /\ t.held = stamp'[t.owner])
<1>1. t.owner \in Accounts /\ t.held \in Stamps
  BY DEF Ticket
<1>2. stamp[t.owner] \in Int /\ stamp'[t.owner] \in Int /\ t.held \in Int
  BY <1>1 DEF TypeOK, AccountTypeOK, Stamps
<1>. QED
  BY <1>2 DEF Honest, Worn, Valid

\* What a step of the accounts leaves true of a principal.
LEMMA StaysJudged ==
    ASSUME TypeOK, TypeOK', LossesRecorded, NEW t \in Ticket, Honest(t),
           Worn(t.owner, t.held), NEW i \in Instants, i <= clock
    PROVE  /\ i <= lostAt[t.owner][t.held] => i <= lostAt'[t.owner][t.held]
           /\ i < lostAt[t.owner][t.held] + ValidationInterval =>
                  i < lostAt'[t.owner][t.held] + ValidationInterval
<1>1. t.owner \in Accounts /\ t.held \in Stamps
  BY DEF Ticket
<1>2. /\ stamp[t.owner] \in Int /\ stamp'[t.owner] \in Int
      /\ clock \in Int /\ t.held \in Int /\ i \in Int
      /\ lostAt[t.owner][t.held] \in Int
      /\ ValidationInterval \in Nat /\ ValidationInterval > 0
  BY <1>1, BoundAssumption, ClockAssumption, IntervalAssumption
     DEF TypeOK, AccountTypeOK, Stamps, Instants, Never
<1>. QED
  BY <1>2 DEF Worn

\* A held stamp is a stamp, so its loss is in the history.
LEMMA HeldIsReadable ==
    ASSUME NEW t \in Ticket
    PROVE  LostAt(t.owner, t.held) = lostAt[t.owner][t.held]
           /\ LostAt(t.owner, t.held)' = lostAt'[t.owner][t.held]
BY UnreadableAssumption DEF Ticket, Stamps, LostAt

\* A request that a step does not move.
LEMMA RequestRests ==
    ASSUME TypeOK, TypeOK', LossesRecorded, NEW q \in Requests, RequestInv(q),
           \A b \in Accounts, s \in Stamps : Worn(b, s),
           clock <= clock',
           pc'[q] = pc[q], shown'[q] = shown[q], askedAt'[q] = askedAt[q],
           verdict'[q] = verdict[q], acceptedAt'[q] = acceptedAt[q]
    PROVE  RequestInv(q)'
<1>1. CASE pc[q] = "idle"
  BY <1>1 DEF RequestInv
<1>2. CASE pc[q] # "idle"
  <2>1. shown[q] \in Ticket /\ Honest(shown[q])
    BY <1>2 DEF RequestInv
  <2>2. Worn(shown[q].owner, shown[q].held)
    BY <2>1 DEF Ticket
  <2>3. Honest(shown[q])'
    BY <2>1, <2>2, StaysHonest DEF Honest
  <2>4. /\ LostAt(shown[q].owner, shown[q].held) = lostAt[shown[q].owner][shown[q].held]
        /\ LostAt(shown[q].owner, shown[q].held)' = lostAt'[shown[q].owner][shown[q].held]
    BY <2>1, HeldIsReadable DEF LostAt
  <2>5. ~Valid(shown[q].owner, shown[q].held) => ~Valid(shown[q].owner, shown[q].held)'
    BY <2>1, <2>2, StaysRevoked DEF Valid
  <2>6. clock \in Int /\ clock' \in Int /\ askedAt[q] \in Int
    BY BoundAssumption, ClockAssumption DEF TypeOK, AccountTypeOK, Instants
  <2>7. pc[q] = "asking" => askedAt'[q] <= clock'
    BY <2>6 DEF RequestInv
  <2>8. pc[q] = "asking" /\ verdict[q] = "valid" =>
            askedAt[q] <= LostAt(shown[q].owner, shown[q].held)'
    <3>. SUFFICES ASSUME pc[q] = "asking", verdict[q] = "valid"
                  PROVE  askedAt[q] <= lostAt'[shown[q].owner][shown[q].held]
      BY <2>4
    <3>1. askedAt[q] \in Instants /\ askedAt[q] <= clock
          /\ askedAt[q] <= lostAt[shown[q].owner][shown[q].held]
      BY <2>4 DEF RequestInv, TypeOK
    <3>. QED
      BY <2>1, <2>2, <3>1, StaysJudged
  <2>9. pc[q] = "accepted" =>
          /\ acceptedAt[q] <= clock'
          /\ LET lost == LostAt(shown[q].owner, shown[q].held)' IN
             IF shown[q].kind = "bearer" THEN acceptedAt[q] <= lost
             ELSE acceptedAt[q] < lost + ValidationInterval
    <3>. SUFFICES ASSUME pc[q] = "accepted"
         PROVE /\ acceptedAt[q] <= clock'
               /\ LET lost == lostAt'[shown[q].owner][shown[q].held] IN
                  IF shown[q].kind = "bearer" THEN acceptedAt[q] <= lost
                  ELSE acceptedAt[q] < lost + ValidationInterval
      BY <2>4
    <3>1. /\ acceptedAt[q] \in Instants \union {Never} /\ acceptedAt[q] <= clock
          /\ LET lost == lostAt[shown[q].owner][shown[q].held] IN
             IF shown[q].kind = "bearer" THEN acceptedAt[q] <= lost
             ELSE acceptedAt[q] < lost + ValidationInterval
      BY <2>4 DEF RequestInv, TypeOK
    <3>2. acceptedAt[q] \in Instants /\ acceptedAt[q] \in Int
      BY <2>6, <3>1, BoundAssumption, ClockAssumption DEF Never, Instants, TypeOK, AccountTypeOK
    <3>. QED
      BY <2>1, <2>2, <2>6, <3>1, <3>2, StaysJudged
  <2>. QED
    BY <2>1, <2>3, <2>5, <2>7, <2>8, <2>9 DEF RequestInv
<1>. QED
  BY <1>1, <1>2

-----------------------------------------------------------------------------
(* Type correctness. *)

LEMMA InitType == Init => TypeOK
<1>1. 0 \in Instants /\ 0 \in Stamps
  BY BoundAssumption, ClockAssumption DEF Instants, Stamps
<1>. QED
  BY <1>1 DEF Init, AccountInit, TypeOK, AccountTypeOK, Steps

LEMMA RequestType ==
    ASSUME TypeOK, NEW q \in Requests, RequestStep(q),
           pc[q] # "idle" => shown[q] \in Ticket
    PROVE  TypeOK'
<1>. USE DEF TypeOK, Steps
<1>0. clock \in Instants
  BY DEF AccountTypeOK
<1>1. ASSUME UNCHANGED accountVars PROVE AccountTypeOK'
  BY <1>1 DEF accountVars, AccountTypeOK
<1>2. ASSUME Over(q), tickets' \subseteq Ticket, AccountTypeOK' PROVE TypeOK'
  <2>1. 0 \in Instants
    BY BoundAssumption, ClockAssumption DEF Instants
  <2>. QED
    BY <1>2, <2>1 DEF Over
<1>3. ASSUME NEW a \in Accounts, NEW k \in Kinds, SignInReads(q, a, k) PROVE TypeOK'
  <2>1. [kind |-> k, owner |-> a, held |-> stamp[a], checkedAt |-> Unchecked] \in Ticket
    BY DEF Ticket, AccountTypeOK
  <2>. QED
    BY <1>1, <1>3, <2>1 DEF SignInReads
<1>4. CASE SignInIssues(q)
  <2>1. tickets' \subseteq Ticket
    BY <1>4 DEF SignInIssues
  <2>. QED
    BY <1>1, <1>2, <1>4, <2>1 DEF SignInIssues
<1>5. ASSUME NEW t \in tickets, SendBelieved(q, t) \/ Send(q, t) PROVE TypeOK'
  <2>. DEFINE Keep == /\ tickets' = tickets
                      /\ AccountTypeOK'
  <2>1. Keep
    BY <1>1, <1>5 DEF SendBelieved, Send
  <2>2. CASE SendBelieved(q, t)
    BY <1>0, <2>1, <2>2 DEF SendBelieved
  <2>3. CASE Send(q, t)
    BY <1>0, <2>1, <2>3 DEF Send
  <2>. QED
    BY <1>5, <2>2, <2>3
<1>6. CASE ReadPrincipal(q)
  BY <1>1, <1>6 DEF ReadPrincipal
<1>7. CASE ReadFails(q)
  BY <1>1, <1>2, <1>7 DEF ReadFails
<1>8. CASE Accept(q)
  <2>1. askedAt[q] \in Instants /\ shown[q] \in Ticket
    BY <1>8 DEF Accept
  <2>2. WholeSeconds(askedAt[q]) \in Instants
    BY <2>1, SecondsBelow
  <2>3. [shown[q] EXCEPT !.checkedAt = WholeSeconds(askedAt[q])] \in Ticket
    BY <2>1, <2>2 DEF Ticket
  <2>4. tickets' \subseteq Ticket
    BY <1>8, <2>3 DEF Accept
  <2>. QED
    BY <1>1, <1>8, <2>1, <2>4 DEF Accept
<1>9. CASE Reject(q)
  BY <1>1, <1>9 DEF Reject
<1>10. CASE RevokeAll(q)
  <2>1. shown[q].owner \in Accounts /\ Replace(shown[q].owner)
    BY <1>10 DEF RevokeAll, Ticket
  <2>2. AccountTypeOK'
    BY <2>1, AccountType
  <2>. QED
    BY <1>2, <1>10, <2>2 DEF RevokeAll
<1>11. CASE Answer(q)
  BY <1>1, <1>2, <1>11 DEF Answer
<1>. QED
  BY <1>3, <1>4, <1>5, <1>6, <1>7, <1>8, <1>9, <1>10, <1>11 DEF RequestStep

LEMMA NextType == TypeOK /\ SessionInv /\ [Next]_vars => TypeOK'
<1>. SUFFICES ASSUME TypeOK, SessionInv, [Next]_vars PROVE TypeOK'
  OBVIOUS
<1>1. ASSUME NEW q \in Requests, RequestStep(q) PROVE TypeOK'
  <2>1. pc[q] # "idle" => shown[q] \in Ticket
    BY DEF SessionInv, RequestInv
  <2>. QED
    BY <1>1, <2>1, RequestType
<1>2. ASSUME Tick \/ (\E a \in Accounts : Disable(a)), Elsewhere PROVE TypeOK'
  <2>1. AccountTypeOK'
    BY <1>2, AccountType DEF TypeOK
  <2>. QED
    BY <1>2, <2>1 DEF TypeOK, Elsewhere, requestVars
<1>3. CASE UNCHANGED vars
  BY <1>3 DEF vars, accountVars, requestVars, TypeOK, AccountTypeOK
<1>. QED
  BY <1>1, <1>2, <1>3 DEF Next

-----------------------------------------------------------------------------
(* The step of a request, seen from the request itself. *)

LEMMA AcceptHonest ==
    ASSUME TypeOK, NEW q \in Requests, RequestInv(q), Accept(q)
    PROVE  /\ RequestInv(q)'
           /\ \A t \in tickets' : t \in tickets \/ Honest(t)
<1>1. /\ pc[q] = "asking" /\ verdict[q] = "valid"
      /\ pc'[q] = "accepted" /\ shown'[q] = shown[q] /\ acceptedAt'[q] = askedAt[q]
      /\ verdict'[q] = "valid"
      /\ clock' = clock /\ stamp' = stamp /\ enabled' = enabled /\ lostAt' = lostAt
  BY DEF Accept, TypeOK, accountVars
<1>2. /\ shown[q] \in Ticket /\ Honest(shown[q])
      /\ askedAt[q] <= clock
      /\ askedAt[q] <= LostAt(shown[q].owner, shown[q].held)
  BY <1>1 DEF RequestInv
<1>3. LostAt(shown[q].owner, shown[q].held) = lostAt[shown[q].owner][shown[q].held]
  BY <1>2, HeldIsReadable
<1>4. /\ askedAt[q] \in Instants /\ askedAt[q] \in Int /\ clock \in Int
      /\ lostAt[shown[q].owner][shown[q].held] \in Int
  <2>1. shown[q].owner \in Accounts /\ shown[q].held \in Stamps
    BY <1>2 DEF Ticket
  <2>. QED
    BY <2>1, BoundAssumption, ClockAssumption DEF TypeOK, AccountTypeOK, Instants, Never
<1>5. RequestInv(q)'
  <2>1. Honest(shown[q])'
    BY <1>1, <1>2 DEF Honest
  <2>2. LostAt(shown[q].owner, shown[q].held)' = LostAt(shown[q].owner, shown[q].held)
    BY <1>1 DEF LostAt
  <2>3. LostAt(shown[q].owner, shown[q].held) \in Int
    BY <1>3, <1>4
  <2>4. /\ acceptedAt'[q] <= clock'
        /\ LET lost == LostAt(shown[q].owner, shown[q].held)' IN
           IF shown'[q].kind = "bearer" THEN acceptedAt'[q] <= lost
           ELSE acceptedAt'[q] < lost + ValidationInterval
    BY <1>1, <1>2, <1>4, <2>2, <2>3, IntervalAssumption
  <2>. QED
    BY <1>1, <1>2, <2>1, <2>4 DEF RequestInv
<1>6. ASSUME NEW t \in tickets', t \notin tickets PROVE Honest(t)
  <2>1. t = [shown[q] EXCEPT !.checkedAt = WholeSeconds(askedAt[q])]
    BY <1>6 DEF Accept
  <2>2. /\ t.held = shown[q].held /\ t.owner = shown[q].owner
        /\ t.checkedAt = WholeSeconds(askedAt[q])
    BY <1>2, <2>1 DEF Ticket
  <2>3. WholeSeconds(askedAt[q]) \in Int /\ WholeSeconds(askedAt[q]) <= askedAt[q]
    BY <1>4, SecondsBelow, BoundAssumption, ClockAssumption DEF Instants
  <2>. QED
    BY <1>2, <1>3, <1>4, <2>2, <2>3 DEF Honest
<1>. QED
  BY <1>5, <1>6

LEMMA BelievedIsRecent ==
    ASSUME TypeOK, NEW q \in Requests, RequestInv(q),
           NEW t \in tickets, Honest(t), SendBelieved(q, t)
    PROVE  RequestInv(q)'
<1>1. /\ pc'[q] = "accepted" /\ shown'[q] = t /\ acceptedAt'[q] = clock
      /\ clock' = clock /\ stamp' = stamp /\ enabled' = enabled /\ lostAt' = lostAt
      /\ t.kind = "cookie" /\ t.checkedAt # Unchecked
      /\ clock - t.checkedAt < ValidationInterval
  BY DEF SendBelieved, TypeOK, accountVars, Believed
<1>2. t \in Ticket
  BY DEF TypeOK
<1>3. LostAt(t.owner, t.held) = lostAt[t.owner][t.held]
  BY <1>2, HeldIsReadable
<1>4. /\ t.checkedAt \in Int /\ clock \in Int /\ lostAt[t.owner][t.held] \in Int
      /\ ValidationInterval \in Int
  <2>1. t.owner \in Accounts /\ t.held \in Stamps /\ t.checkedAt \in Instants
    BY <1>1, <1>2 DEF Ticket
  <2>. QED
    BY <2>1, BoundAssumption, ClockAssumption, IntervalAssumption DEF TypeOK, AccountTypeOK, Instants, Never
<1>5. t.checkedAt <= lostAt[t.owner][t.held]
  BY <1>1 DEF Honest
<1>6. LostAt(shown[q].owner, shown[q].held)' = lostAt[t.owner][t.held]
  BY <1>1, <1>3 DEF LostAt
<1>7. Honest(shown[q])'
  BY <1>1 DEF Honest
<1>8. /\ acceptedAt'[q] <= clock'
      /\ acceptedAt'[q] < LostAt(shown[q].owner, shown[q].held)' + ValidationInterval
      /\ shown'[q].kind # "bearer"
  BY <1>1, <1>4, <1>5, <1>6
<1>. QED
  BY <1>1, <1>2, <1>7, <1>8 DEF RequestInv

LEMMA Overs ==
    ASSUME TypeOK, NEW q \in Requests, Over(q)
    PROVE  RequestInv(q)'
BY DEF Over, TypeOK, RequestInv

LEMMA RequestMoves ==
    ASSUME TypeOK, SessionInv, NEW q \in Requests, RequestStep(q)
    PROVE  /\ RequestInv(q)'
           /\ \A t \in tickets' : t \in tickets \/ Honest(t)
<1>i. RequestInv(q) /\ \A t \in tickets : Honest(t)
  BY DEF SessionInv
<1>1. ASSUME NEW a \in Accounts, NEW k \in Kinds, SignInReads(q, a, k)
      PROVE  RequestInv(q)' /\ tickets' = tickets
  <2>. DEFINE t == [kind |-> k, owner |-> a, held |-> stamp[a], checkedAt |-> Unchecked]
  <2>1. /\ pc'[q] = "signing" /\ shown'[q] = t /\ verdict'[q] = "none"
        /\ stamp' = stamp /\ clock' = clock /\ lostAt' = lostAt /\ tickets' = tickets
    BY <1>1, <1>i DEF SignInReads, TypeOK, accountVars, RequestInv
  <2>2. stamp[a] \in Stamps /\ stamp[a] <= stamp[a]
    BY DEF TypeOK, AccountTypeOK, Stamps
  <2>3. t \in Ticket /\ t.held = stamp[a] /\ t.owner = a /\ t.checkedAt = Unchecked
    BY <2>2 DEF Ticket, TypeOK
  <2>. HIDE DEF t
  <2>4. Honest(shown[q])'
    BY <2>1, <2>2, <2>3 DEF Honest
  <2>. QED
    BY <2>1, <2>3, <2>4 DEF RequestInv
<1>2. CASE SignInIssues(q)
  <2>1. shown[q] \in Ticket /\ Honest(shown[q])
    BY <1>2, <1>i DEF SignInIssues, RequestInv
  <2>. QED
    BY <1>2, <2>1, Overs DEF SignInIssues
<1>3. ASSUME NEW t \in tickets, SendBelieved(q, t)
      PROVE  RequestInv(q)' /\ tickets' = tickets
  BY <1>3, <1>i, BelievedIsRecent DEF SendBelieved
<1>4. ASSUME NEW t \in tickets, Send(q, t)
      PROVE  RequestInv(q)' /\ tickets' = tickets
  <2>1. /\ pc'[q] = "asking" /\ shown'[q] = t /\ verdict'[q] = "none"
        /\ askedAt'[q] = clock /\ clock' = clock /\ stamp' = stamp
        /\ lostAt' = lostAt /\ tickets' = tickets
    BY <1>4, <1>i DEF Send, TypeOK, accountVars, RequestInv
  <2>2. t \in Ticket /\ Honest(t) /\ clock <= clock
    BY <1>i, BoundAssumption, ClockAssumption DEF TypeOK, AccountTypeOK, Instants
  <2>3. Honest(shown[q])'
    BY <2>1, <2>2 DEF Honest
  <2>. QED
    BY <2>1, <2>2, <2>3 DEF RequestInv
<1>5. CASE ReadPrincipal(q)
  <2>1. /\ pc[q] = "asking" /\ pc'[q] = "asking" /\ shown'[q] = shown[q]
        /\ verdict'[q] = IF Valid(shown[q].owner, shown[q].held) THEN "valid" ELSE "revoked"
        /\ askedAt'[q] = askedAt[q] /\ clock' = clock /\ stamp' = stamp
        /\ enabled' = enabled /\ lostAt' = lostAt /\ tickets' = tickets
    BY <1>5 DEF ReadPrincipal, TypeOK, accountVars
  <2>2. shown[q] \in Ticket /\ Honest(shown[q]) /\ askedAt[q] <= clock
    BY <2>1, <1>i DEF RequestInv
  <2>3. Honest(shown[q])'
    BY <2>1, <2>2 DEF Honest
  <2>4. CASE Valid(shown[q].owner, shown[q].held)
    <3>1. shown[q].owner \in Accounts /\ shown[q].held \in Stamps
      BY <2>2 DEF Ticket
    <3>2. stamp[shown[q].owner] \in Int
      BY <3>1 DEF TypeOK, AccountTypeOK, Stamps
    <3>3. lostAt[shown[q].owner][shown[q].held] = Never
      BY <2>4, <3>1, <3>2 DEF Valid, SessionInv, LossesRecorded
    <3>4. LostAt(shown[q].owner, shown[q].held)' = Never
      BY <2>1, <2>2, <3>3, HeldIsReadable DEF LostAt, Never
    <3>5. askedAt[q] <= Never
      BY BoundAssumption, ClockAssumption DEF TypeOK, Instants, Never
    <3>6. verdict'[q] = "valid"
      BY <2>1, <2>4
    <3>. QED
      BY <2>1, <2>2, <2>3, <3>4, <3>5, <3>6 DEF RequestInv
  <2>5. CASE ~Valid(shown[q].owner, shown[q].held)
    <3>1. verdict'[q] = "revoked"
      BY <2>1, <2>5
    <3>2. ~Valid(shown[q].owner, shown[q].held)'
      BY <2>1, <2>5 DEF Valid
    <3>. QED
      BY <2>1, <2>2, <2>3, <3>1, <3>2 DEF RequestInv
  <2>. QED
    BY <2>1, <2>4, <2>5
<1>6. CASE ReadFails(q)
  BY <1>6, Overs DEF ReadFails
<1>7. CASE Accept(q)
  BY <1>7, <1>i, AcceptHonest
<1>8. CASE Reject(q)
  <2>1. /\ pc[q] = "asking" /\ verdict[q] = "revoked"
        /\ pc'[q] = "rejected" /\ shown'[q] = shown[q] /\ verdict'[q] = "revoked"
        /\ clock' = clock /\ stamp' = stamp /\ enabled' = enabled
        /\ lostAt' = lostAt /\ tickets' = tickets
    BY <1>8 DEF Reject, TypeOK, accountVars
  <2>2. /\ shown[q] \in Ticket /\ Honest(shown[q])
        /\ ~Valid(shown[q].owner, shown[q].held)
    BY <2>1, <1>i DEF RequestInv
  <2>3. Honest(shown[q])' /\ ~Valid(shown[q].owner, shown[q].held)'
    BY <2>1, <2>2 DEF Honest, Valid
  <2>. QED
    BY <2>1, <2>2, <2>3 DEF RequestInv
<1>9. CASE RevokeAll(q)
  BY <1>9, Overs DEF RevokeAll
<1>10. CASE Answer(q)
  BY <1>10, Overs DEF Answer
<1>. QED
  BY <1>1, <1>2, <1>3, <1>4, <1>5, <1>6, <1>7, <1>8, <1>9, <1>10 DEF RequestStep

\* What every step does to the accounts.
LEMMA AccountsStep ==
    ASSUME TypeOK, SessionInv, [Next]_vars
    PROVE  /\ \/ Tick
              \/ \E a \in Accounts : Disable(a) \/ Replace(a)
              \/ UNCHANGED accountVars
           /\ clock <= clock'
<1>1. clock \in Int
  BY BoundAssumption, ClockAssumption DEF TypeOK, AccountTypeOK, Instants
<1>2. ASSUME NEW q \in Requests, RequestStep(q)
      PROVE  (\E a \in Accounts : Replace(a)) \/ UNCHANGED accountVars
  <2>1. CASE RevokeAll(q)
    <3>1. shown[q].owner \in Accounts
      BY <2>1 DEF RevokeAll, SessionInv, RequestInv, Ticket
    <3>. QED
      BY <2>1, <3>1 DEF RevokeAll
  <2>2. CASE ~RevokeAll(q)
    BY <1>2, <2>2 DEF RequestStep, SignInReads, SignInIssues, SendBelieved, Send,
                      ReadPrincipal, ReadFails, Accept, Reject, Answer
  <2>. QED
    BY <2>1, <2>2
<1>3. \/ Tick
      \/ \E a \in Accounts : Disable(a) \/ Replace(a)
      \/ UNCHANGED accountVars
  BY <1>2 DEF Next, vars
<1>4. clock <= clock'
  BY <1>1, <1>3 DEF Tick, Disable, Replace, accountVars
<1>. QED
  BY <1>3, <1>4

LEMMA NextInv == TypeOK /\ TypeOK' /\ SessionInv /\ [Next]_vars => SessionInv'
<1>. SUFFICES ASSUME TypeOK, TypeOK', SessionInv, [Next]_vars PROVE SessionInv'
  OBVIOUS
<1>1. /\ \/ Tick
         \/ \E a \in Accounts : Disable(a) \/ Replace(a)
         \/ UNCHANGED accountVars
      /\ clock <= clock'
  BY AccountsStep
<1>2. LossesRecorded'
  BY <1>1, LossesStep DEF SessionInv, TypeOK
<1>3. \A b \in Accounts, s \in Stamps : Worn(b, s)
  <2>1. AccountTypeOK /\ LossesRecorded
    BY DEF TypeOK, SessionInv
  <2>2. \/ Tick
        \/ \E a \in Accounts : Disable(a) \/ Replace(a)
        \/ UNCHANGED <<stamp, enabled, lostAt>>
    BY <1>1 DEF accountVars
  <2>. QED
    BY <2>1, <2>2, StampsWear
<1>4. ASSUME NEW t \in Ticket, Honest(t) PROVE Honest(t)'
  <2>1. Worn(t.owner, t.held)
    BY <1>3 DEF Ticket
  <2>2. LossesRecorded
    BY DEF SessionInv
  <2>. QED
    BY <1>1, <1>4, <2>1, <2>2, StaysHonest DEF Honest
<1>5. ASSUME NEW q \in Requests, RequestInv(q),
             pc'[q] = pc[q], shown'[q] = shown[q], askedAt'[q] = askedAt[q],
             verdict'[q] = verdict[q], acceptedAt'[q] = acceptedAt[q]
      PROVE  RequestInv(q)'
  <2>1. LossesRecorded
    BY DEF SessionInv
  <2>. QED
    BY <1>1, <1>3, <1>5, <2>1, RequestRests
<1>6. ASSUME NEW q \in Requests, RequestStep(q)
      PROVE  SessionInv'
  <2>1. \A t \in tickets' : Honest(t)'
    <3>1. tickets \subseteq Ticket /\ tickets' \subseteq Ticket
      BY DEF TypeOK
    <3>2. \A t \in tickets : Honest(t)
      BY DEF SessionInv
    <3>3. \A t \in tickets' : t \in tickets \/ Honest(t)
      BY <1>6, RequestMoves
    <3>. QED
      BY <1>4, <3>1, <3>2, <3>3
  <2>2. RequestInv(q)'
    BY <1>6, RequestMoves
  <2>3. ASSUME NEW p \in Requests, p # q PROVE RequestInv(p)'
    <3>1. RequestInv(p)
      BY DEF SessionInv
    <3>2. /\ pc'[p] = pc[p] /\ shown'[p] = shown[p] /\ askedAt'[p] = askedAt[p]
          /\ verdict'[p] = verdict[p] /\ acceptedAt'[p] = acceptedAt[p]
      BY <1>6, <2>3 DEF RequestStep, SignInReads, SignInIssues, SendBelieved, Send,
         ReadPrincipal, ReadFails, Accept, Reject, RevokeAll, Answer, Over, TypeOK
    <3>. QED
      BY <1>5, <3>1, <3>2
  <2>. QED
    BY <1>2, <2>1, <2>2, <2>3 DEF SessionInv
<1>7. CASE UNCHANGED <<tickets, requestVars>>
  <2>1. \A t \in tickets' : Honest(t)'
    BY <1>4, <1>7 DEF SessionInv, TypeOK
  <2>2. \A q \in Requests : RequestInv(q)'
    BY <1>5, <1>7 DEF SessionInv, requestVars
  <2>. QED
    BY <1>2, <2>1, <2>2 DEF SessionInv
<1>. QED
  BY <1>6, <1>7 DEF Next, Elsewhere, vars

LEMMA InitInv == Init => SessionInv
<1>. SUFFICES ASSUME Init PROVE SessionInv
  OBVIOUS
<1>1. LossesRecorded
  BY BoundAssumption, ClockAssumption DEF Init, AccountInit, LossesRecorded, Stamps, Never
<1>. QED
  BY <1>1 DEF Init, SessionInv, RequestInv

LEMMA Inductive == Spec => [](TypeOK /\ SessionInv)
BY InitType, InitInv, NextType, NextInv, PTL DEF Spec

-----------------------------------------------------------------------------
(* The theorems. *)

\* The accounts, the tickets and the requests stay within their types.
THEOREM SessionTypeCorrect == Spec => []TypeOK
BY Inductive, PTL

\* Whatever cookies and tokens were handed out, and in whatever order requests,
\* renewals and rotations follow each other, no request is authenticated a full
\* ValidationInterval after its stamp lost its validity (ValidatePrincipal with
\* RequiresValidation), and none with a bearer token after it.
THEOREM AcceptedInTime == Spec => []AcceptedWithinInterval
<1>1. SessionInv => AcceptedWithinInterval
  BY DEF SessionInv, RequestInv, AcceptedWithinInterval
<1>. QED
  BY <1>1, Inductive, PTL

\* A request that ValidatePrincipal rejects belongs to a principal that really
\* lost its validity, and that is still so when the request is answered.
THEOREM RejectedRevoked == Spec => []RejectedIsRevoked
<1>1. SessionInv => RejectedIsRevoked
  BY DEF SessionInv, RequestInv, RejectedIsRevoked
<1>. QED
  BY <1>1, Inductive, PTL
=============================================================================
