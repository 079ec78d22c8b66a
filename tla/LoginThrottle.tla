--------------------------- MODULE LoginThrottle ---------------------------
(***************************************************************************)
(* Login throttling that all instances of the API share through one table: *)
(* LoginAttemptLimiter around LoginThrottleStore, as LoginController and   *)
(* AuthController use them.  An attempt to sign in                         *)
(*   - reads the clock and reserves a permit of its source, a fixed window *)
(*     of SourcePermitLimit attempts, and reads whether its account/source *)
(*     pair is blocked, in one transaction; every CleanupEveryOperations-th*)
(*     of them then removes buckets nobody has touched for StateRetention; *)
(*   - if allowed, has its password verified, and                          *)
(*   - reads the clock again and records a failure, or deletes the pair's  *)
(*     bucket, in a transaction of its own.                                *)
(* Each transaction locks the row it writes, but the instant it works with *)
(* was read before it waited for the lock, so that instants arrive out of  *)
(* order.  The store may fail in each of them: a check then refuses the    *)
(* attempt, the others go unrecorded.                                      *)
(***************************************************************************)
EXTENDS Integers, FiniteSets, Clock

CONSTANTS
    Attempts,       \* attempts to sign in under way at once
    Pairs,          \* account/source pairs
    Sources,        \* client addresses or networks
    SourceOf,       \* the source of each pair
    SourcePermitLimit, SourceWindow,
    FailedAttemptsBeforeBackoff, InitialBackoff, MaximumBackoff,
    StateRetention, CleanupBatchSize, CleanupEveryOperations,
    NoBucket        \* no row

\* LoginSecurityOptions.Validate.
ASSUME OptionsAssumption ==
    /\ {SourcePermitLimit, SourceWindow, FailedAttemptsBeforeBackoff, InitialBackoff,
        CleanupBatchSize, CleanupEveryOperations} \subseteq Nat \ {0}
    /\ MaximumBackoff \in Nat /\ MaximumBackoff >= InitialBackoff
    /\ StateRetention \in Nat
    /\ StateRetention >= MaximumBackoff /\ StateRetention >= SourceWindow

ASSUME SourceAssumption == SourceOf \in [Pairs -> Sources]

VARIABLES
    source,       \* login_throttle_buckets, bucket_kind = 'source'
    account,      \* login_throttle_buckets, bucket_kind = 'account'
    operations,   \* _operationCount, modulo CleanupEveryOperations (one instance's)
    stage,        \* how far an attempt has come
    pair,         \* whom it wants to sign in, and from where
    now,          \* the instant its current transaction works with
    allowed,      \* the decision CheckAsync will return
    stale,        \* the rows its cleanup has selected
    granted,      \* history: permits of the source's window given out
    failures      \* history: failures counted against the pair's bucket

attemptVars == <<stage, pair, now, allowed, stale>>
history == <<granted, failures>>
throttleVars == <<clock, source, account, operations, attemptVars, history>>

MaxLevel == 31   \* the widest backoff_level the table's check allows

\* A row of each kind; blocked_until = NULL, which no instant is before, is 0.
SourceBucket == [startedAt : Instants, count : Nat, touchedAt : Instants]
AccountBucket ==
    [startedAt : Instants, failed : Nat, level : 0..MaxLevel, until : Nat,
     touchedAt : Instants]

ASSUME BucketAssumption == NoBucket \notin AccountBucket

Stages == {"idle", "checking", "cleaning", "deleting", "checked", "verifying",
          "failed", "recording", "succeeded"}

ThrottleInit ==
    /\ clock = 0
    /\ source = [s \in Sources |-> NoBucket]
    /\ account = [p \in Pairs |-> NoBucket]
    /\ operations = 0
    /\ stage = [i \in Attempts |-> "idle"]
    /\ pair \in [Attempts -> Pairs]
    /\ now = [i \in Attempts |-> 0]
    /\ allowed = [i \in Attempts |-> FALSE]
    /\ stale = [i \in Attempts |-> {}]
    /\ granted = [s \in Sources |-> 0]
    /\ failures = [p \in Pairs |-> 0]

MoveTo(i, step) == stage' = [stage EXCEPT ![i] = step]
Lesser(a, b) == IF a <= b THEN a ELSE b

-----------------------------------------------------------------------------
(* CheckAsync. *)

\* A request to sign in comes in; the clock is read.
Arrive(i, p) ==
    /\ stage[i] = "idle"
    /\ pair' = [pair EXCEPT ![i] = p]
    /\ now' = [now EXCEPT ![i] = clock]
    /\ MoveTo(i, "checking")
    /\ UNCHANGED <<clock, source, account, operations, allowed, stale, history>>

\* The window in the bucket is over at the instant t.
WindowOver(bucket, t) == bucket.startedAt <= t - SourceWindow

\* Mutant: the count stops at the limit, where nothing exceeds it.
PermittedToLimit(bucket, t) ==
    IF bucket = NoBucket \/ WindowOver(bucket, t)
    THEN [startedAt |-> t, count |-> 1, touchedAt |-> t]
    ELSE [bucket EXCEPT !.count = Lesser(@ + 1, SourcePermitLimit), !.touchedAt = t]

\* What the upsert writes: one permit more of the window, or a new window.
Permitted(bucket, t) ==
    IF bucket = NoBucket \/ WindowOver(bucket, t)
    THEN [startedAt |-> t, count |-> 1, touchedAt |-> t]
    ELSE [bucket EXCEPT !.count = Lesser(@ + 1, SourcePermitLimit + 1), !.touchedAt = t]

\* CreateDecision: either may refuse.
SourceBlocked(bucket, t) ==
    bucket.count > SourcePermitLimit /\ bucket.startedAt + SourceWindow > t
Blocked(bucket, t) == bucket # NoBucket /\ bucket.until > t

\* ReserveAsync commits, and the limiter decides; every so often it cleans up.
Reserve(i) ==
    LET s == SourceOf[pair[i]]
        bucket == Permitted(source[s], now[i])
        fine == ~SourceBlocked(bucket, now[i]) /\ ~Blocked(account[pair[i]], now[i])
        fresh == source[s] = NoBucket \/ WindowOver(source[s], now[i])
    IN
    /\ stage[i] = "checking"
    /\ source' = [source EXCEPT ![s] = bucket]
    /\ allowed' = [allowed EXCEPT ![i] = fine]
    /\ granted' = [granted EXCEPT ![s] =
           (IF fresh THEN 0 ELSE @) + (IF fine THEN 1 ELSE 0)]
    /\ operations' = (operations + 1) % CleanupEveryOperations
    /\ MoveTo(i, IF operations' = 0 THEN "cleaning" ELSE "checked")
    /\ UNCHANGED <<clock, account, pair, now, stale, failures>>

\* The store failed before the commit: the attempt is refused.
ReserveFails(i) ==
    /\ stage[i] = "checking"
    /\ allowed' = [allowed EXCEPT ![i] = FALSE]
    /\ MoveTo(i, "checked")
    /\ UNCHANGED <<clock, source, account, operations, pair, now, stale, history>>

\* The answer to the commit was lost: the permit is used, the attempt refused.
ReserveLost(i) ==
    LET s == SourceOf[pair[i]] IN
    /\ stage[i] = "checking"
    /\ source' = [source EXCEPT ![s] = Permitted(@, now[i])]
    /\ granted' = [granted EXCEPT ![s] =
           IF source[s] = NoBucket \/ WindowOver(source[s], now[i]) THEN 0 ELSE @]
    /\ allowed' = [allowed EXCEPT ![i] = FALSE]
    /\ MoveTo(i, "checked")
    /\ UNCHANGED <<clock, account, operations, pair, now, stale, failures>>

-----------------------------------------------------------------------------
(* CleanupAsync: the rows are selected on one snapshot, and what is deleted is *)
(* whatever is found under their keys once a row's lock is free.              *)

Keys == ({"source"} \X Sources) \union ({"account"} \X Pairs)
Row(k) == IF k[1] = "source" THEN source[k[2]] ELSE account[k[2]]
IsStale(k, t) == Row(k) # NoBucket /\ Row(k).touchedAt < t - StateRetention

\* ORDER BY last_touched_at LIMIT @BatchSize.
OldestStale(t) ==
    LET old == {k \in Keys : IsStale(k, t)} IN
    {b \in SUBSET old :
        /\ Cardinality(b) = Lesser(CleanupBatchSize, Cardinality(old))
        /\ \A j \in b, k \in old \ b : Row(j).touchedAt <= Row(k).touchedAt}

CleanupSelect(i) ==
    /\ stage[i] = "cleaning"
    /\ \E batch \in OldestStale(now[i]) : stale' = [stale EXCEPT ![i] = batch]
    /\ MoveTo(i, "deleting")
    /\ UNCHANGED <<clock, source, account, operations, pair, now, allowed, history>>

CleanupDelete(i) ==
    /\ stage[i] = "deleting"
    /\ source' = [s \in Sources |->
           IF <<"source", s>> \in stale[i] THEN NoBucket ELSE source[s]]
    /\ account' = [p \in Pairs |->
           IF <<"account", p>> \in stale[i] THEN NoBucket ELSE account[p]]
    /\ granted' = [s \in Sources |-> IF <<"source", s>> \in stale[i] THEN 0 ELSE granted[s]]
    /\ failures' = [p \in Pairs |-> IF <<"account", p>> \in stale[i] THEN 0 ELSE failures[p]]
    /\ stale' = [stale EXCEPT ![i] = {}]
    /\ MoveTo(i, "checked")
    /\ UNCHANGED <<clock, operations, pair, now, allowed>>

\* It failed: the decision stands.
CleanupFails(i) ==
    /\ stage[i] \in {"cleaning", "deleting"}
    /\ stale' = [stale EXCEPT ![i] = {}]
    /\ MoveTo(i, "checked")
    /\ UNCHANGED <<clock, source, account, operations, pair, now, allowed, history>>

-----------------------------------------------------------------------------
(* LoginController.Index, AuthController.GetToken. *)

\* 429 Too Many Requests.
Throttle(i) ==
    /\ stage[i] = "checked"
    /\ ~allowed[i]
    /\ MoveTo(i, "idle")
    /\ UNCHANGED <<clock, source, account, operations, pair, now, allowed, stale, history>>

\* The password is verified; only then does the attempt succeed or fail.
Verify(i) ==
    /\ stage[i] = "checked"
    /\ allowed[i]
    /\ \E outcome \in {"failed", "succeeded"} : MoveTo(i, outcome)
    /\ UNCHANGED <<clock, source, account, operations, pair, now, allowed, stale, history>>

\* ResetAsync deletes the pair's bucket.
Reset(i) ==
    /\ stage[i] = "succeeded"
    /\ account' = [account EXCEPT ![pair[i]] = NoBucket]
    /\ failures' = [failures EXCEPT ![pair[i]] = 0]
    /\ MoveTo(i, "idle")
    /\ UNCHANGED <<clock, source, operations, pair, now, allowed, stale, granted>>

\* RecordFailureAsync reads the clock.
Fail(i) ==
    /\ stage[i] = "failed"
    /\ now' = [now EXCEPT ![i] = clock]
    /\ MoveTo(i, "recording")
    /\ UNCHANGED <<clock, source, account, operations, pair, allowed, stale, history>>

\* Mutant: the duration passes the maximum.
DoubledUncapped(b) == IF b >= MaximumBackoff THEN b ELSE 2 * b

\* CalculateBackoff: doubled at every level until the maximum is reached.
Doubled(b) == IF b >= MaximumBackoff THEN b
              ELSE IF 2 * b > MaximumBackoff THEN MaximumBackoff ELSE 2 * b

CalculateBackoff[level \in 1..MaxLevel] ==
    IF level = 1 THEN InitialBackoff ELSE Doubled(CalculateBackoff[level - 1])

\* The upsert: a failure counts unless the pair is blocked at the instant t.
Counted(bucket, t) ==
    IF bucket = NoBucket
    THEN [startedAt |-> t, failed |-> 1, level |-> 0, until |-> 0, touchedAt |-> t]
    ELSE [bucket EXCEPT !.failed = IF Blocked(bucket, t) THEN @ ELSE @ + 1,
                        !.touchedAt = t]

\* Mutant: a block does not start the count again.
BackedOffUncleared(bucket, t) ==
    LET level == Lesser(MaxLevel, bucket.level + 1) IN
    [bucket EXCEPT !.level = level, !.until = t + CalculateBackoff[level],
                   !.touchedAt = t]

\* The threshold is reached: a block, one level up.
BackedOff(bucket, t) ==
    LET level == Lesser(MaxLevel, bucket.level + 1) IN
    [bucket EXCEPT !.failed = 0, !.level = level,
                   !.until = t + CalculateBackoff[level], !.touchedAt = t]

Recorded(bucket, t) ==
    LET counted == Counted(bucket, t) IN
    IF Blocked(counted, t) \/ counted.failed < FailedAttemptsBeforeBackoff
    THEN counted
    ELSE BackedOff(counted, t)

\* ck_login_throttle_blocked_timestamp.
Storable(bucket) == bucket.until = 0 \/ bucket.until >= bucket.startedAt

RecordFailure(i) ==
    LET p == pair[i]
        bucket == Recorded(account[p], now[i])
    IN
    /\ stage[i] = "recording"
    /\ Storable(bucket)
    /\ account' = [account EXCEPT ![p] = bucket]
    /\ failures' = [failures EXCEPT ![p] = IF Blocked(account[p], now[i]) THEN @ ELSE @ + 1]
    /\ MoveTo(i, "idle")
    /\ UNCHANGED <<clock, source, operations, pair, now, allowed, stale, granted>>

\* The store failed, or its check refused the row: the limiter swallows it.
StoreFails(i) ==
    /\ stage[i] \in {"recording", "succeeded"}
    /\ MoveTo(i, "idle")
    /\ UNCHANGED <<clock, source, account, operations, pair, now, allowed, stale, history>>

TimePasses ==
    /\ clock < MaxClock
    /\ clock' = clock + 1
    /\ UNCHANGED <<source, account, operations, attemptVars, history>>

Step(i) ==
    \/ \E p \in Pairs : Arrive(i, p)
    \/ Reserve(i) \/ ReserveFails(i) \/ ReserveLost(i)
    \/ CleanupSelect(i) \/ CleanupDelete(i) \/ CleanupFails(i)
    \/ Throttle(i) \/ Verify(i)
    \/ Reset(i) \/ Fail(i) \/ RecordFailure(i) \/ StoreFails(i)

ThrottleNext == TimePasses \/ \E i \in Attempts : Step(i)

ThrottleSpec == ThrottleInit /\ [][ThrottleNext]_throttleVars

-----------------------------------------------------------------------------
(* Properties. *)

ThrottleTypeOK ==
    /\ clock \in Instants
    /\ source \in [Sources -> SourceBucket \union {NoBucket}]
    /\ account \in [Pairs -> AccountBucket \union {NoBucket}]
    /\ operations \in 0..(CleanupEveryOperations - 1)
    /\ stage \in [Attempts -> Stages]
    /\ pair \in [Attempts -> Pairs]
    /\ now \in [Attempts -> Instants]
    /\ allowed \in [Attempts -> BOOLEAN]
    /\ stale \in [Attempts -> SUBSET Keys]
    /\ granted \in [Sources -> Nat]
    /\ failures \in [Pairs -> Nat]

\* No window of a source lets more attempts through than it has permits, also
\* when attempts of several instances reserve with instants that are out of order.
\* A window ends when its row does: one the cleanup removes is forgotten.
WindowPermitsKept == \A s \in Sources : granted[s] <= SourcePermitLimit

\* The bucket of a pair has counted every failure recorded against it: as many
\* are outstanding as since the last block, and there was a block for every
\* FailedAttemptsBeforeBackoff of them, however the records overtake each other.
EveryFailureCounted ==
    \A p \in Pairs :
        account[p] # NoBucket =>
            /\ account[p].failed = failures[p] % FailedAttemptsBeforeBackoff
            /\ account[p].level =
                   Lesser(MaxLevel, failures[p] \div FailedAttemptsBeforeBackoff)

\* A block lasts as long as its level says: the initial backoff doubled at every
\* level before, but the maximum at most, from the instant of the failure.
BlockLastsByLevel ==
    [][\A i \in Attempts :
           LET old == account[pair[i]]
               new == account'[pair[i]]
           IN  stage[i] = "recording" /\ stage'[i] = "idle" /\ new # old =>
                   \/ old = NoBucket /\ new.level = 0
                   \/ new.until = (IF old = NoBucket THEN 0 ELSE old.until)
                   \/ new.until = now[i] +
                          Lesser(InitialBackoff * 2 ^ (new.level - 1), MaximumBackoff)]_throttleVars
=============================================================================
