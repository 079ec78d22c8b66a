------------------------ MODULE MessagingClientProofs ------------------------
(***************************************************************************)
(* Proofs about MessagingClient, for any conversations, texts, page size   *)
(* and number of pages, and any number of gestures and faults.  The        *)
(* invariant is a conjunction of parts that speak of different variables,  *)
(* and an action disturbs few of them; the last part, what the store may   *)
(* miss, needs what the others say of the store and of fetches under way.  *)
(***************************************************************************)
EXTENDS MessagingClient, TLAPS, SequenceTheorems

\* The store: `last` is its highest number, and no number is made up.
StoreInv ==
    \A c \in Conversations :
        /\ have[c] \subseteq 1..last[c]
        /\ last[c] = 0 \/ last[c] \in have[c]
        /\ last[c] <= Len(log[c])

\* A fetch: what it asks from was on the server when it asked, and so was the
\* event that waits for it.
Founded(f) ==
    /\ f.from <= f.seen
    /\ f.until <= f.seen
    /\ f.seen <= Len(log[f.conv])
    /\ f.kind = "gap" => f.until > 0
    /\ f.kind = "reconcile" => f.until = 0

FetchInv == \A f \in fetches : Founded(f)

\* Sends: the server knows only what was posted, once and where it belongs, and
\* no two identifiers stand for the same text, unless the page forgot one.
SendInv ==
    /\ \A k \in posted : intent[k] # NoIntent
    /\ \A k \in Keys : calls[k] > 0 \/ pending[k] # "none" => k \in posted
    /\ \A c \in Conversations : \A n \in 1..Len(log[c]) :
           log[c][n] # Other => log[c][n] \in posted /\ intent[log[c][n]].conv = c
    /\ \A c \in Conversations : \A m, n \in 1..Len(log[c]) :
           log[c][m] # Other /\ log[c][m] = log[c][n] => m = n
    /\ \A k, l \in Keys : intent[k] # NoIntent /\ intent[k] = intent[l]
                              => k = l \/ k \in lost \/ l \in lost

\* The hub: what a leave on its way will take out of the group is out of the
\* client's books, or was entered there by a join that was too late.
Leaving(c) == \E i \in 1..Len(hub) : hub[i] = <<"leave", c>>

LeaveInv ==
    \A c \in Conversations :
        Leaving(c) => c \notin rejoining /\ (c \in joined => c \in ghosts)

ClientInv == /\ StoreInv /\ FetchInv /\ SendInv /\ LeaveInv
             /\ JoinedIsMember /\ UnsentIsKept /\ HolesAreExplained

Inv == TypeOK /\ ClientInv

USE LogAssumption, PageAssumption

----------------------------------------------------------------------------
(* Types. *)

LEMMA IntentTyped ==
    ASSUME TypeOK, SendInv, NEW k \in posted
    PROVE  /\ k \in Keys /\ intent[k] \in [conv : Conversations, text : Texts]
           /\ intent[k].conv \in Conversations /\ intent[k].text \in Texts
BY DEF TypeOK, SendInv

LEMMA FetchTyped ==
    ASSUME TypeOK, NEW f \in fetches
    PROVE  /\ f \in Fetch /\ f.conv \in Conversations /\ f.from \in Nat /\ f.seen \in Nat
           /\ f.until \in Nat /\ f.page \in Nat /\ f.kind \in {"reconcile", "gap"}
           /\ last[f.conv] \in Nat /\ have[f.conv] \subseteq Nat
           /\ Len(log[f.conv]) \in Nat
BY DEF TypeOK, Fetch

LEMMA LogTyped ==
    ASSUME TypeOK, NEW c \in Conversations
    PROVE  /\ log[c] \in Seq(Keys \union {Other}) /\ Len(log[c]) \in Nat
           /\ last[c] \in Nat /\ have[c] \subseteq Nat /\ skipped[c] \subseteq Nat
BY DEF TypeOK

LEMMA NewFetchTyped ==
    ASSUME TypeOK, NEW c \in Conversations, NEW kind \in {"reconcile", "gap"},
           NEW n \in Nat, NEW until \in Nat
    PROVE  NewFetch(c, kind, n, until) \in Fetch
BY LogTyped DEF NewFetch, Fetch

LEMMA ReconcilesTyped ==
    ASSUME TypeOK, NEW S \in SUBSET Conversations
    PROVE  Reconciles(S) \subseteq Fetch
BY LogTyped, NewFetchTyped DEF Reconciles

LEMMA HubTyped ==
    ASSUME TypeOK
    PROVE  [i \in DOMAIN waiting |-> <<"join", waiting[i]>>] \in Seq(Invocations)
<1>. DEFINE all == [i \in DOMAIN waiting |-> <<"join", waiting[i]>>]
<1>1. waiting \in Seq(Conversations)
  BY DEF TypeOK
<1>2. DOMAIN waiting = 1..Len(waiting) /\ Len(waiting) \in Nat
  BY <1>1
<1>3. \A i \in 1..Len(waiting) : waiting[i] \in Conversations
  BY <1>1
<1>4. \A i \in 1..Len(waiting) : <<"join", waiting[i]>> \in Invocations
  BY <1>3 DEF Invocations
<1>5. all \in [1..Len(waiting) -> Invocations]
  BY <1>2, <1>4
<1>. QED
  BY <1>2, <1>5, SeqDef

UnsentTypes == /\ pending \in [Keys -> {"none", "pending", "failed"}]
               /\ volatile \subseteq Conversations
               /\ full \in BOOLEAN /\ lost \subseteq Keys

LEMMA ClearTyped ==
    ASSUME TypeOK, NEW c \in Conversations, NEW S, Clear(c, S)
    PROVE  UnsentTypes'
BY DEF TypeOK, Clear, UnsentTypes, unsentVars

LEMMA RefusedTyped ==
    ASSUME TypeOK, NEW c \in Conversations, Refused(c)
    PROVE  gestures' \in Nat /\ faults' \in Nat
BY DEF TypeOK, Refused, Fault, NoBudget

LEMMA IngestTyped ==
    ASSUME TypeOK, NEW c \in Conversations, NEW S \in SUBSET Nat, NEW top \in Nat,
           NEW does \in BOOLEAN, Ingest(c, S, top), PassOver(c, does)
    PROVE  /\ have' \in [Conversations -> SUBSET Nat]
           /\ last' \in [Conversations -> Nat]
           /\ UnsentTypes'
           /\ skipped' \in [Conversations -> SUBSET Nat]
<1>1. have' \in [Conversations -> SUBSET Nat]
  BY DEF TypeOK, Ingest, Upsert
<1>2. last' \in [Conversations -> Nat]
  BY DEF TypeOK, Ingest, Upsert, Higher
<1>3. UnsentTypes'
  BY ClearTyped DEF TypeOK, Ingest, UnsentTypes, unsentVars
<1>4. HolesOf(have'[c]) \subseteq Nat
  BY DEF HolesOf
<1>. QED
  BY <1>1, <1>2, <1>3, <1>4 DEF TypeOK, PassOver

LEMMA InitInv == Init => Inv
<1>. SUFFICES ASSUME Init PROVE Inv
  OBVIOUS
<1>1. TypeOK
  BY DEF Init, TypeOK
<1>2. StoreInv
  BY DEF Init, StoreInv
<1>3. FetchInv
  BY DEF Init, FetchInv
<1>4. SendInv
  BY DEF Init, SendInv
<1>5. LeaveInv /\ JoinedIsMember
  BY DEF Init, LeaveInv, JoinedIsMember
<1>6. UnsentIsKept
  BY DEF Init, UnsentIsKept
<1>7. HolesAreExplained
  BY DEF Init, HolesAreExplained, HolesOf
<1>. QED
  BY <1>1, <1>2, <1>3, <1>4, <1>5, <1>6, <1>7 DEF Inv, ClientInv
----------------------------------------------------------------------------
(* Pages and holes. *)

LEMMA PageFacts ==
    ASSUME NEW from \in Nat, NEW length \in Nat, from <= length
    PROVE  /\ PageEnd(from, length) \in Nat
           /\ from <= PageEnd(from, length) /\ PageEnd(from, length) <= length
           /\ PageAfter(from, length) \subseteq 1..PageEnd(from, length)
           /\ PageAfter(from, length) # {} => PageEnd(from, length) \in PageAfter(from, length)
           /\ from # 0 => PageAfter(from, length) = from + 1 .. PageEnd(from, length)
           /\ ~ HasMore(from, length) => PageEnd(from, length) = length
BY DEF PageEnd, PageAfter, HasMore, Lower

\* Numbers that follow one of the set make no hole.
LEMMA RunMakesNoHole ==
    ASSUME NEW H \in SUBSET Nat, NEW from \in H, NEW to \in Nat
    PROVE  HolesOf(H \union (from + 1 .. to)) \subseteq HolesOf(H)
<1>. SUFFICES ASSUME NEW n \in 1..MaxLog, n \notin H, n \notin from + 1 .. to,
                     NEW low \in H \union (from + 1 .. to), low < n,
                     NEW high \in H \union (from + 1 .. to), n < high
              PROVE  n \in HolesOf(H)
  BY DEF HolesOf
<1>1. \E l \in H : l < n
  OBVIOUS
<1>2. \E h \in H : n < h
  OBVIOUS
<1>. QED
  BY <1>1, <1>2 DEF HolesOf

\* Nor does one between two of the set, or right behind one.
LEMMA PointMakesNoHole ==
    ASSUME NEW H \in SUBSET Nat, NEW n \in Nat, NEW low \in H, low <= n,
           NEW high \in H, n <= high + 1
    PROVE  HolesOf(H \union {n}) \subseteq HolesOf(H)
<1>. SUFFICES ASSUME NEW x \in 1..MaxLog, x \notin H, x # n,
                     NEW l \in H \union {n}, l < x,
                     NEW h \in H \union {n}, x < h
              PROVE  x \in HolesOf(H)
  BY DEF HolesOf
<1>1. \E m \in H : m < x
  OBVIOUS
<1>2. \E m \in H : x < m
  OBVIOUS
<1>. QED
  BY <1>1, <1>2 DEF HolesOf

----------------------------------------------------------------------------
(* What an upsert of the numbers S, which are on the server, does to the store. *)
LEMMA UpsertKeeps ==
    ASSUME Inv, NEW c \in Conversations, NEW S, NEW top \in Nat,
           S \subseteq 1..top, top = 0 \/ top \in S \/ top \in have[c],
           top <= Len(log[c]), Upsert(c, S, top), UNCHANGED log
    PROVE  StoreInv'
<1>0. /\ have'[c] = have[c] \union S /\ last'[c] = Higher(last[c], top)
      /\ \A d \in Conversations \ {c} : have'[d] = have[d] /\ last'[d] = last[d]
  BY DEF Inv, TypeOK, Upsert
<1>1. /\ have[c] \subseteq 1..last[c]
      /\ last[c] = 0 \/ last[c] \in have[c]
      /\ last[c] <= Len(log[c]) /\ last[c] \in Nat /\ Len(log[c]) \in Nat
  BY LogTyped DEF Inv, ClientInv, StoreInv
<1>2. /\ have'[c] \subseteq 1..last'[c]
      /\ last'[c] = 0 \/ last'[c] \in have'[c]
      /\ last'[c] <= Len(log[c])
  <2>1. CASE last[c] > top
    <3>1. last'[c] = last[c]
      BY <2>1, <1>0 DEF Higher
    <3>2. S \subseteq 1..last[c]
      BY <2>1, <1>1
    <3>. QED
      BY <3>1, <3>2, <1>0, <1>1
  <2>2. CASE ~ (last[c] > top)
    <3>1. last'[c] = top
      BY <2>2, <1>0 DEF Higher
    <3>2. have[c] \subseteq 1..top
      BY <2>2, <1>1
    <3>3. top = 0 \/ top \in S \/ top \in have[c]
      OBVIOUS
    <3>. QED
      BY <3>1, <3>2, <3>3, <1>0
  <2>. QED
    BY <2>1, <2>2
<1>. QED
  BY <1>0, <1>2 DEF Inv, ClientInv, StoreInv

\* What becomes of the unsent when entries are cleared whose messages are on
\* the server.
LEMMA ClearKeeps ==
    ASSUME Inv, NEW c \in Conversations, NEW S, S \subseteq 1..Len(log[c]),
           Clear(c, Confirmed(c, S)) \/ UNCHANGED unsentVars,
           UNCHANGED <<log, posted, intent>>
    PROVE  /\ UnsentIsKept' /\ UNCHANGED lost
           /\ \A k \in Keys : pending'[k] = "none" \/ pending'[k] = pending[k]
<1>1. /\ UNCHANGED lost
      /\ \A k \in Keys : pending'[k] = pending[k]
                          \/ (k \in Confirmed(c, S) /\ pending'[k] = "none")
  BY DEF Clear, unsentVars
<1>2. ASSUME NEW k \in Confirmed(c, S) PROVE Sent(k)
  BY <1>2 DEF Confirmed, Sent
<1>3. \A k \in Keys : Sent(k)' = Sent(k)
  BY DEF Sent
<1>4. UnsentIsKept'
  BY <1>1, <1>2, <1>3 DEF Inv, ClientInv, UnsentIsKept
<1>. QED
  BY <1>1, <1>4

LEMMA IngestKeeps ==
    ASSUME Inv, NEW c \in Conversations, NEW S, NEW top \in Nat,
           S \subseteq 1..top, top = 0 \/ top \in S \/ top \in have[c],
           top <= Len(log[c]),
           Ingest(c, S, top), UNCHANGED <<log, posted, intent>>
    PROVE  /\ StoreInv' /\ UnsentIsKept' /\ UNCHANGED lost
           /\ \A k \in Keys : pending'[k] = "none" \/ pending'[k] = pending[k]
<1>1. StoreInv'
  BY UpsertKeeps DEF Ingest
<1>2. S \subseteq 1..Len(log[c])
  BY LogTyped DEF Inv
<1>3. Clear(c, Confirmed(c, S)) \/ UNCHANGED unsentVars
  BY DEF Ingest
<1>. QED
  BY <1>1, <1>2, <1>3, ClearKeeps

\* What is passed over is remembered, and what was is not forgotten.
LEMMA PassedOver ==
    ASSUME Inv, NEW c \in Conversations, NEW does \in BOOLEAN, PassOver(c, does),
           \A d \in Conversations \ {c} : have'[d] = have[d],
           ~ does => HolesOf(have'[c]) \subseteq HolesOf(have[c])
    PROVE  HolesAreExplained'
<1>1. \A d \in Conversations : skipped[d] \subseteq skipped'[d]
  BY DEF PassOver, Inv, TypeOK
<1>2. \A d \in Conversations : HolesOf(have[d]) \subseteq skipped[d]
  BY DEF Inv, ClientInv, HolesAreExplained
<1>3. HolesOf(have'[c]) \subseteq skipped'[c]
  <2>1. CASE does
    BY <2>1 DEF PassOver, Inv, TypeOK
  <2>2. CASE ~ does
    BY <2>2, <1>1, <1>2
  <2>. QED
    BY <2>1, <2>2
<1>4. \A d \in Conversations : HolesOf(have'[d]) \subseteq skipped'[d]
  BY <1>1, <1>2, <1>3
<1>. QED
  BY <1>4 DEF HolesAreExplained, HolesOf
----------------------------------------------------------------------------
(* What leaves the log alone. *)

LEMMA FetchesStayFounded ==
    ASSUME Inv, UNCHANGED log,
           NEW F \in SUBSET Fetch, fetches' \subseteq fetches \union F,
           \A f \in F : Founded(f)'
    PROVE  FetchInv'
<1>1. \A f \in fetches : f.conv \in Conversations /\ Founded(f)
  BY FetchTyped DEF Inv, ClientInv, FetchInv
<1>2. \A f \in fetches : Founded(f)'
  BY <1>1 DEF Founded
<1>. QED
  BY <1>2 DEF FetchInv

LEMMA FetchesShrink ==
    ASSUME Inv, UNCHANGED log, fetches' \subseteq fetches
    PROVE  FetchInv'
<1>. DEFINE F == {}
<1>1. F \in SUBSET Fetch /\ fetches' \subseteq fetches \union F /\ \A f \in F : Founded(f)'
  OBVIOUS
<1>. HIDE DEF F
<1>. QED
  BY <1>1, FetchesStayFounded

LEMMA NewFetchFounded ==
    ASSUME Inv, UNCHANGED log, NEW c \in Conversations,
           NEW kind \in {"reconcile", "gap"}, NEW until \in Nat, until <= Len(log[c]),
           kind = "gap" <=> until > 0, NEW f, f = NewFetch(c, kind, last[c], until)
    PROVE  f \in Fetch /\ Founded(f)'
<1>1. /\ last[c] \in Nat /\ Len(log[c]) \in Nat
      /\ last[c] = 0 \/ last[c] \in have[c]
      /\ last[c] <= Len(log[c])
  BY LogTyped DEF Inv, ClientInv, StoreInv
<1>2. f \in Fetch
  BY <1>1, NewFetchTyped DEF Inv
<1>. QED
  BY <1>1, <1>2 DEF NewFetch, Founded

LEMMA SendsStay ==
    ASSUME Inv, UNCHANGED <<log, posted, intent>>, lost \subseteq lost',
           \A k \in Keys : calls'[k] > 0 \/ pending'[k] # "none"
                            => calls[k] > 0 \/ pending[k] # "none"
    PROVE  SendInv'
BY DEF Inv, ClientInv, SendInv

LEMMA HubStays ==
    ASSUME Inv, UNCHANGED hubVars
    PROVE  LeaveInv' /\ JoinedIsMember'
BY DEF Inv, ClientInv, LeaveInv, Leaving, JoinedIsMember, hubVars

LEMMA StoreStays ==
    ASSUME Inv, UNCHANGED <<log, storeVars, intent, pending, lost>>
    PROVE  StoreInv' /\ UnsentIsKept' /\ HolesAreExplained'
<1>1. StoreInv'
  BY DEF Inv, ClientInv, StoreInv, storeVars
<1>2. UnsentIsKept'
  BY DEF Inv, ClientInv, UnsentIsKept, Sent
<1>3. HolesAreExplained'
  BY DEF Inv, ClientInv, HolesAreExplained, HolesOf, storeVars
<1>. QED
  BY <1>1, <1>2, <1>3

----------------------------------------------------------------------------
(* Fetches and events. *)

LEMMA AnswerTop ==
    ASSUME Inv, NEW f \in fetches, NEW length \in f.seen..Len(log[f.conv]), NEW next,
           next = IF PageAfter(f.from, length) = {} THEN last[f.conv]
                  ELSE Higher(last[f.conv], PageEnd(f.from, length))
    PROVE  /\ length \in Nat /\ f.from <= length /\ length <= Len(log[f.conv])
           /\ next \in Nat /\ next <= Len(log[f.conv])
           /\ PageAfter(f.from, length) \subseteq 1..next
           /\ \/ next = 0 \/ next \in have[f.conv]
              \/ next \in PageAfter(f.from, length)
<1>0. f \in Fetch /\ f.conv \in Conversations /\ f.from \in Nat /\ f.seen \in Nat
  BY FetchTyped DEF Inv
<1>1. Founded(f)
  BY DEF Inv, ClientInv, FetchInv
<1>2. /\ last[f.conv] \in Nat /\ last[f.conv] <= Len(log[f.conv])
      /\ last[f.conv] = 0 \/ last[f.conv] \in have[f.conv]
      /\ Len(log[f.conv]) \in Nat
  BY <1>0, LogTyped DEF Inv, ClientInv, StoreInv
<1>3. length \in Nat /\ f.from <= length /\ length <= Len(log[f.conv])
  BY <1>0, <1>1, <1>2 DEF Founded
<1>4. /\ PageEnd(f.from, length) \in Nat /\ PageEnd(f.from, length) <= length
      /\ PageAfter(f.from, length) \subseteq 1..PageEnd(f.from, length)
      /\ PageAfter(f.from, length) # {}
            => PageEnd(f.from, length) \in PageAfter(f.from, length)
  BY <1>0, <1>3, PageFacts
<1>5. CASE PageAfter(f.from, length) = {}
  BY <1>5, <1>2, <1>3
<1>6. CASE PageAfter(f.from, length) # {} /\ last[f.conv] > PageEnd(f.from, length)
  <2>1. next = last[f.conv]
    BY <1>6 DEF Higher
  <2>. QED
    BY <2>1, <1>2, <1>3, <1>4, <1>6
<1>7. CASE PageAfter(f.from, length) # {} /\ ~ (last[f.conv] > PageEnd(f.from, length))
  <2>1. next = PageEnd(f.from, length)
    BY <1>7 DEF Higher
  <2>. QED
    BY <2>1, <1>2, <1>3, <1>4, <1>7
<1>. QED
  BY <1>5, <1>6, <1>7

LEMMA AnswerInv ==
    ASSUME Inv, NEW f \in fetches, NEW length \in f.seen..Len(log[f.conv]),
           FetchAnswered(f, length)
    PROVE  Inv'
<1>. DEFINE c == f.conv
            page == PageAfter(f.from, length)
            next == IF page = {} THEN last[c] ELSE Higher(last[c], PageEnd(f.from, length))
            more == GoesOn(f, length, next)
            event == IF f.kind = "gap" /\ ~ more THEN {f.until} ELSE {}
            top == IF event = {} THEN next ELSE Higher(next, f.until)
            does == \/ f.from \notin have[c]
                    \/ event # {} /\ HasMore(f.from, length)
                    \/ \E n \in event : Older(c, n)
            again == IF more THEN {[f EXCEPT !.from = next, !.page = @ + 1,
                                             !.seen = Len(log[c]),
                                             !.open = ~ Archived(c)]} ELSE {}
<1>0. /\ f \in Fetch /\ c \in Conversations /\ f.from \in Nat /\ f.until \in Nat
      /\ f.page \in Nat /\ f.kind \in {"reconcile", "gap"} /\ Founded(f)
      /\ have[c] \subseteq Nat /\ Len(log[c]) \in Nat /\ f.seen \in Nat
  BY FetchTyped DEF Inv, ClientInv, FetchInv
<1>1. /\ Ingest(c, page \union event, top)
      /\ PassOver(c, does)
      /\ fetches' = (fetches \ {f}) \union again
      /\ UNCHANGED <<gestures, faults, logVars, intent, calls, hubVars, archiveVars>>
  BY DEF FetchAnswered, NoBudget
<1>2. /\ length \in Nat /\ f.from <= length /\ length <= Len(log[c])
      /\ next \in Nat /\ next <= Len(log[c]) /\ page \subseteq 1..next
      /\ next = 0 \/ next \in have[c] \/ next \in page
  BY AnswerTop
<1>3. /\ PageEnd(f.from, length) \in Nat
      /\ page \subseteq 1..PageEnd(f.from, length)
      /\ f.from # 0 => page = f.from + 1 .. PageEnd(f.from, length)
      /\ ~ HasMore(f.from, length) => PageEnd(f.from, length) = length
  BY <1>0, <1>2, PageFacts
<1>4. event = {} \/ (event = {f.until} /\ f.kind = "gap" /\ ~ more)
  OBVIOUS
<1>. HIDE DEF next, more, event, does, again, page, top
<1>5. /\ f.kind = "gap" => f.until > 0 /\ f.until <= length
      /\ page \subseteq Nat
  BY <1>0, <1>2, <1>3 DEF Founded
<1>6. /\ top \in Nat /\ page \union event \subseteq 1..top /\ top <= Len(log[c])
      /\ top = 0 \/ top \in page \union event \/ top \in have[c]
  <2>1. page \subseteq 1..next
    BY <1>2
  <2>2. CASE event = {}
    BY <2>1, <2>2, <1>2 DEF top
  <2>3. CASE event = {f.until} /\ f.kind = "gap" /\ next > f.until
    <3>1. top = next
      BY <2>3 DEF Higher, top
    <3>2. f.until \in 1..next
      BY <2>3, <1>0, <1>2, <1>5
    <3>. QED
      BY <2>1, <2>3, <3>1, <3>2, <1>2
  <2>4. CASE event = {f.until} /\ f.kind = "gap" /\ ~ (next > f.until)
    <3>1. top = f.until
      BY <2>4 DEF Higher, top
    <3>2. page \subseteq 1..f.until
      BY <2>1, <2>4, <1>0, <1>2
    <3>3. f.until \in 1..f.until /\ f.until <= Len(log[c])
      BY <2>4, <1>0, <1>2, <1>5
    <3>. QED
      BY <2>4, <3>1, <3>2, <3>3, <1>0
  <2>. QED
    BY <1>4, <2>2, <2>3, <2>4
<1>7. UNCHANGED <<log, posted, intent, calls>>
  BY <1>1 DEF logVars
<1>8. /\ StoreInv' /\ UnsentIsKept'
      /\ UNCHANGED lost
      /\ \A k \in Keys : pending'[k] = "none" \/ pending'[k] = pending[k]
  BY <1>0, <1>1, <1>6, <1>7, IngestKeeps
<1>9. HolesAreExplained'
  <2>1. /\ have'[c] = have[c] \union page \union event
        /\ \A d \in Conversations \ {c} : have'[d] = have[d]
    BY <1>0, <1>1 DEF Ingest, Upsert, Inv, TypeOK
  <2>2. ASSUME ~ does PROVE HolesOf(have'[c]) \subseteq HolesOf(have[c])
    <3>1. /\ f.from \in have[c] /\ (event # {} => ~ HasMore(f.from, length))
          /\ \A n \in event : ~ Older(c, n)
      BY <2>2 DEF does
    <3>2. f.from \in have[c] /\ f.from # 0
      BY <3>1, <1>0 DEF Inv, ClientInv, StoreInv
    <3>3. HolesOf(have[c] \union page) \subseteq HolesOf(have[c])
      BY <3>2, <1>0, <1>3, RunMakesNoHole
    <3>4. CASE event = {}
      BY <3>3, <3>4, <2>1
    <3>5. CASE event = {f.until} /\ f.kind = "gap"
      <4>. DEFINE H == have[c] \union page
      <4>1. H \in SUBSET Nat
        BY <1>0, <1>5
      <4>2. PICK low \in have[c] : low <= f.until
        BY <3>1, <3>5, <1>0 DEF Older
      <4>3. \E high \in H : f.until <= high + 1
        <5>1. PageEnd(f.from, length) = length
          BY <3>1, <3>5, <1>3
        <5>2. CASE f.until <= f.from
          BY <5>2, <3>2, <1>0
        <5>3. CASE f.until > f.from
          <6>1. f.until \in page
            BY <5>1, <5>3, <3>2, <1>0, <1>2, <1>3, <1>5, <3>5
          <6>. QED
            BY <6>1, <1>0
        <5>. QED
          BY <5>2, <5>3, <1>0
      <4>4. HolesOf(H \union {f.until}) \subseteq HolesOf(H)
        <5>. PICK high \in H : f.until <= high + 1
          BY <4>3
        <5>. low \in H
          BY <4>2
        <5>. HIDE DEF H
        <5>. QED
          BY <4>1, <4>2, <1>0, PointMakesNoHole
      <4>. QED
        BY <4>4, <3>3, <3>5, <2>1
    <3>. QED
      BY <3>4, <3>5, <1>4
  <2>3. does \in BOOLEAN
    BY DEF does
  <2>. QED
    BY <2>1, <2>2, <2>3, <1>0, <1>1, PassedOver
<1>10. again \in SUBSET Fetch /\ \A g \in again : Founded(g)'
  <2>3. SUFFICES ASSUME NEW g, more, g = [f EXCEPT !.from = next, !.page = @ + 1,
                                                   !.seen = Len(log[c]),
                                                   !.open = ~ Archived(c)]
                 PROVE  g \in Fetch /\ Founded(g)'
    BY DEF again
  <2>0. g = [conv |-> f.conv, kind |-> f.kind, from |-> next, page |-> f.page + 1,
             seen |-> Len(log[c]), until |-> f.until, open |-> ~ Archived(c)]
    BY <2>3, <1>0 DEF Fetch
  <2>4. /\ g \in Fetch /\ g.conv = c /\ g.from = next /\ g.seen = Len(log[c])
        /\ g.until = f.until /\ g.kind = f.kind
    BY <2>0, <1>0, <1>2 DEF Fetch
  <2>5. f.until <= Len(log[c])
    BY <1>0, <1>2 DEF Founded
  <2>. QED
    BY <2>4, <2>5, <1>0, <1>2, <1>5, <1>7 DEF Founded
<1>11. FetchInv'
  BY <1>1, <1>7, <1>10, FetchesStayFounded
<1>12. SendInv'
  BY <1>7, <1>8, SendsStay
<1>13. LeaveInv' /\ JoinedIsMember'
  BY <1>1, HubStays
<1>14. TypeOK'
  <2>1. page \union event \in SUBSET Nat /\ does \in BOOLEAN
    BY <1>0, <1>3, <1>4 DEF does
  <2>2. /\ have' \in [Conversations -> SUBSET Nat]
        /\ last' \in [Conversations -> Nat]
        /\ UnsentTypes'
        /\ skipped' \in [Conversations -> SUBSET Nat]
    BY <2>1, <1>0, <1>1, <1>6, IngestTyped DEF Inv
  <2>3. fetches' \subseteq Fetch
    BY <1>1, <1>10 DEF Inv, TypeOK
  <2>. QED
    BY <2>2, <2>3, <1>1, <1>7 DEF Inv, TypeOK, UnsentTypes, hubVars, archiveVars
<1>. QED
  BY <1>8, <1>9, <1>11, <1>12, <1>13, <1>14 DEF Inv, ClientInv

LEMMA FailureInv ==
    ASSUME Inv, NEW f \in fetches, FetchFails(f)
    PROVE  Inv'
<1>. DEFINE c == f.conv
            S == IF f.kind = "gap" THEN {f.until} ELSE {}
<1>0. /\ f \in Fetch /\ c \in Conversations /\ f.until \in Nat
      /\ f.kind \in {"reconcile", "gap"} /\ Founded(f)
      /\ Len(log[c]) \in Nat /\ f.seen \in Nat
  BY FetchTyped DEF Inv, ClientInv, FetchInv
<1>1. /\ Ingest(c, S, f.until)
      /\ PassOver(c, f.kind = "gap")
      /\ fetches' = fetches \ {f}
      /\ UNCHANGED <<log, posted, intent, calls, hubVars, archiveVars>>
      /\ Refused(c)
  BY DEF FetchFails, logVars
<1>2. /\ S \subseteq 1..f.until /\ f.until <= Len(log[c])
      /\ f.until = 0 \/ f.until \in S
      /\ S \in SUBSET Nat /\ (f.kind # "gap" => S = {})
  BY <1>0 DEF Founded
<1>. HIDE DEF S
<1>3. /\ StoreInv' /\ UnsentIsKept'
      /\ UNCHANGED lost
      /\ \A k \in Keys : pending'[k] = "none" \/ pending'[k] = pending[k]
  BY <1>0, <1>1, <1>2, IngestKeeps
<1>4. HolesAreExplained'
  <2>1. /\ \A d \in Conversations \ {c} : have'[d] = have[d]
        /\ f.kind # "gap" => have'[c] = have[c]
    BY <1>0, <1>1, <1>2 DEF Ingest, Upsert, Inv, TypeOK
  <2>. QED
    BY <2>1, <1>0, <1>1, PassedOver
<1>5. FetchInv'
  BY <1>1, FetchesShrink
<1>6. SendInv'
  BY <1>1, <1>3, SendsStay
<1>7. LeaveInv' /\ JoinedIsMember'
  BY <1>1, HubStays
<1>8. TypeOK'
  <2>1. /\ have' \in [Conversations -> SUBSET Nat]
        /\ last' \in [Conversations -> Nat]
        /\ UnsentTypes'
        /\ skipped' \in [Conversations -> SUBSET Nat]
    BY <1>0, <1>1, <1>2, IngestTyped DEF Inv
  <2>2. fetches' \subseteq Fetch
    BY <1>1 DEF Inv, TypeOK
  <2>3. gestures' \in Nat /\ faults' \in Nat
    BY <1>0, <1>1, RefusedTyped DEF Inv
  <2>. QED
    BY <2>1, <2>2, <2>3, <1>1 DEF Inv, TypeOK, UnsentTypes, hubVars, archiveVars
<1>. QED
  BY <1>3, <1>4, <1>5, <1>6, <1>7, <1>8 DEF Inv, ClientInv

LEMMA ReceiveInv ==
    ASSUME Inv, NEW c \in Conversations, NEW n \in 1..Len(log[c]), Receive(c, n)
    PROVE  Inv'
<1>0. /\ n \in Nat /\ n > 0 /\ n <= Len(log[c]) /\ Len(log[c]) \in Nat
      /\ last[c] \in Nat /\ have[c] \subseteq Nat
      /\ have[c] \subseteq 1..last[c] /\ (last[c] = 0 \/ last[c] \in have[c])
  BY LogTyped DEF Inv, ClientInv, StoreInv
<1>1. UNCHANGED <<log, posted, intent, calls, hubVars, archiveVars, gestures, faults>>
  BY DEF Receive, NoBudget, logVars
<1>2. LeaveInv' /\ JoinedIsMember'
  BY <1>1, HubStays
<1>3. CASE LeavesGap(c, n)
  <2>1. UNCHANGED <<storeVars, unsentVars, pending, lost>>
    BY <1>3 DEF Receive, unsentVars
  <2>2. PICK f : f = NewFetch(c, "gap", last[c], n)
    OBVIOUS
  <2>3. fetches' = fetches \union {f}
    BY <1>3, <2>2 DEF Receive
  <2>4. f \in Fetch /\ Founded(f)'
    BY <2>2, <1>0, <1>1, NewFetchFounded
  <2>5. FetchInv'
    <3>. DEFINE F == {f}
    <3>1. /\ F \in SUBSET Fetch /\ fetches' \subseteq fetches \union F
          /\ \A g \in F : Founded(g)'
      BY <2>3, <2>4
    <3>. HIDE DEF F
    <3>. QED
      BY <3>1, <1>1, FetchesStayFounded
  <2>6. StoreInv' /\ UnsentIsKept' /\ HolesAreExplained'
    BY <2>1, <1>1, StoreStays
  <2>7. SendInv'
    BY <2>1, <1>1, SendsStay
  <2>8. TypeOK'
    BY <2>1, <2>3, <2>4, <1>1 DEF Inv, TypeOK, storeVars, unsentVars, hubVars, archiveVars
  <2>. QED
    BY <2>5, <2>6, <2>7, <2>8, <1>2 DEF Inv, ClientInv
<1>4. CASE ~ LeavesGap(c, n)
  <2>1. Ingest(c, {n}, n) /\ PassOver(c, Older(c, n)) /\ UNCHANGED fetches
    BY <1>4 DEF Receive
  <2>2. /\ StoreInv' /\ UnsentIsKept'
        /\ UNCHANGED lost
        /\ \A k \in Keys : pending'[k] = "none" \/ pending'[k] = pending[k]
    BY <2>1, <1>0, <1>1, IngestKeeps
  <2>3. HolesAreExplained'
    <3>1. /\ have'[c] = have[c] \union {n}
          /\ \A d \in Conversations \ {c} : have'[d] = have[d]
      BY <2>1 DEF Ingest, Upsert, Inv, TypeOK
    <3>2. ASSUME ~ Older(c, n) PROVE HolesOf(have'[c]) \subseteq HolesOf(have[c])
      <4>1. PICK low \in have[c] : low <= n
        BY <3>2, <1>0 DEF Older
      <4>2. last[c] \in have[c] /\ n <= last[c] + 1
        BY <4>1, <1>0, <1>4 DEF LeavesGap
      <4>. QED
        BY <3>1, <4>1, <4>2, <1>0, PointMakesNoHole
    <3>3. Older(c, n) \in BOOLEAN
      BY DEF Older
    <3>. QED
      BY <3>1, <3>2, <3>3, <2>1, PassedOver
  <2>4. FetchInv'
    BY <2>1, <1>1, FetchesShrink
  <2>5. SendInv'
    BY <2>2, <1>1, SendsStay
  <2>6. TypeOK'
    <3>1. /\ have' \in [Conversations -> SUBSET Nat]
          /\ last' \in [Conversations -> Nat]
          /\ UnsentTypes'
          /\ skipped' \in [Conversations -> SUBSET Nat]
      <4>. Older(c, n) \in BOOLEAN
        BY DEF Older
      <4>. QED
        BY <2>1, <1>0, IngestTyped DEF Inv
    <3>. QED
      BY <3>1, <2>1, <1>1 DEF Inv, TypeOK, UnsentTypes, hubVars, archiveVars
  <2>. QED
    BY <2>2, <2>3, <2>4, <2>5, <2>6, <1>2 DEF Inv, ClientInv
<1>. QED
  BY <1>3, <1>4

\* Reconciles of any conversations may start at any moment.
LEMMA ReconcilesFounded ==
    ASSUME Inv, UNCHANGED log, NEW S \in SUBSET Conversations,
           fetches' \subseteq fetches \union Reconciles(S)
    PROVE  FetchInv' /\ fetches' \subseteq Fetch
<1>1. Reconciles(S) \subseteq Fetch
  BY ReconcilesTyped DEF Inv
<1>2. ASSUME NEW f \in Reconciles(S) PROVE Founded(f)'
  <2>1. PICK c \in S : f = NewFetch(c, "reconcile", last[c], 0)
    BY <1>2 DEF Reconciles
  <2>2. Len(log[c]) \in Nat
    BY LogTyped DEF Inv
  <2>. QED
    BY <2>1, <2>2, NewFetchFounded
<1>. DEFINE F == Reconciles(S)
<1>3. F \in SUBSET Fetch /\ fetches' \subseteq fetches \union F /\ \A f \in F : Founded(f)'
  BY <1>1, <1>2
<1>. HIDE DEF F
<1>4. FetchInv'
  BY <1>3, FetchesStayFounded
<1>. QED
  BY <1>1, <1>4 DEF Inv, TypeOK

LEMMA TickInv == Inv /\ Tick => Inv'
<1>. SUFFICES ASSUME Inv, Tick PROVE Inv'
  OBVIOUS
<1>1. /\ UNCHANGED <<log, posted, storeVars, sendVars, hubVars, archiveVars>>
      /\ UNCHANGED <<pending, lost, gestures, faults>>
  BY DEF Tick, NoBudget, logVars, sendVars, unsentVars
<1>2. joined \in SUBSET Conversations /\ fetches' \subseteq fetches \union Reconciles(joined)
  BY DEF Tick, Inv, TypeOK
<1>3. FetchInv' /\ fetches' \subseteq Fetch
  BY <1>1, <1>2, ReconcilesFounded
<1>4. StoreInv' /\ UnsentIsKept' /\ HolesAreExplained' /\ SendInv'
  BY <1>1, StoreStays, SendsStay DEF sendVars
<1>5. LeaveInv' /\ JoinedIsMember'
  BY <1>1, HubStays
<1>6. TypeOK'
  BY <1>1, <1>3 DEF Inv, TypeOK, storeVars, sendVars, unsentVars, hubVars, archiveVars
<1>. QED
  BY <1>3, <1>4, <1>5, <1>6 DEF Inv, ClientInv

----------------------------------------------------------------------------
(* Sends, and what the server does with them. *)

\* What touches neither the store nor the hub.
LEMMA ElsewhereStays ==
    ASSUME Inv, UNCHANGED <<log, storeVars, fetches, hubVars>>
    PROVE  StoreInv' /\ FetchInv' /\ LeaveInv' /\ JoinedIsMember' /\ HolesAreExplained'
<1>1. StoreInv'
  BY DEF Inv, ClientInv, StoreInv, storeVars
<1>2. FetchInv'
  BY FetchesShrink
<1>3. LeaveInv' /\ JoinedIsMember'
  BY HubStays
<1>4. HolesAreExplained'
  BY DEF Inv, ClientInv, HolesAreExplained, HolesOf, storeVars
<1>. QED
  BY <1>1, <1>2, <1>3, <1>4

LEMMA SaidSomewhere ==
    ASSUME NEW c \in Conversations, NEW t
    PROVE  [conv |-> c, text |-> t] # NoIntent
<1>. SUFFICES ASSUME [conv |-> c, text |-> t] = NoIntent PROVE FALSE
  OBVIOUS
<1>1. [conv |-> c, text |-> t].conv = NoIntent.conv
  OBVIOUS
<1>. QED
  BY <1>1, ConversationAssumption DEF NoIntent

\* An entry that is saved is among the unsent, or remembered as lost.
LEMMA SaveKeeps ==
    ASSUME Inv, NEW c \in Conversations, NEW k \in Keys, NEW as \in {"pending", "failed"},
           Save(c, k, as)
    PROVE  /\ UnsentTypes'
           /\ lost \subseteq lost'
           /\ pending'[k] # "none" \/ k \in lost'
           /\ pending'[k] # "none" => pending'[k] = as \/ pending[k] # "none"
           /\ \A l \in Keys \ {k} : pending'[l] = pending[l]
<1>1. CASE full /\ Stored(c)
  BY <1>1 DEF Save, Inv, TypeOK, UnsentTypes
<1>2. CASE ~ (full /\ Stored(c))
  <2>1. /\ pending' = [pending EXCEPT ![k] = as] /\ UNCHANGED <<full, lost>>
        /\ volatile' \subseteq volatile \union {c}
    BY <1>2 DEF Save
  <2>. QED
    BY <2>1 DEF Inv, TypeOK, UnsentTypes
<1>. QED
  BY <1>1, <1>2

LEMMA PostInv ==
    ASSUME Inv, NEW c \in Conversations, NEW t \in Texts, NEW k \in Keys,
           \/ intent[k] = [conv |-> c, text |-> t]
           \/ /\ intent[k] = NoIntent
              /\ \A l \in Keys : intent[l] = [conv |-> c, text |-> t] => l \in lost,
           Gesture, Post(c, t, k)
    PROVE  Inv'
<1>. DEFINE said == [conv |-> c, text |-> t]
<1>1. /\ UNCHANGED <<log, storeVars, fetches, hubVars, archiveVars, faults>>
      /\ gestures' = gestures + 1
      /\ intent' = [intent EXCEPT ![k] = said]
      /\ Save(c, k, "pending")
      /\ posted' = posted \union {k}
      /\ calls' = [calls EXCEPT ![k] = @ + 1]
  BY DEF Post, Gesture
<1>8. UnsentTypes'
  BY <1>1, SaveKeeps
<1>9. lost \subseteq lost' /\ (pending'[k] # "none" \/ k \in lost')
  BY <1>1, SaveKeeps
<1>10. \A l \in Keys \ {k} : pending'[l] = pending[l]
  BY <1>1, SaveKeeps
<1>2. TypeOK'
  <2>1. intent' \in [Keys -> [conv : Conversations, text : Texts] \union {NoIntent}]
    BY <1>1 DEF Inv, TypeOK
  <2>2. calls' \in [Keys -> Nat] /\ posted' \subseteq Keys /\ gestures' \in Nat
    BY <1>1 DEF Inv, TypeOK
  <2>3. UNCHANGED <<log, storeVars, fetches, hubVars, archiveVars, faults>>
    BY <1>1
  <2>. QED
    BY <2>1, <2>2, <2>3, <1>8 DEF Inv, TypeOK, UnsentTypes, storeVars, hubVars, archiveVars
<1>3. StoreInv' /\ FetchInv' /\ LeaveInv' /\ JoinedIsMember' /\ HolesAreExplained'
  BY <1>1, ElsewhereStays
<1>4. said # NoIntent /\ said.conv = c
  BY SaidSomewhere
<1>5. /\ intent'[k] = said
      /\ \A l \in Keys \ {k} : /\ intent'[l] = intent[l] /\ pending'[l] = pending[l]
                              /\ calls'[l] = calls[l]
  BY <1>1, <1>10 DEF Inv, TypeOK
<1>6. SendInv'
  <2>1. \A l \in posted' : intent'[l] # NoIntent
    BY <1>1, <1>4, <1>5 DEF Inv, TypeOK, ClientInv, SendInv
  <2>2. \A l \in Keys : calls'[l] > 0 \/ pending'[l] # "none" => l \in posted'
    BY <1>1, <1>5 DEF Inv, ClientInv, SendInv
  <2>3. \A d \in Conversations : \A n \in 1..Len(log'[d]) :
            log'[d][n] # Other => log'[d][n] \in posted' /\ intent'[log'[d][n]].conv = d
    <3>1. SUFFICES ASSUME NEW d \in Conversations, NEW n \in 1..Len(log[d]), log[d][n] # Other
                   PROVE  log[d][n] \in posted' /\ intent'[log[d][n]].conv = d
      BY <1>1
    <3>2. /\ log[d][n] \in posted /\ log[d][n] \in Keys
          /\ intent[log[d][n]].conv = d /\ intent[log[d][n]] # NoIntent
      BY <3>1 DEF Inv, TypeOK, ClientInv, SendInv
    <3>3. intent'[log[d][n]] = intent[log[d][n]]
      BY <3>2, <1>5
    <3>. QED
      BY <3>2, <3>3, <1>1
  <2>4. \A d \in Conversations : \A m, n \in 1..Len(log'[d]) :
            log'[d][m] # Other /\ log'[d][m] = log'[d][n] => m = n
    BY <1>1 DEF Inv, ClientInv, SendInv
  <2>5. \A l, m \in Keys : intent'[l] # NoIntent /\ intent'[l] = intent'[m]
                               => l = m \/ l \in lost' \/ m \in lost'
    <3>1. \A l, m \in Keys : intent[l] # NoIntent /\ intent[l] = intent[m]
                                 => l = m \/ l \in lost \/ m \in lost
      BY DEF Inv, ClientInv, SendInv
    <3>2. CASE intent[k] = said
      <4>1. \A l \in Keys : intent'[l] = intent[l]
        BY <3>2, <1>5
      <4>. QED
        BY <3>1, <4>1, <1>9
    <3>3. CASE \A l \in Keys : intent[l] = said => l \in lost
      BY <3>1, <3>3, <1>5, <1>9
    <3>. QED
      BY <3>2, <3>3
  <2>. QED
    BY <2>1, <2>2, <2>3, <2>4, <2>5 DEF SendInv
<1>7. UnsentIsKept'
  <2>1. \A l \in Keys \ {k} : Sent(l)' = Sent(l)
    BY <1>1, <1>5 DEF Sent
  <2>. QED
    BY <2>1, <1>9, <1>5 DEF Inv, ClientInv, UnsentIsKept
<1>. QED
  BY <1>2, <1>3, <1>6, <1>7 DEF Inv, ClientInv

LEMMA SendsInv ==
    ASSUME Inv, NEW c \in Conversations, NEW t \in Texts, Send(c, t)
    PROVE  Inv'
<1>. DEFINE said == [conv |-> c, text |-> t]
<1>1. PICK k \in RequestIds(c, t) : Gesture /\ Post(c, t, k)
  BY DEF Send
<1>2. CASE Reused(c, t) # {}
  <2>1. k \in Keys /\ intent[k] = said
    BY <1>2 DEF RequestIds, Reused
  <2>. QED
    BY <1>1, <2>1, PostInv
<1>3. CASE Reused(c, t) = {}
  <2>1. k \in Fresh
    BY <1>3 DEF RequestIds
  <2>2. Unused # {}
    BY <2>1 DEF Fresh
  <2>3. k \in Unused
    BY <2>1, <2>2 DEF Fresh
  <2>4. k \in Keys /\ intent[k] = NoIntent
    BY <2>3 DEF Unused
  <2>5. \A l \in Keys : intent[l] = said => l \in lost
    BY <1>3 DEF Send, Wanted, Reused
  <2>. QED
    BY <1>1, <2>4, <2>5, PostInv
<1>. QED
  BY <1>2, <1>3

LEMMA RetryInv ==
    ASSUME Inv, NEW k \in Keys, Retry(k)
    PROVE  Inv'
<1>1. k \in posted /\ Gesture /\ Post(intent[k].conv, intent[k].text, k)
  BY DEF Retry, Inv, ClientInv, SendInv
<1>2. /\ intent[k].conv \in Conversations /\ intent[k].text \in Texts
      /\ intent[k] = [conv |-> intent[k].conv, text |-> intent[k].text]
  BY <1>1, IntentTyped DEF Inv, ClientInv, SendInv
<1>. QED
  BY <1>1, <1>2, PostInv

LEMMA SendFailureInv ==
    ASSUME Inv, NEW k \in Keys, SendFails(k)
    PROVE  Inv'
<1>1. /\ UNCHANGED <<log, posted, storeVars, fetches, intent, hubVars, archiveVars>>
      /\ calls[k] > 0 /\ Refused(intent[k].conv)
      /\ Save(intent[k].conv, k, "failed")
      /\ calls' = [calls EXCEPT ![k] = @ - 1]
  BY DEF SendFails, logVars
<1>2. k \in posted /\ intent[k].conv \in Conversations
  BY <1>1, IntentTyped DEF Inv, ClientInv, SendInv
<1>3. /\ UnsentTypes' /\ lost \subseteq lost'
      /\ pending'[k] # "none" \/ k \in lost'
      /\ \A l \in Keys \ {k} : pending'[l] = pending[l]
  BY <1>1, <1>2, SaveKeeps
<1>4. calls' \in [Keys -> Nat] /\ \A l \in Keys : calls'[l] > 0 => calls[l] > 0
  BY <1>1 DEF Inv, TypeOK
<1>5. TypeOK'
  <2>1. gestures' \in Nat /\ faults' \in Nat
    BY <1>1, <1>2, RefusedTyped DEF Inv
  <2>. QED
    BY <2>1, <1>1, <1>3, <1>4 DEF Inv, TypeOK, UnsentTypes, storeVars, hubVars, archiveVars
<1>6. StoreInv' /\ FetchInv' /\ LeaveInv' /\ JoinedIsMember' /\ HolesAreExplained'
  BY <1>1, ElsewhereStays
<1>7. SendInv'
  BY <1>1, <1>3, <1>4, SendsStay
<1>8. UnsentIsKept'
  <2>1. \A l \in Keys : Sent(l)' = Sent(l)
    BY <1>1 DEF Sent
  <2>. QED
    BY <2>1, <1>1, <1>3 DEF Inv, ClientInv, UnsentIsKept
<1>. QED
  BY <1>5, <1>6, <1>7, <1>8 DEF Inv, ClientInv

LEMMA SendAnswerInv ==
    ASSUME Inv, NEW k \in Keys, SendAnswered(k)
    PROVE  Inv'
<1>. DEFINE c == intent[k].conv
<1>1. /\ calls[k] > 0 /\ calls' = [calls EXCEPT ![k] = @ - 1]
      /\ UNCHANGED <<log, posted, fetches, intent, hubVars, archiveVars, gestures, faults>>
  BY DEF SendAnswered, NoBudget, logVars
<1>2. k \in posted /\ c \in Conversations
  BY <1>1, IntentTyped DEF Inv, ClientInv, SendInv
<1>3. PICK n \in 1..Len(log[c]) :
          Upsert(c, {n}, n) /\ Clear(c, Confirmed(c, {n})) /\ PassOver(c, TRUE)
  BY DEF SendAnswered
<1>4. n \in Nat /\ {n} \subseteq 1..n /\ n <= Len(log[c]) /\ {n} \subseteq 1..Len(log[c])
  BY <1>2, <1>3, LogTyped DEF Inv
<1>. HIDE DEF c
<1>5. StoreInv'
  BY <1>1, <1>2, <1>3, <1>4, UpsertKeeps
<1>6. /\ UnsentIsKept' /\ UNCHANGED lost
      /\ \A l \in Keys : pending'[l] = "none" \/ pending'[l] = pending[l]
  BY <1>1, <1>2, <1>3, <1>4, ClearKeeps
<1>7. HolesAreExplained'
  <2>1. \A d \in Conversations \ {c} : have'[d] = have[d]
    BY <1>3 DEF Upsert, Inv, TypeOK
  <2>. QED
    BY <2>1, <1>2, <1>3, PassedOver
<1>8. FetchInv'
  BY <1>1, FetchesShrink
<1>9. calls' \in [Keys -> Nat] /\ \A l \in Keys : calls'[l] > 0 => calls[l] > 0
  BY <1>1 DEF Inv, TypeOK
<1>10. SendInv'
  BY <1>1, <1>6, <1>9, SendsStay
<1>11. LeaveInv' /\ JoinedIsMember'
  BY <1>1, HubStays
<1>12. TypeOK'
  <2>1. UnsentTypes'
    BY <1>2, <1>3, ClearTyped DEF Inv
  <2>2. have' \in [Conversations -> SUBSET Nat] /\ last' \in [Conversations -> Nat]
    BY <1>2, <1>3, <1>4 DEF Upsert, Higher, Inv, TypeOK
  <2>3. skipped' \in [Conversations -> SUBSET Nat]
    <3>1. HolesOf(have'[c]) \subseteq Nat
      BY DEF HolesOf
    <3>. QED
      BY <3>1, <1>2, <1>3 DEF PassOver, Inv, TypeOK
  <2>. QED
    BY <2>1, <2>2, <2>3, <1>1, <1>9 DEF Inv, TypeOK, UnsentTypes, hubVars, archiveVars
<1>. QED
  BY <1>5, <1>6, <1>7, <1>8, <1>10, <1>11, <1>12 DEF Inv, ClientInv

\* A message at the end of a log.
LEMMA LogGrowsInv ==
    ASSUME Inv, NEW c \in Conversations, NEW m \in Keys \union {Other},
           log' = [log EXCEPT ![c] = Append(@, m)],
           m # Other => m \in posted /\ intent[m].conv = c /\ ~ Sent(m),
           UNCHANGED <<posted, storeVars, fetches, sendVars, hubVars, archiveVars>>,
           UNCHANGED <<gestures, faults>>
    PROVE  Inv'
<1>1. /\ log[c] \in Seq(Keys \union {Other}) /\ Len(log[c]) \in Nat
      /\ log'[c] = Append(log[c], m)
      /\ \A d \in Conversations \ {c} : log'[d] = log[d]
  BY DEF Inv, TypeOK
<1>2. /\ Len(log'[c]) = Len(log[c]) + 1 /\ log'[c][Len(log[c]) + 1] = m
      /\ \A n \in 1..Len(log[c]) : log'[c][n] = log[c][n]
  BY <1>1
<1>3. \A d \in Conversations : /\ Len(log[d]) \in Nat /\ Len(log[d]) <= Len(log'[d])
                               /\ \A n \in 1..Len(log[d]) : log'[d][n] = log[d][n]
  BY <1>1, <1>2, LogTyped DEF Inv
<1>4. TypeOK'
  BY SMTT(30) DEF Inv, TypeOK, storeVars, sendVars, unsentVars, hubVars, archiveVars
<1>5. StoreInv'
  <2>1. SUFFICES ASSUME NEW d \in Conversations PROVE last[d] <= Len(log'[d])
    BY DEF Inv, ClientInv, StoreInv, storeVars
  <2>. QED
    BY <2>1, <1>1, <1>2, LogTyped DEF Inv, ClientInv, StoreInv
<1>6. FetchInv'
  <2>1. SUFFICES ASSUME NEW f \in fetches PROVE Founded(f)'
    BY DEF FetchInv
  <2>2. f.conv \in Conversations /\ f.seen \in Nat /\ Founded(f)
    BY FetchTyped DEF Inv, ClientInv, FetchInv
  <2>3. f.seen <= Len(log'[f.conv])
    BY <2>2, <1>1, <1>2 DEF Founded
  <2>. QED
    BY <2>2, <2>3 DEF Founded, storeVars
<1>7. SendInv'
  <2>1. /\ \A k \in posted' : intent'[k] # NoIntent
        /\ \A k \in Keys : calls'[k] > 0 \/ pending'[k] # "none" => k \in posted'
        /\ \A k, l \in Keys : intent'[k] # NoIntent /\ intent'[k] = intent'[l]
                                  => k = l \/ k \in lost' \/ l \in lost'
    BY DEF Inv, ClientInv, SendInv, sendVars, unsentVars
  <2>2. ASSUME NEW d \in Conversations, NEW n \in 1..Len(log'[d]), log'[d][n] # Other
        PROVE  log'[d][n] \in posted /\ intent[log'[d][n]].conv = d
    <3>1. CASE d = c /\ n = Len(log[c]) + 1
      BY <2>2, <3>1, <1>2
    <3>2. CASE ~ (d = c /\ n = Len(log[c]) + 1)
      <4>1. n \in 1..Len(log[d]) /\ log'[d][n] = log[d][n]
        BY <2>2, <3>2, <1>1, <1>2, <1>3
      <4>. QED
        BY <2>2, <4>1 DEF Inv, ClientInv, SendInv
    <3>. QED
      BY <3>1, <3>2
  <2>3. ASSUME NEW d \in Conversations, NEW i \in 1..Len(log'[d]), NEW j \in 1..Len(log'[d]),
               log'[d][i] # Other, log'[d][i] = log'[d][j]
        PROVE  i = j
    <3>0. \A x, y \in 1..Len(log[d]) : log[d][x] # Other /\ log[d][x] = log[d][y] => x = y
      BY DEF Inv, ClientInv, SendInv
    <3>1. CASE d # c
      <4>1. log'[d] = log[d]
        BY <3>1, <1>1
      <4>. QED
        BY <2>3, <3>0, <4>1
    <3>2. CASE d = c
      <4>1. m # Other => \A n \in 1..Len(log[c]) : log[c][n] # m
        BY DEF Sent
      <4>2. /\ i = Len(log[c]) + 1 \/ i \in 1..Len(log[c])
            /\ j = Len(log[c]) + 1 \/ j \in 1..Len(log[c])
        BY <2>3, <3>2, <1>1, <1>2
      <4>3. CASE i \in 1..Len(log[c]) /\ j \in 1..Len(log[c])
        BY <2>3, <3>2, <4>3, <1>2 DEF Inv, ClientInv, SendInv
      <4>4. CASE i \in 1..Len(log[c]) /\ j = Len(log[c]) + 1
        BY <2>3, <3>2, <4>1, <4>4, <1>2
      <4>5. CASE i = Len(log[c]) + 1 /\ j \in 1..Len(log[c])
        BY <2>3, <3>2, <4>1, <4>5, <1>2
      <4>. QED
        BY <4>2, <4>3, <4>4, <4>5
    <3>. QED
      BY <3>1, <3>2
  <2>. QED
    BY <2>1, <2>2, <2>3 DEF SendInv, sendVars
<1>8. LeaveInv' /\ JoinedIsMember'
  BY HubStays
<1>9. HolesAreExplained'
  BY DEF Inv, ClientInv, HolesAreExplained, HolesOf, storeVars
<1>10. UnsentIsKept'
  <2>1. SUFFICES ASSUME NEW k \in Keys, intent[k] # NoIntent, pending[k] = "none",
                        k \notin lost
                 PROVE  Sent(k)'
    BY DEF UnsentIsKept, sendVars, unsentVars
  <2>2. Sent(k) /\ intent[k].conv \in Conversations
    BY <2>1 DEF Inv, TypeOK, ClientInv, UnsentIsKept
  <2>3. PICK n \in 1..Len(log[intent[k].conv]) : log[intent[k].conv][n] = k
    BY <2>2 DEF Sent
  <2>4. n \in 1..Len(log'[intent[k].conv]) /\ log'[intent[k].conv][n] = k
    BY <2>2, <2>3, <1>1, <1>2
  <2>. QED
    BY <2>4 DEF Sent, sendVars
<1>. QED
  BY <1>4, <1>5, <1>6, <1>7, <1>8, <1>9, <1>10 DEF Inv, ClientInv

LEMMA CommitInv ==
    ASSUME Inv, NEW k \in Keys, Commit(k)
    PROVE  Inv'
<1>. DEFINE c == intent[k].conv
<1>1. /\ k \in posted /\ ~ Sent(k) /\ log' = [log EXCEPT ![c] = Append(@, k)]
      /\ UNCHANGED <<posted, storeVars, fetches, sendVars, hubVars, archiveVars>>
      /\ UNCHANGED <<gestures, faults>>
  BY DEF Commit, NoBudget
<1>2. c \in Conversations
  BY <1>1, IntentTyped DEF Inv, ClientInv, SendInv
<1>. QED
  BY <1>1, <1>2, LogGrowsInv

LEMMA OtherInv ==
    ASSUME Inv, NEW c \in Conversations, OtherWrites(c)
    PROVE  Inv'
<1>1. /\ log' = [log EXCEPT ![c] = Append(@, Other)]
      /\ UNCHANGED <<posted, storeVars, fetches, sendVars, hubVars, archiveVars>>
      /\ UNCHANGED <<gestures, faults>>
  BY DEF OtherWrites, NoBudget
<1>. QED
  BY <1>1, LogGrowsInv

----------------------------------------------------------------------------
(* The connection and the groups. *)

\* What moves only the hub, the client's books of it, and fetches.
LEMMA HubMovesInv ==
    ASSUME Inv, UNCHANGED <<logVars, storeVars, sendVars, archiveVars>>,
           NEW S \in SUBSET Conversations, fetches' \subseteq fetches \union Reconciles(S),
           conn' \in {"Disconnected", "Connected", "Reconnecting"},
           joined' \subseteq Conversations, rejoining' \subseteq Conversations,
           members' \subseteq Conversations, ghosts' \subseteq Conversations,
           waiting' \in Seq(Conversations), hub' \in Seq(Invocations),
           gestures' \in Nat, faults' \in Nat,
           LeaveInv', JoinedIsMember'
    PROVE  Inv'
<1>1. UNCHANGED <<log, posted, have, last, skipped, intent, pending, lost, calls>>
  BY DEF logVars, storeVars, sendVars, unsentVars
<1>2. FetchInv' /\ fetches' \subseteq Fetch
  BY <1>1, ReconcilesFounded
<1>3. StoreInv' /\ UnsentIsKept' /\ HolesAreExplained'
  BY <1>1, StoreStays DEF storeVars
<1>4. SendInv'
  BY <1>1, SendsStay
<1>5. TypeOK'
  BY <1>1, <1>2 DEF Inv, TypeOK, sendVars, unsentVars, archiveVars
<1>. QED
  BY <1>2, <1>3, <1>4, <1>5 DEF Inv, ClientInv

LEMMA HubQuietInv ==
    ASSUME Inv, UNCHANGED <<logVars, storeVars, sendVars, archiveVars>>, fetches' \subseteq fetches,
           conn' \in {"Disconnected", "Connected", "Reconnecting"},
           joined' \subseteq Conversations, rejoining' \subseteq Conversations,
           members' \subseteq Conversations, ghosts' \subseteq Conversations,
           waiting' \in Seq(Conversations), hub' \in Seq(Invocations),
           gestures' \in Nat, faults' \in Nat,
           LeaveInv', JoinedIsMember'
    PROVE  Inv'
<1>. DEFINE S == {}
<1>1. S \in SUBSET Conversations /\ fetches' \subseteq fetches \union Reconciles(S)
  OBVIOUS
<1>. HIDE DEF S
<1>. QED
  BY <1>1, HubMovesInv

LEMMA AppendLeaves ==
    ASSUME Inv, NEW what \in {"join", "leave"}, NEW c \in Conversations,
           hub' = Append(hub, <<what, c>>)
    PROVE  /\ hub' \in Seq(Invocations)
           /\ \A d \in Conversations :
                  Leaving(d)' => Leaving(d) \/ (d = c /\ what = "leave")
<1>1. hub \in Seq(Invocations) /\ <<what, c>> \in Invocations
  BY DEF Inv, TypeOK, Invocations
<1>2. /\ Len(hub) \in Nat /\ Len(hub') = Len(hub) + 1
      /\ hub'[Len(hub) + 1] = <<what, c>>
      /\ \A i \in 1..Len(hub) : hub'[i] = hub[i]
      /\ hub' \in Seq(Invocations)
  BY <1>1
<1>3. SUFFICES ASSUME NEW d \in Conversations, NEW i \in 1..Len(hub'), hub'[i] = <<"leave", d>>
               PROVE  Leaving(d) \/ (d = c /\ what = "leave")
  BY <1>2 DEF Leaving
<1>4. CASE i \in 1..Len(hub)
  BY <1>2, <1>3, <1>4 DEF Leaving
<1>5. CASE i = Len(hub) + 1
  BY <1>2, <1>3, <1>5
<1>. QED
  BY <1>2, <1>4, <1>5

LEMMA JoinInv ==
    ASSUME Inv, NEW c \in Conversations, Join(c)
    PROVE  Inv'
<1>1. /\ UNCHANGED <<logVars, storeVars, fetches, sendVars, archiveVars, conn, joined, rejoining, members,
                     ghosts, faults>>
      /\ gestures' = gestures + 1
  BY DEF Join, Gesture
<1>2. CASE conn = "Connected" /\ hub' = Invoke("join", c) /\ UNCHANGED waiting
  <2>1. hub' \in Seq(Invocations) /\ \A d \in Conversations : Leaving(d)' => Leaving(d)
    BY <1>2, AppendLeaves DEF Invoke
  <2>2. LeaveInv' /\ JoinedIsMember'
    BY <2>1, <1>1 DEF Inv, ClientInv, LeaveInv, JoinedIsMember
  <2>. QED
    BY SMTT(30), <2>1, <2>2, <1>1, <1>2, HubQuietInv DEF Inv, TypeOK
<1>3. CASE waiting' = Append(waiting, c) /\ UNCHANGED hub
  <2>1. LeaveInv' /\ JoinedIsMember'
    BY <1>1, <1>3 DEF Inv, ClientInv, LeaveInv, Leaving, JoinedIsMember
  <2>2. waiting' \in Seq(Conversations)
    BY <1>3 DEF Inv, TypeOK
  <2>. QED
    BY SMTT(30), <2>1, <2>2, <1>1, <1>3, HubQuietInv DEF Inv, TypeOK
<1>. QED
  BY <1>2, <1>3 DEF Join

LEMMA LeaveInvKept ==
    ASSUME Inv, NEW c \in Conversations, Leave(c)
    PROVE  Inv'
<1>1. /\ UNCHANGED <<logVars, storeVars, sendVars, archiveVars, conn, waiting, members, faults>>
      /\ gestures' = gestures + 1 /\ fetches' \subseteq fetches
      /\ joined' = joined \ {c} /\ rejoining' = rejoining \ {c} /\ ghosts' = ghosts \ {c}
      /\ hub' = IF conn = "Connected" THEN Invoke("leave", c) ELSE hub
  BY DEF Leave, Gesture
<1>2. /\ hub' \in Seq(Invocations)
      /\ \A d \in Conversations \ {c} : Leaving(d)' => Leaving(d)
  <2>1. CASE conn = "Connected"
    BY <2>1, <1>1, AppendLeaves DEF Invoke
  <2>2. CASE conn # "Connected"
    BY <2>2, <1>1 DEF Leaving, Inv, TypeOK
  <2>. QED
    BY <2>1, <2>2
<1>3. LeaveInv' /\ JoinedIsMember'
  BY <1>1, <1>2 DEF Inv, ClientInv, LeaveInv, JoinedIsMember
<1>4. /\ joined' \subseteq Conversations /\ rejoining' \subseteq Conversations
      /\ ghosts' \subseteq Conversations /\ members' \subseteq Conversations
      /\ conn' \in {"Disconnected", "Connected", "Reconnecting"}
      /\ waiting' \in Seq(Conversations)
  BY <1>1 DEF Inv, TypeOK
<1>5. gestures' \in Nat /\ faults' \in Nat
  BY <1>1 DEF Inv, TypeOK
<1>. QED
  BY <1>1, <1>2, <1>3, <1>4, <1>5, HubQuietInv

LEMMA ExecuteInv ==
    ASSUME Inv, HubExecutes
    PROVE  Inv'
<1>0. PICK c : c = Head(hub)[2]
  OBVIOUS
<1>1. /\ hub # <<>> /\ hub' = Tail(hub)
      /\ UNCHANGED <<logVars, storeVars, sendVars, archiveVars, conn, rejoining, waiting, gestures, faults>>
  BY DEF HubExecutes, NoBudget
<1>2. /\ hub \in Seq(Invocations) /\ hub' \in Seq(Invocations) /\ Len(hub) \in Nat
      /\ Len(hub) > 0 /\ Len(hub') = Len(hub) - 1 /\ Head(hub) = hub[1]
      /\ \A i \in 1..Len(hub') : hub'[i] = hub[i + 1]
      /\ Head(hub) \in Invocations
  BY <1>1 DEF Inv, TypeOK
<1>3. c \in Conversations /\ Head(hub) = <<Head(hub)[1], c>> /\ Head(hub)[1] \in {"join", "leave"}
  BY <1>0, <1>2 DEF Invocations
<1>4. \A d \in Conversations : Leaving(d)' => Leaving(d)
  BY SMTT(30), <1>2 DEF Leaving
<1>5. CASE Head(hub)[1] = "join" /\ ~ Archived(c)
  <2>1. /\ members' = members \union {c} /\ joined' = joined \union {c}
        /\ fetches' = fetches \union Reconciles({c})
        /\ ghosts' = IF \E i \in DOMAIN hub' : hub'[i] = <<"leave", c>>
                     THEN ghosts \union {c} ELSE ghosts \ {c}
    BY <1>0, <1>1, <1>5 DEF HubExecutes
  <2>2. DOMAIN hub' = 1..Len(hub')
    BY <1>2
  <2>3. ghosts' = IF Leaving(c)' THEN ghosts \union {c} ELSE ghosts \ {c}
    BY <2>1, <2>2 DEF Leaving
  <2>4. LeaveInv'
    BY <2>1, <2>3, <1>1, <1>3, <1>4 DEF Inv, ClientInv, LeaveInv
  <2>5. JoinedIsMember'
    BY <2>1, <2>3, <1>1 DEF Inv, ClientInv, JoinedIsMember
  <2>. DEFINE S == {c}
  <2>6. S \in SUBSET Conversations /\ fetches' \subseteq fetches \union Reconciles(S)
    BY <2>1, <1>3
  <2>7. /\ members' \subseteq Conversations /\ joined' \subseteq Conversations
        /\ ghosts' \subseteq Conversations
    BY <2>1, <2>3, <1>3 DEF Inv, TypeOK
  <2>. HIDE DEF S
  <2>. QED
    BY <2>4, <2>5, <2>6, <2>7, <1>1, <1>2, HubMovesInv DEF Inv, TypeOK
<1>6. CASE Head(hub)[1] = "leave"
  <2>1. members' = members \ {c} /\ UNCHANGED <<joined, ghosts, fetches>>
    BY <1>0, <1>6 DEF HubExecutes
  <2>2. Leaving(c)
    BY <1>2, <1>3, <1>6 DEF Leaving
  <2>3. LeaveInv'
    BY <2>1, <1>1, <1>4 DEF Inv, ClientInv, LeaveInv
  <2>4. JoinedIsMember'
    BY <2>1, <2>2, <1>1, <1>3 DEF Inv, ClientInv, LeaveInv, JoinedIsMember
  <2>. QED
    BY <2>1, <2>3, <2>4, <1>1, <1>2, HubQuietInv DEF Inv, TypeOK
<1>7. CASE Head(hub)[1] = "join" /\ Archived(c)
  <2>1. UNCHANGED <<members, joined, ghosts, fetches>>
    BY <1>0, <1>7 DEF HubExecutes
  <2>2. LeaveInv' /\ JoinedIsMember'
    BY <2>1, <1>1, <1>4 DEF Inv, ClientInv, LeaveInv, JoinedIsMember
  <2>. QED
    BY <2>1, <2>2, <1>1, <1>2, HubQuietInv DEF Inv, TypeOK
<1>. QED
  BY <1>3, <1>5, <1>6, <1>7

LEMMA ConnectInv ==
    ASSUME Inv, Connect
    PROVE  Inv'
<1>1. /\ UNCHANGED <<logVars, storeVars, fetches, sendVars, archiveVars, joined, members, ghosts, gestures, faults>>
      /\ conn' = "Connected" /\ rejoining' = joined /\ waiting' = <<>>
      /\ hub' = [i \in DOMAIN waiting |-> <<"join", waiting[i]>>]
  BY DEF Connect, NoBudget
<1>2. hub' \in Seq(Invocations)
  BY <1>1, HubTyped DEF Inv
<1>3. DOMAIN hub' = 1..Len(hub')
  BY <1>2
<1>4. \A d \in Conversations : ~ Leaving(d)'
  BY <1>1, <1>3 DEF Leaving
<1>5. LeaveInv'
  BY <1>4 DEF LeaveInv
<1>6. JoinedIsMember'
  BY <1>1 DEF JoinedIsMember
<1>7. waiting' \in Seq(Conversations)
  BY <1>1
<1>. QED
  BY <1>1, <1>2, <1>5, <1>6, <1>7, HubQuietInv DEF Inv, TypeOK

LEMMA StartFailureInv ==
    ASSUME Inv, StartFails
    PROVE  Inv'
<1>1. /\ UNCHANGED <<logVars, storeVars, fetches, sendVars, archiveVars, conn, joined, rejoining, hub,
                     members, ghosts, gestures>>
      /\ waiting' = <<>> /\ faults' = faults + 1
  BY DEF StartFails, Fault
<1>2. LeaveInv' /\ JoinedIsMember'
  BY <1>1 DEF Inv, ClientInv, LeaveInv, Leaving, JoinedIsMember
<1>3. waiting' \in Seq(Conversations)
  BY <1>1
<1>. QED
  BY <1>1, <1>2, <1>3, HubQuietInv DEF Inv, TypeOK

LEMMA RejoinInv ==
    ASSUME Inv, NEW c \in Conversations, Rejoin(c)
    PROVE  Inv'
<1>1. /\ UNCHANGED <<logVars, storeVars, sendVars, archiveVars, conn, joined, waiting, hub, gestures, faults>>
      /\ c \in rejoining /\ rejoining' = rejoining \ {c}
      /\ members' = members \union {c} /\ ghosts' = ghosts \ {c}
      /\ fetches' = fetches \union Reconciles({c})
  BY DEF Rejoin, NoBudget
<1>2. \A d \in Conversations : Leaving(d)' = Leaving(d)
  BY <1>1 DEF Leaving
<1>3. LeaveInv' /\ JoinedIsMember'
  BY <1>1, <1>2 DEF Inv, ClientInv, LeaveInv, JoinedIsMember
<1>. DEFINE S == {c}
<1>4. S \in SUBSET Conversations /\ fetches' \subseteq fetches \union Reconciles(S)
  BY <1>1
<1>. HIDE DEF S
<1>. QED
  BY <1>1, <1>3, <1>4, HubMovesInv DEF Inv, TypeOK

LEMMA RejoinFailureInv ==
    ASSUME Inv, NEW c \in Conversations, RejoinFails(c)
    PROVE  Inv'
<1>1. /\ UNCHANGED <<logVars, storeVars, fetches, sendVars, archiveVars, conn, waiting, hub, members,
                     gestures, faults>>
      /\ rejoining' = rejoining \ {c} /\ joined' = joined \ {c} /\ ghosts' = ghosts \ {c}
  BY DEF RejoinFails, NoBudget
<1>2. \A d \in Conversations : Leaving(d)' = Leaving(d)
  BY <1>1 DEF Leaving
<1>3. LeaveInv' /\ JoinedIsMember'
  BY <1>1, <1>2 DEF Inv, ClientInv, LeaveInv, JoinedIsMember
<1>. QED
  BY <1>1, <1>3, HubQuietInv DEF Inv, TypeOK

LEMMA DropInv ==
    ASSUME Inv, Drop
    PROVE  Inv'
<1>1. /\ UNCHANGED <<logVars, storeVars, fetches, sendVars, archiveVars, waiting, gestures>>
      /\ conn' \in {"Reconnecting", "Disconnected"} /\ faults' = faults + 1
      /\ hub' = <<>> /\ members' = {} /\ rejoining' = {}
      /\ joined' = joined \ rejoining /\ ghosts' = ghosts \ rejoining
  BY DEF Drop, Fault
<1>2. LeaveInv' /\ JoinedIsMember'
  BY <1>1 DEF LeaveInv, Leaving, JoinedIsMember
<1>3. hub' \in Seq(Invocations)
  BY <1>1
<1>. QED
  BY <1>1, <1>2, <1>3, HubQuietInv DEF Inv, TypeOK

LEMMA ReloadInv ==
    ASSUME Inv, Reload
    PROVE  Inv'
<1>1. /\ UNCHANGED <<log, posted, intent, full, archival, faults>> /\ gestures' = gestures + 1
      /\ pending' = [k \in Keys |-> IF intent[k].conv \in volatile THEN "none" ELSE pending[k]]
      /\ lost' = lost \union UNION {Kept(c) : c \in volatile}
      /\ volatile' = {} /\ archiving' = {}
      /\ have' = [c \in Conversations |-> {}] /\ last' = [c \in Conversations |-> 0]
      /\ skipped' = [c \in Conversations |-> {}] /\ fetches' = {}
      /\ calls' = [k \in Keys |-> 0] /\ conn' = "Disconnected"
      /\ joined' = {} /\ rejoining' = {} /\ members' = {} /\ ghosts' = {}
      /\ waiting' = <<>> /\ hub' = <<>>
  BY DEF Reload, Gesture, logVars
<1>2. TypeOK'
  <2>1. lost' \subseteq Keys
    BY <1>1 DEF Kept, Inv, TypeOK
  <2>. QED
    BY <2>1, <1>1 DEF Inv, TypeOK
<1>3. StoreInv'
  BY <1>1, LogTyped DEF Inv, StoreInv
<1>4. FetchInv' /\ LeaveInv' /\ JoinedIsMember'
  BY <1>1 DEF FetchInv, LeaveInv, Leaving, JoinedIsMember
<1>5. SendInv'
  <2>1. lost \subseteq lost' /\ \A k \in Keys : pending'[k] = "none" \/ pending'[k] = pending[k]
    BY <1>1
  <2>2. \A k \in Keys : ~ (calls'[k] > 0)
    BY <1>1
  <2>. QED
    BY <1>1, <2>1, <2>2, SendsStay
<1>6. UnsentIsKept'
  <2>1. ASSUME NEW k \in Keys PROVE pending'[k] = pending[k] \/ k \in lost'
    <3>1. CASE intent[k].conv \in volatile /\ pending[k] # "none"
      <4>1. k \in Kept(intent[k].conv)
        BY <3>1 DEF Kept
      <4>. QED
        BY <1>1, <3>1, <4>1
    <3>2. CASE ~ (intent[k].conv \in volatile /\ pending[k] # "none")
      BY <1>1, <3>2
    <3>. QED
      BY <3>1, <3>2
  <2>2. lost \subseteq lost' /\ \A k \in Keys : Sent(k)' = Sent(k)
    BY <1>1 DEF Sent
  <2>. QED
    BY <1>1, <2>1, <2>2 DEF Inv, ClientInv, UnsentIsKept
<1>7. HolesAreExplained'
  BY <1>1 DEF HolesAreExplained, HolesOf
<1>. QED
  BY <1>2, <1>3, <1>4, <1>5, <1>6, <1>7 DEF Inv, ClientInv

----------------------------------------------------------------------------
(* Archiving, and localStorage. *)

\* What touches neither messages nor entries nor the hub.
LEMMA AsideInv ==
    ASSUME Inv, UNCHANGED <<logVars, storeVars, fetches, intent, pending, lost, calls, hubVars>>,
           volatile' \subseteq Conversations, full' \in BOOLEAN,
           archival' \in [Conversations -> {"none", "asked", "archived"}],
           archiving' \subseteq Conversations, gestures' \in Nat, faults' \in Nat
    PROVE  Inv'
<1>1. UNCHANGED <<log, posted>>
  BY DEF logVars
<1>2. StoreInv' /\ FetchInv' /\ LeaveInv' /\ JoinedIsMember' /\ HolesAreExplained'
  BY <1>1, ElsewhereStays
<1>3. SendInv'
  BY <1>1, SendsStay
<1>4. UnsentIsKept'
  BY <1>1, StoreStays
<1>5. TypeOK'
  BY <1>1 DEF Inv, TypeOK, storeVars, hubVars
<1>. QED
  BY <1>2, <1>3, <1>4, <1>5 DEF Inv, ClientInv

LEMMA ArchiveInv ==
    ASSUME Inv, NEW c \in Conversations, Archive(c) \/ ArchiveCommits(c) \/ ArchiveFails(c)
    PROVE  Inv'
<1>1. /\ UNCHANGED <<logVars, storeVars, fetches, sendVars, hubVars>>
      /\ archival' \in [Conversations -> {"none", "asked", "archived"}]
      /\ archiving' \subseteq Conversations /\ gestures' \in Nat /\ faults' \in Nat
  <2>1. CASE Archive(c)
    BY <2>1 DEF Archive, Gesture, Inv, TypeOK
  <2>2. CASE ArchiveCommits(c)
    BY <2>2 DEF ArchiveCommits, NoBudget, Inv, TypeOK
  <2>3. CASE ArchiveFails(c)
    BY <2>3 DEF ArchiveFails, Fault, Inv, TypeOK
  <2>. QED
    BY <2>1, <2>2, <2>3
<1>. QED
  BY <1>1, AsideInv DEF sendVars, unsentVars, Inv, TypeOK

LEMMA StorageInv ==
    ASSUME Inv, StorageTurns
    PROVE  Inv'
<1>1. /\ UNCHANGED <<logVars, storeVars, fetches, intent, pending, volatile, lost, calls,
                     hubVars, archiveVars, gestures, faults>>
      /\ full' \in BOOLEAN
  BY DEF StorageTurns, NoBudget
<1>. QED
  BY <1>1, AsideInv DEF archiveVars, Inv, TypeOK

LEMMA RemovalInv ==
    ASSUME Inv, NEW c \in Conversations, ArchiveAnswered(c)
    PROVE  Inv'
<1>1. /\ UNCHANGED <<log, posted, fetches, intent, full, calls, hubVars, archival,
                     gestures, faults>>
      /\ archiving' = archiving \ {c}
      /\ have' = [have EXCEPT ![c] = {}] /\ last' = [last EXCEPT ![c] = 0]
      /\ skipped' = [skipped EXCEPT ![c] = {}]
      /\ pending' = [k \in Keys |-> IF k \in Kept(c) THEN "none" ELSE pending[k]]
      /\ volatile' = volatile \ {c}
      /\ lost' = lost \union Kept(c)
  BY DEF ArchiveAnswered, NoBudget, logVars
<1>2. Kept(c) \subseteq Keys
  BY DEF Kept
<1>3. TypeOK'
  BY <1>1, <1>2 DEF Inv, TypeOK, hubVars
<1>4. /\ have'[c] = {} /\ last'[c] = 0
      /\ \A d \in Conversations \ {c} :
             have'[d] = have[d] /\ last'[d] = last[d] /\ skipped'[d] = skipped[d]
  BY <1>1 DEF Inv, TypeOK
<1>5. StoreInv'
  BY <1>1, <1>4, LogTyped DEF Inv, ClientInv, StoreInv
<1>6. FetchInv'
  BY <1>1, FetchesShrink
<1>7. SendInv'
  BY <1>1, SendsStay
<1>8. LeaveInv' /\ JoinedIsMember'
  BY <1>1, HubStays
<1>9. UnsentIsKept'
  <2>1. \A k \in Keys : Sent(k)' = Sent(k) /\ (pending'[k] = pending[k] \/ k \in lost')
    BY <1>1 DEF Sent
  <2>. QED
    BY <2>1, <1>1 DEF Inv, ClientInv, UnsentIsKept
<1>10. HolesAreExplained'
  <2>1. HolesOf(have'[c]) = {}
    BY <1>4 DEF HolesOf
  <2>2. \A d \in Conversations : HolesOf(have'[d]) \subseteq skipped'[d]
    BY <2>1, <1>4 DEF Inv, ClientInv, HolesAreExplained
  <2>. QED
    BY <2>2 DEF HolesAreExplained, HolesOf
<1>. QED
  BY <1>3, <1>5, <1>6, <1>7, <1>8, <1>9, <1>10 DEF Inv, ClientInv

----------------------------------------------------------------------------
LEMMA NextInv == Inv /\ [Next]_vars => Inv'
<1>. SUFFICES ASSUME Inv, [Next]_vars PROVE Inv'
  OBVIOUS
<1>1. CASE UNCHANGED vars
  <2>1. /\ UNCHANGED <<logVars, storeVars, sendVars, archiveVars, fetches, hubVars>>
        /\ UNCHANGED <<gestures, faults>>
    BY <1>1 DEF vars
  <2>2. LeaveInv' /\ JoinedIsMember'
    BY <2>1, HubStays
  <2>. QED
    BY <2>1, <2>2, HubQuietInv DEF hubVars, Inv, TypeOK
<1>2. ASSUME NEW f \in fetches,
             \/ \E length \in f.seen..Len(log[f.conv]) : FetchAnswered(f, length)
             \/ FetchFails(f)
      PROVE  Inv'
  BY <1>2, AnswerInv, FailureInv
<1>3. ASSUME NEW c \in Conversations,
             \/ \E n \in 1..Len(log[c]) : Receive(c, n)
             \/ \E t \in Texts : Send(c, t)
             \/ OtherWrites(c)
             \/ Join(c) \/ Leave(c) \/ Rejoin(c) \/ RejoinFails(c)
             \/ Archive(c) \/ ArchiveCommits(c) \/ ArchiveAnswered(c) \/ ArchiveFails(c)
      PROVE  Inv'
  BY <1>3, ReceiveInv, SendsInv, OtherInv, JoinInv, LeaveInvKept, RejoinInv, RejoinFailureInv,
     ArchiveInv, RemovalInv
<1>4. ASSUME NEW k \in Keys, Retry(k) \/ Commit(k) \/ SendAnswered(k) \/ SendFails(k)
      PROVE  Inv'
  BY <1>4, RetryInv, CommitInv, SendAnswerInv, SendFailureInv
<1>5. CASE Tick \/ HubExecutes \/ Connect \/ StartFails \/ Drop \/ Reload \/ StorageTurns
  BY <1>5, TickInv, ExecuteInv, ConnectInv, StartFailureInv, DropInv, ReloadInv, StorageInv
<1>. QED
  BY <1>1, <1>2, <1>3, <1>4, <1>5 DEF Next

LEMMA InvCorrect == Spec => []Inv
BY InitInv, NextInv, PTL DEF Spec

\* Variables stay within their types, whatever is lost, late or reloaded.
THEOREM ClientTypeCorrect == Spec => []TypeOK
<1>1. Inv => TypeOK
  BY DEF Inv
<1>. QED
  BY <1>1, InvCorrect, PTL

\* The parts of the invariant: the store, fetches, sends and the hub's groups.
THEOREM ClientCorrect == Spec => []ClientInv
<1>1. Inv => ClientInv
  BY DEF Inv
<1>. QED
  BY <1>1, InvCorrect, PTL

\* No message stays missing between two that are shown, but for the ways that
\* are known (client.js fetchAfter and ingest).
THEOREM HolesExplained == Spec => []HolesAreExplained
<1>1. Inv => HolesAreExplained
  BY DEF Inv, ClientInv
<1>. QED
  BY <1>1, InvCorrect, PTL

\* Until its message is in the log, a text that was sent is among the unsent
\* messages, but for what localStorage refused beside others or a reload found
\* in memory only, and for an archived conversation (store.js savePending,
\* clearPending, removeConversation, client.js ingest and send).
THEOREM UnsentKept == Spec => []UnsentIsKept
<1>1. Inv => UnsentIsKept
  BY DEF Inv, ClientInv
<1>. QED
  BY <1>1, InvCorrect, PTL

\* A text is in the log once, however often it was sent (client.js send and its
\* reuse of the client message id), but for one the page had to forget.
THEOREM SaidOnceCorrect == Spec => []SaidOnce
<1>1. Inv => SaidOnce
  <2>. SUFFICES ASSUME Inv, NEW c \in Conversations,
                       NEW m \in 1..Len(log[c]), NEW n \in 1..Len(log[c]),
                       log[c][m] # Other, log[c][n] # Other,
                       intent[log[c][m]] = intent[log[c][n]]
                PROVE  m = n \/ log[c][m] \in lost \/ log[c][n] \in lost
    BY DEF SaidOnce
  <2>1. /\ log[c][m] \in posted /\ log[c][m] \in Keys /\ intent[log[c][m]] # NoIntent
        /\ log[c][n] \in posted /\ log[c][n] \in Keys
    BY DEF Inv, TypeOK, ClientInv, SendInv
  <2>2. log[c][m] = log[c][n] \/ log[c][m] \in lost \/ log[c][n] \in lost
    BY <2>1 DEF Inv, ClientInv, SendInv
  <2>. QED
    BY <2>2 DEF Inv, ClientInv, SendInv
<1>. QED
  BY <1>1, InvCorrect, PTL

\* What the transport counts as joined the hub sends, but for what was left
\* while its join was under way (transport.js rejoinAuthorizedConversations).
THEOREM JoinedCorrect == Spec => []JoinedIsMember
<1>1. Inv => JoinedIsMember
  BY DEF Inv, ClientInv
<1>. QED
  BY <1>1, InvCorrect, PTL
=============================================================================
