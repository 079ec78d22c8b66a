------------------------ MODULE AdminConsoleProofs ------------------------
(***************************************************************************)
(* Proofs about the two halves of the admin console, for any clients,      *)
(* conversations, texts, versions and bounds: AdminCases and AdminChat.    *)
(***************************************************************************)
EXTENDS AdminCases, AdminChat, FiniteSetTheorems, TLAPS

-----------------------------------------------------------------------------
(* Cases: types. *)

Table == [made: BOOLEAN, shows: Queries \union {NoQuery},
          asks: Queries \union {NoQuery}, failed: BOOLEAN]
Loads == [of: Scopes, latest: BOOLEAN]
Versions == 1..MaxVersion

LEMMA QueryType ==
    ASSUME NEW k \in Kinds, NEW c \in Scopes, NEW f \in [Kinds -> Filters]
    PROVE  Query(k, c, f) \in Queries /\ Query(k, c, f) /= NoQuery
BY DEF Query, Queries, NoQuery, Filters

LEMMA ReloadedType ==
    ASSUME NEW T \in [Kinds -> Table], NEW S, NEW c \in Scopes, NEW f \in [Kinds -> Filters]
    PROVE  Reloaded(T, S, c, f) \in [Kinds -> Table]
<1>1. ASSUME NEW k \in Kinds PROVE [T[k] EXCEPT !.asks = Query(k, c, f)] \in Table
  BY QueryType DEF Table
<1>. QED
  BY <1>1 DEF Reloaded

LEMMA MadeType ==
    ASSUME NEW T \in [Kinds -> Table], NEW S, NEW c \in Scopes, NEW f \in [Kinds -> Filters]
    PROVE  Made(T, S, c, f) \in [Kinds -> Table]
<1>1. ASSUME NEW k \in Kinds
      PROVE  [T[k] EXCEPT !.made = TRUE, !.asks = Query(k, c, f)] \in Table
  BY QueryType DEF Table
<1>. QED
  BY <1>1 DEF Made

DashboardOK ==
    /\ dashboard \in [kind: {"loading", "shown", "error"}, of: Scopes]
    /\ loads \subseteq Loads

ScopeOK ==
    /\ currentClientId \in Scopes /\ page \in Pages /\ filter \in [Kinds -> Filters]
    /\ tables \in [Kinds -> Table]
    /\ DashboardOK
    /\ current \in [Kinds -> Case \union {Nothing}]

CaseOK ==
    /\ details \subseteq [kind: Kinds, client: Clients, since: Versions]
    /\ saves \in [Kinds -> Save \union {NoSave}]
    /\ version \in [Kinds \X Clients -> Versions]
    /\ overwrote \subseteq Kinds

LEMMA CasesTypes == CasesTypeOK <=> ScopeOK /\ CaseOK
BY Zenon DEF CasesTypeOK, ScopeOK, CaseOK, DashboardOK, Table, Loads, Versions

LEMMA CasesTypeInit == CasesInit => ScopeOK /\ CaseOK
<1>. SUFFICES ASSUME CasesInit PROVE ScopeOK /\ CaseOK
  OBVIOUS
<1>1. tables \in [Kinds -> Table]
  <2>1. [made |-> FALSE, shows |-> NoQuery, asks |-> NoQuery, failed |-> FALSE] \in Table
    BY DEF Table
  <2>. QED
    BY <2>1 DEF CasesInit
<1>2. DashboardOK
  <2>1. [kind |-> "loading", of |-> All] \in [kind: {"loading", "shown", "error"}, of: Scopes]
    BY DEF Scopes
  <2>2. [of |-> All, latest |-> TRUE] \in Loads
    BY DEF Loads, Scopes
  <2>. QED
    BY <2>1, <2>2 DEF CasesInit, DashboardOK
<1>3. ScopeOK
  <2>1. currentClientId \in Scopes /\ page \in Pages /\ filter \in [Kinds -> Filters]
    BY DEF CasesInit, Scopes, Pages, Filters
  <2>2. current \in [Kinds -> Case \union {Nothing}]
    BY DEF CasesInit
  <2>. QED
    BY <1>1, <1>2, <2>1, <2>2 DEF ScopeOK
<1>4. CaseOK
  <2>1. 1 \in Versions
    BY CasesAssumption DEF Versions
  <2>. QED
    BY <2>1 DEF CasesInit, CaseOK
<1>. QED
  BY <1>3, <1>4

LEMMA DashboardType ==
    ASSUME DashboardOK, NEW c \in Scopes, LoadDashboard(c)
    PROVE  DashboardOK'
<1>1. ASSUME NEW l \in Loads PROVE [l EXCEPT !.latest = FALSE] \in Loads
  BY <1>1 DEF Loads
<1>2. [of |-> c, latest |-> TRUE] \in Loads
  BY DEF Loads
<1>. QED
  BY <1>1, <1>2 DEF DashboardOK, LoadDashboard

LEMMA FilteredType ==
    ASSUME ScopeOK, NEW S, NEW T \in [Kinds -> Table], NEW c \in Scopes,
           NEW f \in [Kinds -> Filters], tables' = Reloaded(T, S, c, f), current' = Closed(T, S)
    PROVE  /\ tables' \in [Kinds -> Table]
           /\ current' \in [Kinds -> Case \union {Nothing}]
BY ReloadedType DEF ScopeOK, Closed

\* The choice of a client, the pages, the filters and the tables.
ScopeStep ==
    \/ \E c \in Scopes : SwitchClient(c) \/ OpenClient(c)
    \/ \E p \in Pages : Visit(p)
    \/ \E k \in Kinds : \/ \E f \in Filters : Filter(k, f) \/ Navigate(k, f)
                        \/ CaseChanged(k) \/ TableAnswered(k) \/ TableFails(k)

LEMMA ScopeStepType ==
  ScopeOK /\ ScopeStep => ScopeOK' /\ UNCHANGED <<details, saves, version, overwrote>>
<1>. SUFFICES ASSUME ScopeOK, ScopeStep
              PROVE  ScopeOK' /\ UNCHANGED <<details, saves, version, overwrote>>
  OBVIOUS
<1>0. /\ tables \in [Kinds -> Table] /\ DashboardOK
      /\ currentClientId \in Scopes /\ filter \in [Kinds -> Filters]
  BY DEF ScopeOK
<1>. USE DEF scopeVars, dashboardVars, caseVars
<1>1. ASSUME UNCHANGED <<dashboard, loads>> PROVE DashboardOK'
  BY <1>0, <1>1 DEF DashboardOK
<1>2. ASSUME NEW c \in Scopes, SwitchClient(c)
      PROVE  ScopeOK' /\ UNCHANGED <<details, saves, version, overwrote>>
  <2>1. DashboardOK'
    BY <1>0, <1>1, <1>2, DashboardType DEF SwitchClient
  <2>2. tables' = Reloaded(tables, Kinds, c, filter) /\ current' = Closed(tables, Kinds)
    BY <1>2 DEF SwitchClient, FilterByClient
  <2>. QED
    BY <1>0, <1>2, <2>1, <2>2, FilteredType DEF SwitchClient, ScopeOK
<1>3. ASSUME NEW c \in Scopes, OpenClient(c)
      PROVE  ScopeOK' /\ UNCHANGED <<details, saves, version, overwrote>>
  <2>1. DashboardOK'
    BY <1>0, <1>3, DashboardType DEF OpenClient
  <2>2. tables' = Reloaded(tables, Kinds, c, filter) /\ current' = Closed(tables, Kinds)
    BY <1>3 DEF OpenClient, FilterByClient
  <2>. QED
    BY <1>0, <1>3, <2>1, <2>2, FilteredType DEF OpenClient, ScopeOK, Pages
<1>4. ASSUME NEW p \in Pages, Visit(p)
      PROVE  ScopeOK' /\ UNCHANGED <<details, saves, version, overwrote>>
  <2>1. DashboardOK'
    BY <1>0, <1>1, <1>4, DashboardType DEF Visit
  <2>2. tables' \in [Kinds -> Table]
    BY <1>0, <1>4, MadeType DEF Visit
  <2>. QED
    BY <1>4, <2>1, <2>2 DEF Visit, ScopeOK
<1>5. ASSUME NEW k \in Kinds, NEW f \in Filters, Filter(k, f)
      PROVE  ScopeOK' /\ UNCHANGED <<details, saves, version, overwrote>>
  <2>1. filter' \in [Kinds -> Filters]
    BY <1>0, <1>5 DEF Filter, FilterByStatus
  <2>2. /\ tables' = Reloaded(tables, {k}, currentClientId, filter')
        /\ current' = Closed(tables, {k})
    BY <1>5 DEF Filter, FilterByStatus
  <2>3. DashboardOK'
    BY <1>1, <1>5 DEF Filter
  <2>. QED
    BY <1>0, <1>5, <2>1, <2>2, <2>3, FilteredType DEF Filter, ScopeOK
<1>6. ASSUME NEW k \in Kinds, NEW f \in Filters, Navigate(k, f)
      PROVE  ScopeOK' /\ UNCHANGED <<details, saves, version, overwrote>>
  <2>. DEFINE T == Made(tables, {k}, currentClientId, filter)
  <2>0. T \in [Kinds -> Table]
    BY <1>0, MadeType
  <2>1. filter' \in [Kinds -> Filters]
    BY <1>0, <1>6 DEF Navigate, FilterByStatus
  <2>2. tables' = Reloaded(T, {k}, currentClientId, filter') /\ current' = Closed(T, {k})
    BY <1>6 DEF Navigate, FilterByStatus
  <2>3. DashboardOK'
    BY <1>1, <1>6 DEF Navigate
  <2>4. tables' \in [Kinds -> Table] /\ current' \in [Kinds -> Case \union {Nothing}]
    <3>. HIDE DEF T
    <3>. QED
      BY <1>0, <2>0, <2>1, <2>2, FilteredType
  <2>. QED
    BY <1>6, <2>1, <2>3, <2>4 DEF Navigate, ScopeOK, Pages
<1>7. ASSUME NEW k \in Kinds, CaseChanged(k) \/ TableAnswered(k) \/ TableFails(k)
      PROVE  ScopeOK' /\ UNCHANGED <<details, saves, version, overwrote>>
  <2>1. tables' \in [Kinds -> Table]
    <3>1. CASE CaseChanged(k)
      BY <1>0, <3>1, ReloadedType DEF CaseChanged
    <3>2. CASE TableAnswered(k)
      BY <1>0, <3>2 DEF TableAnswered, Table
    <3>3. CASE TableFails(k)
      BY <1>0, <3>3 DEF TableFails, Table
    <3>. QED
      BY <1>7, <3>1, <3>2, <3>3
  <2>2. UNCHANGED <<scopeVars, dashboardVars, caseVars>>
    BY <1>7 DEF CaseChanged, TableAnswered, TableFails
  <2>. QED
    BY <1>1, <2>1, <2>2 DEF ScopeOK
<1>. QED
  BY <1>2, <1>3, <1>4, <1>5, <1>6, <1>7 DEF ScopeStep

\* Details and the status of a case.
CaseStep ==
    \/ \E k \in Kinds :
        \/ \E c \in Clients : LoadDetails(k, c) \/ ColleagueSaves(k, c)
        \/ CloseDetail(k)
        \/ SaveStatus(k) \/ SaveServed(k) \/ SaveAnswered(k) \/ SaveRefused(k) \/ SaveFails(k)
    \/ \E d \in details : DetailsAnswered(d) \/ DetailsFail(d)

DashboardStep == \E l \in loads : DashboardAnswered(l) \/ DashboardFails(l)

LEMMA CasesSteps == CasesNext <=> ScopeStep \/ CaseStep \/ DashboardStep
BY DEF CasesNext, ScopeStep, CaseStep, DashboardStep

LEMMA DashboardStepType ==
    ScopeOK /\ DashboardStep => ScopeOK' /\ UNCHANGED <<scopeVars, tables, caseVars>>
<1>. SUFFICES ASSUME ScopeOK, NEW l \in loads, DashboardAnswered(l) \/ DashboardFails(l)
              PROVE  ScopeOK' /\ UNCHANGED <<scopeVars, tables, caseVars>>
  BY DEF DashboardStep
<1>1. l \in Loads /\ loads' \subseteq Loads
  BY DEF ScopeOK, DashboardOK, DashboardAnswered, DashboardFails, DashboardEnds
<1>2. DashboardOK'
  BY <1>1 DEF ScopeOK, DashboardOK, Loads, DashboardAnswered, DashboardFails, DashboardEnds
<1>3. UNCHANGED <<scopeVars, tables, caseVars>>
  BY DEF DashboardAnswered, DashboardFails, DashboardEnds
<1>. QED
  BY <1>2, <1>3 DEF ScopeOK, scopeVars, caseVars

\* Several fields of one value of a function, changed at once.
LEMMA FieldsOfSave ==
    ASSUME NEW K, NEW C, NEW f \in [K -> C], NEW k \in K, NEW a, NEW n
    PROVE  [f EXCEPT ![k].at = a, ![k].made = n]
           = [f EXCEPT ![k] = [f[k] EXCEPT !.at = a, !.made = n]]
OBVIOUS

LEMMA FieldsOfCase ==
    ASSUME NEW K, NEW C, NEW f \in [K -> C], NEW k \in K, NEW v, NEW w, NEW b
    PROVE  [f EXCEPT ![k].version = v, ![k].knows = w, ![k].grafted = b]
           = [f EXCEPT ![k] = [f[k] EXCEPT !.version = v, !.knows = w, !.grafted = b]]
OBVIOUS

\* A case that gets another version stays a case.
LEMMA CaseChange ==
    ASSUME NEW s \in Case, NEW v \in Versions, NEW w \in Versions, NEW b \in BOOLEAN
    PROVE  /\ [s EXCEPT !.version = v, !.knows = w, !.grafted = b] \in Case
           /\ [client |-> s.client, version |-> v, knows |-> w, grafted |-> b] \in Case
BY DEF Case, Versions

LEMMA CaseStepType ==
    ScopeOK /\ CaseOK /\ CaseStep => ScopeOK' /\ CaseOK' /\ UNCHANGED scopeVars
<1>. SUFFICES ASSUME ScopeOK, CaseOK, CaseStep
              PROVE  ScopeOK' /\ CaseOK' /\ UNCHANGED scopeVars
  OBVIOUS
<1>. USE DEF scopeVars, dashboardVars
<1>1. ASSUME UNCHANGED <<scopeVars, tables, dashboardVars, current>> PROVE ScopeOK'
  BY <1>1 DEF ScopeOK, DashboardOK
<1>2. ASSUME NEW k \in Kinds, NEW c \in Clients, LoadDetails(k, c)
      PROVE  ScopeOK' /\ CaseOK' /\ UNCHANGED scopeVars
  BY <1>1, <1>2 DEF LoadDetails, CaseOK
<1>3. ASSUME NEW k \in Kinds, NEW c \in Clients, ColleagueSaves(k, c)
      PROVE  ScopeOK' /\ CaseOK' /\ UNCHANGED scopeVars
  <2>1. version' \in [Kinds \X Clients -> Versions]
    BY <1>3, CasesAssumption DEF ColleagueSaves, CaseOK, Versions
  <2>. QED
    BY <1>1, <1>3, <2>1 DEF ColleagueSaves, CaseOK
<1>4. ASSUME NEW k \in Kinds, CloseDetail(k)
      PROVE  ScopeOK' /\ CaseOK' /\ UNCHANGED scopeVars
  BY <1>4 DEF CloseDetail, ScopeOK, DashboardOK, CaseOK
<1>5. ASSUME NEW k \in Kinds, SaveStatus(k)
      PROVE  ScopeOK' /\ CaseOK' /\ UNCHANGED scopeVars
  <2>1. [case |-> current[k], at |-> "sent", made |-> 1] \in Save
    BY <1>5, CasesAssumption DEF SaveStatus, ScopeOK, Save
  <2>. QED
    BY <1>1, <1>5, <2>1 DEF SaveStatus, CaseOK
<1>6. ASSUME NEW k \in Kinds, SaveServed(k)
      PROVE  ScopeOK' /\ CaseOK' /\ UNCHANGED scopeVars
  <2>. DEFINE c == <<k, saves[k].case.client>>
  <2>1. saves[k] \in Save
    BY <1>6 DEF SaveServed, CaseOK, NoSave
  <2>2. c \in Kinds \X Clients
    BY <2>1 DEF Save, Case
  <2>3. UNCHANGED <<scopeVars, tables, dashboardVars, current, details>>
    BY <1>6 DEF SaveServed
  <2>4. CASE saves' = [saves EXCEPT ![k].at = "refused"] /\ UNCHANGED <<version, overwrote>>
    <3>1. [saves[k] EXCEPT !.at = "refused"] \in Save
      BY <2>1 DEF Save
    <3>. QED
      BY <1>1, <2>3, <2>4, <3>1 DEF CaseOK
  <2>5. CASE /\ version[c] < MaxVersion
             /\ version' = [version EXCEPT ![c] = @ + 1]
             /\ saves' = [saves EXCEPT ![k].at = "saved", ![k].made = version'[c]]
             /\ overwrote' \in {overwrote, overwrote \union {k}}
    <3>1. version' \in [Kinds \X Clients -> Versions]
      BY <2>2, <2>5, CasesAssumption DEF CaseOK, Versions
    <3>2. \A n \in Versions : [saves[k] EXCEPT !.at = "saved", !.made = n] \in Save
      BY <2>1 DEF Save, Versions
    <3>3. [saves[k] EXCEPT !.at = "saved", !.made = version'[c]] \in Save
      BY <2>2, <3>1, <3>2
    <3>4. saves' = [saves EXCEPT ![k] = [saves[k] EXCEPT !.at = "saved", !.made = version'[c]]]
      <4>1. saves \in [Kinds -> Save \union {NoSave}]
        BY DEF CaseOK
      <4>. DEFINE n == version'[c]
      <4>2. saves' = [saves EXCEPT ![k].at = "saved", ![k].made = n]
        BY <2>5
      <4>3. saves' = [saves EXCEPT ![k] = [saves[k] EXCEPT !.at = "saved", !.made = n]]
        <5>. HIDE DEF n
        <5>. QED
          BY <4>1, <4>2, FieldsOfSave
      <4>. QED
        BY <4>3
    <3>. QED
      BY <1>1, <2>3, <2>5, <3>1, <3>3, <3>4 DEF CaseOK
  <2>. QED
    BY <1>6, <2>4, <2>5 DEF SaveServed
<1>7. ASSUME NEW k \in Kinds, SaveAnswered(k)
      PROVE  ScopeOK' /\ CaseOK' /\ UNCHANGED scopeVars
  <2>1. saves[k] \in Save
    <3>1. saves[k].at = "saved" /\ NoSave.at = "none"
      BY <1>7 DEF SaveAnswered, NoSave
    <3>. QED
      BY <3>1 DEF CaseOK
  <2>2. saves[k].made \in Versions /\ <<k, saves[k].case.client>> \in Kinds \X Clients
    BY <2>1 DEF Save, Case, Versions
  <2>3. CaseOK'
    <3>1. /\ saves' = [saves EXCEPT ![k] = NoSave]
          /\ UNCHANGED <<details, version, overwrote>>
      BY <1>7 DEF SaveAnswered
    <3>. QED
      BY <3>1 DEF CaseOK
  <2>4. CASE UNCHANGED <<current, tables, dashboardVars>>
    BY <1>1, <1>7, <2>3, <2>4 DEF SaveAnswered
  <2>5. CASE current[k] /= Nothing
    <3>1. current[k] \in Case
      BY <2>5 DEF ScopeOK
    <3>2. PICK v \in saves[k].made..version[<<k, saves[k].case.client>>] :
              current' = [current EXCEPT
                  ![k].version = v,
                  ![k].knows = IF current[k].client = saves[k].case.client
                               THEN saves[k].made ELSE @,
                  ![k].grafted = current[k].client /= saves[k].case.client
                                 \/ v > saves[k].made]
      BY <1>7, <2>5 DEF SaveAnswered
    <3>3. v \in Versions
      BY <2>2, CasesAssumption DEF CaseOK, Versions
    <3>. DEFINE w == IF current[k].client = saves[k].case.client
                     THEN saves[k].made ELSE current[k].knows
                b == current[k].client /= saves[k].case.client \/ v > saves[k].made
    <3>4. w \in Versions /\ b \in BOOLEAN
      BY <2>2, <3>1 DEF Case, Versions
    <3>5. current' = [current EXCEPT
                         ![k] = [current[k] EXCEPT !.version = v, !.knows = w, !.grafted = b]]
      <4>1. current' = [current EXCEPT ![k].version = v, ![k].knows = w, ![k].grafted = b]
        BY <3>2
      <4>2. current \in [Kinds -> Case \union {Nothing}]
        BY DEF ScopeOK
      <4>. HIDE DEF w, b
      <4>. QED
        BY <4>1, <4>2, FieldsOfCase
    <3>6. current' \in [Kinds -> Case \union {Nothing}]
      <4>. HIDE DEF w, b
      <4>. QED
        BY <3>1, <3>3, <3>4, <3>5, CaseChange DEF ScopeOK
    <3>7. tables' \in [Kinds -> Table]
      <4>1. tables' = Reloaded(tables, {k}, currentClientId, filter)
        BY <1>7, <2>5 DEF SaveAnswered
      <4>2. /\ tables \in [Kinds -> Table]
            /\ currentClientId \in Scopes /\ filter \in [Kinds -> Filters]
        BY DEF ScopeOK
      <4>. QED
        BY <4>1, <4>2, ReloadedType
    <3>8. DashboardOK'
      BY <1>7, <2>5, DashboardType DEF SaveAnswered, ScopeOK, DashboardOK
    <3>. QED
      BY <1>7, <2>3, <3>6, <3>7, <3>8 DEF SaveAnswered, ScopeOK
  <2>. QED
    BY <1>7, <2>4, <2>5 DEF SaveAnswered
<1>8. ASSUME NEW k \in Kinds, SaveRefused(k) \/ SaveFails(k)
      PROVE  ScopeOK' /\ CaseOK' /\ UNCHANGED scopeVars
  BY <1>1, <1>8 DEF SaveRefused, SaveFails, AfterRefusal, CaseOK
<1>9. ASSUME NEW d \in details, DetailsAnswered(d)
      PROVE  ScopeOK' /\ CaseOK' /\ UNCHANGED scopeVars
  <2>1. d.kind \in Kinds /\ d.client \in Clients /\ d.since \in Versions
    BY DEF CaseOK
  <2>2. PICK v \in d.since..version[<<d.kind, d.client>>] :
            current' = [current EXCEPT ![d.kind] =
                [client |-> d.client, version |-> v, knows |-> v, grafted |-> FALSE]]
    BY <1>9 DEF DetailsAnswered
  <2>3. v \in Versions
    BY <2>1, CasesAssumption DEF CaseOK, Versions
  <2>4. [client |-> d.client, version |-> v, knows |-> v, grafted |-> FALSE] \in Case
    BY <2>1, <2>3 DEF Case, Versions
  <2>. QED
    BY <1>9, <2>1, <2>2, <2>4 DEF DetailsAnswered, ScopeOK, DashboardOK, CaseOK
<1>10. ASSUME NEW d \in details, DetailsFail(d)
       PROVE  ScopeOK' /\ CaseOK' /\ UNCHANGED scopeVars
  BY <1>1, <1>10 DEF DetailsFail, CaseOK
<1>. QED
  BY <1>2, <1>3, <1>4, <1>5, <1>6, <1>7, <1>8, <1>9, <1>10 DEF CaseStep

LEMMA CasesTypeNext == ScopeOK /\ CaseOK /\ [CasesNext]_casesVars => ScopeOK' /\ CaseOK'
<1>1. ASSUME UNCHANGED <<details, saves, version, overwrote>>, CaseOK PROVE CaseOK'
  BY <1>1 DEF CaseOK
<1>2. ASSUME ScopeOK, CaseOK, UNCHANGED casesVars PROVE ScopeOK' /\ CaseOK'
  BY <1>2 DEF ScopeOK, DashboardOK, CaseOK, casesVars, scopeVars, dashboardVars, caseVars
<1>. QED
  BY <1>1, <1>2, CasesSteps, ScopeStepType, CaseStepType, DashboardStepType DEF caseVars

\* Scope, tables, dashboard, panels and saves keep their types, whatever is
\* clicked and answered, for any clients and versions (admin-core.js, admin-tickets.js).
THEOREM CasesTypeCorrect == CasesSpec => []CasesTypeOK
<1>1. CasesInit => ScopeOK /\ CaseOK
  BY CasesTypeInit
<1>2. (ScopeOK /\ CaseOK) /\ [CasesNext]_casesVars => (ScopeOK /\ CaseOK)'
  BY CasesTypeNext
<1>. QED
  BY <1>1, <1>2, CasesTypes, PTL DEF CasesSpec

-----------------------------------------------------------------------------
(* What is on the way to a table is what the switcher and its filter say; the
   same of the dashboard while its page is open. *)

Follows(T, c, f) ==
    \A k \in Kinds :
        /\ T[k].asks \in {NoQuery, Query(k, c, f)}
        /\ ~ T[k].made => T[k].asks = NoQuery
        /\ T[k].made /\ T[k].asks = NoQuery /\ ~ T[k].failed => T[k].shows = Query(k, c, f)

DashboardFollows ==
    page = "dashboard" =>
        /\ \A l \in loads : l.latest => l.of = currentClientId
        /\ (\A l \in loads : ~ l.latest)
           => dashboard.of = currentClientId /\ dashboard.kind /= "loading"

ScopeInv == Follows(tables, currentClientId, filter) /\ DashboardFollows

LEMMA ReloadedFollows ==
    ASSUME NEW T \in [Kinds -> Table], NEW S, NEW c \in Scopes, NEW d \in Scopes,
           NEW f \in [Kinds -> Filters], NEW g \in [Kinds -> Filters],
           \A k \in Kinds \ S : Query(k, c, f) = Query(k, d, g),
           Follows(T, c, f)
    PROVE  Follows(Reloaded(T, S, d, g), d, g)
<1>. SUFFICES ASSUME NEW k \in Kinds
              PROVE  LET t == Reloaded(T, S, d, g)[k] IN
                     /\ t.asks \in {NoQuery, Query(k, d, g)}
                     /\ ~ t.made => t.asks = NoQuery
                     /\ t.made /\ t.asks = NoQuery /\ ~ t.failed => t.shows = Query(k, d, g)
  BY DEF Follows
<1>0. Query(k, d, g) /= NoQuery
  BY QueryType
<1>1. T[k] \in Table
  OBVIOUS
<1>2. CASE k \in S /\ T[k].made
  <2>1. Reloaded(T, S, d, g)[k] = [T[k] EXCEPT !.asks = Query(k, d, g)]
    BY <1>2 DEF Reloaded
  <2>. QED
    BY <1>0, <1>1, <1>2, <2>1 DEF Table
<1>3. CASE ~(k \in S /\ T[k].made)
  <2>1. Reloaded(T, S, d, g)[k] = T[k]
    BY <1>3 DEF Reloaded
  <2>2. T[k].made => Query(k, c, f) = Query(k, d, g)
    BY <1>3
  <2>. QED
    BY <2>1, <2>2 DEF Follows
<1>. QED
  BY <1>2, <1>3

LEMMA MadeFollows ==
    ASSUME NEW T \in [Kinds -> Table], NEW S, NEW c \in Scopes,
           NEW f \in [Kinds -> Filters], Follows(T, c, f)
    PROVE  Follows(Made(T, S, c, f), c, f)
<1>. SUFFICES ASSUME NEW k \in Kinds
              PROVE  LET t == Made(T, S, c, f)[k] IN
                     /\ t.asks \in {NoQuery, Query(k, c, f)}
                     /\ ~ t.made => t.asks = NoQuery
                     /\ t.made /\ t.asks = NoQuery /\ ~ t.failed => t.shows = Query(k, c, f)
  BY DEF Follows
<1>0. Query(k, c, f) /= NoQuery
  BY QueryType
<1>1. T[k] \in Table
  OBVIOUS
<1>2. CASE k \in S /\ ~ T[k].made
  <2>1. Made(T, S, c, f)[k] = [T[k] EXCEPT !.made = TRUE, !.asks = Query(k, c, f)]
    BY <1>2 DEF Made
  <2>. QED
    BY <1>0, <1>1, <2>1 DEF Table
<1>3. CASE ~(k \in S /\ ~ T[k].made)
  <2>1. Made(T, S, c, f)[k] = T[k]
    BY <1>3 DEF Made
  <2>. QED
    BY <2>1 DEF Follows
<1>. QED
  BY <1>2, <1>3

\* Whoever loads the dashboard asks for the client that is chosen.
LEMMA LoadFollows ==
    ASSUME DashboardOK, LoadDashboard(currentClientId')
    PROVE  DashboardFollows'
<1>1. \A l \in Loads : ~ [l EXCEPT !.latest = FALSE].latest
  BY DEF Loads
<1>. DEFINE new == [of |-> currentClientId', latest |-> TRUE]
<1>2. loads' = {[l EXCEPT !.latest = FALSE] : l \in loads} \union {new}
  BY DEF LoadDashboard
<1>3. new.latest /\ new.of = currentClientId'
  OBVIOUS
<1>4. /\ \A l \in loads' : l.latest => l.of = currentClientId'
      /\ \E l \in loads' : l.latest
  <2>. HIDE DEF new
  <2>. QED
    BY <1>1, <1>2, <1>3 DEF DashboardOK
<1>. QED
  BY <1>4 DEF DashboardFollows

LEMMA ScopeStepFollows ==
    ASSUME ScopeOK, ScopeInv, ScopeStep
    PROVE  ScopeInv'
<1>0. /\ tables \in [Kinds -> Table] /\ DashboardOK
      /\ currentClientId \in Scopes /\ filter \in [Kinds -> Filters]
      /\ Follows(tables, currentClientId, filter) /\ DashboardFollows
  BY DEF ScopeOK, ScopeInv
<1>. USE DEF scopeVars, dashboardVars
<1>1. ASSUME UNCHANGED <<dashboard, loads>>,
             page' = "dashboard" => page = "dashboard" /\ currentClientId' = currentClientId
      PROVE  DashboardFollows'
  BY <1>0, <1>1 DEF DashboardFollows
<1>2. ASSUME NEW c \in Scopes, SwitchClient(c) PROVE ScopeInv'
  <2>1. DashboardFollows'
    BY <1>0, <1>1, <1>2, LoadFollows DEF SwitchClient
  <2>2. Follows(Reloaded(tables, Kinds, c, filter), c, filter)
    BY <1>0, ReloadedFollows
  <2>. QED
    BY <1>2, <2>1, <2>2 DEF SwitchClient, FilterByClient, ScopeInv
<1>3. ASSUME NEW c \in Scopes, OpenClient(c) PROVE ScopeInv'
  <2>1. DashboardFollows'
    BY <1>0, <1>3, LoadFollows DEF OpenClient
  <2>2. Follows(Reloaded(tables, Kinds, c, filter), c, filter)
    BY <1>0, ReloadedFollows
  <2>. QED
    BY <1>3, <2>1, <2>2 DEF OpenClient, FilterByClient, ScopeInv
<1>4. ASSUME NEW p \in Pages, Visit(p) PROVE ScopeInv'
  <2>1. DashboardFollows'
    BY <1>0, <1>1, <1>4, LoadFollows DEF Visit
  <2>2. Follows(Made(tables, {p}, currentClientId, filter), currentClientId, filter)
    BY <1>0, MadeFollows
  <2>. QED
    BY <1>4, <2>1, <2>2 DEF Visit, ScopeInv
<1>5. ASSUME NEW k \in Kinds, NEW f \in Filters, NEW T \in [Kinds -> Table],
             Follows(T, currentClientId, filter), FilterByStatus(k, f, T)
      PROVE  Follows(tables', currentClientId, filter')
  <2>1. /\ filter' \in [Kinds -> Filters]
        /\ \A j \in Kinds \ {k} : filter'[j] = filter[j]
    BY <1>0, <1>5 DEF FilterByStatus
  <2>2. \A j \in Kinds \ {k} :
            Query(j, currentClientId, filter) = Query(j, currentClientId, filter')
    BY <2>1 DEF Query
  <2>. QED
    BY <1>0, <1>5, <2>1, <2>2, ReloadedFollows DEF FilterByStatus
<1>6. ASSUME NEW k \in Kinds, NEW f \in Filters, Filter(k, f) PROVE ScopeInv'
  <2>1. DashboardFollows'
    BY <1>1, <1>6 DEF Filter
  <2>2. Follows(tables', currentClientId, filter')
    BY <1>0, <1>5, <1>6 DEF Filter
  <2>. QED
    BY <1>6, <2>1, <2>2 DEF Filter, ScopeInv
<1>7. ASSUME NEW k \in Kinds, NEW f \in Filters, Navigate(k, f) PROVE ScopeInv'
  <2>1. k /= "dashboard"
    BY KindsAssumption
  <2>2. DashboardFollows'
    BY <1>1, <1>7, <2>1 DEF Navigate
  <2>3. /\ Made(tables, {k}, currentClientId, filter) \in [Kinds -> Table]
        /\ Follows(Made(tables, {k}, currentClientId, filter), currentClientId, filter)
    BY <1>0, MadeType, MadeFollows
  <2>4. Follows(tables', currentClientId, filter')
    BY <1>5, <1>7, <2>3 DEF Navigate
  <2>. QED
    BY <1>7, <2>2, <2>4 DEF Navigate, ScopeInv
<1>8. ASSUME NEW k \in Kinds, CaseChanged(k) PROVE ScopeInv'
  <2>1. DashboardFollows'
    BY <1>1, <1>8 DEF CaseChanged
  <2>2. Follows(Reloaded(tables, {k}, currentClientId, filter), currentClientId, filter)
    BY <1>0, ReloadedFollows
  <2>. QED
    BY <1>8, <2>1, <2>2 DEF CaseChanged, ScopeInv
<1>9. ASSUME NEW k \in Kinds, TableAnswered(k) \/ TableFails(k) PROVE ScopeInv'
  <2>1. DashboardFollows'
    BY <1>1, <1>9 DEF TableAnswered, TableFails
  <2>2. tables[k].asks = Query(k, currentClientId, filter) /\ tables[k].made
    BY <1>0, <1>9 DEF TableAnswered, TableFails, Follows
  <2>3. ASSUME NEW j \in Kinds \ {k} PROVE tables'[j] = tables[j]
    BY <1>0, <1>9, <2>3 DEF TableAnswered, TableFails
  <2>4. /\ tables'[k].asks = NoQuery /\ tables'[k].made
        /\ ~ tables'[k].failed => tables'[k].shows = Query(k, currentClientId, filter)
    <3>1. CASE TableAnswered(k)
      BY <1>0, <2>2, <3>1 DEF TableAnswered, Table
    <3>2. CASE TableFails(k)
      BY <1>0, <2>2, <3>2 DEF TableFails, Table
    <3>. QED
      BY <1>9, <3>1, <3>2
  <2>5. Follows(tables', currentClientId, filter)
    BY <1>0, <2>3, <2>4 DEF Follows
  <2>. QED
    BY <1>9, <2>1, <2>5 DEF TableAnswered, TableFails, ScopeInv
<1>. QED
  BY <1>2, <1>3, <1>4, <1>6, <1>7, <1>8, <1>9 DEF ScopeStep

LEMMA ScopeInvNext == ScopeOK /\ ScopeInv /\ [CasesNext]_casesVars => ScopeInv'
<1>. SUFFICES ASSUME ScopeOK, ScopeInv, [CasesNext]_casesVars PROVE ScopeInv'
  OBVIOUS
<1>. USE DEF scopeVars, dashboardVars
<1>1. ASSUME UNCHANGED <<scopeVars, tables, dashboardVars>> PROVE ScopeInv'
  BY <1>1 DEF ScopeInv, DashboardFollows
<1>2. CASE UNCHANGED casesVars
  BY <1>1, <1>2 DEF casesVars
<1>3. CASE CaseStep
  <2>1. ASSUME NEW k \in Kinds, SaveAnswered(k) PROVE ScopeInv'
    <3>1. CASE current[k] = Nothing
      BY <1>1, <2>1, <3>1 DEF SaveAnswered
    <3>2. CASE current[k] /= Nothing
      <4>1. Follows(Reloaded(tables, {k}, currentClientId, filter), currentClientId, filter)
        BY ReloadedFollows DEF ScopeOK, ScopeInv
      <4>2. tables' = Reloaded(tables, {k}, currentClientId, filter) /\ UNCHANGED scopeVars
        BY <2>1, <3>2 DEF SaveAnswered
      <4>3. LoadDashboard(currentClientId) \/ UNCHANGED dashboardVars
        BY <2>1, <3>2 DEF SaveAnswered
      <4>4. DashboardFollows'
        BY <4>2, <4>3, LoadFollows DEF ScopeOK, ScopeInv, DashboardFollows
      <4>. QED
        BY <4>1, <4>2, <4>4 DEF ScopeInv
    <3>. QED
      BY <3>1, <3>2
  <2>2. ASSUME NEW k \in Kinds,
               \/ \E c \in Clients : LoadDetails(k, c) \/ ColleagueSaves(k, c)
               \/ CloseDetail(k) \/ SaveStatus(k) \/ SaveServed(k) \/ SaveRefused(k)
               \/ SaveFails(k)
        PROVE  ScopeInv'
    BY <1>1, <2>2 DEF LoadDetails, ColleagueSaves, CloseDetail, SaveStatus, SaveServed,
                      SaveRefused, SaveFails
  <2>3. ASSUME NEW d \in details, DetailsAnswered(d) \/ DetailsFail(d) PROVE ScopeInv'
    BY <1>1, <2>3 DEF DetailsAnswered, DetailsFail
  <2>. QED
    BY <1>3, <2>1, <2>2, <2>3 DEF CaseStep
<1>4. CASE DashboardStep
  <2>1. PICK l \in loads, kind \in {"shown", "error"} : DashboardEnds(l, kind)
    BY <1>4 DEF DashboardStep, DashboardAnswered, DashboardFails
  <2>2. UNCHANGED <<scopeVars, tables>> /\ loads' = loads \ {l}
    BY <2>1 DEF DashboardEnds
  <2>3. /\ l.latest => dashboard' = [kind |-> kind, of |-> l.of]
        /\ ~ l.latest => dashboard' = dashboard
    BY <2>1 DEF DashboardEnds, StillLatest
  <2>4. DashboardFollows'
    BY <2>2, <2>3 DEF ScopeInv, DashboardFollows
  <2>. QED
    BY <2>2, <2>4 DEF ScopeInv
<1>. QED
  BY <1>2, <1>3, <1>4, CasesSteps, ScopeStepFollows

\* When nothing is loading, tables and dashboard are those of the client and the
\* filters that are chosen, in whatever order the answers come (admin-core.js
\* handleClientChange, admin-dashboard.js requestVersion).
THEOREM ScopeCorrect == CasesSpec => []ScopeIsShown
<1>1. CasesInit => ScopeOK /\ CaseOK /\ ScopeInv
  <2>1. CasesInit => ScopeInv
    <3>. SUFFICES ASSUME CasesInit PROVE ScopeInv
      OBVIOUS
    <3>1. Follows(tables, currentClientId, filter)
      BY DEF CasesInit, Follows
    <3>2. DashboardFollows
      <4>1. [of |-> All, latest |-> TRUE].latest /\ [of |-> All, latest |-> TRUE].of = All
        OBVIOUS
      <4>. QED
        BY <4>1 DEF CasesInit, DashboardFollows
    <3>. QED
      BY <3>1, <3>2 DEF ScopeInv
  <2>. QED
    BY <2>1, CasesTypeInit
<1>2. (ScopeOK /\ CaseOK /\ ScopeInv) /\ [CasesNext]_casesVars
      => (ScopeOK /\ CaseOK /\ ScopeInv)'
  BY CasesTypeNext, ScopeInvNext
<1>3. ScopeInv => ScopeIsShown
  BY DEF ScopeInv, Follows, DashboardFollows, ScopeIsShown
<1>. QED
  BY <1>1, <1>2, <1>3, PTL DEF CasesSpec

-----------------------------------------------------------------------------
(* What a panel knows, unless it was grafted, is the version it sends. *)

KnownInv ==
    /\ \A k \in Kinds :
           /\ ~ current[k].grafted => current[k].knows = current[k].version
           /\ ~ saves[k].case.grafted => saves[k].case.knows = saves[k].case.version
    /\ overwrote = {}

LEMMA KnownNext == ScopeOK /\ CaseOK /\ KnownInv /\ [CasesNext]_casesVars => KnownInv'
<1>. SUFFICES ASSUME ScopeOK, CaseOK, KnownInv, [CasesNext]_casesVars PROVE KnownInv'
  OBVIOUS
<1>. DEFINE Knows(s) == ~ s.grafted => s.knows = s.version
<1>0. Knows(Nothing) /\ Knows(NoSave.case)
  BY DEF Nothing, NoSave
<1>1. ASSUME overwrote' = overwrote,
             \A k \in Kinds : current'[k] = current[k] \/ Knows(current'[k]),
             \A k \in Kinds : saves'[k].case = saves[k].case \/ Knows(saves'[k].case)
      PROVE  KnownInv'
  BY <1>1 DEF KnownInv
<1>2. ASSUME UNCHANGED <<current, saves, overwrote>> PROVE KnownInv'
  BY <1>1, <1>2
<1>3. CASE ScopeStep
  <2>1. UNCHANGED <<saves, overwrote>>
    BY <1>3, ScopeStepType
  <2>2. \A k \in Kinds : current'[k] = current[k] \/ current'[k] = Nothing
    <3>1. \A T, S : \A k \in Kinds :
              Closed(T, S)[k] = current[k] \/ Closed(T, S)[k] = Nothing
      BY DEF Closed
    <3>2. current' = current \/ \E T, S : current' = Closed(T, S)
      BY <1>3 DEF ScopeStep, SwitchClient, OpenClient, Visit, Filter, Navigate, CaseChanged,
                  TableAnswered, TableFails, FilterByClient, FilterByStatus, caseVars
    <3>. QED
      BY <3>1, <3>2
  <2>. QED
    BY <1>0, <1>1, <2>1, <2>2
<1>4. CASE DashboardStep \/ UNCHANGED casesVars
  BY <1>2, <1>4, DashboardStepType DEF casesVars, caseVars
<1>5. CASE CaseStep
  <2>1. ASSUME NEW k \in Kinds, NEW c \in Clients, LoadDetails(k, c) \/ ColleagueSaves(k, c)
        PROVE  KnownInv'
    BY <1>2, <2>1 DEF LoadDetails, ColleagueSaves
  <2>2. ASSUME NEW k \in Kinds, CloseDetail(k) PROVE KnownInv'
    BY <1>0, <1>1, <2>2 DEF CloseDetail, ScopeOK
  <2>3. ASSUME NEW k \in Kinds, SaveStatus(k) PROVE KnownInv'
    <3>1. saves' = [saves EXCEPT ![k] = [case |-> current[k], at |-> "sent", made |-> 1]]
      BY <2>3 DEF SaveStatus
    <3>2. Knows(current[k])
      BY DEF KnownInv
    <3>. QED
      BY <1>1, <2>3, <3>1, <3>2 DEF SaveStatus, CaseOK
  <2>4. ASSUME NEW k \in Kinds, SaveServed(k) PROVE KnownInv'
    <3>1. saves[k].case.version = version[<<k, saves[k].case.client>>]
          => ~(saves[k].case.knows < version[<<k, saves[k].case.client>>]
               /\ ~ saves[k].case.grafted)
      <4>1. saves[k].at = "sent" /\ NoSave.at = "none"
        BY <2>4 DEF SaveServed, NoSave
      <4>2. saves[k].case.version \in Int
        BY <4>1 DEF CaseOK, Save, Case
      <4>. QED
        BY <4>2 DEF KnownInv
    <3>2. overwrote' = overwrote
      BY <2>4, <3>1 DEF SaveServed
    <3>3. \A j \in Kinds : saves'[j].case = saves[j].case
      <4>1. saves[k] \in Save /\ saves \in [Kinds -> Save \union {NoSave}]
        BY <2>4 DEF SaveServed, CaseOK, NoSave
      <4>2. \A a, n : /\ [saves[k] EXCEPT !.at = a].case = saves[k].case
                      /\ [saves[k] EXCEPT !.at = a, !.made = n].case = saves[k].case
        BY <4>1 DEF Save
      <4>. DEFINE c == <<k, saves[k].case.client>>
                  n == version'[c]
      <4>3. \/ saves' = [saves EXCEPT ![k] = [saves[k] EXCEPT !.at = "refused"]]
            \/ saves' = [saves EXCEPT ![k].at = "saved", ![k].made = n]
        BY <2>4, <4>1 DEF SaveServed
      <4>4. \/ saves' = [saves EXCEPT ![k] = [saves[k] EXCEPT !.at = "refused"]]
            \/ saves' = [saves EXCEPT ![k] = [saves[k] EXCEPT !.at = "saved", !.made = n]]
        <5>. HIDE DEF n
        <5>. QED
          BY <4>1, <4>3, FieldsOfSave
      <4>5. \E t : t.case = saves[k].case /\ saves' = [saves EXCEPT ![k] = t]
        <5>. HIDE DEF n
        <5>. QED
          BY <4>2, <4>4
      <4>. QED
        BY <4>1, <4>5
    <3>. QED
      BY <1>1, <2>4, <3>2, <3>3 DEF SaveServed
  <2>5. ASSUME NEW k \in Kinds, SaveAnswered(k) PROVE KnownInv'
    <3>1. /\ overwrote' = overwrote
          /\ \A j \in Kinds : saves'[j] = saves[j] \/ saves'[j] = NoSave
      BY <2>5 DEF SaveAnswered, CaseOK
    <3>2. CASE current[k] = Nothing
      BY <1>0, <1>1, <2>5, <3>1, <3>2 DEF SaveAnswered
    <3>3. CASE current[k] /= Nothing
      <4>1. saves[k].at = "saved" /\ NoSave.at = "none"
        BY <2>5 DEF SaveAnswered, NoSave
      <4>2. saves[k] \in Save /\ current[k] \in Case
        BY <3>3, <4>1 DEF CaseOK, ScopeOK
      <4>3. /\ saves[k].made \in Versions
            /\ <<k, saves[k].case.client>> \in Kinds \X Clients
        BY <4>2 DEF Save, Case, Versions
      <4>4. PICK v \in saves[k].made..version[<<k, saves[k].case.client>>] :
                current' = [current EXCEPT
                    ![k].version = v,
                    ![k].knows = IF current[k].client = saves[k].case.client
                                 THEN saves[k].made ELSE @,
                    ![k].grafted = current[k].client /= saves[k].case.client
                                   \/ v > saves[k].made]
        BY <2>5, <3>3 DEF SaveAnswered
      <4>5. v \in Int /\ saves[k].made \in Int /\ saves[k].made <= v
        BY <4>3, CasesAssumption DEF CaseOK, Versions
      <4>. DEFINE w == IF current[k].client = saves[k].case.client
                       THEN saves[k].made ELSE current[k].knows
                  b == current[k].client /= saves[k].case.client \/ v > saves[k].made
                  s == [current[k] EXCEPT !.version = v, !.knows = w, !.grafted = b]
      <4>6. current' = [current EXCEPT ![k] = s]
        <5>1. current' = [current EXCEPT ![k].version = v, ![k].knows = w, ![k].grafted = b]
          BY <4>4
        <5>2. current \in [Kinds -> Case \union {Nothing}]
          BY DEF ScopeOK
        <5>. HIDE DEF w, b
        <5>. QED
          BY <5>1, <5>2, FieldsOfCase
      <4>7. ~ b => w = v
        BY <4>5
      <4>8. Knows(s)
        <5>. HIDE DEF w, b
        <5>. QED
          BY <4>2, <4>7 DEF Case
      <4>9. \A j \in Kinds : current'[j] = current[j] \/ Knows(current'[j])
        <5>. HIDE DEF s, Knows
        <5>. QED
          BY <4>6, <4>8 DEF ScopeOK
      <4>. QED
        BY <1>0, <1>1, <3>1, <4>9
    <3>. QED
      BY <3>2, <3>3
  <2>6. ASSUME NEW k \in Kinds, SaveRefused(k) \/ SaveFails(k) PROVE KnownInv'
    BY <1>0, <1>1, <2>6 DEF SaveRefused, SaveFails, AfterRefusal, CaseOK
  <2>7. ASSUME NEW d \in details, DetailsAnswered(d) PROVE KnownInv'
    <3>1. PICK v \in d.since..version[<<d.kind, d.client>>] :
              current' = [current EXCEPT ![d.kind] =
                  [client |-> d.client, version |-> v, knows |-> v, grafted |-> FALSE]]
      BY <2>7 DEF DetailsAnswered
    <3>2. Knows([client |-> d.client, version |-> v, knows |-> v, grafted |-> FALSE])
      OBVIOUS
    <3>3. \A j \in Kinds : current'[j] = current[j] \/ Knows(current'[j])
      <4>. HIDE DEF Knows
      <4>. QED
        BY <3>1, <3>2 DEF ScopeOK
    <3>. QED
      BY <1>1, <2>7, <3>3 DEF DetailsAnswered
  <2>8. ASSUME NEW d \in details, DetailsFail(d) PROVE KnownInv'
    BY <1>2, <2>8 DEF DetailsFail
  <2>. QED
    BY <1>5, <2>1, <2>2, <2>3, <2>4, <2>5, <2>6, <2>7, <2>8 DEF CaseStep
<1>. QED
  BY <1>3, <1>4, <1>5, CasesSteps

\* The server takes a status only from an admin whose panel showed the case as it
\* was, the two known cases apart, for any number of colleagues and changes
\* (admin-tickets.js and admin-inquiries.js updateTicketStatus).
THEOREM SavesCorrect == CasesSpec => []SavesAreInformed
<1>1. CasesInit => ScopeOK /\ CaseOK /\ KnownInv
  <2>1. CasesInit => KnownInv
    <3>1. Nothing.knows = Nothing.version /\ NoSave.case = Nothing
      BY DEF Nothing, NoSave
    <3>. QED
      BY <3>1 DEF CasesInit, KnownInv
  <2>. QED
    BY <2>1, CasesTypeInit
<1>2. (ScopeOK /\ CaseOK /\ KnownInv) /\ [CasesNext]_casesVars
      => (ScopeOK /\ CaseOK /\ KnownInv)'
  BY CasesTypeNext, KnownNext
<1>3. KnownInv => SavesAreInformed
  BY DEF KnownInv, SavesAreInformed
<1>. QED
  BY <1>1, <1>2, <1>3, PTL DEF CasesSpec

-----------------------------------------------------------------------------
(* Conversations: types. *)

Asks == [of: Choices, latest: BOOLEAN, group: BOOLEAN]
Opens == [conv: Conversations, at: {"leave", "join", "load"}, latest: BOOLEAN, aborted: BOOLEAN]
Sends == [conv: Conversations, text: Texts, number: 0..MaxMessages]
Notices == {"idle", "loading", "loaded", "patched", "empty", "error", "gone"}
Said == Conversations \X Texts

ListOK ==
    /\ tenant \in Choices /\ active \in BOOLEAN /\ asked \subseteq Asks
    /\ lists \in [kind: {"loading", "shown", "error"}, of: Choices, group: BOOLEAN]
    /\ groups \subseteq Tenants /\ listed \subseteq Conversations /\ access \subseteq Conversations

OpenOK ==
    /\ context \in Conversations \union {Nowhere} /\ opens \subseteq Opens
    /\ leaving \in BOOLEAN
    /\ archiving \in [conv: Conversations \union {Nowhere}, at: {"none", "sent", "done", "refused"}]

PanelOK == rows \subseteq Rows /\ misplaced \subseteq Rows /\ notice \in Notices

StoreOK == stored \in [Conversations -> 0..MaxMessages] /\ own \subseteq Rows

TextOK ==
    /\ input \in Values /\ draft \in [Conversations -> Values]
    /\ pending \subseteq Said /\ sends \subseteq Sends /\ isSending \in BOOLEAN
    /\ typed \subseteq Said /\ given \subseteq Said /\ swallowed \subseteq Said

ChatOK == ListOK /\ OpenOK /\ PanelOK /\ StoreOK /\ TextOK

LEMMA ChatTypes == ChatTypeOK <=> ChatOK
BY Zenon DEF ChatTypeOK, ChatOK, ListOK, OpenOK, PanelOK, StoreOK, TextOK,
             Asks, Opens, Sends, Notices, Said

LEMMA ChatTypeInit == ChatInit => ChatOK
<1>. SUFFICES ASSUME ChatInit PROVE ChatOK
  OBVIOUS
<1>1. ListOK
  <2>1. [of |-> NoTenant, latest |-> TRUE, group |-> FALSE] \in Asks
    BY DEF Asks, Choices
  <2>2. [kind |-> "loading", of |-> NoTenant, group |-> FALSE]
        \in [kind: {"loading", "shown", "error"}, of: Choices, group: BOOLEAN]
    BY DEF Choices
  <2>. QED
    BY <2>1, <2>2 DEF ChatInit, ListOK, Choices
<1>2. OpenOK
  BY DEF ChatInit, OpenOK, NoArchive
<1>3. PanelOK /\ StoreOK
  BY ChatAssumption DEF ChatInit, PanelOK, StoreOK, Notices
<1>4. TextOK
  BY DEF ChatInit, TextOK, Values
<1>. QED
  BY <1>1, <1>2, <1>3, <1>4 DEF ChatOK

LEMMA PartsKept ==
    /\ ListOK /\ UNCHANGED listVars => ListOK'
    /\ OpenOK /\ UNCHANGED openVars => OpenOK'
    /\ PanelOK /\ UNCHANGED panelVars => PanelOK'
    /\ StoreOK /\ UNCHANGED storeVars => StoreOK'
    /\ TextOK /\ UNCHANGED textVars => TextOK'
BY DEF ListOK, listVars, OpenOK, openVars, PanelOK, panelVars, StoreOK, storeVars, TextOK, textVars

LEMMA AskedType ==
    ASSUME ListOK, NEW t \in Choices, NEW g \in BOOLEAN, AskForLists(t, g),
           tenant' \in Choices, active' \in BOOLEAN, groups' \subseteq Tenants, access' \subseteq Conversations
    PROVE  ListOK'
<1>1. ASSUME NEW r \in Asks PROVE [r EXCEPT !.latest = FALSE] \in Asks
  BY <1>1 DEF Asks
<1>2. [of |-> t, latest |-> TRUE, group |-> g] \in Asks
  BY DEF Asks
<1>3. asked' \subseteq Asks
  BY <1>1, <1>2 DEF AskForLists, ListOK
<1>4. lists' \in [kind: {"loading", "shown", "error"}, of: Choices, group: BOOLEAN]
  BY DEF AskForLists
<1>. QED
  BY <1>3, <1>4 DEF AskForLists, ListOK

LEMMA OvertakenType == ASSUME OpenOK PROVE Overtaken \subseteq Opens
<1>1. ASSUME NEW o \in Opens, NEW b \in BOOLEAN
      PROVE  [o EXCEPT !.latest = FALSE, !.aborted = b] \in Opens
  BY <1>1 DEF Opens
<1>2. ASSUME NEW o \in Opens
      PROVE  [o EXCEPT !.latest = FALSE, !.aborted = @ \/ (o.at = "load" /\ o.conv = context)]
             \in Opens
  <2>. DEFINE b == o.aborted \/ (o.at = "load" /\ o.conv = context)
  <2>1. b \in BOOLEAN
    BY <1>2 DEF Opens
  <2>2. [o EXCEPT !.latest = FALSE, !.aborted = b] \in Opens
    BY <1>1, <2>1
  <2>. QED
    BY <2>2
<1>. QED
  BY <1>2 DEF Overtaken, OpenOK

\* The bound on all messages bounds those of a conversation.
LEMMA RoomForOne ==
    ASSUME StoreOK, RoomLeft, NEW c \in Conversations
    PROVE  stored[c] + 1 \in 1..MaxMessages
<1>. DEFINE all == {row \in Rows : row[2] <= stored[row[1]]}
            its == {<<c, n>> : n \in 1..MaxMessages}
<1>1. stored[c] \in 0..MaxMessages /\ MaxMessages \in Nat
  BY ChatAssumption DEF StoreOK
<1>2. ASSUME stored[c] = MaxMessages PROVE FALSE
  <2>1. IsFiniteSet(all)
    <3>1. IsFiniteSet(1..MaxMessages)
      BY <1>1, FS_Interval
    <3>2. IsFiniteSet(Rows)
      BY <3>1, ChatAssumption, FS_Product DEF Rows
    <3>. QED
      BY <3>2, FS_Subset
  <2>2. Cardinality(its) = MaxMessages /\ IsFiniteSet(its)
    <3>1. Cardinality(1..MaxMessages) = MaxMessages /\ IsFiniteSet(1..MaxMessages)
      BY <1>1, FS_Interval
    <3>2. [n \in 1..MaxMessages |-> <<c, n>>] \in Bijection(1..MaxMessages, its)
      BY DEF Bijection, Injection, Surjection, IsInjective
    <3>3. ExistsBijection(1..MaxMessages, its)
      BY <3>2 DEF ExistsBijection
    <3>. HIDE DEF its
    <3>. QED
      BY <3>1, <3>3, FS_Bijection
  <2>3. its \in SUBSET all
    BY <1>2 DEF Rows
  <2>4. Cardinality(its) <= Cardinality(all)
    <3>. HIDE DEF its, all
    <3>. QED
      BY <2>1, <2>3, FS_Subset
  <2>5. Cardinality(all) \in Nat
    <3>. HIDE DEF all
    <3>. QED
      BY <2>1, FS_CardinalityType
  <2>. QED
    BY <1>1, <2>2, <2>4, <2>5 DEF RoomLeft
<1>. QED
  BY <1>1, <1>2

\* What is done with the lists only.
ListStep ==
    \/ \E r \in asked : ListsAnswered(r) \/ ListsFail(r)
    \/ \E t \in Choices : SwitchTenant(t)
    \/ \E t \in groups : GroupCreated(t) \/ GroupFails(t)
    \/ \E c \in Conversations : TakenAway(c)
    \/ Refresh \/ LeavePage \/ ShowPage \/ CreateGroup

\* Opening, closing and archiving.
OpenStep ==
    \/ \E c \in Conversations : Open(c) \/ HearsOf(c)
    \/ \E o \in opens : Left(o) \/ Joined(o) \/ OpenFails(o) \/ Loaded(o)
    \/ LeftForGood \/ Archive \/ ArchiveServed \/ ArchiveAnswered \/ ArchiveFails

\* Typing, sending and receiving.
MessageStep ==
    \/ \E c \in Conversations : Incoming(c)
    \/ \E t \in Texts : TypeText(t)
    \/ \E m \in sends : Overtakes(m) \/ MessageSent(m) \/ SendFails(m)
    \/ SendMessage

LEMMA ChatSteps == ChatNext <=> ListStep \/ OpenStep \/ MessageStep
BY DEF ChatNext, ListStep, OpenStep, MessageStep

LEMMA ListStepType == ListOK /\ ListStep => ListOK' /\ OnlyLists
<1>. SUFFICES ASSUME ListOK, ListStep PROVE ListOK' /\ OnlyLists
  OBVIOUS
<1>0. tenant \in Choices /\ active \in BOOLEAN /\ groups \subseteq Tenants /\ access \subseteq Conversations
  BY DEF ListOK
<1>1. ASSUME NEW r \in asked, NEW kind \in {"shown", "error"}, ListEnds(r, kind)
      PROVE  ListOK' /\ OnlyLists
  <2>1. r \in Asks
    BY DEF ListOK
  <2>2. lists' \in [kind: {"loading", "shown", "error"}, of: Choices, group: BOOLEAN]
    BY <1>1, <2>1 DEF ListEnds, ListOK, Asks
  <2>. QED
    BY <1>1, <2>2 DEF ListEnds, ListOK
<1>2. ASSUME NEW t \in Choices, SwitchTenant(t) PROVE ListOK' /\ OnlyLists
  <2>1. CASE active
    BY <1>0, <1>2, <2>1, AskedType DEF SwitchTenant
  <2>2. CASE ~ active
    BY <1>2, <2>2 DEF SwitchTenant, ListOK
  <2>. QED
    BY <1>2, <2>1, <2>2 DEF SwitchTenant
<1>3. ASSUME NEW t \in groups, GroupCreated(t) PROVE ListOK' /\ OnlyLists
  BY <1>0, <1>3, AskedType DEF GroupCreated, Choices
<1>4. ASSUME NEW t \in groups, GroupFails(t) PROVE ListOK' /\ OnlyLists
  BY <1>4 DEF GroupFails, ListOK
<1>5. ASSUME NEW c \in Conversations, TakenAway(c) PROVE ListOK' /\ OnlyLists
  BY <1>5 DEF TakenAway, ListOK
<1>6. CASE Refresh
  BY <1>0, <1>6, AskedType DEF Refresh
<1>7. CASE CreateGroup
  BY <1>7 DEF CreateGroup, ListOK, Choices
<1>8. CASE LeavePage
  BY <1>8 DEF LeavePage, ListOK
<1>9. CASE ShowPage
  BY <1>0, <1>9, AskedType DEF ShowPage
<1>. QED
  BY <1>1, <1>2, <1>3, <1>4, <1>5, <1>6, <1>7, <1>8, <1>9 DEF ListStep, ListsAnswered, ListsFail

\* What closing leaves behind.
LEMMA DisabledType ==
    ASSUME OpenOK, PanelOK, Disable, UNCHANGED misplaced,
           archiving' = archiving \/ archiving' = NoArchive
    PROVE  OpenOK' /\ PanelOK'
<1>1. opens' \subseteq Opens
  BY OvertakenType DEF Disable
<1>2. NoArchive \in [conv: Conversations \union {Nowhere}, at: {"none", "sent", "done", "refused"}]
  BY DEF NoArchive
<1>. QED
  BY <1>1, <1>2 DEF Disable, OpenOK, PanelOK, Notices

\* A step of an opening.
LEMMA GoesToType ==
    ASSUME OpenOK, NEW o \in opens, NEW at \in {"join", "load"}, GoesTo(o, at)
    PROVE  opens' \subseteq Opens
<1>1. o \in Opens
  BY DEF OpenOK
<1>2. [o EXCEPT !.at = at] \in Opens
  BY <1>1 DEF Opens
<1>. QED
  BY <1>2 DEF GoesTo, OpenOK

LEMMA OpenStepType == ChatOK /\ OpenStep => ChatOK'
<1>. SUFFICES ASSUME ChatOK, OpenStep PROVE ChatOK'
  OBVIOUS
<1>0. /\ ListOK /\ OpenOK /\ PanelOK /\ StoreOK /\ TextOK
      /\ tenant \in Choices /\ active \in BOOLEAN /\ groups \subseteq Tenants /\ access \subseteq Conversations
  BY DEF ChatOK, ListOK
<1>1. ASSUME NEW c \in Conversations, Open(c) PROVE ChatOK'
  <2>1. [conv |-> c, at |-> "leave", latest |-> TRUE, aborted |-> FALSE] \in Opens
    BY DEF Opens
  <2>2. opens' \subseteq Opens
    BY <1>0, <1>1, <2>1, OvertakenType DEF Open
  <2>3. draft' \in [Conversations -> Values]
    BY <1>0, <1>1 DEF Open, SavedDraft, TextOK
  <2>4. OpenOK' /\ TextOK'
    BY <1>0, <1>1, <2>2, <2>3 DEF Open, OpenOK, TextOK
  <2>. QED
    BY <1>0, <1>1, <2>4, PartsKept DEF Open, ChatOK
<1>2. ASSUME NEW c \in Conversations, HearsOf(c) PROVE ChatOK'
  <2>1. OpenOK' /\ PanelOK'
    <3>1. CASE context = c
      BY <1>0, <1>2, <3>1, DisabledType DEF HearsOf
    <3>2. CASE context /= c
      BY <1>0, <1>2, <3>2 DEF HearsOf, OpenOK, PanelOK
    <3>. QED
      BY <3>1, <3>2
  <2>2. ListOK'
    <3>1. CASE context = c
      BY <1>0, <1>2, <3>1 DEF HearsOf, ListOK
    <3>2. CASE context /= c
      BY <1>0, <1>2, <3>2, AskedType DEF HearsOf
    <3>. QED
      BY <3>1, <3>2
  <2>3. isSending' \in BOOLEAN
    BY <1>0, <1>2 DEF HearsOf, Disable, TextOK
  <2>4. TextOK'
    BY <1>0, <1>2, <2>3 DEF HearsOf, TextOK
  <2>. QED
    BY <1>0, <1>2, <2>1, <2>2, <2>4, PartsKept DEF HearsOf, ChatOK
<1>3. ASSUME NEW o \in opens, Left(o) PROVE ChatOK'
  <2>1. o.conv \in Conversations
    BY <1>0 DEF OpenOK, Opens
  <2>2. opens' \subseteq Opens
    BY <1>0, <1>3, GoesToType DEF Left, OpenOK
  <2>3. OpenOK' /\ TextOK'
    BY <1>0, <1>3, <2>1, <2>2 DEF Left, OpenOK, TextOK
  <2>. QED
    BY <1>0, <1>3, <2>3, PartsKept DEF Left, ChatOK
<1>4. ASSUME NEW o \in opens, Joined(o) PROVE ChatOK'
  <2>1. opens' \subseteq Opens
    BY <1>0, <1>4, GoesToType DEF Joined, OpenOK
  <2>2. OpenOK' /\ PanelOK'
    BY <1>0, <1>4, <2>1 DEF Joined, OpenOK, PanelOK, Notices
  <2>. QED
    BY <1>0, <1>4, <2>2, PartsKept DEF Joined, ChatOK
<1>5. ASSUME NEW o \in opens, OpenFails(o) PROVE ChatOK'
  <2>1. OpenOK' /\ PanelOK'
    BY <1>0, <1>5 DEF OpenFails, OpenOK, PanelOK, Notices
  <2>. QED
    BY <1>0, <1>5, <2>1, PartsKept DEF OpenFails, ChatOK
<1>6. ASSUME NEW o \in opens, Loaded(o) PROVE ChatOK'
  <2>1. o.conv \in Conversations
    BY <1>0 DEF OpenOK, Opens
  <2>2. StoredRows(o.conv) \subseteq Rows
    BY <1>0, <2>1, ChatAssumption DEF StoredRows, Rows, StoreOK
  <2>3. OpenOK' /\ PanelOK'
    BY <1>0, <1>6, <2>2 DEF Loaded, OpenOK, PanelOK, Notices
  <2>. QED
    BY <1>0, <1>6, <2>3, PartsKept DEF Loaded, ChatOK
<1>7. CASE LeftForGood
  <2>1. ListOK' /\ OpenOK'
    BY <1>0, <1>7, AskedType DEF LeftForGood, OpenOK
  <2>. QED
    BY <1>0, <1>7, <2>1, PartsKept DEF LeftForGood, ChatOK
<1>8. CASE Archive \/ ArchiveFails
  <2>1. archiving' \in [conv: Conversations \union {Nowhere},
                        at: {"none", "sent", "done", "refused"}]
    BY <1>0, <1>8 DEF Archive, ArchiveFails, NoArchive, OpenOK
  <2>2. OpenOK'
    BY <1>0, <1>8, <2>1 DEF Archive, ArchiveFails, OpenOK
  <2>. QED
    BY <1>0, <1>8, <2>2, PartsKept DEF Archive, ArchiveFails, ChatOK
<1>9. CASE ArchiveServed
  <2>1. archiving' \in [conv: Conversations \union {Nowhere},
                        at: {"none", "sent", "done", "refused"}]
    BY <1>0, <1>9 DEF ArchiveServed, OpenOK
  <2>2. OpenOK' /\ ListOK'
    BY <1>0, <1>9, <2>1 DEF ArchiveServed, OpenOK, ListOK
  <2>. QED
    BY <1>0, <1>9, <2>2, PartsKept DEF ArchiveServed, ChatOK
<1>10. CASE ArchiveAnswered
  <2>1. OpenOK' /\ PanelOK'
    <3>1. CASE archiving.at = "done"
      BY <1>0, <1>10, <3>1, DisabledType DEF ArchiveAnswered
    <3>2. CASE archiving.at /= "done"
      BY <1>0, <1>10, <3>2 DEF ArchiveAnswered, OpenOK, PanelOK, NoArchive
    <3>. QED
      BY <3>1, <3>2
  <2>2. ListOK'
    <3>1. CASE archiving.at = "done"
      BY <1>0, <1>10, <3>1 DEF ArchiveAnswered, ListOK
    <3>2. CASE archiving.at /= "done"
      BY <1>0, <1>10, <3>2, AskedType DEF ArchiveAnswered
    <3>. QED
      BY <3>1, <3>2
  <2>3. isSending' \in BOOLEAN
    BY <1>0, <1>10 DEF ArchiveAnswered, Disable, TextOK
  <2>4. /\ draft' \in [Conversations -> Values]
        /\ pending' \subseteq Said /\ given' \subseteq Said
    BY <1>0, <1>10 DEF ArchiveAnswered, Removed, TextOK, Values
  <2>5. TextOK'
    BY <1>0, <1>10, <2>3, <2>4 DEF ArchiveAnswered, TextOK
  <2>. QED
    BY <1>0, <1>10, <2>1, <2>2, <2>5, PartsKept DEF ArchiveAnswered, ChatOK
<1>. QED
  BY <1>1, <1>2, <1>3, <1>4, <1>5, <1>6, <1>7, <1>8, <1>9, <1>10 DEF OpenStep

\* A message that reaches the store.
LEMMA IngestedType ==
    ASSUME StoreOK, TextOK, NEW m \in sends, Ingested(m)
    PROVE  /\ m \in Sends
           /\ StoreOK'
           /\ pending' \subseteq Said /\ given' \subseteq Said
           /\ draft' \in [Conversations -> Values]
           /\ m.number = 0 => /\ stored'[m.conv] = stored[m.conv] + 1
                              /\ stored'[m.conv] \in 1..MaxMessages
<1>1. m \in Sends /\ m.conv \in Conversations /\ m.text \in Texts /\ m.number \in Nat
  BY ChatAssumption DEF TextOK, Sends
<1>2. ASSUME m.number = 0
      PROVE  /\ stored' = [stored EXCEPT ![m.conv] = @ + 1]
             /\ stored[m.conv] + 1 \in 1..MaxMessages
             /\ own' = own \union {<<m.conv, stored'[m.conv]>>}
  BY <1>1, <1>2, RoomForOne DEF Ingested
<1>3. StoreOK'
  <2>1. CASE m.number = 0
    BY <1>1, <1>2, <2>1, ChatAssumption DEF StoreOK, Rows
  <2>2. CASE m.number > 0
    BY <2>2 DEF Ingested, StoreOK, storeVars
  <2>. QED
    BY <1>1, <2>1, <2>2
<1>4. pending' \subseteq Said /\ given' \subseteq Said /\ draft' \in [Conversations -> Values]
  BY <1>1 DEF Ingested, TextOK, Said, Values
<1>5. m.number = 0 => stored'[m.conv] = stored[m.conv] + 1
  BY <1>1, <1>2 DEF StoreOK
<1>. QED
  BY <1>1, <1>2, <1>3, <1>4, <1>5

LEMMA DisplayType ==
    ASSUME PanelOK, NEW R \in SUBSET Rows, Display(R)
    PROVE  rows' \subseteq Rows /\ notice' \in Notices
BY DEF PanelOK, Display, Notices

LEMMA MessageStepType == ChatOK /\ MessageStep => ChatOK'
<1>. SUFFICES ASSUME ChatOK, MessageStep PROVE ChatOK'
  OBVIOUS
<1>0. /\ ListOK /\ OpenOK /\ PanelOK /\ StoreOK /\ TextOK
      /\ tenant \in Choices /\ active \in BOOLEAN /\ groups \subseteq Tenants /\ access \subseteq Conversations
  BY DEF ChatOK, ListOK
<1>1. ASSUME NEW c \in Conversations, Incoming(c) PROVE ChatOK'
  <2>1. stored[c] + 1 \in 1..MaxMessages
    BY <1>0, <1>1, RoomForOne DEF Incoming
  <2>2. StoreOK'
    BY <1>0, <1>1, <2>1 DEF Incoming, StoreOK
  <2>3. {<<c, stored[c] + 1>>} \in SUBSET Rows
    BY <2>1 DEF Rows
  <2>4. PanelOK'
    <3>1. CASE context = c
      BY <1>0, <1>1, <2>3, <3>1, DisplayType DEF Incoming, PanelOK
    <3>2. CASE context /= c
      BY <1>0, <1>1, <3>2 DEF Incoming, PanelOK
    <3>. QED
      BY <3>1, <3>2
  <2>5. ListOK'
    <3>1. CASE context = c \/ c \in listed
      BY <1>0, <1>1, <3>1 DEF Incoming, ListOK
    <3>2. CASE ~(context = c \/ c \in listed)
      BY <1>0, <1>1, <3>2, AskedType DEF Incoming
    <3>. QED
      BY <3>1, <3>2
  <2>. QED
    BY <1>0, <1>1, <2>2, <2>4, <2>5, PartsKept DEF Incoming, ChatOK
<1>2. ASSUME NEW t \in Texts, TypeText(t) PROVE ChatOK'
  <2>1. context \in Conversations /\ input \in Values
    BY <1>0, <1>2 DEF TypeText, OpenOK, TextOK
  <2>2. given' \subseteq Said /\ typed' \subseteq Said /\ swallowed' \subseteq Said
    BY <1>0, <1>2, <2>1 DEF TypeText, TextOK, Said, Values
  <2>3. TextOK'
    BY <1>0, <1>2, <2>1, <2>2 DEF TypeText, TextOK, Values
  <2>. QED
    BY <1>0, <1>2, <2>3, PartsKept DEF TypeText, ChatOK
<1>3. CASE SendMessage
  <2>1. context \in Conversations /\ input \in Texts
    BY <1>0, <1>3 DEF SendMessage, OpenOK, TextOK, Values
  <2>2. [conv |-> context, text |-> input, number |-> 0] \in Sends
    BY <2>1, ChatAssumption DEF Sends
  <2>3. TextOK'
    BY <1>0, <1>3, <2>1, <2>2 DEF SendMessage, TextOK, Said, Values
  <2>. QED
    BY <1>0, <1>3, <2>3, PartsKept DEF SendMessage, ChatOK
<1>4. ASSUME NEW m \in sends, Overtakes(m) PROVE ChatOK'
  <2>1. /\ m \in Sends /\ StoreOK' /\ pending' \subseteq Said /\ given' \subseteq Said
        /\ draft' \in [Conversations -> Values] /\ stored'[m.conv] \in 1..MaxMessages
    BY <1>0, <1>4, IngestedType DEF Overtakes
  <2>2. \A n \in 1..MaxMessages : [m EXCEPT !.number = n] \in Sends
    BY <2>1, ChatAssumption DEF Sends
  <2>3. sends' \subseteq Sends
    BY <1>0, <1>4, <2>1, <2>2 DEF Overtakes, TextOK
  <2>4. TextOK'
    BY <1>0, <1>4, <2>1, <2>3 DEF Overtakes, TextOK
  <2>. QED
    BY <1>0, <1>4, <2>1, <2>4, PartsKept DEF Overtakes, ChatOK
<1>5. ASSUME NEW m \in sends, MessageSent(m) PROVE ChatOK'
  <2>. DEFINE row == <<m.conv, IF m.number > 0 THEN m.number ELSE stored[m.conv] + 1>>
  <2>1. /\ m \in Sends /\ StoreOK' /\ pending' \subseteq Said /\ given' \subseteq Said
        /\ draft' \in [Conversations -> Values]
        /\ m.number = 0 => stored[m.conv] + 1 \in 1..MaxMessages
    <3>1. Ingested(m)
      BY <1>5 DEF MessageSent
    <3>2. m.number = 0 => /\ stored'[m.conv] = stored[m.conv] + 1
                          /\ stored'[m.conv] \in 1..MaxMessages
      BY <1>0, <3>1, IngestedType
    <3>. QED
      BY <1>0, <3>1, <3>2, IngestedType
  <2>2. row \in Rows
    BY <2>1, ChatAssumption DEF Sends, Rows
  <2>3. Display({row}) /\ misplaced' \subseteq misplaced \union {row}
    BY <1>5 DEF MessageSent
  <2>4. PanelOK'
    <3>. HIDE DEF row
    <3>. QED
      BY <1>0, <2>2, <2>3, DisplayType DEF PanelOK
  <2>5. swallowed' \subseteq Said
    <3>1. context \notin {m.conv, Nowhere} /\ input = m.text => <<context, input>> \in Said
      BY <1>0, <2>1 DEF OpenOK, Sends, Said
    <3>. QED
      BY <1>0, <1>5, <3>1 DEF MessageSent, TextOK
  <2>6. TextOK'
    BY <1>0, <1>5, <2>1, <2>5 DEF MessageSent, TextOK, Values
  <2>7. ListOK'
    <3>1. CASE m.number > 0 \/ context = m.conv \/ m.conv \in listed
      BY <1>0, <1>5, <3>1 DEF MessageSent, ListOK
    <3>2. CASE ~(m.number > 0 \/ context = m.conv \/ m.conv \in listed)
      BY <1>0, <1>5, <3>2, AskedType DEF MessageSent
    <3>. QED
      BY <3>1, <3>2
  <2>. QED
    BY <1>0, <1>5, <2>1, <2>4, <2>6, <2>7, PartsKept DEF MessageSent, ChatOK
<1>6. ASSUME NEW m \in sends, SendFails(m) PROVE ChatOK'
  <2>1. m \in Sends
    BY <1>0 DEF TextOK
  <2>2. <<m.conv, m.text>> \in Said
    BY <2>1 DEF Sends, Said
  <2>3. TextOK'
    BY <1>0, <1>6, <2>2 DEF SendFails, TextOK
  <2>. QED
    BY <1>0, <1>6, <2>3, PartsKept DEF SendFails, ChatOK
<1>. QED
  BY <1>1, <1>2, <1>3, <1>4, <1>5, <1>6 DEF MessageStep

LEMMA ChatTypeNext == ChatOK /\ [ChatNext]_chatVars => ChatOK'
<1>1. ChatOK /\ ListStep => ChatOK'
  BY ListStepType, PartsKept DEF ChatOK, OnlyLists
<1>2. ChatOK /\ UNCHANGED chatVars => ChatOK'
  BY PartsKept DEF ChatOK, chatVars
<1>. QED
  BY <1>1, <1>2, ChatSteps, OpenStepType, MessageStepType

\* Lists, openings, panel, store and texts keep their types, for any clients,
\* conversations, texts and bounds (admin-chat.js, admin-signalR.js).
THEOREM ChatTypeCorrect == ChatSpec => []ChatTypeOK
BY ChatTypeInit, ChatTypeNext, ChatTypes, PTL DEF ChatSpec

-----------------------------------------------------------------------------
(* The lists: as long as the page is shown, what was asked for last is for the
   client that is chosen, or for the one a group was created for. *)

ListsInv ==
    /\ active => \A r \in asked : r.latest => r.of = tenant \/ r.group
    /\ ListsFollowTenant

\* Whoever asks for the lists asks for the client that is chosen, or after a group.
LEMMA AskedFollows ==
    ASSUME ListOK, NEW g \in BOOLEAN, NEW t, AskForLists(t, g), t = tenant' \/ g
    PROVE  ListsInv'
<1>. DEFINE new == [of |-> t, latest |-> TRUE, group |-> g]
<1>1. \A r \in Asks : ~ [r EXCEPT !.latest = FALSE].latest
  BY DEF Asks
<1>2. asked' = {[r EXCEPT !.latest = FALSE] : r \in asked} \union {new}
  BY DEF AskForLists
<1>3. new.latest /\ (new.of = tenant' \/ new.group)
  OBVIOUS
<1>4. /\ \A r \in asked' : r.latest => r.of = tenant' \/ r.group
      /\ \E r \in asked' : r.latest
  <2>. HIDE DEF new
  <2>. QED
    BY <1>1, <1>2, <1>3 DEF ListOK
<1>. QED
  BY <1>4 DEF ListsInv, ListsFollowTenant

LEMMA ListsInvNext == ChatOK /\ ListsInv /\ [ChatNext]_chatVars => ListsInv'
<1>. SUFFICES ASSUME ListOK, ListsInv, [ChatNext]_chatVars PROVE ListsInv'
  BY DEF ChatOK
<1>1. ASSUME UNCHANGED <<tenant, active, asked, lists>> PROVE ListsInv'
  BY <1>1 DEF ListsInv, ListsFollowTenant
<1>2. CASE UNCHANGED chatVars
  BY <1>1, <1>2 DEF chatVars, listVars
<1>3. CASE OpenStep
  <2>1. UNCHANGED <<tenant, active, asked, lists>> \/ (AskForLists(tenant, FALSE) /\ UNCHANGED <<tenant, active>>)
    BY <1>3 DEF OpenStep, Open, HearsOf, Left, Joined, OpenFails, Loaded, LeftForGood,
                Archive, ArchiveServed, ArchiveAnswered, ArchiveFails, listVars
  <2>. QED
    BY <1>1, <2>1, AskedFollows
<1>4. CASE MessageStep
  <2>1. UNCHANGED <<tenant, active, asked, lists>> \/ (AskForLists(tenant, FALSE) /\ UNCHANGED <<tenant, active>>)
    BY <1>4 DEF MessageStep, Incoming, TypeText, SendMessage, Overtakes, MessageSent,
                SendFails, listVars
  <2>. QED
    BY <1>1, <2>1, AskedFollows
<1>5. CASE ListStep
  <2>1. ASSUME NEW r \in asked, NEW kind \in {"shown", "error"}, ListEnds(r, kind)
        PROVE  ListsInv'
    <3>1. /\ asked' = asked \ {r} /\ tenant' = tenant /\ active' = active
          /\ r.latest => lists' = [kind |-> kind, of |-> r.of, group |-> r.group]
          /\ ~ r.latest => lists' = lists
      BY <2>1 DEF ListEnds, LatestList
    <3>. QED
      BY <3>1 DEF ListsInv, ListsFollowTenant
  <2>2. ASSUME NEW t \in Choices, SwitchTenant(t) PROVE ListsInv'
    <3>1. CASE active
      BY <2>2, <3>1, AskedFollows DEF SwitchTenant
    <3>2. CASE ~ active
      BY <2>2, <3>2 DEF SwitchTenant, ListsInv, ListsFollowTenant
    <3>. QED
      BY <3>1, <3>2
  <2>3. ASSUME NEW t \in groups, GroupCreated(t) PROVE ListsInv'
    BY <2>3, AskedFollows DEF GroupCreated
  <2>4. CASE Refresh
    BY <2>4, AskedFollows DEF Refresh
  <2>6. CASE LeavePage
    BY <2>6 DEF LeavePage, ListsInv, ListsFollowTenant
  <2>7. CASE ShowPage
    BY <2>7, AskedFollows DEF ShowPage
  <2>5. ASSUME \/ \E t \in groups : GroupFails(t)
               \/ \E c \in Conversations : TakenAway(c)
               \/ CreateGroup
        PROVE  ListsInv'
    BY <1>1, <2>5 DEF GroupFails, TakenAway, CreateGroup
  <2>. QED
    BY <1>5, <2>1, <2>2, <2>3, <2>4, <2>5, <2>6, <2>7 DEF ListStep, ListsAnswered, ListsFail
<1>. QED
  BY <1>2, <1>3, <1>4, <1>5, ChatSteps

\* When the page is shown and nothing is loading, the lists are those of the client
\* that is chosen, a group created for another one apart (admin-chat.js listRequest,
\* admin-core.js handleClientChange).
THEOREM ListsCorrect == ChatSpec => []ListsFollowTenant
<1>1. ChatInit => ListsInv
  <2>1. [of |-> NoTenant, latest |-> TRUE, group |-> FALSE].latest
        /\ [of |-> NoTenant, latest |-> TRUE, group |-> FALSE].of = NoTenant
    OBVIOUS
  <2>. QED
    BY <2>1 DEF ChatInit, ListsInv, ListsFollowTenant
<1>2. ListsInv => ListsFollowTenant
  BY DEF ListsInv
<1>. QED
  BY <1>1, <1>2, ChatTypeInit, ChatTypeNext, ListsInvNext, PTL DEF ChatSpec

-----------------------------------------------------------------------------
(* What was typed: the input of what is open and its draft say the same, unless
   one of them is empty and the text of the other is accounted for. *)

Excused(v) == v \in pending \union given \union swallowed

DraftFollows ==
    context /= Nowhere =>
        \/ draft[context] = input
        \/ draft[context] = NoText /\ Excused(<<context, input>>)
        \/ input = NoText /\ Excused(<<context, draft[context]>>)

TextInv == TypedIsKept /\ DraftFollows

LEMMA TypedSays ==
    ASSUME TextOK, NEW v \in typed
    PROVE  /\ v[1] \in Conversations /\ v[2] \in Texts /\ v[2] /= NoText
           /\ v = <<v[1], v[2]>>
BY ChatAssumption DEF TextOK, Said

\* A message that reaches the store takes its text along, wherever it is.
LEMMA IngestedText ==
    ASSUME StoreOK, TextOK, OpenOK, TextInv, UNCHANGED <<context, typed>>,
           NEW m \in sends, Ingested(m),
           \/ UNCHANGED <<input, swallowed>>
           \/ /\ input' = IF input = m.text THEN NoText ELSE input
              /\ swallowed' = IF context \notin {m.conv, Nowhere} /\ input = m.text
                              THEN swallowed \union {<<context, input>>} ELSE swallowed
    PROVE  TextInv'
<1>. DEFINE After == pending' \union given' \union swallowed'
<1>1. /\ m.conv \in Conversations /\ m.text \in Texts /\ m.text /= NoText
      /\ draft \in [Conversations -> Values] /\ Nowhere \notin Conversations
      /\ context \in Conversations \union {Nowhere}
  <2>1. m \in Sends
    BY IngestedType
  <2>. QED
    BY <2>1, ChatAssumption DEF Sends, TextOK, OpenOK
<1>2. /\ draft' = [draft EXCEPT ![m.conv] = IF draft[m.conv] = m.text THEN NoText
                                            ELSE draft[m.conv]]
      /\ given' = given \union {<<m.conv, m.text>>}
      /\ pending' = pending \ {<<m.conv, m.text>>}
      /\ swallowed \subseteq swallowed'
  BY DEF Ingested
<1>3. \A v : Excused(v) => v \in After
  BY <1>2 DEF Excused
<1>4. <<m.conv, m.text>> \in After
  BY <1>2
<1>5. \A c \in Conversations : \/ draft'[c] = draft[c]
                               \/ c = m.conv /\ draft[c] = m.text /\ draft'[c] = NoText
  BY <1>1, <1>2
<1>6. \/ input' = input
      \/ /\ input = m.text /\ input' = NoText
         /\ context /= Nowhere => <<context, input>> \in After
  <2>1. \/ input' = input
        \/ input = m.text /\ input' = NoText
           /\ (context \notin {m.conv, Nowhere} => <<context, input>> \in swallowed')
    OBVIOUS
  <2>. QED
    BY <1>4, <2>1
<1>7. ASSUME NEW v \in typed
      PROVE  \/ context' = v[1] /\ input' = v[2]
             \/ draft'[v[1]] = v[2]
             \/ v \in After
  <2>1. v[1] \in Conversations /\ v = <<v[1], v[2]>>
    BY <1>7, TypedSays
  <2>2. (context = v[1] /\ input = v[2]) \/ draft[v[1]] = v[2] \/ Excused(v)
    BY <1>7 DEF TextInv, TypedIsKept, Excused
  <2>3. CASE context = v[1] /\ input = v[2]
    BY <1>1, <1>6, <2>1, <2>3
  <2>4. CASE draft[v[1]] = v[2]
    BY <1>4, <1>5, <2>1, <2>4
  <2>. QED
    BY <1>3, <2>2, <2>3, <2>4
<1>8. TypedIsKept'
  BY <1>1, <1>5, <1>6, <1>7 DEF TextInv, TypedIsKept, Excused
<1>9. DraftFollows'
  <2>. SUFFICES ASSUME context \in Conversations
                PROVE  \/ draft'[context] = input'
                       \/ draft'[context] = NoText /\ <<context, input>> \in After /\ input' = input
                       \/ input' = NoText /\ <<context, draft[context]>> \in After
                          /\ draft'[context] = draft[context]
    BY <1>1 DEF DraftFollows, Excused
  <2>1. \/ draft[context] = input
        \/ draft[context] = NoText /\ Excused(<<context, input>>)
        \/ input = NoText /\ Excused(<<context, draft[context]>>)
    BY <1>1 DEF TextInv, DraftFollows
  <2>. QED
    BY <1>1, <1>3, <1>4, <1>5, <1>6, <2>1
<1>. QED
  BY <1>8, <1>9 DEF TextInv

\* What closes the open conversation leaves its text in its draft.
LEMMA ClosedText ==
    ASSUME TextOK, OpenOK, TextInv, context' = Nowhere, UNCHANGED <<input, typed, swallowed>>,
           \/ UNCHANGED <<draft, pending, given>>
           \/ \E c \in Conversations : Removed(c)
    PROVE  TextInv'
<1>1. ASSUME NEW v \in typed PROVE draft[v[1]] = v[2] \/ Excused(v)
  <2>1. v[2] /= NoText /\ v[1] /= Nowhere /\ v = <<v[1], v[2]>>
    BY <1>1, TypedSays, ChatAssumption
  <2>2. (context = v[1] /\ input = v[2]) \/ draft[v[1]] = v[2] \/ Excused(v)
    BY <1>1 DEF TextInv, TypedIsKept, Excused
  <2>. QED
    BY <2>1, <2>2 DEF TextInv, DraftFollows
<1>2. \A c \in Conversations : draft[c] /= NoText => <<c, draft[c]>> \in typed
  BY DEF TextInv, TypedIsKept
<1>3. CASE UNCHANGED <<draft, pending, given>>
  BY <1>1, <1>2, <1>3 DEF TextInv, TypedIsKept, DraftFollows, Excused
<1>4. ASSUME NEW c \in Conversations, Removed(c) PROVE TextInv'
  <2>1. \A d \in Conversations : draft'[d] = IF d = c THEN NoText ELSE draft[d]
    BY <1>4 DEF Removed, TextOK
  <2>2. ASSUME NEW v \in typed PROVE draft'[v[1]] = v[2] \/ Excused(v)'
    <3>1. v[1] \in Conversations
      BY <2>2, TypedSays
    <3>2. CASE v[1] = c
      BY <1>4, <2>2, <3>2 DEF Removed, Excused
    <3>3. CASE v[1] /= c
      BY <1>1, <1>4, <2>1, <2>2, <3>1, <3>3 DEF Removed, Excused
    <3>. QED
      BY <3>2, <3>3
  <2>. QED
    BY <1>2, <2>1, <2>2 DEF TextInv, TypedIsKept, DraftFollows, Excused
<1>. QED
  BY <1>3, <1>4

LEMMA TextInvNext == ChatOK /\ TextInv /\ [ChatNext]_chatVars => TextInv'
<1>. SUFFICES ASSUME ChatOK, TextInv, [ChatNext]_chatVars PROVE TextInv'
  OBVIOUS
<1>0. /\ OpenOK /\ StoreOK /\ TextOK
      /\ draft \in [Conversations -> Values] /\ input \in Values
      /\ context \in Conversations \union {Nowhere} /\ Nowhere \notin Conversations
  BY ChatAssumption DEF ChatOK, OpenOK, TextOK
<1>1. ASSUME UNCHANGED context, UNCHANGED <<input, draft, pending, typed, given, swallowed>>
      PROVE  TextInv'
  BY <1>1 DEF TextInv, TypedIsKept, DraftFollows, Excused
<1>2. CASE UNCHANGED chatVars
  BY <1>1, <1>2 DEF chatVars, openVars, textVars
<1>3. CASE ListStep
  BY <1>1, <1>3, ListStepType DEF ChatOK, OnlyLists, openVars, textVars
<1>4. CASE OpenStep
  <2>1. ASSUME NEW c \in Conversations, Open(c) PROVE TextInv'
    <3>1. CASE context = Nowhere
      BY <1>1, <2>1, <3>1 DEF Open, SavedDraft
    <3>2. CASE context /= Nowhere
      <4>1. /\ \A d \in Conversations : draft'[d] = IF d = context THEN input ELSE draft[d]
            /\ UNCHANGED <<context, input, pending, typed, given, swallowed>>
        BY <1>0, <2>1, <3>2 DEF Open, SavedDraft
      <4>2. ASSUME NEW v \in typed
            PROVE  (context = v[1] /\ input = v[2]) \/ draft'[v[1]] = v[2] \/ Excused(v)
        <5>1. v[1] \in Conversations /\ v[2] /= NoText /\ v = <<v[1], v[2]>>
          BY <1>0, <4>2, TypedSays
        <5>2. (context = v[1] /\ input = v[2]) \/ draft[v[1]] = v[2] \/ Excused(v)
          BY <4>2 DEF TextInv, TypedIsKept, Excused
        <5>3. CASE v[1] = context /\ draft[v[1]] = v[2]
          BY <1>0, <3>2, <5>1, <5>3 DEF TextInv, DraftFollows
        <5>. QED
          BY <4>1, <5>1, <5>2, <5>3
      <4>. QED
        BY <1>0, <3>2, <4>1, <4>2 DEF TextInv, TypedIsKept, DraftFollows, Excused
    <3>. QED
      BY <3>1, <3>2
  <2>2. ASSUME NEW o \in opens, Left(o) PROVE TextInv'
    <3>1. CASE ~ StillWanted(o)
      BY <1>1, <2>2, <3>1 DEF Left
    <3>2. CASE StillWanted(o)
      <4>1. o.conv \in Conversations
        BY <1>0 DEF OpenOK, Opens
      <4>2. /\ context' = o.conv /\ input' = draft[o.conv]
            /\ UNCHANGED <<draft, pending, typed, given, swallowed>>
        BY <2>2, <3>2 DEF Left
      <4>3. ASSUME NEW v \in typed PROVE draft[v[1]] = v[2] \/ Excused(v)
        <5>1. v[2] /= NoText /\ v[1] /= Nowhere /\ v = <<v[1], v[2]>>
          BY <1>0, <4>3, TypedSays
        <5>2. (context = v[1] /\ input = v[2]) \/ draft[v[1]] = v[2] \/ Excused(v)
          BY <4>3 DEF TextInv, TypedIsKept, Excused
        <5>. QED
          BY <5>1, <5>2 DEF TextInv, DraftFollows
      <4>. QED
        BY <4>1, <4>2, <4>3 DEF TextInv, TypedIsKept, DraftFollows, Excused
    <3>. QED
      BY <3>1, <3>2
  <2>3. ASSUME NEW c \in Conversations, HearsOf(c) PROVE TextInv'
    <3>1. CASE context = c
      BY <1>0, <2>3, <3>1, ClosedText DEF HearsOf, Disable
    <3>2. CASE context /= c
      BY <1>1, <2>3, <3>2 DEF HearsOf
    <3>. QED
      BY <3>1, <3>2
  <2>4. CASE ArchiveAnswered
    <3>1. CASE archiving.at = "done"
      <4>1. /\ context' = Nowhere /\ UNCHANGED <<input, typed, swallowed>>
            /\ Removed(archiving.conv) \/ UNCHANGED <<draft, pending, given>>
        BY <2>4, <3>1 DEF ArchiveAnswered, Disable
      <4>2. CASE archiving.conv \in Conversations
        BY <1>0, <4>1, <4>2, ClosedText
      <4>3. CASE archiving.conv = Nowhere /\ Removed(Nowhere)
        <5>1. /\ draft' = draft /\ pending \subseteq pending' \union given'
              /\ given' = given
          BY <1>0, <4>3, TypedSays DEF Removed, TextOK, Said
        <5>2. pending' = pending
          BY <1>0, <4>3 DEF Removed, TextOK, Said
        <5>. QED
          BY <1>0, <4>1, <5>1, <5>2, ClosedText
      <4>4. CASE UNCHANGED <<draft, pending, given>>
        BY <1>0, <4>1, <4>4, ClosedText
      <4>. QED
        BY <1>0, <4>1, <4>2, <4>3, <4>4 DEF OpenOK
    <3>2. CASE archiving.at /= "done"
      BY <1>1, <2>4, <3>2 DEF ArchiveAnswered
    <3>. QED
      BY <3>1, <3>2
  <2>5. ASSUME \/ \E o \in opens : Joined(o) \/ OpenFails(o) \/ Loaded(o)
               \/ LeftForGood \/ Archive \/ ArchiveServed \/ ArchiveFails
        PROVE  TextInv'
    BY <1>1, <2>5 DEF Joined, OpenFails, Loaded, LeftForGood, Archive, ArchiveServed,
                      ArchiveFails, textVars
  <2>. QED
    BY <1>4, <2>1, <2>2, <2>3, <2>4, <2>5 DEF OpenStep
<1>5. CASE MessageStep
  <2>1. ASSUME NEW c \in Conversations, Incoming(c) PROVE TextInv'
    BY <1>1, <2>1 DEF Incoming, openVars, textVars
  <2>2. ASSUME NEW t \in Texts, TypeText(t) PROVE TextInv'
    <3>1. /\ context \in Conversations /\ t /= NoText
          /\ \A d \in Conversations : draft'[d] = IF d = context THEN t ELSE draft[d]
          /\ context' = context /\ input' = t /\ typed' = typed \union {<<context, t>>}
      BY <1>0, <2>2, ChatAssumption DEF TypeText, openVars
    <3>. DEFINE After == pending' \union given' \union swallowed'
    <3>2. \A v : v /= <<context, t>> /\ Excused(v) => v \in After
      BY <2>2 DEF TypeText, Excused
    <3>3. input /= NoText /\ input /= t => <<context, input>> \in After
      BY <2>2 DEF TypeText
    <3>4. ASSUME NEW v \in typed, v /= <<context, t>>
          PROVE  draft'[v[1]] = v[2] \/ v \in After
      <4>1. v[1] \in Conversations /\ v[2] /= NoText /\ v = <<v[1], v[2]>>
        BY <1>0, <3>4, TypedSays
      <4>2. (context = v[1] /\ input = v[2]) \/ draft[v[1]] = v[2] \/ Excused(v)
        BY <3>4 DEF TextInv, TypedIsKept, Excused
      <4>3. CASE context = v[1] /\ input = v[2]
        BY <3>3, <3>4, <4>1, <4>3
      <4>4. CASE context = v[1] /\ draft[v[1]] = v[2]
        <5>1. input = v[2] \/ Excused(v)
          BY <1>0, <3>1, <4>1, <4>4 DEF TextInv, DraftFollows
        <5>. QED
          BY <3>2, <3>4, <4>3, <4>4, <5>1
      <4>. QED
        BY <3>1, <3>2, <3>4, <4>1, <4>2, <4>3, <4>4
    <3>5. \A v \in typed' : \/ context' = v[1] /\ input' = v[2]
                            \/ draft'[v[1]] = v[2]
                            \/ v \in After
      BY <3>1, <3>4
    <3>6. \A c \in Conversations : draft'[c] /= NoText => <<c, draft'[c]>> \in typed'
      BY <3>1 DEF TextInv, TypedIsKept
    <3>. QED
      BY <3>1, <3>5, <3>6 DEF TextInv, TypedIsKept, DraftFollows
  <2>3. CASE SendMessage
    <3>1. /\ context \in Conversations /\ input /= NoText
          /\ \A d \in Conversations : draft'[d] = IF d = context THEN input ELSE draft[d]
          /\ pending' = pending \union {<<context, input>>}
          /\ UNCHANGED <<context, input, typed, given, swallowed>>
      BY <1>0, <2>3 DEF SendMessage, openVars
    <3>2. ASSUME NEW v \in typed
          PROVE  (context = v[1] /\ input = v[2]) \/ draft'[v[1]] = v[2] \/ Excused(v)
      <4>1. v[1] \in Conversations /\ v[2] /= NoText /\ v = <<v[1], v[2]>>
        BY <1>0, <3>2, TypedSays
      <4>2. (context = v[1] /\ input = v[2]) \/ draft[v[1]] = v[2] \/ Excused(v)
        BY <3>2 DEF TextInv, TypedIsKept, Excused
      <4>3. CASE v[1] = context /\ draft[v[1]] = v[2]
        BY <1>0, <3>1, <4>1, <4>3 DEF TextInv, DraftFollows
      <4>. QED
        BY <3>1, <4>1, <4>2, <4>3
    <3>3. \A v \in typed : \/ context = v[1] /\ input = v[2]
                           \/ draft'[v[1]] = v[2]
                           \/ v \in pending' \union given \union swallowed
      BY <3>1, <3>2 DEF Excused
    <3>4. \A c \in Conversations : draft'[c] /= NoText => <<c, draft'[c]>> \in typed
      BY <1>0, <3>1 DEF TextInv, TypedIsKept
    <3>. QED
      BY <3>1, <3>3, <3>4 DEF TextInv, TypedIsKept, DraftFollows
  <2>4. ASSUME NEW m \in sends, Overtakes(m) PROVE TextInv'
    BY <1>0, <2>4, IngestedText DEF Overtakes, openVars
  <2>5. ASSUME NEW m \in sends, MessageSent(m) PROVE TextInv'
    BY <1>0, <2>5, IngestedText DEF MessageSent, openVars
  <2>6. ASSUME NEW m \in sends, SendFails(m) PROVE TextInv'
    BY <2>6 DEF SendFails, openVars, TextInv, TypedIsKept, DraftFollows, Excused
  <2>. QED
    BY <1>5, <2>1, <2>2, <2>3, <2>4, <2>5, <2>6 DEF MessageStep
<1>. QED
  BY <1>2, <1>3, <1>4, <1>5, ChatSteps

\* What the admin typed is in the input, in the draft of its conversation or
\* among the unsent messages until it is delivered, replaced or archived, and in
\* no other one's input or draft (admin-chat.js saveCurrentDraft, sendMainChatMessage).
THEOREM TypedCorrect == ChatSpec => []TypedIsKept
<1>1. ChatInit => TextInv
  BY DEF ChatInit, TextInv, TypedIsKept, DraftFollows
<1>2. TextInv => TypedIsKept
  BY DEF TextInv
<1>. QED
  BY <1>1, <1>2, ChatTypeInit, ChatTypeNext, TextInvNext, PTL DEF ChatSpec

-----------------------------------------------------------------------------
(* The panel: at most one opening is still wanted, and from its join on it is
   of the conversation that is open, so whatever ends it leaves the panel right. *)

OpenInv ==
    /\ \A o, p \in opens : o.latest /\ p.latest => o = p
    /\ \A o \in opens : o.latest => ~ o.aborted /\ (o.at /= "leave" => context = o.conv)

Opening == \E o \in opens : o.latest

\* What a loaded panel shows when nothing is being opened.
PanelShows ==
    /\ \A row \in rows : row[1] = context \/ row \in misplaced
    /\ \A row \in StoredRows(context) : row \in rows \union own

PanelInv ==
    /\ OpenInv
    /\ notice = "loaded" => context /= Nowhere /\ (Opening \/ PanelShows)

LEMMA OvertakenLatest ==
    ASSUME OpenOK PROVE \A o \in Overtaken : ~ o.latest
<1>1. ASSUME NEW o \in Opens, NEW b
      PROVE  ~ [o EXCEPT !.latest = FALSE, !.aborted = b].latest
  BY <1>1 DEF Opens
<1>2. ASSUME NEW o \in opens
      PROVE  ~ [o EXCEPT !.latest = FALSE,
                         !.aborted = @ \/ (o.at = "load" /\ o.conv = context)].latest
  <2>. DEFINE b == o.aborted \/ (o.at = "load" /\ o.conv = context)
  <2>1. ~ [o EXCEPT !.latest = FALSE, !.aborted = b].latest
    <3>. HIDE DEF b
    <3>. QED
      BY <1>1 DEF OpenOK
  <2>. QED
    BY <2>1
<1>. QED
  BY <1>2 DEF Overtaken

\* Closing leaves nothing to be wrong.
LEMMA DisabledPanel == ASSUME OpenOK, Disable PROVE PanelInv'
BY OvertakenLatest DEF Disable, PanelInv, OpenInv

\* Openings that are dropped, one that is no longer wanted or the last one.
LEMMA FewerOpens ==
    ASSUME PanelInv, NEW o \in opens, opens' = opens \ {o}, context' = context,
           \/ ~ o.latest /\ UNCHANGED <<rows, notice, misplaced, stored, own>>
           \/ notice' /= "loaded"
           \/ context /= Nowhere /\ PanelShows'
    PROVE  PanelInv'
<1>1. OpenInv'
  BY DEF PanelInv, OpenInv
<1>2. ~ o.latest => (Opening' <=> Opening)
  BY DEF Opening
<1>3. UNCHANGED <<context, rows, notice, misplaced, stored, own>> => (PanelShows' <=> PanelShows)
  BY DEF PanelShows, StoredRows
<1>. QED
  BY <1>1, <1>2, <1>3 DEF PanelInv

\* One more message in the store is one more in the panel that is to show it.
LEMMA StoredOneMore ==
    ASSUME OpenOK, StoreOK, NEW c \in Conversations,
           stored' = [stored EXCEPT ![c] = @ + 1], context' = context, context /= Nowhere
    PROVE  \A row \in StoredRows(context)' :
               row \in StoredRows(context) \/ (c = context /\ row = <<c, stored[c] + 1>>)
<1>1. context \in Conversations /\ \A d \in Conversations : stored[d] \in Nat
  BY ChatAssumption DEF OpenOK, StoreOK
<1>2. stored'[context] = IF c = context THEN stored[c] + 1 ELSE stored[context]
  BY <1>1 DEF StoreOK
<1>3. ASSUME NEW n \in Nat, n <= stored'[context], n >= 1
      PROVE  n <= stored[context] \/ (c = context /\ n = stored[c] + 1)
  <2>1. CASE c = context
    BY <1>1, <1>2, <1>3, <2>1
  <2>2. CASE c /= context
    BY <1>1, <1>2, <1>3, <2>2
  <2>. QED
    BY <2>1, <2>2
<1>4. ASSUME NEW row \in StoredRows(context)'
      PROVE  row \in StoredRows(context) \/ (c = context /\ row = <<c, stored[c] + 1>>)
  <2>1. PICK n \in 1..stored'[context] : row = <<context, n>>
    BY <1>4 DEF StoredRows
  <2>2. n \in Nat /\ n >= 1 /\ n <= stored'[context]
    BY <1>1, <1>2, <2>1
  <2>3. n <= stored[context] => n \in 1..stored[context]
    BY <1>1, <2>2
  <2>. QED
    BY <1>3, <2>1, <2>2, <2>3 DEF StoredRows
<1>. QED
  BY <1>4

LEMMA PanelInvNext == ChatOK /\ PanelInv /\ [ChatNext]_chatVars => PanelInv'
<1>. SUFFICES ASSUME ChatOK, PanelInv, [ChatNext]_chatVars PROVE PanelInv'
  OBVIOUS
<1>0. /\ OpenOK /\ StoreOK /\ TextOK /\ opens \subseteq Opens
      /\ Nowhere \notin Conversations
  BY ChatAssumption DEF ChatOK, OpenOK
<1>1. ASSUME UNCHANGED <<context, opens, rows, notice, misplaced, stored, own>>
      PROVE  PanelInv'
  BY <1>1 DEF PanelInv, OpenInv, Opening, PanelShows, StoredRows
<1>2. CASE UNCHANGED chatVars
  BY <1>1, <1>2 DEF chatVars, openVars, panelVars, storeVars
<1>3. CASE ListStep
  BY <1>1, <1>3, ListStepType DEF ChatOK, OnlyLists, openVars, panelVars, storeVars
<1>4. CASE OpenStep
  <2>1. ASSUME NEW c \in Conversations, Open(c) PROVE PanelInv'
    <3>. DEFINE new == [conv |-> c, at |-> "leave", latest |-> TRUE, aborted |-> FALSE]
    <3>1. opens' = Overtaken \union {new} /\ UNCHANGED <<context, panelVars, storeVars>>
      BY <2>1 DEF Open
    <3>2. new.latest /\ ~ new.aborted /\ new.at = "leave"
      OBVIOUS
    <3>. HIDE DEF new
    <3>3. \A o \in opens' : o.latest => o = new
      BY <1>0, <3>1, OvertakenLatest
    <3>. QED
      BY <3>1, <3>2, <3>3 DEF PanelInv, OpenInv, Opening, panelVars
  <2>2. ASSUME NEW c \in Conversations, HearsOf(c) PROVE PanelInv'
    <3>1. CASE context = c
      BY <1>0, <2>2, <3>1, DisabledPanel DEF HearsOf
    <3>2. CASE context /= c
      BY <1>1, <2>2, <3>2 DEF HearsOf, storeVars
    <3>. QED
      BY <3>1, <3>2
  <2>3. ASSUME NEW o \in opens, Left(o) PROVE PanelInv'
    <3>1. CASE ~ StillWanted(o)
      BY <2>3, <3>1, FewerOpens DEF Left, StillWanted, panelVars, storeVars
    <3>2. CASE StillWanted(o)
      <4>. DEFINE new == [o EXCEPT !.at = "join"]
      <4>1. /\ opens' = (opens \ {o}) \union {new}
            /\ context' = o.conv /\ UNCHANGED notice
        BY <2>3, <3>2 DEF Left, GoesTo, panelVars
      <4>2. new.latest /\ ~ new.aborted /\ new.conv = o.conv /\ o.conv /= Nowhere
        BY <1>0, <3>2 DEF StillWanted, Opens, PanelInv, OpenInv
      <4>. HIDE DEF new
      <4>3. \A p \in opens' : p.latest => p = new
        BY <3>2, <4>1 DEF StillWanted, PanelInv, OpenInv
      <4>. QED
        BY <4>1, <4>2, <4>3 DEF PanelInv, OpenInv, Opening
    <3>. QED
      BY <3>1, <3>2
  <2>4. ASSUME NEW o \in opens, Joined(o) PROVE PanelInv'
    <3>1. CASE ~ StillWanted(o)
      BY <2>4, <3>1, FewerOpens DEF Joined, StillWanted, panelVars, storeVars
    <3>2. CASE StillWanted(o)
      <4>. DEFINE new == [o EXCEPT !.at = "load"]
      <4>1. opens' = (opens \ {o}) \union {new} /\ notice' = "loading" /\ context' = context
        BY <2>4, <3>2 DEF Joined, GoesTo
      <4>2. ~ new.aborted /\ new.conv = context
        BY <1>0, <2>4, <3>2 DEF Joined, StillWanted, Opens, PanelInv, OpenInv
      <4>. HIDE DEF new
      <4>3. \A p \in opens' : p.latest => p = new
        BY <3>2, <4>1 DEF StillWanted, PanelInv, OpenInv
      <4>. QED
        BY <4>1, <4>2, <4>3 DEF PanelInv, OpenInv
    <3>. QED
      BY <3>1, <3>2
  <2>5. ASSUME NEW o \in opens, OpenFails(o) PROVE PanelInv'
    <3>1. o.latest => ~ o.aborted
      BY DEF PanelInv, OpenInv
    <3>. QED
      BY <2>5, <3>1, FewerOpens DEF OpenFails, StillWanted, storeVars
  <2>6. ASSUME NEW o \in opens, Loaded(o) PROVE PanelInv'
    <3>1. CASE context /= o.conv
      <4>1. ~ o.latest
        BY <2>6, <3>1 DEF Loaded, PanelInv, OpenInv
      <4>. QED
        BY <2>6, <3>1, <4>1, FewerOpens DEF Loaded, storeVars
    <3>2. CASE context = o.conv
      <4>1. context \in Conversations
        BY <1>0, <3>2 DEF Opens
      <4>2. PanelShows'
        BY <2>6, <3>2 DEF Loaded, PanelShows, StoredRows, storeVars
      <4>. QED
        BY <1>0, <2>6, <4>1, <4>2, FewerOpens DEF Loaded
    <3>. QED
      BY <3>1, <3>2
  <2>7. CASE ArchiveAnswered
    <3>1. CASE archiving.at = "done"
      BY <1>0, <2>7, <3>1, DisabledPanel DEF ArchiveAnswered
    <3>2. CASE archiving.at /= "done"
      BY <1>1, <2>7, <3>2 DEF ArchiveAnswered, storeVars
    <3>. QED
      BY <3>1, <3>2
  <2>8. CASE LeftForGood \/ Archive \/ ArchiveServed \/ ArchiveFails
    BY <1>1, <2>8 DEF LeftForGood, Archive, ArchiveServed, ArchiveFails, panelVars, storeVars
  <2>. QED
    BY <1>4, <2>1, <2>2, <2>3, <2>4, <2>5, <2>6, <2>7, <2>8 DEF OpenStep
<1>5. CASE MessageStep
  <2>0. ASSUME UNCHANGED <<context, opens>>, notice' = "loaded" => notice = "loaded",
               notice = "loaded" /\ PanelShows => PanelShows'
        PROVE  PanelInv'
    BY <2>0 DEF PanelInv, OpenInv, Opening
  <2>1. ASSUME NEW c \in Conversations, Incoming(c) PROVE PanelInv'
    <3>1. /\ UNCHANGED <<context, opens, own, misplaced>>
          /\ stored' = [stored EXCEPT ![c] = @ + 1]
          /\ notice' = "loaded" => notice = "loaded"
          /\ context = c => rows' = rows \union {<<c, stored[c] + 1>>}
          /\ context /= c => rows' = rows
      BY <2>1 DEF Incoming, Display, openVars
    <3>2. ASSUME notice = "loaded", PanelShows PROVE PanelShows'
      <4>1. context /= Nowhere
        BY <3>2 DEF PanelInv
      <4>2. \A row \in StoredRows(context)' :
               row \in StoredRows(context) \/ (c = context /\ row = <<c, stored[c] + 1>>)
        BY <1>0, <3>1, <4>1, StoredOneMore
      <4>. QED
        BY <3>1, <3>2, <4>2 DEF PanelShows
    <3>. QED
      BY <2>0, <3>1, <3>2
  <2>2. ASSUME NEW m \in sends, Ingested(m), UNCHANGED <<context, opens>>,
               notice' = "loaded" => notice = "loaded", rows \subseteq rows',
               misplaced \subseteq misplaced',
               \A row \in rows' \ rows : row[1] = context \/ row \in misplaced'
        PROVE  PanelInv'
    <3>1. m \in Sends /\ m.conv \in Conversations /\ m.number \in Nat
      BY <1>0, ChatAssumption DEF TextOK, Sends
    <3>2. ASSUME notice = "loaded", PanelShows PROVE PanelShows'
      <4>1. context /= Nowhere
        BY <3>2 DEF PanelInv
      <4>2. \A row \in StoredRows(context)' : row \in StoredRows(context) \union own'
        <5>1. CASE m.number > 0
          BY <2>2, <5>1 DEF Ingested, storeVars, StoredRows
        <5>2. CASE ~ (m.number > 0)
          <6>1. /\ stored' = [stored EXCEPT ![m.conv] = @ + 1]
                /\ own' = own \union {<<m.conv, stored'[m.conv]>>}
            BY <2>2, <5>2 DEF Ingested
          <6>2. stored'[m.conv] = stored[m.conv] + 1
            BY <1>0, <3>1, <6>1 DEF StoreOK
          <6>3. \A row \in StoredRows(context)' :
                    row \in StoredRows(context)
                    \/ (m.conv = context /\ row = <<m.conv, stored[m.conv] + 1>>)
            BY <1>0, <2>2, <3>1, <4>1, <6>1, StoredOneMore
          <6>. QED
            BY <6>1, <6>2, <6>3
        <5>. QED
          BY <5>1, <5>2
      <4>3. own \subseteq own'
        BY <2>2 DEF Ingested, storeVars
      <4>. QED
        BY <2>2, <3>2, <4>2, <4>3 DEF PanelShows
    <3>. QED
      BY <2>0, <2>2, <3>2
  <2>3. ASSUME NEW m \in sends, Overtakes(m) PROVE PanelInv'
    BY <2>2, <2>3 DEF Overtakes, openVars, panelVars
  <2>4. ASSUME NEW m \in sends, MessageSent(m) PROVE PanelInv'
    <3>. DEFINE row == <<m.conv, IF m.number > 0 THEN m.number ELSE stored[m.conv] + 1>>
    <3>1. /\ Ingested(m) /\ UNCHANGED <<context, opens>>
          /\ Display({row})
          /\ misplaced' = IF context = m.conv THEN misplaced ELSE misplaced \union {row}
      BY <2>4 DEF MessageSent, openVars
    <3>2. row[1] = m.conv
      OBVIOUS
    <3>. HIDE DEF row
    <3>. QED
      BY <2>2, <3>1, <3>2 DEF Display
  <2>5. ASSUME \/ \E t \in Texts : TypeText(t)
               \/ \E m \in sends : SendFails(m)
               \/ SendMessage
        PROVE  PanelInv'
    BY <1>1, <2>5 DEF TypeText, SendFails, SendMessage, openVars, panelVars, storeVars
  <2>. QED
    BY <1>5, <2>1, <2>3, <2>4, <2>5 DEF MessageStep
<1>. QED
  BY <1>2, <1>3, <1>4, <1>5, ChatSteps

\* A loaded panel shows what is open, all of it and nothing else, however the
\* clicks, loads, messages and removals overtake one another (admin-chat.js
\* openConversationItem, openRequest, cancelReconcile).
THEOREM PanelCorrect == ChatSpec => []PanelIsOwn
<1>1. ChatInit => PanelInv
  BY DEF ChatInit, PanelInv, OpenInv
<1>2. PanelInv => PanelIsOwn
  BY DEF PanelInv, Opening, PanelShows, PanelIsOwn
<1>. QED
  BY <1>1, <1>2, ChatTypeInit, ChatTypeNext, PanelInvNext, PTL DEF ChatSpec
===========================================================================
