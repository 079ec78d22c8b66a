------------------------------ MODULE AdminCases ------------------------------
(***************************************************************************)
(* Tickets and inquiries in the admin console: the choice of a client      *)
(* (admin-core.js), the pages (admin-navigation.js), the two tables and    *)
(* the detail panel beside each (admin-tickets.js, admin-inquiries.js),    *)
(* and the dashboard (admin-dashboard.js).                                 *)
(*                                                                         *)
(* A table is a DataTable: a reload gives up the request before it, and    *)
(* one that fails leaves the rows.  The dashboard numbers its requests;    *)
(* the detail panel does not.  Several admins work on the same cases, and  *)
(* the version of a case is what keeps them apart.                         *)
(*                                                                         *)
(* Each client has one case of either kind here.                           *)
(***************************************************************************)
EXTENDS Integers, FiniteSets, ConsoleBudget

CONSTANTS
    Kinds,             \* tickets and inquiries
    Clients, All,      \* what the switcher offers: a client, or all of them
    NoCase,
    MaxVersion         \* bound: changes to a case

ASSUME KindsAssumption == Kinds \subseteq {"tickets", "inquiries"}
ASSUME CasesAssumption == NoCase \notin Clients /\ MaxVersion \in Nat \ {0}

Pages == Kinds \union {"dashboard", "clients", "chats"}
Scopes == Clients \union {All}
Filters == {"", "Open"}
Queries == [client: Scopes, status: Filters]
NoQuery == [client |-> NoCase, status |-> "none"]

VARIABLES
    currentClientId, page,
    filter,            \* the status filter above a table
    tables,
    dashboard, loads,  \* what it shows, and loadEnhancedDashboardData under way
    current,           \* currentTicketData and currentInquiryData
    details,           \* requests for details
    saves,             \* a status on its way to the server: one for each button
    version,           \* the server: versions of a case
    overwrote          \* history: kinds of which a change was lost unseen

scopeVars == <<currentClientId, page, filter>>
dashboardVars == <<dashboard, loads>>
caseVars == <<current, details, saves, version, overwrote>>
casesVars == <<scopeVars, tables, dashboardVars, caseVars>>

\* `version` is sent with a save, `knows` is the version of what the panel
\* shows; `grafted` if it came with the answer to a save of something else.
Case == [client: Clients, version: 1..MaxVersion, knows: 1..MaxVersion, grafted: BOOLEAN]
Nothing == [client |-> NoCase, version |-> 0, knows |-> 0, grafted |-> FALSE]
Save == [case: Case, at: {"sent", "refused", "saved"}, made: 1..MaxVersion]
NoSave == [case |-> Nothing, at |-> "none", made |-> 0]

CasesTypeOK ==
    /\ currentClientId \in Scopes /\ page \in Pages
    /\ filter \in [Kinds -> Filters]
    /\ tables \in [Kinds -> [made: BOOLEAN, shows: Queries \union {NoQuery},
                             asks: Queries \union {NoQuery}, failed: BOOLEAN]]
    /\ dashboard \in [kind: {"loading", "shown", "error"}, of: Scopes]
    /\ loads \subseteq [of: Scopes, latest: BOOLEAN]
    /\ current \in [Kinds -> Case \union {Nothing}]
    /\ details \subseteq [kind: Kinds, client: Clients, since: 1..MaxVersion]
    /\ saves \in [Kinds -> Save \union {NoSave}]
    /\ version \in [Kinds \X Clients -> 1..MaxVersion]
    /\ overwrote \subseteq Kinds

-----------------------------------------------------------------------------
(* The dashboard, and what the tables ask for. *)

\* loadEnhancedDashboardData: every request before this one is out of date.
LoadDashboard(c) ==
    /\ loads' = {[l EXCEPT !.latest = FALSE] : l \in loads} \union {[of |-> c, latest |-> TRUE]}
    /\ dashboard' = [kind |-> "loading", of |-> c]

Query(k, c, f) == [client |-> c, status |-> f[k]]

\* initialize of the kinds S: the first time it makes the table, which loads.
Made(T, S, c, f) ==
    [k \in Kinds |-> IF k \in S /\ ~ T[k].made
                     THEN [T[k] EXCEPT !.made = TRUE, !.asks = Query(k, c, f)] ELSE T[k]]

\* ajax.reload of the tables of S that exist.
Reloaded(T, S, c, f) ==
    [k \in Kinds |-> IF k \in S /\ T[k].made THEN [T[k] EXCEPT !.asks = Query(k, c, f)] ELSE T[k]]

\* The detail panels that close with it.
Closed(T, S) == [k \in Kinds |-> IF k \in S /\ T[k].made THEN Nothing ELSE current[k]]

CasesInit ==
    /\ currentClientId = All /\ page = "dashboard"
    /\ filter = [k \in Kinds |-> ""]
    /\ tables = [k \in Kinds |-> [made |-> FALSE, shows |-> NoQuery, asks |-> NoQuery, failed |-> FALSE]]
    /\ dashboard = [kind |-> "loading", of |-> All]
    /\ loads = {[of |-> All, latest |-> TRUE]}
    /\ current = [k \in Kinds |-> Nothing]
    /\ details = {}
    /\ saves = [k \in Kinds |-> NoSave]
    /\ version = [c \in Kinds \X Clients |-> 1]
    /\ overwrote = {}

-----------------------------------------------------------------------------
(* Scope and navigation. *)

\* filterByClient of both kinds.
FilterByClient(c) ==
    /\ tables' = Reloaded(tables, Kinds, c, filter)
    /\ current' = Closed(tables, Kinds)

\* The handler of the client switchers. The chats page is AdminChat's.
SwitchClient(c) ==
    /\ c /= currentClientId
    /\ Click
    /\ currentClientId' = c
    /\ IF page = "dashboard" THEN LoadDashboard(c) ELSE UNCHANGED dashboardVars
    /\ FilterByClient(c)
    /\ UNCHANGED <<page, filter, details, saves, version, overwrote>>

\* A client of the directory: the switcher changes, then the dashboard opens.
OpenClient(c) ==
    /\ page = "clients"
    /\ Click
    /\ currentClientId' = c
    /\ page' = "dashboard"
    /\ FilterByClient(c)
    /\ LoadDashboard(c)
    /\ UNCHANGED <<filter, details, saves, version, overwrote>>

\* A link of the sidebar: the page's initializer.
Visit(p) ==
    /\ Click
    /\ page' = p
    /\ IF p = "dashboard" THEN LoadDashboard(currentClientId) ELSE UNCHANGED dashboardVars
    /\ tables' = Made(tables, {p}, currentClientId, filter)
    /\ UNCHANGED <<currentClientId, filter, caseVars>>

\* filterByStatus, from the filter or after the page was opened by a card, a
\* worklist or a notification (navigateToTicketManagement).
FilterByStatus(k, f, T) ==
    /\ filter' = [filter EXCEPT ![k] = f]
    /\ tables' = Reloaded(T, {k}, currentClientId, filter')
    /\ current' = Closed(T, {k})

Filter(k, f) ==
    /\ page = k /\ f /= filter[k]
    /\ Click
    /\ FilterByStatus(k, f, tables)
    /\ UNCHANGED <<currentClientId, page, dashboardVars, details, saves, version, overwrote>>

Navigate(k, f) ==
    /\ Click
    /\ page' = k
    /\ FilterByStatus(k, f, Made(tables, {k}, currentClientId, filter))
    /\ UNCHANGED <<currentClientId, dashboardVars, details, saves, version, overwrote>>

\* An event of the hub says that a case of the kind has changed.
CaseChanged(k) ==
    /\ tables[k].made
    /\ tables' = Reloaded(tables, {k}, currentClientId, filter)
    /\ Free
    /\ UNCHANGED <<scopeVars, dashboardVars, caseVars>>

TableAnswered(k) ==
    /\ tables[k].asks /= NoQuery
    /\ tables' = [tables EXCEPT ![k].shows = tables[k].asks, ![k].asks = NoQuery, ![k].failed = FALSE]
    /\ Free
    /\ UNCHANGED <<scopeVars, dashboardVars, caseVars>>

\* The rows stay.
TableFails(k) ==
    /\ tables[k].asks /= NoQuery
    /\ Loss
    /\ tables' = [tables EXCEPT ![k].asks = NoQuery, ![k].failed = TRUE]
    /\ UNCHANGED <<scopeVars, dashboardVars, caseVars>>

\* An answer that is rendered whatever was asked for since.
AnyAnswer(l) == TRUE

\* version === requestVersion.
StillLatest(l) == l.latest

DashboardEnds(l, kind) ==
    /\ loads' = loads \ {l}
    /\ dashboard' = IF StillLatest(l) THEN [kind |-> kind, of |-> l.of] ELSE dashboard
    /\ UNCHANGED <<scopeVars, tables, caseVars>>

DashboardAnswered(l) == DashboardEnds(l, "shown") /\ Free
DashboardFails(l) == DashboardEnds(l, "error") /\ Loss

-----------------------------------------------------------------------------
(* Details, and the status of a case. *)

\* A row, or 200 or 500 ms after Navigate the case of a worklist or of a
\* notification, of whatever client.
LoadDetails(k, c) ==
    /\ Click
    /\ details' = details \union {[kind |-> k, client |-> c, since |-> version[<<k, c>>]]}
    /\ UNCHANGED <<scopeVars, tables, dashboardVars, current, saves, version, overwrote>>

\* The panel shows it, whatever was asked for, opened or closed since.
DetailsAnswered(d) ==
    /\ \E v \in d.since..version[<<d.kind, d.client>>] :
           current' = [current EXCEPT ![d.kind] =
               [client |-> d.client, version |-> v, knows |-> v, grafted |-> FALSE]]
    /\ details' = details \ {d}
    /\ Free
    /\ UNCHANGED <<scopeVars, tables, dashboardVars, saves, version, overwrote>>

DetailsFail(d) ==
    /\ Loss
    /\ details' = details \ {d}
    /\ UNCHANGED <<scopeVars, tables, dashboardVars, current, saves, version, overwrote>>

CloseDetail(k) ==
    /\ current[k] /= Nothing
    /\ Click
    /\ current' = [current EXCEPT ![k] = Nothing]
    /\ UNCHANGED <<scopeVars, tables, dashboardVars, details, saves, version, overwrote>>

\* updateTicketStatus up to its request. The button is disabled until the end.
SaveStatus(k) ==
    /\ current[k] /= Nothing
    /\ saves[k] = NoSave
    /\ Click
    /\ saves' = [saves EXCEPT ![k] = [case |-> current[k], at |-> "sent", made |-> 1]]
    /\ UNCHANGED <<scopeVars, tables, dashboardVars, current, details, version, overwrote>>

\* The server takes it if the version is the one it has and the status another.
SaveServed(k) ==
    LET sent == saves[k].case
        c == <<k, sent.client>>
    IN  /\ saves[k].at = "sent"
        /\ \/ /\ sent.version = version[c]
              /\ version[c] < MaxVersion
              /\ version' = [version EXCEPT ![c] = @ + 1]
              /\ saves' = [saves EXCEPT ![k].at = "saved", ![k].made = version'[c]]
              /\ overwrote' = IF sent.knows < version[c] /\ ~ sent.grafted
                              THEN overwrote \union {k} ELSE overwrote
           \/ /\ saves' = [saves EXCEPT ![k].at = "refused"]
              /\ UNCHANGED <<version, overwrote>>
        /\ Free
        /\ UNCHANGED <<scopeVars, tables, dashboardVars, current, details>>

\* The answer has the version that a second query found after the save. It
\* goes to the case that is shown by now; without one the handler fails.
SaveAnswered(k) ==
    LET sent == saves[k].case
        own == current[k].client = sent.client
    IN  /\ saves[k].at = "saved"
        /\ saves' = [saves EXCEPT ![k] = NoSave]
        /\ IF current[k] = Nothing
           THEN UNCHANGED <<current, tables, dashboardVars>>
           ELSE /\ \E v \in saves[k].made..version[<<k, sent.client>>] :
                       current' = [current EXCEPT
                           ![k].version = v,
                           ![k].knows = IF own THEN saves[k].made ELSE @,
                           ![k].grafted = ~ own \/ v > saves[k].made]
                /\ tables' = Reloaded(tables, {k}, currentClientId, filter)
                /\ IF k = "inquiries" /\ page = "dashboard"
                   THEN LoadDashboard(currentClientId) ELSE UNCHANGED dashboardVars
        /\ Free
        /\ UNCHANGED <<scopeVars, details, version, overwrote>>

\* After a refusal, to let the admin save again with the version there is now.
VersionThereIs(k) ==
    IF current[k].client /= saves[k].case.client THEN current
    ELSE [current EXCEPT ![k].version = version[<<k, saves[k].case.client>>]]

AfterRefusal(k) == current

SaveRefused(k) ==
    /\ saves[k].at = "refused"
    /\ saves' = [saves EXCEPT ![k] = NoSave]
    /\ current' = AfterRefusal(k)
    /\ Free
    /\ UNCHANGED <<scopeVars, tables, dashboardVars, details, version, overwrote>>

SaveFails(k) ==
    /\ saves[k] /= NoSave
    /\ Loss
    /\ saves' = [saves EXCEPT ![k] = NoSave]
    /\ UNCHANGED <<scopeVars, tables, dashboardVars, current, details, version, overwrote>>

ColleagueSaves(k, c) ==
    /\ version[<<k, c>>] < MaxVersion
    /\ version' = [version EXCEPT ![<<k, c>>] = @ + 1]
    /\ Free
    /\ UNCHANGED <<scopeVars, tables, dashboardVars, current, details, saves, overwrote>>

-----------------------------------------------------------------------------
CasesNext ==
    \/ \E c \in Scopes : SwitchClient(c) \/ OpenClient(c)
    \/ \E p \in Pages : Visit(p)
    \/ \E k \in Kinds :
        \/ \E f \in Filters : Filter(k, f) \/ Navigate(k, f)
        \/ \E c \in Clients : LoadDetails(k, c) \/ ColleagueSaves(k, c)
        \/ CaseChanged(k) \/ TableAnswered(k) \/ TableFails(k) \/ CloseDetail(k)
        \/ SaveStatus(k) \/ SaveServed(k) \/ SaveAnswered(k) \/ SaveRefused(k) \/ SaveFails(k)
    \/ \E l \in loads : DashboardAnswered(l) \/ DashboardFails(l)
    \/ \E d \in details : DetailsAnswered(d) \/ DetailsFail(d)

\* The rest of the console may use the budget as well.
CasesSpec == CasesInit /\ [][CasesNext]_casesVars

-----------------------------------------------------------------------------
\* When nothing is loading, the tables and the dashboard that is open show what
\* the switcher and the filters say, or the admin was told that a load failed:
\* in any order of switches, pages, events and answers (handleClientChange,
\* filterByStatus, requestVersion).
ScopeIsShown ==
    /\ \A k \in Kinds :
           tables[k].made /\ tables[k].asks = NoQuery /\ ~ tables[k].failed
           => tables[k].shows = Query(k, currentClientId, filter)
    /\ page = "dashboard" /\ (\A l \in loads : ~ l.latest)
       => dashboard.of = currentClientId /\ dashboard.kind /= "loading"

\* The server takes a status only from an admin whose panel showed the case as
\* it was, two known cases apart: the version came with the answer to a save of
\* another case, or with a change of a colleague that was saved right behind
\* (updateTicketStatus writes result.version into what is shown by then).
SavesAreInformed == overwrote = {}
=============================================================================
