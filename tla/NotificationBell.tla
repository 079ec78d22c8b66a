--------------------------- MODULE NotificationBell ---------------------------
(***************************************************************************)
(* The bell of the client page (chat.js) and of the admin console          *)
(* (admin-notification.js): a badge with the number of unread              *)
(* notifications and a list of the newest of them.                         *)
(*                                                                         *)
(* Both are written by the answers to three requests: one that loads, one  *)
(* that marks a notification as read and one that marks all.  Any number   *)
(* of them may be under way, and no answer knows whether it is the last    *)
(* word; what sets things right is the load that is repeated every 30      *)
(* seconds.  A notification is its number, in the order they were made.    *)
(***************************************************************************)
EXTENDS Integers, FiniteSets, ConsoleBudget

CONSTANTS
    PageLimit,         \* 20 notifications in a list
    MaxNotifications,  \* bound: notifications that are made
    MaxRequests        \* bound: requests under way

VARIABLES
    made, read,        \* the server: notifications made, and those read
    badge,             \* unreadNotificationCount
    list,              \* the elements of the list, and those of class "unread"
    requests

bellVars == <<made, read, badge, list, requests>>

Notifications == 1..MaxNotifications
Request == [kind: {"load", "one", "all"}, id: 0..MaxNotifications,
            at: {"sent", "answered", "body"}, made: 0..MaxNotifications, read: SUBSET Notifications]

BellTypeOK ==
    /\ made \in 0..MaxNotifications /\ read \subseteq 1..made
    /\ badge \in 0..MaxNotifications
    /\ list \in [kind: {"loading", "items", "error"}, items: SUBSET Notifications,
                 unread: SUBSET Notifications]
    /\ requests \subseteq Request

NoItems(kind) == [kind |-> kind, items |-> {}, unread |-> {}]

\* What is unread of the first n notifications when R are read, and the page.
Unread(n, R) == (1..n) \ R
Page(n) == {i \in 1..n : i > n - PageLimit}

Sends(kind, id) ==
    /\ Cardinality(requests) < MaxRequests
    /\ requests' = requests \union
           {[kind |-> kind, id |-> id, at |-> "sent", made |-> 0, read |-> {}]}

BellInit ==
    /\ made = 0 /\ read = {}
    /\ badge = 0
    /\ list = NoItems("loading")
    /\ requests = {}

-----------------------------------------------------------------------------
\* A case is changed by somebody.
Notified ==
    /\ made < MaxNotifications
    /\ made' = made + 1
    /\ Free
    /\ UNCHANGED <<read, badge, list, requests>>

\* The start of the page, the interval, an event of the hub, Retry.
LoadNotifications ==
    /\ Sends("load", 0)
    /\ Free
    /\ UNCHANGED <<made, read, badge, list>>

\* The bell of the console makes its menu anew.
OpenMenu ==
    /\ Click
    /\ list' = NoItems("loading")
    /\ Sends("load", 0)
    /\ UNCHANGED <<made, read, badge>>

MarkAsRead(n) ==
    /\ n \in list.unread
    /\ Click
    /\ Sends("one", n)
    /\ UNCHANGED <<made, read, badge, list>>

MarkAllAsRead ==
    /\ Click
    /\ Sends("all", 0)
    /\ UNCHANGED <<made, read, badge, list>>

\* The server carries a request out and answers with what there is then.
Served(r) ==
    /\ r.at = "sent"
    /\ read' = CASE r.kind = "load" -> read
                 [] r.kind = "one" -> read \union {r.id}
                 [] r.kind = "all" -> 1..made
    /\ requests' = (requests \ {r}) \union
           {[r EXCEPT !.at = "answered", !.made = made, !.read = read']}
    /\ Free
    /\ UNCHANGED <<made, badge, list>>

\* An element that is in the list already is left as it is.
RenderedOnce(items, unread) ==
    [kind |-> "items", items |-> items,
     unread |-> {n \in items : IF n \in list.items THEN n \in list.unread ELSE n \in unread}]

Rendered(items, unread) == [kind |-> "items", items |-> items, unread |-> items \intersect unread]

BadgeOf(r) == Cardinality(Unread(r.made, r.read))

\* loadNotifications has its answer.
Loaded(r) ==
    /\ r.kind = "load" /\ r.at = "answered"
    /\ badge' = BadgeOf(r)
    /\ list' = Rendered(Page(r.made), Unread(r.made, r.read))
    /\ requests' = requests \ {r}
    /\ Free
    /\ UNCHANGED <<made, read>>

\* The head of the answer to a mark is there: elements lose their mark, all
\* that have it when everything was to be read.
Unmarked(r) ==
    /\ r.kind /= "load" /\ r.at = "answered"
    /\ list' = [list EXCEPT !.unread = IF r.kind = "all" THEN {} ELSE @ \ {r.id}]
    /\ requests' = (requests \ {r}) \union {[r EXCEPT !.at = "body"]}
    /\ Free
    /\ UNCHANGED <<made, read, badge>>

\* And then its body, with the number.
Counted(r) ==
    /\ r.at = "body"
    /\ badge' = BadgeOf(r)
    /\ requests' = requests \ {r}
    /\ Free
    /\ UNCHANGED <<made, read, list>>

\* The request or its answer is lost.
Lost(r) ==
    /\ Loss
    /\ requests' = requests \ {r}
    /\ list' = IF r.kind = "load" THEN NoItems("error") ELSE list
    /\ UNCHANGED <<made, read, badge>>

Arrives(r) == Loaded(r) \/ Unmarked(r) \/ Counted(r)

BellNext ==
    \/ \E r \in requests : Served(r) \/ Arrives(r) \/ Lost(r)
    \/ \E n \in Notifications : MarkAsRead(n)
    \/ Notified \/ LoadNotifications \/ OpenMenu \/ MarkAllAsRead

-----------------------------------------------------------------------------
\* Badge and list say what the server says.
BellIsCurrent ==
    /\ badge = Cardinality(Unread(made, read))
    /\ list = [kind |-> "items", items |-> Page(made), unread |-> Page(made) \ read]
=============================================================================
