-------------------------- MODULE MCMessagingClient --------------------------
(***************************************************************************)
(* What a page catches up with, on a small instance: the messages of its   *)
(* conversations (MessagingClient) and the notifications of its user       *)
(* (NotificationBell). The two share no state, and a behaviour has one of  *)
(* them do something: the states of the run are the sum of theirs.         *)
(* The messages are explored twice: with a connection, one text and a      *)
(* localStorage that has room, and without a connection, with every text   *)
(* and a localStorage that fills up and empties at any time, for one       *)
(* gesture more.                                                           *)
(***************************************************************************)
EXTENDS MessagingClient, NotificationBell

CONSTANT OnlyText      \* the one of Texts that is sent with a connection
VARIABLE half

budget == <<clicks, losses>>
pageVars == <<vars, bellVars, budget, half>>

PageInit ==
    /\ half \in {"connected", "alone", "notifications"}
    /\ Init /\ BellInit /\ BudgetInit
    /\ half /= "alone" => ~ full

PageNext ==
    /\ UNCHANGED half
    /\ \/ /\ half = "connected"
          /\ Next
          /\ gestures' < MaxGestures
          /\ ~ full' /\ \A k \in Keys : intent'[k].text \in {OnlyText, NoIntent.text}
          /\ \A c \in Conversations : archival'[c] /= "none" => Len(log'[c]) < MaxLog
          /\ UNCHANGED <<bellVars, budget>>
       \/ /\ half = "alone"
          /\ Next
          /\ conn' = "Disconnected" /\ waiting' = <<>>
          /\ UNCHANGED <<bellVars, budget>>
       \/ half = "notifications" /\ BellNext /\ UNCHANGED vars

\* The interval of the bell, and its requests that are answered in the end.
BellFairness ==
    /\ WF_bellVars(half = "notifications" /\ LoadNotifications)
    /\ WF_bellVars(half = "notifications" /\ \E r \in requests : Served(r))
    /\ WF_bellVars(half = "notifications" /\ \E r \in requests : Arrives(r))

PageSpec == PageInit /\ [][PageNext]_pageVars /\ Fairness /\ BellFairness

\* However the answers to loads and marks overtake one another and whatever is
\* lost, badge and list of the bell come to say what the server says (the
\* interval of loadNotifications; a late answer or a mark of everything shows
\* what is not so until then).
BellCatchesUp == []<>(half = "notifications" => BellIsCurrent)
=============================================================================
