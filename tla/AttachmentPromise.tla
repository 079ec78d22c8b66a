------------------------- MODULE AttachmentPromise -------------------------
(***************************************************************************)
(* What the attachment subsystem promises to senders and readers, without  *)
(* rows, objects, leases or workers: an attachment becomes available with  *)
(* one clean content that never changes, messages take available           *)
(* attachments for good, several at once or none, and an attachment that   *)
(* was withdrawn never comes back.  The company's file list shows exactly  *)
(* the attachments of messages, until they are removed.                    *)
(***************************************************************************)
CONSTANTS Attachments, Clean, Nothing

VARIABLES
    stage,      \* "absent", "pending", "available", "withdrawn" or "gone"
    content,    \* what a reader gets, Nothing while it is not available
    attached,   \* whether a message holds it
    listed      \* the attachments in the company's file list

promiseVars == <<stage, content, attached, listed>>

Init ==
    /\ stage = [a \in Attachments |-> "absent"]
    /\ content = [a \in Attachments |-> Nothing]
    /\ attached = [a \in Attachments |-> FALSE]
    /\ listed = {}

Reserve(a) ==
    /\ stage[a] = "absent"
    /\ stage' = [stage EXCEPT ![a] = "pending"]
    /\ UNCHANGED <<content, attached, listed>>

Publish(a, c) ==
    /\ stage[a] = "pending"
    /\ stage' = [stage EXCEPT ![a] = "available"]
    /\ content' = [content EXCEPT ![a] = c]
    /\ UNCHANGED <<attached, listed>>

Attach(S) ==
    /\ \A a \in S : stage[a] = "available" /\ ~attached[a]
    /\ attached' = [a \in Attachments |-> attached[a] \/ a \in S]
    /\ listed' = listed \cup S
    /\ UNCHANGED <<stage, content>>

Withdraw(S) ==
    /\ \A a \in S : stage[a] \in {"pending", "available", "withdrawn"}
    /\ stage' = [a \in Attachments |-> IF a \in S THEN "withdrawn" ELSE stage[a]]
    /\ content' = [a \in Attachments |-> IF a \in S THEN Nothing ELSE content[a]]
    /\ UNCHANGED <<attached, listed>>

Remove(a) ==
    /\ stage[a] = "withdrawn"
    /\ stage' = [stage EXCEPT ![a] = "gone"]
    /\ listed' = listed \ {a}
    /\ UNCHANGED <<content, attached>>

Next ==
    \/ \E a \in Attachments : \/ Reserve(a) \/ Remove(a)
                              \/ \E c \in Clean : Publish(a, c)
    \/ \E S \in SUBSET Attachments : Attach(S) \/ Withdraw(S)

Spec == Init /\ [][Next]_promiseVars
============================================================================
