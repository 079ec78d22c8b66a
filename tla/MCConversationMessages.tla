----------------------- MODULE MCConversationMessages -----------------------
(***************************************************************************)
(* ConversationMessages on the small instance of MCMessages.cfg.  A        *)
(* behaviour has two requests among all the commands, or a crowd of three  *)
(* requests of a client in conversations whose members stay and do not     *)
(* read, so that one may wait for one that waits.  At most two of the      *)
(* conversations exist.                                                    *)
(***************************************************************************)
EXTENDS ConversationMessages, FiniteSets, TLC

CONSTANT Third    \* the request that is only made in a crowd

VARIABLE setting

MessagesInit == Init /\ setting \in {"commands", "crowd"}

MessagesNext ==
    /\ Next
    /\ UNCHANGED setting
    /\ Cardinality({c \in Conversations : state'[c] # "Absent"}) <= 2
    /\ setting = "commands" => UNCHANGED phase[Third]
    /\ setting = "crowd" =>
          /\ \A r \in Requests : call'[r] # Nothing => call'[r].by \in Clients
          /\ \A c \in Conversations : state[c] # "Absent" => members'[c] = members[c]
          /\ UNCHANGED cursor

MessagesSpec == MessagesInit /\ [][MessagesNext]_<<vars, setting>>

(* No action or property names another request, or an admin. *)
MessagesSymmetry == Permutations(Requests \ {Third}) \union Permutations(Admins)
=============================================================================
