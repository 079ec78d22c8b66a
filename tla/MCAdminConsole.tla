--------------------------- MODULE MCAdminConsole ---------------------------
(***************************************************************************)
(* The two halves of the admin console on a small instance: cases and      *)
(* conversations. They share no state, and an admin who clicks a bounded   *)
(* number of times uses one of them here: the states of the run are the    *)
(* sum of theirs.                                                          *)
(***************************************************************************)
EXTENDS AdminCases, AdminChat, TLC

VARIABLE half

budget == <<clicks, losses>>
vars == <<casesVars, chatVars, budget, half>>

Init ==
    /\ half \in {"cases", "conversations"}
    /\ CasesInit /\ ChatInit /\ BudgetInit

Next ==
    /\ UNCHANGED half
    /\ \/ half = "cases" /\ CasesNext /\ UNCHANGED chatVars
       \/ half = "conversations" /\ ChatNext /\ UNCHANGED casesVars

Spec == Init /\ [][Next]_vars

ConsoleSymmetry ==
    Permutations(Clients) \union Permutations(Conversations)
=============================================================================
