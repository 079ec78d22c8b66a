----------------------------- MODULE MCChatPage -----------------------------
(* ChatPage on a small instance. *)
EXTENDS ChatPage, TLC

PageSymmetry == Permutations(Conversations) \union Permutations(Uploads) \union Permutations(Texts)
=============================================================================
