------------------------ MODULE MCConversationOutbox ------------------------
(* ConversationOutbox on the small instances of the MCOutbox*.cfg files. *)
EXTENDS ConversationOutbox
=============================================================================
