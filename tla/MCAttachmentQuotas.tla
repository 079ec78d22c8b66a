------------------------ MODULE MCAttachmentQuotas ------------------------
(* AttachmentQuotas on the small instance of MCAttachmentQuotas.cfg: three files
   of one user, whose intents are stamped in another order than they may come. *)
EXTENDS AttachmentQuotas, TLC

CONSTANTS a1, a2, a3, u1

MCUploader == [a \in Attachments |-> u1]
MCDeclared == [a \in Attachments |-> IF a = a1 THEN 2 ELSE 1]
MCCreatedAt == [a \in Attachments |-> IF a = a1 THEN 1 ELSE 0]
MCRecoded == [c \in Contents |-> 3]

(* The other two are alike. *)
QuotaSymmetry == Permutations({a2, a3})
=============================================================================
