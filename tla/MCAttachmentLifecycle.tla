----------------------- MODULE MCAttachmentLifecycle -----------------------
(* AttachmentLifecycle on the small instances of the MCAttachment*.cfg files. *)
EXTENDS AttachmentLifecycle, TLC

(* Workers of a kind are interchangeable: no action or property names one. *)
WorkerSymmetry == Permutations(Processors) \cup Permutations(Cleaners)
============================================================================
