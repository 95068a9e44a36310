---------------------------- MODULE MCEmbedWorker ----------------------------
(* Model values for EmbedWorker. *)
EXTENDS EmbedWorker
=============================================================================
