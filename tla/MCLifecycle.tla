---------------------------- MODULE MCLifecycle ----------------------------
(* Updates of one incident: a time before the occurrence and two after it. *)
EXTENDS Lifecycle
=============================================================================
