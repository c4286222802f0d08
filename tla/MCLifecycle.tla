---------------------------- MODULE MCLifecycle -----------------------------
(***************************************************************************)
(* One pager and one tree, opened and closed again and again by a client   *)
(* that may leave its errors set, with a trace of a few frames.            *)
(***************************************************************************)
EXTENDS Lifecycle

=============================================================================
