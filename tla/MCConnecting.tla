---------------------------- MODULE MCConnecting ----------------------------
(* Connecting on the pool of one that the collection uses. *)
EXTENDS Connecting
=============================================================================
