-------------------------- MODULE MCBlockingWatch --------------------------
(* BlockingWatch on small instances. *)
EXTENDS BlockingWatch
=============================================================================
