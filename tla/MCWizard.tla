------------------------------ MODULE MCWizard ------------------------------
(* Wizard with two addresses of two instances, one profile, and enough jobs *)
(* for an attempt to be abandoned and answered while the next one waits.    *)
EXTENDS Wizard, TLC

CONSTANTS a, b, A, B, p

InstanceAt == (a :> A) @@ (b :> B)
OneEarlier == {<<A, Whole, 1>>}
=============================================================================
