----------------------------- MODULE MCRunLoop -----------------------------
(* RunLoop on a plan of three units: two on one database with a unit of the *)
(* instance between them, so that a database held back or dropped by the    *)
(* first has a later unit to skip and one that must not be.                 *)
EXTENDS RunLoop

CONSTANT db

TwoOnOneDatabase == <<db, Instance, db>>
OneOfEach == <<db, Instance>>
=============================================================================
