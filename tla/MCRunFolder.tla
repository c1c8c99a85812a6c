---------------------------- MODULE MCRunFolder ----------------------------
(* RunFolder, with the processes as interchangeable model values. *)
EXTENDS RunFolder, TLC

Interchangeable == Permutations(Procs)
=============================================================================
