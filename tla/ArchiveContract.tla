-------------------------- MODULE ArchiveContract --------------------------
(***************************************************************************)
(* What the archives of an output directory promise whoever keeps them,    *)
(* the disk left out: names, locks, renames, processes and their deaths.   *)
(* A run's archive is opened once, closed for good or taken away again,    *)
(* and a closed one is given up only to another that is closed itself.     *)
(***************************************************************************)
CONSTANT Runs

VARIABLE archive   \* of each run: none yet or none any more, part, whole, or given up

Init == archive \in [Runs -> {"none", "whole"}]

Opens(r) == archive[r] = "none" /\ archive' = [archive EXCEPT ![r] = "part"]

Closes(r) == archive[r] = "part" /\ archive' = [archive EXCEPT ![r] = "whole"]

\* What was never closed is nobody's archive.
Removes(r) == archive[r] = "part" /\ archive' = [archive EXCEPT ![r] = "none"]

GivesUp(r, to) ==
  /\ r # to /\ archive[r] = "whole" /\ archive[to] = "whole"
  /\ archive' = [archive EXCEPT ![r] = "given up"]

Changes == \E r \in Runs :
  Opens(r) \/ Closes(r) \/ Removes(r) \/ \E to \in Runs : GivesUp(r, to)

\* What changes nothing is a stutter, which TLC sees at once.
Next == archive' # archive /\ Changes

Spec == Init /\ [][Next]_archive

\* A directory that ever held a whole archive holds one: what was given up has left
\* another in its place.
OneRemains == (\E r \in Runs : archive[r] = "given up") => \E r \in Runs : archive[r] = "whole"
=============================================================================
