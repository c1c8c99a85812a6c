---------------------------- MODULE MCCollectors ----------------------------
(* Collectors with the rows a unit may read: up to two of each shape, and   *)
(* three modules whose names meet.                                          *)
EXTENDS Collectors, TLC

CONSTANTS d

Fine   == [held |-> TRUE,  big |-> FALSE, past |-> FALSE, odd |-> FALSE, literal |-> FALSE, stem |-> <<>>]
Absent == [Fine EXCEPT !.held = FALSE]
Big    == [Fine EXCEPT !.big = TRUE]
Past   == [Fine EXCEPT !.past = TRUE]
Odd    == [Fine EXCEPT !.odd = TRUE]
Literal == [Fine EXCEPT !.literal = TRUE]
Suffixed == [Fine EXCEPT !.stem = <<2>>]   \* a module really named p~2

UpToTwo(shapes) == {<<>>} \cup {<<x>> : x \in shapes} \cup {<<x, y>> : x, y \in shapes}

RowsOf ==
  (Detail    :> ({<<>>} \cup {<<x>> : x \in {Fine, Absent, Big, Past, Odd, Literal}} \cup {<<Odd, Past>>, <<Big, Fine>>})) @@
  (Profiled  :> {<<>>, <<Fine>>, <<Absent>>, <<Big>>, <<Absent, Fine>>}) @@
  (Modules   :> (UpToTwo({Fine, Absent, Odd}) \cup {<<Big>>, <<Literal>>, <<[Past EXCEPT !.big = TRUE]>>, <<Fine, Fine, Suffixed>>})) @@
  (Deadlocks :> (UpToTwo({Fine, Absent}) \cup {<<Big>>, <<Literal>>, <<[Big EXCEPT !.past = TRUE]>>})) @@
  (Reports   :> {<<>>, <<Fine, Odd>>, <<Odd, Fine>>, <<Past>>, <<Big>>, <<Absent>>, <<Literal>>}) @@
  (Cached    :> (UpToTwo({Fine, Absent}) \cup {<<Big>>, <<Literal>>, <<[Big EXCEPT !.past = TRUE]>>})) @@
  (Document  :> {<<Fine>>, <<Literal>>})
=============================================================================
