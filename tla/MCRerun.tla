------------------------------ MODULE MCRerun ------------------------------
(* Rerun over two collectors, of which s1 is edited between the runs, and  *)
(* three databases, with a command line for each way to narrow a run.      *)
EXTENDS Rerun, TLC

\* s2 writes the Query Store's files; s1 may be any of these.
Plain == [perDatabase |-> TRUE, profiles |-> {"p"}, requires |-> None, skippedBy |-> None,
          minVersion |-> 0, maxVersion |-> NoCeiling, permissions |-> {}, narrowed |-> FALSE,
          widened |-> None, lint |-> FALSE]
Writer == [Plain EXCEPT !.narrowed = TRUE, !.requires = "f"]
Editions ==
  {Plain, [Plain EXCEPT !.perDatabase = FALSE], [Plain EXCEPT !.profiles = {}],
   [Plain EXCEPT !.requires = "g"], [Plain EXCEPT !.skippedBy = "k"],
   [Plain EXCEPT !.minVersion = 2], [Plain EXCEPT !.permissions = {"perm"}],
   [Plain EXCEPT !.widened = "replication"], [Plain EXCEPT !.widened = "system_databases"],
   [Plain EXCEPT !.lint = TRUE]}
OneIsEdited == {"s1" :> e @@ "s2" :> Writer : e \in Editions} \cup {"s2" :> Writer}

\* A new binary gave s1 a writer.
BecomesAWriter == {"s1" :> e : e \in {Plain, [Plain EXCEPT !.narrowed = TRUE]}}

Sliding(n) == [days |-> n, from |-> None, to |-> None]
Bounds(a, b) == [days |-> 0, from |-> a, to |-> b]
Usual == [on |-> {"f"}, profile |-> None, dbInclude |-> {}, dbExclude |-> {}, qsInclude |-> {},
          top |-> 1, compareAt |-> None, window |-> Sliding(1)]
OneOption ==
  {Usual, [Usual EXCEPT !.on = {}], [Usual EXCEPT !.on = {"f", "g"}],
   [Usual EXCEPT !.on = {"f", "k"}], [Usual EXCEPT !.profile = "p"],
   [Usual EXCEPT !.dbInclude = {"d"}], [Usual EXCEPT !.dbExclude = {"d"}],
   [Usual EXCEPT !.qsInclude = {"d"}], [Usual EXCEPT !.qsInclude = {"dist"}],
   [Usual EXCEPT !.top = 2], [Usual EXCEPT !.compareAt = "deployment"],
   [Usual EXCEPT !.window = Sliding(2)], [Usual EXCEPT !.window = Bounds(-2, -1)],
   [Usual EXCEPT !.window = Bounds(-1, None)],
   [Usual EXCEPT !.on = {}, !.window = Bounds(None, 1)]}

Open == [version |-> 1, denied |-> {}, state |-> [d \in Databases |-> "open"]]
OneIsShut ==
  {Open, [Open EXCEPT !.version = Unknown], [Open EXCEPT !.denied = {"perm"}]}
   \cup {[Open EXCEPT !.state[d] = "shut"] : d \in Databases}

\* SQL01, a target without a name that is filed under SQL01, and a clone.
NameOf == [t \in Targets |-> IF t = "nameless" THEN None ELSE "SQL01"]
FiledUnder == [t \in Targets |-> IF t = "clone" THEN "clone" ELSE "SQL01"]
PlaceOf == [t \in Targets |-> t]
\* The day begins with at most one thing out of the usual.
NearUsual ==
  Cardinality({w \in 1..4 : <<command # Usual, corpus # ("s1" :> Plain @@ "s2" :> Writer),
                              server # Open, target # "sql01">>[w]}) <= 1
NearUsualInit == Init /\ NearUsual
NearUsualSpec == NearUsualInit /\ [][Next]_vars
=============================================================================
