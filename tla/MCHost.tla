------------------------------- MODULE MCHost -------------------------------
\* The host read over small logs and directories.
EXTENDS Host

Src(name, kind) == [name |-> name, kind |-> kind]
Application == Src("Application", "events")
System == Src("System", "events")
VSS == Src("vss", "vss")
Cluster == Src("cluster", "cluster")
Power == Src("power", "machine")
SQLWriter == Src("sqlwriter", "sqlwriter")
Extensions == Src("extensions", "extensions")
Jobs == Src("jobs", "jobs")

\* Every kind, alone or after another.
MCSourceLists == {<<Application>>, <<System, VSS>>, <<SQLWriter>>, <<Power, Extensions>>, <<Jobs, Cluster>>}

Rec(id, time, queries, bad) == [id |-> id, time |-> time, queries |-> queries, bad |-> bad]
\* More than the cap of query 1, a bad event among them, and counted ones.
MCLogs == {[Application |-> <<Rec(4, 4, {"1", "2"}, FALSE), Rec(3, 3, {"2c"}, FALSE),
                              Rec(2, 2, {"1"}, TRUE), Rec(1, 1, {"1", "3b"}, FALSE)>>,
            System |-> <<Rec(1, 1, {"1", "3a"}, FALSE)>>]}

File(id, size, mod, active) == [id |-> id, size |-> size, mod |-> mod, active |-> active]
\* The active log the oldest, one file over the tail, one before the window.
MCDisk == {File(1, 1, 1, TRUE), File(2, 3, 3, FALSE), File(3, 1, 2, FALSE), File(4, 1, 0, FALSE)}
=============================================================================
