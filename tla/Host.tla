-------------------------------- MODULE Host --------------------------------
(* sql-auditor host: one archive of what the Windows server under the        *)
(* instance says of itself.  Run asks the instance and the machine, creates  *)
(* the archive, has every source put its entries in it in turn, writes the   *)
(* manifest and closes; a write error or a stop removes the archive.  The    *)
(* disk, the machine and the instance answer as they like.                   *)
EXTENDS Interrupt, Integers, Sequences, FiniteSetsExt

CONSTANTS
    SourceLists, \* the sequences of sources a run may be built with
    Logs,       \* the event logs there may be: channel -> records, newest first
    Disk,       \* the files a directory may hold
    Engines,    \* names of SQL Server services
    Since,      \* the start of the window, on the clock of mod
    Cap,        \* eventCap
    TailBytes,  \* sqlWriterTail, jobOutputTail
    Budget,     \* the budget of a source that copies files
    StepFiles,  \* jobOutputFiles
    Steps       \* how many steps the instance may list

None == "none"
Running == -1

Kinds == {"events", "vss", "machine", "cluster", "sqlwriter", "extensions", "jobs"}

Channels == {"Application", "System", "Operational"}

\* BuildEventQueries of one channel; the instance's own are left out when its
\* event source is undecided.
OwnQueries == {"2", "2c", "3b"}
BuildEventQueries(channel, decided) ==
    CASE channel = "Application" -> IF decided THEN <<"1", "2", "2c", "3b">> ELSE <<"1">>
      [] channel = "System" -> <<"1", "3a">>
      [] OTHER -> <<"4">>
Matched(channel) ==
    LET qs == BuildEventQueries(channel, TRUE) IN {qs[i] : i \in DOMAIN qs}

\* A source reads one channel, whose name it has, one thing, or directories of
\* files.  Records come newest first; a file is known by the rank of its name,
\* and one at most has the name of the active log.
ASSUME HostAssumption ==
    /\ Cap \in Nat \ {0} /\ TailBytes \in Nat \ {0} /\ Budget \in Nat
    /\ StepFiles \in Nat \ {0} /\ Steps \in Nat /\ Since \in Nat
    /\ MaxSignals \in Nat /\ None \notin Engines
    /\ \A p \in SourceLists :
          /\ p \in Seq([name : STRING, kind : Kinds])
          /\ \A i \in DOMAIN p :
                /\ p[i].kind = "events" <=> p[i].name \in Channels
                /\ p[i].kind = "sqlwriter" <=> p[i].name = "sqlwriter"
    /\ \A l \in Logs : DOMAIN l \subseteq Channels /\ \A c \in DOMAIN l :
          /\ l[c] \in Seq([id : Nat, time : Nat, queries : SUBSET Matched(c), bad : BOOLEAN])
          /\ \A i, j \in DOMAIN l[c] : i < j => l[c][i].time >= l[c][j].time
    /\ Disk \subseteq [id : Nat, size : Nat, mod : Nat, active : BOOLEAN]
    /\ \A f, g \in Disk : f.active /\ g.active => f = g

VARIABLES
    pc,         \* where Run is
    env,        \* what it learned before the sources (Env)
    plan,       \* the sources left
    log,        \* the event logs of this machine
    arch,       \* the archive
    cur,        \* the source being read
    pipe,       \* the two ends of streamed's pipe
    results,    \* what became of the sources read, in order
    code        \* the exit code, Running before

hostVars == <<pc, env, plan, log, arch, cur, pipe, results, code>>
allVars == <<hostVars, sigVars>>

-----------------------------------------------------------------------------
(* The archive.                                                              *)

\* entries are listed in the order written; broken is stickyWriter's first
\* error, kept; stray that the removal failed and was said.
NoArchive == [made |-> FALSE, there |-> FALSE, entries |-> <<>>, broken |-> FALSE,
              closed |-> FALSE, stray |-> FALSE]

\* createArchive: exclusive, so an existing name is refused.
Created == [NoArchive EXCEPT !.made = TRUE, !.there = TRUE]

\* What Put may do with an entry whose reader may fail or not: write it whole;
\* leave it cut short, the archive usable; or meet the disk, which fails every
\* later Put.  What a full disk refuses may also surface at a later write,
\* since the zip is buffered.
Put(a, name, mayFail) ==
    LET with(whole, bad) == [a EXCEPT !.entries = Append(@, [name |-> name, whole |-> whole]),
                                      !.broken = bad]
    IN  IF a.broken THEN {[arch |-> a, ok |-> FALSE]}
        ELSE {[arch |-> with(TRUE, FALSE), ok |-> TRUE],
              [arch |-> with(FALSE, TRUE), ok |-> FALSE]}
             \cup (IF mayFail THEN {[arch |-> with(FALSE, FALSE), ok |-> FALSE]} ELSE {})

-----------------------------------------------------------------------------
(* Which service's events are the instance's.                                *)

\* answered and matched is inst # None; named is the instance the server string
\* names.
ChooseEventSource(inst, named, services) ==
    IF inst # None THEN inst
    ELSE IF named # None THEN IF named \in services THEN named ELSE None
    ELSE IF Cardinality(services) = 1 THEN CHOOSE s \in services : TRUE ELSE None

-----------------------------------------------------------------------------
(* The sources.                                                              *)

Result(status, name) ==
    [name |-> name, status |-> status, files |-> {}, bad |-> FALSE, list |-> {},
     cut |-> {}, counted |-> 0, notRun |-> {}, noted |-> {}]

Opened(s) ==
    [src |-> s, at |-> "open", res |-> Result("read", s.name), queries |-> <<>>, todo |-> {},
     left |-> Budget, step |-> 0, err |-> FALSE]
Idle == [Opened([name |-> None, kind |-> None]) EXCEPT !.at = "idle"]
NoPipe == [writer |-> None, left |-> 0, offered |-> FALSE, sink |-> None, shut |-> FALSE]

\* BuildSources' kinds: the event logs, the single reads, and the directories.
Reads(kind) == pc = "reading" /\ cur.src.kind = kind
At(kind, step) == Reads(kind) /\ cur.at = step

\* The source's result is taken, and a broken archive ends the run.
Done(res, a) ==
    /\ results' = Append(results, res) /\ cur' = Idle /\ arch' = a /\ pipe' = NoPipe
    /\ pc' = IF a.broken THEN "abort" ELSE "loop"
    /\ UNCHANGED <<env, plan, log, code>>

Failed == Result("failed", cur.src.name)
Continues(c) == cur' = c /\ UNCHANGED <<pc, env, plan, log, arch, pipe, results, code>>

\* written: the JSON of a source, which is its last entry.
Written(res) ==
    \E p \in Put(arch, <<cur.src.name, "json">>, FALSE) :
        Done(IF p.ok THEN res ELSE [res EXCEPT !.status = "failed"], p.arch)

\* One question to the machine, its answer parsed and written.
Probes == Done(Failed, arch) \/ Written(cur.res)
ReadVSS == At("vss", "open") /\ Probes
ReadMachine == At("machine", "open") /\ Probes     \* readFilters, readPower
ReadCluster ==
    /\ At("cluster", "open")
    /\ Probes \/ Done(Result("absent", cur.src.name), arch)

\* readOne: a panic becomes the source failed, with nothing listed.
Panics ==
    /\ pc = "reading" /\ pipe.writer = None
    /\ Done(Failed, arch)

-----------------------------------------------------------------------------
(* readEvents: the queries of one channel, then one file written through a   *)
(* pipe.                                                                     *)

OpenChannel ==
    /\ At("events", "open")
    /\ \/ Done(Result("absent", cur.src.name), arch)
       \/ /\ cur.src.name \in DOMAIN log
          /\ Continues([cur EXCEPT !.at = "queries",
                !.queries = BuildEventQueries(cur.src.name, env.decided),
                !.res.notRun = IF cur.src.name = "Application" /\ ~env.decided
                               THEN OwnQueries ELSE {}])

\* Of the n newest records of a channel, those a query matches, and the events
\* it has when their XML parses.
Matching(c, q, n) == {i \in 1..n : q \in log[c][i].queries}
Parsed(c, q, n) == {i \in Matching(c, q, n) : ~log[c][i].bad}

\* How far a query reads: to its end, or to one event past its cap.
Past(c, q, n) == q # "2c" /\ Cardinality(Parsed(c, q, n)) > Cap
Reach(c, q) ==
    IF Past(c, q, Len(log[c])) THEN Min({n \in 1..Len(log[c]) : Past(c, q, n)}) ELSE Len(log[c])

\* The events kept of the n newest records, and the time of the oldest kept when
\* there were more than the cap.
Kept(c, q, n) ==
    {i \in Parsed(c, q, n) : Cardinality({j \in Parsed(c, q, n) : j <= i}) <= Cap}
Truncated(c, q, n) ==
    IF Past(c, q, n) THEN {<<q, log[c][Max(Kept(c, q, n))].time>>} ELSE {}

\* The file once a query has read the n newest.  2c is counted rather than kept.
Recorded(c, q, n) ==
    LET bad == \E i \in Matching(c, q, n) : log[c][i].bad
    IN  IF q = "2c" THEN [cur.res EXCEPT !.counted = Cardinality(Parsed(c, q, n)), !.bad = @ \/ bad]
        ELSE [cur.res EXCEPT !.list = @ \cup {<<q, log[c][i].id>> : i \in Kept(c, q, n)},
                             !.cut = @ \cup Truncated(c, q, n), !.bad = @ \/ bad]

\* A query fails, or finds that the channel has gone, or is stopped short with
\* no error by a context that is done, or reads what it asked for.
Query ==
    /\ At("events", "queries") /\ cur.queries # <<>>
    /\ LET c == cur.src.name
           q == Head(cur.queries) IN
       \/ Done(Failed, arch)
       \/ Done(Result("absent", cur.src.name), arch)
       \/ \E n \in IF cancelled THEN 0..Reach(c, q) ELSE {Reach(c, q)} :
              Continues([cur EXCEPT !.queries = Tail(@), !.res = Recorded(c, q, n)])

\* One event a record, whichever queries matched it.
Merge(list) == {x[2] : x \in list}

\* writeEvents: the head, then one write an event, by a goroutine of its own.
WriteEvents ==
    /\ At("events", "queries") /\ cur.queries = <<>>
    /\ cur' = [cur EXCEPT !.at = "writing"]
    /\ pipe' = [NoPipe EXCEPT !.writer = "writing", !.sink = "copying",
                    !.left = 1 + Cardinality(Merge(cur.res.list))]
    /\ UNCHANGED <<pc, env, plan, log, arch, results, code>>

Pipes(p, a) ==
    pipe' = p /\ arch' = a /\ UNCHANGED <<pc, env, plan, log, cur, results, code>>

Writing == pipe.writer = "writing"
\* The goroutine: a write waits for its reader, and fails when the pipe is shut.
Offers ==
    /\ Writing /\ ~pipe.offered /\ pipe.left > 0
    /\ Pipes([pipe EXCEPT !.offered = TRUE, !.left = @ - 1], arch)
OfferRefused ==
    /\ Writing /\ pipe.offered /\ pipe.shut
    /\ Pipes([pipe EXCEPT !.offered = FALSE, !.writer = "error"], arch)
\* write returned, or failed or panicked: the goroutine closes its end either
\* way.
WriteEnds ==
    /\ Writing /\ ~pipe.offered
    /\ \/ pipe.left = 0 /\ Pipes([pipe EXCEPT !.writer = "eof"], arch)
       \/ Pipes([pipe EXCEPT !.writer = "error"], arch)

\* Put, in the caller: it copies until the other end is closed, or the disk
\* fails.
SinkName == <<cur.src.name, "json">>
SinkTakes ==
    /\ pipe.sink = "copying" /\ pipe.offered
    /\ Pipes([pipe EXCEPT !.offered = FALSE], arch)
SinkBreaks ==
    /\ pipe.sink = "copying"
    /\ Pipes([pipe EXCEPT !.sink = "disk"],
             [arch EXCEPT !.broken = TRUE, !.entries = Append(@, [name |-> SinkName, whole |-> FALSE])])
SinkEnds ==
    /\ pipe.sink = "copying" /\ pipe.writer \in {"eof", "error"}
    /\ Pipes([pipe EXCEPT !.sink = pipe.writer],
             [arch EXCEPT !.entries = Append(@, [name |-> SinkName, whole |-> pipe.writer = "eof"])])

\* Mutant: put's return leaves the pipe open behind it.
Shuts_freesNobody ==
    /\ pipe.sink \in {"eof", "error", "disk"} /\ ~pipe.shut /\ ~pipe.offered
    /\ Pipes([pipe EXCEPT !.shut = TRUE], arch)
\* put has returned: the reader's end is closed, which frees a write that waits.
Shuts ==
    /\ pipe.sink \in {"eof", "error", "disk"} /\ ~pipe.shut
    /\ Pipes([pipe EXCEPT !.shut = TRUE], arch)

\* streamed has joined the goroutine: the first error of either is the
\* source's.
JoinsWriter ==
    /\ At("events", "writing") /\ pipe.shut /\ pipe.writer \in {"eof", "error"}
    /\ Done(IF pipe.sink = "eof" THEN cur.res ELSE [Failed EXCEPT !.bad = cur.res.bad], arch)

-----------------------------------------------------------------------------
(* The directories.  One file is opened, judged by its handle and copied at  *)
(* a time, within a budget charged before the copy.                          *)

Entry(f) == <<cur.src.name, cur.step, f.id>>
Noting(f, verdict) ==
    [cur.res EXCEPT !.files = @ \cup {[entry |-> Entry(f), file |-> f, verdict |-> verdict]}]
Charge(f) == IF cur.src.kind = "extensions" \/ f.size < TailBytes THEN f.size ELSE TailBytes

\* Newest first, equal times in the order of the listing, which is by name; of
\* SQL Writer the active log first, whatever its time.
Newer(f, g) == f.mod > g.mod \/ (f.mod = g.mod /\ f.id < g.id)
Before(kind, f, g) ==
    IF kind = "sqlwriter" /\ f.active # g.active THEN f.active ELSE Newer(f, g)

\* The file whose turn it is.
Due == {f \in cur.todo : \A g \in cur.todo \ {f} : Before(cur.src.kind, f, g)}

\* What a file's own step does to the rest of the loop.
Passes(f, res) == Continues([cur EXCEPT !.todo = @ \ {f}, !.res = res])

\* errChanged: the notes on files may be about another directory's.
Changed ==
    [cur.res EXCEPT !.files = {x \in @ : x.verdict = "copied" \/ x.entry[2] # cur.step},
                    !.noted = @ \cup {"changed"}]

\* Once a file does not fit every file after it is noted.
OverBudget(f) ==
    /\ cur.left < 0 \/ Charge(f) > cur.left
    /\ Continues([cur EXCEPT !.todo = @ \ {f}, !.left = -1, !.res = Noting(f, "budget")])

\* The entry is written, and charged.
Copies(f) ==
    \E p \in Put(arch, Entry(f), TRUE) :
        /\ p.ok
        /\ cur' = [cur EXCEPT !.todo = @ \ {f}, !.left = @ - Charge(f), !.res = Noting(f, "copied")]
        /\ arch' = p.arch
        /\ UNCHANGED <<pc, env, plan, log, pipe, results, code>>

\* The archives a copy that fails may leave: the file would not open or seek,
\* or its entry was cut.
Fits(f) == cur.left >= 0 /\ Charge(f) <= cur.left
CopyFails(f) ==
    {arch} \cup (IF Fits(f) THEN {p.arch : p \in {x \in Put(arch, Entry(f), TRUE) : ~x.ok}} ELSE {})

\* readSQLWriter.
OpenSQLWriter ==
    /\ At("sqlwriter", "open")
    /\ \/ Done(Failed, arch)
       \/ Done(Result("absent", cur.src.name), arch)
       \/ Done([cur.res EXCEPT !.noted = {"refused"}], arch)
       \/ \E S \in SUBSET Disk : Continues([cur EXCEPT !.at = "files", !.todo = S])

CopySQLWriter ==
    /\ At("sqlwriter", "files")
    /\ \E f \in Due :
       \/ OverBudget(f)
       \/ cur.left >= 0 /\ Done(Changed, arch)
       \/ cur.left >= 0 /\ Passes(f, Noting(f, "refused"))
       \/ Fits(f) /\ Copies(f)
       \/ cur.left >= 0 /\ \E a \in CopyFails(f) : Done([cur.res EXCEPT !.status = "failed"], a)

EndSQLWriter ==
    /\ At("sqlwriter", "files") /\ cur.todo = {}
    /\ Done(IF cur.res.files = {} THEN Result("absent", cur.src.name) ELSE cur.res, arch)

\* The files a walk may list; a link or an unreadable folder is listed too, and
\* never read.
Walks == SUBSET Disk
\* readExtensions and CopyExtensions: what stops the copy drops the listing, or
\* all of it but what was copied.
OpenExtensions ==
    /\ At("extensions", "open")
    /\ \/ Written([cur.res EXCEPT !.noted = {"refused"}])
       \/ Done(Result("absent", cur.src.name), arch)
       \/ Done(Failed, arch)
       \/ \E S \in Walks : Continues([cur EXCEPT !.at = "files", !.todo = S])

CopyExtensions ==
    /\ At("extensions", "files")
    /\ \E f \in Due :
       IF f.mod < Since THEN Passes(f, Noting(f, "window"))
       ELSE \/ OverBudget(f)
            \/ Fits(f) /\ Written(Changed)
            \/ Fits(f) /\ Passes(f, Noting(f, "refused"))
            \/ Fits(f) /\ Copies(f)
            \/ Fits(f) /\ \E a \in CopyFails(f) : Done(Failed, a)

EndExtensions == At("extensions", "files") /\ cur.todo = {} /\ Written(cur.res)

\* readJobOutputs: the steps in turn, under one budget; a step that fails is
\* recorded and the others still read.
OpenJobs ==
    /\ At("jobs", "open")
    /\ IF ~env.facts \/ ~env.match THEN Done(Result("skipped", cur.src.name), arch)
       ELSE CASE env.steps = "refused" -> Done(Result("refused", cur.src.name), arch)
              [] env.steps = "error" -> Done(Failed, arch)
              [] OTHER -> Continues([cur EXCEPT !.at = "steps"])

\* One step's pattern: unreadable or refused, failing, or a directory whose
\* newest files of the window are taken.
BeginStep ==
    /\ At("jobs", "steps") /\ cur.todo = {} /\ cur.step < env.count
    /\ LET c == [cur EXCEPT !.step = @ + 1] IN
       \/ Continues([c EXCEPT !.res.noted = @ \cup {"refused"}])
       \/ Continues([c EXCEPT !.err = TRUE])
       \/ \E S \in SUBSET {f \in Disk : f.mod >= Since} :
              Continues([c EXCEPT !.todo = {f \in S : Cardinality({g \in S : Newer(g, f)}) < StepFiles},
                                  !.res.noted = IF S = {} THEN @ \cup {"nothing"} ELSE @])

StepFails(a) ==
    /\ cur' = [cur EXCEPT !.todo = {}, !.err = TRUE] /\ arch' = a
    /\ UNCHANGED <<pc, env, plan, log, pipe, results, code>>

CopyJobOutputs ==
    /\ At("jobs", "steps")
    /\ \E f \in Due :
       \/ OverBudget(f)
       \/ cur.left >= 0 /\ Continues([cur EXCEPT !.todo = {}, !.res = Changed])
       \/ cur.left >= 0 /\ Passes(f, Noting(f, "refused"))
       \/ Fits(f) /\ Copies(f)
       \/ cur.left >= 0 /\ \E a \in CopyFails(f) : StepFails(a)

EndJobs ==
    /\ At("jobs", "steps") /\ cur.todo = {} /\ cur.step = env.count
    /\ Written(IF cur.err THEN [cur.res EXCEPT !.status = "failed"] ELSE cur.res)

-----------------------------------------------------------------------------
(* Run.                                                                      *)

HostInit ==
    /\ SigInit
    /\ pc = "check" /\ plan \in SourceLists /\ log \in Logs
    /\ env = [facts |-> FALSE, match |-> FALSE, decided |-> FALSE, steps |-> None, count |-> 0]
    /\ arch = NoArchive /\ cur = Idle /\ pipe = NoPipe /\ results = <<>> /\ code = Running

Learns(e, next) ==
    /\ env' = e /\ pc' = next
    /\ UNCHANGED <<plan, log, arch, cur, pipe, results, code>>
Concludes(c, a) ==
    /\ pc' = "returned" /\ code' = c /\ arch' = a
    /\ UNCHANGED <<env, plan, log, cur, pipe, results>>

\* Windows, elevated, and a directory to write in.
Check == pc = "check" /\ (Learns(env, "connect") \/ Concludes(2, arch))

\* The instance's one connection; a failed open is kept, and nothing asked of it.
Connect == pc = "connect" /\ (Learns(env, "facts") \/ Learns(env, "machine"))

\* The instance answers within the bound, or does not.
Facts ==
    /\ pc = "facts"
    /\ Learns([env EXCEPT !.facts = TRUE], "machine") \/ Learns(env, "machine")

\* The machine's name against the instance's, and its services.
Machine ==
    /\ pc = "machine"
    /\ \E own \in Engines, named \in Engines \cup {None}, services \in SUBSET Engines,
          match \in {FALSE, env.facts} :
        Learns([env EXCEPT !.match = match,
                    !.decided = ChooseEventSource(IF match THEN own ELSE None, named, services) # None],
               "steps")

AsksSteps ==
    /\ pc = "steps"
    /\ IF env.match
       THEN \/ Learns([env EXCEPT !.steps = "refused"], "create")
            \/ Learns([env EXCEPT !.steps = "error"], "create")
            \/ \E n \in 0..Steps : Learns([env EXCEPT !.steps = "read", !.count = n], "create")
       ELSE Learns(env, "create")

Creates ==
    /\ pc = "create"
    /\ \/ Concludes(2, arch)
       \/ /\ pc' = "loop" /\ arch' = Created
          /\ UNCHANGED <<env, plan, log, cur, pipe, results, code>>

\* The loop over the sources: the context is read before each.
NextSource ==
    /\ pc = "loop" /\ plan # <<>> /\ ~cancelled
    /\ pc' = "reading" /\ cur' = Opened(Head(plan)) /\ plan' = Tail(plan)
    /\ UNCHANGED <<env, log, arch, pipe, results, code>>

Goes(next, a) ==
    /\ pc' = next /\ arch' = a
    /\ UNCHANGED <<env, plan, log, cur, pipe, results, code>>

\* Mutant: only a loop that was broken off asks whether the run was stopped.
EndLoop_unasked ==
    /\ pc = "loop" /\ (plan = <<>> \/ cancelled)
    /\ Goes(IF plan # <<>> THEN "abort" ELSE "manifest", arch)
EndLoop ==
    /\ pc = "loop" /\ (plan = <<>> \/ cancelled)
    /\ Goes(IF cancelled THEN "abort" ELSE "manifest", arch)

\* The manifest's error is not looked at: the archive keeps it.
PutManifest ==
    /\ pc = "manifest"
    /\ \E p \in Put(arch, <<"MANIFEST.txt">>, FALSE) : Goes("close", p.arch)

\* Mutant: closing reports only its own error.
Closes_forgets ==
    /\ pc = "close"
    /\ \/ Goes("abort", [arch EXCEPT !.broken = TRUE])
       \/ Goes("verdict", [arch EXCEPT !.closed = TRUE])
\* Close: the directory of the zip is where a full disk may first show.
Closes ==
    /\ pc = "close"
    /\ \/ Goes("abort", [arch EXCEPT !.broken = TRUE])
       \/ ~arch.broken /\ Goes("verdict", [arch EXCEPT !.closed = TRUE])

Verdict ==
    /\ pc = "verdict"
    /\ Concludes(IF \/ ~env.facts \/ ~env.match \/ env.steps = "error"
                    \/ \E i \in DOMAIN results : results[i].status = "failed"
               THEN 2 ELSE 0, arch)

\* Remove, and the sentence when it fails.
Aborts ==
    /\ pc = "abort"
    /\ \/ Concludes(2, [arch EXCEPT !.there = FALSE])
       \/ Concludes(2, [arch EXCEPT !.stray = TRUE])

\* runHost's deferred calls, and the process ends.
Exits ==
    /\ pc = "returned"
    /\ pc' = "exited" /\ StopSignals
    /\ UNCHANGED <<env, plan, log, arch, cur, pipe, results, code>>

RunStep ==
    \/ Check \/ Connect \/ Facts \/ Machine \/ AsksSteps \/ Creates \/ NextSource \/ EndLoop
    \/ PutManifest \/ Closes \/ Verdict \/ Aborts
ReadStep ==
    \/ Panics \/ ReadVSS \/ ReadMachine \/ ReadCluster \/ OpenChannel \/ Query \/ WriteEvents \/ JoinsWriter
    \/ OpenSQLWriter \/ CopySQLWriter \/ EndSQLWriter
    \/ OpenExtensions \/ CopyExtensions \/ EndExtensions
    \/ OpenJobs \/ BeginStep \/ CopyJobOutputs \/ EndJobs
PipeWriter == Offers \/ OfferRefused \/ WriteEnds
PipeReader == SinkTakes \/ SinkBreaks \/ SinkEnds \/ Shuts

HostAlive == ~killed /\ pc # "exited"
HostMain == HostAlive /\ (((RunStep \/ ReadStep \/ PipeReader) /\ UNCHANGED sigVars) \/ Exits)
Writer == HostAlive /\ PipeWriter /\ UNCHANGED sigVars
HostHandler == HostAlive /\ Handles /\ UNCHANGED hostVars
HostOperator == HostAlive /\ Signal /\ UNCHANGED hostVars

HostNext == HostMain \/ Writer \/ HostHandler \/ HostOperator
HostSpec == HostInit /\ [][HostNext]_allVars
\* The three goroutines run while they can.  The machine answers: the calls
\* into Windows and PowerShell are taken to return, and sqlBounded ends the
\* queries.
HostFairSpec == HostSpec /\ WF_allVars(HostMain) /\ WF_allVars(Writer) /\ WF_allVars(HostHandler)

-----------------------------------------------------------------------------
(* Properties.                                                               *)

Statuses == {"read", "absent", "refused", "failed", "skipped"}
HostTypeOK ==
    /\ SigTypeOK
    /\ pc \in {"check", "connect", "facts", "machine", "steps", "create", "loop", "reading", "manifest",
               "close", "verdict", "abort", "returned", "exited"}
    /\ env.facts \in BOOLEAN /\ env.decided \in BOOLEAN /\ env.match \in {FALSE, env.facts}
    /\ (pc = "reading") = (cur.at # "idle")
    /\ pipe.writer # None => cur.at = "writing"
    /\ \A i \in DOMAIN results : results[i].status \in Statuses
    /\ code \in {0, 2, Running} /\ (code # Running) = (pc \in {"returned", "exited"})

FilesOf(res) == {x.entry : x \in {y \in res.files : y.verdict = "copied"}}
Listed == UNION {FilesOf(results[i]) : i \in DOMAIN results}
Names == {arch.entries[i].name : i \in DOMAIN arch.entries}
Copied == {n \in Names : Len(n) = 3}
Kept_ == arch.there /\ arch.closed

\* An exit code of zero is a promise to a scheduled task: every source of the
\* run was read or is not there or was refused, the archive closed with its
\* manifest, no entry of it is cut, and the manifest lists exactly the files
\* it holds.
ExitZeroIsWhole ==
    code = 0 =>
        /\ Kept_ /\ <<"MANIFEST.txt">> \in Names /\ plan = <<>>
        /\ \A i \in DOMAIN arch.entries : arch.entries[i].whole
        /\ \A i \in DOMAIN results : results[i].status \in {"read", "absent", "refused"}
        /\ env.match /\ env.steps \in {"read", "refused"}
        /\ Copied = Listed

\* A run that has returned leaves a whole archive, none, or one it said it could
\* not remove; and a listed file is in the archive.
AbandonedLeavesNothing ==
    pc \in {"returned", "exited"} /\ arch.there =>
        \/ arch.stray
        \/ /\ arch.closed /\ ~arch.broken /\ <<"MANIFEST.txt">> \in Names
           /\ \A n \in Listed : \E i \in DOMAIN arch.entries : arch.entries[i] = [name |-> n, whole |-> TRUE]

\* An event log that was read and kept holds every event its queries match, or
\* says why not: the query was not run, or the event is not newer than the time
\* its truncated list stops at; and an event whose XML is bad is counted as such.
\* In particular a stop never leaves a shortened list in an archive.
EventsAreTold ==
    Kept_ => \A i \in DOMAIN results :
        LET res == results[i]
            c == res.name
            newerThanCut(q, n) == \A x \in res.cut : x[1] = q => log[c][n].time > x[2]
        IN  c \in DOMAIN log /\ res.status = "read" =>
                \A q \in Matched(c) \ res.notRun :
                    /\ q # "2c" => \A n \in Parsed(c, q, Len(log[c])) :
                          newerThanCut(q, n) => <<q, log[c][n].id>> \in res.list
                    /\ q = "2c" => res.counted = Cardinality(Parsed(c, q, Len(log[c])))
                    /\ \A n \in Matching(c, q, Len(log[c])) :
                          log[c][n].bad /\ newerThanCut(q, n) => res.bad

\* What the budget keeps out comes after all that it lets in, by the time of the
\* files and whatever they are asked in several steps; and the active log of SQL
\* Writer is kept out only when it alone is over the budget.
BudgetIsAPrefix ==
    \A i \in DOMAIN results : \A x \in results[i].files : x.verdict = "budget" =>
        /\ \A y \in results[i].files : y.verdict = "copied" =>
              \/ y.entry[2] < x.entry[2]
              \/ /\ y.entry[2] = x.entry[2]
                 /\ Before(results[i].name, y.file, x.file)
        /\ results[i].name = "sqlwriter" /\ x.file.active =>
              x.file.size > Budget /\ TailBytes > Budget

\* The command ends, whatever the disk and the pipe do, and a ctrl-c it was sent
\* cancels it unless it ends first.
HostReturns ==
    /\ <>(pc = "exited" \/ killed)
    /\ pending ~> (cancelled \/ killed)

\* The archive: typed, whole when the code says so, and never left half written.
HostKeepsItsWord == HostTypeOK /\ ExitZeroIsWhole /\ AbandonedLeavesNothing
\* Its content: no event and no file is missing without a word.
WhatIsReadIsTold == EventsAreTold /\ BudgetIsAPrefix
=============================================================================
