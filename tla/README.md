# sql-auditor: a TLA+ verification of the collector

sql-auditor is a read-only collector for SQL Server: one binary that reads an
instance through a corpus of T-SQL scripts, writes what they return into a run
folder with a manifest, and zips the folder. This directory models the parts of
it whose correctness depends on the order in which things happen, checks them
with TLC on small instances, and proves the most important results for every
value of the constants with TLAPS.

- [The system](#the-system): its parts, their state, their hazards
- [The modules](#the-modules): what models what, and how it maps to the code
- [The runs](#the-runs): what each run asks, its bounds, and what it shows
- [The proofs](#the-proofs): what is proved, and along which argument
- [What the checks found](#what-the-checks-found)
- [What is not modelled](#what-is-not-modelled)
- [The plan](#the-plan)

All paths below are relative to `src/`; `collect.go` is `src/collect/collect.go`.

## The system

| Part | State it keeps | Operations | Talks to |
|---|---|---|---|
| **Run loop** (`collect.go` `Run`, `runUnit`, `settleRun`; `cancel.go`, `maxduration.go`, `dropped.go`) | the plan's position, the sets of held-back and dropped databases, `exit`/`earned`, the manifest's entries and flags, what the observer was told | refuse, connect, preflight, list targets, plan, run a unit, mend the session, note drops, skip, settle, archive | server, watch, observer, disk |
| **Blocking watch** (`watch.go`) | under a mutex: `armed`, `spid`, `worst`, `fired`, `waiters`, `stopped`, `recovered`; the goroutine's locals | `arm`, `disarm`, `setSession`, `close`; `firstPoll`, `loop`, `tick`, `recover` | its own server connection, the armed unit's cancel function, the manifest |
| **Contexts** (`cancel.go`, `maxduration.go`, `watch.go`) | the operator's stop, the bound's cause, the unit's cause, deadlines | cancel with a cause; first cause stands | run loop, watch |
| **Run folder, lock, archive** (`output.go`, `archive.go`, `collect.go` `lockRun`, `prepareRunFolder`, `discardSuperseded`) | folders, archives, lock files and `.superseded` names on the disk | choose a name, lock, set the previous run aside, make the folder, zip, discard or keep, release | other processes, a crash, the operator |
| **Coverage of the replaced run** (`collect.go` `previousRunLost`...) | none: compares two manifests | scope, collectors, settings, counts, windows | run loop |
| **Manifest** (`manifest.go`) | entries per query, per database, errors, warnings, capped list of blocked waits | record, write with a fallback to a temporary directory | run loop, watch |
| **Connection attempts** (`dial.go`, `watch.go` `connWithin`, `runner.go` `Open`, `Connect`) | per attempt: its sockets, whether its caller has gone, its two deadlines; the slots of the pool | dial, log in, answer, give up, close what comes late | `database/sql`, the driver, the watch, the wizard |
| **Targets and plan** (`runner.go`, `observer.go`, `queryset.go`) | the query set and the list of databases | parse headers, select, order, unfold into units | run loop, wizard |
| **Run writer** (`runfile.go`) | bytes written against a budget, whether a plan was seen | write or refuse | special collectors, manifest |
| **Special collectors** (`querystore.go`, `plancache.go`, `blocking.go`, `deadlocks.go`, `modules.go`...) | an index document each, a truncation flag | fan out, write documents | run writer, server |
| **Wizard** (`tui/`) | the state of the screens, owned by one goroutine; the job behind the screen; the remembered exit code | key, tick, signal, result of a job, panic | run loop through an observer, one channel of events |
| **Command line, gauge, interrupt** (`cmd/sql-auditor`) | flags; under a mutex, what the gauge has painted; the signal handler | parse, run, repaint, first and second ctrl-c | run loop, terminal |
| **Host read** (`host/`) | its archive, the result of each source, the budgets of the files copied | read the instance, the machine, the event logs and the files; archive; abandon | Windows, the instance, a pipe between reader and archive |
| **Configuration, linters, grants, encoding** | none | parse, scan, format | all |

How they interact. `Run` makes three nested contexts (the operator's, the
bound's, the unit's) and calls everything else. The blocking watch runs beside
it in a goroutine on a connection of its own, and meets it in three places: the
mutex-guarded fields, the unit's cancel function, and the manifest at the end.
Every connection is taken through `connWithin`, which leaves a goroutine behind
when it gives up. What a unit read goes through one writer and its budget into
the folder, the index of its directory and the manifest. The wizard and the gauge
only observe, through callbacks made in order by `Run`; the wizard runs it as a
job of its own and may be asked to leave while it runs. Two collections meet only on
the disk. The host read shares nothing with the collection but the signal handler.

Where it is hard:

- **Concurrency**: the watch releases its mutex around every query, so what it
  read of one unit is used when another may be armed. Two processes race for a
  run name between a look and a claim.
- **Causes**: a call that fails may have been ended by the operator, the bound,
  the watch, its own deadline, the server, or several at once. The exit code,
  the manifest and the screen each give one account of it, and the account is
  put together from several reads of the contexts, between which another cause
  may land.
- **Failure half way**: a unit that lost its connection, a rename that worked
  followed by one that did not, a manifest that had to go elsewhere, a process
  that died in the middle.
- **Giving something up**: the previous run of the day is deleted at the very
  end of a sequence any step of which may have lost something.
- **What is left behind**: a login that never answers, a job whose screen was left, a
  reader whose archive is gone. Each goes on after its caller has turned away.

What makes each part correct is stated as the properties below; what could make
it incorrect is in the list of hazards of `PROJECT.json`, each with the line at
which it would bite and the properties that would catch it.

## The modules

| Module | Models | Extends |
|---|---|---|
| `BlockingWatch` | `watch.go`: the watch and its side of the run loop | |
| `RunLoop` | `collect.go` `Run`, from its first refusal to its return | |
| `RunContract` | what a run promises whoever launched it (abstract) | |
| `RunFolder` | the disk: several processes, crashes, reruns of a day | |
| `ArchiveContract` | what the archives of a directory promise whoever keeps them (abstract) | |
| `Planning` | what a run sets out to collect: gates, targets, units, window (operators) | |
| `Rerun` | the runs of one day, and the comparison that decides which are deleted | `Planning` |
| `Connecting` | `connWithin`, the dialer and the pool of `database/sql` as the code relies on it | |
| `Collectors` | a unit from the rows it read to the manifest's entry: the writers, their indexes, the budget | |
| `Wizard` | `tui/`: the event loop, the screens' state machine, the jobs behind them | |
| `Interrupt` | `interruptible`: the two ctrl-c | |
| `Command` | `collect` around `Run`: the gauge, its ticker, the lines, main's last steps | `Interrupt` |
| `Host` | `host.Run` and `runHost`: the sources, the stream, the budgets, the archive | `Interrupt` |
| `BlockingWatchProofs`, `RunLoopProofs`, `RunFolderProofs`, `RerunProofs`, `ConnectingProofs`, `CollectorsProofs`, `WizardProofs` | theorems | their component, TLAPS |
| `InterruptProofs` | theorems about both commands that `Interrupt` is composed with | `Command`, `Host`, TLAPS |
| `MCBlockingWatch`, `MCRunLoop`, `MCRunFolder`, `MCRerun`, `MCConnecting`, `MCCollectors`, `MCWizard`, `MCCommand`, `MCHost` | instances for TLC | their component |

Each module declares its constants with a named assumption. An operator whose
name has a suffix after an underscore (`heldBack_never`, `lockIsFree_anyway`)
is what the definition under it would be after a plausible slip in the code. It
is used by no action; a property is only kept when TLC finds it violated once
the slip replaces the definition (`PROJECT.json`, "mutants").

### BlockingWatch

A critical section of `watch.go` is one action; a query is two steps, the moment
the server evaluates it and the moment its answer is used. The run loop appears
as its calls: `Arm`, `RowsRead`, `CallFails`, `AsksCause`, `Disarm`, the reconnect between
units, and closing. A unit that fails reads the two causes and the watch's fields at three
places, and the watch may fire between any two: `CallFails` reads `cut` as the call returns,
`AsksCause` reads `blocked` once the connection is discarded, and `Disarm`, deferred on every way
out of `runUnit`, reads the rest. So too for a watch that gives up: `GiveUp` reads the run's
context without the lock, `Stops` records the death under it.

| Code | Model |
|---|---|
| `armed`, `spid`, `worst`, `fired`, `waiters`, `stopped`, `recovered` | variables of the same names (`wspid` for the watch's `spid`) |
| locals of `tick` and `recover` | `gpc`, `gspid`, `sample`, `attempt` |
| the unit's and the bound's context causes | `cause`, `runCause` (first cause stands) |
| `recordWatchOutcome` | the operator of that name: which of four accounts the manifest gives |
| the server's waits | `waits`: a session may start to wait, wait longer, or stop, at any time |

The manifest's list of blocked waits is `blockedWaits`, with the rule by which a
cancellation takes the place of a plain wait when the list is full (`kept`,
`displaceable`), for a list of `MaxBlockedWaits` places where the code has 100.

`asked`, `queries`, `gap`, `excused`, `reached`, `failures`, `failedLive` and `last`, and the
field `about` of a sample, are history: no action's guard reads them. Durations are counted only
where the code compares them, which is the length of a wait against the limit.

### RunLoop and RunContract

`Run` is sequential, so its program counter `pc` has one value for each call that
waits on something, and a call may succeed only while its context lives. The
reads of a context that follow a return are in the step that makes them: a stop
may land between any two. `runUnit`'s five outcomes (`ok`, `error`, `notFound`,
`blocked`, `dropped`) are those the loop tells apart. `found` is
history: how far the run had come when the bound passed. `finish`, `settleRun`, `stoppedOr`, `heldBack`, `endedByBound`, `sessionLost` keep their names.

`RunContract` is the promise without the steps: a planned unit is settled at
most once and for good; the run ends once; it is complete only when no unit is
missing; an earlier run is given up only for a complete one. `RunLoop` maps to it
with `status`, `outcome` and `earlier` (`INSTANCE RunContract WITH ...`), and
`KeepsContract` is both model-checked and proved.

### RunFolder and ArchiveContract

Each operation on the disk is one step, and a process may be killed before any
of them, which runs no deferred call. A name is a folder, an archive beside it
and a lock beside both. Name 0 is the day's; the others are those `--keep` tries
in order (`RunFolderFor`). All runs fall in the same second, the worst case for
names made of the time: every `.superseded` name has to be searched for. A folder
is the set of the runs that wrote into it, an archive the run it is of.

The disk may refuse to remove a failed archive (`removesZip`) or a lock (`Releases`), at most
`MaxLeft` times. The code drops both errors (`archive.go:69`, `collect.go:3368`), so half an
archive, or a lock, may be left without anybody's death. `zipLeft` and `lockLeft` record whose
they are. That no archive and no lock is left for any *other* reason is what
`TruncatedIsExplained` and `LockIsReleased` say.

`OperatorDeletesLock` is the one thing asked of the operator: as `lockRun`'s message
says, a lock whose run is over is deleted by hand.

`ArchiveContract` leaves the disk out: a run's archive is opened once, closed for good or
taken away again, and a closed one is given up only to another that is closed. `RunFolder` maps
to it by what the directory shows of each run (`archiveOf`), under whatever name; thus a rename
is a stutter, and two renames that meet a death are two of them. `KeepsArchiveContract` is both
model-checked and proved.

### Planning and Rerun

`Planning` translates the pure functions a run begins with: `planScripts` and the gates of
`skipReason`, the two passes of `SelectTargets` with the widening for system databases
and for the distributor, `planUnits`, `queryStoreUnits` and `resolveWindow`. A list of
patterns is the set of the names it matches, instants are hours, and the text of a reason
is a record (`Reason`) that tells apart what `skipLoses` tells apart by text.

`Rerun` is a day of runs. A run is one step, which writes the manifest that the code of
`Planning` gives for the world as it is; between two runs the operator may type another
command, install another corpus or connect elsewhere, and the server may change. The
other outcomes are a run under which a database is dropped, a partial run, and a
run that dies. `previousRunLost` and everything it calls keep their names.

| Code | Model |
|---|---|
| `scopeOfManifest`, `runScope` | `manifestOf`: the fields of a manifest the comparison reads |
| `prepareRunFolder`, `discardSuperseded` | `setsAside`, `completes`: what is in place, what is left aside |
| `otherServer`, `sameAddress`, `sameDatabase` | `otherServer`, over what the manifest records of a target (`Name`, `Place`), withheld or not |
| `scopeLost`, `settingsLost`, `collectorsLost`, `skipLoses`, `countLost`, `windowLost` | the operators of those names |

`brought` and `unchanged` are history. `covers` is the reference: what it is for one
manifest to have all that another has, without any of the notions of the
comparison (skips, reasons, narrowings). Two choices the code documents are part of it: two sliding
windows may differ by the hours between the runs, and what a partial unit holds is not
looked into. The clause of `optionsLost` about the profile is translated and
unreachable, since the profile is part of the folder's name (`RunFolderName`).

### Connecting

| Code | Model |
|---|---|
| `connWithin`: its select, its reading of the two contexts, `abandon` | `outer`: the caller, one attempt after another on one pool |
| the goroutine that calls `DB.Conn`, and the channel of one place it answers on | `inner`, `got` |
| the goroutine that closes what comes late | `late` |
| `attempt` (`conns`, `abandoned`, under its mutex) and the dialer of `dial.go` | `conns`, `abandoned`, `sock` |
| the context of the attempt and the deadline of the login | `clock`: passed by the clock, fired by its timer, the budget spent |
| `database/sql`: slots, idle connections, waiting requests, the opener, the tries after a bad connection | `numOpen`, `free`, `requests`, `opener`, `tries` (external: modelled from what the code relies on) |

A server may accept a socket and never say another word. That is the reason `dial.go`
exists: the driver's login has no deadline, so only closing the socket ends it. The
deadline is read from the clock by the dial before the timer cancels anything
(`clock.passed` before `clock.fired`), which is why the two are apart. A dial has a timeout of
its own, and so has a lookup (`NetErrors`): their error satisfies
`errors.Is(err, context.DeadlineExceeded)` though no deadline of the attempt has passed, and
`connWithin` cannot tell it from one. `blamed` is history: the attempts reported as a login
timeout.

### Collectors

One unit after another, each of any of the seven writers (`query-store-detail`,
`query-store-profiled`, `object-definitions`, `deadlock-graphs`, `blocked-process-reports`,
`plan-cache-plans`, and a plain document), row by row. A row has a reason to be left out
(`writerFor`, and one operator per writer, in the order the code tests them), or is
written, or is refused by the budget (`Fits`), or its write fails and leaves half a
file (`WriteFails`). The index is written last and outside the budget
(`WritesIndex`). Any text that is written may hold the literal of a plan, which the writer looks for in
all of them (`containsShowplan`, `runfile.go:150`). `End` is the rest of `runUnit`: the count of bytes, the disclosures of
`discloseWrites`, the entry. `disk` is what is on the disk, which the code cannot
see; `payload` and `kinds` are history. The names and numbers of an index are taken to hold no plan. The names of files are numbers with the suffixes
that `moduleFileName` gives them, as a name already taken is where an index may lie; `used`
is the names a directory has handed out, whether their file was written or not.

### Wizard

The loop takes one event at a time: a key (`PressKey`, with every screen's transitions in
`Key`), the result of a job (`Deliver`), a panic (`DeliverPanic`). After each, the hook
`stateChanged` starts the job of the step that was entered and cancels that of the step
that was left. A job (connect, verify, collect) works from the state it was
handed, looks at its context at the places the code does, and then is in `sending` until
the loop takes its event or, being dead, it lets go (`Release`). `RunRefuses` ...
`RunReturns` are the steps of `collect.Run` that the wizard can tell apart. Any
goroutine may panic (`Panics`, `OtherPanics`), and other processes run into the same
directory (`OtherRun`). `stale`, `stopped`, `named`, `replaced`, `others` and `crashed` are history.

### Interrupt, Command and Host

`Interrupt` is one goroutine: it takes the first signal, says so, hands the signal
back to the system and cancels. `Command` and `Host` extend it and are composed with it by
their `Next`.

`Command`: every method of the gauge holds its mutex throughout, so a call is one
operator on the pair of the gauge and the screen (`Painted`, `Cleared`, `Printed`...). What
writes to the terminal past the gauge does not. `Run` is the order of its callbacks;
`main` stops the ticker, waits for it, takes the gauge down and prints the error.

`Host`: `Run`'s refusals, the archive, and each source in its own steps. `events` is
the long one: `OpenChannel`, one `Query` per query with its cap and its bad events, and
the merged list streamed through a pipe whose two ends (`pipe`) may each stop, fail or
panic. `sqlwriter`, `extensions` and `jobs` copy files, newest first, under a budget that
the first file too large closes. `vss`, `machine` and `cluster` write one entry
each. `log` and `arch.entries[i].whole` are the machine's and the disk's side; `arch.broken` is
`stickyWriter`'s first error. The files still to come are a set (`cur.todo`), of which the
step takes the one that the source's order puts first (`Due`, `Before`); what became of each is a
note (`Noting`), in its source's result. A record of a log is known by its place in it.

Two things are assumed of a machine (`HostAssumption`). The records of a log come newest
first, as `evtQuery` asks for them in reverse (`evt_windows.go:79`). A directory has one file at
most under the name of SQL Writer's active log. A source that reads a channel goes
by the channel's name, and by no other (in the code `020.events-application` and the like).

## The runs

Deadlock is checked in `command`, where what has exited stays so. In all the other
models the program stops, and what is left to happen (a connection that nobody asks
for, a process that is gone) is not a step.

A property that is a conjunction is named after what it is about; its parts have names
and comments of their own.

| Run | Bounds | Properties | Shows |
|---|---|---|---|
| `watch_safety` | 1 waiting session, 2 units, 2 session ids, waits 0..2 with the limit at 2, 2 retries, 1 identity query, a list of 1 wait | `OutcomeIsTrue`, `CreditedToItsSession`, `DeadWatchIsReported`, `BlameIsEarned`, `CancelHitsArmedUnit` | who the watch credits and cancels, what is said of each unit and of the watch, which waits are listed |
| `watch_live` | 2 sessions, 1 unit, 1 identity query, the limit at 1 | `IdentifyIsBounded`, `LongWaitIsEnded`, `CloseReturns` | a long wait is ended; closing returns |
| `run_loop` | 3 units: two on one database, one of the instance between them; with a maximum duration | `AccountsAgree`, `ExitZeroMeansWhole`, `DiscardNeedsWholeRun`, `StopIsNoFailure`, `HeldBackStaysBack`, `BoundCostsWhatRuns`, `KeepsContract`, `RunReturns` | the exit code, the manifest, the screen and the disk agree; the run keeps its contract and returns |
| `run_folder` | 2 processes (symmetric), 3 runs, over an earlier run or none, 1 refused removal | `DiskIsSound`, `NoMixture`, `PairIsOneRun`, `ZipNameIsFree`, `EvidenceIsKept`, `KeepsArchiveContract` | nothing is merged, mispaired, half left or lost; the archives keep their contract |
| `rerun` | 3 runs, 2 collectors of which one has 10 editions, 3 databases (one published, one its distributor, one system), 15 command lines, 6 servers, 3 targets; 2 edits or mishaps, 2 hours; the day begins with at most one thing out of the usual | `AccountIsSound`, `ReasonsAreTrue`, `NothingIsLost`, `NamedOnce`, `RerunReplaces` | a run is deleted only for one that has all it had |
| `connecting` | 2 attempts on a pool of 1, 2 tries each, 1 refill | `NothingIsLeft`, `AnswerIsTrue`, `AttemptEnds` | an attempt given up leaves nothing behind; what one answers is true |
| `collectors` | 3 units of any writer over 1 database, a budget of 3 bytes, up to 2 or 3 rows of every shape | `ManifestCountsAll`, `IndexIsSound` | indexes are true and complete; the manifest counts and discloses what is there |
| `wizard` | 2 addresses of 2 instances, 1 profile, 4 jobs of which 2 alive at once, 1 panic, 1 run of another process | `NothingIsCutShort`, `RunIsTheAskedOne`, `CollectingIsLeft` | no collection is cut by the exit; the run is the one that was asked for |
| `command` | 3 units, 3 presses of ctrl-c | `ScreenIsKept`, `StopIsObeyed` | no line lands on the gauge; a stop is obeyed |
| `host` | 5 plans over every kind of source, logs of 4 and 1 records, 4 files, a cap of 1 event, a budget of 2 bytes, 1 ctrl-c | `HostKeepsItsWord`, `WhatIsReadIsTold`, `HostReturns` | exit 0 is a whole archive; what is missing is said; the command ends |
| `wizard_stale`, `rerun_writer` | as `wizard` without profile, panic and others; 2 runs, 1 edit | `CancelledAnswerIsDropped`, `SkippedResultIsKept` | violations: see [What the checks found](#what-the-checks-found) |

Why the bounds are enough to be interesting:

- *Watch.* Two units are needed for a sample of one to meet the other, and two
  session ids for a reconnect to tell them apart or not. A limit of 2 lets a wait be seen
  below the limit first, which is a different path of `tick`. Two retries let the
  goroutine recover in the middle of its attempts. A list of one place is full after
  one wait, so that the second displaces it, is dropped, or is counted. Two sessions with
  one identity query, in the second run, make a session go unidentified.
- *Run loop.* Three units are the least for the first to mark its database, an
  instance-scope unit to have to run all the same, and the third to be held back.
- *Folder.* Two processes race; the third run meets what the first two left. To lose an
  archive takes a rerun that died between its two renames, a second that finished on
  what was left, and a third that sets that aside in its turn, hence the earlier run. One
  refused removal leaves half an archive or a lock in the way of the runs that follow.
- *Rerun.* Each command line, edition and server differs from the usual one in one way, one
  for each branch of the plan and of the comparison; two edits between two runs combine
  them. The third run is there because it is compared with the second alone. A day of 2
  hours and a clock of 1 tell a window compared by its length from one compared by its
  instants, and let a typed bound be in the past or in the future.
- *Connecting.* On a pool of one, the second attempt has to wait for what the first one,
  given up, still holds; two tries make a bad connection be tried again after the
  attempt was abandoned; one refill is a dial of the pool's own that no attempt owns.
- *Collectors.* Three units are the least for a plan of the first to be laid to
  the second and the count to be off at the third. Three bytes are refused in the middle of a
  unit whose file has two parts. Three modules whose names meet, one of them
  really named as the suffix would make another, are the case `moduleFileName` is for.
- *Wizard.* Four jobs: connect, be abandoned, connect again, and verify while the first is
  still alive; or connect, verify, collect and come back. Earlier results in one of the
  names make the operator answer for them; the other process takes a name after that. The
  suffixes of `--keep` are one more than the names that earlier runs and others can hold, so that
  one is always free.
- *Command.* Three units: a failure, a skip and a success may follow each other.
  Three signals: the first cancels, the second may come before the signal is handed back, and
  the third must kill.
- *Host.* One event over the cap, one bad event below it, one that two queries share; the
  active file the oldest, one file over the tail, one before the window. Each is a branch
  of `sources.go` or `events.go` and they meet in one source.

**Fairness.** Nothing is assumed of operators, servers or failures: a stop, a bound, a
key, a panic or another process may never come, and a server may stay mute.

- `BlockingWatch!FairSpec`: weak fairness of the goroutine's own steps (`Goroutine`) and of
  `Closed`, the return of `close` once the goroutine has gone. Every query and every
  reconnect of the watch has a deadline of its own (`watch.go:290`, `watch.go:317`,
  `watch.go:387`), so each is answered or fails.
- `RunLoop!FairSpec`: weak fairness of the run's own steps (`Run`): every call it makes is
  bounded by a deadline or by a context, and so returns.
- `Connecting!FairSpec`: weak fairness of each attempt's two goroutines, of the one that
  closes late answers, and of time: the budget ends, and a deadline that has passed
  cancels. Not of a login: what is shown is that everything ends although it never does.
- `Wizard!FairSpec`: weak fairness of the jobs' work, and of the channel of events, which
  serves the senders that wait on it. That a collection ends is `RunReturns`, here an
  assumption.
- `Command!FairSpec`: weak fairness of the callbacks of a run that goes on, of a unit
  once its context is done, of `Main` and of `Handler`; strong fairness of the ticker's end, as
  its select chooses between a closed channel, always ready, and one that fires once a
  second. A unit that was not cancelled may never end.
- `Host!HostFairSpec`: weak fairness of its three goroutines (`HostMain`, `Writer`,
  `HostHandler`). Calls into Windows are taken to return, which the code also takes for
  granted; the queries have a deadline.

That a unit whose context is done comes to its end rests, in `Command`, on the call it makes to the
server returning, which the comment of `main.go:1391` admits may take long.

**What the properties are about.** Each is stated in a comment above its
definition. The ones a reader should look at first:

- `CreditedToItsSession`, `CancelHitsArmedUnit`: with the mutex released around every
  query, the watch neither blames nor cancels what it did not look at, across
  reconnects (on one session it may still credit a sample that is late: see below).
- `BlameIsEarned`, `RowsReadIsTrueInTheCall` (a part of `OutcomeIsTrue`): what the manifest says
  of a watch that died, and of a unit it fired on, with the context read in one step and
  the record made in a later one.
- `ExitZeroMeansWhole`, `DiscardNeedsWholeRun`: exit 0, and the deletion of the earlier
  run, are said only of a run in which nothing is missing.
- `StopIsNoFailure`, `AccountsAgree` (its parts `BoundFlagIsTrue`, `VerdictFailedIsOwn`): which
  of the causes is blamed, when several are there by the time the code looks; its parts
  `ScreenAgreesWithManifest`, `GaugeReachesTotal`: two reports of one run. Once the operator
  has stopped the run no unit is an error entry. A unit that the bound cut is one; the bound
  excuses the exit code alone.
- `BoundCostsWhatRuns`: whichever call the bound finds under way, none of the units after it is
  tried, and a run found before its lock leaves the earlier one in place.
- `HeldBackStaysBack`: no unit starts on a database on which the watch cancelled one, or which was
  found dropped.
- `NothingIsLost`: whatever changed between the runs, and in however many steps, all that
  a run of the day had is in one run still on the disk. `RerunReplaces` is the
  other side of it: the comparison is not so careful that it keeps every rerun.
- `NoMixture`, `PairIsOneRun`, `DiskIsSound`, `EvidenceIsKept`: nothing on the disk is
  merged, mispaired or destroyed, with processes racing and dying.
- `KeepsArchiveContract`: of all that happens on the disk, whoever keeps the archives sees no
  more than their contract.
- `NothingIsLeft`, `AttemptEnds`: giving up is safe at every point of a login.
- `IndexIsSound`: whatever was refused, failed or cut before it, an index names what is there,
  all of it, and gives no reason that is false of the server.
- `RunIsTheAskedOne`, `NothingIsCutShort`: what the operator sees, answers and gets are of one
  attempt, and no crash of any goroutine ends the program in the middle of an archive.
- `HostKeepsItsWord`: zero is said of an archive that is whole and closed, with a manifest that
  lists what it holds, whoever of the reader and the archive gave up first.
- `WhatIsReadIsTold`: a shortened list of events says from when on it is short.

## The proofs

`tlapm` checks eight modules with no step left out. A theorem holds for every value of the
constants that satisfies the module's assumption.

**`BlockingWatchProofs`** (any number of sessions, units, session ids, retries,
identity queries). The invariant `IInv` relates three views of which unit is meant: the
run loop's phase, the fields under the mutex, and the goroutine's locals, which
were read in an earlier critical section and may be stale. `SampleFromAsked` is what
carries a sample across the unlocked query: it was read on the session the
goroutine asked about, so that a comparison of session ids is enough for
`CreditedToItsSession`. `QueriesAreRecorded` counts the queries against the records
they leave, which bounds them (`IdentifyIsBounded`) even though a query in flight when
its unit ends leaves none. On top of it, `OInv` says why a unit was cut at each place of
the goroutine (`CauseIsExplained`), what is known of a call that has failed at each place of
`runUnit`'s way out (`EndingIsExplained`), what a retry owes (`GapIsBeingClosed`), and
that the list of waits is sound (`SoundList`); the lemmas about the list need a least
victim, found by the well-founded order of its positions. `FailuresAreCounted` ties the failures since
the last answer to the attempt under way, and says that a watch that is giving up had all of its
attempts fail, the last of them in a run that was not stopping; a stop that comes after it
disturbs neither. Proved: `TypeOK`, `CreditedToItsSession`, `DeadWatchIsReported`, `BlameIsEarned`,
`IdentifyIsBounded`, `OutcomeIsTrue`, and the action property `CancelHitsArmedUnit`.

**`RunLoopProofs`** (any plan, any assignment of units to databases, bounded or not).
`ExitZeroMeansWhole` is not inductive: it speaks of the end. `IInv` says what the run
already knows of the units behind it at each place of the loop: a unit that is not
whole is *paid for*, by `exit`, by the bound's flag or by the stop's
(`BehindIsPaid`), or is about to be (`CutIsPaid`). `AheadIsPending` and `OutcomeIsFiled` keep
a unit from being filed twice, which is what the refinement needs;
`BlockedIsHeld` and `DroppedIsMarked` tie the units that were cancelled or found dropped to the two
sets of databases that are skipped. The reports need more (`Accounts`): screen and manifest agree
on every unit that is behind (`Agreement`), the bound's flag is what the bound did
(`FlagIsTrue`), and the verdict of failure is earned by units that no bound or stop had
cut (`FailedAloneIsBehind`, `EarnedIsOwn`). Proved: `TypeOK`, `ExitZeroMeansWhole`,
`DiscardNeedsWholeRun`, `AccountsAgree`, the action properties `HeldBackStaysBack`
and `StopIsNoFailure`, `BoundCostsWhatRuns`, and `KeepsContract`: initial states map to initial
states, and every step is a step of `RunContract` or a stutter.

**`RunFolderProofs`** (any number of processes and runs). The argument is the lock's. A
process past `lockRun` holds the lock of its name (`LockIsHeld`), so two of them have
two names (`Alone`), and each step writes only under its own name (`Writing`). The
`.superseded` names need more: only runs of the day's name use them
(`DayIsSetAside`), and of those one at a time is past the lock. Hence what a
process knows of the disk between the two renames (`MoveIsHalfDone`), and of the
folder it made (`FolderIsOwn`), nobody takes from it (`OthersDisk`). A crash, or a
refused removal, leaves a lock whose run is over (`over`) and which no live process holds, so the
operator's deletion is harmless. What stays on the disk is `SInv`: runs are numbered as they start, an archive
under a live run's number is that run's own (`ArchiveIsOwn`), and so is a lock
(`LockIsOwn`); hence an archive that is moved, overwritten or deleted is always one whose
successor is finished. `DiscardsRecorded` says that a run only plans to delete what has
a manifest, from the moment it looks to the moment it deletes. The refinement needs one thing
more: a process that has closed its archive still has it under its name when it deletes what
it had set aside (`ArchiveInPlace`); then each step changes what is shown of one run at most
(`OnDiskSteps`, `OneChanges`). Proved: `TypeOK`, `NoMixture`, `PairIsOneRun`, `ZipNameIsFree`,
`DiskIsSound`, the action property `EvidenceIsKept`, and `KeepsArchiveContract`: initial states map to
initial states, and every step is a step of `ArchiveContract` or a stutter. From the contract
alone follows `OneArchiveRemains`: a directory that ever held a finished archive holds one.

**`RerunProofs`** (any corpora, command lines, servers, targets and number of runs). All
properties of the run `rerun` are proved. The invariant `IInv` says that every manifest of the
day is sound: it accounts once for each unit, its reasons are true, its sliding window
ends with the run. `ManifestIsSound` is where the plan is looked into: the units that are
collected, the skips and the selection come of three passes over one corpus. `LosesNothing` then
takes two lemmas about two manifests: `LostNothing`, a comparison that finds nothing
lost means that the new run covers the old one, and `CoversTransitive`, so
that deleting the old run uncovers nothing that it covered. It is proved under
`NarrowingIsFixed`, that the editions of the corpus agree on which collectors
QUERY_STORE_DB_INCLUDE narrows; without it the theorem is false, which is the finding of
`rerun_writer`. The other theorems do not need it. `PlainRerunReplaces` rests on
`LaterWindow`: a window resolved later is never shorter.

**`ConnectingProofs`** (any pool, any number of attempts, tries and refills). The argument is
one of ownership. A socket is in one place at a time (`Distinct`): idle, held by the
caller, with the opener, or with the one attempt that carries it. `Places` says what
each goroutine has at each of its steps, `Recorded` that what an attempt carries is
in its list until it is abandoned, and `Where` that a socket not yet dialed is nowhere, an
open one is known, and one that has left its attempt was not closed by it. `SlotsAddUp` is
inductive once these are there: each step moves one slot from one holder to another, and the
lemmas on cardinalities (`TakingMore`, `TakingSwap`...) say so once. `Reasons` gives each error that
is on its way to the caller a cause that has happened, a deadline of the attempt or a timeout of
the network (`TimedOut`); `Blamed`, that each login timeout reported had one of the two. Proved: both safety
properties of the run, `NothingIsLeft` and `AnswerIsTrue`.

**`InterruptProofs`**, two components that share the handler of ctrl-c.

*Command* (any plan, any number of signals). Every writer to the terminal keeps
`Sound`, a relation between the gauge's memory and the screen, so that each interleaving does;
`Down` and `HandedBack` carry the two orders that matter, that `main` joins the ticker before
it clears the line, and that the signal is handed back before the context is cancelled.
Proved: `ScreenIsKept`, and `SecondSignalKills`, the safety half of `StopIsObeyed`, which
`HostSecondKills` proves of the host read too.

*Host* (any lists of sources, logs, files, steps and engines; any cap and budget; any number of
signals). `HostKeepsItsWord` speaks of the end, and of two things that are put together apart:
the entries of the archive, and the notes of the results. `Accounted` relates them at every
place between: what is listed is an entry that is whole, and, unless something has gone
wrong that the exit code will answer for (`Wrong`: a write error, a failed source, an error of
the source or of the pipe under way), no copied file goes unlisted and no entry is cut. It is stated
of the results taken, with those of the source under way (`Accounts`), so that each `Put` moves
both sides at once; the half entry that a pipe fills while it is read is the case that needs the
pipe's state (`Piped`). `Onward` is where the archive is at each place of `Run`, with
`Placed_` for the places of a source; `Concluded` keeps what was true when the code was
given.

For `WhatIsReadIsTold` a second invariant, `TellInv`. A source's list is complete only after its
last query, and a ctrl-c may leave it short anywhere: `TellsSoFar` says that every query is
still to be asked, not run with a reason, or told in full, and `SaysAll` that this holds *or the
run was cancelled*, except on the way to the manifest, which is only taken when it was not. It
is there that the check of the context at the loop's end is needed. What one query tells is a
lemma about its truncation (`QueryTells`): the records come newest first, so the ones that are
left out are no newer than the last one that was kept, which is the time noted in `cut`; later
queries only add (`TellsMore`). `Charged` carries the budget: the files to come follow those
noted in the order of the source (`Before`), a refusal leaves the budget below zero, so that
nothing is let in after it, and the active log is charged first, against the whole of it. That a
shortened list has a last record kept is by the well-founded order of numbers (`Smallest`,
`Greatest`). Proved: both safety properties of the run, `HostKeepsItsWord` and
`WhatIsReadIsTold`.

**`CollectorsProofs`** (any rows, any budget, any number of units). `Counted` and `Told` relate the
run's counters to the unit under way: what is spent is listed or the unit's, what has to be
disclosed is in the manifest or will be by what the unit wrote, and a unit writes only the
kinds of its own writer, so that `discloseWrites` cannot lay a plan to another's. For the index,
`Named` says that the files named are those that are whole, and, since a file written under a
name already there would break it, that every file on the disk is behind the next
name (`Behind`): by its rank and part, or, for a module, by the names handed out. That a
new suffix always exists (`NewName`) is the pigeonhole principle. `Spoken` says that the
files behind have had their word, `Reasoned` that no word is false, which is a lemma on the
order of each writer's reasons (`WritersAreHonest`). Proved: both properties of the run,
`ManifestCountsAll` and `IndexIsSound`.

**`WizardProofs`** (any addresses and profiles, any number of jobs, panics and other
processes). A first invariant, `IInv`, holds whatever answers go astray. `Sound` is what the
code of one job says of it, `Screen` what ties it to the screen: the job that still counts is
the current one and of the kind that the step waits for (`Behind`), and no job collects but
behind the screen of the collection (`Alone`). `DiskKnown` bounds what others took until the run
takes its name, so that one of the day's names is free (`FreeName`, by the pigeonhole
principle). `Answers` carries an exit status back to where it was earned. The second,
`Faithful`, is about the run that was asked for, and most of it holds until an answer of an
abandoned attempt is taken (`stale`): the server shown is of the address typed, and the
earlier run warned of is the one in the way (`AskedOne`); a job works from what the screen
still says (`WorksFrom`); what it took and wrote is where it was asked to go, or another
process has that name (`Offers`). Proved: both safety properties of the run,
`NothingIsCutShort` and `RunIsTheAskedOne`.

**Only model-checked.**

- The liveness properties (`LongWaitIsEnded`, `CloseReturns`, `RunReturns`, `AttemptEnds`,
  `CollectingIsLeft`, `HostReturns`, the first half of `StopIsObeyed`): fairness and `ENABLED` are
  beyond the prover.

Every safety invariant, every action property and both refinements that the passing runs
check are proved.

## What the checks found

Two runs expect a violation. Each checks one thing the repository says of itself and
the code does not do, and TLC's trace is the shortest story of how.

- `rerun_writer` (`collect.go:737`): a skip by QUERY_STORE_DB_INCLUDE is never taken for a
  loss, because unchanged patterns cannot have matched for the earlier run alone. They can,
  when a new binary gave the collector a writer in between: the results of the earlier run
  outside the patterns are deleted with it, though `docs/dba-guide.md:728` says that a
  collector skipped by a newer binary keeps the earlier run.
- `wizard_stale` (`tui/run.go:277`): a comment says the result of a cancelled attempt is
  dropped. The guard asks which screen is up: a job that looked at its context before it was
  cancelled delivers its answer to the attempt the operator started next. The safety
  properties of the wizard are stated for what is not `stale`.

Other behaviours met on the way, which the models contain and no run is kept for. None
is a broken promise as clear as the two above; each is where a reader of the
code may be surprised.

- *Watch.* A sample read during one unit may be credited to the next on the same
  session, since the guard compares session ids (`watch.go:255`). A session is counted after its
  identity query, so that a unit which ends meanwhile names a waiter and counts none
  (`watch.go:276`). A unit gets the sentence of one that had read its rows (`watch.go:767`) when its
  call failed for a reason of its own and the watch fires for it before it is disarmed
  (between `collect.go:3077` and `3038`), and when the operator's stop, or the call's own deadline, came
  before the watch in the middle of the call; `docs/max-duration-spec.md:731` settles the sentence
  for the bound alone. Hence the two exceptions of `RowsReadIsTrueInTheCall`. A stop that lands
  between the last look at the run's context and the lock (`watch.go:334`, `248`) leaves in the
  manifest of a stopped run that its watch had died. It had, by itself: `BlameIsEarned`.
- *Run loop.* A unit whose result is written and whose connection cannot be renewed
  afterwards is not counted as collected, and the run then ends in 1, documented as
  "nothing was collected" (`collect.go:2705`, `2711`). When the manifest had to be written
  elsewhere the archive is built without it, with exit 0 (`collect.go:2886`). A bound that passes while the run
  folder is prepared (`collect.go:2557`, `2569`) has the previous run set aside for one that
  collects nothing; it is not deleted.
- *Folder.* The errors of two removals are dropped: of an archive that failed
  (`archive.go:69`), which then has the final name and is half an archive, and of the lock
  (`collect.go:3368`), which then keeps every run of the day out until it is deleted by hand.
- *Connections.* A dial, or a lookup, that times out by itself is reported as a server that took the
  connection and did not complete the login (`runner.go:365`), though no connection was made: the
  network's timeout satisfies `errors.Is(err, context.DeadlineExceeded)`, and `BlameIsRight` allows for
  it. A late answer whose socket was closed goes back to the pool, which finds out
  at its next use (`watch.go:646`). A dial of the pool's own, for a request that has left, carries no
  attempt, and may wait on a mute server for ever (`dial.go:51`): with a pool of one, the
  attempts after it all time out. They do end, which is what `AttemptEnds` says.
- *Collectors.* A module whose text holds a whole plan as a literal is disclosed as plans of Query Store
  (`collect.go:2131`), as any payload is that was not written from the plan cache. A file that a failing write left half there is neither counted nor named
  (`runfile.go:145`, `collect.go:3133`). When the detail collector fails, the index of the profiled one
  says that it selected no queries (`querystore.go:686`).
- *Gauge.* What is written past the gauge may land on it: Run's summary after a tick, the
  handler's second line (`progress.go:243`; the debug log, not modelled, does too).
- *Host.* A signal after the last look at the context is announced as a removal, and the archive
  stays, whole, with exit 0 (`host/run.go:194`). The files a failed source had already copied are in the
  archive and in no list, with exit 2 (`host/sources.go:426`). An event that cannot be parsed is
  counted once for each query that meets it.

## What is not modelled

- *Time.* Durations are counted only where the code compares them. `@timeout`, the
  bound and the deadlines are events that may come at any moment.
- *Data.* Rows, documents, file contents and texts are left out but for what the
  properties tell apart. In `RunLoop` a collector's unit is one outcome; in `Collectors` it is its
  rows. Whether the earlier run is covered is one nondeterministic answer in
  `RunLoop` and `RunFolder` (`mayDiscard`, `discards`); `Rerun` computes it, with each
  run as one step. `--keep`, whose names replace nothing, is in `RunFolder` and `Wizard` only.
- *Disk, below the file operation.* A rename, a removal and an exclusive creation are
  atomic; `RemoveAll` of a folder either empties it or leaves it; a crash loses nothing
  that was written.
- *Of the wizard*: the toggles of the options screen other than the profile and `--keep`,
  the password and the `.env` file's content, the grant screens (which write one
  script), the counters of its progress bar.
- *Of the command line*: the parsing of flags, the commands `check`, `env`, `queries` and `version`, the
  debug log.
- *Of the host read*: what each source asks of Windows, and the text of its files.
- *Of the collectors*: `blocking.go`, which rearranges rows in memory, and `encode.go` and
  `resultset.go`, which turn rows into text.
- *Not at all*: the T-SQL corpus, which the server runs; rendering and terminal
  control; Windows system calls; the linters and the parsing of configuration
  files, headers and durations, which are lexical, sequential, and covered by the
  repository's tests.

## The plan

Done: all the parts in which something runs concurrently, may fail half way or is given up
on, each with its instances; proofs of all the safety properties of the nine modules. What is left,
the most consequential first:

1. **Composition**: `Wizard` over `RunLoop` in place of the steps `RunRefuses` ... `RunReturns`, the
   contract between them being `RunContract`.
2. **A day over a disk**: `RunFolder` implements `Rerun`'s steps, in which a run is atomic, as it
   already implements `ArchiveContract`.
3. **Pure algorithms**, each against a reference definition over bounded inputs: durations
   (`duration.go`), the precedence of settings (`config.go`), truncation (`resultset.go`).
